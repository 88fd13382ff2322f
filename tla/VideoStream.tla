---------------------------- MODULE VideoStream ----------------------------
(***************************************************************************)
(* One video service of the controlled side: the subscriber maps of        *)
(* service.rs, the server's operations on them, and the service's thread,  *)
(* the capture loop of video_service.rs with its frame controller.         *)
(*                                                                         *)
(* The server's operations hold the server's lock, so one of them runs at  *)
(* a time (`call`); the service's thread does not, and takes the lock of   *)
(* the maps for one access at a time.  Each such access is a step.         *)
(*                                                                         *)
(* An encoder is fresh when it is created and its first frame is a key     *)
(* frame.  Leaving the loop (SWITCH, an error, nobody left) drops it.      *)
(***************************************************************************)
EXTENDS Naturals, FiniteSets

CONSTANTS
  Conns,        \* the connections
  AckRequired,  \* those whose client confirms each frame itself
  MaxLag,       \* bound: this many or more frames unfetched are one case
  MaxAsks,      \* bound: requests of the connections
  MaxSwitches,  \* bound: restarts of the encoder for reasons not modelled
  NoConn

VideoAssumption ==
  /\ AckRequired \subseteq Conns
  /\ MaxLag \in Nat \ {0} /\ MaxAsks \in Nat /\ MaxSwitches \in Nat
  /\ NoConn \notin Conns

VARIABLES
  phase,          \* phase[c]: out, in, notified (its loop has ended), gone
  subscribes,     \* ServiceInner.subscribes
  new_subscribes, \* ServiceInner.new_subscribes
  active,         \* ServiceInner.active
  refresh,        \* the option OPTION_REFRESH
  call,           \* the call of Server::subscribe under way
  pc,             \* where the service's thread is
  fresh,          \* the present encoder has sent nothing yet
  got,            \* got[c]: c has a frame of it, since it was promoted
  send,           \* VideoFrameController.send_conn_ids
  fetched,        \* fetched_conn_ids of the wait
  notified,       \* ids in the channel of FRAME_FETCHED_NOTIFIERS
  listed,         \* DISPLAY_CONN_IDS of this display
  queue,          \* queue[c]: frames sent to c and not fetched
  owed,           \* a refresh was asked for and no key frame sent since
  asks, switches

maps == <<subscribes, new_subscribes>>
frames == <<send, fetched, notified, listed, queue>>
bounds == <<asks, switches>>
vars == <<phase, maps, active, refresh, call, pc, fresh, got, frames, owed, bounds>>

NoCall == [conn |-> NoConn, sub |-> FALSE, at |-> "none"]

Calls == [conn : Conns, sub : BOOLEAN, at : {"subscribes", "new_subscribes", "apply"}]
         \union {NoCall}

InLoop == {"opened", "clear", "top", "checks", "frame", "snap", "callback",
           "swap_go", "swap_switch", "encode", "record", "wait"}

Init ==
  /\ phase = [c \in Conns |-> "out"]
  /\ subscribes = {} /\ new_subscribes = {}
  /\ active = TRUE
  /\ refresh = FALSE
  /\ call = NoCall
  /\ pc = "rest"
  /\ fresh = TRUE
  /\ got = [c \in Conns |-> FALSE]
  /\ send = {} /\ fetched = {} /\ notified = {} /\ listed = {}
  /\ queue = [c \in Conns |-> 0]
  /\ owed = FALSE
  /\ asks = 0 /\ switches = 0

----------------------------------------------------------------------------
(* The maps. *)

OnSubscribe(c) ==
  /\ new_subscribes' = IF c \in subscribes THEN new_subscribes
                                           ELSE new_subscribes \union {c}
  /\ UNCHANGED <<subscribes, got>>

OnUnsubscribeEstablished(c) ==
  /\ subscribes' = subscribes \ {c}
  /\ UNCHANGED new_subscribes
  /\ got' = [got EXCEPT ![c] = FALSE]

(* got is the model's: a connection that leaves starts anew. *)
OnUnsubscribe(c) ==
  /\ subscribes' = subscribes \ {c}
  /\ new_subscribes' = IF c \in subscribes THEN new_subscribes
                                           ELSE new_subscribes \ {c}
  /\ got' = [got EXCEPT ![c] = FALSE]

SwapNewSubscribes ==
  /\ subscribes' = subscribes \union new_subscribes
  /\ new_subscribes' = {}

HasSubscribes == subscribes # {} \/ new_subscribes # {}

Ok == active /\ HasSubscribes

----------------------------------------------------------------------------
(* The server, its lock held. *)
Locked == call # NoCall

(* add_monitor_connection *)
AddConnection(c) ==
  /\ ~Locked /\ phase[c] = "out"
  /\ phase' = [phase EXCEPT ![c] = "in"]
  /\ OnSubscribe(c)
  /\ UNCHANGED <<active, refresh, call, pc, fresh, frames, owed, bounds>>

(* Server::subscribe, from an option or capture_displays. *)
Subscribe(c, sub) ==
  /\ ~Locked /\ phase[c] = "in" /\ asks < MaxAsks
  /\ call' = [conn |-> c, sub |-> sub, at |-> "subscribes"]
  /\ asks' = asks + 1
  /\ UNCHANGED <<phase, maps, active, refresh, pc, fresh, got, frames, owed, switches>>

(* What the caller does with is_subed's answer. *)
Decide(subed) == IF subed = call.sub THEN NoCall ELSE [call EXCEPT !.at = "apply"]

(* is_subed looks at the one map, then at the other. *)
IsSubedFirst ==
  /\ call.at = "subscribes"
  /\ call' = IF call.conn \in subscribes THEN Decide(TRUE)
                                         ELSE [call EXCEPT !.at = "new_subscribes"]
  /\ UNCHANGED <<phase, maps, active, refresh, pc, fresh, got, frames, owed, bounds>>

IsSubedSecond ==
  /\ call.at = "new_subscribes"
  /\ call' = Decide(call.conn \in new_subscribes)
  /\ UNCHANGED <<phase, maps, active, refresh, pc, fresh, got, frames, owed, bounds>>

Apply ==
  /\ call.at = "apply"
  /\ IF call.sub THEN OnSubscribe(call.conn) ELSE OnUnsubscribe(call.conn)
  /\ call' = NoCall
  /\ UNCHANGED <<phase, active, refresh, pc, fresh, frames, owed, bounds>>

(* refresh_video_display, under the server's read lock. *)
RefreshVideoDisplay(c) ==
  /\ ~Locked /\ phase[c] = "in" /\ asks < MaxAsks
  /\ refresh' = TRUE /\ owed' = TRUE
  /\ asks' = asks + 1
  /\ UNCHANGED <<phase, maps, active, call, pc, fresh, got, frames, switches>>

(* The server goes, and joins its services. *)
Join ==
  /\ ~Locked /\ active
  /\ active' = FALSE
  /\ UNCHANGED <<phase, maps, refresh, call, pc, fresh, got, frames, owed, bounds>>

----------------------------------------------------------------------------
(* A connection's loop. *)

(* It takes a frame from its queue, and the service learns of it; where the *)
(* client confirms, through the connections listed for the display.        *)
Fetch(c) ==
  /\ phase[c] = "in" /\ queue[c] > 0
  /\ \E left \in {queue[c] - 1} \union (IF queue[c] = MaxLag THEN {MaxLag} ELSE {}) :
       queue' = [queue EXCEPT ![c] = left]
  /\ notified' = IF c \in AckRequired /\ c \notin listed THEN notified
                                                         ELSE notified \union {c}
  /\ UNCHANGED <<phase, maps, active, refresh, call, pc, fresh, got, send, fetched,
                 listed, owed, bounds>>

(* The loop has ended: whoever waits for this connection need not. *)
EndLoop(c) ==
  /\ phase[c] = "in" /\ call.conn # c
  /\ phase' = [phase EXCEPT ![c] = "notified"]
  /\ queue' = [queue EXCEPT ![c] = 0]
  /\ notified' = IF c \in listed THEN notified \union {c} ELSE notified
  /\ UNCHANGED <<maps, active, refresh, call, pc, fresh, got, send, fetched, listed,
                 owed, bounds>>

RemoveConnection(c) ==
  /\ ~Locked /\ phase[c] = "notified"
  /\ phase' = [phase EXCEPT ![c] = "gone"]
  /\ OnUnsubscribe(c)
  /\ UNCHANGED <<active, refresh, call, pc, fresh, frames, owed, bounds>>

----------------------------------------------------------------------------
(* The service's thread. *)

(* Back to the outer loop: Raii's drop forgets the display's connections. *)
Leave ==
  /\ pc' = "rest"
  /\ fresh' = TRUE
  /\ got' = [c \in Conns |-> FALSE]
  /\ listed' = {}
  /\ send' = {} /\ fetched' = {}

(* ServiceTmpl::run calls the service; a capturer and an encoder are made.  *)
(* That may fail, which is a rest and another call.                         *)
Enter ==
  /\ pc = "rest" /\ active /\ HasSubscribes
  /\ pc' = "opened"
  /\ UNCHANGED <<phase, maps, active, refresh, call, fresh, got, frames, owed, bounds>>

SetupFails ==
  /\ pc = "opened" /\ switches < MaxSwitches
  /\ Leave
  /\ switches' = switches + 1
  /\ UNCHANGED <<phase, maps, active, refresh, call, notified, queue, owed, asks>>

Exit ==
  /\ pc = "rest" /\ ~active
  /\ pc' = "exited"
  /\ UNCHANGED <<phase, maps, active, refresh, call, fresh, got, frames, owed, bounds>>

(* A refresh that came before the encoder was made is served by it. *)
SeesRefresh ==
  /\ pc = "opened"
  /\ pc' = IF refresh THEN "clear" ELSE "top"
  /\ UNCHANGED <<phase, maps, active, refresh, call, fresh, got, frames, owed, bounds>>

ClearRefresh ==
  /\ pc = "clear"
  /\ refresh' = FALSE
  /\ pc' = "top"
  /\ UNCHANGED <<phase, maps, active, call, fresh, got, frames, owed, bounds>>

Top ==
  /\ pc = "top" /\ Ok
  /\ pc' = "checks"
  /\ UNCHANGED <<phase, maps, active, refresh, call, fresh, got, frames, owed, bounds>>

NobodyLeft ==
  /\ pc = "top" /\ ~Ok
  /\ Leave
  /\ UNCHANGED <<phase, maps, active, refresh, call, notified, queue, owed, bounds>>

(* SWITCH.  If the display has changed that is broadcast first, to new      *)
(* subscribers by way of a snapshot, which promotes them.                   *)
Switch ==
  \/ /\ Leave
     /\ UNCHANGED <<phase, maps, active, refresh, call, notified, queue, owed>>
  \/ /\ new_subscribes # {}
     /\ pc' = "swap_switch"
     /\ UNCHANGED <<phase, maps, active, refresh, call, fresh, got, frames, owed>>

SwitchToRefresh ==
  /\ pc = "checks" /\ refresh
  /\ Switch
  /\ UNCHANGED bounds

(* The codec, the record flag, privacy mode, the display or the capturer    *)
(* calls for a restart; an encoder that fails does so without a broadcast.  *)
SwitchForOther ==
  /\ switches < MaxSwitches
  /\ \/ pc \in {"checks", "frame", "wait"} /\ Switch
     \/ /\ pc = "encode" /\ Leave
        /\ UNCHANGED <<phase, maps, active, refresh, call, notified, queue, owed>>
  /\ switches' = switches + 1
  /\ UNCHANGED asks

NextFrame ==
  /\ pc = "checks" /\ ~refresh
  /\ pc' = "frame"
  /\ send' = {}
  /\ UNCHANGED <<phase, maps, active, refresh, call, fresh, got, fetched, notified,
                 listed, queue, owed, bounds>>

(* c.frame: nothing new on the screen. *)
WouldBlock ==
  /\ pc = "frame"
  /\ pc' = "wait" /\ fetched' = {}
  /\ UNCHANGED <<phase, maps, active, refresh, call, fresh, got, send, notified,
                 listed, queue, owed, bounds>>

FrameReady ==
  /\ pc = "frame"
  /\ pc' = "snap"
  /\ UNCHANGED <<phase, maps, active, refresh, call, fresh, got, frames, owed, bounds>>

(* handle_one_frame: is there a new subscriber? *)
Snapshot ==
  /\ pc = "snap"
  /\ pc' = IF new_subscribes # {} THEN "callback" ELSE "encode"
  /\ UNCHANGED <<phase, maps, active, refresh, call, fresh, got, frames, owed, bounds>>

(* The callback: beside an established subscriber the encoder restarts.     *)
Callback ==
  /\ pc = "callback"
  /\ pc' = IF subscribes # {} THEN "swap_switch" ELSE "swap_go"
  /\ UNCHANGED <<phase, maps, active, refresh, call, fresh, got, frames, owed, bounds>>

(* ServiceSwap's drop. *)
SwapAndGo ==
  /\ pc = "swap_go"
  /\ SwapNewSubscribes
  /\ pc' = "encode"
  /\ UNCHANGED <<phase, active, refresh, call, fresh, got, frames, owed, bounds>>

SwapAndSwitch ==
  /\ pc = "swap_switch"
  /\ SwapNewSubscribes
  /\ Leave
  /\ UNCHANGED <<phase, active, refresh, call, notified, queue, owed, bounds>>

Min2(a, b) == IF a < b THEN a ELSE b

(* encode_to_message and send_video_frame. *)
SendVideoFrame ==
  /\ pc = "encode"
  /\ send' = subscribes
  /\ queue' = [c \in Conns |-> IF c \in subscribes /\ phase[c] = "in"
                               THEN Min2(queue[c] + 1, MaxLag) ELSE queue[c]]
  /\ got' = [c \in Conns |-> got[c] \/ c \in subscribes]
  /\ owed' = (owed /\ ~fresh)
  /\ fresh' = FALSE
  /\ pc' = "record"
  /\ UNCHANGED <<phase, maps, active, refresh, call, fetched, notified, listed, bounds>>

(* The encoder fails, not often enough for a restart.  Its first frame is   *)
(* still to come.                                                           *)
EncodeFails ==
  /\ pc = "encode"
  /\ pc' = "wait" /\ fetched' = {}
  /\ UNCHANGED <<phase, maps, active, refresh, call, fresh, got, send, notified,
                 listed, queue, owed, bounds>>

SetSend ==
  /\ pc = "record"
  /\ listed' = IF send # {} THEN send ELSE listed
  /\ pc' = "wait" /\ fetched' = {}
  /\ UNCHANGED <<phase, maps, active, refresh, call, fresh, got, send, notified,
                 queue, owed, bounds>>

(* try_wait_next takes all there is; the wait ends when enough have         *)
(* answered.                                                                *)
TryWaitNext ==
  /\ pc = "wait"
  /\ IF send = {} THEN UNCHANGED <<fetched, notified>>
     ELSE /\ notified # {}
          /\ fetched' = fetched \union notified
          /\ notified' = {}
  /\ IF Cardinality(fetched') >= Cardinality(send)
     THEN pc' = "top" /\ listed' = {}
     ELSE UNCHANGED <<pc, listed>>
  /\ UNCHANGED <<phase, maps, active, refresh, call, fresh, got, send, queue, owed,
                 bounds>>

WaitsForAll ==
  /\ pc = "wait" /\ send # {} /\ send \subseteq fetched
  /\ pc' = "top" /\ listed' = {}
  /\ UNCHANGED <<phase, maps, active, refresh, call, fresh, got, send, fetched,
                 notified, queue, owed, bounds>>

(* Three seconds have passed. *)
WaitOver ==
  /\ pc = "wait" /\ send # {}
  /\ pc' = "top" /\ listed' = {}
  /\ UNCHANGED <<phase, maps, active, refresh, call, fresh, got, send, fetched,
                 notified, queue, owed, bounds>>

Thread ==
  \/ Enter \/ SeesRefresh \/ ClearRefresh \/ Top \/ NobodyLeft \/ SwitchToRefresh
  \/ NextFrame \/ WouldBlock \/ FrameReady \/ Snapshot \/ Callback \/ SwapAndGo
  \/ SwapAndSwitch \/ SendVideoFrame \/ EncodeFails \/ SetSend \/ TryWaitNext
  \/ WaitOver \/ SwitchForOther \/ SetupFails \/ Exit

Requests ==
  \/ \E c \in Conns : \/ AddConnection(c) \/ Fetch(c) \/ EndLoop(c)
                      \/ RemoveConnection(c) \/ RefreshVideoDisplay(c)
                      \/ \E sub \in BOOLEAN : Subscribe(c, sub)
  \/ IsSubedFirst \/ IsSubedSecond \/ Apply \/ Join

Next == Thread \/ Requests

Spec == Init /\ [][Next]_vars

----------------------------------------------------------------------------
TypeOK ==
  /\ phase \in [Conns -> {"out", "in", "notified", "gone"}]
  /\ subscribes \subseteq Conns /\ new_subscribes \subseteq Conns
  /\ active \in BOOLEAN /\ refresh \in BOOLEAN /\ fresh \in BOOLEAN /\ owed \in BOOLEAN
  /\ call \in Calls
  /\ pc \in InLoop \union {"rest", "exited"}
  /\ got \in [Conns -> BOOLEAN]
  /\ send \subseteq Conns /\ fetched \subseteq Conns
  /\ notified \subseteq Conns /\ listed \subseteq Conns
  /\ queue \in [Conns -> 0..MaxLag]
  /\ asks \in 0..MaxAsks /\ switches \in 0..MaxSwitches

(* A connection is in one of the maps at most, so it is sent each frame     *)
(* once, and a connection that was removed is in neither, whatever the      *)
(* thread was about to do with the maps at that moment.                     *)
EachOnce ==
  /\ subscribes \intersect new_subscribes = {}
  /\ \A c \in subscribes \union new_subscribes : phase[c] \in {"in", "notified"}

(* "so that new sub and old sub share the same encoder after switch": no    *)
(* frame goes both to a connection that has frames of this encoder and to   *)
(* one that has none of it.                                                 *)
SharedEncoder ==
  pc = "encode" => \A c, d \in subscribes : got[c] = got[d]

(* A refresh is not lost between the option's reading and its clearing:     *)
(* until a key frame is sent, the option is still set or the encoder has    *)
(* its key frame still to send.                                             *)
RefreshNotLost == owed => refresh \/ fresh

(* Everybody is sent each frame once and nobody after leaving, all that are *)
(* sent one share its encoder, and a refresh is not lost.                   *)
FramesShared == TypeOK /\ EachOnce /\ SharedEncoder /\ RefreshNotLost

=============================================================================
