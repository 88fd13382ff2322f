----------------------------- MODULE MCConnect -----------------------------
(***************************************************************************)
(* How two peers come together.  On the controlling side: TransportRace,   *)
(* the WebRTC attempt against all others, and ClientStart under every      *)
(* setting.  On the controlled side: TcpPunch with two requests and one    *)
(* place, and WebRtcSessions with callers that come with one offer, as the *)
(* punch retries of a controller do.                                       *)
(*                                                                         *)
(* A behaviour is of one part, chosen at first; the other parts rest.      *)
(***************************************************************************)
EXTENDS TransportRace, Naturals

CONSTANTS
  MaxTries,                                      \* of ClientStart
  Callers, Keys, Key, Policies, Lossy, Nobody    \* of WebRtcSessions

VARIABLES
  chosen,
  cfg, at, tries, reply, startRace, conn, offerer, turn, guard, exchanged, bridge, outer,
  task, relay, got, pc, lost, notified, handler, rx, pending, adopted, closing, sessions,
  now, slots, phase, until, punch, due, since, interval, accept, retry, backlog, served

start == <<cfg, at, tries, reply, startRace, conn, offerer, turn, guard, exchanged,
           bridge, outer>>
webrtc == <<task, relay, got, pc, lost, notified, handler, rx, pending, adopted,
            closing, sessions>>
punching == <<now, slots, phase, until, punch, due, since, interval, accept, retry,
              backlog, served>>
all == <<chosen, vars, start, webrtc, punching>>

MCOthers == {"tcp", "udp", "v6", "relay"}
MCTypes == MCOthers \cup {"webrtc"}

Start == INSTANCE ClientStart WITH
  Types <- MCTypes, race <- startRace, pc <- offerer

WebRtc == INSTANCE WebRtcSessions

OneOffer == [c \in Callers |-> "offer"]

(* A window that takes three punches, and a crossing that takes as long as
   the grace.                                                              *)
Punching == INSTANCE TcpPunch WITH
  Requests <- {"r1", "r2"}, Places <- 1, Window <- 3, Grace <- 1, First <- 1, Longest <- 2,
  Handshake <- 1, MaxTime <- 6

ASSUME WebRtcFits ==
  /\ WebRtc!KeyAssumption /\ WebRtc!PoliciesAssumption /\ WebRtc!CallersAssumption
  /\ WebRtc!LossyAssumption /\ WebRtc!NobodyAssumption

ASSUME StartFits == Start!TypesAssumption /\ Start!TriesAssumption

ASSUME Punching!PlacesAssumption /\ Punching!TimesAssumption

PartsInit ==
  /\ chosen \in {"race", "start", "webrtc", "punch"}
  /\ Init /\ Start!Init /\ WebRtc!Init /\ Punching!Init
  /\ chosen # "start" => \A setting \in DOMAIN cfg : ~cfg[setting]
  /\ chosen # "webrtc" => \A c \in Callers : ~relay[c]

PartsNext ==
  \/ chosen = "race" /\ Next /\ UNCHANGED <<chosen, start, webrtc, punching>>
  \/ chosen = "start" /\ Start!Next /\ UNCHANGED <<chosen, vars, webrtc, punching>>
  \/ chosen = "webrtc" /\ WebRtc!Next /\ UNCHANGED <<chosen, vars, start, punching>>
  \/ chosen = "punch" /\ Punching!Next /\ UNCHANGED <<chosen, vars, start, webrtc>>

(* The window is a timer. *)
RaceFairness == WF_vars(chosen = "race" /\ ~Ended(race) /\ Window)

(* Every await of an attempt has a deadline, and the bridge's task is
   scheduled when it has been told to stop.                                *)
StartFairness ==
  LET on == chosen = "start" IN
  /\ \A a \in {"preferred", "fallback"} : WF_start(on /\ Start!Step(a))
  /\ WF_start(on /\ Start!BridgeEnds("told"))

(* The tasks of a setup and the handlers of a connection are scheduled; no
   session need end and no link fail.                                      *)
WebRtcFairness ==
  LET on == chosen = "webrtc" IN
  \A c \in Callers :
    /\ WF_webrtc(on /\ (WebRtc!Build(c) \/ WebRtc!BuildFails(c) \/ WebRtc!Insert(c)))
    /\ WF_webrtc(on /\ WebRtc!Handoff(c))
    /\ WF_webrtc(on /\ WebRtc!Adopt(c))
    /\ WF_webrtc(on /\ WebRtc!Handler(c))

PartsSpec ==
  /\ PartsInit /\ [][PartsNext]_all
  /\ RaceFairness /\ StartFairness /\ WebRtcFairness

----------------------------------------------------------------------------
(* OffererGuard: whatever exit was taken, by return, error or cancellation,
   the peer connection that _start made is closed, unless it is the one the
   caller has been given, and then it is open.  What is said of a connection
   is true: no relay and no TURN pair carries the direct flag of the attempt
   it replaced, and where a relay is the policy, or is forced, no punch is
   the outcome.  No offer goes to the server in the clear, and the socket
   that carries candidates is not the one a TCP punch binds again (connect,
   _start_inner).                                                          *)
StartedAsSaid ==
  /\ Start!TypeOK
  /\ Start!OffererReleased /\ Start!DirectIsTrue /\ Start!RelayHonoured
  /\ Start!NeverInTheClear /\ Start!SocketNotShared

(* Starting ends, in a connection or an error, and leaves no task behind that
   carries candidates (_start, the bridge's stop channel); and a race that
   holds a relay returns, though the other attempts hang for ever.         *)
StartEnds == HeldCommitted /\ <>[](chosen = "start" => Start!StartOver)

(* Callers with one offer share a peer connection and none takes it from
   another: what close_if_abandoned closes has no caller that claimed it, is
   adopting it or serves it, one caller at most serves it, and none that
   wants its traffic relayed gets one built with direct candidates
   (HandoffState, spawn_webrtc_answerer).                                  *)
SharedSafely == WebRtc!SharedSafely

(* No connection that was built is left to nobody, whichever callers were
   cancelled at whichever await: again and again all that live are served
   and none that is closed is in the cache, from which the handler of a dead
   one takes no live one (NewStreamHandoff, the state handler).            *)
NoneStranded ==
  []<>(WebRtc!LiveIsServed /\ WebRtc!CacheIsOpen) /\ [][WebRtc!EvictsOnlyTheDead]_webrtc

(* One connection is served for a request, and it is the punch once the
   controller's SYN has crossed it before the deadline: no timer cuts it and
   no accept replaces it when it is complete; no punch starts past the
   deadline, and a place is held no longer than the grace beyond it
   (punch_tcp_until_connected, PUNCH_GRACE).                               *)
CrossingServed ==
  /\ [](/\ Punching!TypeOK /\ Punching!OneServed
        /\ Punching!PlacesTurnOver /\ Punching!WindowEndsOnAPunch)
  /\ [][Punching!CrossingKept /\ Punching!CompleteIsServed]_punching
=============================================================================
