------------------------------ MODULE MCMedia ------------------------------
(***************************************************************************)
(* What carries pictures and sound: DxgiRecovery with two recoveries to a  *)
(* window of three ticks; VideoStream with two connections, one of which   *)
(* confirms its frames itself; QosFps on delays that are good, bad and     *)
(* very bad, for a viewer that changes its cap and for a faster one; and   *)
(* AudioPlayback with two formats.                                         *)
(*                                                                         *)
(* A behaviour is of one part, chosen at first; the other parts rest.      *)
(***************************************************************************)
EXTENDS DxgiRecovery

CONSTANTS
  Viewers, AckRequired, MaxLag, MaxAsks, MaxSwitches, NoViewer,   \* of VideoStream
  Delays, Baselines, Caps, MinFps, NormalFps, MaxOut              \* of QosFps

VARIABLES
  chosen,
  phase, subscribes, new_subscribes, active, refresh, call, pc, fresh, got, send, fetched,
  notified, listed, queue, owed, asks, switches,
  u, base, cap, out, streak, clean, peak, failed,
  handler, pending, since, formats, faults

video == <<phase, subscribes, new_subscribes, active, refresh, call, pc, fresh, got, send,
           fetched, notified, listed, queue, owed, asks, switches>>
qos == <<u, base, cap, out, streak, clean, peak, failed>>
audio == <<handler, pending, since, formats, faults>>
all == <<chosen, vars, video, qos, audio>>

Video == INSTANCE VideoStream WITH Conns <- Viewers, NoConn <- NoViewer

Rate == INSTANCE QosFps

FastCap == 16      \* of the scene "fast"; the rate starts below it

Audio == INSTANCE AudioPlayback WITH
  Formats <- {"f1", "f2"}, NoFormat <- "none", Interval <- 2, Startup <- 5,
  MaxFormats <- 3, MaxFaults <- 3

ASSUME VideoFits == Video!VideoAssumption

ASSUME RateFits == Rate!QosAssumption

ASSUME Audio!AudioAssumption

PartsInit ==
  /\ chosen \in {"dxgi", "video", "changing", "fast", "audio"}
  /\ Init /\ Video!Init /\ Rate!Init /\ Audio!Init
  /\ cap = IF chosen = "fast" THEN FastCap ELSE 4

PartsNext ==
  \/ chosen = "dxgi" /\ Next /\ UNCHANGED <<chosen, video, qos, audio>>
  \/ chosen = "video" /\ Video!Next /\ UNCHANGED <<chosen, vars, qos, audio>>
  \/ /\ chosen = "changing" /\ Rate!Next /\ cap' # FastCap
     /\ UNCHANGED <<chosen, vars, video, audio>>
  \/ chosen = "fast" /\ Rate!Next /\ UNCHANGED <<chosen, cap, vars, video, audio>>
  \/ chosen = "audio" /\ Audio!Next /\ UNCHANGED <<chosen, vars, video, qos>>

(* The thread runs, a call of the server returns, a connection whose loop has
   ended is removed.  Screens and encoders deliver in the end: a frame that
   can come again and again comes.  Nothing is assumed of viewers.         *)
VideoFairness ==
  LET on == chosen = "video" IN
  /\ WF_video(on /\ Video!Thread) /\ WF_video(on /\ Video!WaitOver)
  /\ SF_video(on /\ Video!FrameReady) /\ SF_video(on /\ Video!SendVideoFrame)
  /\ WF_video(on /\ (Video!IsSubedFirst \/ Video!IsSubedSecond \/ Video!Apply))
  /\ \A c \in Viewers : WF_video(on /\ Video!RemoveConnection(c))

(* The clock goes on, recovery runs at least once in every interval, and a
   stream that is neither silent nor broken calls back.                    *)
AudioFairness ==
  LET on == chosen = "audio" IN
  /\ WF_audio(on /\ Audio!Tick) /\ WF_audio(on /\ Audio!recover_playback_with)
  /\ WF_audio(on /\ Audio!Callback)

PartsSpec == PartsInit /\ [][PartsNext]_all /\ VideoFairness /\ AudioFairness

----------------------------------------------------------------------------
(* Everybody is sent each frame once and nobody after leaving; no frame goes
   both to a connection that has frames of this encoder and to one that has
   none ("so that new sub and old sub share the same encoder after switch");
   and a refresh asked for is not lost between the option's reading and its
   clearing (ServiceSwap, handle_one_frame, OPTION_REFRESH).               *)
FramesShared == Video!FramesShared

(* A new subscriber becomes a subscriber, or leaves, even beside one that
   fetches nothing; and when everybody has left, the capturer and the encoder
   are let go (run, try_wait_next).                                        *)
NewcomerPromoted ==
  /\ \A c \in Viewers : []<>(c \notin new_subscribes \/ ~active)
  /\ []<>(Video!HasSubscribes \/ pc \in {"rest", "exited"})

(* The rate follows the network in measure: one slow reply does not lower it,
   a bad or missing one never raises it, no reduction goes below the floor,
   after a sign of a queue it leaps only to a level it has held, and a restore
   that congested at once aims lower (user_network_delay, limit_fps_change,
   user_delay_response_elapsed).  Nor does a desktop duplication that is lost
   over and over restart the capture without end (DxgiRecoveryState).      *)
RateInMeasure ==
  /\ chosen = "dxgi" => TypeOK /\ RestartsBounded
  /\ chosen \in {"changing", "fast"} =>
       LET next == Rate!Replies
       IN  /\ Rate!TypeOK /\ Rate!ConfirmedFirst(next)
           /\ Rate!BadNeverRaises(next) /\ Rate!FloorKept(next)
           /\ Rate!JumpsAreEarned(next) /\ Rate!RestoreAimsLower

(* Recovery never tears down a stream that plays nor restarts one twice
   within its interval; a stream that plays goes on until one that plays
   replaces it; and once the device stops failing and the peer stops changing
   formats, audio plays: no error, silence or failed start is forgotten
   (recover_playback_with, resolve_pending_playback).                      *)
AudioRecovers ==
  /\ [](Audio!TypeOK /\ Audio!RetryAlone /\ Audio!RestartSpaced)
  /\ [][Audio!HealthyKept]_audio
  /\ <>[](chosen = "audio" => Audio!Plays)
=============================================================================
