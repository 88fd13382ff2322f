--------------------------- MODULE MCPortForward ---------------------------
(***************************************************************************)
(* Instances of PfFlow and PfMux on windows that keep the code's           *)
(* proportions: MAX_FRAME equals INITIAL_WINDOW, CHANNEL_WINDOW is a       *)
(* multiple of it, the threshold is half of that, and U32_MAX and the      *)
(* credit cap leave no slack.                                              *)
(*                                                                         *)
(* A behaviour is of one scene, chosen at first: the contract alone, or a  *)
(* tunnel under the bounds of one of the questions asked of it.  PfMux's   *)
(* own parameters are the largest of all scenes: its channels are those of *)
(* the state, and Delivered, which a scene's tunnel must keep, is its own. *)
(***************************************************************************)
EXTENDS PfFlow, PfMux

CONSTANT Scenes

VARIABLE chosen

contract == flowVars
all == <<chosen, contract, vars>>

Both == {"ctl", "tgt"}

(* Frames of every charge one way, enough to go round the window. *)
OneWay == INSTANCE PfMux WITH
  MaxId <- 1, MaxFrames <- 6, Lens <- {1, 3, 4}, Talkers <- {"ctl"}, Breakers <- {}

(* Both sockets talk and either ends. *)
Duplex == INSTANCE PfMux WITH
  MaxId <- 1, MaxFrames <- 2, Lens <- {4}, Talkers <- Both, Breakers <- {}

(* One place and two channels after each other. *)
Cap == INSTANCE PfMux WITH
  MaxId <- 2, MaxFrames <- 1, Lens <- {4}, Talkers <- {"ctl"}, Breakers <- {}

(* Either loop may end of itself. *)
Ending == INSTANCE PfMux WITH
  MaxId <- 1, MaxFrames <- 1, Lens <- {1}, Talkers <- {"ctl"}, Breakers <- Both

(* More frames than fit, over sockets that take what is written to them. *)
Busy == INSTANCE PfMux WITH
  MaxId <- 1, MaxFrames <- 3, Lens <- {1, 3}, Talkers <- {"ctl"}, Breakers <- {}

(* Two channels at a time, the first of which stalls. *)
Stalled == INSTANCE PfMux WITH
  MAX_CHANNELS <- 2, MaxId <- 2, MaxFrames <- 2, Lens <- {4}, Talkers <- {"ctl"},
  Breakers <- {}, Enders <- {}

ASSUME MuxFits == MuxAssumption
ASSUME ScenesFit ==
  /\ OneWay!MuxAssumption /\ Duplex!MuxAssumption /\ Cap!MuxAssumption
  /\ Ending!MuxAssumption /\ Busy!MuxAssumption /\ Stalled!MuxAssumption

PartsInit == chosen \in Scenes /\ FlowInit /\ Init

PartsNext ==
  \/ chosen = "contract" /\ FlowNext /\ UNCHANGED <<chosen, vars>>
  \/ chosen = "one way" /\ OneWay!Next /\ UNCHANGED <<chosen, contract>>
  \/ chosen = "duplex" /\ Duplex!Next /\ UNCHANGED <<chosen, contract>>
  \/ chosen = "cap" /\ Cap!Next /\ UNCHANGED <<chosen, contract>>
  \/ chosen = "ending" /\ Ending!Next /\ UNCHANGED <<chosen, contract>>
  \/ chosen = "busy" /\ Busy!Next /\ UNCHANGED <<chosen, contract>>
  \/ chosen = "stalled" /\ Stalled!Next /\ UNCHANGED <<chosen, contract>>

SafeSpec == PartsInit /\ [][PartsNext]_all

(* Tokio keeps scheduling every task, and the loop's select is unbiased, so
   each of its arms is taken in the end.  A stream whose other end has gone is
   noticed at the latest by READ_TIMEOUT.  Of the sockets nothing is assumed
   while a loop ends.                                                      *)
EndingFairness ==
  LET on == chosen = "ending" IN
  /\ \A s \in Both : /\ WF_vars(on /\ Ending!TaskStep(s, 1))
                     /\ WF_vars(on /\ Ending!LoopData(s))
                     /\ WF_vars(on /\ Ending!ReadStep(s))
                     /\ WF_vars(on /\ Ending!CloseStep(s))
                     /\ WF_vars(on /\ Ending!Gone(Ending!Peer(s)) /\ Ending!LoopBreaks(s))
  /\ WF_vars(on /\ Ending!LoopControl)

(* And sockets that keep taking what is written to them, and a connect that
   is decided, at the latest by CONNECT_TIMEOUT_MS.                        *)
BusyFairness ==
  LET on == chosen = "busy" IN
  /\ \A s \in Both : /\ WF_vars(on /\ Busy!TaskStep(s, 1))
                     /\ WF_vars(on /\ Busy!LoopData(s))
                     /\ WF_vars(on /\ Busy!ReadStep(s))
                     /\ WF_vars(on /\ Busy!CloseStep(s))
                     /\ WF_vars(on /\ Busy!DownWrite(s, 1))
  /\ WF_vars(on /\ Busy!LoopControl)
  /\ WF_vars(on /\ (Busy!Connected(1) \/ Busy!ConnectFails(1)))

(* The same for channel 2, the sockets of channel 1 stalled for as long as
   they like.                                                              *)
StalledFairness ==
  LET on == chosen = "stalled" IN
  /\ \A s \in Both : /\ \A c \in {1, 2} : WF_vars(on /\ Stalled!TaskStep(s, c))
                     /\ WF_vars(on /\ Stalled!LoopData(s))
                     /\ WF_vars(on /\ Stalled!ReadStep(s))
                     /\ WF_vars(on /\ Stalled!CloseStep(s))
                     /\ WF_vars(on /\ Stalled!DownWrite(s, 2))
  /\ WF_vars(on /\ Stalled!LoopControl)
  /\ WF_vars(on /\ (Stalled!Connected(2) \/ Stalled!ConnectFails(2)))

LiveSpec ==
  /\ PartsInit /\ [][PartsNext]_all
  /\ EndingFairness /\ BusyFairness /\ StalledFairness

----------------------------------------------------------------------------
(* The two ends agree on what is left to each.  On each channel: the tunnel
   implements PfFlow, every step of either side being a step, or a stutter, of
   each direction's contract (SendCredit, RecvWindow and all that carries
   frames between them).  And on places: a channel that has ended at the
   controller no longer counts against the controlled side's MAX_CHANNELS when
   the controller's next `open` gets there (TunnelHandle::open, on_open's
   retain).                                                                *)
EndsAgree ==
  /\ chosen = "one way" => OneWay!FlowStart
  /\ [][chosen = "one way" => OneWay!FlowStep]_all
  /\ [](chosen = "cap" => Cap!SlotFreedBeforeOpen)

(* Once a side's loop is gone its channels all end, even those parked on a
   silent socket or on a full queue, and those opened while it was closing
   (close_all and the teardown level); and a channel that has ended at one
   side ends at the other, if its socket takes what is written to it
   (run_channel's `close`, on_frame).                                      *)
ChannelsEnd ==
  /\ <>[](chosen = "ending" => \A s \in Both : Ending!Gone(s) => Ending!Ended(s, 1))
  /\ <>[](chosen = "busy" =>
            \A s \in Both : ep[s][1].phase = "done" => Busy!Ended(Busy!Peer(s), 1))

(* A sender short of credit gets it and every frame it reads is written out
   at the other side: no queue, window, threshold or select arm holds either
   up for ever (SendCredit::take, RecvWindow::drained, tunnel_loop).  Nor
   does another channel whose socket has stopped taking data: the
   demultiplexer never waits for a channel's task, and a full window parks
   that channel's sender alone (on_frame).  The sockets produce finitely many
   frames, so rest comes for good.                                         *)
FramesArrive ==
  /\ []<>(chosen = "busy" => Busy!AtRest(1))
  /\ []<>(chosen = "stalled" => Stalled!AtRest(2))
=============================================================================
