--------------------------- MODULE Media_proofs -----------------------------
(***************************************************************************)
(* What carries pictures, proved for all parameters.  DxgiRecovery: a loss *)
(* past the limit ends in GDI, nothing stays pending in a run, and there   *)
(* are only so many restarts in a window.  VideoStream: the maps of        *)
(* subscribers and the encoder they share.  QosFps: the rate of a viewer.  *)
(***************************************************************************)
EXTENDS MCMedia, Integers, TLAPS, SequenceTheorems

\* What the flags say between the runs: a run starts with none of them, and
\* an exhausted recovery that ended its run has left its mark.
Pending ==
    /\ NothingStale
    /\ exhausted => run = "none" /\ fallback_pending

LEMMA InitPending == Init => Pending
  BY DEF Init, Pending, NothingStale

LEMMA NextPending == Pending /\ [Next]_vars => Pending'
  <1> SUFFICES ASSUME Pending, [Next]_vars PROVE Pending'
    OBVIOUS
  <1> USE DEF Pending, NothingStale
  <1>1. CASE Start
    BY <1>1 DEF Start
  <1>2. CASE Frame \/ Tick
    BY <1>2 DEF Frame, Tick, state
  <1>3. CASE WouldBlock
    BY <1>3 DEF WouldBlock, state
  <1>4. CASE Recover
    BY <1>4 DEF Recover, End
  <1>5. CASE Exhausted
    BY <1>5 DEF Exhausted, ExhaustedHere, ExhaustedSwitch, End, Gdi
  <1>6. CASE Error \/ Switch
    BY <1>6 DEF Error, Switch, End, Gdi, state
  <1>7. CASE UNCHANGED vars
    BY <1>7 DEF vars, state
  <1> QED
    BY <1>1, <1>2, <1>3, <1>4, <1>5, <1>6, <1>7 DEF Next

\* Nothing stays pending in a run, whatever restarts the capture.
THEOREM NoneStale == Spec => []NothingStale
  <1>1. Pending => NothingStale
    BY DEF Pending
  <1> QED
    BY <1>1, InitPending, NextPending, PTL DEF Spec

\* A loss past the limit is followed by GDI.
THEOREM FallsBack == Spec => ExhaustedFallsBack
  <1>1. Pending /\ [Next]_vars => [exhausted /\ run' # "none" => run' = "gdi"]_vars
    <2> SUFFICES ASSUME Pending, [Next]_vars, exhausted, run' # "none", run' # run
                 PROVE run' = "gdi"
      BY DEF vars, Pending
    <2>1. run = "none" /\ fallback_pending
      BY DEF Pending
    <2>2. ~Frame /\ ~WouldBlock /\ ~Recover /\ ~Exhausted /\ ~Error /\ ~Switch
      BY <2>1 DEF Frame, WouldBlock, Recover, Exhausted, Error, Switch
    <2>3. ~Tick /\ ~UNCHANGED vars
      BY DEF Tick, vars
    <2>4. Start
      BY <2>2, <2>3 DEF Next
    <2> QED
      BY <2>1, <2>4 DEF Start
  <1> QED
    BY <1>1, InitPending, NextPending, PTL DEF Spec, ExhaustedFallsBack

-----------------------------------------------------------------------------
(* The restarts of DxgiRecovery. *)

Times == 1..Len(restarts)

\* The restart that began the window.
First == Len(restarts) - attempts + 1

\* The restarts come in order, the last `attempts` of them are of this window,
\* and a window ago there were fewer than the limit before it.
InOrder == \A i, j \in Times : i <= j => restarts[i] <= restarts[j] /\ restarts[j] <= now
OfWindow ==
  IF window_started = None THEN attempts = 0 /\ restarts = <<>>
  ELSE attempts >= 1 /\ attempts <= Len(restarts) /\ restarts[First] = window_started
LongAgo ==
  \A i \in Times : i + Limit <= First /\ attempts > 0 => restarts[First] > restarts[i] + Window

RestartInv == TypeOK /\ InOrder /\ OfWindow /\ LongAgo /\ RestartsBounded

LEMMA InitRestarts == Init => RestartInv
  <1> SUFFICES ASSUME Init PROVE RestartInv
    OBVIOUS
  <1>1. restarts = <<>> /\ Len(restarts) = 0 /\ Times = {}
    BY DEF Init, Times
  <1>2. TypeOK
    <2>1. restart_pending \in BOOLEAN /\ fallback_pending \in BOOLEAN /\ exhausted \in BOOLEAN
      BY Zenon DEF Init
    <2>2. restarts \in Seq(0..MaxTime)
      BY <1>1
    <2> QED
      BY <2>1, <2>2, LimitsAssumption DEF Init, TypeOK, None
  <1> QED
    BY <1>1, <1>2 DEF Init, RestartInv, InOrder, OfWindow, LongAgo, RestartsBounded, Times

\* Whatever leaves the restarts and the window alone.
LEMMA OthersKeep ==
  ASSUME RestartInv, TypeOK', UNCHANGED <<attempts, window_started, restarts>>, now' >= now
  PROVE  RestartInv'
  <1>1. Times' = Times /\ First' = First /\ restarts' = restarts
    BY DEF Times, First
  <1>2. \A i \in Times : restarts[i] \in Nat
    BY LimitsAssumption DEF RestartInv, TypeOK, Times
  <1>3. now \in Nat /\ now' \in Nat
    BY DEF RestartInv, TypeOK
  <1>4. InOrder'
    BY <1>1, <1>2, <1>3 DEF RestartInv, InOrder
  <1>5. OfWindow' /\ LongAgo' /\ RestartsBounded'
    BY <1>1 DEF RestartInv, OfWindow, LongAgo, RestartsBounded
  <1> QED
    BY <1>4, <1>5 DEF RestartInv

LEMMA RecoverKeeps == ASSUME RestartInv, Recover PROVE RestartInv'
  <1> USE LimitsAssumption
  <1>1. /\ restarts \in Seq(Nat) /\ now \in Nat /\ attempts \in Nat /\ Limit \in Nat \ {0}
        /\ window_started \in Nat /\ Window \in Nat /\ attempts <= Limit /\ now <= MaxTime
        /\ (window_started <= now \/ window_started = None) /\ MaxTime \in Nat
    BY DEF RestartInv, TypeOK, None
  <1>2. /\ restarts' = Append(restarts, now) /\ now' = now /\ Attempts < Limit
        /\ attempts' = Attempts + 1
        /\ window_started' = IF WindowOver THEN now ELSE window_started
    BY DEF Recover, NewWindow
  <1>3. /\ Len(restarts') = Len(restarts) + 1 /\ restarts'[Len(restarts) + 1] = now
        /\ \A i \in Times : restarts'[i] = restarts[i] /\ restarts[i] \in Nat
    BY <1>1, <1>2 DEF Times
  <1>4. TypeOK'
    BY <1>1, <1>2 DEF RestartInv, TypeOK, Recover, End, Attempts, None
  <1>5. InOrder'
    BY <1>1, <1>2, <1>3 DEF RestartInv, InOrder, Times
  <1>6. ASSUME WindowOver PROVE First' = Len(restarts) + 1 /\ attempts' = 1
    BY <1>1, <1>2, <1>3, <1>6 DEF First, Attempts
  <1>7. ASSUME ~WindowOver
        PROVE  /\ First' = First /\ attempts' = attempts + 1 /\ attempts >= 1 /\ First \in Times
               /\ window_started # None
    BY <1>1, <1>2, <1>3, <1>7 DEF First, Attempts, RestartInv, OfWindow, WindowOver, Times
  <1>8. OfWindow'
    <2>1. CASE WindowOver
      BY <1>1, <1>2, <1>3, <1>6, <2>1 DEF OfWindow, None
    <2>2. CASE ~WindowOver
      <3>1. restarts'[First'] = window_started /\ window_started' = window_started
        BY <1>2, <1>3, <1>7, <2>2 DEF OfWindow, RestartInv
      <3> QED BY <1>1, <1>3, <1>7, <2>2, <3>1 DEF OfWindow, RestartInv
    <2> QED BY <2>1, <2>2
  <1>9. LongAgo'
    <2>1. CASE WindowOver
      <3> SUFFICES ASSUME NEW i \in Times', i + Limit <= Len(restarts) + 1
                   PROVE  now > restarts'[i] + Window
        BY <1>3, <1>6, <2>1 DEF LongAgo
      <3>1. i \in Times /\ window_started # None
        BY <1>1, <1>3 DEF Times, RestartInv, OfWindow
      <3>2. now > window_started + Window
        BY <1>1, <2>1, <3>1 DEF WindowOver
      <3>3. i <= First /\ First \in Times /\ restarts[First] = window_started
        BY <1>1, <3>1 DEF First, RestartInv, OfWindow, Times
      <3>4. restarts[i] <= window_started
        BY <3>1, <3>3 DEF RestartInv, InOrder
      <3> QED BY <1>1, <1>3, <3>1, <3>2, <3>4
    <2>2. CASE ~WindowOver
      <3> SUFFICES ASSUME NEW i \in Times', i + Limit <= First
                   PROVE  restarts'[First] > restarts'[i] + Window
        BY <1>7, <2>2 DEF LongAgo
      <3>1. First \in Times /\ i \in Times /\ attempts > 0
        BY <1>1, <1>3, <1>7, <2>2 DEF Times
      <3> QED BY <1>3, <3>1 DEF LongAgo, RestartInv
    <2> QED BY <2>1, <2>2
  <1>10. RestartsBounded'
    <2> SUFFICES ASSUME NEW i \in Times', NEW j \in Times', j = i + 2 * Limit - 1
                 PROVE  restarts'[j] > restarts'[i] + Window
      BY DEF RestartsBounded, Times
    <2>1. CASE j \in Times
      <3>1. i \in Times
        BY <1>1, <2>1 DEF Times
      <3>2. restarts[j] > restarts[i] + Window
        BY <2>1, <3>1 DEF RestartInv, RestartsBounded, Times
      <3> QED BY <1>3, <2>1, <3>1, <3>2
    <2>2. CASE j = Len(restarts) + 1 /\ WindowOver
      <3>1. i + Limit <= First' /\ attempts' > 0
        BY <1>1, <1>6, <2>2 DEF Times
      <3> QED BY <1>3, <1>6, <1>9, <2>2, <3>1 DEF LongAgo
    <2>3. CASE j = Len(restarts) + 1 /\ ~WindowOver
      <3>1. i + Limit <= First /\ i \in Times /\ attempts > 0
        BY <1>1, <1>2, <1>7, <2>3 DEF Times, First, Attempts
      <3>2. restarts[First] > restarts[i] + Window
        BY <3>1 DEF RestartInv, LongAgo
      <3>3. restarts[First] <= now
        BY <1>1, <1>7, <2>3 DEF RestartInv, InOrder, Times
      <3>4. restarts'[j] = now /\ restarts'[i] = restarts[i]
        BY <1>3, <2>3, <3>1
      <3>5. restarts[First] \in Nat /\ restarts[i] \in Nat
        BY <1>3, <1>7, <2>3, <3>1
      <3>6. now > restarts[i] + Window
        BY <1>1, <3>2, <3>3, <3>5
      <3> QED BY <3>4, <3>6
    <2>4. j \in Times \/ j = Len(restarts) + 1
      BY <1>1, <1>3 DEF Times
    <2> QED BY <2>1, <2>2, <2>3, <2>4
  <1> QED
    BY <1>4, <1>5, <1>8, <1>9, <1>10 DEF RestartInv

LEMMA NextRestarts == RestartInv /\ [Next]_vars => RestartInv'
  <1> SUFFICES ASSUME RestartInv, [Next]_vars PROVE RestartInv'
    OBVIOUS
  <1> USE LimitsAssumption
  <1>t. TypeOK
    BY DEF RestartInv
  <1>1. CASE Start
    <2>1. TypeOK'
      <3>1. run' \in {"none", "dxgi", "gdi"} /\ recovery' \in (0..now) \cup {None}
        BY <1>t, <1>1 DEF TypeOK, Start
      <3>2. restart_pending' \in BOOLEAN /\ fallback_pending' \in BOOLEAN /\ exhausted' \in BOOLEAN
        BY <1>1, Zenon DEF Start
      <3> QED BY <1>t, <1>1, <3>1, <3>2 DEF TypeOK, Start, None
    <2> QED BY <1>1, <1>t, <2>1, OthersKeep DEF Start, TypeOK
  <1>2. CASE Frame \/ WouldBlock \/ Error \/ Switch
    <2>1. TypeOK'
      BY <1>t, <1>2 DEF TypeOK, Frame, WouldBlock, Error, Switch, End, Gdi, state, None
    <2> QED
      BY <1>2, <1>t, <2>1, OthersKeep DEF Frame, WouldBlock, Error, Switch, state, TypeOK
  <1>3. CASE Recover
    BY <1>3, RecoverKeeps
  <1>4. CASE Exhausted
    <2>1. ~WindowOver
      BY <1>4, <1>t DEF Exhausted, Attempts, TypeOK
    <2>2. UNCHANGED <<attempts, window_started, restarts, now>>
      BY <1>4, <2>1 DEF Exhausted, Attempts, NewWindow
    <2>3. TypeOK'
      BY <1>t, <1>4, <2>2 DEF TypeOK, Exhausted, ExhaustedHere, ExhaustedSwitch, End, Gdi, None
    <2> QED BY <1>t, <2>2, <2>3, OthersKeep DEF TypeOK
  <1>5. CASE Tick
    <2>1. TypeOK'
      BY <1>t, <1>5 DEF TypeOK, Tick, state, None
    <2> QED BY <1>5, <1>t, <2>1, OthersKeep DEF Tick, state, TypeOK
  <1>6. CASE UNCHANGED vars
    <2>1. TypeOK'
      BY <1>t, <1>6 DEF TypeOK, vars, state, None
    <2> QED BY <1>6, <1>t, <2>1, OthersKeep DEF vars, state, TypeOK
  <1> QED
    BY <1>1, <1>2, <1>3, <1>4, <1>5, <1>6 DEF Next

(* However often the desktop duplication is lost, twice the limit of restarts in
   a row take longer than a window: DxgiRecoveryState counts from the first
   loss of a window, and each window has at most the limit of them.         *)
THEOREM RestartsTheorem == Spec => []RestartsBounded
  <1>1. RestartInv => RestartsBounded
    BY DEF RestartInv
  <1> QED BY <1>1, InitRestarts, NextRestarts, PTL DEF Spec

-----------------------------------------------------------------------------
(* The video service and its subscribers: VideoStream. *)

\* Who is in a call of Server::subscribe is connected.
CallerIsIn == call # Video!NoCall => phase[call.conn] = "in"

\* A frame of this encoder went to established subscribers only, to all of
\* them or to none: a newcomer is promoted beside nobody, or to a new encoder.
GotIsSubscribed == \A c \in Viewers : got[c] => c \in subscribes
AllAlike == \A c, d \in subscribes : got[c] = got[d]
PromotedAlone == pc = "swap_go" => subscribes = {}

\* Outside the loop and until its top the encoder is a new one.
FreshAtStart == pc \in {"rest", "opened", "clear", "exited"} => fresh

VideoInv ==
  /\ Video!TypeOK /\ Video!EachOnce /\ CallerIsIn /\ GotIsSubscribed /\ AllAlike /\ PromotedAlone
  /\ FreshAtStart /\ Video!RefreshNotLost


LEMMA VideoInit == ASSUME Video!VideoAssumption PROVE Video!Init => VideoInv
<1> SUFFICES ASSUME Video!Init PROVE VideoInv
  OBVIOUS
<1>1. Video!TypeOK
  <2>1. MaxLag \in Nat /\ MaxAsks \in Nat /\ MaxSwitches \in Nat
    BY DEF Video!VideoAssumption
  <2>2. /\ queue \in [Viewers -> 0..MaxLag] /\ asks \in 0..MaxAsks /\ switches \in 0..MaxSwitches
        /\ got \in [Viewers -> BOOLEAN] /\ phase \in [Viewers -> {"out", "in", "notified", "gone"}]
    BY <2>1 DEF Video!Init
  <2>3. call \in Video!Calls
    BY DEF Video!Init, Video!Calls
  <2> QED
    BY <2>2, <2>3 DEF Video!Init, Video!TypeOK
<1> QED
  BY <1>1 DEF Video!Init, VideoInv, Video!EachOnce, CallerIsIn, GotIsSubscribed, AllAlike,
     PromotedAlone,
              FreshAtStart, Video!RefreshNotLost

----------------------------------------------------------------------------
(* The service's thread. *)

\* Steps that send nothing, promote nobody and stay in the loop, or out of it.
LEMMA MovesKeep ==
  ASSUME Video!VideoAssumption, VideoInv,
         Video!Enter \/ Video!SeesRefresh \/ Video!ClearRefresh \/ Video!Top
              \/ Video!NextFrame \/ Video!WouldBlock \/ Video!FrameReady
         \/ Video!Snapshot \/ Video!Callback \/ Video!EncodeFails \/ Video!SetSend
              \/ Video!TryWaitNext \/ Video!WaitOver \/ Video!Exit
  PROVE  VideoInv'
<1>1. UNCHANGED <<phase, subscribes, new_subscribes, active, call, got, queue, asks, switches, owed, fresh>>
  BY DEF Video!Enter, Video!SeesRefresh, Video!ClearRefresh, Video!Top, Video!NextFrame,
     Video!WouldBlock, Video!FrameReady, Video!Snapshot,
         Video!Callback, Video!EncodeFails, Video!SetSend, Video!TryWaitNext, Video!WaitOver,
              Video!Exit, Video!maps, Video!frames, Video!bounds
<1>2. /\ pc' \in Video!InLoop \union {"rest", "exited"} /\ refresh' \in BOOLEAN
      /\ send' \subseteq Viewers /\ fetched' \subseteq Viewers /\ notified' \subseteq Viewers
      /\ listed' \subseteq Viewers
  BY DEF Video!Enter, Video!SeesRefresh, Video!ClearRefresh, Video!Top, Video!NextFrame,
     Video!WouldBlock, Video!FrameReady, Video!Snapshot,
         Video!Callback, Video!EncodeFails, Video!SetSend, Video!TryWaitNext, Video!WaitOver,
              Video!Exit, Video!frames, VideoInv, Video!TypeOK,
         Video!InLoop
<1>3. Video!TypeOK'
  BY <1>1, <1>2 DEF VideoInv, Video!TypeOK
<1>4. Video!EachOnce' /\ CallerIsIn' /\ GotIsSubscribed' /\ AllAlike'
  BY <1>1 DEF VideoInv, Video!EachOnce, CallerIsIn, GotIsSubscribed, AllAlike
<1>5. PromotedAlone'
  BY <1>1 DEF VideoInv, PromotedAlone, Video!Enter, Video!SeesRefresh, Video!ClearRefresh,
     Video!Top, Video!NextFrame,
              Video!WouldBlock, Video!FrameReady, Video!Snapshot, Video!Callback,
                   Video!EncodeFails, Video!SetSend, Video!TryWaitNext,
              Video!WaitOver, Video!Exit
<1>6. FreshAtStart'
  BY <1>1 DEF VideoInv, FreshAtStart, Video!Enter, Video!SeesRefresh, Video!ClearRefresh,
     Video!Top, Video!NextFrame,
              Video!WouldBlock, Video!FrameReady, Video!Snapshot, Video!Callback,
                   Video!EncodeFails, Video!SetSend, Video!TryWaitNext,
              Video!WaitOver, Video!Exit
<1>7. Video!RefreshNotLost'
  BY <1>1 DEF VideoInv, Video!RefreshNotLost, FreshAtStart, Video!Enter, Video!SeesRefresh,
     Video!ClearRefresh, Video!Top,
              Video!NextFrame, Video!WouldBlock, Video!FrameReady, Video!Snapshot,
                   Video!Callback, Video!EncodeFails, Video!SetSend,
              Video!TryWaitNext, Video!WaitOver, Video!Exit
<1> QED
  BY <1>3, <1>4, <1>5, <1>6, <1>7 DEF VideoInv

\* The loop is left, and the encoder dropped; a broadcast may promote first.
LEMMA LeaveKeeps ==
  ASSUME Video!VideoAssumption, VideoInv, Video!Leave,
         UNCHANGED <<phase, active, refresh, call, notified, queue, owed>>,
         (subscribes' = subscribes /\ new_subscribes' = new_subscribes) \/ Video!SwapNewSubscribes,
         asks' \in 0..MaxAsks, switches' \in 0..MaxSwitches
  PROVE  VideoInv'
<1>1. Video!TypeOK'
  BY DEF VideoInv, Video!TypeOK, Video!Leave, Video!SwapNewSubscribes
<1>2. Video!EachOnce' /\ CallerIsIn'
  BY DEF VideoInv, Video!TypeOK, Video!EachOnce, CallerIsIn, Video!SwapNewSubscribes
<1>3. GotIsSubscribed' /\ AllAlike'
  BY <1>1 DEF Video!TypeOK, Video!Leave, GotIsSubscribed, AllAlike
<1>4. PromotedAlone' /\ FreshAtStart' /\ Video!RefreshNotLost'
  BY DEF Video!Leave, PromotedAlone, FreshAtStart, Video!RefreshNotLost
<1> QED
  BY <1>1, <1>2, <1>3, <1>4 DEF VideoInv

LEMMA SwitchKeeps ==
  ASSUME Video!VideoAssumption, VideoInv, Video!Switch, pc \in {"checks", "frame", "wait"},
         asks' \in 0..MaxAsks, switches' \in 0..MaxSwitches
  PROVE  VideoInv'
<1>1. CASE pc' = "swap_switch"
     /\ UNCHANGED <<phase, Video!maps, active, refresh, call, fresh, got, Video!frames, owed>>
  <2>1. UNCHANGED <<phase, subscribes, new_subscribes, active, refresh, call, fresh, got, send,
                    fetched, notified, listed, queue, owed>>
    BY <1>1 DEF Video!maps, Video!frames
  <2>2. Video!TypeOK'
    BY <1>1, <2>1 DEF VideoInv, Video!TypeOK, Video!InLoop
  <2> QED
    BY <1>1, <2>1, <2>2
    DEF VideoInv, Video!EachOnce, CallerIsIn, GotIsSubscribed, AllAlike, PromotedAlone,
       FreshAtStart,
        Video!RefreshNotLost
<1>2. CASE Video!Leave
     /\ UNCHANGED <<phase, Video!maps, active, refresh, call, notified, queue, owed>>
  BY <1>2, LeaveKeeps DEF Video!maps
<1> QED
  BY <1>1, <1>2 DEF Video!Switch

LEMMA LeavingKeeps ==
  ASSUME Video!VideoAssumption, VideoInv,
         Video!NobodyLeft \/ Video!SetupFails \/ Video!SwitchToRefresh \/ Video!SwitchForOther
              \/ Video!SwapAndSwitch
  PROVE  VideoInv'
<1>1. asks \in 0..MaxAsks /\ switches \in 0..MaxSwitches /\ MaxSwitches \in Nat
  BY DEF VideoInv, Video!TypeOK, Video!VideoAssumption
<1>2. switches < MaxSwitches => switches + 1 \in 0..MaxSwitches
  BY <1>1
<1>3. CASE Video!NobodyLeft
  BY <1>1, <1>3, LeaveKeeps DEF Video!NobodyLeft, Video!maps, Video!bounds
<1>4. CASE Video!SetupFails
  BY <1>1, <1>2, <1>4, LeaveKeeps DEF Video!SetupFails, Video!maps
<1>5. CASE Video!SwitchToRefresh
  BY <1>1, <1>5, SwitchKeeps DEF Video!SwitchToRefresh, Video!bounds
<1>6. CASE Video!SwitchForOther
  <2>1. asks' \in 0..MaxAsks /\ switches' \in 0..MaxSwitches
    BY <1>1, <1>2, <1>6 DEF Video!SwitchForOther
  <2>2. CASE pc \in {"checks", "frame", "wait"} /\ Video!Switch
    BY <2>1, <2>2, SwitchKeeps
  <2>3. CASE Video!Leave
       /\ UNCHANGED <<phase, Video!maps, active, refresh, call, notified, queue, owed>>
    BY <2>1, <2>3, LeaveKeeps DEF Video!maps
  <2> QED
    BY <1>6, <2>2, <2>3 DEF Video!SwitchForOther
<1>7. CASE Video!SwapAndSwitch
  BY <1>1, <1>7, LeaveKeeps DEF Video!SwapAndSwitch, Video!bounds
<1> QED
  BY <1>3, <1>4, <1>5, <1>6, <1>7

\* Promoted beside nobody, to an encoder that nobody has a frame of.
LEMMA SwapKeeps ==
  ASSUME Video!VideoAssumption, VideoInv, Video!SwapAndGo
  PROVE  VideoInv'
<1>1. /\ pc' = "encode" /\ subscribes' = new_subscribes /\ new_subscribes' = {}
      /\ \A c \in Viewers : ~got[c]
      /\ UNCHANGED <<phase, active, refresh, call, fresh, got, send, fetched, notified, listed,
                     queue, owed, asks, switches>>
  BY DEF Video!SwapAndGo, Video!SwapNewSubscribes, VideoInv, PromotedAlone, GotIsSubscribed,
     Video!frames, Video!bounds
<1>2. Video!TypeOK'
  BY <1>1 DEF VideoInv, Video!TypeOK, Video!InLoop
<1>3. Video!EachOnce' /\ CallerIsIn'
  BY <1>1 DEF VideoInv, Video!EachOnce, CallerIsIn
<1>4. GotIsSubscribed' /\ AllAlike'
  BY <1>1, <1>2 DEF VideoInv, Video!TypeOK, GotIsSubscribed, AllAlike
<1>5. PromotedAlone' /\ FreshAtStart' /\ Video!RefreshNotLost'
  BY <1>1 DEF VideoInv, PromotedAlone, FreshAtStart, Video!RefreshNotLost
<1> QED
  BY <1>2, <1>3, <1>4, <1>5 DEF VideoInv

\* A frame to all subscribers.
LEMMA SendKeeps ==
  ASSUME Video!VideoAssumption, VideoInv, Video!SendVideoFrame
  PROVE  VideoInv'
<1>1. /\ pc' = "record" /\ send' = subscribes
           /\ got' = [c \in Viewers |-> got[c] \/ c \in subscribes]
      /\ UNCHANGED <<phase, subscribes, new_subscribes, active, refresh, call, fetched, notified,
                     listed, asks, switches>>
      /\ owed' = (owed /\ ~fresh) /\ fresh' = FALSE
  BY DEF Video!SendVideoFrame, Video!maps, Video!bounds
<1>2. queue' \in [Viewers -> 0..MaxLag]
  <2>1. MaxLag \in Nat /\ queue \in [Viewers -> 0..MaxLag]
    BY DEF Video!VideoAssumption, VideoInv, Video!TypeOK
  <2>2. \A n \in 0..MaxLag : Video!Min2(n + 1, MaxLag) \in 0..MaxLag
    BY <2>1 DEF Video!Min2
  <2>3. \A c \in Viewers : queue[c] \in 0..MaxLag /\ Video!Min2(queue[c] + 1, MaxLag) \in 0..MaxLag
    BY <2>1, <2>2
  <2> QED
    BY <2>3 DEF Video!SendVideoFrame
<1>3. Video!TypeOK'
  BY <1>1, <1>2 DEF VideoInv, Video!TypeOK, Video!InLoop
<1>4. Video!EachOnce' /\ CallerIsIn'
  BY <1>1 DEF VideoInv, Video!EachOnce, CallerIsIn
<1>5. GotIsSubscribed' /\ AllAlike'
  BY <1>1 DEF VideoInv, Video!TypeOK, GotIsSubscribed, AllAlike
<1>6. PromotedAlone' /\ FreshAtStart' /\ Video!RefreshNotLost'
  BY <1>1 DEF VideoInv, PromotedAlone, FreshAtStart, Video!RefreshNotLost
<1> QED
  BY <1>3, <1>4, <1>5, <1>6 DEF VideoInv

----------------------------------------------------------------------------
(* The server and the connections. *)

LEMMA UnsubscribeKeeps ==
  ASSUME Video!VideoAssumption, VideoInv, NEW c \in Viewers, Video!OnUnsubscribe(c),
         UNCHANGED <<active, refresh, pc, fresh, Video!frames, owed, Video!bounds>>,
         phase' \in [Viewers -> {"out", "in", "notified", "gone"}], call' \in Video!Calls,
         \A d \in Viewers : d # c => phase'[d] = phase[d], CallerIsIn'
  PROVE  VideoInv'
<1>1. /\ subscribes' = subscribes \ {c} /\ new_subscribes' \subseteq new_subscribes
      /\ c \notin new_subscribes'
      /\ got' = [got EXCEPT ![c] = FALSE]
      /\ UNCHANGED <<active, refresh, pc, fresh, send, fetched, notified, listed, queue, owed,
                     asks, switches>>
  BY DEF Video!OnUnsubscribe, Video!frames, Video!bounds, VideoInv, Video!EachOnce
<1>2. Video!TypeOK'
  BY <1>1 DEF VideoInv, Video!TypeOK
<1>3. Video!EachOnce'
  BY <1>1 DEF VideoInv, Video!TypeOK, Video!EachOnce
<1>4. GotIsSubscribed' /\ AllAlike'
  BY <1>1 DEF VideoInv, Video!TypeOK, GotIsSubscribed, AllAlike
<1>5. PromotedAlone' /\ FreshAtStart' /\ Video!RefreshNotLost'
  BY <1>1 DEF VideoInv, PromotedAlone, FreshAtStart, Video!RefreshNotLost
<1> QED
  BY <1>2, <1>3, <1>4, <1>5 DEF VideoInv

LEMMA SubscribeKeeps ==
  ASSUME Video!VideoAssumption, VideoInv, NEW c \in Viewers, Video!OnSubscribe(c),
         UNCHANGED <<active, refresh, pc, fresh, Video!frames, owed, Video!bounds>>,
         phase' \in [Viewers -> {"out", "in", "notified", "gone"}], call' \in Video!Calls,
         \A d \in Viewers : d # c => phase'[d] = phase[d], phase'[c] = "in", CallerIsIn'
  PROVE  VideoInv'
<1>1. /\ new_subscribes' = IF c \in subscribes THEN new_subscribes ELSE new_subscribes \union {c}
      /\ UNCHANGED <<subscribes, got, active, refresh, pc, fresh, send, fetched, notified,
                     listed, queue, owed, asks, switches>>
  BY DEF Video!OnSubscribe, Video!frames, Video!bounds
<1>2. Video!TypeOK'
  BY <1>1 DEF VideoInv, Video!TypeOK
<1>3. Video!EachOnce'
  BY <1>1 DEF VideoInv, Video!TypeOK, Video!EachOnce
<1>4. GotIsSubscribed' /\ AllAlike' /\ PromotedAlone' /\ FreshAtStart' /\ Video!RefreshNotLost'
  BY <1>1 DEF VideoInv, GotIsSubscribed, AllAlike, PromotedAlone, FreshAtStart, Video!RefreshNotLost
<1> QED
  BY <1>2, <1>3, <1>4 DEF VideoInv

LEMMA CallFields ==
  ASSUME Video!VideoAssumption, VideoInv, call # Video!NoCall
  PROVE  /\ call.conn \in Viewers /\ call.sub \in BOOLEAN /\ phase[call.conn] = "in"
         /\ \A at \in {"new_subscribes", "apply"} :
               [call EXCEPT !.at = at] \in Video!Calls /\ [call EXCEPT !.at = at].conn = call.conn
<1>1. PICK k \in [conn : Viewers, sub : BOOLEAN, at : {"subscribes", "new_subscribes", "apply"}] : k = call
  BY DEF VideoInv, Video!TypeOK, Video!Calls
<1> QED
  BY <1>1 DEF Video!Calls, VideoInv, CallerIsIn

LEMMA CallIsKept ==
  ASSUME Video!VideoAssumption, VideoInv, call' \in Video!Calls, call' # Video!NoCall
       => phase'[call'.conn] = "in",
         phase' = phase, UNCHANGED <<Video!maps, active, pc, fresh, got, Video!frames, switches>>,
         asks' \in 0..MaxAsks,
         (refresh' = refresh /\ owed' = owed) \/ (refresh' = TRUE /\ owed' = TRUE)
  PROVE  VideoInv'
<1>1. UNCHANGED <<subscribes, new_subscribes, send, fetched, notified, listed, queue>>
  BY DEF Video!maps, Video!frames
<1>2. Video!TypeOK'
  BY <1>1 DEF VideoInv, Video!TypeOK
<1> QED
  BY <1>1, <1>2
  DEF VideoInv, Video!EachOnce, CallerIsIn, GotIsSubscribed, AllAlike, PromotedAlone, FreshAtStart,
      Video!RefreshNotLost

LEMMA ServerKeeps ==
  ASSUME Video!VideoAssumption, VideoInv,
         Video!IsSubedFirst \/ Video!IsSubedSecond \/ Video!Apply \/ Video!Join
         \/ \E c \in Viewers : Video!RefreshVideoDisplay(c) \/ \E sub \in BOOLEAN
              : Video!Subscribe(c, sub)
  PROVE  VideoInv'
<1>1. asks \in 0..MaxAsks /\ MaxAsks \in Nat /\ call \in Video!Calls /\ Video!NoCall \in Video!Calls
      /\ Video!NoCall.conn \notin Viewers /\ Video!NoCall.at = "none"
  BY DEF VideoInv, Video!TypeOK, Video!VideoAssumption, Video!Calls, Video!NoCall
<1>2. asks < MaxAsks => asks + 1 \in 0..MaxAsks
  BY <1>1
<1>3. CASE Video!IsSubedFirst \/ Video!IsSubedSecond
  <2>1. call # Video!NoCall
    BY <1>1, <1>3 DEF Video!IsSubedFirst, Video!IsSubedSecond
  <2>2. call' \in {Video!NoCall, [call EXCEPT !.at = "apply"], [call EXCEPT !.at = "new_subscribes"]}
    BY <1>3 DEF Video!IsSubedFirst, Video!IsSubedSecond, Video!Decide
  <2>3. call' \in Video!Calls /\ (call' # Video!NoCall => phase[call'.conn] = "in")
    BY <1>1, <2>1, <2>2, CallFields
  <2> QED
    BY <1>1, <1>3, <2>3, CallIsKept DEF Video!IsSubedFirst, Video!IsSubedSecond, Video!bounds
<1>4. CASE Video!Apply
  <2>1. call # Video!NoCall /\ call' = Video!NoCall
    BY <1>1, <1>4 DEF Video!Apply
  <2>2. PICK c \in Viewers : c = call.conn /\ phase[c] = "in"
    BY <2>1, CallFields
  <2>3. /\ Video!OnSubscribe(c) \/ Video!OnUnsubscribe(c)
        /\ call' \in Video!Calls
        /\ UNCHANGED <<active, refresh, pc, fresh, Video!frames, owed, Video!bounds>> /\ CallerIsIn'
    BY <1>1, <1>4, <2>1, <2>2 DEF Video!Apply, CallerIsIn
  <2>4. phase' = phase /\ phase \in [Viewers -> {"out", "in", "notified", "gone"}]
    BY <1>4 DEF Video!Apply, VideoInv, Video!TypeOK
  <2> QED
    BY <1>1, <2>1, <2>2, <2>3, <2>4, SubscribeKeeps, UnsubscribeKeeps
<1>5. CASE Video!Join
  <2>1. /\ active' = FALSE
        /\ UNCHANGED <<phase, subscribes, new_subscribes, refresh, call, pc, fresh, got, send,
                       fetched, notified, listed, queue, owed, asks, switches>>
    BY <1>5 DEF Video!Join, Video!maps, Video!frames, Video!bounds
  <2> QED
    BY <2>1 DEF VideoInv, Video!TypeOK, Video!EachOnce, CallerIsIn, GotIsSubscribed, AllAlike,
       PromotedAlone,
                FreshAtStart, Video!RefreshNotLost
<1>6. ASSUME NEW c \in Viewers, Video!RefreshVideoDisplay(c) PROVE VideoInv'
  BY <1>1, <1>2, <1>6, CallIsKept DEF Video!RefreshVideoDisplay, VideoInv, CallerIsIn
<1>7. ASSUME NEW c \in Viewers, NEW sub \in BOOLEAN, Video!Subscribe(c, sub) PROVE VideoInv'
  <2>1. call' = [conn |-> c, sub |-> sub, at |-> "subscribes"] /\ phase[c] = "in" /\ phase' = phase
    BY <1>7 DEF Video!Subscribe
  <2>2. call' \in Video!Calls /\ call'.conn = c
    BY <2>1 DEF Video!Calls
  <2> QED
    BY <1>1, <1>2, <1>7, <2>1, <2>2, CallIsKept DEF Video!Subscribe
<1> QED
  BY <1>3, <1>4, <1>5, <1>6, <1>7

LEMMA ConnectionKeeps ==
  ASSUME Video!VideoAssumption, VideoInv, NEW c \in Viewers,
         Video!AddConnection(c) \/ Video!Fetch(c) \/ Video!EndLoop(c) \/ Video!RemoveConnection(c)
  PROVE  VideoInv'
<1>1. Video!TypeOK
  BY DEF VideoInv
<1>2. CASE Video!AddConnection(c)
  <2>1. /\ phase' = [phase EXCEPT ![c] = "in"] /\ call' = Video!NoCall /\ call' \in Video!Calls
    BY <1>2 DEF Video!AddConnection, Video!Locked, Video!Calls
  <2>2. /\ phase' \in [Viewers -> {"out", "in", "notified", "gone"}] /\ phase'[c] = "in"
        /\ \A d \in Viewers : d # c => phase'[d] = phase[d]
    BY <1>1, <2>1 DEF Video!TypeOK
  <2>3. CallerIsIn' /\ UNCHANGED <<active, refresh, pc, fresh, Video!frames, owed, Video!bounds>>
    BY <1>2, <2>1 DEF CallerIsIn, Video!AddConnection
  <2> QED
    BY <1>2, <2>1, <2>2, <2>3, SubscribeKeeps DEF Video!AddConnection
<1>3. CASE Video!RemoveConnection(c)
  <2>1. /\ phase' = [phase EXCEPT ![c] = "gone"] /\ call' = Video!NoCall /\ call' \in Video!Calls
    BY <1>3 DEF Video!RemoveConnection, Video!Locked, Video!Calls
  <2>2. /\ phase' \in [Viewers -> {"out", "in", "notified", "gone"}]
        /\ \A d \in Viewers : d # c => phase'[d] = phase[d]
    BY <1>1, <2>1 DEF Video!TypeOK
  <2>3. CallerIsIn' /\ UNCHANGED <<active, refresh, pc, fresh, Video!frames, owed, Video!bounds>>
    BY <1>3, <2>1 DEF CallerIsIn, Video!RemoveConnection
  <2> QED
    BY <1>3, <2>1, <2>2, <2>3, UnsubscribeKeeps DEF Video!RemoveConnection
<1>4. CASE Video!Fetch(c)
  <2>1. /\ UNCHANGED <<phase, subscribes, new_subscribes, active, refresh, call, pc, fresh, got,
                       send, fetched, listed, owed, asks, switches>>
        /\ notified' \subseteq notified \union {c}
    BY <1>4 DEF Video!Fetch, Video!maps, Video!bounds
  <2>2. queue' \in [Viewers -> 0..MaxLag]
    <3>1. MaxLag \in Nat /\ queue \in [Viewers -> 0..MaxLag] /\ queue[c] \in 0..MaxLag
         /\ queue[c] > 0
      BY <1>1, <1>4 DEF Video!TypeOK, Video!VideoAssumption, Video!Fetch
    <3>2. PICK left \in 0..MaxLag : queue' = [queue EXCEPT ![c] = left]
      <4>1. PICK left \in {queue[c] - 1} \union (IF queue[c] = MaxLag THEN {MaxLag} ELSE {}) :
              queue' = [queue EXCEPT ![c] = left]
        BY <1>4 DEF Video!Fetch
      <4>2. left \in 0..MaxLag
        BY <3>1, <4>1
      <4> QED
        BY <4>1, <4>2
    <3> QED
      BY <3>1, <3>2
  <2>3. Video!TypeOK'
    BY <1>1, <2>1, <2>2 DEF Video!TypeOK
  <2> QED
    BY <2>1, <2>3
    DEF VideoInv, Video!EachOnce, CallerIsIn, GotIsSubscribed, AllAlike, PromotedAlone,
       FreshAtStart,
        Video!RefreshNotLost
<1>5. CASE Video!EndLoop(c)
  <2>1. /\ phase[c] = "in" /\ phase' = [phase EXCEPT ![c] = "notified"] /\ call.conn # c
        /\ UNCHANGED <<subscribes, new_subscribes, active, refresh, call, pc, fresh, got,
                       send, fetched, listed, owed, asks, switches>>
        /\ notified' \subseteq notified \union {c} /\ queue' = [queue EXCEPT ![c] = 0]
    BY <1>5 DEF Video!EndLoop, Video!maps, Video!bounds
  <2>2. Video!TypeOK'
    BY <1>1, <2>1 DEF Video!TypeOK, Video!VideoAssumption
  <2>3. phase'[c] = "notified" /\ \A d \in Viewers : d # c => phase'[d] = phase[d]
    BY <1>1, <2>1 DEF Video!TypeOK
  <2>4. Video!EachOnce'
    BY <1>1, <2>1, <2>3 DEF VideoInv, Video!TypeOK, Video!EachOnce
  <2>5. CallerIsIn'
    BY <2>1, <2>3, CallFields DEF VideoInv, CallerIsIn
  <2> QED
    BY <2>1, <2>2, <2>4, <2>5
    DEF VideoInv, GotIsSubscribed, AllAlike, PromotedAlone, FreshAtStart, Video!RefreshNotLost
<1> QED
  BY <1>2, <1>3, <1>4, <1>5

\* For any connections, requests and restarts: every connection is in one of
\* the maps at most and in none once removed, a frame never goes both to one
\* that has frames of the encoder and to one that has none, and a refresh asked
\* for stays asked for until a key frame is sent.
THEOREM FramesSharedTheorem == Video!Spec => []FramesShared
<1> Video!VideoAssumption
  BY VideoFits
<1>1. Video!Init => VideoInv
  BY VideoInit
<1>2. VideoInv /\ [Video!Next]_Video!vars => VideoInv'
  <2> SUFFICES ASSUME VideoInv, [Video!Next]_Video!vars PROVE VideoInv'
    OBVIOUS
  <2>1. CASE Video!Thread
    BY <2>1, MovesKeep, LeavingKeeps, SwapKeeps, SendKeeps DEF Video!Thread
  <2>2. CASE Video!Requests
    BY <2>2, ServerKeeps, ConnectionKeeps DEF Video!Requests
  <2>3. CASE UNCHANGED Video!vars
    BY <2>3 DEF Video!vars, Video!maps, Video!frames, Video!bounds, VideoInv, Video!TypeOK,
       Video!EachOnce, CallerIsIn,
                GotIsSubscribed, AllAlike, PromotedAlone, FreshAtStart, Video!RefreshNotLost
  <2> QED
    BY <2>1, <2>2, <2>3 DEF Video!Next
<1>3. VideoInv => FramesShared
  BY DEF VideoInv, FramesShared, Video!FramesShared, Video!SharedEncoder, AllAlike
<1> QED
  BY <1>1, <1>2, <1>3, PTL DEF Video!Spec

-----------------------------------------------------------------------------
(* The frame rate of a viewer: QosFps. *)

Rates == 1..120
Maybe == Rates \cup {-1}
Samples == {s \in Seq(Nat) : Len(s) <= 2}
Users ==
  [fps : Maybe, delays : Samples, quick : 0..2, incr : 0..2, bad : 0..3, fpsBad : 0..3,
   good : 0..3, replies : -1..2, before : Maybe, since : -1..6, ref : Maybe, ticks : 0..2,
   startup : {0, 1, 3}]

Setting == Rate!QosAssumption /\ cap \in Rates

LEMMA Numbers ==
  ASSUME Setting, NEW v \in Users
  PROVE  /\ Rate!Current(v) \in Rates /\ Rate!Floor \in 1..5 /\ Rate!Floor <= cap
         /\ MinFps \in 8..12 /\ cap \in Rates
  BY DEF Setting, Rate!QosAssumption, Rate!Current, Rate!Floor, Rate!UpTo, Rate!InitFps,
     Rate!MinAutoFps, Rate!None, Users, Rates, Maybe

LEMMA DivNat == \A a \in Nat, b \in Nat \ {0} : a \div b \in Nat
  OBVIOUS

LEMMA DivBound ==
  ASSUME NEW a \in Nat, NEW b \in Nat \ {0}, NEW k \in Nat, a < (k + 1) * b
  PROVE  a \div b <= k
  OBVIOUS

LEMMA MulMonotone ==
  ASSUME NEW f \in Nat, NEW a \in Nat, a >= 150
  PROVE  f * 150 <= f * a
  OBVIOUS

\* A delay of 150 ms or more asks for no more frames than there are.
LEMMA Divided ==
  ASSUME NEW f \in Nat, NEW a \in Nat, a >= 10
  PROVE  /\ Rate!CeilDiv(f * 150, a) \in Nat /\ (150 * f) \div a \in Nat
         /\ a >= 150 => Rate!CeilDiv(f * 150, a) <= f /\ (150 * f) \div a <= f
  <1>1. f * 150 \in Nat /\ f * a \in Nat /\ (f + 1) * a = f * a + a /\ 150 * f = f * 150
    OBVIOUS
  <1>2. f * 150 + a - 1 \in Nat /\ a \in Nat \ {0}
    BY <1>1
  <1>3. Rate!CeilDiv(f * 150, a) \in Nat /\ (150 * f) \div a \in Nat
    BY <1>1, <1>2, DivNat DEF Rate!CeilDiv
  <1>4. ASSUME a >= 150 PROVE Rate!CeilDiv(f * 150, a) <= f /\ (150 * f) \div a <= f
    <2>1. f * 150 + a - 1 < (f + 1) * a /\ f * 150 < (f + 1) * a
      BY <1>1, <1>4, MulMonotone
    <2>2. (f * 150 + a - 1) \div a <= f
      BY <1>2, <2>1, DivBound
    <2>3. (f * 150) \div a <= f
      BY <1>1, <1>2, <2>1, DivBound
    <2> QED BY <1>1, <2>2, <2>3 DEF Rate!CeilDiv
  <1> QED BY <1>3, <1>4

LEMMA AverageTyped ==
  ASSUME NEW s \in Samples, NEW b \in Nat \cup {-1}
  PROVE  Rate!AvgDelay(s, b) \in Nat
  <1> DEFINE mean == IF Len(s) = 1 THEN s[1] ELSE (s[1] + s[2]) \div 2
  <1>1. CASE s = <<>>
    BY <1>1 DEF Rate!AvgDelay, Rate!Good
  <1>2. CASE s # <<>>
    <2>1. mean \in Nat
      <3>1. Len(s) \in 1..2 /\ s[1] \in Nat /\ (Len(s) # 1 => s[2] \in Nat)
        <4>1. s \in Seq(Nat) /\ Len(s) <= 2
          BY DEF Samples
        <4>2. Len(s) \in Nat \ {0}
          BY <1>2, <4>1, EmptySeq, Zenon
        <4>3. 1 \in 1..Len(s) /\ (Len(s) # 1 => 2 \in 1..Len(s)) /\ Len(s) \in 1..2
          <5> DEFINE n == Len(s)
          <5>1. n \in Nat \ {0} /\ n <= 2
            BY <4>1, <4>2, Zenon
          <5> HIDE DEF n
          <5>2. 1 \in 1..n /\ (n # 1 => 2 \in 1..n) /\ n \in 1..2
            BY <5>1
          <5> QED BY <5>2 DEF n
        <4>4. \A k \in 1..Len(s) : s[k] \in Nat
          BY <4>1, ElementOfSeq
        <4> QED BY <4>3, <4>4
      <3> QED BY <3>1
    <2>2. Rate!Baseline(b) \in Nat
      BY DEF Rate!Baseline, Rate!None
    <2>3. Rate!AvgDelay(s, b) = Rate!Minus(mean, Rate!Baseline(b))
      BY <1>2 DEF Rate!AvgDelay
    <2> HIDE DEF mean
    <2> QED BY <2>1, <2>2, <2>3 DEF Rate!Minus
  <1> QED BY <1>1, <1>2

LEMMA SampleAdded ==
  ASSUME NEW s \in Samples, NEW d \in Nat
  PROVE  Rate!AddDelay(s, d) \in Samples
  BY DEF Samples, Rate!AddDelay

\* What the average calls for is at most five frames more, or the least rate.
LEMMA WantedBound ==
  ASSUME Setting, NEW v \in Users, NEW f \in Rates, NEW a \in Nat, a >= 10, NEW old \in Nat
  PROVE  /\ Rate!Wanted(v, f, a, old) \in Nat
         /\ Rate!Wanted(v, f, a, old) <= f + 5 \/ Rate!Wanted(v, f, a, old) <= MinFps
  <1> DEFINE divided == Rate!CeilDiv(f * 150, a)
             fall == (150 * MinFps) \div a
  <1>1. /\ divided \in Nat /\ fall \in Nat /\ f \in Nat /\ MinFps \in Nat
        /\ a >= 150 => divided <= f /\ fall <= MinFps
    <2>1. f \in Nat /\ MinFps \in Nat
      BY Numbers DEF Rates
    <2> QED BY <2>1, Divided
  <1> HIDE DEF divided, fall
  <1>2. Rate!Wanted(v, f, a, old) =
          LET step == IF f < NormalFps THEN 1 ELSE 0
          IN CASE a < 50 -> Rate!AtLeast(f + (IF v.quick + 1 >= 3 THEN 5 ELSE step), MinFps)
               [] a \in 50..99 -> Rate!AtLeast(f + (IF a < old THEN step ELSE 0), MinFps)
               [] a \in 100..149 -> Rate!AtLeast(f, MinFps)
               [] a \in 150..199 -> Rate!AtLeast(divided, MinFps)
               [] a \in 200..299 -> Rate!UpTo(divided, MinFps)
               [] a \in 300..599 -> fall
               [] OTHER -> Rate!UpTo(fall, divided)
    BY DEF Rate!Wanted, divided, fall, Rate!Good
  <1> QED
    BY <1>1, <1>2 DEF Rate!AtLeast, Rate!UpTo

-----------------------------------------------------------------------------
(* A reply, step by step. *)

LEMMA Fields ==
  ASSUME NEW v \in Users
  PROVE  /\ v.fps \in Maybe /\ v.delays \in Samples /\ v.quick \in 0..2 /\ v.incr \in 0..2
         /\ v.bad \in 0..3 /\ v.fpsBad \in 0..3 /\ v.good \in 0..3 /\ v.replies \in -1..2
         /\ v.before \in Maybe /\ v.since \in -1..6 /\ v.ref \in Maybe /\ v.ticks \in 0..2
         /\ v.startup \in {0, 1, 3}
  BY DEF Users

LEMMA CountedTyped ==
  ASSUME NEW v \in Users, NEW a \in Nat
  PROVE  LET w == Rate!Counted(v, a) IN
         /\ w \in Users /\ w.bad = v.bad /\ w.fpsBad = v.fpsBad /\ w.since = v.since
         /\ w.before = v.before /\ w.startup = v.startup /\ w.ref = v.ref
  <1> DEFINE q == IF a > 50 THEN 0 ELSE IF a < 50 THEN (v.quick + 1) % 3 ELSE v.quick
             i == IF a < Rate!Good THEN (v.incr + 1) % 3 ELSE 0
  <1>1. q \in 0..2 /\ i \in 0..2
    BY Fields
  <1>2. Rate!Counted(v, a) = [v EXCEPT !.quick = q, !.incr = i]
    BY DEF Rate!Counted
  <1> HIDE DEF q, i
  <1> QED BY <1>1, <1>2 DEF Users

\* A good reply never lowers the rate, forgets the bad ones, and raises it at
\* most to the level before the congestion, to what was asked or by a fifth.
LEMMA GoodReplyKeeps ==
  ASSUME NEW v \in Users, NEW cur \in Rates, NEW f \in Nat
  PROVE  LET r == Rate!GoodReply(v, cur, f) IN
         /\ r.v \in Users /\ r.fps \in Nat /\ r.fps >= cur
         /\ r.v.bad = 0 /\ r.v.fpsBad = 0
         /\ r.v.startup = v.startup /\ r.v.ref = v.ref
         /\ r.v.before \in {v.before, -1}
         /\ \/ r.fps <= f \/ r.fps <= v.before \/ r.fps <= cur + 2 \/ r.fps <= cur + cur \div 5
  <1> DEFINE w == [v EXCEPT !.bad = 0, !.fpsBad = 0, !.replies = -1, !.good = Rate!UpTo(@ + 1, 3)]
             level == IF v.before > cur THEN v.before ELSE -1
             back == [w EXCEPT !.before = -1, !.since = 0]
             on == [w EXCEPT !.before = -1]
  <1>1. /\ w \in Users /\ w.bad = 0 /\ w.fpsBad = 0 /\ w.before = v.before /\ w.startup = v.startup
        /\ w.ref = v.ref
    <2> DEFINE g == Rate!UpTo(v.good + 1, 3)
               zero == 0
               none == -1
    <2>1. g \in 0..3 /\ zero \in 0..3 /\ none \in -1..2
      BY Fields DEF Rate!UpTo
    <2>2. w = [v EXCEPT !.bad = zero, !.fpsBad = zero, !.replies = none, !.good = g]
      BY DEF Users
    <2> HIDE DEF g, w, zero, none
    <2>3. /\ w \in Users /\ w.bad = zero /\ w.fpsBad = zero /\ w.before = v.before
          /\ w.startup = v.startup /\ w.ref = v.ref
      BY <2>1, <2>2 DEF Users
    <2> QED BY <2>3 DEF zero
  <1>2. Rate!GoodReply(v, cur, f) =
          CASE w.good >= 2 /\ level # -1 -> [v |-> back, fps |-> Rate!AtLeast(f, level)]
            [] w.good = 3 /\ level = -1 ->
                 [v |-> on, fps |-> Rate!AtLeast(f, cur + Rate!AtLeast(cur \div 5, 2))]
            [] OTHER -> [v |-> w, fps |-> cur + Rate!AtLeast(cur \div 10, 1)]
    BY <1>1 DEF Rate!GoodReply, Rate!Recover, Rate!None
  <1>3. /\ back \in Users /\ back.bad = 0 /\ back.fpsBad = 0 /\ back.before = -1
        /\ back.startup = v.startup /\ back.ref = v.ref
        /\ on \in Users /\ on.bad = 0 /\ on.fpsBad = 0 /\ on.before = -1
        /\ on.startup = v.startup /\ on.ref = v.ref
    <2> DEFINE none == -1
               zero == 0
    <2>1. none \in Maybe /\ zero \in -1..6
      BY DEF Maybe
    <2>2. back = [w EXCEPT !.before = none, !.since = zero] /\ on = [w EXCEPT !.before = none]
      OBVIOUS
    <2> HIDE DEF w, back, on, none, zero
    <2>3. /\ back \in Users /\ back.bad = w.bad /\ back.fpsBad = w.fpsBad /\ back.before = none
          /\ back.startup = w.startup /\ back.ref = w.ref
      BY <1>1, <2>1, <2>2 DEF Users
    <2>4. /\ on \in Users /\ on.bad = w.bad /\ on.fpsBad = w.fpsBad /\ on.before = none
          /\ on.startup = w.startup /\ on.ref = w.ref
      BY <1>1, <2>1, <2>2 DEF Users
    <2> QED BY <1>1, <2>3, <2>4 DEF none
  <1>4. v.before \in Int /\ (level # -1 => level = v.before /\ level > cur) /\ w.good \in Int
    <2> HIDE DEF w
    <2>1. v.before \in Maybe /\ w.good \in 0..3
      BY <1>1, Fields
    <2> QED BY <2>1 DEF Maybe, Rates
  <1> HIDE DEF w, level, back, on
  <1>5. CASE w.good >= 2 /\ level # -1
    <2>1. Rate!GoodReply(v, cur, f) = [v |-> back, fps |-> Rate!AtLeast(f, level)]
      BY <1>2, <1>4, <1>5
    <2> QED BY <1>3, <1>4, <1>5, <2>1 DEF Rate!AtLeast, Rates
  <1>6. CASE w.good = 3 /\ level = -1
    <2>1. Rate!GoodReply(v, cur, f) =
            [v |-> on, fps |-> Rate!AtLeast(f, cur + Rate!AtLeast(cur \div 5, 2))]
      BY <1>2, <1>4, <1>6
    <2> QED BY <1>3, <1>4, <1>6, <2>1 DEF Rate!AtLeast, Rates
  <1>7. CASE ~(w.good >= 2 /\ level # -1) /\ ~(w.good = 3 /\ level = -1)
    <2>1. Rate!GoodReply(v, cur, f) = [v |-> w, fps |-> cur + Rate!AtLeast(cur \div 10, 1)]
      BY <1>2, <1>4, <1>7
    <2> QED BY <1>1, <1>4, <1>7, <2>1 DEF Rate!AtLeast, Rates
  <1> QED BY <1>5, <1>6, <1>7

\* The level to return to after a bad reply, when the last restore failed.
Fails(v, excess) == Rate!Recent(v) /\ (excess >= 600 \/ v.bad >= 2)

\* A bad reply never raises the rate.  It lowers it only when it is the third,
\* or a very bad one, or the failure of a restore, and never below what is asked.
BadOutcome(r, v, cur, f, excess, braked) ==
  /\ r.v \in Users /\ r.fps \in Nat /\ r.fps <= cur
  /\ r.v.ref = v.ref /\ r.v.startup \in {v.startup, 3}
  /\ r.v.bad = Rate!UpTo(v.bad + 1, 3)
  /\ r.v.fpsBad \in {Rate!UpTo(v.fpsBad + 1, 3), 0}
  /\ r.fps < cur =>
       /\ ~braked /\ r.v.fpsBad = 0 /\ r.fps >= f
       /\ \/ v.fpsBad >= 2 /\ r.fps >= cur - Rate!AtLeast(cur \div 5, 1)
          \/ excess >= 1000 \/ (excess >= 600 /\ Rate!Recent(v))
  /\ IF Fails(v, excess) THEN r.v.before = Rate!LoweredTo(cur)
     ELSE \/ r.v.before = v.before
          \/ v.before = -1 /\ r.v.before = cur

LEMMA BadReplyKeeps ==
  ASSUME NEW v \in Users, NEW cur \in Rates, NEW f \in Nat, NEW excess \in Nat,
         NEW first \in BOOLEAN, NEW braked \in BOOLEAN
  PROVE  BadOutcome(Rate!BadReply(v, cur, f, excess, first, braked), v, cur, f, excess, braked)
  <1> DEFINE w == [v EXCEPT !.bad = Rate!UpTo(@ + 1, 3), !.fpsBad = Rate!UpTo(@ + 1, 3),
                            !.replies = IF @ = -1 THEN -1 ELSE Rate!UpTo(@ + 1, 2)]
             failing == excess >= 600 /\ Rate!Recent(w)
             x == IF Rate!Recent(w) /\ (failing \/ w.bad >= 3)
                    THEN [w EXCEPT !.before = Rate!LoweredTo(cur), !.since = -1] ELSE w
             patient == /\ ~failing /\ excess < 1000
                        /\ x.fpsBad < 3 \/ (first /\ x.replies < 2)
             divisor == IF excess >= 1000 \/ failing THEN 2 ELSE 5
             y == Rate!OnReduction(x, cur)
  <1>1. Rate!BadReply(v, cur, f, excess, first, braked) =
          IF f >= cur \/ braked \/ patient THEN [v |-> x, fps |-> cur]
          ELSE [v |-> y, fps |-> Rate!AtLeast(f, cur - Rate!AtLeast(cur \div divisor, 1))]
    BY DEF Rate!BadReply, Rate!FailedRestore, Rate!None
  <1>2. /\ w \in Users /\ w.bad = Rate!UpTo(v.bad + 1, 3) /\ w.fpsBad = Rate!UpTo(v.fpsBad + 1, 3)
        /\ w.before = v.before /\ w.startup = v.startup /\ w.ref = v.ref /\ w.since = v.since
    <2> DEFINE b == Rate!UpTo(v.bad + 1, 3)
               g == Rate!UpTo(v.fpsBad + 1, 3)
               n == IF v.replies = -1 THEN -1 ELSE Rate!UpTo(v.replies + 1, 2)
    <2>1. b \in 0..3 /\ g \in 0..3 /\ n \in -1..2
      BY Fields DEF Rate!UpTo
    <2>2. w = [v EXCEPT !.bad = b, !.fpsBad = g, !.replies = n]
      BY DEF Users
    <2> HIDE DEF b, g, n, w
    <2>3. /\ w \in Users /\ w.bad = b /\ w.fpsBad = g
          /\ w.before = v.before /\ w.startup = v.startup /\ w.ref = v.ref /\ w.since = v.since
      BY <2>1, <2>2 DEF Users
    <2> QED BY <2>3 DEF b, g
  <1>3. /\ Rate!Recent(w) <=> Rate!Recent(v)
        /\ Rate!Recent(w) /\ (failing \/ w.bad >= 3) <=> Fails(v, excess)
    <2> HIDE DEF w
    <2> QED BY <1>2, Fields DEF Rate!Recent, Fails, Rate!UpTo
  <1>4. Rate!LoweredTo(cur) \in Rates
    BY DEF Rate!LoweredTo, Rates
  <1>5. /\ x \in Users /\ x.bad = w.bad /\ x.fpsBad = w.fpsBad /\ x.startup = v.startup
        /\ x.ref = v.ref
        /\ x.before = IF Fails(v, excess) THEN Rate!LoweredTo(cur) ELSE v.before
    <2> DEFINE m == Rate!LoweredTo(cur)
               none == -1
    <2>1. m \in Maybe /\ none \in -1..6
      BY <1>4 DEF Maybe
    <2> HIDE DEF w, failing, m, none
    <2>2. CASE Fails(v, excess)
      <3>1. x = [w EXCEPT !.before = m, !.since = none]
        BY <1>3, <2>2 DEF m, none
      <3> HIDE DEF x
      <3>2. /\ x \in Users /\ x.bad = w.bad /\ x.fpsBad = w.fpsBad /\ x.startup = w.startup
            /\ x.ref = w.ref /\ x.before = m
        BY <1>2, <2>1, <3>1 DEF Users
      <3> QED BY <1>2, <2>2, <3>2 DEF m
    <2>3. CASE ~Fails(v, excess)
      BY <1>2, <1>3, <2>3
    <2> QED BY <2>2, <2>3
  <1>6. /\ y \in Users /\ y.bad = x.bad /\ y.fpsBad = 0 /\ y.startup = 3 /\ y.ref = v.ref
        /\ y.before = IF x.before = -1 THEN cur ELSE x.before
    <2> HIDE DEF x
    <2> DEFINE m == IF x.before = -1 THEN cur ELSE x.before
    <2> DEFINE zero == 0
               over == 3
    <2>1. m \in Maybe /\ over \in {0, 1, 3} /\ zero \in 0..3
      BY <1>5, Fields DEF Maybe
    <2>2. y = [x EXCEPT !.startup = over, !.good = zero, !.fpsBad = zero, !.before = m]
      BY <1>5 DEF Rate!OnReduction, Rate!Over, Rate!None, Users
    <2> HIDE DEF m, y, zero, over
    <2>3. /\ y \in Users /\ y.bad = x.bad /\ y.fpsBad = zero /\ y.startup = over /\ y.ref = x.ref
          /\ y.before = m
      BY <1>5, <2>1, <2>2 DEF Users
    <2> QED BY <1>5, <2>3 DEF m, zero, over
  <1>7. /\ divisor \in {2, 5} /\ (divisor = 2 => excess >= 1000 \/ failing)
        /\ ~patient => failing \/ excess >= 1000 \/ x.fpsBad >= 3
        /\ failing => excess >= 600 /\ Rate!Recent(v)
    <2>1. x.fpsBad \in 0..3
      BY <1>5, Fields
    <2> HIDE DEF x, w
    <2> QED BY <1>3, <2>1
  <1>8. v.fpsBad \in 0..3 /\ (x.fpsBad >= 3 => v.fpsBad >= 2)
    <2> HIDE DEF w, x
    <2> QED BY <1>2, <1>5, Fields DEF Rate!UpTo
  <1> HIDE DEF w, x, y, divisor
  <1>9. CASE f >= cur \/ braked \/ patient
    BY <1>1, <1>2, <1>5, <1>9 DEF Rates, BadOutcome
  <1>10. CASE ~(f >= cur \/ braked \/ patient)
    <2>1. /\ Rate!BadReply(v, cur, f, excess, first, braked).v = y
          /\ Rate!BadReply(v, cur, f, excess, first, braked).fps =
                Rate!AtLeast(f, cur - Rate!AtLeast(cur \div divisor, 1))
      BY <1>1, <1>10
    <2>2. /\ Rate!AtLeast(f, cur - Rate!AtLeast(cur \div divisor, 1)) \in f..cur
          /\ divisor = 5 => Rate!AtLeast(f, cur - Rate!AtLeast(cur \div divisor, 1))
                              >= cur - Rate!AtLeast(cur \div 5, 1)
      BY <1>7, <1>10 DEF Rate!AtLeast, Rates
    <2>3. y.before = Rate!LoweredTo(cur) \/ ~Fails(v, excess)
      BY <1>4, <1>5, <1>6 DEF Rates
    <2>4. ~Fails(v, excess) => y.before = v.before \/ (v.before = -1 /\ y.before = cur)
      BY <1>5, <1>6
    <2> QED
      BY <1>2, <1>5, <1>6, <1>7, <1>8, <1>10, <2>1, <2>2, <2>3, <2>4 DEF BadOutcome
  <1> QED BY <1>9, <1>10

\* The shape of a result, and the judgement on one.
Result(r) == r = [v |-> r.v, fps |-> r.fps] /\ r.v \in Users /\ r.fps \in Nat

LEMMA GoodResult ==
  ASSUME NEW v \in Users, NEW cur \in Rates, NEW f \in Nat
  PROVE  Result(Rate!GoodReply(v, cur, f))
  <1> DEFINE r == Rate!GoodReply(v, cur, f)
  <1>1. r = [v |-> r.v, fps |-> r.fps]
    BY DEF Rate!GoodReply, Rate!Recover
  <1> QED BY <1>1, GoodReplyKeeps DEF Result

LEMMA BadResult ==
  ASSUME NEW v \in Users, NEW cur \in Rates, NEW f \in Nat, NEW excess \in Nat,
         NEW first \in BOOLEAN, NEW braked \in BOOLEAN
  PROVE  Result(Rate!BadReply(v, cur, f, excess, first, braked))
  <1> DEFINE r == Rate!BadReply(v, cur, f, excess, first, braked)
  <1>1. r = [v |-> r.v, fps |-> r.fps]
    BY DEF Rate!BadReply
  <1> QED BY <1>1, BadReplyKeeps DEF Result, BadOutcome

\* The start-up doubles the rate only after clean replies, and never lowers it.
Sped(q, r, excess) ==
  /\ q.v \in Users /\ q.fps \in Nat
  /\ q.v.bad = r.v.bad /\ q.v.fpsBad = r.v.fpsBad /\ q.v.before = r.v.before
  /\ q.v.ref = r.v.ref
  /\ r.v.startup = 3 => q.v.startup = 3 /\ q.fps = r.fps
  /\ excess >= 50 => q.v.startup = 3 /\ q.fps = r.fps
  /\ q.fps >= Rate!UpTo(r.fps, cap)

LEMMA AcceleratedKeeps ==
  ASSUME Setting, NEW r, Result(r), NEW cur \in Rates, NEW excess \in Nat, NEW braked \in BOOLEAN
  PROVE  Sped(Rate!Accelerated(r, cur, excess, braked), r, excess)
  <1> DEFINE doubled == Rate!UpTo(Rate!AtLeast(r.fps, 2 * cur), cap)
             q == Rate!Accelerated(r, cur, excess, braked)
             Sets(s) == q = [v |-> [r.v EXCEPT !.startup = s], fps |-> r.fps]
  <1>1. r.v \in Users /\ r.fps \in Nat /\ r = [v |-> r.v, fps |-> r.fps] /\ cap \in Rates
    BY DEF Result, Setting
  <1>2. doubled \in Nat /\ doubled >= Rate!UpTo(r.fps, cap)
    BY <1>1 DEF Rate!UpTo, Rate!AtLeast, Rates
  <1>3. r.v.startup \in {0, 1, 3}
    BY <1>1, Fields
  <1>4. ASSUME NEW s \in {0, 1, 3}, NEW y, y = [r.v EXCEPT !.startup = s]
        PROVE  /\ y \in Users /\ y.bad = r.v.bad /\ y.fpsBad = r.v.fpsBad
               /\ y.before = r.v.before /\ y.ref = r.v.ref /\ y.startup = s
    BY <1>1, <1>4 DEF Users
  <1>5. r.fps >= Rate!UpTo(r.fps, cap)
    BY <1>1 DEF Rate!UpTo, Rates
  <1>6. CASE r.v.startup = 3
    <2>1. q = r
      BY <1>1, <1>6 DEF Rate!Accelerated, Rate!Over
    <2> HIDE DEF q
    <2>2. Sped(q, r, excess)
      BY <1>1, <1>5, <1>6, <2>1 DEF Sped
    <2> QED BY <2>2 DEF q
  <1>7. CASE r.v.startup # 3 /\ (braked \/ excess >= 50 \/ cur >= cap)
    <2>1. q = [r EXCEPT !.v.startup = 3]
      <3>1. CASE braked
        BY <1>3, <1>7, <3>1 DEF Rate!Accelerated, Rate!Over
      <3>2. CASE excess >= 50
        BY <1>3, <1>7, <3>2 DEF Rate!Accelerated, Rate!Over
      <3>3. CASE cur >= cap
        BY <1>1, <1>3, <1>7, <3>3 DEF Rate!Accelerated, Rate!Over, Rates
      <3> QED BY <1>7, <3>1, <3>2, <3>3
    <2>2. Sets(3)
      BY <1>1, <2>1
    <2> HIDE DEF q
    <2>3. Sped(q, r, excess)
      BY <1>1, <1>4, <1>5, <1>7, <2>2 DEF Sped
    <2> QED BY <2>3 DEF q
  <1>8. CASE r.v.startup = 0 /\ ~(braked \/ excess >= 50 \/ cur >= cap)
    <2>1. Sets(1)
      BY <1>1, <1>8 DEF Rate!Accelerated, Rate!Over, Rates
    <2> HIDE DEF q
    <2>2. Sped(q, r, excess)
      BY <1>1, <1>4, <1>5, <1>8, <2>1 DEF Sped
    <2> QED BY <2>2 DEF q
  <1>9. CASE r.v.startup = 1 /\ ~(braked \/ excess >= 50 \/ cur >= cap)
    <2> DEFINE s == IF doubled >= cap THEN 3 ELSE 0
    <2>1. q = [v |-> [r.v EXCEPT !.startup = s], fps |-> doubled]
      BY <1>1, <1>9 DEF Rate!Accelerated, Rate!Over
    <2>2. s \in {0, 1, 3}
      OBVIOUS
    <2> HIDE DEF q, s, doubled
    <2>3. Sped(q, r, excess)
      BY <1>1, <1>2, <1>4, <1>9, <2>1, <2>2 DEF Sped
    <2> QED BY <2>3 DEF q
  <1> QED BY <1>3, <1>6, <1>7, <1>8, <1>9

-----------------------------------------------------------------------------
(* A reply as a whole. *)

\* What a reply with this excess makes of the viewer u.
Replied(w, excess, first) ==
  LET cur == Rate!Current(u) IN
  /\ w \in Users /\ w.fps \in Rates /\ w.fps <= cap /\ w.ref = -1
  /\ u.fpsBad <= u.bad => w.fpsBad <= w.bad
  /\ u.startup = 3 \/ excess >= 50 => w.startup = 3
  /\ excess < 150 =>
       /\ w.fpsBad = 0 /\ w.fps >= Rate!UpTo(cur, cap) /\ w.before \in {u.before, -1}
       /\ u.startup = 3 =>
            \/ w.fps <= u.before \/ w.fps <= cur + 6 \/ w.fps <= MinFps + 1
            \/ w.fps <= cur + cur \div 5
  /\ excess >= 150 =>
       /\ w.fps <= cur /\ w.fpsBad \in {Rate!UpTo(u.fpsBad + 1, 3), 0}
       /\ w.fps < Rate!UpTo(cur, cap) =>
            /\ u.ref = -1 /\ w.fpsBad = 0
            /\ w.fps >= Rate!UpTo(IF first THEN MinFps ELSE 5, cap)
            /\ \/ /\ u.fpsBad >= 2
                  /\ w.fps >= Rate!UpTo(cur - Rate!AtLeast(cur \div 5, 1), cap)
               \/ excess >= 1000 \/ (excess >= 600 /\ Rate!JustRestored)
       /\ IF Rate!JustRestored /\ (excess >= 600 \/ u.bad >= 2)
            THEN w.before = Rate!LoweredTo(cur)
            ELSE w.before = u.before \/ (u.before = -1 /\ w.before = cur)

LEMMA ClosedTyped ==
  ASSUME u \in Users, NEW d \in Nat
  PROVE  LET w == Rate!ProbeClosed(u, d) IN
         /\ w \in Users /\ w.bad = u.bad /\ w.fpsBad = u.fpsBad /\ w.since = u.since
         /\ w.before = u.before /\ w.startup = u.startup /\ w.ref = -1
  <1> DEFINE w == Rate!ProbeClosed(u, d)
             s == Rate!AddDelay(u.delays, d)
             zero == 0
             none == -1
  <1>1. s \in Samples /\ zero \in 0..2 /\ none \in Maybe
    BY Fields, SampleAdded DEF Maybe
  <1>2. w = [u EXCEPT !.ticks = zero, !.ref = none, !.delays = s]
    BY DEF Rate!ProbeClosed, Rate!None, Users
  <1> HIDE DEF w, s, zero, none
  <1>3. /\ w \in Users /\ w.bad = u.bad /\ w.fpsBad = u.fpsBad /\ w.since = u.since
        /\ w.before = u.before /\ w.startup = u.startup /\ w.ref = none
    BY <1>1, <1>2 DEF Users
  <1> QED BY <1>3 DEF w, none

\* The samples since the last restore are counted before the reply is judged.
LEMMA SinceCounted ==
  ASSUME NEW v \in Users, v.since = u.since, NEW w,
         w = [v EXCEPT !.since = IF @ = Rate!None THEN Rate!None ELSE Rate!UpTo(@ + 1, Rate!Guard + 1)]
  PROVE  /\ w \in Users /\ w.bad = v.bad /\ w.fpsBad = v.fpsBad /\ w.before = v.before
         /\ w.startup = v.startup /\ w.ref = v.ref
         /\ Rate!Recent(w) <=> Rate!JustRestored
  <1> DEFINE n == IF v.since = -1 THEN -1 ELSE Rate!UpTo(v.since + 1, 6)
  <1>1. v.since \in -1..6
    BY Fields
  <1>2. n \in -1..6
    BY <1>1 DEF Rate!UpTo
  <1>3. w = [v EXCEPT !.since = n]
    BY DEF Users, Rate!None, Rate!Guard
  <1>4. n # -1 /\ n <= 5 <=> v.since # -1 /\ v.since < 5
    BY <1>1 DEF Rate!UpTo
  <1> HIDE DEF n
  <1>5. /\ w \in Users /\ w.bad = v.bad /\ w.fpsBad = v.fpsBad /\ w.before = v.before
        /\ w.startup = v.startup /\ w.ref = v.ref /\ w.since = n
    BY <1>2, <1>3 DEF Users
  <1> QED BY <1>4, <1>5 DEF Rate!Recent, Rate!JustRestored, Rate!None, Rate!Guard

LEMMA ReplyKeeps ==
  ASSUME Setting, u \in Users, base \in Nat \cup {-1}, NEW d \in Nat, NEW b \in Nat \cup {-1},
         NEW first \in BOOLEAN
  PROVE  Replied(Rate!AfterReply(d, b, first), Rate!Minus(d, Rate!Baseline(b)), first)
  <1> DEFINE braked == u.ref # -1
             cur == Rate!Current(u)
             v0 == Rate!ProbeClosed(u, d)
             avg == Rate!AtLeast(Rate!AvgDelay(v0.delays, b), 10)
             v == Rate!Counted(v0, avg)
             wanted == Rate!Wanted(u, cur, avg, Rate!AvgDelay(u.delays, base))
             tried == wanted + (IF avg < 150 /\ u.incr = 2 THEN 1 ELSE 0)
             floor == IF first THEN Rate!AtLeast(Rate!Floor, MinFps) ELSE Rate!Floor
             f == Rate!AtLeast(tried, floor)
             excess == Rate!Minus(d, Rate!Baseline(b))
             x == [v EXCEPT !.since = IF @ = Rate!None THEN Rate!None
                                      ELSE Rate!UpTo(@ + 1, Rate!Guard + 1)]
             l == IF excess < 150 THEN Rate!GoodReply(x, cur, f)
                  ELSE Rate!BadReply(x, cur, f, excess, first, braked)
             q == Rate!Accelerated(l, cur, excess, braked)
             rate == Rate!Clamp(q.fps, 1, cap)
             w == [q.v EXCEPT !.fps = rate]
  <1>1. Rate!AfterReply(d, b, first) = w
    BY DEF Rate!AfterReply, Rate!Limited, Rate!Good, Rate!None
  <1>2. /\ cur \in Rates /\ Rate!Floor \in 1..5 /\ MinFps \in 8..12 /\ cap \in Rates
        /\ Rate!Floor = Rate!UpTo(5, cap) /\ braked \in BOOLEAN
    BY Numbers DEF Rate!Floor, Rate!MinAutoFps
  <1>3. excess \in Nat
    BY DEF Rate!Minus, Rate!Baseline, Rate!None
  <1>4. /\ v0 \in Users /\ v0.bad = u.bad /\ v0.fpsBad = u.fpsBad /\ v0.since = u.since
        /\ v0.before = u.before /\ v0.startup = u.startup /\ v0.ref = -1
    BY ClosedTyped
  <1> HIDE DEF v0, cur, excess
  <1>5. avg \in Nat /\ avg >= 10
    <2>1. Rate!AvgDelay(v0.delays, b) \in Nat
      BY <1>4, Fields, AverageTyped
    <2> QED BY <2>1 DEF Rate!AtLeast
  <1> HIDE DEF avg
  <1>6. /\ v \in Users /\ v.bad = u.bad /\ v.fpsBad = u.fpsBad /\ v.since = u.since
        /\ v.before = u.before /\ v.startup = u.startup /\ v.ref = -1
    BY <1>4, <1>5, CountedTyped
  <1> HIDE DEF v
  <1>7. wanted \in Nat /\ (wanted <= cur + 5 \/ wanted <= MinFps)
    <2>1. Rate!AvgDelay(u.delays, base) \in Nat
      BY Fields, AverageTyped
    <2> QED BY <1>2, <1>5, <2>1, WantedBound
  <1> HIDE DEF wanted
  <1>8. /\ f \in Nat /\ (f <= cur + 6 \/ f <= MinFps + 1)
        /\ f >= IF first THEN MinFps ELSE Rate!UpTo(5, cap)
    BY <1>2, <1>7 DEF Rate!AtLeast, Rate!UpTo, Rates
  <1> HIDE DEF f
  <1>9. /\ x \in Users /\ x.bad = u.bad /\ x.fpsBad = u.fpsBad /\ x.before = u.before
        /\ x.startup = u.startup /\ x.ref = -1
        /\ Rate!Recent(x) <=> Rate!JustRestored
    BY <1>6, SinceCounted
  <1> HIDE DEF x
  <1>10. Result(l)
    BY <1>2, <1>3, <1>8, <1>9, GoodResult, BadResult
  <1> HIDE DEF braked
  <1>11. Sped(q, l, excess)
    BY <1>2, <1>3, <1>10, AcceleratedKeeps
  <1>12. l.v \in Users /\ l.fps \in Nat /\ l.v.fpsBad \in 0..3 /\ l.v.bad \in 0..3
    BY <1>10, Fields DEF Result
  <1> HIDE DEF q
  <1>13. /\ rate \in Rates /\ rate <= cap /\ (rate <= q.fps \/ q.fps = 0)
         /\ (q.fps = 0 => rate = 1) /\ rate >= Rate!UpTo(q.fps, cap)
    BY <1>2, <1>11 DEF Rate!Clamp, Rate!UpTo, Rate!AtLeast, Rates, Sped
  <1>14. /\ w \in Users /\ w.fps = rate /\ w.ref = q.v.ref /\ w.bad = q.v.bad
         /\ w.fpsBad = q.v.fpsBad /\ w.before = q.v.before /\ w.startup = q.v.startup
    <2>1. rate \in Maybe /\ q.v \in Users
      BY <1>11, <1>13 DEF Maybe, Sped
    <2> HIDE DEF rate
    <2> QED BY <2>1 DEF Users
  <1> HIDE DEF w, rate
  <1>15. /\ w.fpsBad = l.v.fpsBad /\ w.bad = l.v.bad /\ w.before = l.v.before /\ w.ref = l.v.ref
         /\ l.v.startup = 3 \/ excess >= 50 => w.startup = 3 /\ q.fps = l.fps
    BY <1>11, <1>14 DEF Sped
  <1>16. cur \in Nat /\ cap \in Nat /\ q.fps \in Nat /\ q.fps >= Rate!UpTo(l.fps, cap)
    BY <1>2, <1>11 DEF Rates, Sped
  <1>17. CASE excess < 150
    <2>1. l = Rate!GoodReply(x, cur, f)
      BY <1>17
    <2> HIDE DEF l
    <2>2. /\ l.fps >= cur /\ l.v.bad = 0 /\ l.v.fpsBad = 0 /\ l.v.startup = u.startup
          /\ l.v.ref = -1 /\ l.v.before \in {u.before, -1}
          /\ \/ l.fps <= f \/ l.fps <= u.before \/ l.fps <= cur + 2 \/ l.fps <= cur + cur \div 5
      BY <1>2, <1>8, <1>9, <2>1, GoodReplyKeeps
    <2>3. w.fps >= Rate!UpTo(cur, cap)
      <3>1. w.fps \in Nat /\ w.fps >= Rate!UpTo(q.fps, cap)
        BY <1>13, <1>14 DEF Rates
      <3>2. l.fps \in Nat /\ l.fps >= cur
        BY <1>12, <2>2
      <3> QED BY <1>16, <3>1, <3>2 DEF Rate!UpTo
    <2>4. ASSUME u.startup = 3
          PROVE  \/ w.fps <= u.before \/ w.fps <= cur + 6 \/ w.fps <= MinFps + 1
                 \/ w.fps <= cur + cur \div 5
      <3>1. q.fps = l.fps
        BY <1>15, <2>2, <2>4
      <3>2. u.before \in Int /\ cur \in 1..120 /\ MinFps \in Nat
        BY <1>2, Fields DEF Maybe, Rates
      <3>3. rate <= l.fps
        BY <1>2, <1>12, <1>13, <1>16, <2>2, <3>1 DEF Rates
      <3>4. rate \in Nat /\ w.fps = rate
        BY <1>13, <1>14 DEF Rates
      <3> QED BY <1>8, <1>12, <2>2, <3>2, <3>3, <3>4
    <2>5. w.fpsBad = 0 /\ w.bad = 0
      BY <1>15, <2>2
    <2> QED
      BY <1>1, <1>3, <1>13, <1>14, <1>15, <1>17, <2>2, <2>3, <2>4, <2>5 DEF Replied, cur, excess
  <1>18. CASE ~(excess < 150)
    <2>1. l = Rate!BadReply(x, cur, f, excess, first, braked)
      BY <1>18
    <2>3. w.startup = 3 /\ q.fps = l.fps
      BY <1>3, <1>15, <1>18
    <2> HIDE DEF l
    <2>2. /\ l.fps <= cur /\ l.v.ref = -1 /\ l.v.bad = Rate!UpTo(u.bad + 1, 3)
          /\ l.v.fpsBad \in {Rate!UpTo(u.fpsBad + 1, 3), 0}
          /\ l.fps < cur =>
               /\ ~braked /\ l.v.fpsBad = 0 /\ l.fps >= f
               /\ \/ u.fpsBad >= 2 /\ l.fps >= cur - Rate!AtLeast(cur \div 5, 1)
                  \/ excess >= 1000 \/ (excess >= 600 /\ Rate!JustRestored)
          /\ IF Rate!JustRestored /\ (excess >= 600 \/ u.bad >= 2)
               THEN l.v.before = Rate!LoweredTo(cur)
               ELSE l.v.before = u.before \/ (u.before = -1 /\ l.v.before = cur)
      <3>1. BadOutcome(l, x, cur, f, excess, braked)
        BY <1>2, <1>3, <1>8, <1>9, <2>1, BadReplyKeeps
      <3>2. Fails(x, excess) <=> Rate!JustRestored /\ (excess >= 600 \/ u.bad >= 2)
        BY <1>9 DEF Fails
      <3> QED BY <1>9, <3>1, <3>2 DEF BadOutcome
    <2>4. u.bad \in 0..3 /\ u.fpsBad \in 0..3
      BY Fields
    <2>5. u.fpsBad <= u.bad => w.fpsBad <= w.bad
      BY <1>15, <2>2, <2>4 DEF Rate!UpTo
    <2>6. w.fps <= cur
      BY <1>2, <1>12, <1>13, <1>14, <1>16, <2>2, <2>3 DEF Rates, Rate!UpTo
    <2>7. ASSUME w.fps < Rate!UpTo(cur, cap)
          PROVE  /\ l.fps < cur /\ w.fps >= Rate!UpTo(l.fps, cap)
      BY <1>12, <1>13, <1>14, <1>16, <2>2, <2>3, <2>7 DEF Rates, Rate!UpTo
    <2>8. ASSUME w.fps < Rate!UpTo(cur, cap)
          PROVE  w.fps >= Rate!UpTo(IF first THEN MinFps ELSE 5, cap)
      <3>1. l.fps >= IF first THEN MinFps ELSE Rate!UpTo(5, cap)
        BY <1>2, <1>8, <1>12, <2>2, <2>7, <2>8 DEF Rate!UpTo, Rates
      <3>2. w.fps \in Nat /\ MinFps \in Nat
        BY <1>2, <1>13, <1>14 DEF Rates
      <3> QED BY <1>12, <1>16, <2>7, <2>8, <3>1, <3>2 DEF Rate!UpTo
    <2>9. ASSUME w.fps < Rate!UpTo(cur, cap), l.fps >= cur - Rate!AtLeast(cur \div 5, 1)
          PROVE  w.fps >= Rate!UpTo(cur - Rate!AtLeast(cur \div 5, 1), cap)
      <3>1. w.fps \in Nat /\ cur - Rate!AtLeast(cur \div 5, 1) \in Int
        BY <1>2, <1>13, <1>14 DEF Rates, Rate!AtLeast
      <3> QED BY <1>12, <1>16, <2>7, <2>9, <3>1 DEF Rate!UpTo
    <2>10. w.fps < Rate!UpTo(cur, cap) =>
            /\ u.ref = -1 /\ w.fpsBad = 0
            /\ w.fps >= Rate!UpTo(IF first THEN MinFps ELSE 5, cap)
            /\ \/ /\ u.fpsBad >= 2
                  /\ w.fps >= Rate!UpTo(cur - Rate!AtLeast(cur \div 5, 1), cap)
               \/ excess >= 1000 \/ (excess >= 600 /\ Rate!JustRestored)
      BY <1>15, <2>2, <2>7, <2>8, <2>9 DEF braked
    <2>11. w \in Users /\ w.fps \in Rates /\ w.fps <= cap /\ w.ref = -1
      BY <1>13, <1>14, <1>15, <2>2
    <2> QED
      BY <1>1, <1>15, <1>18, <2>2, <2>3, <2>5, <2>6, <2>10, <2>11 DEF Replied, cur, excess
  <1> QED BY <1>17, <1>18

\* What a second without a reply makes of the viewer u.
Stalled(w) ==
  LET cur == Rate!Current(u) IN
  /\ w \in Users /\ w.fps \in Rates /\ w.fps <= cur
  /\ w.fps < Rate!UpTo(cur, cap) => w.fps >= Rate!UpTo(5, cap)
  /\ w.bad = u.bad
  /\ u.ref = -1 => /\ w.ref = cur /\ w.fpsBad = 0 /\ w.startup = 3
                   /\ w.before = IF u.before = -1 THEN cur ELSE u.before
  /\ u.ref # -1 => /\ w.ref = u.ref /\ w.fpsBad = u.fpsBad /\ w.startup = u.startup
                   /\ w.before = u.before

LEMMA BrakeKeeps ==
  ASSUME Setting, u \in Users, u.ref # -1 => u.fps # -1, NEW n \in Nat \ {0}
  PROVE  Stalled(Rate!Brake(n))
  <1> DEFINE cur == Rate!Current(u)
             ref == IF u.ref # -1 THEN u.ref ELSE cur
             m == IF u.before = -1 THEN cur ELSE u.before
             held == IF u.fps = -1 THEN ref ELSE u.fps
             t == Rate!UpTo(u.ticks + 1, 2)
             s == Rate!AddDelay(u.delays, Rate!Elapsed(n))
             div == Rate!Divisor[Rate!UpTo(n, 5)]
             rate == Rate!UpTo(Rate!Clamp(ref \div div, Rate!Floor, cap), held)
             w == Rate!Brake(n)
             over == 3
             zero == 0
  <1>1. cur \in Rates /\ Rate!Floor \in 1..5 /\ cap \in Rates /\ Rate!Floor = Rate!UpTo(5, cap)
    BY Numbers DEF Rate!Floor, Rate!MinAutoFps
  <1>2. ref \in Rates /\ m \in Maybe /\ held = cur
    BY <1>1, Fields DEF Maybe, Rate!Current, Rate!None
  <1>3. t \in 0..2 /\ s \in Samples
    <2>1. Rate!Elapsed(n) \in Nat
      BY DEF Rate!Elapsed
    <2> QED BY <2>1, Fields, SampleAdded DEF Rate!UpTo
  <1>4. div \in {2, 4, 8, 16, 32}
    <2>1. Rate!UpTo(n, 5) \in {1, 2, 3, 4, 5}
      BY DEF Rate!UpTo
    <2> QED BY <2>1 DEF Rate!Divisor
  <1>5. w = LET v == IF u.ref # -1 THEN u ELSE [Rate!OnReduction(u, ref) EXCEPT !.ref = ref]
            IN [v EXCEPT !.ticks = Rate!UpTo(@ + 1, 2),
                         !.delays = Rate!AddDelay(@, Rate!Elapsed(n)), !.fps = rate]
    BY DEF Rate!Brake, Rate!None
  <1>6. /\ rate \in Rates /\ rate <= cur
        /\ rate < Rate!UpTo(cur, cap) => rate >= Rate!UpTo(5, cap)
    <2> HIDE DEF div, held, cur, ref
    <2>1. ref \div div \in Nat
      BY <1>2, <1>4 DEF Rates
    <2> DEFINE half == ref \div div
    <2> HIDE DEF half
    <2> QED BY <1>1, <1>2, <2>1 DEF Rate!UpTo, Rate!Clamp, Rate!AtLeast, Rates, half
  <1>7. rate \in Maybe /\ ref \in Maybe /\ over \in {0, 1, 3} /\ zero \in 0..3
    BY <1>2, <1>6 DEF Maybe
  <1>8. CASE u.ref # -1
    <2>1. w = [u EXCEPT !.ticks = t, !.delays = s, !.fps = rate]
      BY <1>5, <1>8 DEF Users
    <2> HIDE DEF w, t, s, rate, cur
    <2>2. /\ w \in Users /\ w.fps = rate /\ w.bad = u.bad /\ w.ref = u.ref /\ w.fpsBad = u.fpsBad
          /\ w.startup = u.startup /\ w.before = u.before
      BY <1>3, <1>7, <2>1 DEF Users
    <2>3. Stalled(w)
      BY <1>6, <1>8, <2>2 DEF Stalled, cur
    <2> QED BY <2>3 DEF w
  <1>9. CASE u.ref = -1
    <2> DEFINE v == [u EXCEPT !.startup = over, !.good = zero, !.fpsBad = zero, !.before = m]
               v1 == [v EXCEPT !.ref = ref]
    <2>1. Rate!OnReduction(u, ref) = v
      BY <1>9 DEF Rate!OnReduction, Rate!Over, Rate!None, Users
    <2>2. w = [v1 EXCEPT !.ticks = Rate!UpTo(@ + 1, 2),
                         !.delays = Rate!AddDelay(@, Rate!Elapsed(n)), !.fps = rate]
      BY <1>5, <1>9, <2>1
    <2> HIDE DEF w, rate, cur, m, v, over, zero
    <2>3. /\ v \in Users /\ v.startup = over /\ v.fpsBad = zero /\ v.before = m
          /\ v.bad = u.bad /\ v.ticks = u.ticks /\ v.delays = u.delays
      BY <1>2, <1>7 DEF Users, v
    <2> HIDE DEF v1, ref
    <2>4. /\ v1 \in Users /\ v1.startup = over /\ v1.fpsBad = zero /\ v1.before = m
          /\ v1.bad = u.bad /\ v1.ticks = u.ticks /\ v1.delays = u.delays /\ v1.ref = ref
      BY <1>7, <2>3 DEF Users, v1
    <2>5. w = [v1 EXCEPT !.ticks = t, !.delays = s, !.fps = rate]
      BY <2>2, <2>4 DEF Users
    <2> HIDE DEF t, s
    <2>6. /\ w \in Users /\ w.fps = rate /\ w.bad = u.bad /\ w.ref = ref /\ w.fpsBad = zero
          /\ w.startup = over /\ w.before = m
      BY <1>3, <1>7, <2>4, <2>5 DEF Users
    <2>7. Stalled(w)
      BY <1>6, <1>9, <2>6 DEF Stalled, cur, ref, m, over, zero
    <2> QED BY <2>7 DEF w
  <1> QED BY <1>8, <1>9

-----------------------------------------------------------------------------
(* The invariant. *)

History ==
  /\ out \in Nat /\ base \in Nat \cup {-1} /\ cap \in Caps
  /\ streak \in 0..3 /\ clean \in BOOLEAN /\ peak \in Nat /\ failed \in Nat \cup {-1}

\* A probe that is out has braked once: the rate is set, the start is over and
\* the bad replies are counted anew.
Braking ==
  /\ u.ref # -1 <=> out > 0
  /\ u.ref # -1 => u.fps # -1 /\ u.startup = 3 /\ u.fpsBad = 0

\* What the history knows is what the viewer's counts are about.
Tallied ==
  /\ u.fpsBad <= u.bad /\ u.fpsBad <= streak
  /\ ~clean => u.startup = 3
  /\ peak >= 15 /\ u.fps <= peak /\ u.before <= peak
  /\ failed # -1 => u.before # -1 /\ u.before < Rate!AtLeast(failed, 4)

RateInv == u \in Users /\ History /\ Braking /\ Tallied

LEMMA InitRate == ASSUME Rate!QosAssumption PROVE Rate!Init => RateInv
  <1> SUFFICES ASSUME Rate!Init PROVE RateInv
    OBVIOUS
  <1>1. u \in Users
    <2>1. <<>> \in Samples /\ -1 \in Maybe /\ -1 \in -1..2 /\ -1 \in -1..6
      BY DEF Samples, Maybe
    <2> QED BY <2>1 DEF Rate!Init, Rate!NewUser, Rate!None, Users
  <1>2. History
    BY DEF Rate!Init, History, Rate!None, Rate!InitFps
  <1>3. Braking /\ Tallied
    BY DEF Rate!Init, Rate!NewUser, Rate!None, Rate!InitFps, Braking, Tallied
  <1> QED BY <1>1, <1>2, <1>3 DEF RateInv

LEMMA Settled == ASSUME Rate!QosAssumption, RateInv PROVE Setting /\ u \in Users
  BY DEF Setting, RateInv, History, Rate!QosAssumption, Rates

LEMMA BaselinesTyped ==
  ASSUME Rate!QosAssumption, base \in Nat \cup {-1}, NEW d \in Nat, NEW braked \in BOOLEAN,
         NEW b \in Rate!NextBaselines(d, braked)
  PROVE  b \in Nat \cup {-1}
  BY DEF Rate!QosAssumption, Rate!NextBaselines, Rate!UpTo, Rate!None

LEMMA DelaysTyped ==
  ASSUME Rate!QosAssumption, out \in Nat,
         NEW d \in (IF out = 0 THEN Delays ELSE {Rate!Elapsed(out)})
  PROVE  d \in Nat
  BY DEF Rate!QosAssumption, Rate!Elapsed

LEMMA LoweredBelow ==
  ASSUME NEW cur \in Rates
  PROVE  Rate!LoweredTo(cur) \in Rates /\ Rate!LoweredTo(cur) <= cur
         /\ Rate!LoweredTo(cur) < Rate!AtLeast(cur, 4)
  BY DEF Rates, Rate!LoweredTo, Rate!AtLeast

LEMMA ReplyInv == ASSUME Rate!QosAssumption, RateInv, Rate!Reply PROVE RateInv'
  <1>1. Setting /\ u \in Users /\ base \in Nat \cup {-1} /\ out \in Nat
    BY Settled DEF RateInv, History
  <1>2. PICK d \in (IF out = 0 THEN Delays ELSE {Rate!Elapsed(out)}), first \in BOOLEAN :
          \E b \in Rate!NextBaselines(d, u.ref # Rate!None) :
            /\ base' = b /\ u' = Rate!AfterReply(d, b, first)
            /\ Rate!Remember(u', Rate!Minus(d, Rate!Baseline(b)))
            /\ out' = 0 /\ cap' = cap
    BY DEF Rate!Reply
  <1>b. PICK b \in Rate!NextBaselines(d, u.ref # Rate!None) :
          /\ base' = b /\ u' = Rate!AfterReply(d, b, first)
          /\ Rate!Remember(u', Rate!Minus(d, Rate!Baseline(b)))
          /\ out' = 0 /\ cap' = cap
    BY <1>2
  <1> DEFINE excess == Rate!Minus(d, Rate!Baseline(b))
             cur == Rate!Current(u)
  <1>3. d \in Nat /\ b \in Nat \cup {-1}
    BY <1>1, DelaysTyped, BaselinesTyped
  <1>4. Replied(u', excess, first)
    BY <1>1, <1>b, <1>3, ReplyKeeps
  <1>5. excess \in Nat
    BY <1>3 DEF Rate!Minus, Rate!Baseline, Rate!None
  <1>6. Rate!Remember(u', excess)
    BY <1>b
  <1> HIDE DEF excess
  <1>7. cur \in Rates /\ cap \in Rates /\ MinFps \in 8..12
    BY <1>1, Numbers
  <1>8. u' \in Users /\ u'.fps \in Rates /\ u'.fps <= cap /\ u'.ref = -1
    BY <1>4 DEF Replied
  <1>9. /\ u.fps \in Maybe /\ u.before \in Maybe /\ u.fpsBad \in 0..3 /\ u.bad \in 0..3
        /\ u'.before \in Maybe /\ u'.fpsBad \in 0..3 /\ u'.bad \in 0..3
    BY <1>1, <1>8, Fields
  <1>10. /\ streak \in 0..3 /\ clean \in BOOLEAN /\ peak \in Nat /\ failed \in Nat \cup {-1}
         /\ u.fpsBad <= u.bad /\ u.fpsBad <= streak /\ (~clean => u.startup = 3)
         /\ peak >= 15 /\ u.fps <= peak /\ u.before <= peak
         /\ failed # -1 => u.before # -1 /\ u.before < Rate!AtLeast(failed, 4)
    BY DEF RateInv, History, Tallied
  <1>11. cur <= peak
    BY <1>7, <1>10 DEF Rate!Current, Rate!UpTo, Rate!InitFps, Rate!None, Rates
  <1> HIDE DEF cur
  <1>12. Braking'
    BY <1>b, <1>8 DEF Braking
  <1>13. /\ streak' = IF excess < 150 \/ u'.fps < Rate!UpTo(cur, cap) THEN 0
                      ELSE Rate!UpTo(streak + 1, 3)
         /\ clean' = (clean /\ excess < 50)
         /\ peak' = Rate!AtLeast(peak, u'.fps)
         /\ failed' = IF excess >= 150 /\ Rate!JustRestored /\ (excess >= 600 \/ u.bad >= 2)
                        THEN cur ELSE IF u'.before = -1 THEN -1 ELSE failed
    BY <1>6 DEF Rate!Remember, Rate!Good, Rate!None, cur
  <1>14. peak' \in Nat /\ peak' >= peak /\ u'.fps <= peak'
    BY <1>8, <1>10, <1>13 DEF Rate!AtLeast, Rates
  <1>15. History'
    <2>1. streak' \in 0..3
      BY <1>10, <1>13 DEF Rate!UpTo
    <2>2. clean' \in BOOLEAN
      BY <1>13
    <2>3. failed' \in Nat \cup {-1}
      BY <1>7, <1>10, <1>13 DEF Rates
    <2>4. out' \in Nat /\ base' \in Nat \cup {-1} /\ cap' \in Caps
      BY <1>b, <1>3 DEF RateInv, History
    <2> QED BY <1>14, <2>1, <2>2, <2>3, <2>4 DEF History
  <1>16. ~clean' => u'.startup = 3
    BY <1>4, <1>5, <1>10, <1>13 DEF Replied
  <1>17. u'.fpsBad <= u'.bad
    BY <1>4, <1>10 DEF Replied
  <1>18. u'.fpsBad <= streak'
    <2>1. CASE excess < 150
      <3>1. u'.fpsBad = 0
        BY <1>4, <2>1 DEF Replied
      <3> QED BY <1>13, <2>1, <3>1
    <2>2. CASE excess >= 150 /\ u'.fps < Rate!UpTo(cur, cap)
      <3>1. u'.fpsBad = 0
        BY <1>4, <2>2 DEF Replied, cur
      <3> QED BY <1>13, <2>2, <3>1
    <2>3. CASE excess >= 150 /\ ~(u'.fps < Rate!UpTo(cur, cap))
      <3>1. u'.fpsBad \in {Rate!UpTo(u.fpsBad + 1, 3), 0}
        BY <1>4, <2>3 DEF Replied
      <3>2. streak' = Rate!UpTo(streak + 1, 3)
        BY <1>5, <1>13, <2>3
      <3> QED BY <1>9, <1>10, <3>1, <3>2 DEF Rate!UpTo
    <2> QED BY <1>5, <2>1, <2>2, <2>3
  <1>19. Rate!LoweredTo(cur) \in Rates /\ Rate!LoweredTo(cur) <= cur
         /\ Rate!LoweredTo(cur) < Rate!AtLeast(cur, 4)
    BY <1>7, LoweredBelow
  <1>20. u'.before <= peak'
         /\ (failed' # -1 => u'.before # -1 /\ u'.before < Rate!AtLeast(failed', 4))
    <2>1. CASE excess < 150
      <3>1. u'.before \in {u.before, -1}
        BY <1>4, <2>1 DEF Replied
      <3>2. failed' = IF u'.before = -1 THEN -1 ELSE failed
        BY <1>5, <1>13, <2>1
      <3> QED BY <1>9, <1>10, <1>14, <3>1, <3>2 DEF Maybe, Rates
    <2>2. CASE excess >= 150 /\ Rate!JustRestored /\ (excess >= 600 \/ u.bad >= 2)
      <3>1. u'.before = Rate!LoweredTo(cur)
        BY <1>4, <2>2 DEF Replied, cur
      <3>2. failed' = cur
        BY <1>13, <2>2
      <3> QED BY <1>7, <1>10, <1>11, <1>14, <1>19, <3>1, <3>2 DEF Rates
    <2>3. CASE excess >= 150 /\ ~(Rate!JustRestored /\ (excess >= 600 \/ u.bad >= 2))
      <3>1. u'.before = u.before \/ (u.before = -1 /\ u'.before = cur)
        BY <1>4, <2>3 DEF Replied, cur
      <3>2. failed' = IF u'.before = -1 THEN -1 ELSE failed
        BY <1>13, <2>3
      <3> QED BY <1>7, <1>9, <1>10, <1>11, <1>14, <3>1, <3>2 DEF Rates, Maybe
    <2> QED BY <1>5, <2>1, <2>2, <2>3
  <1> QED
    BY <1>8, <1>10, <1>12, <1>14, <1>15, <1>16, <1>17, <1>18, <1>20 DEF RateInv, Tallied

LEMMA TimeoutInv == ASSUME Rate!QosAssumption, RateInv, Rate!Timeout PROVE RateInv'
  <1>1. Setting /\ u \in Users /\ out \in Nat /\ Braking
    BY Settled DEF RateInv, History
  <1>2. /\ out' = out + 1 /\ u' = Rate!Brake(out + 1) /\ clean' = FALSE /\ streak' = 0
        /\ peak' = Rate!AtLeast(peak, u'.fps) /\ base' = base /\ cap' = cap /\ failed' = failed
    BY DEF Rate!Timeout
  <1>3. Stalled(u')
    BY <1>1, <1>2, BrakeKeeps DEF Braking
  <1> DEFINE cur == Rate!Current(u)
  <1>4. cur \in Rates
    BY <1>1, Numbers
  <1>5. /\ u' \in Users /\ u'.fps \in Rates /\ u'.bad = u.bad
        /\ u.ref = -1 => /\ u'.ref = cur /\ u'.fpsBad = 0 /\ u'.startup = 3
                         /\ u'.before = IF u.before = -1 THEN cur ELSE u.before
        /\ u.ref # -1 => /\ u'.ref = u.ref /\ u'.fpsBad = u.fpsBad /\ u'.startup = u.startup
                         /\ u'.before = u.before
    BY <1>3 DEF Stalled
  <1>6. u.fps \in Maybe /\ u.before \in Maybe /\ u.bad \in 0..3 /\ cap \in Rates
    BY <1>1, Fields, Numbers
  <1>7. /\ peak \in Nat /\ failed \in Nat \cup {-1} /\ peak >= 15 /\ u.fps <= peak
        /\ u.before <= peak
        /\ failed # -1 => u.before # -1 /\ u.before < Rate!AtLeast(failed, 4)
    BY DEF RateInv, History, Tallied
  <1>8. cur <= peak
    BY <1>6, <1>7 DEF Rate!Current, Rate!UpTo, Rate!InitFps, Rate!None, Rates
  <1> HIDE DEF cur
  <1>9. u'.ref # -1 /\ u'.fpsBad = 0 /\ u'.startup = 3 /\ u'.fps # -1
    BY <1>1, <1>4, <1>5 DEF Braking, Rates
  <1>10. Braking'
    BY <1>1, <1>2, <1>9 DEF Braking
  <1>11. peak' \in Nat /\ peak' >= peak /\ u'.fps <= peak'
    BY <1>2, <1>5, <1>7 DEF Rate!AtLeast, Rates
  <1>12. History'
    <2>1. clean' \in BOOLEAN
      BY <1>2, Zenon
    <2>2. out' \in Nat /\ streak' \in 0..3
      BY <1>1, <1>2
    <2>3. base' \in Nat \cup {-1} /\ cap' \in Caps
      BY <1>2 DEF RateInv, History
    <2> QED BY <1>2, <1>7, <1>11, <2>1, <2>2, <2>3 DEF History
  <1>13. u'.before \in {u.before, cur} /\ (u.before # -1 => u'.before = u.before)
    BY <1>5
  <1>14. Tallied'
    BY <1>2, <1>4, <1>5, <1>6, <1>7, <1>8, <1>9, <1>11, <1>13 DEF Tallied, Rates, Maybe
  <1> QED BY <1>5, <1>10, <1>12, <1>14 DEF RateInv

LEMMA NextRate == ASSUME Rate!QosAssumption PROVE RateInv /\ [Rate!Next]_Rate!vars => RateInv'
  <1> SUFFICES ASSUME RateInv, [Rate!Next]_Rate!vars PROVE RateInv'
    OBVIOUS
  <1>1. CASE Rate!Reply
    BY <1>1, ReplyInv
  <1>2. CASE Rate!Timeout
    BY <1>2, TimeoutInv
  <1>3. CASE Rate!BitrateCut
    <2>1. PICK n \in {0, 2} : u' = [u EXCEPT !.replies = n]
      BY <1>3 DEF Rate!BitrateCut
    <2>2. n \in -1..2 /\ u \in Users
      BY DEF RateInv
    <2>3. /\ u' \in Users /\ u'.fps = u.fps /\ u'.ref = u.ref /\ u'.startup = u.startup
          /\ u'.fpsBad = u.fpsBad /\ u'.bad = u.bad /\ u'.before = u.before
      BY <2>1, <2>2 DEF Users
    <2> QED
      BY <1>3, <2>3 DEF Rate!BitrateCut, Rate!hist, RateInv, History, Braking, Tallied
  <1>4. CASE Rate!SetCap
    BY <1>4 DEF Rate!SetCap, Rate!hist, RateInv, History, Braking, Tallied
  <1>5. CASE UNCHANGED Rate!vars
    BY <1>5 DEF Rate!vars, Rate!hist, RateInv, History, Braking, Tallied
  <1> QED BY <1>1, <1>2, <1>3, <1>4, <1>5 DEF Rate!Next

-----------------------------------------------------------------------------
(* What the invariant says of the reply or the second that comes next. *)

LEMMA NextReply ==
  ASSUME Rate!QosAssumption, RateInv, NEW r \in Rate!Replies
  PROVE  \E w : r.fps = w.fps /\ r.excess \in Nat /\ Replied(w, r.excess, r.first)
  <1>1. Setting /\ u \in Users /\ base \in Nat \cup {-1} /\ out \in Nat
    BY Settled DEF RateInv, History
  <1>2. PICK d \in (IF out = 0 THEN Delays ELSE {Rate!Elapsed(out)}) :
          \E b \in Rate!NextBaselines(d, out > 0) \ {-1}, first \in BOOLEAN :
            r = [fps |-> Rate!AfterReply(d, b, first).fps, excess |-> Rate!Minus(d, b),
                 first |-> first]
    BY DEF Rate!Replies, Rate!None
  <1>3. PICK b \in Rate!NextBaselines(d, out > 0) \ {-1}, first \in BOOLEAN :
          r = [fps |-> Rate!AfterReply(d, b, first).fps, excess |-> Rate!Minus(d, b),
               first |-> first]
    BY <1>2
  <1>4. d \in Nat /\ b \in Nat
    <2>1. d \in Nat
      BY <1>1, DelaysTyped
    <2>2. b \in Rate!NextBaselines(d, out > 0) /\ b # -1 /\ (out > 0) \in BOOLEAN
      BY <1>1
    <2> QED BY <1>1, <2>1, <2>2, BaselinesTyped
  <1>5. Rate!Minus(d, b) = Rate!Minus(d, Rate!Baseline(b)) /\ Rate!Minus(d, b) \in Nat
    BY <1>4 DEF Rate!Baseline, Rate!None, Rate!Minus
  <1>6. Replied(Rate!AfterReply(d, b, first), Rate!Minus(d, b), first)
    BY <1>1, <1>4, <1>5, ReplyKeeps
  <1>7. /\ r.fps = Rate!AfterReply(d, b, first).fps /\ r.excess = Rate!Minus(d, b)
        /\ r.first = first
    BY <1>3
  <1> QED BY <1>5, <1>6, <1>7

LEMMA NextBrake ==
  ASSUME Rate!QosAssumption, RateInv
  PROVE  Stalled(Rate!Brake(out + 1))
  <1>1. Setting /\ u \in Users /\ out + 1 \in Nat \ {0} /\ Braking
    BY Settled DEF RateInv, History
  <1> QED BY <1>1, BrakeKeeps DEF Braking

LEMMA RateMeasured ==
  ASSUME Rate!QosAssumption, RateInv
  PROVE  /\ Rate!TypeOK /\ Rate!ConfirmedFirst(Rate!Replies)
         /\ Rate!BadNeverRaises(Rate!Replies) /\ Rate!FloorKept(Rate!Replies)
         /\ Rate!JumpsAreEarned(Rate!Replies) /\ Rate!RestoreAimsLower
  <1> DEFINE cur == Rate!Current(u)
  <1>1. Setting /\ u \in Users /\ History /\ Braking /\ Tallied
    BY Settled DEF RateInv
  <1>2. cur \in Rates /\ cap \in Rates /\ MinFps \in 8..12 /\ Rate!Held = Rate!UpTo(cur, cap)
    BY <1>1, Numbers DEF Rate!Held
  <1>3. /\ u.fps \in Maybe /\ u.delays \in Samples /\ u.quick \in 0..2 /\ u.incr \in 0..2
        /\ u.bad \in 0..3 /\ u.fpsBad \in 0..3 /\ u.good \in 0..3 /\ u.replies \in -1..2
        /\ u.before \in Maybe /\ u.since \in -1..6 /\ u.ref \in Maybe /\ u.ticks \in 0..2
        /\ u.startup \in {0, 1, 3}
    BY <1>1, Fields
  <1>4. Rate!TypeOK
    <2>1. u.fpsBad \in 0..u.bad
      BY <1>1, <1>3 DEF Tallied
    <2>2. Len(u.delays) <= 2
      BY <1>3 DEF Samples
    <2>3. u.replies \in {-1, 0, 1, 2}
      BY <1>3
    <2> QED
      BY <1>1, <1>3, <2>1, <2>2, <2>3 DEF Rate!TypeOK, Rate!None, Rate!Guard, Rate!Over, Maybe,
         Rates, Braking
  <1> HIDE DEF cur
  <1>5. ASSUME NEW r \in Rate!Replies
        PROVE  /\ r.fps \in Rates /\ r.excess \in Nat
               /\ r.excess < 150 => r.fps >= Rate!UpTo(cur, cap)
               /\ r.excess < 150 /\ u.startup = 3 =>
                    \/ r.fps <= u.before \/ r.fps <= cur + 6 \/ r.fps <= MinFps + 1
                    \/ r.fps <= cur + cur \div 5
               /\ r.excess >= 150 => r.fps <= cur
               /\ r.excess >= 150 /\ r.fps < Rate!UpTo(cur, cap) =>
                    /\ u.ref = -1
                    /\ r.fps >= Rate!UpTo(IF r.first THEN MinFps ELSE 5, cap)
                    /\ \/ /\ u.fpsBad >= 2
                          /\ r.fps >= Rate!UpTo(cur - Rate!AtLeast(cur \div 5, 1), cap)
                       \/ r.excess >= 1000 \/ (r.excess >= 600 /\ Rate!JustRestored)
    <2>1. PICK w : r.fps = w.fps /\ r.excess \in Nat /\ Replied(w, r.excess, r.first)
      BY NextReply
    <2> QED BY <2>1 DEF Replied, cur
  <1>6. Rate!ConfirmedFirst(Rate!Replies)
    <2> SUFFICES ASSUME NEW r \in Rate!Replies, r.fps < Rate!UpTo(cur, cap), r.excess < 1000,
                        ~(r.excess >= 600 /\ Rate!JustRestored)
                 PROVE  /\ streak >= 2
                        /\ r.fps >= Rate!UpTo(cur - Rate!AtLeast(cur \div 5, 1), cap)
      BY <1>2 DEF Rate!ConfirmedFirst, cur
    <2>1. r.fps \in Nat /\ Rate!UpTo(cur, cap) \in Nat /\ r.excess \in Nat
      BY <1>2, <1>5 DEF Rates, Rate!UpTo
    <2>2. r.excess >= 150
      BY <1>5, <2>1
    <2>3. u.fpsBad >= 2 /\ r.fps >= Rate!UpTo(cur - Rate!AtLeast(cur \div 5, 1), cap)
      BY <1>5, <2>1, <2>2
    <2> QED BY <1>1, <1>3, <2>3 DEF Tallied, History
  <1>7. Rate!BadNeverRaises(Rate!Replies)
    <2>1. \A r \in Rate!Replies : r.excess >= Rate!Good => r.fps <= Rate!Current(u)
      BY <1>5 DEF Rate!Good, cur
    <2>2. Rate!Brake(out + 1).fps <= Rate!Current(u)
      BY NextBrake DEF Stalled
    <2>3. ASSUME out > 0, NEW r \in Rate!Replies PROVE r.fps >= Rate!Held
      <3>1. u.ref # -1
        BY <1>1, <2>3 DEF Braking
      <3>2. r.fps \in Nat /\ Rate!UpTo(cur, cap) \in Nat /\ r.excess \in Nat
        BY <1>2, <1>5 DEF Rates, Rate!UpTo
      <3>3. CASE r.excess < 150
        BY <1>2, <1>5, <3>3
      <3>4. CASE r.excess >= 150
        BY <1>2, <1>5, <3>1, <3>2, <3>4
      <3> QED BY <3>2, <3>3, <3>4
    <2> QED BY <2>1, <2>2, <2>3 DEF Rate!BadNeverRaises
  <1>8. Rate!FloorKept(Rate!Replies)
    <2>1. ASSUME NEW r \in Rate!Replies, r.fps < Rate!Held
          PROVE  r.fps >= Rate!UpTo(IF r.first THEN MinFps ELSE Rate!MinAutoFps, cap)
      <3>1. r.fps \in Nat /\ Rate!UpTo(cur, cap) \in Nat /\ r.excess \in Nat
        BY <1>2, <1>5 DEF Rates, Rate!UpTo
      <3>2. r.excess >= 150
        BY <1>2, <1>5, <2>1, <3>1
      <3> QED BY <1>2, <1>5, <2>1, <3>2 DEF Rate!MinAutoFps
    <2>2. Rate!Brake(out + 1).fps < Rate!Held
            => Rate!Brake(out + 1).fps >= Rate!UpTo(Rate!MinAutoFps, cap)
      BY NextBrake, <1>2 DEF Stalled, Rate!MinAutoFps, cur
    <2> QED BY <2>1, <2>2 DEF Rate!FloorKept
  <1>9. Rate!JumpsAreEarned(Rate!Replies)
    <2> SUFFICES ASSUME ~clean, NEW r \in Rate!Replies
                 PROVE  \/ r.fps <= peak
                        \/ r.fps <= Rate!AtLeast(Rate!AtLeast(MinFps + 1, cur + 6), cur + cur \div 5)
      BY DEF Rate!JumpsAreEarned, cur
    <2>1. u.startup = 3 /\ peak \in Nat /\ u.before <= peak
      BY <1>1 DEF Tallied, History
    <2>2. cur \in Nat /\ MinFps \in Nat /\ r.fps \in Nat /\ r.excess \in Nat /\ u.before \in Int
      BY <1>2, <1>3, <1>5 DEF Rates, Maybe
    <2>3. cur \div 5 \in Nat
      BY <2>2
    <2>4. \/ r.fps <= u.before \/ r.fps <= cur + 6 \/ r.fps <= MinFps + 1
          \/ r.fps <= cur + cur \div 5
      BY <1>5, <2>1, <2>2
    <2> QED BY <2>1, <2>2, <2>3, <2>4 DEF Rate!AtLeast
  <1>10. Rate!RestoreAimsLower
    BY <1>1 DEF Rate!RestoreAimsLower, Rate!None, Tallied
  <1> QED BY <1>4, <1>6, <1>7, <1>8, <1>9, <1>10

(* The rate is in measure, for any delays, baselines and caps, and so are the
   restarts of the capture: one slow reply does not lower the rate, a bad or
   missing one never raises it, no reduction goes below the floor, after a sign
   of a queue it leaps only to a level it has held, and a restore that
   congested at once aims lower (user_network_delay, limit_fps_change,
   user_delay_response_elapsed, DxgiRecoveryState).                         *)
THEOREM RateTheorem == Spec /\ Rate!Spec => []RateInMeasure
  <1>1. Rate!Init => RateInv
    BY RateFits, InitRate
  <1>2. RateInv /\ [Rate!Next]_Rate!vars => RateInv'
    BY RateFits, NextRate
  <1>3. RestartInv /\ RateInv => RateInMeasure
    <2> SUFFICES ASSUME RestartInv, RateInv PROVE RateInMeasure
      OBVIOUS
    <2>1. TypeOK /\ RestartsBounded
      BY DEF RestartInv
    <2> QED BY <2>1, RateFits, RateMeasured DEF RateInMeasure
  <1> QED
    BY <1>1, <1>2, <1>3, InitRestarts, NextRestarts, PTL DEF Spec, Rate!Spec
=============================================================================
