---------------------------- MODULE DxgiRecovery ----------------------------
(***************************************************************************)
(* How the capture loop of src/src/server/video_service.rs comes back from *)
(* a lost desktop duplication: DxgiRecoveryState, which outlives the runs  *)
(* of the loop, and what each run does with it.                            *)
(*                                                                         *)
(* A run ends with "SWITCH" and the service starts the next one; any other *)
(* reason for a new run (a refresh, a codec, a changed display) is Switch. *)
(***************************************************************************)
EXTENDS Naturals, Sequences

CONSTANTS Limit,      \* DXGI_RECOVERY_LIMIT
          Window,     \* DXGI_RECOVERY_WINDOW
          Grace,      \* DXGI_RECOVERY_FRAME_GRACE
          MaxTime     \* bound: ticks of a behaviour

ASSUME LimitsAssumption == {Limit, Window, Grace, MaxTime} \subseteq Nat \ {0}

None == MaxTime + 1

VARIABLES
    now,
    attempts, window_started, restart_pending, fallback_pending,
    run,          \* the capturer of the run: dxgi, gdi, or none between runs
    recovery,     \* dxgi_recovery_started
    try_gdi,
    exhausted,    \* history: the last loss was past the limit, no capturer since
    restarts      \* history: when the capture was restarted to recover

state == <<attempts, window_started, restart_pending, fallback_pending>>
vars == <<now, state, run, recovery, try_gdi, exhausted, restarts>>

TypeOK ==
    /\ now \in 0..MaxTime
    /\ attempts \in 0..Limit
    /\ window_started \in 0..now \cup {None}
    /\ restart_pending \in BOOLEAN
    /\ fallback_pending \in BOOLEAN
    /\ run \in {"none", "dxgi", "gdi"}
    /\ recovery \in 0..now \cup {None}
    /\ try_gdi \in 0..4
    /\ exhausted \in BOOLEAN
    /\ restarts \in Seq(0..MaxTime)

Init ==
    /\ now = 0
    /\ attempts = 0
    /\ window_started = None
    /\ restart_pending = FALSE
    /\ fallback_pending = FALSE
    /\ run = "none"
    /\ recovery = None
    /\ try_gdi = 0
    /\ exhausted = FALSE
    /\ restarts = <<>>

-----------------------------------------------------------------------------
\* A run starts; get_capturer has succeeded.  enabled: enable_directx_capture.
Start ==
    /\ run = "none"
    /\ recovery' = IF restart_pending THEN now ELSE None
    /\ restart_pending' = FALSE
    /\ \E enabled \in BOOLEAN :
          run' = IF fallback_pending \/ ~enabled THEN "gdi" ELSE "dxgi"
    /\ fallback_pending' = FALSE
    /\ try_gdi' = 1
    /\ exhausted' = FALSE
    /\ UNCHANGED <<now, attempts, window_started, restarts>>

Frame ==
    /\ run # "none"
    /\ try_gdi' = 0
    /\ UNCHANGED <<now, state, run, recovery, exhausted, restarts>>

\* The grace of a recovery is over, or the run is none.
GraceOver == recovery = None \/ now - recovery >= Grace

WouldBlock ==
    /\ run # "none"
    /\ IF GraceOver /\ try_gdi > 0 /\ run = "dxgi"
         THEN IF try_gdi > 3 THEN run' = "gdi" /\ try_gdi' = 1
                             ELSE try_gdi' = try_gdi + 1 /\ UNCHANGED run
         ELSE UNCHANGED <<run, try_gdi>>
    /\ UNCHANGED <<now, state, recovery, exhausted, restarts>>

End == run' = "none" /\ UNCHANGED <<recovery, try_gdi>>

Gdi == run' = "gdi" /\ UNCHANGED <<recovery, try_gdi>>

\* The window of the attempts has ended, or none was begun.
WindowOver == window_started = None \/ now - window_started > Window

Attempts == IF WindowOver THEN 0 ELSE attempts

NewWindow == window_started' = IF WindowOver THEN now ELSE window_started

\* ACCESS_LOST, within the limit: restart, whatever the display check says.
Recover ==
    /\ run = "dxgi" /\ Attempts < Limit
    /\ attempts' = Attempts + 1
    /\ NewWindow
    /\ restart_pending' = TRUE
    /\ End
    /\ restarts' = Append(restarts, now)
    /\ UNCHANGED <<now, fallback_pending, exhausted>>

\* Past the limit: to GDI in this run, or in the next one when the display
\* check ends this run first.
ExhaustedHere == Gdi /\ fallback_pending' = FALSE /\ exhausted' = FALSE

\* Without fallback_pending, the restart forgets it.
ExhaustedForgotten == End /\ UNCHANGED fallback_pending /\ exhausted' = TRUE

ExhaustedSwitch == End /\ fallback_pending' = TRUE /\ exhausted' = TRUE

Exhausted ==
    /\ run = "dxgi" /\ Attempts >= Limit
    /\ attempts' = Attempts
    /\ NewWindow
    /\ ExhaustedHere \/ ExhaustedSwitch
    /\ UNCHANGED <<now, restart_pending, restarts>>

\* Any other error: DXGI falls back, GDI ends the run, the display check may
\* end it before.
Error ==
    /\ run # "none"
    /\ End \/ (run = "dxgi" /\ Gdi)
    /\ UNCHANGED <<now, state, exhausted, restarts>>

Switch ==
    /\ run # "none"
    /\ End
    /\ UNCHANGED <<now, state, exhausted, restarts>>

Tick ==
    /\ now < MaxTime
    /\ now' = now + 1
    /\ UNCHANGED <<state, run, recovery, try_gdi, exhausted, restarts>>

Next == Start \/ Frame \/ WouldBlock \/ Recover \/ Exhausted \/ Error \/ Switch \/ Tick

Spec == Init /\ [][Next]_vars

-----------------------------------------------------------------------------
(* Properties.                                                             *)

\* A loss past the limit is followed by GDI, also when the display-change
\* check restarts the capture before the error is handled.
ExhaustedFallsBack ==
    [][exhausted /\ run' # "none" => run' = "gdi"]_vars

\* Nothing is left pending in a run: a later restart for another reason
\* neither falls back nor counts as a recovery.
NothingStale == run # "none" => ~restart_pending /\ ~fallback_pending

\* Losing the duplication over and over cannot restart the capture for ever:
\* the window tumbles, so any stretch of its length sees fewer than twice the
\* limit; that many restarts in a row take longer.
RestartsBounded ==
    \A i, j \in 1..Len(restarts) :
        j = i + 2 * Limit - 1 => restarts[j] > restarts[i] + Window
=============================================================================
