----------------------------- MODULE MCMapping -----------------------------
(***************************************************************************)
(* The controller's side of a port-forward mapping: PfListener with three  *)
(* tunnels and two messages waiting, enough for a loop on its way out      *)
(* while the next tunnel is established and a third follows, and PfLogin   *)
(* with two mappings of one window, the first of them multiplexed.         *)
(*                                                                         *)
(* A behaviour is of one part, chosen at first; the other rests.           *)
(***************************************************************************)
EXTENDS PfListener

CONSTANTS                                   \* of PfLogin
  Mappings, Multiplexed, Passwords, NoPassword, Saved, Shared, Right, NoMapping,
  MaxHashes, MaxPrompts

VARIABLES chosen, lc, turn, at, challenge, pending, inbox, local, sent, prompts

login == <<lc, turn, at, challenge, pending, inbox, local, sent, prompts>>
all == <<chosen, vars, login>>

(* A saved password that is wrong, and two challenges to each mapping. *)
Stored == INSTANCE PfLogin

(* No password but what the user enters, twice. *)
Typed == INSTANCE PfLogin WITH Saved <- NoPassword, MaxHashes <- 1, MaxPrompts <- 2

ASSUME LoginFits == Stored!LoginAssumption

PartsInit == chosen \in {"listener", "saved", "typed"} /\ Init /\ Stored!Init

PartsNext ==
  \/ chosen = "listener" /\ Next /\ UNCHANGED <<chosen, login>>
  \/ chosen = "saved" /\ Stored!Next /\ UNCHANGED <<chosen, vars>>
  \/ chosen = "typed" /\ Typed!Next /\ UNCHANGED <<chosen, vars>>

(* The listener and the loops are scheduled; a connect ends, and so does a
   login, by READ_TIMEOUT or the controlled side's own login deadline.
   Nothing makes connections arrive, users answer or streams break.  The
   accept loop's select is unbiased, so a message waiting there is taken.  *)
ListenerFairness ==
  LET on == chosen = "listener" IN
  /\ SF_vars(on /\ UiRecv)
  /\ WF_vars(on /\ (Confirm \/ ConfirmNobody))
  /\ WF_vars(on /\ LoginRecv)
  /\ WF_vars(on /\ \E secured \in BOOLEAN : ClientStarted(secured))
  /\ WF_vars(on /\ LoginEnds)
  /\ WF_vars(on /\ OpenChannel)
  /\ \A g \in Gens : /\ WF_vars(on /\ LoopListenerEnds(g))
                     /\ WF_vars(on /\ LoopRaisesTeardown(g))
                     /\ WF_vars(on /\ LoopResets(g))

(* A login goes on once it is begun, the turn's queue is fair, and a
   connection whose peer sends no challenge ends by its timeout.           *)
LoginFairness ==
  LET on == chosen = "typed" IN
  \A m \in Mappings :
    /\ WF_login(on /\ Typed!Login(m)) /\ SF_login(on /\ Typed!TakeTurn(m))
    /\ WF_login(on /\ (Typed!HashArrived(m) \/ Typed!GiveUp(m)))

PartsSpec == PartsInit /\ [][PartsNext]_all /\ ListenerFairness /\ LoginFairness

----------------------------------------------------------------------------
(* No loop is left behind: a mapping that has ended takes its tunnel along,
   and a tunnel that has broken is let go of, so that a later connection can
   establish another (the listener's lifetime, tunnel_loop's last line).   *)
TunnelsLetGo == ListenerEndsTunnel /\ BrokenTunnelLetGo

(* "or one login carried another mapping's target or answered another's
   challenge": a login carries its own mapping's target and flag, and
   answers its own mapping's challenge (port_forward_login_turn).          *)
OwnLogin == Stored!OwnLogin

(* "a password typed while the Hash was on its way is kept and answers it":
   a mapping that holds one sends it, unless the mapping ends or a later
   one replaces it (pending_login, hash_arrived).                          *)
TypedIsSent == chosen = "typed" => Typed!TypedIsSent
=============================================================================
