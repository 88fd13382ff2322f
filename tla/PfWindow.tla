------------------------------ MODULE PfWindow ------------------------------
(***************************************************************************)
(* The arithmetic of the port-forward multiplexer's flow control           *)
(* (src/src/port_forward_mux.rs): what a data frame costs, what the        *)
(* receiver's RecvWindow admits and re-advertises, and how the sender's    *)
(* SendCredit is charged and replenished.  Sizes are u32 in the code; the  *)
(* operations that saturate there saturate here, at U32_MAX.               *)
(***************************************************************************)
EXTENDS Integers

CONSTANTS
  INITIAL_WINDOW,   \* window of a channel before `opened`
  MIN_FRAME_CHARGE, \* least a data frame costs
  CHANNEL_WINDOW,   \* window of an opened channel
  MAX_FRAME,        \* largest payload of a data frame
  UPDATE_THRESHOLD, \* drained amount that triggers a window_update
  MAX_SEND_CREDIT,  \* cap on a sender's credit
  U32_MAX           \* u32::MAX

(* The code's own values satisfy this: 64 <= 64 KiB = MAX_FRAME <= 256 KiB,
   with the threshold at half the channel window and the cap equal to it.  *)
ASSUME WindowAssumption ==
  /\ MIN_FRAME_CHARGE \in Nat \ {0}
  /\ INITIAL_WINDOW \in Nat /\ MIN_FRAME_CHARGE <= INITIAL_WINDOW
  /\ MAX_FRAME \in Nat /\ MIN_FRAME_CHARGE <= MAX_FRAME
  /\ CHANNEL_WINDOW \in Nat /\ INITIAL_WINDOW <= CHANNEL_WINDOW
  /\ UPDATE_THRESHOLD \in Nat
  /\ UPDATE_THRESHOLD + MIN_FRAME_CHARGE <= CHANNEL_WINDOW
  /\ MAX_SEND_CREDIT \in Nat /\ CHANNEL_WINDOW <= MAX_SEND_CREDIT
  /\ U32_MAX \in Nat /\ MAX_SEND_CREDIT <= U32_MAX

AtLeast(a, b) == IF a >= b THEN a ELSE b

AtMost(a, b) == IF a <= b THEN a ELSE b

saturating_add(a, b) == AtMost(a + b, U32_MAX)

effective_window(advertised) == AtLeast(advertised, INITIAL_WINDOW)

----------------------------------------------------------------------------
(* What a data frame of this length costs its channel's window. *)
charge(len) == AtLeast(len, MIN_FRAME_CHARGE)

(* RecvWindow::accept: the frame fits what is left of the window. *)
accepts(remaining, len) == charge(len) <= remaining

drained_update_late(drained, len) ==
  LET total == saturating_add(drained, charge(len))
  IN  IF total < CHANNEL_WINDOW THEN 0 ELSE total

(* RecvWindow::drained: the amount to advertise, 0 when it is not yet due. *)
drained_update(drained, len) ==
  LET total == saturating_add(drained, charge(len))
  IN  IF total < UPDATE_THRESHOLD THEN 0 ELSE total

(* RecvWindow::drained: what stays unadvertised. *)
drained_left(drained, len) ==
  IF drained_update(drained, len) = 0
  THEN saturating_add(drained, charge(len)) ELSE 0

(* SendCredit::new. *)
new_credit(initial) == AtMost(initial, MAX_SEND_CREDIT)

(* SendCredit::take, once at least one minimum charge is there. *)
taken(credit) == AtMost(credit, MAX_FRAME)

(* SendCredit::add. *)
add_credit(credit, n) == AtMost(saturating_add(credit, n), MAX_SEND_CREDIT)

(* SendCredit::raise_initial: what `opened` adds to the initial window. *)
raised(total) == effective_window(total) - INITIAL_WINDOW

(* relay_socket_to_tunnel: credit that a read of `got` bytes gives back. *)
refund(allow, got) ==
  LET spent == IF got = 0 THEN 0 ELSE charge(got)
  IN  IF spent < allow THEN allow - spent ELSE 0

(* pending_fits: what the controlled side buffers while it connects. *)
pending_fits(charged, add_len) == charged + charge(add_len) <= INITIAL_WINDOW
=============================================================================
