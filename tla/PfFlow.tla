------------------------------- MODULE PfFlow -------------------------------
(***************************************************************************)
(* One direction of one port-forward channel: the sender's SendCredit, the *)
(* receiver's RecvWindow, and the amounts under way between them.  This is *)
(* the contract the multiplexer's flow control keeps; PfMux, which has the *)
(* queues, the stream and the channel tasks, is checked to implement it.   *)
(*                                                                         *)
(* Amounts are in charged bytes.  START is the window both ends begin      *)
(* with: INITIAL_WINDOW from the controller to the controlled side, whose  *)
(* `opened` raises it, CHANNEL_WINDOW the other way, announced by `open`.  *)
(***************************************************************************)
EXTENDS PfWindow, TLAPS

CONSTANT START

ASSUME StartAssumption == START \in {INITIAL_WINDOW, CHANNEL_WINDOW}

VARIABLES
  credit,    \* SendCredit.credit
  hold,      \* taken from the credit by the read in progress
  flying,    \* charge of the frames sent and not yet at the receiver
  remaining, \* RecvWindow.remaining
  queued,    \* charge of the frames accepted and not yet written out
  drained,   \* RecvWindow.drained_since_update
  returning, \* granted by the receiver and not yet in the sender's credit
  granted,   \* the receiver has widened START to CHANNEL_WINDOW
  violated,  \* a frame was found over the window
  dead       \* the channel is over at one of its ends

flowVars == <<credit, hold, flying, remaining, queued, drained, returning,
              granted, violated, dead>>

Window == IF granted THEN CHANNEL_WINDOW ELSE START

FlowInit ==
  /\ credit = new_credit(START)
  /\ hold = 0
  /\ flying = 0
  /\ remaining = effective_window(START)
  /\ queued = 0
  /\ drained = 0
  /\ returning = 0
  /\ granted = (START = CHANNEL_WINDOW)
  /\ violated = FALSE
  /\ dead = FALSE

----------------------------------------------------------------------------
(* The sender parks until a whole minimum charge is there. *)
Take ==
  /\ ~dead /\ hold = 0
  /\ credit >= MIN_FRAME_CHARGE
  /\ hold' = taken(credit)
  /\ credit' = credit - taken(credit)
  /\ UNCHANGED <<flying, remaining, queued, drained, returning, granted, violated, dead>>

(* The socket gave `got` bytes: they are charged and the rest is refunded. *)
Send(got) ==
  /\ ~dead /\ got <= hold
  /\ flying' = flying + charge(got)
  /\ credit' = add_credit(credit, refund(hold, got))
  /\ hold' = 0
  /\ UNCHANGED <<remaining, queued, drained, returning, granted, violated, dead>>

(* End of file, or the relay is cancelled while it reads. *)
Refund ==
  /\ ~dead /\ hold > 0
  /\ credit' = add_credit(credit, hold)
  /\ hold' = 0
  /\ UNCHANGED <<flying, remaining, queued, drained, returning, granted, violated, dead>>

(* A frame of `len` bytes reaches the receiver's demultiplexer. *)
Accept(len) ==
  /\ ~dead /\ charge(len) <= flying
  /\ flying' = flying - charge(len)
  /\ IF accepts(remaining, len)
     THEN /\ remaining' = remaining - charge(len)
          /\ queued' = queued + charge(len)
          /\ UNCHANGED violated
     ELSE /\ violated' = TRUE
          /\ UNCHANGED <<remaining, queued>>
  /\ UNCHANGED <<credit, hold, drained, returning, granted, dead>>

(* A frame of `len` bytes has been written to the receiver's socket; once
   enough has, the window is given back and advertised.                    *)
Drain(len) ==
  /\ ~dead /\ granted /\ charge(len) <= queued
  /\ queued' = queued - charge(len)
  /\ drained' = drained_left(drained, len)
  /\ remaining' = saturating_add(remaining, drained_update(drained, len))
  /\ returning' = returning + drained_update(drained, len)
  /\ UNCHANGED <<credit, hold, flying, granted, violated, dead>>

(* The controlled side widens the window before its `opened` leaves. *)
Grant ==
  /\ ~dead /\ ~granted
  /\ granted' = TRUE
  /\ remaining' = saturating_add(remaining, CHANNEL_WINDOW - START)
  /\ returning' = returning + (CHANNEL_WINDOW - START)
  /\ UNCHANGED <<credit, hold, flying, queued, drained, violated, dead>>

(* A window_update, or the `opened` that raises the initial window,
   reaches the sender.                                                     *)
Replenish(n) ==
  /\ ~dead /\ n <= returning
  /\ returning' = returning - n
  /\ credit' = add_credit(credit, n)
  /\ UNCHANGED <<hold, flying, remaining, queued, drained, granted, violated, dead>>

(* The channel ends at one of its sides: from here on its frames are
   discarded and its windows are never consulted again.                    *)
Abandon ==
  /\ ~dead
  /\ dead' = TRUE
  /\ credit' = 0 /\ hold' = 0 /\ flying' = 0 /\ remaining' = 0
  /\ queued' = 0 /\ drained' = 0 /\ returning' = 0
  /\ granted' = TRUE
  /\ UNCHANGED violated

FlowNext ==
  \/ Take
  \/ \E got \in 1..MAX_FRAME : Send(got)
  \/ Refund
  \/ \E len \in 1..MAX_FRAME : Accept(len)
  \/ \E len \in 1..MAX_FRAME : Drain(len)
  \/ Grant
  \/ \E n \in 1..CHANNEL_WINDOW : Replenish(n)
  \/ Abandon

FlowSpec == FlowInit /\ [][FlowNext]_flowVars

----------------------------------------------------------------------------
(* Every variable stays within the window it accounts for. *)
FlowTypeOK ==
  /\ credit \in 0..MAX_SEND_CREDIT
  /\ hold \in 0..MAX_FRAME
  /\ flying \in 0..CHANNEL_WINDOW
  /\ remaining \in 0..U32_MAX
  /\ queued \in 0..CHANNEL_WINDOW
  /\ drained \in 0..CHANNEL_WINDOW
  /\ returning \in 0..CHANNEL_WINDOW
  /\ granted \in BOOLEAN /\ violated \in BOOLEAN /\ dead \in BOOLEAN

(* No byte of window is ever lost or minted: what the receiver would still
   admit is exactly what the sender holds, has under way or is about to get,
   and with what is queued and drained it makes up the whole window.  Were
   SendCredit's cap or a saturating addition ever to bite, this would fail
   (src/src/port_forward_mux.rs, RecvWindow and SendCredit).               *)
Conservation ==
  ~dead => /\ remaining = credit + hold + flying + returning
           /\ remaining + queued + drained = Window

(* A sender that obeys its credit is never found over the receiver's window:
   the demultiplexer's Violation branch is unreachable between two correct
   ends (RecvWindow::accept).                                              *)
NoViolation == ~violated

(* A sender parked for want of one minimum charge always has window coming:
   a frame under way or queued, or an update on its way back.  Without it
   the two ends would wait on each other for ever, the receiver for
   UPDATE_THRESHOLD and the sender for credit (SendCredit::take,
   RecvWindow::drained).                                                   *)
NoCreditDeadlock ==
  ~dead /\ hold = 0 /\ credit < MIN_FRAME_CHARGE => flying + queued + returning > 0

-----------------------------------------------------------------------------
(* Proofs, for every size of windows, frames and thresholds that
   WindowAssumption admits, the code's own (64 B, 64 KiB, 128 KiB, 256 KiB
   and 2^32 - 1) included. *)

(* What NoCreditDeadlock needs to be inductive: what is drained and not yet
   advertised stays below the threshold, and is nothing at all before the
   window is widened.                                                      *)
DrainedLow ==
  ~dead => /\ drained < UPDATE_THRESHOLD \/ drained = 0
           /\ granted \/ drained = 0

(* What Conservation needs: a read in progress can pay for any frame. *)
HoldPays == hold = 0 \/ hold >= MIN_FRAME_CHARGE

IndInv == FlowTypeOK /\ Conservation /\ NoViolation /\ DrainedLow /\ HoldPays

(* What a frame is charged is a length that fits u32 and pays the minimum. *)
LEMMA ChargeBounds ==
  ASSUME NEW len \in 1..MAX_FRAME
  PROVE  charge(len) \in Nat /\ charge(len) >= MIN_FRAME_CHARGE /\ charge(len) >= len
BY WindowAssumption DEF charge, AtLeast

(* Taking never overdraws the credit and gives at most one frame. *)
LEMMA TakenBounds ==
  ASSUME NEW c \in Nat
  PROVE  taken(c) \in 0..MAX_FRAME /\ taken(c) <= c
BY WindowAssumption DEF taken, AtMost

(* Nothing that stays within the window meets the cap or the saturation. *)
LEMMA AddIsExact ==
  ASSUME NEW a \in Nat, NEW b \in Nat, a + b <= CHANNEL_WINDOW
  PROVE  saturating_add(a, b) = a + b /\ add_credit(a, b) = a + b
BY WindowAssumption DEF saturating_add, add_credit, AtMost

(* A read pays for its frame and gets the rest back, provided that what was
   taken covers the charge.                                                *)
LEMMA RefundIsExact ==
  ASSUME NEW allow \in Nat, NEW got \in 1..MAX_FRAME, charge(got) <= allow
  PROVE  refund(allow, got) = allow - charge(got)
BY ChargeBounds DEF refund

(* A drained frame is either advertised with all that waits, or added to it. *)
LEMMA DrainedSplit ==
  ASSUME NEW d \in Nat, NEW len \in 1..MAX_FRAME, d + charge(len) <= CHANNEL_WINDOW
  PROVE  \/ /\ drained_update(d, len) = d + charge(len)
            /\ drained_left(d, len) = 0
         \/ /\ drained_update(d, len) = 0
            /\ drained_left(d, len) = d + charge(len)
            /\ drained_left(d, len) < UPDATE_THRESHOLD
<1>1. charge(len) \in Nat /\ charge(len) > 0
  BY ChargeBounds, WindowAssumption
<1>2. saturating_add(d, charge(len)) = d + charge(len)
  BY <1>1, AddIsExact
<1> QED
  BY <1>1, <1>2, WindowAssumption DEF drained_update, drained_left

(* Amounts that make up a window of at most CHANNEL_WINDOW fit their types. *)
LEMMA BalanceBounds ==
  ASSUME NEW c \in Nat, NEW h \in 0..MAX_FRAME, NEW f \in Nat, NEW r \in Nat,
         NEW q \in Nat, NEW d \in Nat, NEW b \in Nat, NEW w \in Nat,
         w <= CHANNEL_WINDOW, r = c + h + f + b, r + q + d = w
  PROVE  /\ c \in 0..MAX_SEND_CREDIT /\ f \in 0..CHANNEL_WINDOW /\ r \in 0..U32_MAX
         /\ q \in 0..CHANNEL_WINDOW /\ d \in 0..CHANNEL_WINDOW /\ b \in 0..CHANNEL_WINDOW
BY WindowAssumption

(* The initial windows satisfy the invariant. *)
LEMMA InitInv == FlowInit => IndInv
<1> SUFFICES ASSUME FlowInit PROVE IndInv
  OBVIOUS
<1>1. START \in Nat /\ INITIAL_WINDOW <= START /\ START <= CHANNEL_WINDOW
  BY StartAssumption, WindowAssumption
<1>2. credit = START /\ remaining = START
  BY <1>1, WindowAssumption DEF FlowInit, new_credit, effective_window, AtMost, AtLeast
<1>3. granted \in BOOLEAN /\ violated \in BOOLEAN /\ dead \in BOOLEAN
  BY DEF FlowInit
<1>4. FlowTypeOK
  BY <1>1, <1>2, <1>3, WindowAssumption DEF FlowInit, FlowTypeOK
<1>5. Window = START
  BY DEF FlowInit, Window
<1> QED
  BY <1>1, <1>2, <1>4, <1>5
  DEF FlowInit, IndInv, Conservation, NoViolation, DrainedLow, HoldPays

(* Every step preserves it. *)
LEMMA NextInv == IndInv /\ [FlowNext]_flowVars => IndInv'
<1> SUFFICES ASSUME IndInv, [FlowNext]_flowVars PROVE IndInv'
  OBVIOUS
<1> USE DEF IndInv
<1>a. START \in Nat /\ START <= CHANNEL_WINDOW /\ MIN_FRAME_CHARGE <= START
  BY StartAssumption, WindowAssumption
<1>b. /\ credit \in Nat /\ hold \in Nat /\ flying \in Nat /\ remaining \in Nat
      /\ queued \in Nat /\ drained \in Nat /\ returning \in Nat
  BY WindowAssumption DEF FlowTypeOK
<1>c. Window \in Nat /\ Window <= CHANNEL_WINDOW
  BY <1>a, WindowAssumption DEF Window
<1>d. ASSUME ~dead
      PROVE  /\ remaining = credit + hold + flying + returning
             /\ remaining + queued + drained = Window
  BY <1>d DEF Conservation
(* Where the balance is kept and stays within the window, types are. *)
<1>e. ASSUME credit' \in Nat, hold' \in 0..MAX_FRAME, flying' \in Nat, remaining' \in Nat,
             queued' \in Nat, drained' \in Nat, returning' \in Nat,
             Window' \in Nat, Window' <= CHANNEL_WINDOW,
             remaining' = credit' + hold' + flying' + returning',
             remaining' + queued' + drained' = Window',
             granted' \in BOOLEAN, violated' = violated, dead' = dead
      PROVE  FlowTypeOK' /\ Conservation' /\ NoViolation'
  <2>1. /\ credit' \in 0..MAX_SEND_CREDIT
        /\ flying' \in 0..CHANNEL_WINDOW /\ remaining' \in 0..U32_MAX
        /\ queued' \in 0..CHANNEL_WINDOW /\ drained' \in 0..CHANNEL_WINDOW
        /\ returning' \in 0..CHANNEL_WINDOW
    BY <1>e, BalanceBounds
  <2>2. violated' \in BOOLEAN /\ dead' \in BOOLEAN
    BY <1>e DEF FlowTypeOK
  <2>3. FlowTypeOK'
    BY <1>e, <2>1, <2>2 DEF FlowTypeOK
  <2> QED
    BY <1>e, <2>3 DEF Conservation, NoViolation
<1>1. CASE Take
  <2>1. taken(credit) \in 0..MAX_FRAME /\ taken(credit) <= credit
    BY <1>b, TakenBounds
  <2>2. Window' = Window /\ granted' = granted /\ granted' \in BOOLEAN
    BY <1>1 DEF Take, Window, FlowTypeOK
  <2>3. FlowTypeOK' /\ Conservation' /\ NoViolation'
    BY <1>1, <1>b, <1>c, <1>d, <1>e, <2>1, <2>2, WindowAssumption DEF Take
  <2>4. DrainedLow'
    BY <1>1 DEF Take, DrainedLow
  <2>5. HoldPays'
    BY <1>1, <1>b, WindowAssumption DEF Take, HoldPays, taken, AtMost
  <2> QED
    BY <2>3, <2>4, <2>5
<1>2. ASSUME NEW got \in 1..MAX_FRAME, Send(got) PROVE IndInv'
  <2>1. charge(got) \in Nat /\ charge(got) <= hold
    BY <1>2, <1>b, WindowAssumption DEF Send, HoldPays, charge, AtLeast
  <2>2. refund(hold, got) = hold - charge(got)
    BY <1>b, <2>1, RefundIsExact
  <2>3. credit' = credit + (hold - charge(got))
    BY <1>2, <1>b, <1>c, <1>d, <2>1, <2>2, WindowAssumption, AddIsExact DEF Send
  <2>4. Window' = Window /\ granted' \in BOOLEAN
    BY <1>2 DEF Send, Window, FlowTypeOK
  <2>5. FlowTypeOK' /\ Conservation' /\ NoViolation'
    BY <1>2, <1>b, <1>c, <1>d, <1>e, <2>1, <2>3, <2>4, WindowAssumption DEF Send
  <2>6. DrainedLow' /\ HoldPays'
    BY <1>2 DEF Send, DrainedLow, HoldPays
  <2> QED
    BY <2>5, <2>6
<1>3. CASE Refund
  <2>1. credit' = credit + hold
    BY <1>3, <1>b, <1>c, <1>d, WindowAssumption, AddIsExact DEF Refund
  <2>2. Window' = Window /\ granted' \in BOOLEAN
    BY <1>3 DEF Refund, Window, FlowTypeOK
  <2>3. FlowTypeOK' /\ Conservation' /\ NoViolation'
    BY <1>3, <1>b, <1>c, <1>d, <1>e, <2>1, <2>2, WindowAssumption DEF Refund
  <2>4. DrainedLow' /\ HoldPays'
    BY <1>3 DEF Refund, DrainedLow, HoldPays
  <2> QED
    BY <2>3, <2>4
<1>4. ASSUME NEW len \in 1..MAX_FRAME, Accept(len) PROVE IndInv'
  <2>1. charge(len) \in Nat
    BY ChargeBounds
  <2>2. accepts(remaining, len)
    BY <1>4, <1>b, <1>d, <2>1 DEF Accept, accepts
  <2>3. /\ remaining' = remaining - charge(len) /\ queued' = queued + charge(len)
        /\ flying' = flying - charge(len) /\ violated' = violated /\ ~dead
        /\ charge(len) <= flying
        /\ UNCHANGED <<credit, hold, drained, returning, granted, dead>>
    BY <1>4, <2>2 DEF Accept
  <2>4. Window' = Window /\ granted' \in BOOLEAN
    BY <2>3 DEF Window, FlowTypeOK
  <2>5. FlowTypeOK' /\ Conservation' /\ NoViolation'
    BY <1>b, <1>c, <1>d, <1>e, <2>1, <2>3, <2>4, WindowAssumption DEF FlowTypeOK
  <2>6. DrainedLow' /\ HoldPays'
    BY <2>3 DEF DrainedLow, HoldPays
  <2> QED
    BY <2>5, <2>6
<1>5. ASSUME NEW len \in 1..MAX_FRAME, Drain(len) PROVE IndInv'
  <2> DEFINE add == drained_update(drained, len)
             left == drained_left(drained, len)
  <2>1. charge(len) \in Nat /\ charge(len) <= queued
    BY <1>5, ChargeBounds DEF Drain
  <2>2. \/ add = drained + charge(len) /\ left = 0
        \/ add = 0 /\ left = drained + charge(len) /\ left < UPDATE_THRESHOLD
    <3>1. drained + charge(len) <= CHANNEL_WINDOW
      BY <1>5, <1>b, <1>c, <1>d, <2>1, WindowAssumption DEF Drain
    <3> QED
      BY <1>b, <3>1, DrainedSplit
  <2>3. add \in Nat /\ left \in Nat /\ add + left = drained + charge(len)
    BY <1>b, <2>1, <2>2
  <2>4. remaining' = remaining + add
    <3>1. remaining + add <= CHANNEL_WINDOW
      BY <1>5, <1>b, <1>c, <1>d, <2>1, <2>3, WindowAssumption DEF Drain
    <3> QED
      BY <1>5, <1>b, <2>3, <3>1, AddIsExact DEF Drain
  <2>5. /\ queued' = queued - charge(len) /\ drained' = left
        /\ returning' = returning + add /\ ~dead /\ granted
        /\ UNCHANGED <<credit, hold, flying, granted, violated, dead>>
    BY <1>5 DEF Drain
  <2>6. Window' = Window /\ granted' \in BOOLEAN
    BY <2>5 DEF Window, FlowTypeOK
  <2> HIDE DEF add, left
  <2>7. FlowTypeOK' /\ Conservation' /\ NoViolation'
    BY <1>b, <1>c, <1>d, <1>e, <2>1, <2>3, <2>4, <2>5, <2>6, WindowAssumption DEF FlowTypeOK
  <2>8. DrainedLow' /\ HoldPays'
    BY <2>2, <2>5 DEF DrainedLow, HoldPays
  <2> QED
    BY <2>7, <2>8
<1>6. CASE Grant
  <2> DEFINE widen == CHANNEL_WINDOW - START
  <2>1. Window = START /\ Window' = CHANNEL_WINDOW /\ ~dead /\ granted'
    BY <1>6 DEF Grant, Window
  <2>2. drained = 0
    BY <1>6 DEF Grant, DrainedLow
  <2>3. remaining' = remaining + widen
    BY <1>6, <1>a, <1>b, <1>d, <2>1, WindowAssumption, AddIsExact DEF Grant
  <2>4. FlowTypeOK' /\ Conservation' /\ NoViolation'
    BY <1>6, <1>a, <1>b, <1>d, <1>e, <2>1, <2>3, WindowAssumption DEF Grant, FlowTypeOK
  <2>5. DrainedLow' /\ HoldPays'
    BY <1>6, <2>2 DEF Grant, DrainedLow, HoldPays
  <2> QED
    BY <2>4, <2>5
<1>7. ASSUME NEW n \in 1..CHANNEL_WINDOW, Replenish(n) PROVE IndInv'
  <2>1. credit' = credit + n
    BY <1>7, <1>b, <1>c, <1>d, WindowAssumption, AddIsExact DEF Replenish
  <2>2. Window' = Window /\ granted' \in BOOLEAN
    BY <1>7 DEF Replenish, Window, FlowTypeOK
  <2>3. FlowTypeOK' /\ Conservation' /\ NoViolation'
    BY <1>7, <1>b, <1>c, <1>d, <1>e, <2>1, <2>2, WindowAssumption DEF Replenish, FlowTypeOK
  <2>4. DrainedLow' /\ HoldPays'
    BY <1>7 DEF Replenish, DrainedLow, HoldPays
  <2> QED
    BY <2>3, <2>4
<1>8. CASE Abandon
  BY <1>8, WindowAssumption
  DEF Abandon, FlowTypeOK, Conservation, NoViolation, DrainedLow, HoldPays
<1>9. CASE UNCHANGED flowVars
  BY <1>9 DEF flowVars, FlowTypeOK, Conservation, NoViolation, DrainedLow, HoldPays, Window
<1> QED
  BY <1>1, <1>2, <1>3, <1>4, <1>5, <1>6, <1>7, <1>8, <1>9 DEF FlowNext

LEMMA Inductive == FlowSpec => []IndInv
BY InitInv, NextInv, PTL DEF FlowSpec

(* In every reachable state each amount is within the window it belongs to. *)
THEOREM TypeCorrect == FlowSpec => []FlowTypeOK
<1>1. IndInv => FlowTypeOK
  BY DEF IndInv
<1> QED
  BY Inductive, <1>1, PTL

(* No credit is lost or minted, whatever the sizes: RecvWindow and SendCredit
   agree to the byte, so their saturating additions and their cap never bite. *)
THEOREM WindowConserved == FlowSpec => []Conservation
<1>1. IndInv => Conservation
  BY DEF IndInv
<1> QED
  BY Inductive, <1>1, PTL

(* RecvWindow::accept never refuses a frame of a sender that obeys its
   credit.                                                                 *)
THEOREM NeverViolated == FlowSpec => []NoViolation
<1>1. IndInv => NoViolation
  BY DEF IndInv
<1> QED
  BY Inductive, <1>1, PTL

(* Sender and receiver never wait on each other: the threshold leaves at least
   one minimum charge of the window outside what is drained and unadvertised. *)
THEOREM NeverDeadlocked == FlowSpec => []NoCreditDeadlock
<1>1. IndInv => NoCreditDeadlock
  <2> SUFFICES ASSUME IndInv, ~dead, hold = 0, credit < MIN_FRAME_CHARGE,
                      ~(flying + queued + returning > 0)
               PROVE  FALSE
    BY DEF NoCreditDeadlock
  <2>1. /\ credit \in Nat /\ flying \in Nat /\ remaining \in Nat
        /\ queued \in Nat /\ drained \in Nat /\ returning \in Nat
    BY WindowAssumption DEF IndInv, FlowTypeOK
  <2>2. credit + drained = Window
    BY <2>1 DEF IndInv, Conservation
  <2>3. START \in Nat /\ MIN_FRAME_CHARGE <= START
    BY StartAssumption, WindowAssumption
  <2>4. CASE granted
    BY <2>1, <2>2, <2>4, WindowAssumption DEF IndInv, DrainedLow, Window
  <2>5. CASE ~granted
    BY <2>1, <2>2, <2>3, <2>5, WindowAssumption DEF IndInv, DrainedLow, Window
  <2> QED
    BY <2>4, <2>5
<1> QED
  BY Inductive, <1>1, PTL
=============================================================================
