--------------------------- MODULE TerminalStream ---------------------------
(***************************************************************************)
(* One terminal of a persistent service and the connections that come and  *)
(* go (terminal_service.rs): the reader thread's bounded channel, the loop *)
(* of each connection's service, the history, the replay and the two       *)
(* resizes that make a program redraw after a reconnect.                   *)
(*                                                                         *)
(* A chunk of output is its number.  The history keeps the last MaxHistory *)
(* of them and a replay takes the last MaxReplay (TerminalBuffer has the   *)
(* bytes).  A connection's loop shares the session's lock with its         *)
(* requests, so each pass over the session and each request is one step.   *)
(***************************************************************************)
EXTENDS Naturals, Sequences, SequencesExt, FiniteSets

CONSTANTS
  Conns,      \* the connections, in no order
  ChannelCap, \* CHANNEL_BUFFER_SIZE
  Attempts,   \* MAX_SIGWINCH_PHASE_ATTEMPTS
  MaxHistory, MaxReplay,
  Rows,       \* the heights a client asks for
  Overlap,    \* a connection may come before the last one is noticed gone
  MaxChunks,  \* bound: chunks the shell writes
  MaxResizes, \* bound: requests to resize
  MaxFails    \* bound: resizes of the pseudo terminal that fail

StreamAssumption ==
  /\ ChannelCap \in Nat \ {0} /\ Attempts \in Nat \ {0}
  /\ MaxHistory \in Nat /\ MaxReplay \in Nat
  /\ Rows \subseteq Nat /\ Overlap \in BOOLEAN
  /\ MaxChunks \in Nat /\ MaxResizes \in Nat /\ MaxFails \in Nat

VARIABLES
  written,  \* chunks the shell has written
  channel,  \* the output channel
  dropped,  \* chunks the full channel refused
  buffer,   \* output_buffer
  state,    \* SessionState; "None" before the terminal is opened first
  rows,     \* the session's rows
  pty,      \* the pseudo terminal's
  conn,     \* conn[c]: out, in (its loop runs), opened, gone
  shown,    \* shown[c]: what c was sent since it opened the terminal
  lost,     \* a resize failed for good since the last one that worked
  resizes, fails

output == <<written, channel, dropped, buffer>>
clients == <<conn, shown>>
bounds == <<resizes, fails>>
vars == <<output, state, rows, pty, clients, lost, bounds>>

Closed == [kind |-> "Closed", pending |-> << >>, phase |-> "Idle", retries |-> 0]
Active(pending, phase) ==
  [kind |-> "Active", pending |-> pending, phase |-> phase,
   retries |-> IF phase = "Idle" THEN 0 ELSE Attempts]

Present(c) == conn[c] \in {"in", "opened"}

LastOf(s, n) == SubSeq(s, IF Len(s) > n THEN Len(s) - n + 1 ELSE 1, Len(s))

Init ==
  /\ written = 0 /\ channel = << >> /\ dropped = {} /\ buffer = << >>
  /\ state = [Closed EXCEPT !.kind = "None"]
  /\ rows \in Rows /\ pty = rows
  /\ conn = [c \in Conns |-> "out"]
  /\ shown = [c \in Conns |-> << >>]
  /\ lost = FALSE
  /\ resizes = 0 /\ fails = 0

----------------------------------------------------------------------------
(* The reader thread: try_send_output. *)
ShellWrites ==
  /\ state.kind # "None" /\ written < MaxChunks
  /\ written' = written + 1
  /\ IF Len(channel) < ChannelCap
     THEN channel' = Append(channel, written') /\ UNCHANGED dropped
     ELSE dropped' = dropped \union {written'} /\ UNCHANGED channel
  /\ UNCHANGED <<buffer, state, rows, pty, clients, lost, bounds>>

(* init_terminal_service: reset_status, and a loop of its own. *)
Connect(c) ==
  /\ conn[c] = "out"
  /\ Overlap \/ \A d \in Conns : ~Present(d)
  /\ conn' = [conn EXCEPT ![c] = "in"]
  /\ state' = IF state.kind = "None" THEN state ELSE Closed
  /\ UNCHANGED <<output, rows, pty, shown, lost, bounds>>

(* The connection's end joins its loop; the session stays. *)
Disconnect(c) ==
  /\ Present(c)
  /\ conn' = [conn EXCEPT ![c] = "gone"]
  /\ UNCHANGED <<output, state, rows, pty, shown, lost, bounds>>

----------------------------------------------------------------------------
(* handle_open, for a terminal there is not yet. *)
OpenNew(c) ==
  /\ conn[c] = "in" /\ state.kind = "None"
  /\ state' = Active(<< >>, "Idle")
  /\ conn' = [conn EXCEPT ![c] = "opened"]
  /\ UNCHANGED <<output, rows, pty, shown, lost, bounds>>

ReplayOf(history) == LastOf(history, MaxReplay)

(* handle_open, for one there is: what waits in the channel joins the      *)
(* history, and the history is replayed before what comes now.             *)
Reopened(c, history, replay) ==
  /\ conn[c] = "in" /\ state.kind # "None"
  /\ buffer' = history
  /\ channel' = << >>
  /\ state' = Active(replay, "TempResize")
  /\ conn' = [conn EXCEPT ![c] = "opened"]
  /\ UNCHANGED <<written, dropped, rows, pty, shown, lost, bounds>>

Reopen(c) ==
  LET history == LastOf(buffer \o channel, MaxHistory)
  IN  Reopened(c, history, ReplayOf(history))

(* handle_resize; the size is kept even if the pseudo terminal refuses it. *)
Resize(c, r) ==
  /\ conn[c] = "opened" /\ resizes < MaxResizes
  /\ resizes' = resizes + 1
  /\ rows' = r
  /\ \/ pty' = r /\ lost' = FALSE /\ UNCHANGED fails
     \/ fails < MaxFails /\ fails' = fails + 1 /\ lost' = TRUE /\ UNCHANGED pty
  /\ UNCHANGED <<output, state, clients>>

----------------------------------------------------------------------------
(* read_outputs, for a session with its lock taken. *)
TempRows(r) == IF r > 2 THEN r - 1 ELSE r + 1

Target == IF state.phase = "TempResize" THEN TempRows(rows) ELSE rows

(* A phase has no attempts left, and is given up. *)
GiveUp ==
  /\ state.phase # "Idle" /\ state.retries = 0
  /\ state' = [state EXCEPT !.pending = << >>, !.phase = "Idle"]
  /\ lost' = TRUE
  /\ UNCHANGED <<pty, fails>>

(* do_sigwinch_resize works, and the next phase begins. *)
PhaseDone ==
  /\ state.phase # "Idle" /\ state.retries > 0 /\ rows # 0
  /\ pty' = Target
  /\ state' = IF state.phase = "TempResize" THEN Active(<< >>, "Restore")
                                            ELSE Active(<< >>, "Idle")
  /\ lost' = (lost /\ state.phase = "TempResize")
  /\ UNCHANGED fails

(* It fails, or there is no size yet: one attempt less. *)
PhaseFails ==
  /\ state.phase # "Idle" /\ state.retries > 0
  /\ \/ rows = 0 /\ UNCHANGED fails
     \/ rows # 0 /\ fails < MaxFails /\ fails' = fails + 1
  /\ state' = [state EXCEPT !.pending = << >>, !.retries = @ - 1]
  /\ UNCHANGED <<pty, lost>>

NoPhase ==
  /\ state.phase = "Idle"
  /\ state' = [state EXCEPT !.pending = << >>]
  /\ UNCHANGED <<pty, lost, fails>>

(* Restored in the same pass, as if one resize were enough. *)
SigwinchOnce ==
  \/ GiveUp \/ PhaseFails \/ NoPhase
  \/ /\ PhaseDone /\ state.phase = "Restore"
  \/ /\ state.phase = "TempResize" /\ state.retries > 0 /\ rows # 0
     /\ pty' = Target
     /\ state' = Active(<< >>, "Idle")
     /\ UNCHANGED <<lost, fails>>

Sigwinch == GiveUp \/ PhaseDone \/ PhaseFails \/ NoPhase

Drain ==
  /\ buffer' = LastOf(buffer \o channel, MaxHistory)
  /\ channel' = << >>
  /\ UNCHANGED <<written, dropped>>

(* A pass of c's loop: what came is put in the history whatever the state, *)
(* and sent, after the replay, if the session is active.                   *)
ReadClosed(c) ==
  /\ Present(c) /\ state.kind = "Closed" /\ channel # << >>
  /\ Drain
  /\ UNCHANGED <<state, rows, pty, clients, lost, bounds>>

ReadOutputs(c) ==
  /\ Present(c) /\ state.kind = "Active"
  /\ channel # << >> \/ state.pending # << >> \/ state.phase # "Idle"
  /\ Drain
  /\ shown' = [shown EXCEPT ![c] = @ \o state.pending \o channel]
  /\ Sigwinch
  /\ UNCHANGED <<rows, conn, resizes>>

----------------------------------------------------------------------------
Step(c) ==
  \/ Connect(c) \/ Disconnect(c)
  \/ OpenNew(c) \/ Reopen(c)
  \/ \E r \in Rows : Resize(c, r)
  \/ ReadClosed(c) \/ ReadOutputs(c)

Next == ShellWrites \/ \E c \in Conns : Step(c)

Spec == Init /\ [][Next]_vars

----------------------------------------------------------------------------
Chunks == 1 .. MaxChunks

TypeOK ==
  /\ written \in 0 .. MaxChunks /\ dropped \subseteq Chunks
  /\ channel \in Seq(Chunks) /\ Len(channel) <= ChannelCap
  /\ buffer \in Seq(Chunks) /\ Len(buffer) <= MaxHistory
  /\ state.kind \in {"None", "Closed", "Active"} /\ state.retries \in 0 .. Attempts
  /\ state.phase \in {"Idle", "TempResize", "Restore"}
  /\ conn \in [Conns -> {"out", "in", "opened", "gone"}]

(* What a connection that has opened the terminal was sent, will be sent   *)
(* as a replay and has waiting is in order, has nothing twice, and from    *)
(* its first chunk on lacks only what a full channel refused: a reconnect  *)
(* neither loses nor repeats output (handle_open, read_outputs).           *)
Ahead(c) == shown[c] \o state.pending \o channel

Seamless ==
  \A c \in Conns :
    conn[c] = "opened" /\ Ahead(c) # << >> =>
      /\ \A i \in 1 .. Len(Ahead(c)) - 1 : Ahead(c)[i] < Ahead(c)[i + 1]
      /\ Head(Ahead(c)) .. written \subseteq ToSet(Ahead(c)) \union dropped

(* The pseudo terminal has the session's height whenever no resize is      *)
(* under way and none has failed for good: disconnects between the two     *)
(* phases and resizes by the client in between do not leave it one row     *)
(* off (the phases of read_outputs).                                       *)
HeightRestored ==
  state.kind = "Active" /\ state.phase = "Idle" /\ ~lost => pty = rows
=============================================================================
