---------------------------- MODULE TerminalStop ----------------------------
(***************************************************************************)
(* TerminalSession::stop of terminal_service.rs, on Linux and on macOS:    *)
(* the session's writer and reader threads are ended and joined, and only  *)
(* then is the child killed.  The caller holds the session's lock and, in  *)
(* remove_service, that of the registry.                                   *)
(*                                                                         *)
(* The terminal driver and the program in it are modelled from how the     *)
(* code uses them: input waits in a queue of the driver until the program  *)
(* reads it, a write to the full queue waits, and what is written is       *)
(* echoed unless the program has turned that off.  Reads and writes end    *)
(* when nobody holds the other side of the terminal: on Linux that is the  *)
(* program and, until stop drops its pty_pair, the session itself, so the  *)
(* end of the program alone ends neither; on macOS it does.                *)
(***************************************************************************)
EXTENDS Naturals

CONSTANTS
  ChannelCap,  \* CHANNEL_BUFFER_SIZE of input_tx
  QueueCap,    \* the driver's input queue
  Echo,        \* the modes the program may leave the terminal in
  OnMac,       \* whether the host is a Mac
  MaxInput     \* bound: chunks of input the client sends

StopAssumption ==
  /\ ChannelCap \in Nat \ {0} /\ QueueCap \in Nat \ {0}
  /\ Echo \subseteq BOOLEAN /\ OnMac \subseteq BOOLEAN /\ MaxInput \in Nat

VARIABLES
  mac,      \* the host is a Mac
  echo,     \* the driver echoes input
  input,    \* chunks in the channel of input_tx
  open,     \* input_tx is held by the session
  pair,     \* pty_pair is held by the session
  sending,  \* handle_data has a clone of input_tx and waits to send
  writer,   \* the writer thread: idle, writing, ended
  queue,    \* the driver's input queue
  output,   \* there is output to read
  reader,   \* the reader thread: reading, ended
  exiting,
  child,    \* runs, exited, killed
  stop,     \* where stop is
  sentIn    \* chunks sent

host == <<mac, echo>>
vars ==
  <<host, input, open, pair, sending, writer, queue, output, reader, exiting, child, stop, sentIn>>

Init ==
  /\ mac \in OnMac /\ echo \in Echo
  /\ input = 0 /\ open = TRUE /\ pair = TRUE /\ sending = FALSE
  /\ writer = "idle" /\ queue = 0
  /\ output = FALSE /\ reader = "reading"
  /\ exiting = FALSE /\ child = "runs"
  /\ stop = "no" /\ sentIn = 0

----------------------------------------------------------------------------
(* handle_data clones the sender, and sends with the lock released. *)
HandleData ==
  /\ stop = "no" /\ ~sending /\ sentIn < MaxInput
  /\ sending' = TRUE /\ sentIn' = sentIn + 1
  /\ UNCHANGED <<host, input, open, pair, writer, queue, output, reader, exiting, child, stop>>

SendInput ==
  /\ sending
  /\ writer = "ended" \/ input < ChannelCap
  /\ sending' = FALSE
  /\ input' = IF writer = "ended" THEN input ELSE input + 1
  /\ UNCHANGED <<host, open, pair, writer, queue, output, reader, exiting, child, stop, sentIn>>

(* The writer thread. *)
WriterTakes ==
  /\ writer = "idle"
  /\ \/ input > 0 /\ input' = input - 1 /\ writer' = "writing"
     \/ input = 0 /\ ~open /\ ~sending /\ writer' = "ended" /\ UNCHANGED input
  /\ UNCHANGED <<host, open, pair, sending, queue, output, reader, exiting, child, stop, sentIn>>

(* Nobody is left at the other side of the terminal. *)
Hangup == child # "runs" /\ (mac \/ ~pair)

WriterWrites ==
  /\ writer = "writing"
  /\ \/ /\ ~Hangup /\ queue < QueueCap
        /\ queue' = queue + 1 /\ output' = (output \/ echo)
        /\ writer' = "idle"
     \/ Hangup /\ writer' = "ended" /\ UNCHANGED <<queue, output>>
  /\ UNCHANGED <<host, input, open, pair, sending, reader, exiting, child, stop, sentIn>>

(* The reader thread: a read waits for output or the end of the terminal. *)
ReaderReads ==
  /\ reader = "reading" /\ (output \/ Hangup)
  /\ output' = FALSE
  /\ reader' = IF exiting \/ ~output THEN "ended" ELSE "reading"
  /\ UNCHANGED <<host, input, open, pair, sending, writer, queue, exiting, child, stop, sentIn>>

(* The program: it reads, it writes or it ends, when it likes. *)
ProgramReads ==
  /\ child = "runs" /\ queue > 0
  /\ queue' = queue - 1
  /\ UNCHANGED <<host, input, open, pair, sending, writer, output, reader, exiting, child, stop, sentIn>>

ProgramWrites ==
  /\ child = "runs" /\ ~output
  /\ output' = TRUE
  /\ UNCHANGED <<host, input, open, pair, sending, writer, queue, reader, exiting, child, stop, sentIn>>

ProgramEnds ==
  /\ child = "runs"
  /\ child' = "exited"
  /\ UNCHANGED <<host, input, open, pair, sending, writer, queue, output, reader, exiting, stop, sentIn>>

----------------------------------------------------------------------------
(* stop, from remove_service or the drop of the session. *)
StopBegins ==
  /\ stop = "no"
  /\ stop' = "newline" /\ exiting' = TRUE
  /\ UNCHANGED <<host, input, open, pair, sending, writer, queue, output, reader, child, sentIn>>

(* The final newline, sent with the lock held; then input_tx is dropped and,
   not on a Mac, pty_pair.                                                 *)
StopSends ==
  /\ stop = "newline"
  /\ writer = "ended" \/ input < ChannelCap
  /\ input' = IF writer = "ended" THEN input ELSE input + 1
  /\ open' = FALSE /\ pair' = mac
  /\ stop' = "join_reader"
  /\ UNCHANGED <<host, sending, writer, queue, output, reader, exiting, child, sentIn>>

StopJoinsReader ==
  /\ stop = "join_reader" /\ reader = "ended"
  /\ stop' = "join_writer"
  /\ UNCHANGED <<host, input, open, pair, sending, writer, queue, output, reader, exiting, child, sentIn>>

StopJoinsWriter ==
  /\ stop = "join_writer" /\ writer = "ended"
  /\ stop' = "kill"
  /\ UNCHANGED <<host, input, open, pair, sending, writer, queue, output, reader, exiting, child, sentIn>>

StopKills ==
  /\ stop = "kill"
  /\ stop' = "done"
  /\ child' = IF child = "runs" THEN "killed" ELSE child
  /\ UNCHANGED <<host, input, open, pair, sending, writer, queue, output, reader, exiting, sentIn>>

----------------------------------------------------------------------------
Stop == StopSends \/ StopJoinsReader \/ StopJoinsWriter \/ StopKills

Threads == SendInput \/ WriterTakes \/ WriterWrites \/ ReaderReads

Next ==
  \/ HandleData \/ Threads
  \/ ProgramReads \/ ProgramWrites \/ ProgramEnds
  \/ StopBegins \/ Stop

Spec == Init /\ [][Next]_vars

----------------------------------------------------------------------------
(* The program has ended with its terminal's queue full, and so is the
   channel: the writer waits for the session's own side of the terminal, which
   stop drops after its newline is in the channel.                         *)
Wedged ==
  /\ ~mac /\ child = "exited" /\ stop = "newline" /\ pair
  /\ writer = "writing" /\ queue = QueueCap /\ input = ChannelCap
=============================================================================
