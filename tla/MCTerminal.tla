----------------------------- MODULE MCTerminal -----------------------------
(***************************************************************************)
(* The terminal service: the bytes of one history (TerminalBuffer), one    *)
(* terminal through reconnects (TerminalStream, once with much output and  *)
(* once with resizes that fail), the registry (TerminalSessions, once with *)
(* two connections and once with two terminals), and the end of a session  *)
(* (TerminalStop).                                                         *)
(*                                                                         *)
(* A behaviour is of one scene, chosen at first; the other parts rest.     *)
(***************************************************************************)
EXTENDS Naturals, Sequences

VARIABLES
  chosen,
  lines, total_size, last_line_incomplete, input,
  written, channel, dropped, buffer, state, rows, pty, conn, shown, lost, resizes, fails,
  reg, services, persistent, sync, idle, sessions, made, runs, child, reaper, sent, deaf,
  unkilled, who, act, opened, told, loop, doomed, toggles,
  mac, echo, inQueue, open, pair, sending, writer, queue, output, reader, exiting, program, stop,
  sentIn

history == <<lines, total_size, last_line_incomplete, input>>
stream ==
  <<written, channel, dropped, buffer, state, rows, pty, conn, shown, lost, resizes, fails>>
registry ==
  <<reg, services, persistent, sync, idle, sessions, made, runs, child, reaper, sent, deaf,
    unkilled, who, act, opened, told, loop, doomed, toggles>>
stopping ==
  <<mac, echo, inQueue, open, pair, sending, writer, queue, output, reader, exiting, program, stop,
    sentIn>>
all == <<chosen, history, stream, registry, stopping>>

(* Every chunk of one or two characters, of one, two and four bytes. *)
Characters == {<<"n">>, <<"a">>, <<"2", "c">>, <<"4", "c", "c", "c">>}

History == INSTANCE TerminalBuffer WITH
  MaxSize <- 7, MaxLines <- 3, ReplaySize <- 5, MaxInput <- 12,
  Chunks <- {<< >>} \cup Characters \cup {x \o y : x, y \in Characters}

Output == INSTANCE TerminalStream WITH
  Conns <- 1..3, ChannelCap <- 2, Attempts <- 2, MaxHistory <- 4, MaxReplay <- 3,
  Rows <- {3}, Overlap <- FALSE, MaxChunks <- 8, MaxResizes <- 0, MaxFails <- 1

Height == INSTANCE TerminalStream WITH
  Conns <- 1..3, ChannelCap <- 1, Attempts <- 2, MaxHistory <- 1, MaxReplay <- 1,
  Rows <- {0, 2, 3, 4}, Overlap <- FALSE, MaxChunks <- 1, MaxResizes <- 2, MaxFails <- 3

(* Two connections, one after the other, that ask for the same terminal. *)
Clean == INSTANCE TerminalSessions WITH
  Conns <- 1..2, Ids <- {1}, Opens <- [c \in 1..2 |-> {1}], Persistence <- BOOLEAN,
  Overlap <- FALSE, MaxSessions <- 2, MaxServices <- 2, MaxEvents <- 0,
  conn <- who

(* One connection with two terminals; terminal_persistent is changed, a read or
   a kill fails.                                                           *)
Told == INSTANCE TerminalSessions WITH
  Conns <- {1}, Ids <- 1..2, Opens <- [c \in {1} |-> 1..2], Persistence <- BOOLEAN,
  Overlap <- FALSE, MaxSessions <- 2, MaxServices <- 1, MaxEvents <- 1,
  conn <- who

Stop == INSTANCE TerminalStop WITH
  ChannelCap <- 2, QueueCap <- 2, Echo <- {TRUE}, OnMac <- BOOLEAN, MaxInput <- 6,
  input <- inQueue, child <- program

ASSUME /\ History!BufferAssumption /\ Output!StreamAssumption /\ Height!StreamAssumption
       /\ Clean!SessionsAssumption /\ Told!SessionsAssumption /\ Stop!StopAssumption

PartsInit ==
  /\ chosen \in {"history", "output", "height", "clean", "told", "stop"}
  /\ History!Init /\ Stop!Init /\ (chosen # "stop" => ~mac)
  /\ IF chosen = "height" THEN Height!Init ELSE Output!Init
  /\ IF chosen = "told" THEN Told!Init ELSE Clean!Init

(* The connections of a terminal are alike: they come in the order of their
   numbers.                                                                *)
InOrder == \A c \in 2..3 : conn'[c] # "out" => conn[c - 1] # "out"

PartsNext ==
  \/ chosen = "history" /\ History!Next /\ UNCHANGED <<chosen, stream, registry, stopping>>
  \/ /\ chosen = "output" /\ Output!Next /\ InOrder
     /\ UNCHANGED <<chosen, history, registry, stopping>>
  \/ /\ chosen = "height" /\ Height!Next /\ InOrder
     /\ UNCHANGED <<chosen, history, registry, stopping>>
  \/ chosen = "clean" /\ Clean!Next /\ UNCHANGED <<chosen, history, stream, stopping>>
  \/ chosen = "told" /\ Told!Next /\ UNCHANGED <<chosen, history, stream, stopping>>
  \/ chosen = "stop" /\ Stop!Next /\ UNCHANGED <<chosen, history, stream, registry>>

(* A connection's loop runs as long as it is subscribed, every 30 ms. *)
StreamFairness ==
  \A c \in 1..3 :
    WF_stream(\/ chosen = "output" /\ Output!ReadOutputs(c)
              \/ chosen = "height" /\ Height!ReadOutputs(c))

(* The threads run, a request looked up is carried out, and time passes. *)
RegistryFairness ==
  LET clean == chosen = "clean"
      told1 == chosen = "told"
  IN
  /\ WF_registry((clean /\ Clean!Loop(1)) \/ (told1 /\ Told!Loop(1)))
  /\ WF_registry((clean /\ Clean!Answer(1)) \/ (told1 /\ Told!Answer(1)))
  /\ WF_registry(clean /\ Clean!Loop(2)) /\ WF_registry(clean /\ Clean!Answer(2))
  /\ WF_registry((clean /\ Clean!TimePasses) \/ (told1 /\ Told!TimePasses))
  /\ WF_registry((clean /\ Clean!CleanupLooks) \/ (told1 /\ Told!CleanupLooks))
  /\ WF_registry((clean /\ Clean!CleanupRemoves) \/ (told1 /\ Told!CleanupRemoves))

(* The threads of this program run, and the one in the terminal reads its
   input and leaves the echo on, as a shell does.                          *)
StopFairness ==
  LET on == chosen = "stop" IN
  /\ WF_stopping(on /\ Stop!Stop) /\ WF_stopping(on /\ Stop!SendInput)
  /\ WF_stopping(on /\ Stop!WriterTakes) /\ WF_stopping(on /\ Stop!WriterWrites)
  /\ WF_stopping(on /\ Stop!ReaderReads) /\ WF_stopping(on /\ Stop!ProgramReads)

PartsSpec ==
  PartsInit /\ [][PartsNext]_all /\ StreamFairness /\ RegistryFairness /\ StopFairness

-----------------------------------------------------------------------------
(* What a client sees is what the shell wrote: the history is its last bytes
   with its size counted right, a replay ends it and begins between two
   characters (OutputBuffer); through reconnects nothing is lost but what a
   full channel refused, repeated or reordered (handle_open, read_outputs),
   and the two resizes that follow leave the height as it was.             *)
OutputWhole ==
  /\ chosen = "history" => History!HistoryIsSuffix /\ History!SizeRight /\ History!RecentUsable
  /\ chosen = "output" => Output!TypeOK /\ Output!Seamless
  /\ chosen = "height" => Height!TypeOK /\ Height!HeightRestored

(* Terminals end: a client whose shell ended is told so while it and the
   service stay (closed_message_sent), a service nobody keeps is removed with
   its shells, the loop's cleanup removes only a terminal whose own shell or
   reader thread has ended, the reaper, which never kills, waits for no shell
   that runs unless killing or reading failed, and a terminal one row off gets
   its height back.  All that if stop, which holds the registry's lock, ends:
   it does, unless on Linux the program has ended with the terminal's input
   queue and the channel full, for then the writer thread waits for the side of
   the terminal that stop itself still holds.                              *)
TerminalsEnd ==
  /\ [][/\ chosen = "clean" => Clean!OnlyDeadRemoved /\ Clean!ReaperHasDead
        /\ chosen = "told" => Told!OnlyDeadRemoved /\ Told!ReaperHasDead]_all
  /\ []<>(~(chosen = "clean" /\ (Clean!Unaware \/ Clean!LeftBehind)))
  /\ []<>(~(chosen = "told" /\ (Told!Unaware \/ Told!LeftBehind)))
  /\ []<>(pty = rows \/ lost \/ \A c \in 1..3 : conn[c] # "opened")
  /\ []<>(stop \in {"no", "done"} \/ Stop!Wedged)
=============================================================================
