--------------------------- MODULE TerminalBuffer ---------------------------
(***************************************************************************)
(* The history of one terminal (OutputBuffer of terminal_service.rs): the  *)
(* shell's output cut into lines, the oldest lines dropped past two        *)
(* limits, and the replay a reconnecting client is sent.                   *)
(*                                                                         *)
(* A byte is the class the code asks for: "n" the newline, "a" another     *)
(* ASCII byte, "2" and "4" the first byte of a character of two and of     *)
(* four bytes, "c" a continuation byte.  Chunks end between characters:    *)
(* the reader thread holds an unfinished one back.                         *)
(***************************************************************************)
EXTENDS Naturals, Sequences, SequencesExt

CONSTANTS
  MaxSize,    \* MAX_OUTPUT_BUFFER_SIZE
  MaxLines,   \* MAX_BUFFER_LINES
  ReplaySize, \* DEFAULT_RECONNECT_BUFFER_BYTES
  Chunks,     \* the chunks the reader delivers
  MaxInput    \* bound: the bytes the shell writes

BufferAssumption ==
  /\ MaxSize \in Nat /\ MaxLines \in Nat /\ MaxInput \in Nat
  /\ ReplaySize \in Nat \ {0}
  /\ \A chunk \in Chunks : chunk \in Seq({"n", "a", "2", "4", "c"})

VARIABLES
  lines, total_size, last_line_incomplete, \* the OutputBuffer
  input                                    \* all that was appended

vars == <<lines, total_size, last_line_incomplete, input>>

Size(ls) == Len(FlattenSeq(ls))

Init ==
  /\ lines = << >> /\ total_size = 0 /\ last_line_incomplete = FALSE
  /\ input = << >>

----------------------------------------------------------------------------
(* What is left of data once the first newline ends the incomplete line.   *)
Newlines(data) == {i \in DOMAIN data : data[i] = "n"}

First(S) == CHOOSE i \in S : \A j \in S : i <= j

(* The lines of data, each with its newline, and the rest without one. *)
Cuts(data) == SetToSortSeq(Newlines(data) \union {0, Len(data)}, <)

Split(data) ==
  LET cuts == Cuts(data)
  IN  [i \in 1 .. Len(cuts) - 1 |-> SubSeq(data, cuts[i] + 1, cuts[i + 1])]

(* Lines are dropped from the front until both limits hold.  That no line  *)
(* is larger than total_size, which the code guards against, is SizeRight. *)
Fits(ls, size, k) ==
  size - Size(SubSeq(ls, 1, k)) <= MaxSize /\ Len(ls) - k <= MaxLines

Trimmed(ls, size) == First({k \in 0 .. Len(ls) : Fits(ls, size, k)} \union {Len(ls)})

(* Of the rest of the data, start bytes of which went to the last line. *)
Rest(ls, size, data, start) ==
  LET rest == SubSeq(data, start + 1, Len(data))
      new  == Split(rest)
      all  == ls \o new
      sum  == size + Len(rest)
      k    == Trimmed(all, sum)
  IN  /\ lines' = SubSeq(all, k + 1, Len(all))
      /\ total_size' = sum - Size(SubSeq(all, 1, k))
      /\ last_line_incomplete' =
           /\ k < Len(all) \/ k = 0
           /\ rest # << >> /\ Last(rest) # "n"

(* The three cases of append. *)
AppendInput(data) ==
  /\ Len(input) + Len(data) <= MaxInput
  /\ input' = input \o data

Extended(data) == [lines EXCEPT ![Len(lines)] = @ \o data]

WholeLines(data) ==
  /\ ~last_line_incomplete \/ lines = << >>
  /\ Rest(lines, total_size, data, 0)

EndsLine(data) ==
  /\ last_line_incomplete /\ lines # << >> /\ Newlines(data) # {}
  /\ LET p == First(Newlines(data))
     IN  Rest(Extended(SubSeq(data, 1, p)), total_size + p, data, p)

(* This case returns at once: nothing is trimmed. *)
StillNoNewline(data) ==
  /\ last_line_incomplete /\ lines # << >> /\ Newlines(data) = {}
  /\ lines' = Extended(data)
  /\ total_size' = total_size + Len(data)
  /\ UNCHANGED last_line_incomplete

AppendData(data) ==
  /\ AppendInput(data) /\ data # << >>
  /\ WholeLines(data) \/ EndsLine(data) \/ StillNoNewline(data)

----------------------------------------------------------------------------
(* get_recent: whole lines, newest first, while they fit; of a newest line *)
(* that does not fit by itself its tail, moved up to a character's start.  *)
TailAligned(line) ==
  LET offset == Len(line) - ReplaySize
      skip   == First({k \in 0 .. 2 : offset + k = Len(line) \/ line[offset + k + 1] # "c"}
                      \union {3})
  IN  SubSeq(line, offset + skip + 1, Len(line))

Recent ==
  LET fits == {k \in 0 .. Len(lines) : Size(SubSeq(lines, k + 1, Len(lines))) <= ReplaySize}
      k    == First(fits)
  IN  IF k = Len(lines) /\ lines # << >> THEN TailAligned(Last(lines))
      ELSE FlattenSeq(SubSeq(lines, k + 1, Len(lines)))

----------------------------------------------------------------------------
Next == \E data \in Chunks : AppendData(data)

Spec == Init /\ [][Next]_vars

----------------------------------------------------------------------------
(* The history is what the shell wrote last, byte for byte: cutting it     *)
(* into lines, joining a line that came in parts and dropping old lines    *)
(* lose, repeat and reorder nothing (append).                              *)
HistoryIsSuffix == IsSuffix(FlattenSeq(lines), input)

(* total_size is the size of the lines: the trim loop's guards against an  *)
(* underflow and against running out of lines are never needed (append).   *)
SizeRight ==
  /\ total_size = Size(lines)
  /\ last_line_incomplete => lines # << >> /\ Last(Last(lines)) # "n"

(* A replay is the end of the history, within its limit, starts between    *)
(* two characters and is empty only if there is nothing to replay, as long *)
(* as a character fits (get_recent, and has_pending of handle_open).       *)
RecentUsable ==
  /\ IsSuffix(Recent, input) /\ Len(Recent) <= ReplaySize
  /\ Recent # << >> => Head(Recent) # "c"
  /\ lines # << >> /\ ReplaySize >= 4 => Recent # << >>
=============================================================================
