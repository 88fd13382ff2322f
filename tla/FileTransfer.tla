---------------------------- MODULE FileTransfer ----------------------------
(***************************************************************************)
(* One file transfer job at a time: TransferJob of libs/base/src/fs.rs as  *)
(* the reader and as the writer, the handlers of the client               *)
(* (src/client/io_loop.rs) and of the connection manager                   *)
(* (src/ui_cm_interface.rs) around them, and the two files a writer keeps  *)
(* beside each file it receives, .download and .digest.                    *)
(*                                                                         *)
(* A file is a sequence of blocks, each marked with the version of the     *)
(* source it was read from.  The reader announces a file by its digest and *)
(* waits for the confirmation; a block without data ends the file; the     *)
(* writer gives a file its name when the next one begins.  The connection  *)
(* may be lost at any point, and the client resumes the job from the       *)
(* number it has saved, or begins a new one.  Job ids are never used       *)
(* twice: what is left of an old job reaches no new one.                   *)
(*                                                                         *)
(* The source may change at any time, with or without a change of its      *)
(* digest (modification time in seconds, and size), and each operation of  *)
(* the writer on its disk may fail.  What such a step does is modelled; it *)
(* also leaves its mark in spoilt, and nothing is claimed of a spoilt job. *)
(* That a file cannot be opened or read is FileQueue's.                    *)
(***************************************************************************)
EXTENDS Integers, Sequences

CONSTANTS N, Size,     \* the files, and their sizes in blocks
          MaxDrops, MaxEdits   \* bounds

FilesAssumption ==
    /\ N \in Nat \ {0} /\ Size \in [0..(N - 1) -> Nat \ {0}]
    /\ MaxDrops \in Nat /\ MaxEdits \in Nat

Files == 0..(N - 1)
None == -1
Skip == -1

VARIABLES
    upload,     \* whether the client reads and the controlled side writes
    ver,        \* version of the source
    stamp,      \* its digest: the version when it last changed
    rd,         \* the reader's job
    wr,         \* the writer's job
    strategy,   \* default_overwrite_strategy of the client's job
    ask,        \* the file of the prompt that is shown
    toW, toR,   \* messages
    final,      \* what stands under the name of each file: {} or {content}
    part, dig,  \* .download; stamp in .digest, 0 without the file
    meta,       \* the file number of the job that the client has saved
    ended,      \* how the last job ended
    kept,       \* history: the files the user chose to skip, as they then were
    misplaced,  \* history: a block of the job was written at another place than its own
    spoilt,     \* history: why nothing can be said of the job
    drops

jobs == <<rd, wr, strategy, ask>>
disk == <<final, part, dig>>
rest == <<stamp, kept, misplaced, spoilt, drops>>
vars == <<upload, ver, jobs, toW, toR, disk, meta, ended, rest>>

Spoils == {"leftover",      \* it was begun where a .download or .digest of another lay
           "edited",        \* the source changed while it ran
           "same digest",   \* the source changed and its digest did not
           "disk",          \* an operation on the writer's disk, or a seek, failed
           "cancelled"}     \* it is an upload, and was cancelled
Spoil(why) == spoilt' = spoilt \cup {why}

NoReader == [on |-> FALSE, num |-> 0, pos |-> None, confirmed |-> FALSE, waiting |-> FALSE, resume |-> FALSE]
\* A stream is open while pos is not None; at is the file it belongs to.
NoWriter == [on |-> FALSE, num |-> 0, pos |-> None, at |-> 0, dig |-> 0, resume |-> FALSE]

Old == << <<0, 1>> >>
Whole(v, f) == [i \in 1..Size[f] |-> <<v, i>>]

TypeOK ==
    /\ upload \in BOOLEAN /\ spoilt \subseteq Spoils
    /\ ver \in 1..(MaxEdits + 1) /\ stamp \in 1..ver
    /\ rd.num \in 0..N /\ rd.pos \in {None} \cup Nat
    /\ rd.confirmed => rd.pos # None
    /\ rd.waiting \/ rd.confirmed => rd.on
    /\ wr.num \in 0..N /\ wr.pos \in {None} \cup Nat
    /\ wr.pos # None => wr.num \in Files /\ wr.at \in 0..wr.num
    /\ strategy \in {"ask", "yes", "no"}
    /\ ask \in Files \cup {None}
    /\ \A f \in Files : dig[f] \in 0..ver
    /\ meta \in 0..N \cup {None}
    /\ ended \in {"no", "done"}

Init ==
    /\ upload \in BOOLEAN
    /\ ver = 1 /\ stamp = 1
    /\ rd = NoReader /\ wr = NoWriter
    /\ strategy = "ask" /\ ask = None
    /\ toW = <<>> /\ toR = <<>>
    /\ final \in [Files -> {{}, {Old}}]
    /\ part = [f \in Files |-> {}] /\ dig = [f \in Files |-> 0]
    /\ meta = None /\ ended = "no"
    /\ kept = [f \in Files |-> {}] /\ misplaced = FALSE
    /\ spoilt = {} /\ drops = 0

Idle == ~rd.on /\ ~wr.on /\ toW = <<>> /\ toR = <<>>

-----------------------------------------------------------------------------
(* The client: SendFiles, AddJob with ResumeJob, a lost connection, Cancel.*)

Begin(num, resume) ==
    /\ Idle
    /\ rd' = [NoReader EXCEPT !.on = TRUE, !.num = num, !.resume = resume /\ upload]
    /\ wr' = [NoWriter EXCEPT !.on = TRUE, !.num = num, !.resume = resume /\ ~upload]
    /\ strategy' = "ask" /\ ask' = None
    /\ meta' = None
    /\ ended' = "no"
    /\ UNCHANGED <<ver, toW, toR, disk, drops>>

Leftover == \E f \in Files : part[f] # {} \/ dig[f] # 0

\* Without a .digest anywhere no stamp is in use, and they count anew.
Start ==
    /\ Begin(0, FALSE)
    /\ spoilt' = IF Leftover THEN {"leftover"} ELSE {}
    /\ stamp' = IF Leftover THEN stamp ELSE ver
    /\ kept' = [f \in Files |-> {}] /\ misplaced' = FALSE

Resume ==
    /\ meta # None
    /\ Begin(meta, TRUE)
    /\ UNCHANGED <<stamp, spoilt, kept, misplaced>>

\* sync_jobs_status_to_local saves the number of the client's own job.
Saved == IF upload THEN IF rd.on THEN rd.num ELSE None
                   ELSE IF wr.on THEN wr.num ELSE None

Drop ==
    /\ drops < MaxDrops
    /\ ~Idle
    /\ drops' = drops + 1
    /\ meta' = Saved
    /\ rd' = NoReader /\ wr' = NoWriter
    /\ ask' = None
    /\ toW' = <<>> /\ toR' = <<>>
    /\ UNCHANGED <<ver, strategy, disk, ended, stamp, kept, misplaced, spoilt>>

\* The source changes, at any time.  A change within the second of the one before
\* that keeps the size does not show in the digest.
Edit ==
    /\ ver <= MaxEdits
    /\ ver' = ver + 1
    /\ \/ stamp' = ver + 1 /\ IF Idle THEN UNCHANGED spoilt ELSE Spoil("edited")
       \/ stamp' = stamp /\ Spoil("same digest")
    /\ UNCHANGED <<jobs, toW, toR, disk, meta, ended, kept, misplaced, drops>>

\* cancel_transfer_job of a download: the writer is the client's.
Cancel ==
    /\ ~upload /\ wr.on
    /\ part' = [f \in Files |-> IF f = wr.num THEN {} ELSE part[f]]
    /\ dig' = [f \in Files |-> IF f = wr.num THEN 0 ELSE dig[f]]
    /\ rd' = NoReader /\ wr' = NoWriter
    /\ ask' = None
    /\ toW' = <<>> /\ toR' = <<>>
    /\ UNCHANGED <<ver, strategy, final, meta, ended, rest>>

\* Of an upload: the reader goes, and the writer once the message is there.
CancelUpload ==
    /\ upload /\ rd.on
    /\ rd' = NoReader /\ ask' = None
    /\ toW' = Append(toW, [t |-> "cancel", f |-> rd.num])
    /\ Spoil("cancelled")
    /\ UNCHANGED <<ver, wr, strategy, toR, disk, meta, ended, stamp, kept, misplaced, drops>>

\* CancelWrite, with remove_download_file.
OnCancelWrite ==
    /\ toW # <<>> /\ Head(toW).t = "cancel"
    /\ part' = [f \in Files |-> IF f = wr.num THEN {} ELSE part[f]]
    /\ dig' = [f \in Files |-> IF f = wr.num THEN 0 ELSE dig[f]]
    /\ wr' = NoWriter
    /\ toW' = Tail(toW)
    /\ UNCHANGED <<ver, rd, strategy, ask, toR, final, meta, ended, rest>>

-----------------------------------------------------------------------------
(* The reader: handle_read_jobs.                                           *)

Send(m) == toW' = Append(toW, m)

\* init_data_stream: open the file, send its digest, wait.
Announce ==
    /\ rd.on /\ rd.pos = None /\ rd.num \in Files
    /\ rd' = [rd EXCEPT !.pos = 0, !.confirmed = FALSE, !.waiting = TRUE]
    /\ Send([t |-> "digest", f |-> rd.num, v |-> stamp, resume |-> rd.resume])
    /\ UNCHANGED <<ver, wr, strategy, ask, toR, disk, meta, ended, rest>>

NextFile == [rd EXCEPT !.num = @ + 1, !.pos = None, !.confirmed = FALSE, !.waiting = FALSE]

ReadBlock ==
    /\ rd.on /\ rd.confirmed
    /\ IF rd.pos < Size[rd.num]
         THEN /\ rd' = [rd EXCEPT !.pos = @ + 1]
              /\ Send([t |-> "block", f |-> rd.num, d |-> <<rd.pos + 1>>, v |-> ver])
         ELSE /\ rd' = NextFile
              /\ Send([t |-> "block", f |-> rd.num, d |-> <<>>, v |-> ver])
    /\ UNCHANGED <<ver, wr, strategy, ask, toR, disk, meta, ended, rest>>

\* job_completed: nothing is waiting and no file is left.
Finish ==
    /\ rd.on /\ rd.pos = None /\ rd.num = N
    /\ rd' = NoReader
    /\ Send([t |-> "done", f |-> rd.num])
    /\ UNCHANGED <<ver, wr, strategy, ask, toR, disk, meta, ended, rest>>

\* TransferJob::confirm and set_stream_offset of a reader.
ConfirmedReader(f, off) ==
    IF rd.num # f \/ ~rd.on THEN rd
    ELSE IF off = Skip THEN NextFile
    ELSE [rd EXCEPT !.confirmed = TRUE, !.pos = IF off > 0 THEN off ELSE @]

-----------------------------------------------------------------------------
(* The writer.                                                             *)

\* TransferJob::confirm and set_stream_offset of a writer.
ConfirmedWriter(f, off) ==
    IF wr.num # f THEN wr
    ELSE IF off = Skip THEN [wr EXCEPT !.num = @ + 1, !.pos = None]
    ELSE IF off > 0 /\ part[f] # {} /\ dig[f] # 0 THEN [wr EXCEPT !.pos = off, !.at = f]
    ELSE wr

IsResumableAnyVersion(f, v, resume) ==
    resume /\ dig[f] # 0 /\ part[f] # {} /\ \A s \in part[f] : Len(s) > 0

\* is_write_need_confirmation: how much is there of the same version, whether
\* the user is to be asked, or neither.
IsResumable(f, v, resume) ==
    resume /\ dig[f] = v /\ part[f] # {} /\ \A s \in part[f] : Len(s) > 0

Transferred(f) == Len(CHOOSE s \in part[f] : TRUE)

Exists(f) == final[f] # {}

\* What the client makes of a file that exists: nothing yet, or an offset.
Decision(f, sofar) ==
    IF sofar > 0 THEN {sofar}
    ELSE CASE strategy = "yes" -> {0} [] strategy = "no" -> {Skip} [] OTHER -> {}

Kept(f, off) == kept' = [kept EXCEPT ![f] = IF off = Skip THEN {<<final[f]>>} ELSE {}]

\* A download: the client is the writer, and decides.
OnDigest ==
    /\ ~upload /\ toW # <<>> /\ Head(toW).t = "digest"
    /\ LET f == Head(toW).f
           v == Head(toW).v
           sofar == IF IsResumable(f, v, wr.resume) THEN Transferred(f) ELSE 0
           d == IF sofar > 0 \/ Exists(f) THEN Decision(f, sofar) ELSE {0}
           w == [wr EXCEPT !.dig = v]
       IN /\ wr.on
          /\ IF d = {} THEN /\ ask' = f /\ wr' = w /\ UNCHANGED <<toR, kept>>
             ELSE \E off \in d : /\ wr' = [ConfirmedWriter(f, off) EXCEPT !.dig = v]
                                 /\ toR' = Append(toR, [t |-> "confirm", f |-> f, off |-> off])
                                 /\ Kept(f, off)
                                 /\ UNCHANGED ask
    /\ toW' = Tail(toW)
    /\ UNCHANGED <<ver, rd, strategy, disk, meta, ended, stamp, misplaced, spoilt, drops>>

\* An upload: the connection manager is the writer, and asks the client when
\* the file is there in part or in whole.
OnCheckDigest ==
    /\ upload /\ toW # <<>> /\ Head(toW).t = "digest"
    /\ LET f == Head(toW).f
           v == Head(toW).v
           sofar == IF IsResumable(f, v, Head(toW).resume) THEN Transferred(f) ELSE 0
       IN /\ wr.on
          /\ wr' = [wr EXCEPT !.dig = v]
          /\ toR' = Append(toR, IF sofar > 0 \/ Exists(f)
                                  THEN [t |-> "ask", f |-> f, off |-> sofar]
                                  ELSE [t |-> "confirm", f |-> f, off |-> 0])
    /\ toW' = Tail(toW)
    /\ UNCHANGED <<ver, rd, strategy, ask, disk, meta, ended, rest>>

OnAsk ==
    /\ toR # <<>> /\ Head(toR).t = "ask" /\ rd.on
    /\ LET f == Head(toR).f
           d == Decision(f, Head(toR).off)
       IN IF d = {} THEN ask' = f /\ UNCHANGED <<rd, toW, kept>>
          ELSE \E off \in d : /\ rd' = ConfirmedReader(f, off)
                              /\ Send([t |-> "confirm", f |-> f, off |-> off])
                              /\ Kept(f, off)
                              /\ UNCHANGED ask
    /\ toR' = Tail(toR)
    /\ UNCHANGED <<ver, wr, strategy, disk, meta, ended, stamp, misplaced, spoilt, drops>>

\* SetConfirmOverrideFile.  The user may make the answer the rule for the job.
Answer ==
    /\ ask # None
    /\ \E off \in {0, Skip}, remember \in BOOLEAN :
          /\ strategy' = IF ~remember THEN strategy ELSE IF off = Skip THEN "no" ELSE "yes"
          /\ Kept(ask, off)
          /\ IF upload
               THEN rd' = ConfirmedReader(ask, off) /\ UNCHANGED <<wr, toR>>
               ELSE /\ wr' = ConfirmedWriter(ask, off)
                    /\ toR' = Append(toR, [t |-> "confirm", f |-> ask, off |-> off])
                    /\ UNCHANGED rd
    /\ ask' = None
    /\ UNCHANGED <<ver, toW, disk, meta, ended, stamp, misplaced, spoilt, drops>>

OnConfirmReader ==
    /\ toR # <<>> /\ Head(toR).t = "confirm"
    /\ rd' = ConfirmedReader(Head(toR).f, Head(toR).off)
    /\ toR' = Tail(toR)
    /\ UNCHANGED <<ver, wr, strategy, ask, toW, disk, meta, ended, rest>>

OnConfirmWriter ==
    /\ toW # <<>> /\ Head(toW).t = "confirm"
    /\ wr' = ConfirmedWriter(Head(toW).f, Head(toW).off)
    /\ toW' = Tail(toW)
    /\ UNCHANGED <<ver, rd, strategy, ask, toR, disk, meta, ended, rest>>

\* modify_time: the current file gets its name, its digest goes.
Renamed(g) == IF g \in Files /\ part[g] # {} THEN [final EXCEPT ![g] = part[g]] ELSE final
Unparted(g) == [f \in Files |-> IF f = g THEN {} ELSE part[f]]
Undigested(g) == [f \in Files |-> IF f = g THEN 0 ELSE dig[f]]

PutAt(s, pos, b) == SubSeq(s, 1, pos) \o <<b>> \o SubSeq(s, pos + 2, Len(s))

\* TransferJob::write, when all of it succeeds.
OnBlock ==
    /\ toW # <<>> /\ Head(toW).t = "block"
    /\ LET m == Head(toW)
           fresh == m.f # wr.num \/ wr.pos = None
           pos == IF fresh THEN 0 ELSE wr.pos
           s == IF fresh THEN <<>> ELSE CHOOSE x \in part[m.f] : TRUE
           grown == IF m.d = <<>> THEN s ELSE PutAt(s, pos, <<m.v, m.d[1]>>)
       IN /\ wr.on /\ (fresh \/ wr.at = wr.num)
          /\ final' = IF fresh THEN Renamed(wr.num) ELSE final
          /\ part' = [(IF fresh THEN Unparted(wr.num) ELSE part) EXCEPT ![m.f] = {grown}]
          /\ dig' = IF fresh THEN [Undigested(wr.num) EXCEPT ![m.f] = wr.dig] ELSE dig
          /\ wr' = [wr EXCEPT !.num = m.f, !.pos = pos + Len(m.d), !.at = m.f]
          /\ misplaced' = (misplaced \/ (m.d # <<>> /\ m.d[1] # pos + 1))
    /\ toW' = Tail(toW)
    /\ UNCHANGED <<ver, rd, strategy, ask, toR, meta, ended, stamp, kept, spoilt, drops>>

OnDone ==
    /\ toW # <<>> /\ Head(toW).t = "done"
    /\ wr.on
    /\ final' = Renamed(wr.num) /\ part' = Unparted(wr.num) /\ dig' = Undigested(wr.num)
    /\ wr' = NoWriter
    /\ ended' = "done"
    /\ toW' = Tail(toW)
    /\ UNCHANGED <<ver, rd, strategy, ask, toR, meta, rest>>

-----------------------------------------------------------------------------
(* What fails.                                                             *)

\* bound: one failing operation in a job
MayFail == "disk" \notin spoilt

\* write returns an error: what it has done by then stays done.  The client goes
\* on as if nothing were wrong; the connection manager tells the reader.
Refused(f) == IF upload THEN Append(toR, [t |-> "error", f |-> f, off |-> 0]) ELSE toR

\* modify_time with a rename that fails: the .download stays, its .digest goes.
RenameFails ==
    /\ MayFail /\ toW # <<>> /\ wr.on /\ wr.num \in Files /\ part[wr.num] # {}
    /\ LET m == Head(toW)
       IN \/ /\ m.t = "block" /\ (m.f # wr.num \/ wr.pos = None)
             /\ part' = [part EXCEPT ![m.f] = {IF m.d = <<>> THEN <<>> ELSE << <<m.v, m.d[1]>> >>}]
             /\ dig' = [Undigested(wr.num) EXCEPT ![m.f] = wr.dig]
             /\ wr' = [wr EXCEPT !.num = m.f, !.pos = Len(m.d), !.at = m.f]
             /\ UNCHANGED ended
          \/ /\ m.t = "done"
             /\ dig' = Undigested(wr.num)
             /\ wr' = NoWriter /\ ended' = "done"
             /\ UNCHANGED part
    /\ toW' = Tail(toW)
    /\ Spoil("disk")
    /\ UNCHANGED <<ver, rd, strategy, ask, toR, final, meta, stamp, kept, misplaced, drops>>

\* The new file is not there: the last one cannot be synced, or the new one not
\* be made, and then the stream is still the last one's under the new number.
OpenFails ==
    /\ MayFail /\ toW # <<>> /\ Head(toW).t = "block" /\ wr.on
    /\ LET m == Head(toW)
       IN /\ m.f # wr.num \/ wr.pos = None
          /\ final' = Renamed(wr.num) /\ part' = Unparted(wr.num)
          /\ \/ wr.pos # None /\ dig' = Undigested(wr.num) /\ wr' = wr
             \/ dig' = [Undigested(wr.num) EXCEPT ![m.f] = 0] /\ wr' = [wr EXCEPT !.num = m.f]
          /\ toR' = Refused(m.f)
    /\ toW' = Tail(toW)
    /\ Spoil("disk")
    /\ UNCHANGED <<ver, rd, strategy, ask, meta, ended, stamp, kept, misplaced, drops>>

\* The data is not written.
WriteFails ==
    /\ MayFail /\ toW # <<>> /\ Head(toW).t = "block" /\ wr.on
    /\ LET m == Head(toW)
           fresh == m.f # wr.num \/ wr.pos = None
       IN /\ m.d # <<>>
          /\ IF fresh
               THEN /\ final' = Renamed(wr.num)
                    /\ part' = [Unparted(wr.num) EXCEPT ![m.f] = {<<>>}]
                    /\ dig' = [Undigested(wr.num) EXCEPT ![m.f] = wr.dig]
                    /\ wr' = [wr EXCEPT !.num = m.f, !.pos = 0, !.at = m.f]
               ELSE UNCHANGED <<disk, wr>>
          /\ toR' = Refused(m.f)
    /\ toW' = Tail(toW)
    /\ Spoil("disk")
    /\ UNCHANGED <<ver, rd, strategy, ask, meta, ended, stamp, kept, misplaced, drops>>

\* A block goes into the file whose stream is still open, under whichever name.
OnBlockAstray ==
    /\ toW # <<>> /\ Head(toW).t = "block" /\ wr.on
    /\ LET m == Head(toW)
           Put(c) == IF m.d = <<>> THEN c ELSE {PutAt(x, wr.pos, <<m.v, m.d[1]>>) : x \in c}
           g == wr.at
       IN /\ m.f = wr.num /\ wr.pos # None /\ g # m.f
          /\ IF part[g] # {} THEN part' = [part EXCEPT ![g] = Put(@)] /\ UNCHANGED final
                             ELSE final' = [final EXCEPT ![g] = Put(@)] /\ UNCHANGED part
          /\ wr' = [wr EXCEPT !.pos = @ + Len(m.d)]
    /\ toW' = Tail(toW)
    /\ misplaced' = TRUE /\ Spoil("disk")
    /\ UNCHANGED <<ver, rd, strategy, ask, toR, dig, meta, ended, stamp, kept, drops>>

\* set_stream_offset cannot open the file or seek: it is confirmed all the same,
\* and its stream, if it has one, stands where it stood.
SeekFails ==
    /\ MayFail
    /\ \/ /\ ~upload /\ toW # <<>> /\ Head(toW).t = "digest" /\ wr.on
          /\ LET f == Head(toW).f
             IN /\ IsResumable(f, Head(toW).v, wr.resume)
                /\ wr' = [wr EXCEPT !.dig = Head(toW).v]
                /\ toR' = Append(toR, [t |-> "confirm", f |-> f, off |-> Transferred(f)])
          /\ toW' = Tail(toW)
          /\ UNCHANGED rd
       \/ /\ toW # <<>> /\ Head(toW).t = "confirm" /\ Head(toW).off > 0
          /\ toW' = Tail(toW)
          /\ UNCHANGED <<rd, wr, toR>>
       \/ /\ toR # <<>> /\ Head(toR).t \in {"ask", "confirm"}
          /\ LET m == Head(toR)
             IN /\ m.off > 0 /\ rd.on /\ rd.num = m.f
                /\ toW' = IF m.t = "ask" THEN Append(toW, [m EXCEPT !.t = "confirm"]) ELSE toW
          /\ rd' = [rd EXCEPT !.confirmed = TRUE]
          /\ toR' = Tail(toR)
          /\ UNCHANGED wr
    /\ Spoil("disk")
    /\ UNCHANGED <<ver, strategy, ask, disk, meta, ended, stamp, kept, misplaced, drops>>

\* is_write_need_confirmation returns an error: the client says nothing and the
\* reader waits; the connection manager tells it.
DigestFails ==
    /\ MayFail /\ toW # <<>> /\ Head(toW).t = "digest" /\ wr.on
    /\ wr' = IF upload THEN wr ELSE [wr EXCEPT !.dig = Head(toW).v]
    /\ toR' = Refused(Head(toW).f)
    /\ toW' = Tail(toW)
    /\ Spoil("disk")
    /\ UNCHANGED <<ver, rd, strategy, ask, disk, meta, ended, stamp, kept, misplaced, drops>>

\* FileTransferError takes the client's job away, and what comes for a job that
\* is gone finds none.
OnError ==
    /\ toR # <<>> /\ (Head(toR).t = "error" \/ ~rd.on)
    /\ rd' = NoReader
    /\ toR' = Tail(toR)
    /\ UNCHANGED <<ver, wr, strategy, ask, toW, disk, meta, ended, rest>>

Fault ==
    \/ RenameFails \/ OpenFails \/ WriteFails \/ OnBlockAstray
    \/ SeekFails \/ DigestFails \/ OnError

-----------------------------------------------------------------------------
Next ==
    /\ UNCHANGED upload
    /\ \/ Start \/ Resume \/ Drop \/ Edit \/ Cancel
       \/ Announce \/ ReadBlock \/ Finish
       \/ OnDigest \/ OnCheckDigest \/ OnAsk \/ Answer
       \/ OnConfirmReader \/ OnConfirmWriter \/ OnBlock \/ OnDone
       \/ CancelUpload \/ OnCancelWrite \/ Fault

Spec == Init /\ [][Next]_vars

-----------------------------------------------------------------------------
(* Properties.  They are about a job that nothing has spoilt: it was begun where
   no .download or .digest of another lay (a resumed job takes such a leftover
   for its own), the source did not change while it ran nor, between its parts,
   without a change of its digest, and no operation on the writer's disk failed.
   The source may change between the parts otherwise.                      *)
Unspoilt == spoilt = {}

\* A download that is reported done has left every file it did not skip whole and
\* under its name, all its blocks of one version, however often it was resumed.
DoneIsWhole ==
    ~upload /\ Unspoilt /\ ended = "done" =>
        \A f \in Files : kept[f] = {} =>
            \E v \in 1..ver : final[f] = {Whole(v, f)}

\* A file the user chose to skip stays as it was, in a download.
SkippedIsKept ==
    ~upload /\ Unspoilt =>
        \A f \in Files : kept[f] # {} => kept[f] = {<<final[f]>>}

\* Where a resumed reader starts to read is where the writer goes on to write.
NothingMisplaced == Unspoilt => ~misplaced

=============================================================================
