----------------------------- MODULE Downloader -----------------------------
(***************************************************************************)
(* The update download: hbbs_http/downloader.rs, the handler of            *)
(* "download-new-version" in flutter_ffi.rs and the dialog of              *)
(* update_progress.dart that drives them.                                  *)
(*                                                                         *)
(* DOWNLOADERS is keyed by the URL, and one update has one URL, so it is   *)
(* a single entry or NoEntry.  A call of download_file runs on a pool      *)
(* thread in several critical sections, and the thread it spawns finds     *)
(* "its" entry by the URL again at each use: entry.owner is the call that  *)
(* inserted the entry, the holder of the receiving end of its tx_cancel.   *)
(* The file at the path is an inode number (the call that created it) and  *)
(* the set of chunks written into it.                                      *)
(***************************************************************************)
EXTENDS Naturals

CONSTANTS
    MaxStarts,  \* bound: how often the dialog is opened
    Size        \* content length, in chunks

DownloaderAssumption == MaxStarts \in Nat \ {0} /\ Size \in Nat \ {0}

Calls == 1 .. MaxStarts
NoEntry == [owner |-> 0]
NoFile == 0

VARIABLES
    entry,    \* DOWNLOADERS[url]
    call,     \* where each call of download_file is
    thr,      \* where the thread of each call is
    off,      \* chunks the thread has read
    fd,       \* the inode it writes to
    signal,   \* a () was sent on its tx_cancel
    disk,     \* the inode at the path
    data,     \* the chunks in each inode
    phase,    \* the dialog
    hasId,    \* downloadId.value is known
    timer,    \* the 300 ms query timer runs
    sized     \* _totalSize is known

dl == <<entry, call, thr, off, fd, signal, disk, data>>
ui == <<phase, hasId, timer, sized>>
vars == <<dl, ui>>

CallStates == {"idle", "unlink", "first", "stale", "exists", "second",
               "stale2", "spawn", "reply", "bail", "done"}
ThrStates == {"none", "client", "head", "get", "create", "body", "eof",
              "canceled", "over", "ended"}
Phases == {"closed", "starting", "polling", "cancelling", "error", "ready"}
Entries == [owner : Calls, total : BOOLEAN, got : 0 .. MaxStarts * Size,
            err : BOOLEAN, finished : BOOLEAN]

TypeOK ==
    /\ entry \in Entries \cup {NoEntry}
    /\ call \in [Calls -> CallStates]
    /\ thr \in [Calls -> ThrStates]
    /\ off \in [Calls -> 0 .. Size]
    /\ fd \in [Calls -> Calls \cup {NoFile}]
    /\ signal \in [Calls -> BOOLEAN]
    /\ disk \in Calls \cup {NoFile}
    /\ data \in [Calls -> SUBSET (1 .. Size)]
    /\ phase \in Phases
    /\ hasId \in BOOLEAN /\ timer \in BOOLEAN /\ sized \in BOOLEAN

Init ==
    /\ entry = NoEntry
    /\ call = [c \in Calls |-> "idle"]
    /\ thr = [c \in Calls |-> "none"]
    /\ off = [c \in Calls |-> 0]
    /\ fd = [c \in Calls |-> NoFile]
    /\ signal = [c \in Calls |-> FALSE]
    /\ disk = NoFile
    /\ data = [c \in Calls |-> {}]
    /\ phase = "closed" /\ hasId = FALSE /\ timer = FALSE /\ sized = FALSE

-----------------------------------------------------------------------------
(* download_file, and the remove_file of its caller.                       *)

Goto(c, to) == call' = [call EXCEPT ![c] = to]

\* main_set_common: std::fs::remove_file(&download_file).ok()
Unlink(c) ==
    /\ call[c] = "unlink"
    /\ disk' = NoFile
    /\ Goto(c, "first")
    /\ UNCHANGED <<entry, thr, off, fd, signal, data, ui>>

\* First pass: reuse an entry without error, drop one with an error.
FirstPass(c) ==
    /\ call[c] = "first"
    /\ \/ /\ entry = NoEntry
          /\ Goto(c, "exists")
          /\ UNCHANGED entry
       \/ /\ entry # NoEntry /\ ~entry.err
          /\ Goto(c, "reply")
          /\ UNCHANGED entry
       \/ /\ entry # NoEntry /\ entry.err
          /\ entry' = NoEntry
          /\ Goto(c, "stale")
    /\ UNCHANGED <<thr, off, fd, signal, disk, data, ui>>

\* The file of the entry just dropped is removed outside the lock.
RemoveStale(c) ==
    /\ call[c] \in {"stale", "stale2"}
    /\ disk' = NoFile
    /\ Goto(c, IF call[c] = "stale" THEN "exists" ELSE "spawn")
    /\ UNCHANGED <<entry, thr, off, fd, signal, data, ui>>

CheckExists(c) ==
    /\ call[c] = "exists"
    /\ Goto(c, IF disk # NoFile THEN "bail" ELSE "second")
    /\ UNCHANGED <<entry, thr, off, fd, signal, disk, data, ui>>

NewEntry(c) == [owner |-> c, total |-> FALSE, got |-> 0, err |-> FALSE,
                finished |-> FALSE]

SecondPassInserts(c) ==
    /\ call[c] = "second"
    /\ entry' = NewEntry(c)
    /\ Goto(c, IF entry = NoEntry THEN "spawn" ELSE "stale2")
    /\ UNCHANGED <<thr, off, fd, signal, disk, data, ui>>

\* Second pass: atomic with the insert.
SecondPass(c) ==
    \/ /\ call[c] = "second"
       /\ entry # NoEntry /\ ~entry.err
       /\ Goto(c, "reply")
       /\ UNCHANGED <<entry, thr, off, fd, signal, disk, data, ui>>
    \/ /\ entry # NoEntry => entry.err
       /\ SecondPassInserts(c)

Spawn(c) ==
    /\ call[c] = "spawn"
    /\ thr' = [thr EXCEPT ![c] = "client"]
    /\ Goto(c, "reply")
    /\ UNCHANGED <<entry, off, fd, signal, disk, data, ui>>

CallStep(c) ==
    \/ Unlink(c) \/ FirstPass(c) \/ RemoveStale(c) \/ CheckExists(c)
    \/ SecondPass(c) \/ Spawn(c)

-----------------------------------------------------------------------------
(* do_download and the end of its thread.                                  *)

\* recv() is ready: a () was sent, or the entry that held the sender is gone.
Canceled(t) == signal[t] \/ entry.owner # t

\* The Err arm: the error goes into whatever entry has the URL now.
SetError == entry' = IF entry = NoEntry THEN entry
                     ELSE [entry EXCEPT !.err = TRUE]

\* `?`, bail! and return Err: building the client, a failed request, creating
\* the file, a failed chunk or write.
FailAt == {"client", "head", "get", "create", "body"}

Fail(t) ==
    /\ thr[t] \in FailAt
    /\ SetError
    /\ thr' = [thr EXCEPT ![t] = "over"]
    /\ UNCHANGED <<call, off, fd, signal, disk, data, ui>>

ClientBuilt(t) ==
    /\ thr[t] = "client"
    /\ thr' = [thr EXCEPT ![t] = "head"]
    /\ UNCHANGED <<entry, call, off, fd, signal, disk, data, ui>>

HeadAnswered(t) ==
    /\ thr[t] = "head"
    /\ entry' = IF entry = NoEntry THEN entry ELSE [entry EXCEPT !.total = TRUE]
    /\ thr' = [thr EXCEPT ![t] = "get"]
    /\ UNCHANGED <<call, off, fd, signal, disk, data, ui>>

GetAnswered(t) ==
    /\ thr[t] = "get"
    /\ thr' = [thr EXCEPT ![t] = "create"]
    /\ UNCHANGED <<entry, call, off, fd, signal, disk, data, ui>>

\* File::create truncates the file that is there.
CreateFile(t) ==
    LET inode == IF disk = NoFile THEN t ELSE disk IN
    /\ thr[t] = "create"
    /\ disk' = inode
    /\ fd' = [fd EXCEPT ![t] = inode]
    /\ data' = [data EXCEPT ![inode] = {}]
    /\ thr' = [thr EXCEPT ![t] = "body"]
    /\ UNCHANGED <<entry, call, off, signal, ui>>

Chunk(t) ==
    /\ thr[t] = "body"
    /\ off[t] < Size
    /\ off' = [off EXCEPT ![t] = @ + 1]
    /\ data' = [data EXCEPT ![fd[t]] = @ \cup {off[t] + 1}]
    /\ entry' = IF entry = NoEntry THEN entry ELSE [entry EXCEPT !.got = @ + 1]
    /\ UNCHANGED <<call, thr, fd, signal, disk, ui>>

\* Ok(None), wherever it comes: the GET's status is not looked at and nothing
\* is compared with total_size, so the body may be shorter than the HEAD said.
LastChunkRead(t) ==
    /\ thr[t] = "body"
    /\ thr' = [thr EXCEPT ![t] = "eof"]
    /\ UNCHANGED <<entry, call, off, fd, signal, disk, data, ui>>

\* A select! took the rx_cancel arm; it picks at random when both are ready.
TakeCancel(t) ==
    /\ thr[t] \in {"head", "get", "body"}
    /\ Canceled(t)
    /\ entry' = IF thr[t] = "body" /\ entry # NoEntry
                THEN [entry EXCEPT !.finished = TRUE] ELSE entry
    /\ thr' = [thr EXCEPT ![t] = "canceled"]
    /\ UNCHANGED <<call, off, fd, signal, disk, data, ui>>

\* finished is set; the task that would delete the entry after auto_del_dur
\* is spawned on the thread's own runtime and dies with it unpolled.
Finish(t) ==
    /\ thr[t] = "eof"
    /\ entry' = IF entry = NoEntry THEN entry ELSE [entry EXCEPT !.finished = TRUE]
    /\ thr' = [thr EXCEPT ![t] = "ended"]
    /\ UNCHANGED <<call, off, fd, signal, disk, data, ui>>

EndCanceledKeeps(t) ==
    /\ thr[t] = "canceled"
    /\ thr' = [thr EXCEPT ![t] = "over"]
    /\ UNCHANGED <<entry, call, off, fd, signal, disk, data, ui>>

\* is_canceled: the entry and its file go, under the lock.
EndCanceled(t) ==
    /\ thr[t] = "canceled"
    /\ entry' = NoEntry
    /\ disk' = IF entry = NoEntry THEN disk ELSE NoFile
    /\ thr' = [thr EXCEPT ![t] = "over"]
    /\ UNCHANGED <<call, off, fd, signal, data, ui>>

ThreadRuns(t) ==
    \/ ClientBuilt(t) \/ HeadAnswered(t) \/ GetAnswered(t) \/ CreateFile(t)
    \/ Chunk(t) \/ LastChunkRead(t) \/ TakeCancel(t) \/ Finish(t) \/ EndCanceled(t)

-----------------------------------------------------------------------------
(* update_progress.dart: the dialog.                                       *)

\* handleUpdate, from the update card or from Retry in the error box.
Open ==
    /\ phase \in {"closed", "error"}
    /\ \E c \in Calls :
         /\ call[c] = "idle" /\ \A d \in Calls : d < c => call[d] # "idle"
         /\ Goto(c, "unlink")
    /\ phase' = "starting"
    /\ hasId' = FALSE /\ timer' = FALSE /\ sized' = FALSE
    /\ UNCHANGED <<entry, thr, off, fd, signal, disk, data>>

\* handleDownloadNewVersion: the event reaches whichever dialog is open.
Reply(c) ==
    /\ call[c] \in {"reply", "bail"}
    /\ Goto(c, "done")
    /\ \/ /\ phase \notin {"starting", "polling", "cancelling"}
          /\ UNCHANGED ui
       \/ /\ phase \in {"starting", "polling", "cancelling"}
          /\ call[c] = "reply"
          /\ phase' = IF phase = "starting" THEN "polling" ELSE phase
          /\ hasId' = TRUE /\ timer' = TRUE
          /\ UNCHANGED sized
       \/ /\ phase \in {"starting", "polling", "cancelling"}
          /\ call[c] = "bail"
          /\ phase' = "error" /\ timer' = FALSE
          /\ UNCHANGED <<hasId, sized>>
    /\ UNCHANGED <<entry, thr, off, fd, signal, disk, data>>

PollError ==
    /\ entry # NoEntry => entry.err
    /\ phase' = "error" /\ timer' = FALSE
    /\ UNCHANGED <<entry, hasId, sized>>

Done == entry # NoEntry /\ ~entry.err /\ (sized \/ entry.total) /\ entry.got >= Size

\* The size is reached: remove-downloader, and the update is offered.
PollDone ==
    /\ Done
    /\ entry' = NoEntry
    /\ phase' = "ready" /\ timer' = FALSE
    /\ sized' = TRUE
    /\ UNCHANGED hasId

PollProgress ==
    /\ entry # NoEntry /\ ~entry.err /\ ~Done
    /\ sized' = (sized \/ entry.total)
    /\ UNCHANGED <<entry, phase, hasId, timer>>

\* _updateDownloadData
Poll ==
    /\ timer
    /\ PollError \/ PollDone \/ PollProgress
    /\ UNCHANGED <<call, thr, off, fd, signal, disk, data>>

\* The Cancel button: with the id still unknown it reaches no downloader.
Cancel ==
    /\ phase \in {"starting", "polling"}
    /\ phase' = "cancelling" /\ timer' = FALSE
    /\ signal' = IF hasId /\ entry # NoEntry
                 THEN [signal EXCEPT ![entry.owner] = TRUE] ELSE signal
    /\ UNCHANGED <<entry, call, thr, off, fd, disk, data, hasId, sized>>

\* The wait for "Downloader not found" ends, after 10 tries at the latest.
CancelDone ==
    /\ phase = "cancelling"
    /\ phase' = "closed" /\ timer' = FALSE
    /\ UNCHANGED <<dl, hasId, sized>>

\* Close in the error box; "update-me" or the box closed.
Close ==
    /\ phase \in {"error", "ready"}
    /\ phase' = "closed"
    /\ UNCHANGED <<dl, hasId, timer, sized>>

Next ==
    \/ \E c \in Calls : CallStep(c) \/ Reply(c) \/ ThreadRuns(c) \/ Fail(c)
    \/ Open \/ Poll \/ Cancel \/ CancelDone \/ Close

Spec == Init /\ [][Next]_vars

-----------------------------------------------------------------------------
\* No entry is orphaned: one that shows neither an error nor the end of its
\* download belongs to a thread that still runs or is about to be spawned, so
\* a dialog that reuses it is not waiting for nobody.
NoOrphan ==
    entry # NoEntry /\ ~entry.err /\ ~entry.finished =>
        \/ thr[entry.owner] \notin {"none", "over", "ended"}
        \/ call[entry.owner] \in {"spawn", "stale2"}

\* The entry shows the end of its download, no error, and less than the size:
\* the body of a thread was shorter than the length its HEAD gave.
Short ==
    /\ entry # NoEntry /\ entry.finished /\ ~entry.err /\ entry.got < Size
    /\ \E t \in Calls : thr[t] = "ended" /\ off[t] < Size
=============================================================================
