------------------------------- MODULE MCFiles -------------------------------
(***************************************************************************)
(* What moves files: one transfer with resumes and edits of the source     *)
(* (FileTransfer, a download and an upload of three files), the queue of   *)
(* read jobs that two downloads share (FileQueue, read by the connection   *)
(* and by the connection manager), and the update download behind its      *)
(* dialog, opened twice (Downloader).                                      *)
(*                                                                         *)
(* A behaviour is of one scene, chosen at first; the other parts rest.     *)
(***************************************************************************)
EXTENDS Naturals, Sequences, TLC

CONSTANTS N, Size, MaxDrops, MaxEdits       \* of FileTransfer

VARIABLES
  scene,
  ver, stamp, rd, wr, strategy, ask, toW, toR, final, part, dig, meta, ended, kept,
  misplaced, spoilt, drops,
  client, order, job, ids, toC, toS, toM, fromM, mute,
  entry, call, thr, off, fd, signal, disk, data, phase, hasId, timer, sized

transfer ==
  <<ver, stamp, rd, wr, strategy, ask, toW, toR, final, part, dig, meta, ended, kept,
    misplaced, spoilt, drops>>
reads == <<client, order, job, ids, toC, toS, toM, fromM, mute>>
update == <<entry, call, thr, off, fd, signal, disk, data, phase, hasId, timer, sized>>
everything == <<scene, transfer, reads, update>>

Sizes == (0 :> 2) @@ (1 :> 1) @@ (2 :> 2)

upload == scene = "up"

Transfer == INSTANCE FileTransfer

ASSUME TransferFits == Transfer!FilesAssumption

(* The connection manager reads, or the connection; both may fail to. *)
ByCm == INSTANCE FileQueue WITH
  Jobs <- {"j1", "j2"}, Files <- 2, Cm <- TRUE, MayFail <- TRUE

ByConn == INSTANCE FileQueue WITH
  Jobs <- {"j1", "j2"}, Files <- 2, Cm <- FALSE, MayFail <- TRUE

Update == INSTANCE Downloader WITH MaxStarts <- 2, Size <- 2

ASSUME /\ ByCm!QueueAssumption /\ ByConn!QueueAssumption /\ Update!DownloaderAssumption

ScenesInit ==
  /\ scene \in {"down", "up", "by cm", "by conn", "update"}
  /\ Transfer!Init /\ ByCm!Init /\ Update!Init
  /\ scene \notin {"down", "up"} => \A f \in Transfer!Files : final[f] = {}

(* bounds: no job is begun over what another has left, and a spoilt one is the
   last, and runs on without another loss or edit.                         *)
SpoiltIsLast ==
  /\ "leftover" \notin spoilt'
  /\ spoilt # {} => UNCHANGED <<ver, drops>> /\ spoilt' # {}

ScenesNext ==
  \/ /\ scene \in {"down", "up"} /\ UNCHANGED <<scene, reads, update>>
     /\ Transfer!Next /\ SpoiltIsLast /\ (upload => drops' < MaxDrops)
  \/ scene = "by cm" /\ ByCm!Next /\ UNCHANGED <<scene, transfer, update>>
  \/ scene = "by conn" /\ ByConn!Next /\ UNCHANGED <<scene, transfer, update>>
  \/ scene = "update" /\ Update!Next /\ UNCHANGED <<scene, transfer, reads>>

(* The timer ticks while there are jobs, messages arrive, the user answers. *)
QueueFairness ==
  LET cm == scene = "by cm"
      own == scene = "by conn"
  IN
  /\ WF_reads((cm \/ own) /\ ByCm!OnClient)
  /\ WF_reads(own /\ ByConn!Tick) /\ WF_reads(cm /\ ByCm!TickCm)
  /\ WF_reads(\/ cm /\ ByCm!Forward
              \/ own /\ (ByConn!OnSend \/ ByConn!OnCancel \/ ByConn!OnConfirm))
  /\ WF_reads(cm /\ ByCm!HandleFs) /\ WF_reads(cm /\ ByCm!FromCm)

(* The pool and the threads run, requests end (with a chunk, an error or the
   end of the body), the timer ticks and the wait of Cancel is bounded.    *)
UpdateFairness ==
  LET on == scene = "update" IN
  /\ \A c \in 1..2 :
       /\ WF_update(on /\ Update!CallStep(c)) /\ WF_update(on /\ Update!Reply(c))
       /\ WF_update(on /\ Update!ThreadRuns(c))
  /\ WF_update(on /\ Update!Poll) /\ WF_update(on /\ Update!CancelDone)

ScenesSpec == ScenesInit /\ [][ScenesNext]_everything /\ QueueFairness /\ UpdateFairness

-----------------------------------------------------------------------------
(* A download that is reported done has left every file whole, under its name
   and of one version of the source, except those the user skipped, which are
   as they were, however often the connection was lost and the job resumed
   from .download and .digest; in both directions a resumed reader reads from
   where the writer goes on to write.  All this for an unspoilt job: begun where
   no .download or .digest of another lay, of a source that changes only between
   the parts of the job and then in its digest, and without a failing operation
   on the writer's disk, after which the client may well report a broken file
   done.                                                                   *)
FilesWhole ==
  scene \in {"down", "up"} =>
    Transfer!NothingMisplaced /\ Transfer!DoneIsWhole /\ Transfer!SkippedIsKept

(* Every download of the list ends unless the first of the list waits for ever:
   for a digest that the client could not answer, or, where the connection reads,
   because the client was told that one of its files failed and forgot the job,
   which the connection goes on with.  A cancelled one holds up none, nor does one
   that failed where the connection manager reads.  Nothing of a job is sent once
   its cancellation has arrived, and once all messages have, cm_read_job_ids are
   the jobs that the connection manager reads.                             *)
JobsEnd ==
  /\ \A j \in {"j1", "j2"} :
       []<>(client[j] # "on" \/ IF scene = "by cm" THEN ByCm!HeldUp ELSE ByConn!HeldUp)
  /\ [][/\ scene = "by cm" => ByCm!TypeOK' /\ ByCm!SilentAfterCancel /\ ByCm!IdsMatch
        /\ scene = "by conn" => ByConn!TypeOK' /\ ByConn!SilentAfterCancel
        /\ scene \in {"down", "up"} => Transfer!TypeOK']_everything

(* The update's progress bar does not hang unless the body that the GET gave was
   shorter than the length of the HEAD, in which case the entry is finished
   without an error and the bar stays where it is; a cancel that reaches a running
   thread takes its entry of DOWNLOADERS away or ends it, and an entry that
   shows neither an error nor its end belongs to a thread that runs or is
   about to: who reuses it is not waiting for nobody.                      *)
UpdateEnds ==
  /\ [](scene = "update" => Update!TypeOK /\ Update!NoOrphan)
  /\ []<>(phase # "polling" \/ Update!Short)
  /\ \A c \in 1..2 :
       []<>(~(signal[c] /\ entry.owner = c /\ ~entry.err /\ ~entry.finished))
=============================================================================
