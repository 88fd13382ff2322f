----------------------------- MODULE FileQueue ------------------------------
(***************************************************************************)
(* The read jobs of the controlled side, which several downloads of one    *)
(* client share: handle_read_jobs of libs/base/src/fs.rs, run by the       *)
(* connection, and handle_read_jobs_tick of src/ui_cm_interface.rs, run by *)
(* the connection manager (Windows) behind the filter that the connection  *)
(* keeps in cm_read_job_ids.                                               *)
(*                                                                         *)
(* Only the first job of the list is read; a job waits for the client to   *)
(* confirm each file.  Reading a file to its end is one step.  A job may   *)
(* fail when its files are listed, and when a file is opened or read; the  *)
(* client may fail to look at its own file and then leaves the digest      *)
(* unanswered.                                                             *)
(***************************************************************************)
EXTENDS Naturals, Sequences, SequencesExt

CONSTANTS Jobs, Files,   \* files of a job
          Cm,            \* the connection manager reads
          MayFail        \* to open or to read a file, on either side

QueueAssumption == Files \in Nat \ {0} /\ Cm \in BOOLEAN /\ MayFail \in BOOLEAN

VARIABLES
    client,         \* the client's job: new, on, ended, cancelled
    order,          \* the list of read jobs
    job,            \* their state
    ids,            \* cm_read_job_ids
    toC, toS,       \* client and connection
    toM, fromM,     \* connection and connection manager
    mute            \* history: the jobs with a digest that the client left unanswered
net == <<toC, toS>>
ipc == <<toM, fromM>>
vars == <<client, order, job, ids, net, ipc, mute>>

Fresh == [num |-> 0, open |-> FALSE, confirmed |-> FALSE, waiting |-> FALSE]

Listed == {order[i] : i \in 1..Len(order)}

TypeOK ==
    /\ client \in [Jobs -> {"new", "on", "ended", "cancelled"}]
    /\ Listed \subseteq Jobs /\ IsInjective(order)
    /\ job \in [Jobs -> [num : 0..Files, open : BOOLEAN, confirmed : BOOLEAN, waiting : BOOLEAN]]
    /\ \A j \in Jobs : job[j].confirmed \/ job[j].waiting => job[j].open
    /\ ids \subseteq Jobs /\ mute \subseteq Jobs

Init ==
    /\ client = [j \in Jobs |-> "new"]
    /\ order = <<>>
    /\ job = [j \in Jobs |-> Fresh]
    /\ ids = {} /\ mute = {}
    /\ toC = <<>> /\ toS = <<>> /\ toM = <<>> /\ fromM = <<>>

Msg(t, j) == [t |-> t, j |-> j]

-----------------------------------------------------------------------------
(* The client.                                                             *)

Start(j) ==
    /\ client[j] = "new"
    /\ client' = [client EXCEPT ![j] = "on"]
    /\ toS' = Append(toS, Msg("send", j))
    /\ UNCHANGED <<order, job, ids, toC, ipc, mute>>

Cancel(j) ==
    /\ client[j] = "on"
    /\ client' = [client EXCEPT ![j] = "cancelled"]
    /\ toS' = Append(toS, Msg("cancel", j))
    /\ UNCHANGED <<order, job, ids, toC, ipc, mute>>

\* A digest is answered while the client still has the job, at once or by the
\* user, or is not when is_write_need_confirmation returns an error, which is only
\* printed; an error and the end remove the job.
OnClient ==
    /\ toC # <<>>
    /\ LET m == Head(toC)
           live == client[m.j] = "on"
       IN /\ client' = IF live /\ m.t \in {"error", "done"} THEN [client EXCEPT ![m.j] = "ended"] ELSE client
          /\ \/ /\ live /\ m.t = "digest"
                /\ \E a \in {"confirm", "skip"} : toS' = Append(toS, Msg(a, m.j))
                /\ UNCHANGED mute
             \/ /\ live /\ m.t = "digest" /\ MayFail
                /\ mute' = mute \cup {m.j}
                /\ UNCHANGED toS
             \/ ~(live /\ m.t = "digest") /\ UNCHANGED <<toS, mute>>
    /\ toC' = Tail(toC)
    /\ UNCHANGED <<order, job, ids, ipc>>

-----------------------------------------------------------------------------
(* A job and its files.                                                    *)

Closed(s) == [s EXCEPT !.num = @ + 1, !.open = FALSE, !.confirmed = FALSE, !.waiting = FALSE]
Opened(s) == [s EXCEPT !.open = TRUE, !.confirmed = FALSE, !.waiting = TRUE]

Confirmed(s, a) == IF a = "skip" THEN Closed(s) ELSE [s EXCEPT !.confirmed = TRUE]

Without(j) == SelectSeq(order, LAMBDA k : k # j)

ToOpen(j) == ~job[j].open /\ job[j].num < Files

\* job_completed.
Complete(s) == ~s.confirmed /\ ~s.waiting

-----------------------------------------------------------------------------
(* The connection reads: handle_read_jobs.                                 *)

\* init_jobs: every job of the list, in order; bad are the files that fail.
InitJobs(bad) ==
    [j \in Jobs |-> IF j \notin Listed \/ ~ToOpen(j) THEN job[j]
                    ELSE IF j \in bad THEN Closed(job[j]) ELSE Opened(job[j])]

InitMsgs(bad) ==
    LET opening == SelectSeq(order, ToOpen)
    IN [i \in 1..Len(opening) |->
          Msg(IF opening[i] \in bad THEN "error" ELSE "digest", opening[i])]

\* What the read of job j, in state s, sends and leaves; fails: it fails.
ReadMsgs(j, s, fails) ==
    IF s.confirmed THEN <<Msg(IF fails THEN "error" ELSE "block", j)>>
    ELSE IF Complete(s) THEN <<Msg("done", j)>> ELSE <<>>

AfterRead(s) == IF s.confirmed THEN Closed(s) ELSE s

Tick ==
    /\ ~Cm /\ order # <<>>
    /\ \E bad \in SUBSET {j \in Listed : ToOpen(j) /\ MayFail}, fails \in {FALSE, MayFail} :
         LET j == Head(order)
             s == InitJobs(bad)[j]
         IN /\ job' = [InitJobs(bad) EXCEPT ![j] = AfterRead(@)]
            /\ toC' = toC \o InitMsgs(bad) \o ReadMsgs(j, s, fails)
            /\ order' = IF Complete(s) THEN Tail(order) ELSE order
    /\ UNCHANGED <<client, ids, toS, ipc, mute>>

\* A file action of the client reaches the connection.
OnSend ==
    /\ ~Cm /\ toS # <<>> /\ Head(toS).t = "send"
    /\ LET j == Head(toS).j
       IN \/ order' = Append(order, j) /\ UNCHANGED toC
          \/ toC' = Append(toC, Msg("error", j)) /\ UNCHANGED order
    /\ toS' = Tail(toS)
    /\ UNCHANGED <<client, job, ids, ipc, mute>>

OnCancel ==
    /\ ~Cm /\ toS # <<>> /\ Head(toS).t = "cancel"
    /\ order' = Without(Head(toS).j)
    /\ toS' = Tail(toS)
    /\ UNCHANGED <<client, job, ids, toC, ipc, mute>>

OnConfirm ==
    /\ ~Cm /\ toS # <<>> /\ Head(toS).t \in {"confirm", "skip"}
    /\ LET j == Head(toS).j
       IN job' = IF j \in Listed THEN [job EXCEPT ![j] = Confirmed(@, Head(toS).t)] ELSE job
    /\ toS' = Tail(toS)
    /\ UNCHANGED <<client, order, ids, toC, ipc, mute>>

-----------------------------------------------------------------------------
(* The connection manager reads.                                           *)

\* The connection passes the actions on, and keeps the ids of the jobs.
Forward ==
    /\ Cm /\ toS # <<>>
    /\ LET m == Head(toS)
       IN /\ ids' = CASE m.t = "send" -> ids \cup {m.j}
                      [] m.t = "cancel" -> ids \ {m.j}
                      [] OTHER -> ids
          /\ toM' = IF m.t \in {"send", "cancel"} \/ m.j \in ids THEN Append(toM, m) ELSE toM
    /\ toS' = Tail(toS)
    /\ UNCHANGED <<client, order, job, toC, fromM, mute>>

\* handle_fs: ReadFile, CancelRead, SendConfirmForRead.
HandleFs ==
    /\ toM # <<>>
    /\ LET m == Head(toM)
       IN \/ /\ m.t = "send"
             /\ \/ order' = Append(order, m.j) /\ UNCHANGED fromM
                \/ fromM' = Append(fromM, Msg("error", m.j)) /\ UNCHANGED order
             /\ UNCHANGED job
          \/ m.t = "cancel" /\ order' = Without(m.j) /\ UNCHANGED <<job, fromM>>
          \/ /\ m.t \in {"confirm", "skip"}
             /\ job' = IF m.j \in Listed THEN [job EXCEPT ![m.j] = Confirmed(@, m.t)] ELSE job
             /\ UNCHANGED <<order, fromM>>
    /\ toM' = Tail(toM)
    /\ UNCHANGED <<client, ids, net, mute>>

\* A failing job is finished, so that it is not tried again.
FailedIsFinished(j) == order' = Without(j)

\* handle_read_jobs_tick: a job whose file does not open is finished and the
\* loop goes on, which is the next step here; the first of the others is read.
TickCm ==
    /\ Cm /\ order # <<>>
    /\ LET j == Head(order)
       IN \/ /\ ToOpen(j) /\ MayFail
             /\ fromM' = Append(fromM, Msg("error", j))
             /\ job' = [job EXCEPT ![j] = Closed(@)]
             /\ FailedIsFinished(j)
          \/ /\ ToOpen(j)
             /\ fromM' = Append(fromM, Msg("digest", j))
             /\ job' = [job EXCEPT ![j] = Opened(@)]
             /\ UNCHANGED order
          \/ /\ job[j].confirmed
             /\ fromM' = Append(fromM, Msg("block", j))
             /\ job' = [job EXCEPT ![j] = Closed(@)]
             /\ UNCHANGED order
          \/ /\ job[j].confirmed /\ MayFail
             /\ fromM' = Append(fromM, Msg("error", j))
             /\ job' = [job EXCEPT ![j] = Closed(@)]
             /\ FailedIsFinished(j)
          \/ /\ ~ToOpen(j) /\ Complete(job[j])
             /\ fromM' = Append(fromM, Msg("done", j))
             /\ order' = Without(j)
             /\ UNCHANGED job
    /\ UNCHANGED <<client, ids, net, toM, mute>>

FromCmUnfiltered ==
    /\ fromM # <<>>
    /\ toC' = Append(toC, Head(fromM))
    /\ ids' = ids \ {Head(fromM).j : t \in {Head(fromM).t} \cap {"error", "done"}}
    /\ fromM' = Tail(fromM)
    /\ UNCHANGED <<client, order, job, toS, toM, mute>>

\* The connection drops what belongs to no job of its own, and forgets a job
\* that has ended.
FromCm ==
    /\ fromM # <<>>
    /\ LET m == Head(fromM)
       IN /\ toC' = IF m.j \in ids THEN Append(toC, m) ELSE toC
          /\ ids' = IF m.t \in {"error", "done"} THEN ids \ {m.j} ELSE ids
    /\ fromM' = Tail(fromM)
    /\ UNCHANGED <<client, order, job, toS, toM, mute>>

-----------------------------------------------------------------------------
Server == Tick \/ OnSend \/ OnCancel \/ OnConfirm \/ Forward \/ HandleFs \/ TickCm \/ FromCm

Next == (\E j \in Jobs : Start(j) \/ Cancel(j)) \/ OnClient \/ Server

Spec == Init /\ [][Next]_vars

-----------------------------------------------------------------------------
(* Properties.                                                             *)

\* The first job of the list waits for an answer that does not come: the client
\* could not look at its file, or, told by the connection that another file of the
\* job failed, has the job no longer while the connection has it still.
HeldUp ==
    order # <<>> /\ LET h == Head(order) IN
        /\ job[h].waiting /\ ~job[h].confirmed
        /\ h \in mute \/ (~Cm /\ client[h] = "ended")

\* Once all messages have arrived, the connection expects what the connection
\* manager still reads, and nothing else.
IdsMatch == Cm /\ toS = <<>> /\ toM = <<>> /\ fromM = <<>> => ids = Listed

\* Nothing of a job is sent once its cancellation has arrived, whatever is
\* still on its way from the connection manager.
SilentAfterCancel ==
    \A j \in Jobs :
        client[j] = "cancelled" /\ ~Contains(toS, Msg("cancel", j))
            => \A k \in (Len(toC) + 1)..Len(toC') : toC'[k].j # j

=============================================================================
