---------------------------- MODULE PortableLife ----------------------------
(***************************************************************************)
(* How the unprivileged Windows process starts its elevated helper, learns *)
(* that it runs and notices that it is gone (portable_service.rs).  Any    *)
(* connection may ask for the helper; a launch makes a fresh shared memory *)
(* with a one-time token in it, runs the helper on that memory and leaves  *)
(* a watchdog behind.  The helper reads the token, connects, and is        *)
(* admitted by the accept loop, which gives each connection a task that    *)
(* sets RUNNING at the first Pong.  Launches are numbered by STARTING_     *)
(* TOKEN; memory, token, helper, task and watchdog of launch l are l's.    *)
(* Every critical section of the code is a step of its own.                *)
(***************************************************************************)
EXTENDS Naturals, FiniteSets

CONSTANTS
    Callers,    \* connections that may ask for the helper
    MaxStarts,  \* bound: launches in a behaviour
    MaxNack     \* MAX_NACK

Launches == 1..MaxStarts
None == 0

VARIABLES
    running,   \* RUNNING
    starting,  \* STARTING
    startTok,  \* STARTING_TOKEN
    shm,       \* SHMEM and SHMEM_RUNTIME_NAME: launch whose memory is held, or None
    shmTok,    \* launch -> whether its memory holds its token
    tok,       \* IPC_RUNTIME_TOKEN: launch whose token is accepted, or None
    pc,        \* caller -> where it is in start_portable_service, its launch, running as read
    helper,    \* launch -> its helper process
    acc,       \* the accept loop: the handshake it is in
    task,      \* launch -> the task of its connection
    nack,      \* launch -> unanswered pings of the task
    wire,      \* launch -> ping on its way to the helper, pong on its way back
    wd         \* launch -> its start-up watchdog

vars == <<running, starting, startTok, shm, shmTok, tok, pc, helper, acc,
          task, nack, wire, wd>>

memory == <<shm, shmTok, tok>>
served == <<task, nack, wire>>

Away == [at |-> "away", l |-> None, saw |-> FALSE]
Free == [at |-> "accept", l |-> None, name |-> None]

Init ==
    /\ running = FALSE /\ starting = FALSE /\ startTok = 0
    /\ shm = None /\ tok = None
    /\ shmTok = [l \in Launches |-> FALSE]
    /\ pc = [c \in Callers |-> Away]
    /\ helper = [l \in Launches |-> "none"]
    /\ acc = Free
    /\ task = [l \in Launches |-> "none"]
    /\ nack = [l \in Launches |-> 0]
    /\ wire = [l \in Launches |-> {}]
    /\ wd = [l \in Launches |-> "none"]

-----------------------------------------------------------------------------
(* start_portable_service                                                  *)

\* has_running_portable_service_process
HelperProcess == \E l \in Launches : helper[l] \notin {"none", "gone"}

Goto(c, at) == pc' = [pc EXCEPT ![c].at = at]
Return(c) == pc' = [pc EXCEPT ![c] = Away]

ReadRunning(c) ==
    /\ pc[c].at = "away" /\ startTok < MaxStarts
    /\ pc' = [pc EXCEPT ![c].at = "check", ![c].saw = running]
    /\ UNCHANGED <<running, starting, startTok, memory, helper, acc, served, wd>>

\* Under the STARTING lock: a stale flag is dropped, then one launch is let in.
CheckStarting(c) ==
    LET stale == starting /\ ~pc[c].saw /\ ~HelperProcess
        busy == (starting /\ ~stale) \/ pc[c].saw
    IN  /\ pc[c].at = "check"
        /\ \/ /\ busy
              /\ starting' = (starting /\ ~stale)
              /\ Return(c)
              /\ UNCHANGED startTok
           \/ /\ ~busy /\ startTok < MaxStarts
              /\ starting' = TRUE
              /\ startTok' = startTok + 1
              /\ pc' = [pc EXCEPT ![c].at = "clear", ![c].l = startTok + 1]
        /\ UNCHANGED <<running, memory, helper, acc, served, wd>>

\* clear_runtime_shmem_state, under the locks of the token and of the memory
clear_runtime_shmem_state ==
    /\ shmTok' = [l \in Launches |-> shmTok[l] /\ l # shm]
    /\ shm' = None
    /\ tok' = None

\* A launch begins by dropping the memory of the one before; one whose
\* process could not be run drops its own.
Clear(c) ==
    /\ \/ pc[c].at = "clear" /\ Goto(c, "create")
       \/ pc[c].at = "undo" /\ Goto(c, "fail")
    /\ clear_runtime_shmem_state
    /\ UNCHANGED <<running, starting, startTok, helper, acc, served, wd>>

\* The memory and its name, under the memory's lock; no display, no space or
\* no permission fails the launch.
CreateMemory(c) ==
    /\ pc[c].at = "create"
    /\ \/ /\ shm' = pc[c].l
          /\ shmTok' = [shmTok EXCEPT ![pc[c].l] = TRUE]
          /\ Goto(c, "token")
       \/ /\ Goto(c, "fail")
          /\ UNCHANGED <<shm, shmTok>>
    /\ UNCHANGED <<running, starting, startTok, tok, helper, acc, served, wd>>

set_runtime_ipc_token(c) ==
    /\ pc[c].at = "token"
    /\ tok' = pc[c].l
    /\ Goto(c, "run")
    /\ UNCHANGED <<running, starting, startTok, shm, shmTok, helper, acc, served, wd>>

\* run_background or create_process_with_logon; an executable whose path is
\* not known fails the launch without clearing the memory.
RunHelper(c) ==
    /\ pc[c].at = "run"
    /\ \/ /\ helper' = [helper EXCEPT ![pc[c].l] = "boot"]
          /\ Goto(c, "watch")
       \/ /\ \E at \in {"undo", "fail"} : Goto(c, at)
          /\ UNCHANGED helper
    /\ UNCHANGED <<running, starting, startTok, memory, acc, served, wd>>

schedule_starting_timeout_reset(c) ==
    /\ pc[c].at = "watch"
    /\ wd' = [wd EXCEPT ![pc[c].l] = "sleep"]
    /\ Return(c)
    /\ UNCHANGED <<running, starting, startTok, memory, helper, acc, served>>

StartFailed(c) ==
    /\ pc[c].at = "fail"
    /\ starting' = FALSE
    /\ Return(c)
    /\ UNCHANGED <<running, startTok, memory, helper, acc, served, wd>>

\* Mutant: the launch keeps the token from before its own increment.
WatchdogOldToken(l) ==
    /\ \/ /\ wd[l] = "sleep"
          /\ wd' = [wd EXCEPT ![l] = IF startTok = l - 1 THEN "latest" ELSE "done"]
          /\ UNCHANGED starting
       \/ /\ wd[l] = "latest"
          /\ wd' = [wd EXCEPT ![l] = IF starting THEN "starting" ELSE "done"]
          /\ UNCHANGED starting
       \/ /\ wd[l] = "starting"
          /\ wd' = [wd EXCEPT ![l] = IF running THEN "done" ELSE "reset"]
          /\ UNCHANGED starting
       \/ /\ wd[l] = "reset"
          /\ wd' = [wd EXCEPT ![l] = "done"]
          /\ starting' = FALSE
    /\ UNCHANGED <<running, startTok, memory, pc, helper, acc, served>>

\* The watchdog wakes, reads the token, STARTING and RUNNING under three
\* locks, and resets under a fourth.
Watchdog(l) ==
    /\ \/ /\ wd[l] = "sleep"
          /\ wd' = [wd EXCEPT ![l] = IF startTok = l THEN "latest" ELSE "done"]
          /\ UNCHANGED starting
       \/ /\ wd[l] = "latest"
          /\ wd' = [wd EXCEPT ![l] = IF starting THEN "starting" ELSE "done"]
          /\ UNCHANGED starting
       \/ /\ wd[l] = "starting"
          /\ wd' = [wd EXCEPT ![l] = IF running THEN "done" ELSE "reset"]
          /\ UNCHANGED starting
       \/ /\ wd[l] = "reset"
          /\ wd' = [wd EXCEPT ![l] = "done"]
          /\ starting' = FALSE
    /\ UNCHANGED <<running, startTok, memory, pc, helper, acc, served>>

-----------------------------------------------------------------------------
(* The helper process                                                      *)

\* run_portable_service: the named memory must still exist and hold the token.
HelperBoots(l) ==
    /\ helper[l] = "boot"
    /\ helper' = [helper EXCEPT ![l] = IF shm = l /\ shmTok[l] THEN "connect" ELSE "gone"]
    /\ UNCHANGED <<running, starting, startTok, memory, pc, acc, served, wd>>

\* run_ipc_client connects and sends its token.
HelperConnects(l) ==
    /\ helper[l] = "connect"
    /\ helper' = [helper EXCEPT ![l] = "handshake"]
    /\ UNCHANGED <<running, starting, startTok, memory, pc, acc, served, wd>>

\* A Ping is answered.
HelperPongs(l) ==
    /\ helper[l] = "loop" /\ "ping" \in wire[l]
    /\ wire' = [wire EXCEPT ![l] = (@ \ {"ping"}) \cup {"pong"}]
    /\ UNCHANGED <<running, starting, startTok, memory, pc, helper, acc, task, nack, wd>>

\* EXIT is set: it could not connect, the handshake timed out, no remote
\* connection is left, its pings go unanswered, or capturing failed.
HelperExits(l) ==
    /\ helper[l] \in {"connect", "handshake", "loop"}
    /\ helper' = [helper EXCEPT ![l] = "exit"]
    /\ UNCHANGED <<running, starting, startTok, memory, pc, acc, served, wd>>

\* The threads are joined, or run_exit_check forces the exit.
HelperGone(l) ==
    /\ helper[l] = "exit"
    /\ helper' = [helper EXCEPT ![l] = "gone"]
    /\ UNCHANGED <<running, starting, startTok, memory, pc, acc, served, wd>>

-----------------------------------------------------------------------------
(* start_ipc_server_async: the accept loop, one handshake at a time        *)

\* consume_runtime_ipc_token_if_match
consume_runtime_ipc_token_if_match(l) ==
    /\ tok = l
    /\ tok' = None
    /\ shmTok' = [m \in Launches |-> shmTok[m] /\ m # shm]
    /\ UNCHANGED shm

\* A token that does not match is answered with AuthResult(false).
Accept(l) ==
    /\ acc.at = "accept" /\ helper[l] = "handshake"
    /\ \/ /\ consume_runtime_ipc_token_if_match(l)
          /\ acc' = [at |-> "reply", l |-> l, name |-> shm]
          /\ UNCHANGED helper
       \/ /\ tok # l
          /\ helper' = [helper EXCEPT ![l] = "exit"]
          /\ UNCHANGED <<memory, acc>>
    /\ UNCHANGED <<running, starting, startTok, pc, served, wd>>

\* AuthResult(true) is sent; the send can fail when the helper has gone.
Reply ==
    LET l == acc.l IN
    /\ acc.at = "reply"
    /\ \/ /\ task' = [task EXCEPT ![l] = "wait"]
          /\ helper' = [helper EXCEPT ![l] = IF @ = "handshake" THEN "loop" ELSE @]
          /\ acc' = Free
       \/ /\ helper[l] # "handshake"
          /\ acc' = [acc EXCEPT !.at = "restore"]
          /\ UNCHANGED <<task, helper>>
    /\ UNCHANGED <<running, starting, startTok, memory, pc, nack, wire, wd>>

\* The token is accepted again only while its memory is still the one held.
restore_runtime_ipc_token_after_failed_handshake ==
    LET l == acc.l IN
    /\ acc.at = "restore"
    /\ \/ tok \notin {None, l} /\ UNCHANGED memory
       \/ /\ tok \in {None, l}
          /\ \/ /\ shm # acc.name \/ shm = None
                /\ tok' = IF tok = l THEN None ELSE tok
                /\ UNCHANGED <<shm, shmTok>>
             \/ /\ shm = acc.name /\ shm # None
                /\ shmTok' = [shmTok EXCEPT ![shm] = TRUE]
                /\ tok' = l
                /\ UNCHANGED shm
    /\ acc' = [acc EXCEPT !.at = "reset"]
    /\ UNCHANGED <<running, starting, startTok, pc, helper, served, wd>>

HandshakeFailed ==
    /\ acc.at = "reset"
    /\ starting' = FALSE
    /\ acc' = Free
    /\ UNCHANGED <<running, startTok, memory, pc, helper, served, wd>>

-----------------------------------------------------------------------------
(* The task of a connection                                                *)

\* The task that holds the receiver of SENDER; the others wait for it.
Serving == {l \in Launches : task[l] \in {"loop", "pong", "end", "ended"}}

TaskLocks(l) ==
    /\ task[l] = "wait" /\ Serving = {}
    /\ task' = [task EXCEPT ![l] = "loop"]
    /\ UNCHANGED <<running, starting, startTok, memory, pc, helper, acc, nack, wire, wd>>

TaskTick(l) ==
    /\ task[l] = "loop"
    /\ IF nack[l] < MaxNack
         THEN /\ nack' = [nack EXCEPT ![l] = @ + 1]
              /\ wire' = [wire EXCEPT ![l] = IF helper[l] = "loop" THEN @ \cup {"ping"} ELSE @]
              /\ UNCHANGED task
         ELSE /\ task' = [task EXCEPT ![l] = "end"]
              /\ UNCHANGED <<nack, wire>>
    /\ UNCHANGED <<running, starting, startTok, memory, pc, helper, acc, wd>>

\* RUNNING, then STARTING, each under its own lock.
TaskPong(l) ==
    /\ \/ /\ task[l] = "loop" /\ "pong" \in wire[l]
          /\ wire' = [wire EXCEPT ![l] = @ \ {"pong"}]
          /\ nack' = [nack EXCEPT ![l] = 0]
          /\ running' = TRUE
          /\ task' = [task EXCEPT ![l] = "pong"]
          /\ UNCHANGED starting
       \/ /\ task[l] = "pong"
          /\ starting' = FALSE
          /\ task' = [task EXCEPT ![l] = "loop"]
          /\ UNCHANGED <<running, nack, wire>>
    /\ UNCHANGED <<startTok, memory, pc, helper, acc, wd>>

\* WillClose, or the stream closed by the helper.
TaskClosed(l) ==
    /\ task[l] = "loop" /\ helper[l] \in {"exit", "gone"} /\ "pong" \notin wire[l]
    /\ task' = [task EXCEPT ![l] = "end"]
    /\ UNCHANGED <<running, starting, startTok, memory, pc, helper, acc, nack, wire, wd>>

\* Out of the loop: RUNNING, then STARTING, then the receiver is released.
TaskEnds(l) ==
    /\ \/ /\ task[l] = "end"
          /\ running' = FALSE
          /\ task' = [task EXCEPT ![l] = "ended"]
          /\ UNCHANGED starting
       \/ /\ task[l] = "ended"
          /\ starting' = FALSE
          /\ task' = [task EXCEPT ![l] = "done"]
          /\ UNCHANGED running
    /\ UNCHANGED <<startTok, memory, pc, helper, acc, nack, wire, wd>>

-----------------------------------------------------------------------------
StartStep(c) ==
    \/ CheckStarting(c) \/ Clear(c) \/ CreateMemory(c) \/ set_runtime_ipc_token(c)
    \/ RunHelper(c) \/ schedule_starting_timeout_reset(c) \/ StartFailed(c)

HelperStep(l) == HelperBoots(l) \/ HelperConnects(l) \/ HelperGone(l)

AcceptStep ==
    \/ \E l \in Launches : Accept(l)
    \/ Reply \/ restore_runtime_ipc_token_after_failed_handshake \/ HandshakeFailed

TaskStep(l) == TaskTick(l) \/ TaskPong(l) \/ TaskClosed(l) \/ TaskEnds(l)

Next ==
    \/ \E c \in Callers : ReadRunning(c) \/ StartStep(c)
    \/ \E l \in Launches :
         \/ Watchdog(l) \/ HelperStep(l) \/ HelperPongs(l) \/ HelperExits(l)
         \/ TaskLocks(l) \/ TaskStep(l)
    \/ AcceptStep

Spec == Init /\ [][Next]_vars

\* Threads and tasks that can run do; nothing makes the helper answer or exit
\* except that a helper whose task has ended finds its stream closed.
HelperCut(l) == task[l] = "done" /\ HelperExits(l)

-----------------------------------------------------------------------------
(* Properties                                                              *)

TypeOK ==
    /\ running \in BOOLEAN /\ starting \in BOOLEAN
    /\ startTok \in 0..MaxStarts
    /\ shm \in 0..MaxStarts /\ tok \in 0..MaxStarts
    /\ shmTok \in [Launches -> BOOLEAN]
    /\ pc \in [Callers -> [at : {"away", "check", "clear", "create", "token", "run",
                                 "watch", "undo", "fail"},
                           l : 0..MaxStarts, saw : BOOLEAN]]
    /\ helper \in [Launches -> {"none", "boot", "connect", "handshake", "loop", "exit", "gone"}]
    /\ acc \in [at : {"accept", "reply", "restore", "reset"}, l : 0..MaxStarts,
                name : 0..MaxStarts]
    /\ task \in [Launches -> {"none", "wait", "loop", "pong", "end", "ended", "done"}]
    /\ nack \in [Launches -> 0..MaxNack]
    /\ wire \in [Launches -> SUBSET {"ping", "pong"}]
    /\ wd \in [Launches -> {"none", "sleep", "latest", "starting", "reset", "done"}]

\* RUNNING is set only while one task serves a connection: whatever order the
\* tasks of several launches end in, none leaves the flag set behind it, so
\* that input and capture are not handed to a helper nobody talks to.
RunningIsServed == running => Serving # {}

\* One caller: a token that would be accepted is the token of the memory that
\* is held, so a handshake restored late never admits a helper that writes
\* into memory the process has let go of.
TokenOfMemory == tok # None => tok = shm
=============================================================================
