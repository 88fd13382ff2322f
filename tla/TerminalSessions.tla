-------------------------- MODULE TerminalSessions --------------------------
(***************************************************************************)
(* The registry of terminal services (terminal_service.rs), for one        *)
(* service id: connections that open and close terminals in it, the loop   *)
(* each connection has (run, read_outputs), the end of that loop and the   *)
(* cleanup thread.                                                         *)
(*                                                                         *)
(* The registry, each service and each session have a lock of their own    *)
(* and a step is what runs under one of them.  A service is the number of  *)
(* its incarnation, a session a number too.  How a session is stopped is   *)
(* TerminalStop's.                                                         *)
(***************************************************************************)
EXTENDS Naturals, FiniteSets

CONSTANTS
  Conns,        \* 1 .. the number of connections, in the order they come
  Ids,          \* terminal ids
  Opens,        \* Opens[c]: the ids c's window asks for, each once
  Persistence,  \* what a connection may ask for
  Overlap,      \* a connection may come before the last one is noticed gone
  MaxSessions, MaxServices, \* bounds: sessions and services made
  MaxEvents     \* bound: changes of the option terminal_persistent, reads and kills
                \* that fail, together

SessionsAssumption ==
  /\ Conns \subseteq Nat /\ Ids \subseteq Nat
  /\ Opens \in [Conns -> SUBSET Ids]
  /\ Persistence \subseteq BOOLEAN /\ Overlap \in BOOLEAN
  /\ MaxSessions \in Nat /\ MaxServices \in Nat /\ MaxEvents \in Nat

VARIABLES
  reg,        \* TERMINAL_SERVICES: the service of the id, 0 if none
  services,   \* services made
  persistent, \* is_persistent of each
  sync,       \* needs_session_sync of each
  idle,       \* its last activity is longer ago than SERVICE_IDLE_TIMEOUT
  sessions,   \* sessions[v][id]: the session, 0 if none
  made,       \* sessions made
  runs,       \* the sessions whose shell runs
  child,      \* the sessions that hold their child
  reaper,     \* TERMINAL_TASKS: the sessions whose child is there
  sent,       \* closed_message_sent
  deaf,       \* the sessions whose reader thread ended on an error
  unkilled,   \* the sessions whose shell could not be killed; no field of the code
  conn,       \* conn[c]: out, in, gone
  act,        \* act[c]: the request looked up, and the service it found
  opened,     \* opened[c][id]: the session c's terminal id is, 0 if none
  told,       \* told[c]: ids c was told are closed or has closed itself
  loop,       \* loop[c]: where the loop is
  doomed,     \* the cleanup thread will remove the service
  toggles

registry == <<reg, services, persistent, sync, idle, doomed>>
failures == <<deaf, unkilled>>
shells == <<made, runs, child, reaper, sent, failures>>
clients == <<conn, act, opened, told>>
vars == <<registry, sessions, shells, clients, loop, toggles>>

Services == 1 .. MaxServices
Sessions == 1 .. MaxSessions
None == [id \in Ids |-> 0]
NoAct == [op |-> "none", id |-> 0, svc |-> 0]
AtRest == [pc |-> "rest", persistent |-> FALSE, svc |-> 0, snap |-> {}, closed |-> {}, clone |-> None]

Init ==
  /\ reg = 0 /\ services = 0 /\ doomed = FALSE
  /\ persistent = [v \in Services |-> FALSE]
  /\ sync = [v \in Services |-> FALSE]
  /\ idle = [v \in Services |-> FALSE]
  /\ sessions = [v \in Services |-> None]
  /\ made = 0 /\ runs = {} /\ child = {} /\ reaper = {} /\ sent = {}
  /\ deaf = {} /\ unkilled = {}
  /\ conn = [c \in Conns |-> "out"]
  /\ act = [c \in Conns |-> NoAct]
  /\ opened = [c \in Conns |-> None]
  /\ told = [c \in Conns |-> {}]
  /\ loop = [c \in Conns |-> AtRest]
  /\ toggles = 0

In(v) == {sessions[v][id] : id \in Ids} \ {0}

Dead(n) == n \notin runs

More == toggles + Cardinality(deaf) + Cardinality(unkilled) < MaxEvents

Reap(n) == child' = child \ {n} /\ reaper' = IF n \in child THEN reaper \union {n} ELSE reaper

----------------------------------------------------------------------------
(* A connection of the service id logs in: get_or_create_service, with the *)
(* registry locked; a registry full of other services makes none.          *)
GetOrCreate(p) ==
  /\ \/ /\ reg # 0
        /\ persistent' = [persistent EXCEPT ![reg] = p]
        /\ sync' = [sync EXCEPT ![reg] = TRUE]
        /\ UNCHANGED <<reg, services, idle>>
     \/ /\ reg = 0 /\ services < MaxServices
        /\ services' = services + 1 /\ reg' = services'
        /\ persistent' = [persistent EXCEPT ![reg'] = p]
        /\ sync' = [sync EXCEPT ![reg'] = TRUE]
        /\ UNCHANGED idle
     \/ reg = 0 /\ UNCHANGED <<reg, services, persistent, sync, idle>>
  /\ UNCHANGED doomed

Connect(c, p) ==
  /\ conn[c] = "out" /\ \A d \in Conns : d < c => conn[d] # "out"
  /\ Overlap \/ \A d \in Conns : d < c => conn[d] = "gone" /\ loop[d].pc = "done"
  /\ GetOrCreate(p)
  /\ conn' = [conn EXCEPT ![c] = "in"]
  /\ UNCHANGED <<sessions, shells, act, opened, told, loop, toggles>>

Disconnect(c) ==
  /\ conn[c] = "in" /\ act[c] = NoAct
  /\ conn' = [conn EXCEPT ![c] = "gone"]
  /\ UNCHANGED <<registry, sessions, shells, act, opened, told, loop, toggles>>

(* update_terminal_persistence *)
SetPersistent(c, p) ==
  /\ conn[c] = "in" /\ reg # 0 /\ More
  /\ persistent' = [persistent EXCEPT ![reg] = p]
  /\ toggles' = toggles + 1
  /\ UNCHANGED <<reg, services, sync, idle, doomed, sessions, shells, clients, loop>>

(* handle_action: the service is looked up, and only then locked. *)
LookUp(c, op, id) ==
  /\ conn[c] = "in" /\ act[c] = NoAct /\ reg # 0
  /\ \/ op = "open" /\ id \in Opens[c] /\ opened[c][id] = 0 /\ id \notin told[c]
     \/ op = "close" /\ opened[c][id] # 0 /\ id \notin told[c]
  /\ act' = [act EXCEPT ![c] = [op |-> op, id |-> id, svc |-> reg]]
  /\ UNCHANGED <<registry, sessions, shells, conn, opened, told, loop, toggles>>

Lowest(S) == CHOOSE i \in S : \A j \in S : i <= j

Held(v) == {id \in Ids : sessions[v][id] # 0}

(* handle_open: an id unknown to the service takes, once after a           *)
(* reconnect, the session of the lowest id.                                *)
Remapped(v, id) ==
  IF sessions[v][id] = 0 /\ sync[v] /\ Held(v) # {}
  THEN [sessions[v] EXCEPT ![Lowest(Held(v))] = 0, ![id] = sessions[v][Lowest(Held(v))]]
  ELSE sessions[v]

Open(c) ==
  LET v == act[c].svc id == act[c].id map == Remapped(v, id)
  IN  /\ act[c].op = "open"
      /\ sync' = [sync EXCEPT ![v] = FALSE]
      /\ idle' = [idle EXCEPT ![v] = FALSE]
      /\ \/ /\ map[id] # 0
            /\ sessions' = [sessions EXCEPT ![v] = map]
            /\ opened' = [opened EXCEPT ![c][id] = map[id]]
            /\ UNCHANGED <<made, runs, child>>
         \/ /\ map[id] = 0 /\ made < MaxSessions
            /\ made' = made + 1
            /\ sessions' = [sessions EXCEPT ![v][id] = made']
            /\ opened' = [opened EXCEPT ![c][id] = made']
            /\ runs' = runs \union {made'} /\ child' = child \union {made'}
      /\ act' = [act EXCEPT ![c] = NoAct]
      /\ UNCHANGED <<reg, services, persistent, doomed, reaper, sent, failures, conn, told, loop,
                     toggles>>

(* The shell, or the limits of the system, refuse: no session, an error. *)
OpenFails(c) ==
  LET v == act[c].svc
  IN  /\ act[c].op = "open" /\ Remapped(v, act[c].id)[act[c].id] = 0
      /\ idle' = [idle EXCEPT ![v] = FALSE]
      /\ act' = [act EXCEPT ![c] = NoAct]
      /\ UNCHANGED <<reg, services, persistent, sync, doomed, sessions, shells, conn, opened, told,
                     loop, toggles>>

(* handle_close.  When the kill fails the session is gone all the same, its
   child is dropped as it is and the client gets an error.                 *)
Close(c) ==
  LET v == act[c].svc id == act[c].id n == sessions[v][id]
  IN  /\ act[c].op = "close"
      /\ idle' = [idle EXCEPT ![v] = FALSE]
      /\ sessions' = [sessions EXCEPT ![v][id] = 0]
      /\ told' = [told EXCEPT ![c] = @ \union {id}]
      /\ \/ n = 0 /\ UNCHANGED shells
         \/ /\ n # 0
            /\ runs' = runs \ {n} /\ Reap(n)
            /\ UNCHANGED <<made, sent, failures>>
         \/ /\ n \in child /\ More
            /\ child' = child \ {n} /\ unkilled' = unkilled \union {n}
            /\ UNCHANGED <<made, runs, reaper, sent, deaf>>
      /\ opened' = [opened EXCEPT ![c][id] = 0]
      /\ act' = [act EXCEPT ![c] = NoAct]
      /\ UNCHANGED <<reg, services, persistent, sync, doomed, conn, loop, toggles>>

ShellExits(n) ==
  /\ n \in runs
  /\ runs' = runs \ {n}
  /\ UNCHANGED <<registry, sessions, made, child, reaper, sent, failures, clients, loop, toggles>>

(* A read error ends the reader thread, the shell goes on. *)
ReaderFails(n) ==
  /\ n \in child \intersect runs /\ n \notin deaf /\ More
  /\ deaf' = deaf \union {n}
  /\ UNCHANGED <<registry, sessions, made, runs, child, reaper, sent, unkilled, clients, loop,
                 toggles>>

----------------------------------------------------------------------------
(* The thread of c's service.  GenericService::run calls run only while    *)
(* the connection is subscribed.                                           *)
At(c, pc) == loop[c].pc = pc
Go(c, pc) == loop' = [loop EXCEPT ![c].pc = pc]

Enter(c) ==
  /\ At(c, "rest") /\ conn[c] # "out"
  /\ Go(c, IF conn[c] = "in" THEN "top" ELSE "done")
  /\ UNCHANGED <<registry, sessions, shells, clients, toggles>>

(* run: TerminalServiceProxy::new reads whether the service is persistent. *)
Top(c) ==
  /\ At(c, "top")
  /\ loop' = [loop EXCEPT ![c].pc = IF conn[c] = "in" THEN "snap" ELSE "exit",
                          ![c].persistent = reg # 0 /\ persistent[reg]]
  /\ UNCHANGED <<registry, sessions, shells, clients, toggles>>

(* read_outputs: the sessions as they are now, and one after the other. *)
Snapshot(c) ==
  /\ At(c, "snap")
  /\ loop' = [loop EXCEPT ![c] =
       IF reg = 0 THEN [@ EXCEPT !.pc = "top"]
       ELSE [@ EXCEPT !.pc = "each", !.svc = reg,
                      !.snap = {<<id, sessions[reg][id]>> : id \in Held(reg)}]]
  /\ UNCHANGED <<registry, sessions, shells, clients, toggles>>

(* A reader thread that has ended counts as the end.  The end of the shell *)
(* shows in its child or, that taken, in the reader thread, sooner or      *)
(* later.  A stopped session has neither.                                  *)
Detects(v, n) ==
  IF n \in sent \/ (v # reg /\ n \notin child) THEN {FALSE}
  ELSE IF n \in deaf THEN {TRUE}
  ELSE IF n \in child THEN {Dead(n)}
  ELSE {FALSE, Dead(n)}

EachOverwrites(c, x) ==
  /\ At(c, "each") /\ x \in loop[c].snap
  /\ \E ended \in Detects(loop[c].svc, x[2]) :
       /\ sent' = IF ended THEN sent \union {x[2]} ELSE sent
       /\ loop' = [loop EXCEPT ![c].snap = @ \ {x},
                               ![c].closed = IF ended THEN {x[1]} ELSE @]
  /\ UNCHANGED <<registry, sessions, made, runs, child, reaper, failures, clients, toggles>>

Each(c, x) ==
  /\ At(c, "each") /\ x \in loop[c].snap
  /\ \E ended \in Detects(loop[c].svc, x[2]) :
       /\ sent' = IF ended THEN sent \union {x[2]} ELSE sent
       /\ loop' = [loop EXCEPT ![c].snap = @ \ {x},
                               ![c].closed = IF ended THEN @ \union {x[1]} ELSE @]
  /\ UNCHANGED <<registry, sessions, made, runs, child, reaper, failures, clients, toggles>>

EndRead == [pc |-> "top", persistent |-> FALSE, svc |-> 0, snap |-> {}, closed |-> {}, clone |-> None]

Clone(c) ==
  /\ At(c, "each") /\ loop[c].snap = {}
  /\ loop' = [loop EXCEPT ![c] =
       IF loop[c].closed = {} THEN EndRead
       ELSE [@ EXCEPT !.pc = "clean", !.clone = sessions[loop[c].svc]]]
  /\ UNCHANGED <<registry, sessions, shells, clients, toggles>>

(* A terminal that was seen to have ended, by its id; the answer says so. *)
CleanOne(c, id, remove) ==
  LET v == loop[c].svc n == loop[c].clone[id]
  IN  /\ At(c, "clean") /\ id \in loop[c].closed
      /\ IF n = 0 THEN UNCHANGED <<sessions, child, reaper>>
         ELSE /\ Reap(n)
              /\ sessions' = IF remove THEN [sessions EXCEPT ![v][id] = 0] ELSE sessions
      /\ told' = IF conn[c] = "in" THEN [told EXCEPT ![c] = @ \union {id}] ELSE told
      /\ opened' = IF conn[c] = "in" THEN [opened EXCEPT ![c][id] = 0] ELSE opened
      /\ loop' = [loop EXCEPT ![c] =
           IF loop[c].closed = {id} THEN EndRead
           ELSE [@ EXCEPT !.closed = @ \ {id}, !.clone[id] = 0]]
      /\ UNCHANGED <<registry, made, runs, sent, failures, conn, act, toggles>>

Clean(c, id) ==
  CleanOne(c, id, ~loop[c].persistent \/ loop[c].clone[id] \in sent)

(* The end of run: what the service is, and then its removal by its id. *)
Exit(c) ==
  /\ At(c, "exit")
  /\ Go(c, IF reg # 0 /\ ~persistent[reg] THEN "remove" ELSE "done")
  /\ UNCHANGED <<registry, sessions, shells, clients, toggles>>

(* remove_service, with the registry locked: every session is stopped, its *)
(* child killed, though that may fail, and left to the reaper.             *)
Removed ==
  /\ reg' = 0
  /\ LET held == IF reg = 0 THEN {} ELSE In(reg) \intersect child IN
     /\ child' = child \ held
     /\ reaper' = reaper \union held
     /\ \/ runs' = runs \ held /\ UNCHANGED unkilled
        \/ \E n \in held \intersect runs :
             /\ More
             /\ runs' = runs \ (held \ {n}) /\ unkilled' = unkilled \union {n}
  /\ UNCHANGED <<services, persistent, sync, idle, sessions, made, sent, deaf, clients, toggles>>

Remove(c) ==
  /\ At(c, "remove")
  /\ Go(c, "done")
  /\ Removed
  /\ UNCHANGED doomed

----------------------------------------------------------------------------
(* Time passes with nobody asking anything of the service. *)
TimePasses ==
  /\ reg # 0 /\ ~idle[reg]
  /\ idle' = [idle EXCEPT ![reg] = TRUE]
  /\ UNCHANGED <<reg, services, persistent, sync, doomed, sessions, shells, clients, loop, toggles>>

(* cleanup_inactive_services looks at the services, and then removes. *)
CleanupLooks ==
  /\ reg # 0 /\ ~doomed /\ idle[reg]
  /\ ~persistent[reg] \/ In(reg) = {}
  /\ doomed' = TRUE
  /\ UNCHANGED <<reg, services, persistent, sync, idle, sessions, shells, clients, loop, toggles>>

CleanupRemoves ==
  /\ doomed
  /\ doomed' = FALSE
  /\ Removed
  /\ UNCHANGED loop

(* check_zombie_terminals; a child killed or left by its shell ends. *)
Reaped(n) ==
  /\ n \in reaper /\ Dead(n)
  /\ reaper' = reaper \ {n}
  /\ UNCHANGED <<registry, sessions, made, runs, child, sent, failures, clients, loop, toggles>>

----------------------------------------------------------------------------
Loop(c) ==
  \/ Enter(c) \/ Top(c) \/ Snapshot(c) \/ Clone(c) \/ Exit(c) \/ Remove(c)
  \/ \E x \in loop[c].snap : Each(c, x)
  \/ \E id \in Ids : Clean(c, id)

Answer(c) == Open(c) \/ OpenFails(c) \/ Close(c)

Request(c) ==
  \/ \E p \in Persistence : Connect(c, p) \/ SetPersistent(c, p)
  \/ Disconnect(c)
  \/ \E id \in Ids, op \in {"open", "close"} : LookUp(c, op, id)

Cleanup == CleanupLooks \/ CleanupRemoves \/ \E n \in Sessions : Reaped(n)

Next ==
  \/ \E c \in Conns : Loop(c) \/ Answer(c) \/ Request(c)
  \/ \E n \in Sessions : ShellExits(n) \/ ReaderFails(n)
  \/ TimePasses \/ Cleanup

Spec == Init /\ [][Next]_vars

----------------------------------------------------------------------------
(* The loop's cleanup takes a terminal out of its service only if that     *)
(* terminal's shell or its reader thread has ended (read_outputs).  It     *)
(* goes by the id, so this rests on the client's counting its ids up: an   *)
(* id used again between the look and the cleanup would be another's.      *)
OnlyDeadRemoved ==
  \A c \in Conns, id \in Ids : Clean(c, id) =>
    \A v \in Services : In(v) \ {sessions'[v][i] : i \in Ids} \subseteq Sessions \ (runs \ deaf)

(* A shell whose child was handed to the reaper, which only waits and      *)
(* never kills, has ended or was killed (add_to_reaper's callers), unless  *)
(* killing it failed or its reader thread ended before it.                 *)
ReaperHasDead == reaper \intersect runs \subseteq deaf \union unkilled

(* A client whose terminal's shell has ended and who does not know yet.    *)
Unaware ==
  \E c \in Conns, id \in Ids :
    conn[c] = "in" /\ reg # 0 /\ opened[c][id] # 0 /\ Dead(opened[c][id]) /\ id \notin told[c]

(* A service nobody keeps: the connections have left, it is not persistent. *)
LeftBehind == reg # 0 /\ ~persistent[reg] /\ \A c \in Conns : conn[c] # "in"
=============================================================================
