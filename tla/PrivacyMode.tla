---------------------------- MODULE PrivacyMode -----------------------------
(***************************************************************************)
(* Who owns the privacy mode: privacy_mode.rs with its implementations,    *)
(* and the connections that turn it on and off (server/connection.rs).     *)
(*                                                                         *)
(* PRIVACY_MODE is one object behind a mutex: the implementation and the   *)
(* connection it is on for.  A connection that turns it on either runs the *)
(* call itself or, with the Amyuni driver, waits at most 7.5 s for a       *)
(* thread that does; the thread it stopped waiting for goes on.  After the *)
(* call the connection takes the mutex again, once for each thing it looks *)
(* at or undoes, and others come in between.                               *)
(***************************************************************************)
EXTENDS Naturals

CONSTANTS
    Conns,      \* connections, their ids are never 0
    Impls,      \* implementations of this host: "window", "virtual", "mac"
    Amyuni,     \* the virtual displays are Amyuni's
    NoConn      \* INVALID_PRIVACY_MODE_CONN_ID

PrivacyAssumption ==
    /\ NoConn \notin Conns
    /\ Impls \subseteq {"window", "virtual", "mac"} /\ Impls # {}
    /\ Amyuni \in BOOLEAN

None == "none"

VARIABLES
    impl,     \* get_impl_key()
    owner,    \* pre_conn_id()
    lock,     \* the turn-on thread that holds the mutex: <<conn, which>>
    thread,   \* thread[c]["live"]: the one c waits for; ["late"]: a given-up one
    pc,       \* where each connection is
    perm,     \* conn.privacy_mode
    told,     \* the last answer the peer got: "on", "failed" or "off"
    stuck     \* turning off for this owner has failed; no field of the code

vars == <<impl, owner, stuck, lock, thread, pc, perm, told>>

Free == <<>>
Which == {"live", "late"}
Places == {"idle", "wait", "ok", "no", "err", "undo", "revoke", "closing", "closed"}

TypeOK ==
    /\ impl \in Impls
    /\ owner \in Conns \cup {NoConn}
    /\ stuck \in BOOLEAN /\ (stuck => owner # NoConn)
    /\ lock \in (Conns \X Which) \cup {Free}
    /\ lock # Free => thread[lock[1]][lock[2]] # None
    /\ thread \in [Conns -> [Which -> Impls \cup {None}]]
    /\ pc \in [Conns -> Places]
    /\ perm \in [Conns -> BOOLEAN]
    /\ told \in [Conns -> {"on", "failed", "off"}]

Init ==
    /\ impl \in Impls
    /\ owner = NoConn /\ stuck = FALSE
    /\ lock = Free
    /\ thread = [c \in Conns |-> [w \in Which |-> None]]
    /\ pc = [c \in Conns |-> "idle"]
    /\ perm = [c \in Conns |-> TRUE]
    /\ told = [c \in Conns |-> "off"]

-----------------------------------------------------------------------------
(* privacy_mode.rs: what a call does to the object, as a relation.         *)

check_on_conn_id(c) == owner \in {c, NoConn}
check_off_conn_id(c) == owner = NoConn \/ c = NoConn \/ owner = c

\* The end of turn_on_privacy of implementation k: it is on for c, or it failed
\* and is off again.  Ok(false) is the answer of "window" without its DLL.
TurnOn(c, k, ok) ==
    /\ ok \in {"ok", "err"} \cup (IF k = "window" THEN {"no"} ELSE {})
    /\ impl' = k
    /\ owner' = IF ok = "ok" THEN c ELSE NoConn
    /\ stuck' = FALSE

\* turn_on_privacy_sync: occupied, already on, or on after a change of the
\* implementation, which clears the old one and drops it even if that failed.
turn_on_privacy_sync(c, k, ok) ==
    \/ /\ ~check_on_conn_id(c)
       /\ ok = "err"
       /\ UNCHANGED <<impl, owner, stuck>>
    \/ /\ owner = c /\ impl = k
       /\ ok = "ok"
       /\ UNCHANGED <<impl, owner, stuck>>
    \/ /\ owner = NoConn \/ (owner = c /\ impl # k)
       /\ TurnOn(c, k, ok)

\* turn_off_privacy.  It fails with the owner kept when the input hook's thread
\* cannot be told to end (unhook, on Windows), the privacy windows are not found or
\* MacSetPrivacyMode fails.  "window" fails with its owner forgotten when the
\* windows cannot be hidden, for the broker is then stopped.
turn_off_privacy(c, ok) ==
    /\ UNCHANGED impl
    /\ \/ /\ ~check_off_conn_id(c) /\ ~ok
          /\ UNCHANGED <<owner, stuck>>
       \/ /\ check_off_conn_id(c) /\ (ok \/ impl = "window")
          /\ owner' = NoConn /\ stuck' = FALSE
       \/ /\ check_off_conn_id(c) /\ ~ok
          /\ UNCHANGED owner /\ stuck' = (owner # NoConn)

is_async_privacy_mode == impl = "virtual" /\ Amyuni

-----------------------------------------------------------------------------
(* The connections.                                                        *)

Goto(c, to) == pc' = [pc EXCEPT ![c] = to]
Tell(c, answer) == told' = [told EXCEPT ![c] = answer]

\* Connection::turn_on_privacy of a host where the call is made in place
TurnOnInPlace(c, k) ==
    /\ pc[c] = "idle" /\ perm[c] /\ lock = Free
    /\ ~is_async_privacy_mode
    /\ \E ok \in {"ok", "no", "err"} :
         turn_on_privacy_sync(c, k, ok) /\ Goto(c, ok)
    /\ UNCHANGED <<lock, thread, perm, told>>

\* turn_on_privacy_async
TurnOnAsync(c, k) ==
    /\ pc[c] = "idle" /\ perm[c] /\ lock = Free
    /\ is_async_privacy_mode
    /\ thread' = [thread EXCEPT ![c]["live"] = k]
    /\ Goto(c, "wait")
    /\ UNCHANGED <<impl, owner, stuck, lock, perm, told>>

ThreadLocks(c, w) ==
    /\ lock = Free /\ thread[c][w] # None
    /\ lock' = <<c, w>>
    /\ UNCHANGED <<impl, owner, stuck, thread, pc, perm, told>>

ThreadKeepsLock(c, w) ==
    /\ lock = <<c, w>>
    /\ \E ok \in {"ok", "no", "err"} :
         /\ turn_on_privacy_sync(c, thread[c][w], ok)
         /\ pc' = IF w = "live" THEN [pc EXCEPT ![c] = ok] ELSE pc
    /\ UNCHANGED <<lock, thread, perm, told>>

\* The thread turns it on, lets the mutex go and sends the result to the one
\* who waits, if someone does.
ThreadDone(c, w) ==
    /\ lock = <<c, w>>
    /\ \E ok \in {"ok", "no", "err"} :
         /\ turn_on_privacy_sync(c, thread[c][w], ok)
         /\ pc' = IF w = "live" THEN [pc EXCEPT ![c] = ok] ELSE pc
    /\ lock' = Free
    /\ thread' = [thread EXCEPT ![c][w] = None]
    /\ UNCHANGED <<perm, told>>

\* 7.5 s are over: only a turn-on that holds the mutex takes that long, this
\* thread's or the one it waits for.  Bound: one given-up thread per connection.
Timeout(c) ==
    /\ pc[c] = "wait" /\ thread[c]["late"] = None /\ lock # Free
    /\ thread' = [thread EXCEPT ![c] = [live |-> None, late |-> thread[c]["live"]]]
    /\ lock' = IF lock = <<c, "live">> THEN <<c, "late">> ELSE lock
    /\ Goto(c, "err")
    /\ UNCHANGED <<impl, owner, stuck, perm, told>>

\* Ok(true): check_privacy_mode_err tests a capturer for the magnifier.
AnswerOk(c) ==
    /\ pc[c] = "ok"
    /\ lock = Free
    /\ Goto(c, "idle")
    /\ \/ /\ Tell(c, "on")
          /\ UNCHANGED <<impl, owner, stuck>>
       \/ /\ impl = "window"
          /\ Tell(c, "failed")
          /\ \E ok \in BOOLEAN : turn_off_privacy(c, ok)
    /\ UNCHANGED <<lock, thread, perm>>

\* Ok(false)
AnswerNo(c) ==
    /\ pc[c] = "no"
    /\ Goto(c, "idle") /\ Tell(c, "failed")
    /\ UNCHANGED <<impl, owner, stuck, lock, thread, perm>>

\* Err: is_in_privacy_mode()
LookAfterError(c) ==
    /\ pc[c] = "err" /\ lock = Free
    /\ \/ /\ owner # NoConn
          /\ Goto(c, "undo")
          /\ UNCHANGED told
       \/ /\ owner = NoConn
          /\ Goto(c, "idle") /\ Tell(c, "failed")
    /\ UNCHANGED <<impl, owner, stuck, lock, thread, perm>>

\* ... and turn_off_privacy_to_msg(INVALID_PRIVACY_MODE_CONN_ID)
UndoAfterError(c) ==
    /\ pc[c] = "undo" /\ lock = Free
    /\ \E ok \in BOOLEAN : turn_off_privacy(NoConn, ok)
    /\ Goto(c, "idle") /\ Tell(c, "failed")
    /\ UNCHANGED <<lock, thread, perm>>

\* Connection::turn_off_privacy
TurnOff(c) ==
    /\ pc[c] = "idle" /\ lock = Free
    /\ \E ok \in BOOLEAN :
         /\ turn_off_privacy(c, ok)
         /\ told' = IF ok THEN [told EXCEPT ![c] = "off"] ELSE told
    /\ UNCHANGED <<lock, thread, pc, perm>>

\* SwitchPermission "privacy_mode": leave privacy mode first.
Revoke(c) ==
    /\ pc[c] = "idle" /\ perm[c] /\ lock = Free
    /\ IF owner = c
       THEN Goto(c, "revoke") /\ UNCHANGED perm
       ELSE perm' = [perm EXCEPT ![c] = FALSE] /\ UNCHANGED pc
    /\ UNCHANGED <<impl, owner, stuck, lock, thread, told>>

\* ... and keep the permission when that failed.
RevokeDone(c) ==
    /\ pc[c] = "revoke" /\ lock = Free
    /\ \E ok \in BOOLEAN :
         /\ turn_off_privacy(c, ok)
         /\ perm' = [perm EXCEPT ![c] = ~ok]
         /\ told' = IF ok THEN [told EXCEPT ![c] = "off"] ELSE told
    /\ Goto(c, "idle")
    /\ UNCHANGED <<lock, thread>>

Grant(c) ==
    /\ pc[c] = "idle" /\ ~perm[c]
    /\ perm' = [perm EXCEPT ![c] = TRUE]
    /\ UNCHANGED <<impl, owner, stuck, lock, thread, pc, told>>

CloseForgets(c) ==
    /\ pc[c] = "idle" /\ lock = Free
    /\ Goto(c, "closed")
    /\ UNCHANGED <<impl, owner, stuck, lock, thread, perm, told>>

\* The end of the connection: turn off what it owns, and be gone even if that failed.
Close(c) ==
    /\ pc[c] = "idle" /\ lock = Free
    /\ Goto(c, IF owner = c THEN "closing" ELSE "closed")
    /\ UNCHANGED <<impl, owner, stuck, lock, thread, perm, told>>

CloseDone(c) ==
    /\ pc[c] = "closing" /\ lock = Free
    /\ \E ok \in BOOLEAN : turn_off_privacy(c, ok)
    /\ Goto(c, "closed")
    /\ UNCHANGED <<lock, thread, perm, told>>

-----------------------------------------------------------------------------
\* Data::Close and reset_all: turn_off_privacy(0, ..)
OffForAll ==
    /\ lock = Free /\ owner # NoConn
    /\ \E ok \in BOOLEAN : turn_off_privacy(NoConn, ok)
    /\ UNCHANGED <<lock, thread, pc, perm, told>>

\* A new option value: the old object is dropped, and turned off by that if that
\* does not fail.
switch(k) ==
    /\ lock = Free /\ impl # k
    /\ impl' = k /\ owner' = NoConn /\ stuck' = FALSE
    /\ UNCHANGED <<lock, thread, pc, perm, told>>

ConnStep(c) ==
    \/ AnswerOk(c) \/ AnswerNo(c) \/ LookAfterError(c) \/ UndoAfterError(c)
    \/ RevokeDone(c) \/ CloseDone(c)

Next ==
    \/ \E c \in Conns :
         \/ \E k \in Impls : TurnOnInPlace(c, k) \/ TurnOnAsync(c, k)
         \/ \E w \in Which : ThreadLocks(c, w) \/ ThreadDone(c, w)
         \/ Timeout(c) \/ ConnStep(c)
         \/ TurnOff(c) \/ Revoke(c) \/ Grant(c) \/ Close(c)
    \/ OffForAll
    \/ \E k \in Impls : switch(k)

Spec == Init /\ [][Next]_vars

-----------------------------------------------------------------------------
\* Privacy mode is not on for a connection that is gone, unless turning it off for
\* that connection has failed.
OwnerAlive == owner # NoConn => pc[owner] # "closed" \/ stuck

\* "Keep permission state and runtime state consistent": privacy mode is on
\* only for a connection that has the permission, also when turning off fails.
PermKept == owner # NoConn => perm[owner]

\* A connection whose request failed does not own privacy mode afterwards, unless
\* turning it off has failed.
FailedMeansOff ==
    \A c \in Conns : pc[c] = "idle" /\ told[c] = "failed" => owner # c \/ stuck

\* The three together: whose the privacy mode is, is someone who may have it, and
\* is there and was not told that it failed unless turning off has failed.
OwnerProper == OwnerAlive /\ PermKept /\ FailedMeansOff

\* Someone who asked and has no answer yet.
Asking(c) == pc[c] \in {"wait", "ok", "err", "undo"}

\* Someone was refused because of an owner who is gone.
DeadOwnerRefuses ==
    owner # NoConn /\ pc[owner] = "closed" /\ \E c \in Conns : pc[c] = "undo"
=============================================================================
