--------------------------- MODULE WebRtcSessions ---------------------------
(***************************************************************************)
(* The process-wide cache of WebRTC peer connections and the hand-off of a *)
(* stream to its caller: libs/hbb_common/src/webrtc.rs.                    *)
(*                                                                         *)
(* WebRTCStream::new runs new_inner as a task of its own and awaits it; the*)
(* caller may be cancelled while it awaits, and then the finished task     *)
(* drops its result, a NewStreamHandoff.  Two callers with one offer share *)
(* a peer connection through SESSIONS, so what one of them abandons may be *)
(* what the other is about to use: claims are counted in HandoffState.     *)
(*                                                                         *)
(* One setup task builds at most one peer connection, which is therefore   *)
(* named by its caller.  Every step below is one atomic operation, or one  *)
(* section under the SESSIONS lock; the awaits are between the steps.      *)
(***************************************************************************)
EXTENDS Naturals, FiniteSets

CONSTANTS Callers,    \* the callers of WebRTCStream::new
          Keys,       \* cache keys: an offer's fingerprint and the role
          Key,        \* Key[c]: the cache key of c's offer
          Policies,   \* the values of force_relay among the callers
          Lossy,      \* the connections whose link may go down
          Nobody      \* no entry, no stream

CallersAssumption == IsFiniteSet(Callers)
KeyAssumption == Key \in [Callers -> Keys]
PoliciesAssumption == Policies \subseteq BOOLEAN
LossyAssumption == Lossy \subseteq Callers
NobodyAssumption == Nobody \notin Callers

VARIABLES
    task,       \* where the setup of each caller has got to
    relay,      \* force_relay of the caller, relay_only of its connection
    got,        \* the connection the hand-off of c is about
    pc,         \* the peer connection that c's setup built
    lost,       \* disconnected: ICE has stopped hearing from the peer
    notified,   \* state_notify holds Closed
    handler,    \* the connection-state handler has this left to do
    rx,         \* local_ice_rx is still there to be taken
    pending,    \* HandoffState.pending
    adopted,    \* HandoffState.adopted
    closing,    \* HandoffState.closing
    sessions    \* SESSIONS

handoff == <<pending, adopted, closing>>
peer == <<pc, lost, notified, handler, rx>>
vars == <<task, relay, got, peer, handoff, sessions>>

TypeOK ==
    /\ task \in [Callers -> {"lookup", "build", "insert", "handoff",
                             "release", "adopted", "serving", "dropped",
                             "abandon", "close", "done"}]
    /\ relay \in [Callers -> BOOLEAN]
    /\ got \in [Callers -> Callers \cup {Nobody}]
    /\ pc \in [Callers -> {"none", "live", "failed", "closed"}]
    /\ lost \in [Callers -> BOOLEAN]
    /\ notified \in [Callers -> BOOLEAN]
    /\ handler \in [Callers -> {"idle", "notify", "evict"}]
    /\ rx \in [Callers -> BOOLEAN]
    /\ pending \in [Callers -> 0..Cardinality(Callers)]
    /\ adopted \in [Callers -> BOOLEAN]
    /\ closing \in [Callers -> BOOLEAN]
    /\ sessions \in [Keys -> Callers \cup {Nobody}]

Init ==
    /\ task = [c \in Callers |-> "lookup"]
    /\ relay \in [Callers -> Policies]
    /\ got = [c \in Callers |-> Nobody]
    /\ pc = [c \in Callers |-> "none"]
    /\ lost = [c \in Callers |-> FALSE]
    /\ notified = [c \in Callers |-> FALSE]
    /\ handler = [c \in Callers |-> "idle"]
    /\ rx = [c \in Callers |-> TRUE]
    /\ pending = [c \in Callers |-> 0]
    /\ adopted = [c \in Callers |-> FALSE]
    /\ closing = [c \in Callers |-> FALSE]
    /\ sessions = [k \in Keys |-> Nobody]

Goto(c, step) == task' = [task EXCEPT ![c] = step]

-----------------------------------------------------------------------------
(* The setup task, new_inner.                                              *)

\* An entry was built for the first caller: its ICE policy may differ, and it
\* may be dead and not evicted yet.
IsReusableFor(p, forceRelay) ==
    /\ relay[p] = forceRelay
    /\ ~closing[p]
    /\ ~lost[p]
    /\ ~notified[p]

Reusable(c) ==
    /\ sessions[Key[c]] # Nobody
    /\ IsReusableFor(sessions[Key[c]], relay[c])

\* Under the lock: the claim is counted before anyone else can look.
Claim(c, p) ==
    /\ pending' = [pending EXCEPT ![p] = @ + 1]
    /\ got' = [got EXCEPT ![c] = p]
    /\ Goto(c, "handoff")

Lookup(c) ==
    /\ task[c] = "lookup"
    /\ IF Reusable(c)
         THEN Claim(c, sessions[Key[c]])
         ELSE Goto(c, "build") /\ UNCHANGED <<pending, got>>
    /\ UNCHANGED <<relay, peer, adopted, closing, sessions>>

Build(c) ==
    /\ task[c] = "build"
    /\ pc' = [pc EXCEPT ![c] = "live"]
    /\ Goto(c, "insert")
    /\ UNCHANGED <<relay, got, lost, notified, handler, rx, handoff, sessions>>

\* The offer or answer cannot be made: the connection is closed right here.
BuildFails(c) ==
    /\ task[c] = "build"
    /\ pc' = [pc EXCEPT ![c] = "closed"]
    /\ handler' = [handler EXCEPT ![c] = "notify"]
    /\ Goto(c, "done")
    /\ UNCHANGED <<relay, got, lost, notified, rx, handoff, sessions>>

\* RTCPeerConnection::close latches is_closed; the state handler runs then.
ClosePc(p) ==
    /\ pc' = [pc EXCEPT ![p] = "closed"]
    /\ handler' = [handler EXCEPT ![p] = IF pc[p] = "closed" THEN @ ELSE "notify"]

\* A concurrent new has cached an equivalent stream: that one is handed out
\* and the connection just built is closed, off the lock.
InsertLoses(c) ==
    /\ Reusable(c)
    /\ Claim(c, sessions[Key[c]])
    /\ ClosePc(c)
    /\ UNCHANGED sessions

InsertWins(c) ==
    /\ ~Reusable(c)
    /\ Claim(c, c)
    /\ sessions' = [sessions EXCEPT ![Key[c]] = c]
    /\ UNCHANGED <<pc, handler>>

Insert(c) ==
    /\ task[c] = "insert"
    /\ InsertLoses(c) \/ InsertWins(c)
    /\ UNCHANGED <<relay, lost, notified, rx, adopted, closing>>

-----------------------------------------------------------------------------
(* The hand-off: into_inner when the caller is there to take the result,   *)
(* Drop when it was cancelled before, at whichever await: until the setup  *)
(* has finished nothing looks whether the caller is still there.           *)

\* Ownership first, the claim after it.
IntoInner(c) ==
    /\ task[c] = "handoff"
    /\ adopted' = [adopted EXCEPT ![got[c]] = TRUE]
    /\ Goto(c, "release")
    /\ UNCHANGED <<relay, got, peer, pending, closing, sessions>>

Release(c) ==
    /\ task[c] = "release"
    /\ pending' = [pending EXCEPT ![got[c]] = @ - 1]
    /\ Goto(c, "adopted")
    /\ UNCHANGED <<relay, got, peer, adopted, closing, sessions>>

DropNeverLast(c) ==
    /\ task[c] = "handoff"
    /\ pending' = [pending EXCEPT ![got[c]] = @ - 1]
    /\ Goto(c, "done")
    /\ UNCHANGED <<relay, got, peer, adopted, closing, sessions>>

DropHandoff(c) ==
    /\ task[c] = "handoff"
    /\ pending' = [pending EXCEPT ![got[c]] = @ - 1]
    /\ Goto(c, IF pending[got[c]] = 1 THEN "dropped" ELSE "done")
    /\ UNCHANGED <<relay, got, peer, adopted, closing, sessions>>

DropLast(c) ==
    /\ task[c] = "dropped"
    /\ Goto(c, IF adopted[got[c]] THEN "done" ELSE "abandon")
    /\ UNCHANGED <<relay, got, peer, handoff, sessions>>

CloseUnasked(c) ==
    /\ task[c] = "abandon"
    /\ closing' = [closing EXCEPT ![got[c]] = TRUE]
    /\ Goto(c, "close")
    /\ UNCHANGED <<relay, got, peer, pending, adopted, sessions>>

\* close_if_abandoned decides again, under the lock that a hit claims under.
CloseIfAbandoned(c) ==
    /\ task[c] = "abandon"
    /\ IF pending[got[c]] # 0 \/ adopted[got[c]]
         THEN Goto(c, "done") /\ UNCHANGED closing
         ELSE /\ closing' = [closing EXCEPT ![got[c]] = TRUE]
              /\ Goto(c, "close")
    /\ UNCHANGED <<relay, got, peer, pending, adopted, sessions>>

CloseAbandoned(c) ==
    /\ task[c] = "close"
    /\ ClosePc(got[c])
    /\ Goto(c, "done")
    /\ UNCHANGED <<relay, got, lost, notified, rx, handoff, sessions>>

-----------------------------------------------------------------------------
(* The caller that has its stream, spawn_webrtc_answerer: the receiver of  *)
(* the local candidates can be taken once, and who takes it serves.        *)

Adopt(c) ==
    /\ task[c] = "adopted"
    /\ Goto(c, IF rx[got[c]] THEN "serving" ELSE "done")
    /\ rx' = [rx EXCEPT ![got[c]] = FALSE]
    /\ UNCHANGED <<relay, got, pc, lost, notified, handler, handoff, sessions>>

\* No connection in time, or the session has returned: close either way.
EndServing(c) ==
    /\ task[c] = "serving"
    /\ ClosePc(got[c])
    /\ Goto(c, "done")
    /\ UNCHANGED <<relay, got, lost, notified, rx, handoff, sessions>>

-----------------------------------------------------------------------------
(* The connection itself, and its state handler.                           *)

NoteHealth(p) ==
    /\ p \in Lossy
    /\ pc[p] = "live"
    /\ lost' = [lost EXCEPT ![p] = ~@]
    /\ UNCHANGED <<task, relay, got, pc, notified, handler, rx, handoff, sessions>>

Fail(p) ==
    /\ p \in Lossy
    /\ pc[p] = "live"
    /\ pc' = [pc EXCEPT ![p] = "failed"]
    /\ handler' = [handler EXCEPT ![p] = "notify"]
    /\ UNCHANGED <<task, relay, got, lost, notified, rx, handoff, sessions>>

Notify(p) ==
    /\ handler[p] = "notify"
    /\ notified' = [notified EXCEPT ![p] = TRUE]
    /\ handler' = [handler EXCEPT ![p] = "evict"]
    /\ UNCHANGED <<task, relay, got, pc, lost, rx, handoff, sessions>>

\* By connection, not by key: a duplicate offer shares the key with the winner.
RemoveSessionsForPeer(p) ==
    [k \in Keys |-> IF sessions[k] = p THEN Nobody ELSE sessions[k]]

Evict(p) ==
    /\ handler[p] = "evict"
    /\ sessions' = RemoveSessionsForPeer(p)
    /\ handler' = [handler EXCEPT ![p] = "idle"]
    /\ UNCHANGED <<task, relay, got, pc, lost, notified, rx, handoff>>

-----------------------------------------------------------------------------
Setup(c) == Lookup(c) \/ Build(c) \/ BuildFails(c) \/ Insert(c)

Handoff(c) ==
    \/ IntoInner(c) \/ Release(c)
    \/ DropHandoff(c) \/ DropLast(c) \/ CloseIfAbandoned(c) \/ CloseAbandoned(c)

Owner(c) == Adopt(c) \/ EndServing(c)

Handler(p) == Notify(p) \/ Evict(p)

Next ==
    \/ \E c \in Callers : Setup(c) \/ Handoff(c) \/ Owner(c)
    \/ \E p \in Callers : NoteHealth(p) \/ Fail(p) \/ Handler(p)

Spec == Init /\ [][Next]_vars

-----------------------------------------------------------------------------
(* Properties.                                                             *)

\* Callers with a claim on p, or with p in hand.
Interested(p) ==
    {c \in Callers : got[c] = p /\ task[c] \in {"handoff", "release", "adopted", "serving"}}

\* close_if_abandoned never closes a connection that some caller has claimed,
\* is adopting or is serving: once closing is committed nobody has it, and
\* nobody gets it.
AbandonedIsNobodys == \A p \in Callers : closing[p] => Interested(p) = {}

\* One caller at most runs the session of a connection: two that read one
\* data channel would take each other's messages.
OneServer ==
    \A c, d \in Callers :
        task[c] = "serving" /\ task[d] = "serving" /\ got[c] = got[d] => c = d

\* A caller that wants its traffic relayed is never handed a connection
\* built with direct candidates, whoever built it.
PolicyKept ==
    \A c \in Callers : got[c] # Nobody => relay[got[c]] = relay[c]

\* Callers with one offer share a connection and none takes it from another.
SharedSafely == TypeOK /\ AbandonedIsNobodys /\ OneServer /\ PolicyKept

\* The handler of a dead connection never takes a live one out of the cache,
\* though both answer the same offer.
EvictsOnlyTheDead ==
    \A k \in Keys : sessions[k] # Nobody /\ sessions'[k] = Nobody
                       => pc[sessions[k]] \in {"failed", "closed"}

\* Every connection that was built and lives is served by a caller.
LiveIsServed ==
    \A p \in Callers :
        pc[p] = "live" => \E c \in Callers : got[c] = p /\ task[c] = "serving"

\* No closed connection is in the cache.
CacheIsOpen == \A p \in Callers, k \in Keys : pc[p] = "closed" => sessions[k] # p

=============================================================================
