---------------------------- MODULE CursorShapes ----------------------------
(***************************************************************************)
(* The cursor service of the controlled side (input_service.rs on the      *)
(* service loop of service.rs).  Every tick asks the platform which cursor *)
(* is shown; a handle not seen before is captured and named by its         *)
(* content, so that a shape is one message however many handles name it.   *)
(* Three caches hang together: the handles filed (cached_cursor_data), the *)
(* shapes kept for controllers that ask again (CURSOR_SHAPES) and, per     *)
(* subscription, the shapes already sent.  Handles and shapes have         *)
(* ceilings, at which both start over.  Subscribers come and go between    *)
(* any two steps; a message is a shape and the number it was compressed    *)
(* under, which tells two messages of one shape apart (Arc::ptr_eq).       *)
(***************************************************************************)
EXTENDS Naturals, FiniteSets

CONSTANTS
    Conns,       \* connections that subscribe
    Handles,     \* handles the platform names cursors by
    Shapes,      \* the shapes behind them
    ShapeOf,     \* handle -> its shape
    HandlesMax,  \* CURSOR_HANDLES_MAX
    ShapesMax,   \* CURSOR_SHAPES_BYTES_MAX, in shapes of one size
    FilesHandles,\* FALSE on macOS, whose seeds are never filed
    MaxBuilt     \* bound: messages compressed in a behaviour

Hidden == "hidden"
Nothing == [s |-> Hidden, n |-> 0]   \* the default message, no shape
Messages == [s : Shapes, n : 1..MaxBuilt]

\* The ceiling holds the shape being sent and one more.
CursorAssumption ==
    /\ ShapeOf \in [Handles -> Shapes] /\ Hidden \notin Handles
    /\ HandlesMax \in Nat \ {0} /\ ShapesMax \in Nat \ {0, 1}
    /\ FilesHandles \in BOOLEAN /\ MaxBuilt \in Nat

VARIABLES
    platform,  \* the handle the platform shows, or Hidden
    pc,        \* where the service thread is in its tick
    msg,       \* the message the tick is about
    serving,   \* the handle the tick is about
    hcursor,   \* StateCursor.hcursor
    shown,     \* StateCursor.cursor_data
    filed,     \* StateCursor.cached_cursor_data: <<handle, message>>
    kept,      \* CURSOR_SHAPES
    built,     \* messages compressed so far
    mayReset,  \* may_reset of the service loop
    subs,      \* subscribes
    newSubs,   \* new_subscribes
    sent,      \* connection -> shapes its subscription has sent
    told       \* connection -> the shape it was last told to show

vars == <<platform, pc, msg, serving, hcursor, shown, filed, kept, built, mayReset,
          subs, newSubs, sent, told>>

state == <<hcursor, shown, filed>>
service == <<subs, newSubs, sent, told>>

Init ==
    /\ platform = Hidden /\ pc = "idle"
    /\ msg = Nothing /\ serving = Hidden
    /\ hcursor = Hidden /\ shown = Nothing /\ filed = {}
    /\ kept = {} /\ built = 0 /\ mayReset = FALSE
    /\ subs = {} /\ newSubs = {}
    /\ sent = [c \in Conns |-> {}] /\ told = [c \in Conns |-> Hidden]

\* The platform shows another cursor, or none.
PlatformShows(h) ==
    /\ h # platform
    /\ platform' = h
    /\ UNCHANGED <<pc, msg, serving, state, kept, built, mayReset, service>>

-----------------------------------------------------------------------------
(* Subscribers                                                             *)

\* A subscription starts with nothing sent.
on_subscribe(c) ==
    /\ c \notin subs
    /\ newSubs' = newSubs \cup {c}
    /\ sent' = [sent EXCEPT ![c] = {}]
    /\ told' = [told EXCEPT ![c] = Hidden]
    /\ UNCHANGED <<platform, pc, msg, serving, state, kept, built, mayReset, subs>>

on_unsubscribe(c) ==
    /\ c \in subs \cup newSubs
    /\ subs' = subs \ {c}
    /\ newSubs' = IF c \in subs THEN newSubs ELSE newSubs \ {c}
    /\ UNCHANGED <<platform, pc, msg, serving, state, kept, built, mayReset, sent, told>>

\* MouseCursorSub::send: the data once, the id from then on.
Send(m, to) ==
    /\ told' = [c \in Conns |-> IF c \in to THEN m.s ELSE told[c]]
    /\ sent' = [c \in Conns |-> IF c \in to /\ m # Nothing THEN sent[c] \cup {m.s} ELSE sent[c]]

-----------------------------------------------------------------------------
(* The service thread                                                      *)

\* cursor_data_message: the message kept for a shape
cursor_data_message(s) == {m \in kept : m.s = s}

\* No subscriber left: the state starts over and the shapes with it.
Reset ==
    /\ pc = "idle" /\ subs \cup newSubs = {} /\ mayReset
    /\ mayReset' = FALSE
    /\ hcursor' = Hidden /\ shown' = Nothing /\ filed' = {}
    /\ kept' = {}
    /\ UNCHANGED <<platform, pc, msg, serving, built, service>>

\* The tick: no cursor, or the one already shown, goes on to the snapshot; a
\* handle filed brings its message; any other is captured.
Tick ==
    /\ pc = "idle" /\ subs \cup newSubs # {}
    /\ mayReset' = TRUE
    /\ serving' = platform
    /\ \/ /\ platform \in {Hidden, hcursor}
          /\ pc' = "snapshot"
          /\ UNCHANGED msg
       \/ /\ platform \notin {Hidden, hcursor}
          /\ \/ \E f \in filed : f[1] = platform /\ msg' = f[2] /\ pc' = "send"
             \/ /\ \A f \in filed : f[1] # platform
                /\ pc' = "capture"
                /\ UNCHANGED msg
    /\ UNCHANGED <<platform, state, kept, built, service>>

\* get_cursor_data fails: the tick is over, the snapshot is not reached.
CaptureFails ==
    /\ pc = "capture"
    /\ pc' = "idle"
    /\ UNCHANGED <<platform, msg, serving, state, kept, built, mayReset, service>>

\* cursor_shape_message: a shape kept is reused, another is compressed and kept.
cursor_shape_message ==
    LET s == ShapeOf[serving] IN
    /\ pc = "capture"
    /\ \/ /\ cursor_data_message(s) # {}
          /\ msg' \in cursor_data_message(s)
          /\ UNCHANGED <<kept, built>>
       \/ /\ cursor_data_message(s) = {} /\ built < MaxBuilt
          /\ msg' = [s |-> s, n |-> built + 1]
          /\ built' = built + 1
          /\ kept' = kept \cup {[s |-> s, n |-> built + 1]}
    /\ pc' = "limit"
    /\ UNCHANGED <<platform, serving, state, mayReset, service>>

\* limit_cursor_handles: at either ceiling both caches are cleared ...
limit_cursor_handles ==
    /\ pc = "limit"
    /\ IF Cardinality(filed) >= HandlesMax \/ Cardinality(kept) >= ShapesMax
         THEN pc' = "keep" /\ filed' = {} /\ kept' = {}
         ELSE pc' = "file" /\ UNCHANGED <<filed, kept>>
    /\ UNCHANGED <<platform, msg, serving, hcursor, shown, built, mayReset, service>>

\* Mutant: the shape being sent is not kept past the clear.
KeepNothing ==
    /\ pc = "keep"
    /\ pc' = "file"
    /\ UNCHANGED <<platform, msg, serving, state, kept, built, mayReset, service>>

\* ... and the shape being sent is kept again, under a lock of its own.
shared_cursor_shape ==
    /\ pc = "keep"
    /\ kept' = kept \cup {msg}
    /\ pc' = "file"
    /\ UNCHANGED <<platform, msg, serving, state, built, mayReset, service>>

FileHandle ==
    /\ pc = "file"
    /\ filed' = IF FilesHandles THEN filed \cup {<<serving, msg>>} ELSE filed
    /\ pc' = "send"
    /\ UNCHANGED <<platform, msg, serving, hcursor, shown, kept, built, mayReset, service>>

\* A shape other than the one shown goes to every subscriber.
SendShape ==
    /\ pc = "send"
    /\ hcursor' = serving
    /\ shown' = msg
    /\ IF msg # shown THEN Send(msg, subs) ELSE UNCHANGED <<sent, told>>
    /\ pc' = "snapshot"
    /\ UNCHANGED <<platform, msg, serving, filed, kept, built, mayReset, subs, newSubs>>

\* New subscribers, if any, get the shape shown ...
Snapshot ==
    /\ pc = "snapshot"
    /\ IF newSubs # {} THEN Send(shown, newSubs) /\ pc' = "swap"
                       ELSE pc' = "idle" /\ UNCHANGED <<sent, told>>
    /\ UNCHANGED <<platform, msg, serving, state, kept, built, mayReset, subs, newSubs>>

\* ... and all that are there when the swap is dropped become subscribers.
swap_new_subscribes ==
    /\ pc = "swap"
    /\ subs' = subs \cup newSubs
    /\ newSubs' = {}
    /\ pc' = "idle"
    /\ UNCHANGED <<platform, msg, serving, state, kept, built, mayReset, sent, told>>

Service ==
    \/ Reset \/ Tick \/ CaptureFails \/ cursor_shape_message \/ limit_cursor_handles
    \/ shared_cursor_shape \/ FileHandle \/ SendShape \/ Snapshot \/ swap_new_subscribes

Next ==
    \/ \E h \in Handles \cup {Hidden} : PlatformShows(h)
    \/ \E c \in Conns : on_subscribe(c) \/ on_unsubscribe(c)
    \/ Service

Spec == Init /\ [][Next]_vars

-----------------------------------------------------------------------------
(* Properties                                                              *)

TypeOK ==
    /\ platform \in Handles \cup {Hidden} /\ serving \in Handles \cup {Hidden}
    /\ hcursor \in Handles \cup {Hidden}
    /\ pc \in {"idle", "capture", "limit", "keep", "file", "send", "snapshot", "swap"}
    /\ msg \in Messages \cup {Nothing} /\ shown \in Messages \cup {Nothing}
    /\ filed \subseteq Handles \X Messages /\ kept \subseteq Messages
    /\ built \in 0..MaxBuilt /\ mayReset \in BOOLEAN
    /\ subs \subseteq Conns /\ newSubs \subseteq Conns
    /\ sent \in [Conns -> SUBSET Shapes] /\ told \in [Conns -> Shapes \cup {Hidden}]

\* Between the clear and the re-keep of one tick, and until the tick has sent
\* the shape it kept, the shape shown before may be gone; at every other
\* moment what a subscriber was told last by the service can be asked for.
Settled == pc \in {"idle", "snapshot", "swap"}

ShownIsKept == Settled /\ shown # Nothing => shown \in kept

\* The handles and the shapes start over together: a handle filed always
\* brings a message that is kept, and a shape is one message, so a handle
\* shown again after a clear is never sent under a shape nobody can ask for.
FiledIsKept ==
    /\ pc # "keep" => \A f \in filed : f[2] \in kept /\ f[2].s = ShapeOf[f[1]]
    /\ \A m, n \in kept : m.s = n.s => m = n

\* Neither cache outgrows its ceiling, whatever handles the platform mints.
CachesBounded == Cardinality(filed) <= HandlesMax /\ Cardinality(kept) <= ShapesMax

\* The caches hang together.
CursorKept == TypeOK /\ ShownIsKept /\ FiledIsKept /\ CachesBounded
=============================================================================
