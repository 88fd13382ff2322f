------------------------------ MODULE MCDesktop ------------------------------
(***************************************************************************)
(* What a controlled desktop shares among its connections: the privacy     *)
(* mode of PrivacyMode, turned on in place by three connections, by a      *)
(* thread that may be given up (the Amyuni driver) or on macOS; the        *)
(* elevated helper of PortableLife; and the cursor service of              *)
(* CursorShapes, where handles are filed and on macOS, where they are not. *)
(*                                                                         *)
(* A behaviour is of one scene, chosen at first; the other parts rest.     *)
(***************************************************************************)
EXTENDS Naturals, TLC

CONSTANTS
  Conns, Impls, Amyuni, NoConn,             \* of PrivacyMode, turned on in place
  Watchers, Handles, Looks, ShapeOf, HandlesMax, ShapesMax, FilesHandles,
  MaxBuilt                                  \* of CursorShapes

VARIABLES
  part,
  impl, owner, stuck, lock, thread, pc, perm, told,
  otherImpl, otherOwner, otherStuck, otherLock, otherThread, otherPc, otherPerm, otherTold,
  running, starting, startTok, shm, shmTok, tok, callPc, helper, acc, helperTask, nack,
  pings, wd,
  platform, tickPc, msg, serving, hcursor, shown, filed, kept, built, mayReset,
  subs, newSubs, sent, shows

inPlace == <<impl, owner, stuck, lock, thread, pc, perm, told>>
other ==
  <<otherImpl, otherOwner, otherStuck, otherLock, otherThread, otherPc, otherPerm, otherTold>>
portable ==
  <<running, starting, startTok, shm, shmTok, tok, callPc, helper, acc, helperTask, nack,
    pings, wd>>
cursor ==
  <<platform, tickPc, msg, serving, hcursor, shown, filed, kept, built, mayReset,
    subs, newSubs, sent, shows>>
desktop == <<part, inPlace, other, portable, cursor>>

(* Turned on in place. *)
Privacy == INSTANCE PrivacyMode

(* Turned on by a thread; and on macOS. *)
Async == INSTANCE PrivacyMode WITH
  Conns <- {1, 2}, Impls <- {"virtual"}, Amyuni <- TRUE, NoConn <- 0,
  impl <- otherImpl, owner <- otherOwner, stuck <- otherStuck, lock <- otherLock,
  thread <- otherThread, pc <- otherPc, perm <- otherPerm, told <- otherTold

Mac == INSTANCE PrivacyMode WITH
  Conns <- {1, 2}, Impls <- {"mac"}, Amyuni <- FALSE, NoConn <- 0,
  impl <- otherImpl, owner <- otherOwner, stuck <- otherStuck, lock <- otherLock,
  thread <- otherThread, pc <- otherPc, perm <- otherPerm, told <- otherTold

(* One connection asks for the helper, twice. *)
Helper == INSTANCE PortableLife WITH
  Callers <- {1}, MaxStarts <- 2, MaxNack <- 1,
  pc <- callPc, task <- helperTask, wire <- pings

(* Handles that are filed, and handles that are not. *)
Files == INSTANCE CursorShapes WITH
  Conns <- Watchers, Shapes <- Looks, pc <- tickPc, told <- shows

Seeds == INSTANCE CursorShapes WITH
  Conns <- Watchers, Shapes <- Looks, FilesHandles <- FALSE, pc <- tickPc, told <- shows

(* Two handles of one shape, and a third. *)
TwoAlike == ("h1" :> "arrow") @@ ("h2" :> "arrow") @@ ("h3" :> "beam") @@ ("h4" :> "hand")

ASSUME PrivacyFits == Privacy!PrivacyAssumption
ASSUME CursorFits == Files!CursorAssumption

DesktopInit ==
  /\ part \in {"in place", "async", "mac", "helper", "files", "seeds"}
  /\ Privacy!Init /\ (part # "in place" => impl = "window")
  /\ IF part = "mac" THEN Mac!Init ELSE Async!Init
  /\ Helper!Init
  /\ Files!Init

DesktopNext ==
  \/ part = "in place" /\ Privacy!Next /\ UNCHANGED <<part, other, portable, cursor>>
  \/ part = "async" /\ Async!Next /\ UNCHANGED <<part, inPlace, portable, cursor>>
  \/ part = "mac" /\ Mac!Next /\ UNCHANGED <<part, inPlace, portable, cursor>>
  \/ part = "helper" /\ Helper!Next /\ UNCHANGED <<part, inPlace, other, cursor>>
  \/ part = "files" /\ Files!Next /\ UNCHANGED <<part, inPlace, other, portable>>
  \/ part = "seeds" /\ Seeds!Next /\ UNCHANGED <<part, inPlace, other, portable>>

(* Connections and threads run, and a mutex that is free again and again is
   given in the end to each of those who wait for it.                      *)
PrivacyFairness ==
  \A c \in {1, 2} :
    /\ SF_other(\/ part = "async" /\ Async!ConnStep(c)
                \/ part = "mac" /\ Mac!ConnStep(c))
    /\ SF_other(part = "async" /\ \E w \in {"live", "late"} : Async!ThreadLocks(c, w))
    /\ WF_other(part = "async" /\ \E w \in {"live", "late"} : Async!ThreadDone(c, w))

(* Threads and tasks that can run do; nothing makes the helper answer or exit
   except that one whose task has ended finds its stream closed.           *)
HelperFairness ==
  LET on == part = "helper" IN
  /\ WF_portable(on /\ Helper!StartStep(1))
  /\ WF_portable(on /\ Helper!AcceptStep)
  /\ \A l \in 1..2 :
       /\ WF_portable(on /\ Helper!Watchdog(l)) /\ WF_portable(on /\ Helper!HelperStep(l))
       /\ WF_portable(on /\ Helper!HelperCut(l)) /\ WF_portable(on /\ Helper!TaskLocks(l))
       /\ WF_portable(on /\ Helper!TaskStep(l))

DesktopSpec == DesktopInit /\ [][DesktopNext]_desktop /\ PrivacyFairness /\ HelperFairness

-----------------------------------------------------------------------------
(* Whose the privacy mode is, is someone who has the permission; and he is
   there and was not told that it failed, unless turning it off for him has
   failed: where it is turned on in place, whatever the other connections do
   between the looks that each of them takes at it.                        *)
OwnerProper == Privacy!OwnerProper

(* The caches of the cursor service hang together, through ceilings, failed
   captures and subscribers that come and go: the shape shown can be asked for
   (CURSOR_SHAPES) whenever the tick is not under way, a handle filed brings a
   message that is kept, and neither cache outgrows its ceiling.           *)
CursorKept == Files!CursorKept

(* Whoever asks for the privacy mode gets an answer, whatever the others do
   and even when the thread that turns it on was given up; and an owner who is
   gone (turned on for him too late, or not turned off) does not make it refuse
   others for ever, unless turning it off fails them again and again.  On macOS
   the owner is the one it may be as well.                                 *)
PrivacySettles ==
  /\ \A c \in {1, 2} : []<>(~Async!Asking(c))
  /\ \/ []<>(part = "async" => otherOwner = 0 \/ otherPc[otherOwner] # "closed")
     \/ <>[](~Async!DeadOwnerRefuses)
     \/ []<><<\E c \in {1, 2} : Async!UndoAfterError(c) /\ otherOwner' # 0>>_other
  /\ [](/\ part = "mac" => Mac!TypeOK /\ Mac!OwnerProper
        /\ part = "async" => Async!TypeOK)

(* The elevated helper is followed: STARTING does not stay set whatever the
   helper does, crashes or never gets to, RUNNING does not outlive every
   helper and is never set while no task serves one, and the token that would
   be accepted is the one of the memory that is held.                      *)
HelperFollowed ==
  /\ [](part = "helper" =>
          Helper!TypeOK /\ Helper!RunningIsServed /\ Helper!TokenOfMemory)
  /\ []<>(~starting)
  /\ []<>(running => \E l \in 1..2 : helper[l] = "loop")
=============================================================================
