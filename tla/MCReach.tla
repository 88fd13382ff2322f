------------------------------ MODULE MCReach ------------------------------
(***************************************************************************)
(* Where the controlled side meets the world: Registration with a          *)
(* rendezvous server, or two of which one has given the id away, and       *)
(* Admission with two places, one to an address, and three connections     *)
(* from up to as many.  What is asked of the wake-up alone is asked in the *)
(* scene "prompt", where no timer need ever come; the deadlines are there  *)
(* in the scene "timed", with two connections.                             *)
(*                                                                         *)
(* A behaviour is of one scene, chosen at first; the other part rests.     *)
(***************************************************************************)
EXTENDS Admission

VARIABLES
  chosen,
  id, pk, keyConfirmed, hostConfirmed, sentPk, solving, needsDeploy, throttled,
  waiting, expired, net, dups, db, deployed, moves

registration ==
  <<id, pk, keyConfirmed, hostConfirmed, sentPk, solving, needsDeploy, throttled,
    waiting, expired, net, dups, db, deployed, moves>>
all == <<chosen, vars, registration>>

(* One server that has the first id, datagrams later than the timeout, and a
   configuration that is synced from root.                                 *)
One == INSTANCE Registration WITH
  Hosts <- {"a"}, MaxId <- 3, Taken <- [h \in {"a"} |-> {0}], MaxDups <- 0,
  MaxMoves <- 0, Start <- BOOLEAN, Late <- TRUE, MaySync <- TRUE, Nobody <- "nobody"

(* Two servers, one of which has given the first id away, and a datagram
   that arrives twice.                                                     *)
Two == INSTANCE Registration WITH
  Hosts <- {"a", "b"}, MaxId <- 3, Taken <- [h \in {"a", "b"} |-> IF h = "a" THEN {0} ELSE {}],
  MaxDups <- 1, MaxMoves <- 1, Start <- BOOLEAN, Late <- FALSE, MaySync <- FALSE,
  Nobody <- "nobody"

ASSUME /\ One!MaxIdAssumption /\ One!TakenAssumption /\ One!BoundsAssumption
       /\ One!StartAssumption /\ One!NobodyAssumption
       /\ Two!MaxIdAssumption /\ Two!TakenAssumption /\ Two!BoundsAssumption
       /\ Two!StartAssumption /\ Two!NobodyAssumption

Admitting == {"prompt", "timed"}
Registering == {"one server", "two servers"}

(* The addresses are interchangeable: one that is new is the least unused. *)
PartsInit ==
  /\ chosen \in Admitting \cup Registering
  /\ Init /\ \A c \in Conns : ip[c] <= c
  /\ chosen \notin Admitting => \A c \in Conns : ip[c] = 1
  /\ IF chosen = "two servers" THEN Two!Init ELSE One!Init
  /\ chosen \notin Registering => deployed

PartsNext ==
  \/ /\ chosen \in Admitting /\ Next /\ UNCHANGED <<chosen, registration>>
     /\ chosen = "timed" => phase[3] = phase'[3]
  \/ chosen = "one server" /\ One!Next /\ UNCHANGED <<chosen, vars>>
  \/ chosen = "two servers" /\ Two!Next /\ UNCHANGED <<chosen, vars>>

(* Admission: what is the program's own doing, once begun, is done: the lock's
   owner goes on, a handler returns, a task that ends drops its guard.  A
   select polls its branches from a random one on, so that a branch that is
   ready again and again is taken (strong fairness, below).  Nothing is
   assumed of the peers.  Time passes in the scene "timed" only.           *)
AdmissionFairness ==
  LET on == chosen \in Admitting
      timed == chosen = "timed"
  IN
  /\ WF_vars(on /\ Tell)
  /\ \A c \in Conns :
       /\ WF_vars(on /\ StartsWaiting(c)) /\ WF_vars(on /\ Opens(c)) /\ WF_vars(on /\ Drops(c))
       /\ WF_vars(on /\ (HandlerReturns(c) \/ HandlerCloses(c) \/ HandlerAuthorizes(c)))
       /\ WF_vars(timed /\ HandshakeFails(c)) /\ WF_vars(timed /\ GracePasses(c))

(* Registration: the loops keep ticking and time passes. *)
RegistrationFairness ==
  LET one == chosen = "one server"
      two == chosen = "two servers"
  IN
  /\ WF_registration(one /\ One!Unthrottle) /\ WF_registration(two /\ Two!Unthrottle)
  /\ WF_registration(one /\ One!Tick("a")) /\ WF_registration(one /\ One!Expire("a"))
  /\ \A h \in {"a", "b"} :
       WF_registration(two /\ Two!Tick(h)) /\ WF_registration(two /\ Two!Expire(h))

(* The network may lose datagrams, but not every request of a kind, nor
   every response, for ever.                                               *)
Arrives(n, h) ==
  \/ chosen = "one server" /\ h = "a" /\
       CASE n = 1 -> One!ServerRegistersPk(h)
         [] n = 2 -> One!ServerAnswersPeer(h)
         [] n = 3 -> One!Receive(h)
  \/ chosen = "two servers" /\
       CASE n = 1 -> Two!ServerRegistersPk(h)
         [] n = 2 -> Two!ServerAnswersPeer(h)
         [] n = 3 -> Two!Receive(h)

(* What is strongly fair: a connection's wake-up branch, whichever way it
   gets to know, its deadline, and the three kinds of datagrams.  Only one
   scene's actions can happen in a behaviour, so those of two scenes may
   share a formula.                                                        *)
StrongFairness ==
  \A c \in Conns :
    /\ SF_all(\/ chosen \in Admitting /\ (LoadsEvicted(c) \/ IsNotified(c))
                  /\ UNCHANGED <<chosen, registration>>
              \/ Arrives(c, "a") /\ UNCHANGED <<chosen, vars>>)
    /\ SF_all(\/ chosen = "timed" /\ Deadline(c) /\ UNCHANGED <<chosen, registration>>
              \/ Arrives(c, "b") /\ UNCHANGED <<chosen, vars>>)

PartsSpec ==
  /\ PartsInit /\ [][PartsNext]_all
  /\ AdmissionFairness /\ RegistrationFairness /\ StrongFairness

----------------------------------------------------------------------------
(* Told to go, a connection gives its place back, by leaving or by being
   authorized in the meantime, on the wake-up alone: no timer and no message
   of its peer is needed ("at once, not on the next timer tick").  With the
   timers (LOGIN_GRACE, the handshake's timeouts) every connection does, told
   or not and however alive it keeps itself.                               *)
PlacesComeBack ==
  []<>((\A c \in conns : ~evicted[c]) /\ (chosen = "timed" => conns = {}))

(* Once the device is deployed for good, every server ends up with the id the
   device then has, through losses, repeated and late responses, mismatches
   and the answers that one server's loop takes for another's; and while it
   is not deployed no key is sent within the interval, whether the timer, a
   request or a mismatch would send it.                                    *)
EndsRegistered ==
  /\ [](chosen = "one server" => One!TypeOK) /\ [][chosen = "one server" => One!PkThrottled]_all
  /\ <>[](chosen = "one server" /\ deployed) => <>[](chosen = "one server" => One!AllRegistered)
  /\ <>[](chosen = "two servers" /\ deployed) => <>[](chosen = "two servers" => Two!AllRegistered)
=============================================================================
