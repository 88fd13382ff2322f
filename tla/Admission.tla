----------------------------- MODULE Admission -----------------------------
(***************************************************************************)
(* Connections between accept and authorization, on the controlled side:   *)
(* the registry UNAUTHORIZED_CONNS, admission to it, the eviction of its   *)
(* oldest member at the limit, the wake-up that carries the eviction to a  *)
(* connection that is in its handshake or in its loop, and the login       *)
(* deadline.                                                               *)
(*                                                                         *)
(* A member of Conns is one connection, with the id create_tcp_connection  *)
(* took for it; it arrives once.  The id is taken under another lock than  *)
(* the registry's, so the order of the registry is the order of admission  *)
(* (`since`), whatever the ids are.                                        *)
(***************************************************************************)
EXTENDS Naturals, FiniteSets, FiniteSetTheorems, WellFoundedInduction, TLAPS

CONSTANTS
  Conns,
  Addrs,
  MAX_UNAUTHORIZED_CONNS,
  MAX_UNAUTHORIZED_CONNS_PER_ADDR,
  NoConn

ASSUME AdmissionAssumption ==
  /\ MAX_UNAUTHORIZED_CONNS \in Nat \ {0}
  /\ MAX_UNAUTHORIZED_CONNS_PER_ADDR \in Nat \ {0}
  /\ NoConn \notin Conns

VARIABLES
  ip,       \* ip[c]: the address c arrives from
  phase,    \* phase[c]: where the task of c is
  conns,    \* UNAUTHORIZED_CONNS: the members,
  since,    \*   since[c]: which admission c's was,
  admitted, \*   how many there have been
  evicted,  \* evicted[c]: UnauthorizedShared.evicted
  notify,   \* notify[c]: the permit of UnauthorizedShared.notify
  watch,    \* watch[c]: where the future evicted() of c is
  late,     \* late[c]: LOGIN_GRACE has passed since c started
  telling   \* the connection admit_unauthorized has marked and is about
            \* to notify, the registry locked meanwhile

vars == <<ip, phase, conns, since, admitted, evicted, notify, watch, late, telling>>

(* The phases in which a connection costs what the registry bounds. *)
Unauthorized == {"handshake", "opening", "loop", "busy", "closing"}

Phases == Unauthorized \union {"outside", "refused", "authorized", "gone"}

(* The phases in which the eviction is raced against something else. *)
Watching == {"handshake", "loop"}

Init ==
  /\ ip \in [Conns -> Addrs]
  /\ phase = [c \in Conns |-> "outside"]
  /\ conns = {}
  /\ since = [c \in Conns |-> 0]
  /\ admitted = 0
  /\ evicted = [c \in Conns |-> FALSE]
  /\ notify = [c \in Conns |-> FALSE]
  /\ watch = [c \in Conns |-> "unpolled"]
  /\ late = [c \in Conns |-> FALSE]
  /\ telling = NoConn

----------------------------------------------------------------------------
(* admit_unauthorized, the registry locked. *)
Unlocked == telling = NoConn

Held(a) == {d \in conns : ip[d] = a}

AtShare(a) == Cardinality(Held(a)) >= MAX_UNAUTHORIZED_CONNS_PER_ADDR

AtLimit == Cardinality(conns) >= MAX_UNAUTHORIZED_CONNS

Oldest == CHOOSE d \in conns : \A e \in conns : since[d] <= since[e]

RefuseAndFree(c) ==
  /\ phase' = [phase EXCEPT ![c] = "refused"]
  /\ conns' = conns \ {Oldest}
  /\ UNCHANGED <<ip, since, admitted, watch, late>>

Refuse(c) ==
  /\ phase' = [phase EXCEPT ![c] = "refused"]
  /\ UNCHANGED <<ip, conns, since, admitted, watch, late>>

(* The address holds its share: refused, and nobody is told to go. *)
RefusedAtShare(c) ==
  /\ phase[c] = "outside" /\ Unlocked
  /\ AtShare(ip[c])
  /\ Refuse(c)
  /\ UNCHANGED <<evicted, notify, telling>>

(* At the limit: refused, and the oldest is marked, unless it already is. *)
RefusedAtLimit(c) ==
  /\ phase[c] = "outside" /\ Unlocked
  /\ ~AtShare(ip[c]) /\ AtLimit
  /\ Refuse(c)
  /\ evicted' = [evicted EXCEPT ![Oldest] = TRUE]
  /\ telling' = IF evicted[Oldest] THEN NoConn ELSE Oldest
  /\ UNCHANGED notify

TellOnlyWaiting ==
  /\ telling # NoConn
  /\ notify' = [notify EXCEPT ![telling] = watch[telling] = "waiting"]
  /\ telling' = NoConn
  /\ UNCHANGED <<ip, phase, conns, since, admitted, evicted, watch, late>>

(* notify_one: a permit that waits for the one it is for. *)
Tell ==
  /\ telling # NoConn
  /\ notify' = [notify EXCEPT ![telling] = TRUE]
  /\ telling' = NoConn
  /\ UNCHANGED <<ip, phase, conns, since, admitted, evicted, watch, late>>

Admitted(c) ==
  /\ phase[c] = "outside" /\ Unlocked
  /\ ~AtShare(ip[c]) /\ ~AtLimit
  /\ conns' = conns \union {c}
  /\ admitted' = admitted + 1
  /\ since' = [since EXCEPT ![c] = admitted + 1]
  /\ phase' = [phase EXCEPT ![c] = "handshake"]
  /\ UNCHANGED <<ip, evicted, notify, watch, late, telling>>

----------------------------------------------------------------------------
(* The future evicted(), polled by the task's select: the flag is loaded,  *)
(* then the wait begins; another thread may mark and notify in between.    *)
LoadsEvicted(c) ==
  /\ phase[c] \in Watching /\ watch[c] = "unpolled"
  /\ \/ /\ evicted[c]
        /\ phase' = [phase EXCEPT ![c] = "closing"]
        /\ UNCHANGED watch
     \/ /\ ~evicted[c]
        /\ watch' = [watch EXCEPT ![c] = "loaded"]
        /\ UNCHANGED phase
  /\ UNCHANGED <<ip, conns, since, admitted, evicted, notify, late, telling>>

StartsWaiting(c) ==
  /\ phase[c] \in Watching /\ watch[c] = "loaded"
  /\ watch' = [watch EXCEPT ![c] = "waiting"]
  /\ UNCHANGED <<ip, phase, conns, since, admitted, evicted, notify, late, telling>>

IsNotified(c) ==
  /\ phase[c] \in Watching /\ watch[c] = "waiting" /\ notify[c]
  /\ notify' = [notify EXCEPT ![c] = FALSE]
  /\ phase' = [phase EXCEPT ![c] = "closing"]
  /\ UNCHANGED <<ip, conns, since, admitted, evicted, watch, late, telling>>

(* Another branch of the select of c completes: the future is dropped.     *)
(* What it was notified of and has not seen goes back to the permit.       *)
OtherBranch(c, from, to) ==
  /\ phase[c] = from /\ watch[c] # "loaded"
  /\ phase' = [phase EXCEPT ![c] = to]
  /\ watch' = [watch EXCEPT ![c] = "unpolled"]
  /\ UNCHANGED <<ip, conns, since, admitted, evicted, notify, telling>>

----------------------------------------------------------------------------
(* create_tcp_connection: the identity handshake, and its two timeouts. *)
HandshakeOk(c) == OtherBranch(c, "handshake", "opening") /\ UNCHANGED late

HandshakeFails(c) == OtherBranch(c, "handshake", "closing") /\ UNCHANGED late

Step(c, from, to) ==
  /\ phase[c] = from
  /\ phase' = [phase EXCEPT ![c] = to]
  /\ UNCHANGED <<ip, conns, since, admitted, evicted, notify, watch, telling>>

(* Connection::start up to its loop; on_open may turn the peer down. *)
Opens(c) == (Step(c, "opening", "loop") \/ Step(c, "opening", "closing")) /\ UNCHANGED late

(* Any other arm of the loop: a message, a timer, the connection manager.  *)
(* Its handler runs to its end before the select is polled again.          *)
Turn(c) == OtherBranch(c, "loop", "busy") /\ UNCHANGED late

HandlerReturns(c) == Step(c, "busy", "loop") /\ UNCHANGED late

HandlerCloses(c) == Step(c, "busy", "closing") /\ UNCHANGED late

(* The place goes back when the guard is dropped: by authorization, *)
GivesBack(c, from, to) ==
  /\ phase[c] = from /\ Unlocked
  /\ conns' = conns \ {c}
  /\ phase' = [phase EXCEPT ![c] = to]
  /\ UNCHANGED <<ip, since, admitted, evicted, notify, watch, late, telling>>

HandlerAuthorizes(c) == GivesBack(c, "busy", "authorized")

(* or once the connection is over. *)
Drops(c) == GivesBack(c, "closing", "gone")

(* login_deadline, counted from the start however often it is created. *)
GracePasses(c) ==
  /\ phase[c] \in {"loop", "busy"} /\ ~late[c]
  /\ late' = [late EXCEPT ![c] = TRUE]
  /\ UNCHANGED <<ip, phase, conns, since, admitted, evicted, notify, watch, telling>>

Deadline(c) == late[c] /\ OtherBranch(c, "loop", "closing") /\ UNCHANGED late

----------------------------------------------------------------------------
Next ==
  \/ Tell
  \/ \E c \in Conns :
       \/ RefusedAtShare(c) \/ RefusedAtLimit(c) \/ Admitted(c)
       \/ LoadsEvicted(c) \/ StartsWaiting(c) \/ IsNotified(c)
       \/ HandshakeOk(c) \/ HandshakeFails(c) \/ Opens(c)
       \/ Turn(c) \/ HandlerReturns(c) \/ HandlerCloses(c) \/ HandlerAuthorizes(c)
       \/ GracePasses(c) \/ Deadline(c) \/ Drops(c)

Spec == Init /\ [][Next]_vars

----------------------------------------------------------------------------
TypeOK ==
  /\ ip \in [Conns -> Addrs]
  /\ phase \in [Conns -> Phases]
  /\ conns \subseteq Conns
  /\ since \in [Conns -> Nat]
  /\ admitted \in Nat
  /\ evicted \in [Conns -> BOOLEAN]
  /\ notify \in [Conns -> BOOLEAN]
  /\ watch \in [Conns -> {"unpolled", "loaded", "waiting"}]
  /\ late \in [Conns -> BOOLEAN]
  /\ telling \in Conns \union {NoConn}

(* What runs unauthorized, in whatever phase, told to go or not. *)
Running == {c \in Conns : phase[c] \in Unauthorized}

(* MAX_UNAUTHORIZED_CONNS: the connections that hold memory before they    *)
(* are authorized never number more than the limit, the one told to go     *)
(* included until it has gone; and one address never runs more than its    *)
(* share of them.                                                          *)
Bounded ==
  /\ Cardinality(Running) <= MAX_UNAUTHORIZED_CONNS
  /\ \A a \in Addrs :
       Cardinality({c \in Running : ip[c] = a}) <= MAX_UNAUTHORIZED_CONNS_PER_ADDR

(* "At most one connection is ever on its way out": whoever has been told  *)
(* to go and still holds its place was admitted before all others, so that *)
(* a burst of refused arrivals takes no second one.                        *)
OnlyOldestToldToGo ==
  \A c, d \in conns : evicted[c] /\ c # d => since[c] < since[d]
-----------------------------------------------------------------------------
(* Proofs, for any number of connections and addresses and any limits. *)

(* A connection is in the registry exactly while it runs unauthorized. *)
RegistryExact == \A c \in Conns : c \in conns <=> phase[c] \in Unauthorized

(* The registry itself keeps the bounds, which its size being a number     *)
(* makes meaningful.                                                       *)
RegistryBounded ==
  /\ IsFiniteSet(conns)
  /\ Cardinality(conns) <= MAX_UNAUTHORIZED_CONNS
  /\ \A a \in Addrs : Cardinality(Held(a)) <= MAX_UNAUTHORIZED_CONNS_PER_ADDR

(* The order of admission is a strict order of the members. *)
Ordered ==
  /\ \A c \in conns : since[c] <= admitted
  /\ \A c, d \in conns : c # d => since[c] # since[d]

(* A connection nobody has admitted has not been told to go. *)
FreshNotEvicted == \A c \in Conns : phase[c] = "outside" => ~evicted[c]

IndInv ==
  /\ TypeOK
  /\ RegistryExact
  /\ RegistryBounded
  /\ Ordered
  /\ OnlyOldestToldToGo
  /\ FreshNotEvicted

(* first() of a registry that is not empty: a member, and as old as any. *)
LEMMA OldestIsFirst ==
  ASSUME TypeOK, RegistryBounded, conns # {}
  PROVE  Oldest \in conns /\ \A e \in conns : since[Oldest] <= since[e]
<1> DEFINE S == {since[c] : c \in conns}
<1>1. S \subseteq Nat /\ S # {}
  BY DEF TypeOK
<1>2. PICK n \in S : \A m \in S : n <= m
  <2> DEFINE R == OpToRel(<, Nat)
  <2>1. IsWellFoundedOn(R, Nat)
    BY NatLessThanWellFounded
  <2>2. \A n, m \in Nat : <<m, n>> \in R <=> m < n
    BY DEF OpToRel
  <2> HIDE DEF R, S
  <2>3. PICK n \in S : \A m \in S : ~ (<<m, n>> \in R)
    BY <1>1, <2>1, WFMin
  <2>4. ASSUME NEW m \in S PROVE n <= m
    <3>1. n \in Nat /\ m \in Nat
      BY <1>1
    <3>2. ~ (m < n)
      BY <2>2, <2>3, <3>1
    <3> QED BY <3>1, <3>2
  <2> QED BY <2>4
<1>3. \E d \in conns : \A e \in conns : since[d] <= since[e]
  BY <1>2
<1> QED BY <1>3 DEF Oldest

LEMMA InitInv == Init => IndInv
PROOF
<1> SUFFICES ASSUME Init PROVE IndInv
  OBVIOUS
<1> USE AdmissionAssumption
<1>1. TypeOK
  BY DEF Init, TypeOK, Phases, Unauthorized
<1>2. RegistryExact /\ Ordered /\ OnlyOldestToldToGo /\ FreshNotEvicted
  BY DEF Init, RegistryExact, Unauthorized, Ordered, OnlyOldestToldToGo, FreshNotEvicted
<1>3. RegistryBounded
  <2>1. \A a \in Addrs : Held(a) = {}
    BY DEF Init, Held
  <2> QED BY <2>1, FS_EmptySet DEF Init, RegistryBounded
<1> QED BY <1>1, <1>2, <1>3 DEF IndInv

(* Whatever the registry becomes a part of, or gains one member that fits  *)
(* in: it keeps its bounds.                                                *)
LEMMA FewerStayBounded ==
  ASSUME IndInv, conns' \subseteq conns, ip' = ip
  PROVE  RegistryBounded'
<1>1. IsFiniteSet(conns') /\ Cardinality(conns') <= Cardinality(conns)
  BY FS_Subset DEF IndInv, RegistryBounded
<1>2. Cardinality(conns') <= MAX_UNAUTHORIZED_CONNS
  BY <1>1, FS_CardinalityType, AdmissionAssumption DEF IndInv, RegistryBounded
<1>3. ASSUME NEW a \in Addrs
      PROVE  Cardinality(Held(a)') <= MAX_UNAUTHORIZED_CONNS_PER_ADDR
  <2>1. Held(a)' \in SUBSET Held(a) /\ Held(a) \in SUBSET conns
    BY DEF Held
  <2>2. IsFiniteSet(Held(a))
    BY <2>1, FS_Subset DEF IndInv, RegistryBounded
  <2>3. IsFiniteSet(Held(a)') /\ Cardinality(Held(a)') <= Cardinality(Held(a))
    BY <2>1, <2>2, FS_Subset
  <2> QED BY <2>2, <2>3, FS_CardinalityType, AdmissionAssumption DEF IndInv, RegistryBounded
<1> QED BY <1>1, <1>2, <1>3 DEF RegistryBounded

LEMMA OneMoreStaysBounded ==
  ASSUME IndInv, NEW c \in Conns, Admitted(c)
  PROVE  RegistryBounded'
<1>1. IsFiniteSet(conns) /\ Cardinality(conns) \in Nat
  BY FS_CardinalityType DEF IndInv, RegistryBounded
<1>2. conns' = conns \cup {c} /\ ip' = ip /\ ip[c] \in Addrs
  BY DEF Admitted, IndInv, TypeOK
<1>3. IsFiniteSet(conns') /\ Cardinality(conns') <= Cardinality(conns) + 1
  BY <1>1, <1>2, FS_AddElement
<1>4. Cardinality(conns') <= MAX_UNAUTHORIZED_CONNS
  BY <1>1, <1>3, FS_CardinalityType, AdmissionAssumption DEF Admitted, AtLimit
<1>5. ASSUME NEW a \in Addrs
      PROVE  Cardinality(Held(a)') <= MAX_UNAUTHORIZED_CONNS_PER_ADDR
  <2>1. Held(a) \in SUBSET conns
    BY DEF Held
  <2>2. IsFiniteSet(Held(a)) /\ Cardinality(Held(a)) \in Nat
    BY <1>1, <2>1, FS_Subset, FS_CardinalityType
  <2>3. CASE ip[c] = a
    <3>1. Held(a)' = Held(a) \cup {c}
      BY <1>2, <2>3 DEF Held
    <3>2. Cardinality(Held(a) \cup {c}) <= Cardinality(Held(a)) + 1
      BY <2>2, FS_AddElement
    <3>3. Cardinality(Held(a) \cup {c}) \in Nat
      BY <2>2, FS_AddElement, FS_CardinalityType
    <3> QED BY <2>2, <2>3, <3>1, <3>2, <3>3, AdmissionAssumption DEF Admitted, AtShare
  <2>4. CASE ip[c] # a
    <3>1. Held(a)' = Held(a)
      BY <1>2, <2>4 DEF Held
    <3> QED BY <3>1 DEF IndInv, RegistryBounded
  <2> QED BY <2>3, <2>4
<1> QED BY <1>3, <1>4, <1>5 DEF RegistryBounded

(* Every step keeps the invariant: the steps that leave the registry and   *)
(* the marks alone, the one that marks, the one that adds, and the ones    *)
(* that give a place back.                                                 *)
LEMMA NextInv == IndInv /\ [Next]_vars => IndInv'
PROOF
<1> SUFFICES ASSUME IndInv, [Next]_vars PROVE IndInv'
  OBVIOUS
<1> USE AdmissionAssumption
<1>1. TypeOK'
  <2>1. CASE Tell
    BY <2>1 DEF Tell, IndInv, TypeOK
  <2>2. ASSUME NEW c \in Conns, RefusedAtLimit(c) PROVE TypeOK'
    <3>1. Oldest \in Conns
      <4>1. conns # {}
        BY <2>2, FS_EmptySet DEF RefusedAtLimit, AtLimit
      <4> QED BY <4>1, OldestIsFirst DEF IndInv, TypeOK
    <3> QED BY <2>2, <3>1 DEF RefusedAtLimit, Refuse, IndInv, TypeOK, Phases
  <2>3. ASSUME NEW c \in Conns, RefusedAtShare(c) PROVE TypeOK'
    BY <2>3 DEF RefusedAtShare, Refuse, IndInv, TypeOK, Phases
  <2>4. ASSUME NEW c \in Conns, Admitted(c) PROVE TypeOK'
    BY <2>4 DEF Admitted, IndInv, TypeOK, Phases, Unauthorized
  <2>5. ASSUME NEW c \in Conns, LoadsEvicted(c) \/ StartsWaiting(c) \/ IsNotified(c) PROVE TypeOK'
    BY <2>5 DEF LoadsEvicted, StartsWaiting, IsNotified, IndInv, TypeOK, Phases, Unauthorized
  <2>6. ASSUME NEW c \in Conns, HandshakeOk(c) \/ HandshakeFails(c) \/ Turn(c) \/ Deadline(c) PROVE TypeOK'
    BY <2>6 DEF HandshakeOk, HandshakeFails, Turn, Deadline, OtherBranch, IndInv, TypeOK, Phases, Unauthorized
  <2>7. ASSUME NEW c \in Conns, Opens(c) \/ HandlerReturns(c) \/ HandlerCloses(c) PROVE TypeOK'
    BY <2>7 DEF Opens, HandlerReturns, HandlerCloses, Step, IndInv, TypeOK, Phases, Unauthorized
  <2>8. ASSUME NEW c \in Conns, HandlerAuthorizes(c) \/ Drops(c) PROVE TypeOK'
    BY <2>8 DEF HandlerAuthorizes, Drops, GivesBack, IndInv, TypeOK, Phases, Unauthorized
  <2>9. ASSUME NEW c \in Conns, GracePasses(c) PROVE TypeOK'
    BY <2>9 DEF GracePasses, IndInv, TypeOK
  <2>10. CASE UNCHANGED vars
    BY <2>10 DEF vars, IndInv, TypeOK
  <2> QED BY <2>1, <2>2, <2>3, <2>4, <2>5, <2>6, <2>7, <2>8, <2>9, <2>10 DEF Next
<1> DEFINE Rest == RegistryExact /\ RegistryBounded /\ Ordered /\ OnlyOldestToldToGo /\ FreshNotEvicted
<1>2. ASSUME UNCHANGED <<ip, conns, since, admitted, evicted>>,
             NEW c \in Conns,
             NEW to \in {"opening", "loop", "busy", "closing"},
             phase[c] \in Unauthorized,
             phase' = [phase EXCEPT ![c] = to]
      PROVE  Rest'
  <2>1. RegistryBounded'
    BY <1>2, FewerStayBounded
  <2> QED BY <1>2, <2>1 DEF IndInv, TypeOK, RegistryExact, Ordered, OnlyOldestToldToGo, FreshNotEvicted, Unauthorized
<1>3. ASSUME UNCHANGED <<ip, phase, conns, since, admitted, evicted>>
      PROVE  Rest'
  <2>1. RegistryBounded'
    BY <1>3, FewerStayBounded
  <2> QED BY <1>3, <2>1 DEF IndInv, RegistryExact, Ordered, OnlyOldestToldToGo, FreshNotEvicted
<1>4. ASSUME NEW c \in Conns, RefusedAtShare(c) PROVE Rest'
  <2>1. RegistryBounded'
    BY <1>4, FewerStayBounded DEF RefusedAtShare, Refuse
  <2> QED
    BY <1>4, <2>1 DEF RefusedAtShare, Refuse, IndInv, TypeOK, RegistryExact, Ordered,
                      OnlyOldestToldToGo, FreshNotEvicted, Unauthorized
<1>5. ASSUME NEW c \in Conns, RefusedAtLimit(c) PROVE Rest'
  <2>1. RegistryBounded'
    BY <1>5, FewerStayBounded DEF RefusedAtLimit, Refuse
  <2>2. conns # {}
    BY <1>5, FS_EmptySet DEF RefusedAtLimit, AtLimit
  <2>3. Oldest \in conns /\ \A e \in conns : since[Oldest] <= since[e]
    BY <2>2, OldestIsFirst DEF IndInv
  <2>4. evicted' = [evicted EXCEPT ![Oldest] = TRUE] /\ conns' = conns /\ since' = since
        /\ phase' = [phase EXCEPT ![c] = "refused"] /\ phase[c] = "outside" /\ admitted' = admitted
    BY <1>5 DEF RefusedAtLimit, Refuse
  <2> HIDE DEF Oldest
  <2>5. OnlyOldestToldToGo'
    <3> SUFFICES ASSUME NEW d \in conns, NEW e \in conns, evicted'[d], d # e
                 PROVE  since[d] < since[e]
      BY <2>4 DEF OnlyOldestToldToGo
    <3>1. since[d] \in Nat /\ since[e] \in Nat /\ since[d] # since[e]
      BY DEF IndInv, TypeOK, Ordered
    <3>2. CASE d = Oldest
      BY <2>3, <3>1, <3>2
    <3>3. CASE d # Oldest
      <4>1. evicted[d]
        BY <2>4, <3>3 DEF IndInv, TypeOK
      <4> QED BY <4>1 DEF IndInv, OnlyOldestToldToGo
    <3> QED BY <3>2, <3>3
  <2>6. RegistryExact' /\ Ordered'
    BY <2>4 DEF IndInv, TypeOK, RegistryExact, Ordered, Unauthorized
  <2>7. FreshNotEvicted'
    <3>1. phase[Oldest] # "outside"
      BY <2>3 DEF IndInv, TypeOK, RegistryExact, Unauthorized
    <3> QED BY <2>4, <3>1 DEF IndInv, TypeOK, FreshNotEvicted
  <2> QED BY <2>1, <2>5, <2>6, <2>7
<1>6. ASSUME NEW c \in Conns, Admitted(c) PROVE Rest'
  <2>1. RegistryBounded'
    BY <1>6, OneMoreStaysBounded
  <2>2. RegistryExact' /\ FreshNotEvicted'
    BY <1>6 DEF Admitted, IndInv, TypeOK, RegistryExact, FreshNotEvicted, Unauthorized
  <2>3. c \notin conns /\ ~evicted[c]
    BY <1>6 DEF Admitted, IndInv, RegistryExact, FreshNotEvicted, Unauthorized
  <2>4. Ordered' /\ OnlyOldestToldToGo'
    BY <1>6, <2>3 DEF Admitted, IndInv, TypeOK, Ordered, OnlyOldestToldToGo
  <2> QED BY <2>1, <2>2, <2>4
<1>7. ASSUME NEW c \in Conns, HandlerAuthorizes(c) \/ Drops(c) PROVE Rest'
  <2>1. RegistryBounded'
    BY <1>7, FewerStayBounded DEF HandlerAuthorizes, Drops, GivesBack
  <2> QED
    BY <1>7, <2>1 DEF HandlerAuthorizes, Drops, GivesBack, IndInv, TypeOK, RegistryExact, Ordered,
                      OnlyOldestToldToGo, FreshNotEvicted, Unauthorized
<1>8. Rest'
  <2> HIDE DEF Rest
  <2>1. CASE UNCHANGED vars
    BY <1>3, <2>1 DEF vars
  <2>2. CASE Tell
    BY <1>3, <2>2 DEF Tell
  <2>3. ASSUME NEW c \in Conns, LoadsEvicted(c) PROVE Rest'
    BY <1>2, <1>3, <2>3 DEF LoadsEvicted, Watching, Unauthorized
  <2>4. ASSUME NEW c \in Conns, StartsWaiting(c) PROVE Rest'
    BY <1>3, <2>4 DEF StartsWaiting
  <2>5. ASSUME NEW c \in Conns, IsNotified(c) PROVE Rest'
    BY <1>2, <2>5 DEF IsNotified, Watching, Unauthorized
  <2>6. ASSUME NEW c \in Conns, HandshakeOk(c) \/ HandshakeFails(c) \/ Turn(c) \/ Deadline(c) PROVE Rest'
    BY <1>2, <2>6 DEF HandshakeOk, HandshakeFails, Turn, Deadline, OtherBranch, Unauthorized
  <2>7. ASSUME NEW c \in Conns, Opens(c) \/ HandlerReturns(c) \/ HandlerCloses(c) PROVE Rest'
    BY <1>2, <2>7 DEF Opens, HandlerReturns, HandlerCloses, Step, Unauthorized
  <2>8. ASSUME NEW c \in Conns, GracePasses(c) PROVE Rest'
    BY <1>3, <2>8 DEF GracePasses
  <2> QED BY <1>4, <1>5, <1>6, <1>7, <2>1, <2>2, <2>3, <2>4, <2>5, <2>6, <2>7, <2>8 DEF Next
<1> QED BY <1>1, <1>8 DEF IndInv

LEMMA Inductive == Spec => []IndInv
BY InitInv, NextInv, PTL DEF Spec

(* Each variable keeps its type. *)
THEOREM TypeCorrect == Spec => []TypeOK
<1>1. IndInv => TypeOK
  BY DEF IndInv
<1> QED BY <1>1, Inductive, PTL

(* admit_unauthorized keeps the unauthorized connections to its limit, and *)
(* every address to its share, for any limits and any number of arrivals.  *)
THEOREM AlwaysBounded == Spec => []Bounded
<1>1. ASSUME IndInv PROVE Bounded
  <2>1. Running = conns
    BY <1>1 DEF Running, IndInv, TypeOK, RegistryExact
  <2>2. \A a \in Addrs : {c \in Running : ip[c] = a} = Held(a)
    BY <2>1 DEF Held
  <2> QED BY <1>1, <2>1, <2>2 DEF Bounded, IndInv, RegistryBounded
<1> QED BY <1>1, Inductive, PTL

(* Only the oldest connection is ever told to go and still there: the one  *)
(* place that admit_unauthorized clears is cleared before the next is.     *)
THEOREM OneOnItsWayOut == Spec => []OnlyOldestToldToGo
<1>1. IndInv => OnlyOldestToldToGo
  BY DEF IndInv
<1> QED BY <1>1, Inductive, PTL
=============================================================================
