---------------------------- MODULE ClientStart -----------------------------
(***************************************************************************)
(* How the controlling side gets a connection: Client::_start,             *)
(* _start_inner and connect, src/src/client.rs.                            *)
(*                                                                         *)
(* _start makes up to two whole punch attempts at the same time.  The      *)
(* preferred one carries a WebRTC offer, a UDP socket and an IPv6 socket   *)
(* where they are to be had; the fallback carries nothing and may punch    *)
(* TCP.  Each asks the rendezvous server, races the transports that the    *)
(* answer allows, and secures what won, over a relay if it must.  The      *)
(* attempts are futures of one race: when it is decided the loser is       *)
(* dropped at whatever await it has reached.  The peer connection of the   *)
(* offer outlives its handle unless something closes it, so every one of   *)
(* those exits has to.                                                     *)
(*                                                                         *)
(* Abstracted: the addresses and NAT types, which set timeouts only; the   *)
(* ICE candidates the bridge carries; update_direct of an attempt that     *)
(* fails, which picks the wording of an error; the direct-IP peers, which  *)
(* skip all of this.  The rendezvous server answers anything or nothing.   *)
(***************************************************************************)
EXTENDS RaceStep, Naturals

CONSTANT MaxTries    \* the punch requests of one attempt: 3

TypesAssumption == Types = {"tcp", "udp", "v6", "relay", "webrtc"}
TriesAssumption == MaxTries \in Nat \ {0}

VARIABLES
    cfg,         \* force_relay, policy_relay, tcp_punch_allowed, and what
                 \* _start could make: the offerer, the UDP and v6 sockets
    at,          \* the await that each attempt has reached
    tries,       \* punch requests sent
    reply,       \* what the rendezvous server said
    race,        \* the race of the attempt's transports
    conn,        \* (conn, typ, direct) of the attempt
    pc,          \* the peer connection of the offerer
    turn,        \* ICE has nominated a TURN pair
    guard,       \* an armed OffererGuard holds the offerer
    exchanged,   \* the preferred attempt's socket is encrypted
    bridge,      \* the task that carries ICE candidates over that socket
    outer        \* the race of the attempts

offerer == <<pc, turn, guard, exchanged, bridge>>
vars == <<cfg, at, tries, reply, race, conn, offerer, outer>>

Attempts == {"preferred", "fallback"}
Places == {"off", "rendezvous", "exchange", "punch", "answer", "race",
           "relay", "secure", "pair", "again", "secure again", "done"}
Cfgs == [force : BOOLEAN, policy : BOOLEAN, tcp : BOOLEAN,
         offer : BOOLEAN, udp : BOOLEAN, v6 : BOOLEAN]
Races == [webrtc : BOOLEAN, others : SUBSET (Types \cup Attempts),
          held : Conns \cup {NoConn}, werr : BOOLEAN, oerr : BOOLEAN,
          window : BOOLEAN, outcome : Conns \cup {Running} \cup Failures]
NoReply == [via |-> "none", transports |-> {}, relay |-> FALSE, port |-> FALSE]

TypeOK ==
    /\ cfg \in Cfgs
    /\ at \in [Attempts -> Places]
    /\ tries \in [Attempts -> 0..MaxTries]
    /\ reply \in [Attempts -> [via : {"none", "punched", "relayed"},
                               transports : SUBSET Types,
                               relay : BOOLEAN, port : BOOLEAN]]
    /\ race \in [Attempts -> Races]
    /\ conn \in [Attempts -> Conns \cup {NoConn}]
    /\ pc \in {"none", "open", "closed"}
    /\ {turn, guard, exchanged} \subseteq BOOLEAN
    /\ bridge \in {"none", "running", "told", "ended"}
    /\ outer \in Races

\* is_force_relay is is_policy_relay or WebSocket; a forced relay binds
\* neither punch socket.
Possible(c) == (c.policy => c.force) /\ (c.force => ~c.udp /\ ~c.v6)

\* One attempt alone; the race that prefers WebRTC; or a plain select_ok.
Alone(c) == c.force \/ (~c.udp /\ ~c.offer) \/ ~c.tcp
Prefers(c) == ~Alone(c) /\ c.offer

Init ==
    /\ cfg \in {c \in Cfgs : Possible(c)}
    /\ at = [a \in Attempts |-> IF a = "fallback" /\ Alone(cfg)
                                THEN "off" ELSE "rendezvous"]
    /\ tries = [a \in Attempts |-> 0]
    /\ reply = [a \in Attempts |-> NoReply]
    /\ race = [a \in Attempts |-> NewSelect({})]
    /\ conn = [a \in Attempts |-> NoConn]
    /\ pc = IF cfg.offer THEN "open" ELSE "none"
    /\ turn = FALSE
    /\ guard = cfg.offer
    /\ exchanged = FALSE
    /\ bridge = "none"
    /\ outer = IF Prefers(cfg) THEN NewRace({"fallback"})
               ELSE NewSelect(IF Alone(cfg) THEN {"preferred"} ELSE Attempts)
-----------------------------------------------------------------------------
Offers(a) == a = "preferred" /\ guard
Busy(a) == at[a] \notin {"off", "done"}

\* The bridge is told to stop, by a message or by dropping the sender.
Told == IF bridge = "running" THEN "told" ELSE bridge

\* The race of the attempts, given how a came out.
Outer(a, out) ==
    IF out = NoConn
    THEN IF ~Prefers(cfg) THEN SelectErr(outer, a)
         ELSE IF a = "preferred" THEN WebrtcErr(outer) ELSE OtherErr(outer, a)
    ELSE IF ~Prefers(cfg) THEN SelectOk(outer, out)
         ELSE IF a = "preferred" THEN WebrtcOk(outer, out)
                                 ELSE OtherOk(outer, a, out)

\* The race of the attempts is now o.  If that decides it, the attempts are
\* dropped.  The peer connection stays open for the attempt that is still
\* using it, and for a connection that is the outcome or is held.  Otherwise
\* it is closed by an armed guard, or by the drop of a Stream::WebRTC.  A
\* bridge task whose attempt is gone is told to stop.
Settle(o, ended, armed, task) ==
    LET in_use == ~Ended(o) /\ ~(ended = "preferred") /\ Busy("preferred")
        kept == o.outcome.typ = "webrtc" \/ (~Ended(o) /\ o.held.typ = "webrtc")
    IN  /\ outer' = o
        /\ at' = [a \in Attempts |->
                    IF at[a] # "off" /\ (a = ended \/ Ended(o)) THEN "done"
                                                                ELSE at[a]]
        /\ guard' = (guard /\ in_use)
        /\ pc' = IF pc = "open" /\ ~in_use /\ ~kept
                    /\ (armed \/ conn["preferred"].typ = "webrtc")
                 THEN "closed" ELSE pc
        /\ bridge' = IF in_use \/ task # "running" THEN task ELSE "told"

\* An attempt returns an error: `?` or bail!.
Fails(a) ==
    /\ Settle(Outer(a, NoConn), a, guard, bridge)
    /\ UNCHANGED <<cfg, tries, reply, race, conn, turn, exchanged>>

\* An attempt returns its connection.  The guard is disarmed for WebRTC only.
Succeeds(a, c) ==
    /\ Settle(Outer(a, c), a, guard /\ c.typ # "webrtc", bridge)
    /\ conn' = [conn EXCEPT ![a] = c]
    /\ UNCHANGED <<cfg, tries, reply, race, turn, exchanged>>

Goes(a, place) == at' = [at EXCEPT ![a] = place]
-----------------------------------------------------------------------------
(* _start_inner, up to the answer of the rendezvous server. *)

\* connect_tcp to the rendezvous server, and the legacy key exchange of a
\* request that carries no offer.
Connect(a) ==
    /\ at[a] = "rendezvous"
    /\ \/ /\ Goes(a, IF Offers(a) THEN "exchange" ELSE "punch")
          /\ UNCHANGED <<cfg, tries, reply, race, conn, offerer, outer>>
       \/ Fails(a)

\* secure_tcp_required.  When the server does not complete the exchange the
\* offer is given up and a new socket is connected.
Exchange(a) ==
    /\ at[a] = "exchange"
    /\ \/ /\ exchanged' = TRUE
          /\ UNCHANGED <<pc, guard>>
       \/ /\ exchanged' = FALSE
          /\ pc' = "closed"
          /\ guard' = FALSE
    /\ Goes(a, "punch")
    /\ UNCHANGED <<cfg, tries, reply, race, conn, turn, bridge, outer>>

\* The punch request is sent, or sent again after a deadline passed without
\* an answer.  The connect of a new socket, or the send, may fail.
Ask(a) ==
    /\ at[a] = "punch"
    /\ tries[a] < MaxTries
    /\ \/ /\ tries' = [tries EXCEPT ![a] = @ + 1]
          /\ UNCHANGED <<cfg, at, reply, race, conn, offerer, outer>>
       \/ Fails(a)

\* No answer to any request: the port is zero, and the guard is dropped.
GiveUp(a) ==
    /\ at[a] = "punch"
    /\ tries[a] = MaxTries
    /\ Fails(a)

\* A PunchHoleResponse without an address.
Refused(a) == at[a] = "punch" /\ tries[a] > 0 /\ Fails(a)

\* A request with an offer keeps its socket for signalling.
allow_tcp_punch(a) == cfg.tcp /\ ~Offers(a)

\* The transports the attempt may try after a PunchHoleResponse, or after a
\* RelayResponse, which brings the relay's.
PunchSets(a) ==
    LET own == IF a = "preferred"
               THEN (IF cfg.udp THEN {"udp"} ELSE {})
                        \cup (IF cfg.v6 THEN {"v6"} ELSE {})
               ELSE {}
    IN  {s \cup (IF allow_tcp_punch(a) THEN {"tcp"} ELSE {}) : s \in SUBSET own}
RelaySets(a) ==
    {s \cup {"relay"} :
        s \in SUBSET (IF a = "preferred" /\ cfg.v6 THEN {"v6"} ELSE {})}

Replies(a) ==
    [via : {"punched"}, transports : PunchSets(a), relay : BOOLEAN,
     port : BOOLEAN]
    \cup [via : {"relayed"}, transports : RelaySets(a), relay : {TRUE},
          port : {TRUE}]

\* The race of a reply's transports, with or without WebRTC.  Under a relay
\* policy WebRTC can use TURN only and takes its place among the others.
RaceOf(r, webrtc) ==
    IF ~webrtc THEN NewSelect(r.transports)
    ELSE IF r.transports = {} THEN NewSelect({"webrtc"})
    ELSE IF r.via = "relayed" /\ cfg.policy
         THEN NewSelect(r.transports \cup {"webrtc"})
    ELSE NewRace(r.transports)

\* A reply with no answer to the offer: the guard is dropped and the other
\* transports are raced, unless there is no address to go to.
Plain(a, r) ==
    IF r.port
    THEN /\ Goes(a, "race")
         /\ reply' = [reply EXCEPT ![a] = r]
         /\ race' = [race EXCEPT ![a] = RaceOf(r, FALSE)]
         /\ pc' = IF Offers(a) THEN "closed" ELSE pc
         /\ guard' = (guard /\ ~Offers(a))
         /\ UNCHANGED <<cfg, tries, conn, turn, exchanged, bridge, outer>>
    ELSE Fails(a)

Replied(a) ==
    /\ at[a] = "punch"
    /\ tries[a] > 0
    /\ \E r \in Replies(a) :
        \/ Plain(a, r)
        \/ /\ Offers(a)
           /\ Goes(a, "answer")
           /\ reply' = [reply EXCEPT ![a] = r]
           /\ UNCHANGED <<cfg, tries, race, conn, offerer, outer>>

\* set_remote_endpoint and the buffered candidates, on the stream that the
\* guard still holds; then, in one poll, the stream is taken out of the
\* guard, the bridge is started and a new guard is made for the race.
AnswerSet(a) ==
    /\ at[a] = "answer"
    /\ reply[a].port
    /\ Goes(a, "race")
    /\ race' = [race EXCEPT ![a] = RaceOf(reply[a], TRUE)]
    /\ bridge' = "running"
    /\ UNCHANGED <<cfg, tries, reply, conn, pc, turn, guard, exchanged, outer>>

AnswerRejected(a) == at[a] = "answer" /\ Plain(a, reply[a])

\* The answer was set but there is no address: the stream is out of its guard
\* and is closed by hand, and the bridge is told to stop.
NoAddress(a) ==
    /\ at[a] = "answer"
    /\ ~reply[a].port
    /\ Settle(Outer(a, NoConn), a, TRUE, "running")
    /\ UNCHANGED <<cfg, tries, reply, race, conn, turn, exchanged>>
-----------------------------------------------------------------------------
(* The race of the transports, and what is done with its outcome. *)

\* A direct punch, or a relay; WebRTC is direct when ICE nominated a pair
\* without TURN and can tell; Relay-only ICE has only TURN.
Direct(t) == t \in {"tcp", "udp", "v6"}
Results(t) ==
    {[typ |-> t, direct |-> d] :
        d \in IF t = "webrtc" THEN {FALSE} \cup {~turn'} ELSE {Direct(t)}}

\* A race that prefers WebRTC is told from a plain select_ok by its state.
Preferring(q) == q.webrtc \/ q.werr \/ q.held # NoConn

\* The transport t of the attempt has come out.
Arrives(a, t) ==
    LET q == race[a] IN
    /\ at[a] = "race"
    /\ ~Ended(q)
    /\ t \in q.others \/ (t = "webrtc" /\ q.webrtc)
    /\ IF t = "webrtc" THEN turn' \in {cfg.policy, TRUE} ELSE UNCHANGED turn
    /\ \/ \E c \in Results(t) :
            race' = [race EXCEPT ![a] =
                       IF ~Preferring(q) THEN SelectOk(q, c)
                       ELSE IF t = "webrtc" THEN WebrtcOk(q, c)
                       ELSE OtherOk(q, t, c)]
       \/ race' = [race EXCEPT ![a] =
                    IF ~Preferring(q) THEN SelectErr(q, t)
                    ELSE IF t = "webrtc" THEN WebrtcErr(q)
                    ELSE OtherErr(q, t)]
    /\ UNCHANGED <<cfg, at, tries, reply, conn, pc, guard, exchanged, bridge,
                   outer>>

WindowEnds(a) ==
    /\ at[a] = "race"
    /\ ~Ended(race[a])
    /\ race[a].window
    /\ race' = [race EXCEPT ![a] = WindowOver(race[a])]
    /\ UNCHANGED <<cfg, at, tries, reply, conn, offerer, outer>>

\* The race is over, or there was nothing to race.  The bridge is told to
\* stop.  What is kept is secured; a punch that kept nothing goes on to the
\* relay its reply named, if it named one.
RacedTo(a, keep) ==
    LET q == race[a]
        relay == reply[a].via = "punched" /\ reply[a].relay
    IN  /\ at[a] = "race"
        /\ Ended(q) \/ (q.others = {} /\ ~q.webrtc)
        /\ IF keep \/ relay
           THEN /\ Goes(a, IF keep THEN "secure" ELSE "relay")
                /\ conn' = [conn EXCEPT ![a] = IF keep THEN q.outcome ELSE NoConn]
                /\ bridge' = IF a = "preferred" THEN Told ELSE bridge
                /\ UNCHANGED <<cfg, tries, reply, race, pc, turn, guard,
                               exchanged, outer>>
           ELSE Fails(a)

\* connect gives up a direct win to a forced relay, but not WebRTC's, which
\* has honoured it already.
Raced(a) ==
    RacedTo(a, Won(race[a])
               /\ (reply[a].via = "punched" /\ cfg.force
                      => race[a].outcome.typ = "webrtc"))

\* request_relay, for want of a direct connection.
RelayInstead(a) ==
    /\ at[a] = "relay"
    /\ \/ /\ Goes(a, "secure")
          /\ conn' = [conn EXCEPT ![a] = [typ |-> "relay", direct |-> FALSE]]
          /\ UNCHANGED <<cfg, tries, reply, race, offerer, outer>>
       \/ Fails(a)

\* secure_connection.  WebRTC that cannot be bound to the peer's identity is
\* closed, and a relay is asked for if there is one.
Secure(a) ==
    LET c == conn[a] IN
    /\ at[a] = "secure"
    /\ \/ IF c.typ = "webrtc" /\ reply[a].via = "punched"
          THEN /\ Goes(a, "pair")
               /\ UNCHANGED <<cfg, tries, reply, race, conn, offerer, outer>>
          ELSE Succeeds(a, c)
       \/ IF c.typ = "webrtc" /\ reply[a].relay
          THEN /\ Goes(a, "again")
               /\ pc' = "closed"
               /\ guard' = FALSE
               /\ UNCHANGED <<cfg, tries, reply, race, conn, turn, exchanged,
                              bridge, outer>>
          ELSE Fails(a)

\* connect reads the nominated pair once more before it returns.
PairRead(a) ==
    /\ at[a] = "pair"
    /\ \E unknown \in BOOLEAN :
         Succeeds(a, [conn[a] EXCEPT !.direct = @ /\ ~turn /\ ~unknown])

\* request_relay in place of WebRTC, and secure_connection on the relay.
RelayAgain(a) ==
    /\ at[a] = "again"
    /\ \/ /\ Goes(a, "secure again")
          /\ UNCHANGED <<cfg, tries, reply, race, conn, offerer, outer>>
       \/ Fails(a)

\* The relay keeps the direct flag of the WebRTC it replaces.
SecureAgainKeepsFlag(a) ==
    /\ at[a] = "secure again"
    /\ \/ Succeeds(a, [conn[a] EXCEPT !.typ = "relay"])
       \/ Fails(a)

SecureAgain(a) ==
    /\ at[a] = "secure again"
    /\ \/ Succeeds(a, [typ |-> "relay", direct |-> FALSE])
       \/ Fails(a)
-----------------------------------------------------------------------------
Step(a) ==
    \/ Connect(a) \/ Exchange(a) \/ Ask(a) \/ GiveUp(a) \/ Refused(a)
    \/ Replied(a) \/ AnswerSet(a) \/ AnswerRejected(a) \/ NoAddress(a)
    \/ \E t \in Types : Arrives(a, t)
    \/ WindowEnds(a) \/ Raced(a) \/ RelayInstead(a) \/ Secure(a)
    \/ PairRead(a) \/ RelayAgain(a) \/ SecureAgain(a)

\* The window of the race between the attempts is over.
OuterWindow ==
    /\ ~Ended(outer)
    /\ outer.window
    /\ Settle(WindowOver(outer), "none", guard, bridge)
    /\ UNCHANGED <<cfg, tries, reply, race, conn, turn, exchanged>>

\* A closed stop channel is taken for an empty one.
BridgeEndsAtEof(state) ==
    /\ state = "running"
    /\ bridge = state
    /\ bridge' = "ended"
    /\ UNCHANGED <<cfg, at, tries, reply, race, conn, pc, turn, guard,
                   exchanged, outer>>

\* The bridge notices that it is to stop, or that its socket is gone, which
\* the rendezvous server decides.
BridgeEnds(state) ==
    /\ bridge = state
    /\ bridge' = "ended"
    /\ UNCHANGED <<cfg, at, tries, reply, race, conn, pc, turn, guard,
                   exchanged, outer>>

\* The connection is up, or has failed.
Rest == Ended(outer) /\ UNCHANGED vars

Next == (\E a \in Attempts : Step(a)) \/ OuterWindow \/ BridgeEnds("told")
        \/ BridgeEnds("running") \/ Rest

Spec == Init /\ [][Next]_vars

-----------------------------------------------------------------------------
\* OffererGuard: whatever exit was taken, by return, error or cancellation,
\* the peer connection that _start made is closed, unless it is the one the
\* caller has been given, and then it is open.
OffererReleased ==
    Ended(outer) => ((pc = "open") <=> (outer.outcome.typ = "webrtc"))

\* A connection reported direct is direct: no relay and no TURN pair carries
\* the flag of the attempt it replaced.
DirectIsTrue ==
    Won(outer) /\ outer.outcome.direct =>
        \/ Direct(outer.outcome.typ)
        \/ outer.outcome.typ = "webrtc" /\ ~turn

\* Relay by policy is honoured: no direct path is used.  Under WebSocket the
\* classic punches are not either, and only WebRTC may go direct.
RelayHonoured ==
    /\ Won(outer) /\ cfg.force => outer.outcome.typ \in {"relay", "webrtc"}
    /\ Won(outer) /\ cfg.policy => ~outer.outcome.direct

\* "Never to WebRTC signalling in the clear": the offer is in a request only
\* if the server's key exchange has encrypted the socket.
NeverInTheClear ==
    /\ tries["preferred"] > 0 /\ guard => exchanged
    /\ bridge # "none" => exchanged

\* The socket that carries the candidates is not the one whose address a TCP
\* punch binds again.
SocketNotShared ==
    bridge \in {"running", "told"} => "tcp" \notin reply["preferred"].transports

\* Starting has ended, in a connection or an error, and has left no bridge
\* behind.
StartOver == Ended(outer) /\ bridge \in {"none", "ended"}
=============================================================================
