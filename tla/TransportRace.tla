--------------------------- MODULE TransportRace ----------------------------
(***************************************************************************)
(* One run of race_transports_prefer_webrtc, src/src/client.rs: the WebRTC *)
(* attempt against the others, each of which comes out direct, relayed or  *)
(* not at all, in any order, with the window ending at any time once it    *)
(* runs.  A direct connection is what the function exists to protect; a    *)
(* relayed one that is in hand may not be lost either.                     *)
(***************************************************************************)
EXTENDS RaceStep

CONSTANTS Others     \* the attempts raced against WebRTC

ASSUME OthersAssumption == Others # {} /\ "webrtc" \notin Others
                           /\ Types = Others \cup {"webrtc"}
                           /\ {"none", "running", "failed"} \cap Types = {}

VARIABLES race,      \* the variables of the function
          came,      \* how each attempt has come out, or "not yet"
          expired    \* the window has ended with a relay in hand

vars == <<race, came, expired>>

Attempts == Others \cup {"webrtc"}
Outcomes == {"direct", "relayed", "error"}

TypeOK ==
    /\ race \in [webrtc : BOOLEAN, others : SUBSET Others,
                 held : Conns \cup {NoConn}, werr : BOOLEAN, oerr : BOOLEAN,
                 window : BOOLEAN,
                 outcome : Conns \cup {Running} \cup Failures]
    /\ came \in [Attempts -> Outcomes \cup {"not yet"}]
    /\ expired \in BOOLEAN

Init ==
    /\ race = NewRace(Others)
    /\ came = [a \in Attempts |-> "not yet"]
    /\ expired = FALSE

\* The outer future of a branch is ready with the outcome of the attempt.
Webrtc(out) ==
    /\ race.webrtc
    /\ race' = IF out = "error" THEN WebrtcErr(race)
               ELSE WebrtcOk(race, [typ |-> "webrtc", direct |-> out = "direct"])
    /\ came' = [came EXCEPT !["webrtc"] = out]
    /\ UNCHANGED expired

Other(a, out) ==
    /\ a \in race.others
    /\ race' = IF out = "error" THEN OtherErr(race, a)
               ELSE OtherOk(race, a, [typ |-> a, direct |-> out = "direct"])
    /\ came' = [came EXCEPT ![a] = out]
    /\ UNCHANGED expired

Window ==
    /\ race.window
    /\ race' = WindowOver(race)
    /\ expired' = (race.held # NoConn)
    /\ UNCHANGED came

race_transports_prefer_webrtc ==
    /\ ~Ended(race)
    /\ \/ \E out \in Outcomes : Webrtc(out)
       \/ \E a \in Others, out \in Outcomes : Other(a, out)
       \/ Window

\* The function has returned.
Returned == Ended(race) /\ UNCHANGED vars

Next == race_transports_prefer_webrtc \/ Returned

Spec == Init /\ [][Next]_vars

-----------------------------------------------------------------------------
\* An attempt that succeeded is not lost: the race fails only when every
\* attempt has failed.
AnySuccessWins ==
    race.outcome \in Failures => \A a \in Attempts : came[a] = "error"

\* "An is_p2p result wins outright": once an attempt has come out direct, the
\* race is over and its outcome is direct; and a relay is the outcome only
\* when no attempt is left that could come out direct, or the window is over.
DirectPreferred ==
    /\ (\E a \in Attempts : came[a] = "direct") =>
           race.outcome \in Conns /\ race.outcome.direct
    /\ (race.outcome \in Conns /\ ~race.outcome.direct) =>
           expired \/ \A a \in Attempts : came[a] \in {"relayed", "error"}

\* The race ends with the connection it should.
RightWinner == AnySuccessWins /\ DirectPreferred

\* The message of a race that failed names the errors of both sides
\* ("WebRTC failed: {}; fallback failed: {}"): the two places that would
\* report one side only are never reached.
NamesBothErrors ==
    race.outcome \in Failures => race.outcome = Failed({"webrtc", "others"})

\* A relay in hand is not waited away: with an attempt that hangs for ever,
\* the race still returns.
HeldCommitted == []<>(race.held # NoConn => Ended(race))
=============================================================================
