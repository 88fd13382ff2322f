-------------------------- MODULE Connect_proofs ----------------------------
(***************************************************************************)
(* How two peers come together, proved for all parameters.  TransportRace: *)
(* race_transports_prefer_webrtc fails only when all attempts have, a relay*)
(* never wins over an attempt that may yet come out direct while the       *)
(* window is open, and an error names both sides.  WebRtcSessions: callers *)
(* with one offer share a peer connection and none takes it from another.  *)
(* ClientStart: what a start leaves behind, whatever exit it took.         *)
(***************************************************************************)
EXTENDS MCConnect, TLAPS, FiniteSetTheorems

\* The attempts that have not come out are the ones the function still holds.
StillThere ==
    /\ race.webrtc <=> came["webrtc"] = "not yet"
    /\ \A a \in Others : a \in race.others <=> came[a] = "not yet"

\* While the race runs: nothing has come out direct; a relay is held as soon
\* as one has come out, and no other connection is; something is still to
\* come; and a side that is gone has left its error, or the relay.
Midway ==
    /\ \A a \in Attempts : came[a] # "direct"
    /\ race.held = NoConn => \A a \in Attempts : came[a] # "relayed"
    /\ race.held # NoConn => race.held \in Conns /\ ~race.held.direct
    /\ race.webrtc \/ race.others # {}
    /\ race.werr => ~race.webrtc
    /\ race.oerr => race.others = {}
    /\ ~race.webrtc => race.werr \/ race.held # NoConn
    /\ race.others = {} => race.oerr \/ race.held # NoConn
    /\ ~expired

\* The inductive invariant.
RaceInv ==
    /\ TypeOK
    /\ ~Ended(race) => StillThere /\ Midway
    /\ AnySuccessWins /\ DirectPreferred /\ NamesBothErrors

-----------------------------------------------------------------------------
\* A connection, a failure and a race that runs are told apart.
LEMMA OutcomesDiffer ==
    /\ NoConn \notin Conns
    /\ Running \notin Conns
    /\ Running \notin Failures
    /\ \A c \in Conns : c \notin Failures
    /\ \A e \in SUBSET {"webrtc", "others"} : Failed(e) \in Failures
  <1>1. "none" \notin Types /\ "running" \notin Types /\ "failed" \notin Types
    BY OthersAssumption
  <1>2. \A e : Failed(e).typ = "failed"
    BY DEF Failed
  <1>3. \A f \in Failures : f.typ = "failed"
    BY <1>2 DEF Failures
  <1>4. \A c \in Conns : c.typ \in Types
    BY DEF Conns
  <1>5. NoConn.typ = "none" /\ Running.typ = "running"
    BY DEF NoConn, Running
  <1> QED BY <1>1, <1>3, <1>4, <1>5 DEF Failures

LEMMA RaceInit == Init => RaceInv
  <1> SUFFICES ASSUME Init PROVE RaceInv OBVIOUS
  <1>1. TypeOK
    BY OutcomesDiffer DEF Init, TypeOK, NewRace, Outcomes
  <1>2. race.outcome = Running /\ ~expired
    BY DEF Init, NewRace
  <1>3. StillThere /\ Midway
    BY OthersAssumption DEF Init, StillThere, Midway, NewRace, Attempts
  <1>4. AnySuccessWins /\ NamesBothErrors
    BY <1>2, OutcomesDiffer DEF AnySuccessWins, NamesBothErrors
  <1>5. DirectPreferred
    BY <1>2, OutcomesDiffer DEF DirectPreferred, Init
  <1> QED BY <1>1, <1>3, <1>4, <1>5 DEF RaceInv

\* The WebRTC branch.
LEMMA WebrtcStep ==
    ASSUME RaceInv, ~Ended(race), NEW out \in Outcomes, Webrtc(out)
    PROVE  RaceInv'
  <1> DEFINE c == [typ |-> "webrtc", direct |-> out = "direct"]
  <1>1. c \in Conns /\ c.direct = (out = "direct")
    BY OthersAssumption DEF Conns
  <1>2. /\ TypeOK /\ StillThere /\ Midway /\ race.webrtc
        /\ came' = [came EXCEPT !["webrtc"] = out] /\ expired' = expired
    BY DEF RaceInv, Webrtc
  <1>3. /\ came' \in [Attempts -> Outcomes \cup {"not yet"}]
        /\ came'["webrtc"] = out
        /\ \A a \in Others : came'[a] = came[a]
    BY <1>2, OthersAssumption DEF TypeOK, Attempts
  <1>4. CASE out = "error"
    <2>1. race' = WebrtcErr(race)
      BY <1>4 DEF Webrtc
    <2>2. CASE race.others = {} /\ race.held # NoConn
      <3>1. race' = [race EXCEPT !.webrtc = FALSE, !.outcome = race.held]
        BY <2>1, <2>2 DEF WebrtcErr, Return
      <3>2. race'.outcome \in Conns /\ ~race'.outcome.direct /\ TypeOK'
        BY <3>1, <1>2, <1>3, <2>2 DEF TypeOK, Midway
      <3>3. \A a \in Attempts : came'[a] \in {"relayed", "error"}
        BY <1>2, <1>3, <1>4, <2>2 DEF StillThere, Midway, Attempts, TypeOK, Outcomes
      <3> QED BY <3>2, <3>3, OutcomesDiffer
              DEF RaceInv, AnySuccessWins, DirectPreferred, NamesBothErrors, Ended
    <2>3. CASE race.others = {} /\ race.held = NoConn
      <3>1. race.oerr
        BY <2>3, <1>2 DEF Midway
      <3>2. race' = [race EXCEPT !.webrtc = FALSE,
                                 !.outcome = Failed({"webrtc", "others"})]
        BY <2>1, <2>3, <3>1 DEF WebrtcErr, Return
      <3>3. race'.outcome = Failed({"webrtc", "others"}) /\ TypeOK'
        BY <3>2, <1>2, <1>3, OutcomesDiffer DEF TypeOK
      <3>4. \A a \in Attempts : came'[a] = "error"
        BY <1>2, <1>3, <1>4, <2>3 DEF StillThere, Midway, Attempts, TypeOK, Outcomes
      <3> QED BY <3>3, <3>4, OutcomesDiffer
              DEF RaceInv, AnySuccessWins, DirectPreferred, NamesBothErrors, Ended
    <2>4. CASE race.others # {}
      <3>1. ~race.oerr
        BY <2>4, <1>2 DEF Midway
      <3>2. race' = [race EXCEPT !.webrtc = FALSE, !.werr = TRUE]
        BY <2>1, <2>4, <3>1 DEF WebrtcErr
      <3>3. TypeOK' /\ race'.outcome = Running
        BY <3>2, <1>2, <1>3 DEF TypeOK, RaceInv, Ended
      <3>4. StillThere' /\ Midway'
        BY <3>2, <1>2, <1>3, <1>4, <2>4, OthersAssumption
           DEF StillThere, Midway, Attempts, TypeOK
      <3> QED BY <3>3, <3>4, OutcomesDiffer
              DEF RaceInv, AnySuccessWins, DirectPreferred, NamesBothErrors, Midway
    <2> QED BY <2>2, <2>3, <2>4
  <1>5. CASE out # "error"
    <2>1. race' = WebrtcOk(race, c)
      BY <1>5 DEF Webrtc
    <2>2. CASE out = "direct" \/ race.others = {}
      <3>1. race' = [race EXCEPT !.webrtc = FALSE, !.outcome = c]
        BY <2>1, <2>2, <1>1 DEF WebrtcOk, Return
      <3>2. race'.outcome = c /\ TypeOK'
        BY <3>1, <1>1, <1>2, <1>3 DEF TypeOK
      <3>3. \A a \in Others : came'[a] # "direct"
        BY <1>2, <1>3 DEF Midway, Attempts
      <3>4. out # "direct" => \A a \in Attempts : came'[a] \in {"relayed", "error"}
        BY <1>2, <1>3, <1>5, <2>2, <3>3
           DEF StillThere, Attempts, TypeOK, Outcomes
      <3>5. DirectPreferred'
        BY <3>2, <3>3, <3>4, <1>1, <1>3 DEF DirectPreferred, Attempts
      <3> QED BY <3>2, <3>5, <1>1, OutcomesDiffer
              DEF RaceInv, AnySuccessWins, NamesBothErrors, Ended
    <2>3. CASE out # "direct" /\ race.others # {}
      <3>1. race' = Hold([race EXCEPT !.webrtc = FALSE], c)
        BY <2>1, <2>3, <1>1 DEF WebrtcOk
      <3>2. race' = IF race.held = NoConn
                    THEN [race EXCEPT !.webrtc = FALSE, !.held = c, !.window = TRUE]
                    ELSE [race EXCEPT !.webrtc = FALSE]
        BY <3>1, <1>2 DEF Hold, TypeOK
      <3>3. TypeOK' /\ race'.outcome = Running
        BY <3>2, <1>1, <1>2, <1>3 DEF TypeOK, RaceInv, Ended
      <3>4. /\ ~race'.webrtc /\ race'.others = race.others
            /\ race'.werr = race.werr /\ race'.oerr = race.oerr
            /\ race'.held = IF race.held = NoConn THEN c ELSE race.held
        BY <3>2, <1>2 DEF TypeOK
      <3>5. race'.held \in Conns /\ ~race'.held.direct /\ race'.held # NoConn
        BY <3>4, <1>1, <1>2, <2>3, OutcomesDiffer DEF Midway
      <3>6. StillThere'
        BY <3>4, <1>2, <1>3, <1>5, OthersAssumption DEF StillThere, Outcomes
      <3>7. Midway'
        BY <3>4, <3>5, <1>2, <1>3, <2>3 DEF Midway, Attempts
      <3> QED BY <3>3, <3>6, <3>7, OutcomesDiffer
              DEF RaceInv, AnySuccessWins, DirectPreferred, NamesBothErrors, Midway
    <2> QED BY <2>2, <2>3
  <1> QED BY <1>4, <1>5

\* The branch of the others.
LEMMA OtherStep ==
    ASSUME RaceInv, ~Ended(race), NEW o \in Others, NEW out \in Outcomes,
           Other(o, out)
    PROVE  RaceInv'
  <1> DEFINE c == [typ |-> o, direct |-> out = "direct"]
             left == race.others \ {o}
  <1>1. c \in Conns /\ c.direct = (out = "direct")
    BY OthersAssumption DEF Conns
  <1>2. /\ TypeOK /\ StillThere /\ Midway /\ o \in race.others
        /\ came' = [came EXCEPT ![o] = out] /\ expired' = expired
    BY DEF RaceInv, Other
  <1>3. /\ came' \in [Attempts -> Outcomes \cup {"not yet"}]
        /\ came'[o] = out
        /\ \A a \in Attempts \ {o} : came'[a] = came[a]
    BY <1>2, OthersAssumption DEF TypeOK, Attempts
  <1>4. left \in SUBSET Others /\ ~race.oerr
    BY <1>2 DEF TypeOK, Midway
  \* The others that are left are those that have not come out.
  <1>5. \A a \in Others : a \in left <=> came'[a] = "not yet"
    BY <1>2, <1>3 DEF StillThere, Attempts, Outcomes
  <1>6. race.webrtc <=> came'["webrtc"] = "not yet"
    BY <1>2, <1>3, OthersAssumption DEF StillThere, Attempts
  <1>7. \A a \in Attempts \ {o} : came'[a] # "direct"
    BY <1>2, <1>3 DEF Midway
  \* When nothing is left, every attempt has come out.
  <1>8. ~race.webrtc /\ left = {} =>
            \A a \in Attempts : came'[a] \in Outcomes
    BY <1>3, <1>5, <1>6 DEF Attempts
  <1> HIDE DEF c, left
  <1>9. CASE out = "error"
    <2> DEFINE q == [race EXCEPT !.others = left]
    <2>1. race' = OtherErr(race, o)
      BY <1>9 DEF Other
    <2>2. q.others = left /\ q.held = race.held /\ q.webrtc = race.webrtc
          /\ q.werr = race.werr /\ q.oerr = race.oerr /\ q.outcome = Running
      BY <1>2 DEF TypeOK, Ended
    <2>3. q \in [webrtc : BOOLEAN, others : SUBSET Others,
                 held : Conns \cup {NoConn}, werr : BOOLEAN, oerr : BOOLEAN,
                 window : BOOLEAN,
                 outcome : Conns \cup {Running} \cup Failures]
      BY <1>2, <1>4 DEF TypeOK
    <2>4. race' = IF left # {} THEN q
                  ELSE IF race.werr \/ ~race.webrtc
                  THEN IF race.held # NoConn THEN [q EXCEPT !.outcome = race.held]
                       ELSE [q EXCEPT !.outcome =
                               Failed(IF race.werr THEN {"webrtc", "others"}
                                                   ELSE {"others"})]
                  ELSE [q EXCEPT !.oerr = TRUE]
      BY <2>1, <2>2 DEF OtherErr, Return, left
    <2> HIDE DEF q
    <2>5. CASE left # {}
      <3>1. race' = q
        BY <2>4, <2>5
      <3>2. StillThere'
        BY <3>1, <2>2, <1>5, <1>6 DEF StillThere
      <3>3. Midway'
        BY <3>1, <2>2, <2>5, <1>2, <1>3, <1>4, <1>7, <1>9 DEF Midway, Attempts
      <3>4. TypeOK'
        BY <3>1, <2>3, <1>2, <1>3 DEF TypeOK
      <3> QED BY <3>1, <3>2, <3>3, <3>4, <2>2, OutcomesDiffer
              DEF RaceInv, AnySuccessWins, DirectPreferred, NamesBothErrors, Midway
    <2>6. CASE left = {} /\ race.webrtc
      <3>1. ~race.werr
        BY <2>6, <1>2 DEF Midway
      <3>2. race' = [q EXCEPT !.oerr = TRUE]
        BY <2>4, <2>6, <3>1
      <3>3. race'.webrtc /\ race'.others = {} /\ race'.oerr /\ ~race'.werr
            /\ race'.held = race.held /\ race'.outcome = Running
        BY <3>2, <3>1, <2>2, <2>3, <2>6
      <3>4. StillThere'
        BY <3>3, <2>6, <1>5, <1>6 DEF StillThere
      <3>5. Midway'
        BY <3>3, <1>2, <1>3, <1>7, <1>9 DEF Midway, Attempts
      <3>6. TypeOK'
        BY <3>2, <2>3, <1>2, <1>3 DEF TypeOK
      <3> QED BY <3>3, <3>4, <3>5, <3>6, OutcomesDiffer
              DEF RaceInv, AnySuccessWins, DirectPreferred, NamesBothErrors, Midway
    <2>7. CASE left = {} /\ ~race.webrtc /\ race.held # NoConn
      <3>1. race' = [q EXCEPT !.outcome = race.held]
        BY <2>4, <2>7
      <3>2. race'.outcome = race.held /\ race.held \in Conns /\ ~race.held.direct
        BY <3>1, <2>3, <2>7, <1>2 DEF Midway
      <3>3. TypeOK'
        BY <3>1, <3>2, <2>3, <1>2, <1>3 DEF TypeOK
      <3>4. \A a \in Attempts : came'[a] \in {"relayed", "error"}
        BY <1>3, <1>7, <1>8, <1>9, <2>7 DEF Outcomes
      <3> QED BY <3>2, <3>3, <3>4, OutcomesDiffer
              DEF RaceInv, AnySuccessWins, DirectPreferred, NamesBothErrors, Ended
    <2>8. CASE left = {} /\ ~race.webrtc /\ race.held = NoConn
      <3>1. race.werr
        BY <2>8, <1>2 DEF Midway
      <3>2. race' = [q EXCEPT !.outcome = Failed({"webrtc", "others"})]
        BY <2>4, <2>8, <3>1
      <3>3. race'.outcome = Failed({"webrtc", "others"}) /\ TypeOK'
        BY <3>2, <2>3, <1>2, <1>3, OutcomesDiffer DEF TypeOK
      <3>4. \A a \in Attempts : came'[a] = "error"
        BY <1>2, <1>3, <1>7, <1>8, <1>9, <2>8 DEF Midway, Outcomes
      <3> QED BY <3>3, <3>4, OutcomesDiffer
              DEF RaceInv, AnySuccessWins, DirectPreferred, NamesBothErrors, Ended
    <2> QED BY <2>5, <2>6, <2>7, <2>8
  <1>10. CASE out # "error" /\ (out = "direct" \/ (~race.webrtc /\ left = {}))
    <2>1. race' = [race EXCEPT !.others = {}, !.outcome = c]
      BY <1>10, <1>1 DEF Other, OtherOk, Return, c, left
    <2>2. race'.outcome = c /\ TypeOK'
      BY <2>1, <1>1, <1>2, <1>3 DEF TypeOK
    <2>3. out # "direct" => \A a \in Attempts : came'[a] \in {"relayed", "error"}
      BY <1>3, <1>7, <1>8, <1>10 DEF Outcomes
    <2>4. DirectPreferred'
      BY <2>2, <2>3, <1>1, <1>3, <1>7 DEF DirectPreferred
    <2> QED BY <2>2, <2>4, <1>1, OutcomesDiffer
            DEF RaceInv, AnySuccessWins, NamesBothErrors, Ended
  <1>11. CASE out # "error" /\ out # "direct" /\ (race.webrtc \/ left # {})
    <2>1. race' = [Hold(race, c) EXCEPT !.others = left]
      BY <1>11, <1>1 DEF Other, OtherOk, c, left
    <2>2. race' = IF race.held = NoConn
                  THEN [race EXCEPT !.held = c, !.window = TRUE, !.others = left]
                  ELSE [race EXCEPT !.others = left]
      BY <2>1, <1>2 DEF Hold, TypeOK
    <2>3. TypeOK' /\ race'.outcome = Running
      BY <2>2, <1>1, <1>2, <1>3, <1>4 DEF TypeOK, Ended
    <2>4. /\ race'.webrtc = race.webrtc /\ race'.others = left
          /\ race'.werr = race.werr /\ race'.oerr = race.oerr
          /\ race'.held = IF race.held = NoConn THEN c ELSE race.held
      BY <2>2, <1>2 DEF TypeOK
    <2>5. race'.held \in Conns /\ ~race'.held.direct /\ race'.held # NoConn
      BY <2>4, <1>1, <1>2, <1>11, OutcomesDiffer DEF Midway
    <2>6. StillThere'
      BY <2>4, <1>5, <1>6 DEF StillThere
    <2>7. Midway'
      BY <2>4, <2>5, <1>2, <1>3, <1>4, <1>7, <1>11 DEF Midway, Attempts
    <2> QED BY <2>3, <2>6, <2>7, OutcomesDiffer
            DEF RaceInv, AnySuccessWins, DirectPreferred, NamesBothErrors, Midway
  <1> QED BY <1>9, <1>10, <1>11

\* The branch of the window.
LEMMA WindowStep ==
    ASSUME RaceInv, ~Ended(race), Window
    PROVE  RaceInv'
  <1>1. TypeOK /\ StillThere /\ Midway /\ came' = came
    BY DEF RaceInv, Window
  <1>2. CASE race.held # NoConn
    <2>1. race' = [race EXCEPT !.outcome = race.held] /\ expired'
      BY <1>2 DEF Window, WindowOver, Return
    <2>2. race'.outcome = race.held /\ race.held \in Conns /\ ~race.held.direct
      BY <2>1, <1>1, <1>2 DEF TypeOK, Midway
    <2>3. TypeOK'
      BY <2>1, <2>2, <1>1 DEF TypeOK
    <2> QED BY <2>1, <2>2, <2>3, <1>1, OutcomesDiffer
            DEF RaceInv, AnySuccessWins, DirectPreferred, NamesBothErrors, Ended,
                Midway
  <1>3. CASE race.held = NoConn
    <2>1. race' = [race EXCEPT !.window = FALSE] /\ expired' = FALSE
      BY <1>3 DEF Window, WindowOver
    <2>2. TypeOK' /\ StillThere' /\ Midway' /\ race'.outcome = Running
      BY <2>1, <1>1 DEF TypeOK, StillThere, Midway, Ended
    <2> QED BY <2>2, OutcomesDiffer
            DEF RaceInv, AnySuccessWins, DirectPreferred, NamesBothErrors, Midway
  <1> QED BY <1>2, <1>3

LEMMA RaceNext == RaceInv /\ [Next]_vars => RaceInv'
  <1> SUFFICES ASSUME RaceInv, [Next]_vars PROVE RaceInv' OBVIOUS
  <1>1. ASSUME ~Ended(race), NEW out \in Outcomes, Webrtc(out) PROVE RaceInv'
    BY <1>1, WebrtcStep
  <1>2. ASSUME ~Ended(race), NEW o \in Others, NEW out \in Outcomes, Other(o, out)
        PROVE  RaceInv'
    BY <1>2, OtherStep
  <1>3. ASSUME ~Ended(race), Window PROVE RaceInv'
    BY <1>3, WindowStep
  <1>4. CASE UNCHANGED vars
    BY <1>4 DEF vars, RaceInv, TypeOK, StillThere, Midway, Ended,
       AnySuccessWins, DirectPreferred, NamesBothErrors
  <1> QED BY <1>1, <1>2, <1>3, <1>4 DEF Next, race_transports_prefer_webrtc, Returned

-----------------------------------------------------------------------------
\* The variables keep their types.
THEOREM RaceTypeCorrect == Spec => []TypeOK
  BY RaceInit, RaceNext, PTL DEF Spec, RaceInv

\* The race fails only when every attempt has failed, so that neither a held
\* relay nor a success of either side is ever lost; a direct connection wins
\* outright, and a relay wins only when nothing direct can arrive any more or
\* the window is over.
THEOREM RightOneWins == Spec => []RightWinner
  <1>1. RaceInv => RightWinner
    BY DEF RaceInv, RightWinner
  <1> QED
    BY <1>1, RaceInit, RaceNext, PTL DEF Spec

\* A failed race reports the errors of both sides; the messages that name one
\* side only are unreachable.
THEOREM BothErrorsNamed == Spec => []NamesBothErrors
  BY RaceInit, RaceNext, PTL DEF Spec, RaceInv

-----------------------------------------------------------------------------
(* The cache of peer connections and the hand-off: WebRtcSessions. *)

\* The setup task of p has come past its insertion: only then can anybody
\* have p.
Passed(p) == task[p] \notin {"lookup", "build", "insert"}

\* The callers whose claim on p is counted.
Claims(p) == {c \in Callers : got[c] = p /\ task[c] \in {"handoff", "release"}}

Counted == \A p \in Callers : pending[p] = Cardinality(Claims(p))

\* What is cached or handed out is a connection whose setup is past, and a
\* task past its claim knows the connection.
GotPassed == \A c \in Callers : got[c] # Nobody => Passed(got[c]) /\ Passed(c)
CachedPassed == \A k \in Keys : sessions[k] # Nobody => Passed(sessions[k])
Known == \A c \in Callers : Passed(c) /\ task[c] # "done" => got[c] \in Callers

HandedOut == GotPassed /\ CachedPassed /\ Known

\* Ownership is taken before the claim is given back and never lost, so a
\* connection that is to be closed has neither an owner nor a claim.
Owned ==
    /\ \A c \in Callers : task[c] \in {"release", "adopted", "serving"} => adopted[got[c]]
    /\ \A p \in Callers : closing[p] => Passed(p) /\ ~adopted[p] /\ pending[p] = 0

\* Who serves has taken the receiver of the candidates.
TakenOnce == \A c \in Callers : task[c] = "serving" => ~rx[got[c]]

\* The state handler of a connection runs when it has failed or was closed.
HandlerIsOfDead ==
    \A p \in Callers :
        /\ task[p] \in {"lookup", "build"} => pc[p] = "none" /\ handler[p] = "idle"
        /\ handler[p] # "idle" => pc[p] \in {"failed", "closed"}

Tasks == {"lookup", "build", "insert", "handoff", "release", "adopted", "serving", "dropped",
          "abandon", "close", "done"}
SharedTypes ==
    /\ task \in [Callers -> Tasks]
    /\ relay \in [Callers -> BOOLEAN]
    /\ got \in [Callers -> Callers \cup {Nobody}]
    /\ pc \in [Callers -> {"none", "live", "failed", "closed"}]
    /\ lost \in [Callers -> BOOLEAN]
    /\ notified \in [Callers -> BOOLEAN]
    /\ handler \in [Callers -> {"idle", "notify", "evict"}]
    /\ rx \in [Callers -> BOOLEAN]
    /\ pending \in [Callers -> Nat]
    /\ adopted \in [Callers -> BOOLEAN]
    /\ closing \in [Callers -> BOOLEAN]
    /\ sessions \in [Keys -> Callers \cup {Nobody}]

SharedInv ==
    SharedTypes /\ Counted /\ HandedOut /\ Owned /\ TakenOnce /\ HandlerIsOfDead
    /\ WebRtc!OneServer /\ WebRtc!PolicyKept

WebRtcAssumption ==
    WebRtc!CallersAssumption /\ WebRtc!KeyAssumption /\ WebRtc!PoliciesAssumption /\ WebRtc!LossyAssumption
    /\ WebRtc!NobodyAssumption

-----------------------------------------------------------------------------
\* FiniteSets comes with the instance once more.
LEMMA WebRtcNotions ==
  ASSUME NEW S
  PROVE  WebRtc!IsFiniteSet(S) = IsFiniteSet(S) /\ WebRtc!Cardinality(S) = Cardinality(S)
BY DEF WebRtc!IsFiniteSet, IsFiniteSet, WebRtc!Cardinality, Cardinality

LEMMA ClaimsFinite ==
  ASSUME WebRtcAssumption, NEW p
  PROVE  /\ IsFiniteSet(Claims(p)) /\ Cardinality(Claims(p)) \in Nat
         /\ Cardinality(Claims(p)) \in 0..Cardinality(Callers)
         /\ Cardinality(Claims(p)) = 0 <=> Claims(p) = {}
<1>1. IsFiniteSet(Callers) /\ Claims(p) \subseteq Callers
  BY WebRtcNotions DEF WebRtcAssumption, WebRtc!CallersAssumption, Claims
<1>2. IsFiniteSet(Claims(p)) /\ Cardinality(Claims(p)) <= Cardinality(Callers)
  BY <1>1, FS_Subset
<1>3. Cardinality(Claims(p)) \in Nat /\ Cardinality(Callers) \in Nat
  BY <1>1, <1>2, FS_CardinalityType
<1> QED
  BY <1>2, <1>3, FS_EmptySet

LEMMA SharedInit == ASSUME WebRtcAssumption PROVE WebRtc!Init => SharedInv
<1> SUFFICES ASSUME WebRtc!Init PROVE SharedInv
  OBVIOUS
<1>1. \A p \in Callers : Claims(p) = {}
  BY DEF WebRtc!Init, Claims
<1>2. Counted
  BY <1>1, FS_EmptySet DEF Counted, WebRtc!Init
<1>3. SharedTypes
  BY DEF WebRtc!Init, SharedTypes, Tasks, WebRtcAssumption, WebRtc!PoliciesAssumption
<1> QED
  BY <1>2, <1>3
  DEF WebRtc!Init, SharedInv, HandedOut, GotPassed, CachedPassed, Known, Passed, Owned, TakenOnce, HandlerIsOfDead, WebRtc!OneServer, WebRtc!PolicyKept

LEMMA CountStays ==
  ASSUME SharedInv, pending' = pending,
         \A d \in Callers : /\ got'[d] = got[d]
                            /\ task'[d] \in {"handoff", "release"} <=> task[d] \in {"handoff", "release"}
  PROVE  Counted'
<1>1. \A q \in Callers : Claims(q)' = Claims(q)
  BY DEF Claims
<1> QED
  BY <1>1 DEF SharedInv, Counted

LEMMA ClaimCounts ==
  ASSUME WebRtcAssumption, SharedInv, NEW c \in Callers, NEW p \in Callers, ~Passed(c),
         WebRtc!Claim(c, p)
  PROVE  Counted' /\ pending' \in [Callers -> Nat]
<1>1. SharedTypes
  BY DEF SharedInv
<1>2. /\ got' = [got EXCEPT ![c] = p] /\ task' = [task EXCEPT ![c] = "handoff"]
      /\ pending' = [pending EXCEPT ![p] = @ + 1]
  BY DEF WebRtc!Claim, WebRtc!Goto
<1>3. \A q \in Callers : Claims(q)' = IF q = p THEN Claims(q) \cup {c} ELSE Claims(q)
  BY <1>1, <1>2 DEF SharedTypes, Claims, Passed
<1>4. \A q \in Callers : c \notin Claims(q)
  BY DEF Passed, Claims
<1>5. \A q \in Callers : pending[q] = Cardinality(Claims(q)) /\ pending[q] \in Nat
  BY <1>1 DEF SharedInv, Counted, SharedTypes
<1>6. Cardinality(Claims(p) \cup {c}) = Cardinality(Claims(p)) + 1
  BY <1>4, ClaimsFinite, FS_AddElement
<1>7. \A q \in Callers : pending'[q] = IF q = p THEN pending[p] + 1 ELSE pending[q]
  BY <1>1, <1>2 DEF SharedTypes
<1>8. \A q \in Callers : pending'[q] = Cardinality(Claims(q)')
  BY <1>3, <1>5, <1>6, <1>7
<1> QED
  BY <1>1, <1>2, <1>5, <1>8 DEF Counted, SharedTypes

LEMMA ClaimIsCounted ==
  ASSUME WebRtcAssumption, SharedInv, NEW c \in Callers, task[c] \in {"handoff", "release"}
  PROVE  got[c] \in Callers /\ pending[got[c]] - 1 \in Nat /\ ~closing[got[c]]
<1>1. got[c] \in Callers
  BY DEF SharedInv, HandedOut, Known, Passed
<1>2. c \in Claims(got[c])
  BY <1>1 DEF Claims
<1>3. Cardinality(Claims(got[c])) # 0 /\ Cardinality(Claims(got[c])) \in Nat
  BY <1>2, ClaimsFinite
<1>4. pending[got[c]] = Cardinality(Claims(got[c]))
  BY <1>1 DEF SharedInv, Counted
<1> QED
  BY <1>1, <1>3, <1>4 DEF SharedInv, Owned

LEMMA ReleaseCounts ==
  ASSUME WebRtcAssumption, SharedInv, NEW c \in Callers, task[c] \in {"handoff", "release"},
         NEW to \in Tasks, to \notin {"handoff", "release"}, WebRtc!Goto(c, to), got' = got,
         pending' = [pending EXCEPT ![got[c]] = @ - 1]
  PROVE  Counted' /\ pending' \in [Callers -> Nat]
<1>1. SharedTypes
  BY DEF SharedInv
<1>2. PICK p \in Callers : p = got[c] /\ pending[p] - 1 \in Nat
  BY ClaimIsCounted
<1>3. \A q \in Callers : Claims(q)' = IF q = p THEN Claims(q) \ {c} ELSE Claims(q)
  BY <1>1, <1>2 DEF SharedTypes, Claims, WebRtc!Goto
<1>4. c \in Claims(p)
  BY <1>2 DEF Claims
<1>5. \A q \in Callers : pending[q] = Cardinality(Claims(q)) /\ pending[q] \in Nat
  BY <1>1 DEF SharedInv, Counted, SharedTypes
<1>6. Cardinality(Claims(p) \ {c}) = Cardinality(Claims(p)) - 1
  BY <1>4, ClaimsFinite, FS_RemoveElement
<1>7. \A q \in Callers : pending'[q] = IF q = p THEN pending[p] - 1 ELSE pending[q]
  BY <1>1, <1>2 DEF SharedTypes
<1>8. \A q \in Callers : pending'[q] = Cardinality(Claims(q)')
  BY <1>3, <1>5, <1>6, <1>7
<1> QED
  BY <1>1, <1>2, <1>5, <1>8 DEF Counted, SharedTypes

\* A claim: of the cached connection, or of the caller's own.
LEMMA ClaimKeeps ==
  ASSUME WebRtcAssumption, SharedInv, NEW c \in Callers, NEW p \in Callers, ~Passed(c),
         WebRtc!Claim(c, p), ~closing[p], relay[p] = relay[c], p = c \/ Passed(p),
         UNCHANGED <<relay, rx, adopted, closing>>
  PROVE  /\ Counted' /\ Owned' /\ TakenOnce' /\ WebRtc!OneServer' /\ WebRtc!PolicyKept'
         /\ task' \in [Callers -> Tasks] /\ got' \in [Callers -> Callers \cup {Nobody}]
         /\ pending' \in [Callers -> Nat]
         /\ GotPassed' /\ Known'
         /\ \A d \in Callers : Passed(d) => Passed(d)'
         /\ Passed(c)'
<1>1. Counted' /\ pending' \in [Callers -> Nat]
  BY ClaimCounts
<1>2. SharedTypes
  BY DEF SharedInv
<1>3. /\ got' = [got EXCEPT ![c] = p] /\ task' = [task EXCEPT ![c] = "handoff"]
      /\ pending' = [pending EXCEPT ![p] = @ + 1]
  BY DEF WebRtc!Claim, WebRtc!Goto
<1>4. /\ \A d \in Callers : d # c => got'[d] = got[d] /\ task'[d] = task[d]
      /\ got'[c] = p /\ task'[c] = "handoff"
      /\ \A q \in Callers : q # p => pending'[q] = pending[q]
      /\ task' \in [Callers -> Tasks] /\ got' \in [Callers -> Callers \cup {Nobody}]
  BY <1>2, <1>3 DEF SharedTypes, Tasks
<1>5. Passed(c)' /\ \A d \in Callers : d # c => (Passed(d)' <=> Passed(d))
  BY <1>4 DEF Passed
<1>6. Owned'
  BY <1>4, <1>5 DEF SharedInv, Owned
<1>7. TakenOnce' /\ WebRtc!OneServer'
  BY <1>4 DEF SharedInv, TakenOnce, WebRtc!OneServer
<1>8. WebRtc!PolicyKept'
  BY <1>4 DEF SharedInv, WebRtc!PolicyKept
<1>9. GotPassed'
  <2>1. \A d \in Callers : (got[d] # Nobody => Passed(got[d]) /\ Passed(d))'
    <3> TAKE d \in Callers
    <3>1. CASE d = c
      BY <1>4, <1>5, <3>1
    <3>2. CASE d # c
      <4>1. PICK q \in Callers \cup {Nobody} : q = got[d] /\ got'[d] = q
        BY <1>2, <1>4, <3>2 DEF SharedTypes
      <4>2. q # Nobody => Passed(q) /\ Passed(d)
        BY <4>1 DEF SharedInv, HandedOut, GotPassed
      <4>3. q # Nobody => Passed(q)' /\ Passed(d)'
        BY <1>5, <4>1, <4>2
      <4> QED
        BY <4>1, <4>3 DEF Passed
    <3> QED
      BY <3>1, <3>2
  <2> QED
    BY <2>1 DEF GotPassed
<1>10. Known'
  BY <1>4, <1>5 DEF SharedInv, HandedOut, Known
<1> QED
  BY <1>1, <1>4, <1>5, <1>6, <1>7, <1>8, <1>9, <1>10

LEMMA GotStays ==
  ASSUME SharedInv, got' = got, \A d \in Callers : Passed(d) => Passed(d)'
  PROVE  GotPassed'
<1> SUFFICES ASSUME NEW d \in Callers, got[d] # Nobody PROVE (Passed(got[d]) /\ Passed(d))'
  BY DEF GotPassed
<1>1. PICK q \in Callers : q = got[d] /\ got'[d] = q
  BY DEF SharedInv, SharedTypes
<1>2. Passed(q)' /\ Passed(d)'
  BY <1>1 DEF SharedInv, HandedOut, GotPassed
<1> QED
  BY <1>1, <1>2 DEF Passed

LEMMA CacheStays ==
  ASSUME SharedInv, \A k \in Keys : sessions'[k] \in {sessions[k], Nobody},
         \A d \in Callers : Passed(d) => Passed(d)'
  PROVE  CachedPassed'
<1> SUFFICES ASSUME NEW k \in Keys, sessions'[k] # Nobody PROVE Passed(sessions[k])'
  BY DEF CachedPassed
<1>1. PICK q \in Callers : q = sessions[k] /\ sessions'[k] = q
  BY DEF SharedInv, SharedTypes
<1>2. Passed(q)'
  BY <1>1 DEF SharedInv, HandedOut, CachedPassed
<1> QED
  BY <1>1, <1>2 DEF Passed

LEMMA LookupKeeps ==
  ASSUME WebRtcAssumption, SharedInv, NEW c \in Callers, WebRtc!Lookup(c)
  PROVE  SharedInv'
<1>1. task[c] = "lookup" /\ UNCHANGED <<relay, WebRtc!peer, adopted, closing, sessions>>
  BY DEF WebRtc!Lookup
<1>2. SharedTypes /\ Key[c] \in Keys
  BY DEF SharedInv, WebRtcAssumption, WebRtc!KeyAssumption
<1>3. CASE WebRtc!Reusable(c)
  <2>1. PICK p \in Callers : p = sessions[Key[c]]
    BY <1>2, <1>3 DEF SharedTypes, WebRtc!Reusable
  <2>2. WebRtc!Claim(c, p) /\ ~closing[p] /\ relay[p] = relay[c] /\ ~Passed(c) /\ Passed(p)
    BY <1>1, <1>2, <1>3, <2>1
    DEF WebRtc!Lookup, WebRtc!Reusable, WebRtc!IsReusableFor, Passed, SharedInv, HandedOut, CachedPassed
  <2>3. /\ Counted' /\ Owned' /\ TakenOnce' /\ WebRtc!OneServer' /\ WebRtc!PolicyKept'
        /\ task' \in [Callers -> Tasks] /\ got' \in [Callers -> Callers \cup {Nobody}]
        /\ pending' \in [Callers -> Nat] /\ GotPassed' /\ Known'
        /\ \A d \in Callers : Passed(d) => Passed(d)'
    BY <1>1, <2>2, ClaimKeeps DEF WebRtc!peer
  <2>4. CachedPassed'
    BY <1>1, <2>3, CacheStays
  <2>5. SharedTypes'
    BY <1>1, <1>2, <2>3 DEF SharedTypes, WebRtc!peer
  <2>6. \A d \in Callers : task'[d] \in {"lookup", "build"} => task[d] \in {"lookup", "build"}
    BY <1>1, <1>2, <2>2 DEF SharedTypes, WebRtc!Claim, WebRtc!Goto
  <2>7. HandlerIsOfDead'
    BY <1>1, <2>6 DEF SharedInv, HandlerIsOfDead, WebRtc!peer
  <2> QED
    BY <2>3, <2>4, <2>5, <2>7 DEF SharedInv, HandedOut
<1>4. CASE ~WebRtc!Reusable(c)
  <2>1. task' = [task EXCEPT ![c] = "build"] /\ UNCHANGED <<pending, got>>
    BY <1>4 DEF WebRtc!Lookup, WebRtc!Goto
  <2>2. SharedTypes'
    BY <1>1, <1>2, <2>1 DEF SharedTypes, Tasks, WebRtc!peer
  <2>3. task'[c] = "build" /\ \A d \in Callers : d # c => task'[d] = task[d]
    BY <1>2, <2>1 DEF SharedTypes
  <2>4. \A d \in Callers : Passed(d)' <=> Passed(d)
    BY <1>1, <2>3 DEF Passed
  <2>5. Counted'
    BY <1>1, <2>1, <2>3, CountStays
  <2>6. GotPassed' /\ CachedPassed'
    BY <1>1, <2>1, <2>4, GotStays, CacheStays
  <2>7. Known'
    BY <2>1, <2>3, <2>4 DEF SharedInv, HandedOut, Known, Passed
  <2>8. Owned'
    BY <1>1, <2>1, <2>3, <2>4 DEF SharedInv, Owned
  <2>9. TakenOnce' /\ WebRtc!OneServer' /\ WebRtc!PolicyKept'
    BY <1>1, <2>1, <2>3 DEF SharedInv, TakenOnce, WebRtc!OneServer, WebRtc!PolicyKept, WebRtc!peer
  <2>10. HandlerIsOfDead'
    BY <1>1, <2>3 DEF SharedInv, HandlerIsOfDead, WebRtc!peer
  <2> QED
    BY <2>2, <2>5, <2>6, <2>7, <2>8, <2>9, <2>10 DEF SharedInv, HandedOut
<1> QED
  BY <1>3, <1>4

LEMMA BuildKeeps ==
  ASSUME SharedInv, NEW c \in Callers, WebRtc!Build(c) \/ WebRtc!BuildFails(c)
  PROVE  SharedInv'
<1>1. SharedTypes
  BY DEF SharedInv
<1>2. /\ task[c] = "build" /\ UNCHANGED <<relay, got, lost, notified, rx, WebRtc!handoff, sessions>>
      /\ UNCHANGED <<pending, adopted, closing>>
      /\ \/ /\ pc' = [pc EXCEPT ![c] = "live"] /\ handler' = handler
            /\ task' = [task EXCEPT ![c] = "insert"]
         \/ /\ pc' = [pc EXCEPT ![c] = "closed"] /\ handler' = [handler EXCEPT ![c] = "notify"]
            /\ task' = [task EXCEPT ![c] = "done"]
  BY DEF WebRtc!Build, WebRtc!BuildFails, WebRtc!Goto, WebRtc!handoff
<1>3. SharedTypes'
  BY <1>1, <1>2 DEF SharedTypes, Tasks, WebRtc!handoff
<1>4. task'[c] \in {"insert", "done"} /\ \A d \in Callers : d # c => task'[d] = task[d]
  BY <1>1, <1>2 DEF SharedTypes
<1>5. \A d \in Callers : Passed(d) => Passed(d)'
  BY <1>2, <1>4 DEF Passed
<1>6. Counted'
  BY <1>2, <1>4, CountStays
<1>7. GotPassed' /\ CachedPassed'
  BY <1>2, <1>5, GotStays, CacheStays
<1>8. Known'
  BY <1>2, <1>4 DEF SharedInv, HandedOut, Known, Passed
<1>9. Owned'
  BY <1>2, <1>4, <1>5 DEF SharedInv, Owned
<1>10. TakenOnce' /\ WebRtc!OneServer' /\ WebRtc!PolicyKept'
  BY <1>2, <1>4 DEF SharedInv, TakenOnce, WebRtc!OneServer, WebRtc!PolicyKept
<1>11. HandlerIsOfDead'
  BY <1>1, <1>2, <1>4 DEF SharedInv, HandlerIsOfDead, SharedTypes
<1> QED
  BY <1>3, <1>6, <1>7, <1>8, <1>9, <1>10, <1>11 DEF SharedInv, HandedOut

LEMMA InsertKeeps ==
  ASSUME WebRtcAssumption, SharedInv, NEW c \in Callers, WebRtc!Insert(c)
  PROVE  SharedInv'
<1>1. task[c] = "insert" /\ ~Passed(c) /\ UNCHANGED <<relay, lost, notified, rx, adopted, closing>>
  BY DEF WebRtc!Insert, Passed
<1>2. SharedTypes /\ Key[c] \in Keys
  BY DEF SharedInv, WebRtcAssumption, WebRtc!KeyAssumption
<1>3. CASE WebRtc!InsertLoses(c)
  <2>1. PICK p \in Callers : p = sessions[Key[c]]
    BY <1>2, <1>3 DEF SharedTypes, WebRtc!InsertLoses, WebRtc!Reusable
  <2>2. WebRtc!Claim(c, p) /\ ~closing[p] /\ relay[p] = relay[c] /\ Passed(p)
    BY <1>1, <1>2, <1>3, <2>1
    DEF WebRtc!InsertLoses, WebRtc!Reusable, WebRtc!IsReusableFor, SharedInv, HandedOut, CachedPassed
  <2>3. /\ Counted' /\ Owned' /\ TakenOnce' /\ WebRtc!OneServer' /\ WebRtc!PolicyKept'
        /\ task' \in [Callers -> Tasks] /\ got' \in [Callers -> Callers \cup {Nobody}]
        /\ pending' \in [Callers -> Nat] /\ GotPassed' /\ Known'
        /\ \A d \in Callers : Passed(d) => Passed(d)'
    BY <1>1, <2>2, ClaimKeeps
  <2>4. /\ pc' = [pc EXCEPT ![c] = "closed"] /\ UNCHANGED sessions
        /\ handler' = [handler EXCEPT ![c] = IF pc[c] = "closed" THEN @ ELSE "notify"]
    BY <1>3 DEF WebRtc!InsertLoses, WebRtc!ClosePc
  <2>5. CachedPassed'
    BY <2>3, <2>4, CacheStays
  <2>6. SharedTypes'
    BY <1>1, <1>2, <2>3, <2>4 DEF SharedTypes
  <2>7. \A d \in Callers : task'[d] \in {"lookup", "build"} => d # c /\ task[d] \in {"lookup", "build"}
    BY <1>1, <1>2, <2>2 DEF SharedTypes, WebRtc!Claim, WebRtc!Goto
  <2>8. HandlerIsOfDead'
    BY <1>2, <2>4, <2>7 DEF SharedInv, HandlerIsOfDead, SharedTypes
  <2> QED
    BY <2>3, <2>5, <2>6, <2>8 DEF SharedInv, HandedOut
<1>4. CASE WebRtc!InsertWins(c)
  <2>1. WebRtc!Claim(c, c) /\ ~closing[c]
    BY <1>1, <1>4 DEF WebRtc!InsertWins, SharedInv, Owned
  <2>2. /\ Counted' /\ Owned' /\ TakenOnce' /\ WebRtc!OneServer' /\ WebRtc!PolicyKept'
        /\ task' \in [Callers -> Tasks] /\ got' \in [Callers -> Callers \cup {Nobody}]
        /\ pending' \in [Callers -> Nat] /\ GotPassed' /\ Known' /\ Passed(c)'
        /\ \A d \in Callers : Passed(d) => Passed(d)'
    BY <1>1, <2>1, ClaimKeeps
  <2>3. sessions' = [sessions EXCEPT ![Key[c]] = c] /\ UNCHANGED <<pc, handler>>
    BY <1>4 DEF WebRtc!InsertWins
  <2>4. CachedPassed'
    <3> SUFFICES ASSUME NEW k \in Keys, sessions'[k] # Nobody PROVE Passed(sessions[k])'
      BY DEF CachedPassed
    <3>1. PICK q \in Callers : q = sessions'[k] /\ (q = c \/ q = sessions[k])
      BY <1>2, <2>3 DEF SharedTypes
    <3>2. Passed(q)'
      BY <2>2, <3>1 DEF SharedInv, HandedOut, CachedPassed
    <3> QED
      BY <3>1, <3>2 DEF Passed
  <2>5. SharedTypes'
    BY <1>1, <1>2, <2>2, <2>3 DEF SharedTypes
  <2>6. \A d \in Callers : task'[d] \in {"lookup", "build"} => d # c /\ task[d] \in {"lookup", "build"}
    BY <1>1, <1>2, <2>1 DEF SharedTypes, WebRtc!Claim, WebRtc!Goto
  <2>7. HandlerIsOfDead'
    BY <2>3, <2>6 DEF SharedInv, HandlerIsOfDead
  <2> QED
    BY <2>2, <2>4, <2>5, <2>7 DEF SharedInv, HandedOut
<1> QED
  BY <1>3, <1>4 DEF WebRtc!Insert

\* A task that has its connection goes on to another step, and the claims stay
\* as they are or lose the task's own.
LEMMA OnwardKeeps ==
  ASSUME WebRtcAssumption, SharedInv, NEW c \in Callers, Passed(c), task[c] # "done",
         NEW to \in Tasks \ {"lookup", "build", "insert", "handoff"}, WebRtc!Goto(c, to), got' = got
  PROVE  /\ got[c] \in Callers /\ task' \in [Callers -> Tasks]
         /\ task'[c] = to /\ \A d \in Callers : d # c => task'[d] = task[d]
         /\ \A d \in Callers : Passed(d)' <=> Passed(d)
         /\ GotPassed' /\ Known'
<1>1. SharedTypes /\ got[c] \in Callers
  BY DEF SharedInv, HandedOut, Known
<1>2. /\ task'[c] = to /\ \A d \in Callers : d # c => task'[d] = task[d]
      /\ task' \in [Callers -> Tasks]
  BY <1>1 DEF SharedTypes, WebRtc!Goto
<1>3. \A d \in Callers : Passed(d)' <=> Passed(d)
  BY <1>2 DEF Passed
<1>4. GotPassed'
  BY <1>3, GotStays
<1>5. Known'
  BY <1>1, <1>2, <1>3 DEF SharedInv, HandedOut, Known
<1> QED
  BY <1>1, <1>2, <1>3, <1>4, <1>5

LEMMA IntoInnerKeeps ==
  ASSUME WebRtcAssumption, SharedInv, NEW c \in Callers, WebRtc!IntoInner(c)
  PROVE  SharedInv'
<1>1. /\ task[c] = "handoff" /\ WebRtc!Goto(c, "release") /\ Passed(c)
      /\ adopted' = [adopted EXCEPT ![got[c]] = TRUE]
      /\ UNCHANGED <<relay, got, WebRtc!peer, pending, closing, sessions>>
  BY DEF WebRtc!IntoInner, Passed
<1>2. /\ got[c] \in Callers /\ task' \in [Callers -> Tasks]
      /\ task'[c] = "release" /\ \A d \in Callers : d # c => task'[d] = task[d]
      /\ \A d \in Callers : Passed(d)' <=> Passed(d)
      /\ GotPassed' /\ Known'
  BY <1>1, OnwardKeeps DEF Tasks
<1>3. SharedTypes /\ ~closing[got[c]]
  BY <1>1, ClaimIsCounted DEF SharedInv
<1>4. SharedTypes'
  BY <1>1, <1>2, <1>3 DEF SharedTypes, WebRtc!peer
<1>5. Counted'
  BY <1>1, <1>2, CountStays
<1>6. CachedPassed'
  BY <1>1, <1>2, CacheStays
<1>7. \A q \in Callers : adopted'[q] = IF q = got[c] THEN TRUE ELSE adopted[q]
  BY <1>1, <1>2, <1>3 DEF SharedTypes
<1>8. Owned'
  <2>1. \A d \in Callers : task'[d] \in {"release", "adopted", "serving"} => adopted'[got'[d]]
    <3> SUFFICES ASSUME NEW d \in Callers, task'[d] \in {"release", "adopted", "serving"}
                 PROVE  adopted'[got[d]]
      BY <1>1
    <3>1. got[d] \in Callers
      BY <1>2 DEF SharedInv, HandedOut, Known, Passed
    <3>2. d = c \/ adopted[got[d]]
      BY <1>2 DEF SharedInv, Owned
    <3> QED
      BY <1>7, <3>1, <3>2
  <2>2. \A q \in Callers : closing'[q] => Passed(q)' /\ ~adopted'[q] /\ pending'[q] = 0
    BY <1>1, <1>2, <1>3, <1>7 DEF SharedInv, Owned
  <2> QED
    BY <2>1, <2>2 DEF Owned
<1>9. TakenOnce' /\ WebRtc!OneServer' /\ WebRtc!PolicyKept'
  BY <1>1, <1>2 DEF SharedInv, TakenOnce, WebRtc!OneServer, WebRtc!PolicyKept, WebRtc!peer
<1>10. HandlerIsOfDead'
  BY <1>1, <1>2 DEF SharedInv, HandlerIsOfDead, WebRtc!peer
<1> QED
  BY <1>2, <1>4, <1>5, <1>6, <1>8, <1>9, <1>10 DEF SharedInv, HandedOut

\* The claim is given back, by an owner or by a cancelled caller.
LEMMA ReleaseKeeps ==
  ASSUME WebRtcAssumption, SharedInv, NEW c \in Callers, task[c] \in {"handoff", "release"},
         NEW to \in Tasks \ {"lookup", "build", "insert", "handoff", "release", "serving"},
         to = "adopted" => task[c] = "release", WebRtc!Goto(c, to),
         pending' = [pending EXCEPT ![got[c]] = @ - 1],
         UNCHANGED <<relay, got, WebRtc!peer, adopted, closing, sessions>>
  PROVE  SharedInv'
<1>1. Passed(c)
  BY DEF Passed
<1>2. /\ got[c] \in Callers /\ task' \in [Callers -> Tasks]
      /\ task'[c] = to /\ \A d \in Callers : d # c => task'[d] = task[d]
      /\ \A d \in Callers : Passed(d)' <=> Passed(d)
      /\ GotPassed' /\ Known'
  BY <1>1, OnwardKeeps
<1>3. SharedTypes /\ ~closing[got[c]]
  BY ClaimIsCounted DEF SharedInv
<1>4. Counted' /\ pending' \in [Callers -> Nat]
  BY ReleaseCounts
<1>5. SharedTypes'
  BY <1>2, <1>3, <1>4 DEF SharedTypes, WebRtc!peer
<1>6. CachedPassed'
  BY <1>2, CacheStays
<1>7. \A q \in Callers : q # got[c] => pending'[q] = pending[q]
  BY <1>2, <1>3 DEF SharedTypes
<1>8. Owned'
  BY <1>2, <1>3, <1>7 DEF SharedInv, Owned
<1>9. TakenOnce' /\ WebRtc!OneServer' /\ WebRtc!PolicyKept'
  BY <1>2 DEF SharedInv, TakenOnce, WebRtc!OneServer, WebRtc!PolicyKept, WebRtc!peer
<1>10. HandlerIsOfDead'
  BY <1>2 DEF SharedInv, HandlerIsOfDead, WebRtc!peer
<1> QED
  BY <1>2, <1>4, <1>5, <1>6, <1>8, <1>9, <1>10 DEF SharedInv, HandedOut

\* The last of the cancelled callers looks whether it may close.
LEMMA AbandonKeeps ==
  ASSUME WebRtcAssumption, SharedInv, NEW c \in Callers, WebRtc!DropLast(c) \/ WebRtc!CloseIfAbandoned(c)
  PROVE  SharedInv'
<1>1. /\ task[c] \in {"dropped", "abandon"} /\ Passed(c)
      /\ UNCHANGED <<relay, got, WebRtc!peer, pending, adopted, sessions>>
  BY DEF WebRtc!DropLast, WebRtc!CloseIfAbandoned, Passed, WebRtc!handoff
<1>2. PICK to \in {"done", "abandon", "close"} : WebRtc!Goto(c, to)
  BY DEF WebRtc!DropLast, WebRtc!CloseIfAbandoned
<1>3. /\ got[c] \in Callers /\ task' \in [Callers -> Tasks]
      /\ task'[c] = to /\ \A d \in Callers : d # c => task'[d] = task[d]
      /\ \A d \in Callers : Passed(d)' <=> Passed(d)
      /\ GotPassed' /\ Known'
  BY <1>1, <1>2, OnwardKeeps DEF Tasks
<1>4. \/ closing' = closing
      \/ closing' = [closing EXCEPT ![got[c]] = TRUE] /\ pending[got[c]] = 0 /\ ~adopted[got[c]]
  BY DEF WebRtc!DropLast, WebRtc!CloseIfAbandoned, WebRtc!handoff
<1>5. SharedTypes /\ Passed(got[c])
  BY <1>3 DEF SharedInv, HandedOut, GotPassed, WebRtcAssumption, WebRtc!NobodyAssumption
<1>6. SharedTypes'
  BY <1>1, <1>3, <1>4, <1>5 DEF SharedTypes, WebRtc!peer
<1>7. Counted' /\ CachedPassed'
  BY <1>1, <1>2, <1>3, CountStays, CacheStays
<1>8. \A q \in Callers : closing'[q] => closing[q] \/ (q = got[c] /\ pending[q] = 0 /\ ~adopted[q])
  <2>1. CASE closing' = closing
    BY <2>1
  <2>2. CASE closing' # closing
    <3>1. closing' = [closing EXCEPT ![got[c]] = TRUE] /\ pending[got[c]] = 0 /\ ~adopted[got[c]]
      BY <1>4, <2>2
    <3>2. \A q \in Callers : q # got[c] => closing'[q] = closing[q]
      BY <1>3, <1>5, <3>1 DEF SharedTypes
    <3> QED
      BY <3>1, <3>2
  <2> QED
    BY <2>1, <2>2
<1>9. Owned'
  BY <1>1, <1>2, <1>3, <1>5, <1>8 DEF SharedInv, Owned
<1>10. TakenOnce' /\ WebRtc!OneServer' /\ WebRtc!PolicyKept'
  BY <1>1, <1>2, <1>3 DEF SharedInv, TakenOnce, WebRtc!OneServer, WebRtc!PolicyKept, WebRtc!peer
<1>11. HandlerIsOfDead'
  BY <1>1, <1>2, <1>3 DEF SharedInv, HandlerIsOfDead, WebRtc!peer
<1> QED
  BY <1>3, <1>6, <1>7, <1>9, <1>10, <1>11 DEF SharedInv, HandedOut

\* Either way of closing a connection that somebody had.
LEMMA CloseKeeps ==
  ASSUME WebRtcAssumption, SharedInv, NEW c \in Callers, WebRtc!CloseAbandoned(c) \/ WebRtc!EndServing(c)
  PROVE  SharedInv'
<1>1. /\ task[c] \in {"close", "serving"} /\ Passed(c) /\ WebRtc!Goto(c, "done") /\ WebRtc!ClosePc(got[c])
      /\ UNCHANGED <<relay, got, lost, notified, rx, pending, adopted, closing, sessions>>
  BY DEF WebRtc!CloseAbandoned, WebRtc!EndServing, Passed, WebRtc!handoff
<1>2. /\ got[c] \in Callers /\ task' \in [Callers -> Tasks]
      /\ task'[c] = "done" /\ \A d \in Callers : d # c => task'[d] = task[d]
      /\ \A d \in Callers : Passed(d)' <=> Passed(d)
      /\ GotPassed' /\ Known'
  BY <1>1, OnwardKeeps DEF Tasks
<1>3. SharedTypes /\ Passed(got[c])
  BY <1>2 DEF SharedInv, HandedOut, GotPassed, WebRtcAssumption, WebRtc!NobodyAssumption
<1>4. /\ pc' = [pc EXCEPT ![got[c]] = "closed"]
      /\ handler' = [handler EXCEPT ![got[c]] = IF pc[got[c]] = "closed" THEN @ ELSE "notify"]
  BY <1>1 DEF WebRtc!ClosePc
<1>5. SharedTypes'
  BY <1>1, <1>2, <1>3, <1>4 DEF SharedTypes
<1>6. Counted' /\ CachedPassed'
  BY <1>1, <1>2, CountStays, CacheStays
<1>7. Owned'
  BY <1>1, <1>2 DEF SharedInv, Owned
<1>8. TakenOnce' /\ WebRtc!OneServer' /\ WebRtc!PolicyKept'
  BY <1>1, <1>2 DEF SharedInv, TakenOnce, WebRtc!OneServer, WebRtc!PolicyKept
<1>9. HandlerIsOfDead'
  BY <1>2, <1>3, <1>4 DEF SharedInv, HandlerIsOfDead, SharedTypes, Passed
<1> QED
  BY <1>2, <1>5, <1>6, <1>7, <1>8, <1>9 DEF SharedInv, HandedOut

LEMMA AdoptKeeps ==
  ASSUME WebRtcAssumption, SharedInv, NEW c \in Callers, WebRtc!Adopt(c)
  PROVE  SharedInv'
<1>1. /\ task[c] = "adopted" /\ Passed(c) /\ rx' = [rx EXCEPT ![got[c]] = FALSE]
      /\ UNCHANGED <<relay, got, pc, lost, notified, handler, pending, adopted, closing, sessions>>
  BY DEF WebRtc!Adopt, Passed, WebRtc!handoff
<1>2. PICK to \in {"serving", "done"} : WebRtc!Goto(c, to) /\ (to = "serving" => rx[got[c]])
  BY DEF WebRtc!Adopt
<1>3. /\ got[c] \in Callers /\ task' \in [Callers -> Tasks]
      /\ task'[c] = to /\ \A d \in Callers : d # c => task'[d] = task[d]
      /\ \A d \in Callers : Passed(d)' <=> Passed(d)
      /\ GotPassed' /\ Known'
  BY <1>1, <1>2, OnwardKeeps DEF Tasks
<1>4. SharedTypes
  BY DEF SharedInv
<1>5. SharedTypes'
  BY <1>1, <1>3, <1>4 DEF SharedTypes
<1>6. Counted' /\ CachedPassed'
  BY <1>1, <1>2, <1>3, CountStays, CacheStays
<1>7. Owned'
  BY <1>1, <1>3 DEF SharedInv, Owned
<1>8. \A q \in Callers : rx'[q] => rx[q] /\ q # got[c]
  BY <1>1, <1>3, <1>4 DEF SharedTypes
<1>9. \A d \in Callers : task'[d] = "serving" => d = c \/ (task[d] = "serving" /\ ~rx[got[d]])
  BY <1>3 DEF SharedInv, TakenOnce
<1>10. \A d \in Callers : task'[d] = "serving" => got[d] \in Callers
  BY <1>3 DEF SharedInv, HandedOut, Known, Passed
<1>11. TakenOnce'
  BY <1>1, <1>8, <1>9, <1>10 DEF TakenOnce
<1>12. WebRtc!OneServer'
  BY <1>1, <1>2, <1>3, <1>9 DEF SharedInv, WebRtc!OneServer
<1>13. WebRtc!PolicyKept' /\ HandlerIsOfDead'
  BY <1>1, <1>2, <1>3 DEF SharedInv, WebRtc!PolicyKept, HandlerIsOfDead
<1> QED
  BY <1>3, <1>5, <1>6, <1>7, <1>11, <1>12, <1>13 DEF SharedInv, HandedOut

\* The link, and the state handler.
LEMMA LinkKeeps ==
  ASSUME WebRtcAssumption, SharedInv, NEW p \in Callers, WebRtc!NoteHealth(p) \/ WebRtc!Fail(p) \/ WebRtc!Handler(p)
  PROVE  SharedInv'
<1>1. UNCHANGED <<task, relay, got, rx, pending, adopted, closing>>
  BY DEF WebRtc!NoteHealth, WebRtc!Fail, WebRtc!Handler, WebRtc!Notify, WebRtc!Evict, WebRtc!handoff
<1>2. SharedTypes
  BY DEF SharedInv
<1>3. /\ sessions' \in [Keys -> Callers \cup {Nobody}]
      /\ \A k \in Keys : sessions'[k] \in {sessions[k], Nobody}
  BY <1>2 DEF WebRtc!NoteHealth, WebRtc!Fail, WebRtc!Handler, WebRtc!Notify, WebRtc!Evict, SharedTypes, WebRtc!RemoveSessionsForPeer
<1>4. SharedTypes'
  BY <1>1, <1>2, <1>3 DEF WebRtc!NoteHealth, WebRtc!Fail, WebRtc!Handler, WebRtc!Notify, WebRtc!Evict, SharedTypes
<1>5. \A d \in Callers : Passed(d)' <=> Passed(d)
  BY <1>1 DEF Passed
<1>6. Counted' /\ CachedPassed' /\ GotPassed'
  BY <1>1, <1>3, <1>5, CountStays, CacheStays, GotStays
<1>7. Known' /\ Owned' /\ TakenOnce' /\ WebRtc!OneServer' /\ WebRtc!PolicyKept'
  BY <1>1, <1>5 DEF SharedInv, HandedOut, Known, Owned, TakenOnce, WebRtc!OneServer, WebRtc!PolicyKept
<1>8. HandlerIsOfDead'
  BY <1>1, <1>2 DEF SharedInv, HandlerIsOfDead, SharedTypes, WebRtc!NoteHealth, WebRtc!Fail, WebRtc!Handler, WebRtc!Notify, WebRtc!Evict
<1> QED
  BY <1>4, <1>6, <1>7, <1>8 DEF SharedInv, HandedOut

LEMMA SharedStep == ASSUME WebRtcAssumption PROVE SharedInv /\ [WebRtc!Next]_WebRtc!vars => SharedInv'
<1> SUFFICES ASSUME SharedInv, [WebRtc!Next]_WebRtc!vars PROVE SharedInv'
  OBVIOUS
<1>1. ASSUME NEW c \in Callers, WebRtc!Setup(c) PROVE SharedInv'
  BY <1>1, LookupKeeps, BuildKeeps, InsertKeeps DEF WebRtc!Setup
<1>2. ASSUME NEW c \in Callers, WebRtc!Handoff(c) PROVE SharedInv'
  <2>1. CASE WebRtc!IntoInner(c)
    BY <2>1, IntoInnerKeeps
  <2>2. CASE WebRtc!Release(c)
    BY <2>2, ReleaseKeeps DEF WebRtc!Release, Tasks
  <2>3. CASE WebRtc!DropHandoff(c)
    <3>1. PICK to \in {"dropped", "done"} : WebRtc!Goto(c, to)
      BY <2>3 DEF WebRtc!DropHandoff
    <3> QED
      BY <2>3, <3>1, ReleaseKeeps DEF WebRtc!DropHandoff, Tasks
  <2>4. CASE WebRtc!DropLast(c) \/ WebRtc!CloseIfAbandoned(c)
    BY <2>4, AbandonKeeps
  <2>5. CASE WebRtc!CloseAbandoned(c)
    BY <2>5, CloseKeeps
  <2> QED
    BY <1>2, <2>1, <2>2, <2>3, <2>4, <2>5 DEF WebRtc!Handoff
<1>3. ASSUME NEW c \in Callers, WebRtc!Owner(c) PROVE SharedInv'
  BY <1>3, AdoptKeeps, CloseKeeps DEF WebRtc!Owner
<1>4. ASSUME NEW p \in Callers, WebRtc!NoteHealth(p) \/ WebRtc!Fail(p) \/ WebRtc!Handler(p) PROVE SharedInv'
  BY <1>4, LinkKeeps
<1>5. CASE UNCHANGED WebRtc!vars
  <2>1. UNCHANGED <<task, relay, got, pc, lost, notified, handler, rx, pending, adopted, closing,
                    sessions>>
    BY <1>5 DEF WebRtc!vars, WebRtc!peer, WebRtc!handoff
  <2>2. Counted'
    BY <2>1, CountStays
  <2> QED
    BY <2>1, <2>2
    DEF SharedInv, SharedTypes, HandedOut, GotPassed, CachedPassed, Known, Passed, Owned, TakenOnce,
        HandlerIsOfDead, WebRtc!OneServer, WebRtc!PolicyKept
<1> QED
  BY <1>1, <1>2, <1>3, <1>4, <1>5 DEF WebRtc!Next

LEMMA SharedSafeNow == ASSUME WebRtcAssumption, SharedInv PROVE WebRtc!SharedSafely
<1>1. WebRtc!TypeOK
  <2>1. \A p \in Callers : pending[p] \in 0..Cardinality(Callers)
    BY ClaimsFinite DEF SharedInv, Counted
  <2> QED
    BY <2>1, WebRtcNotions DEF SharedInv, SharedTypes, WebRtc!TypeOK, Tasks
<1>2. WebRtc!AbandonedIsNobodys
  <2> SUFFICES ASSUME NEW p \in Callers, closing[p],
                      NEW c \in Callers, got[c] = p,
                      task[c] \in {"handoff", "release", "adopted", "serving"}
               PROVE  FALSE
    BY DEF WebRtc!AbandonedIsNobodys, WebRtc!Interested
  <2>1. CASE task[c] \in {"handoff", "release"}
    BY <2>1, ClaimIsCounted
  <2>2. CASE task[c] \in {"adopted", "serving"}
    BY <2>2 DEF SharedInv, Owned
  <2> QED
    BY <2>1, <2>2
<1> QED
  BY <1>1, <1>2 DEF WebRtc!SharedSafely, SharedInv

\* However many callers come with however many offers, whichever of them are
\* cancelled and whichever links fail: what close_if_abandoned closes has no
\* caller that claimed it, adopts it or serves it, one caller at most serves a
\* connection, and no caller gets one built under another ICE policy.
THEOREM SharedSafelyTheorem == WebRtc!Spec => []SharedSafely
<1> WebRtcAssumption
  BY WebRtcFits DEF WebRtcAssumption
<1>1. WebRtc!Init => SharedInv
  BY SharedInit
<1>2. SharedInv /\ [WebRtc!Next]_WebRtc!vars => SharedInv'
  BY SharedStep
<1>3. SharedInv => SharedSafely
  BY SharedSafeNow DEF SharedSafely
<1> QED
  BY <1>1, <1>2, <1>3, PTL DEF WebRtc!Spec

\* The state handler of a connection takes out of SESSIONS only what has failed
\* or was closed, never the live one that answers the same offer.
THEOREM EvictsOnlyTheDeadTheorem == WebRtc!Spec => [][WebRtc!EvictsOnlyTheDead]_WebRtc!vars
<1> WebRtcAssumption
  BY WebRtcFits DEF WebRtcAssumption
<1>1. WebRtc!Init => SharedInv
  BY SharedInit
<1>2. SharedInv /\ [WebRtc!Next]_WebRtc!vars => SharedInv'
  BY SharedStep
<1>3. SharedInv /\ [WebRtc!Next]_WebRtc!vars => [WebRtc!EvictsOnlyTheDead]_WebRtc!vars
  <2> SUFFICES ASSUME SharedInv, WebRtc!Next, NEW k \in Keys, sessions[k] # Nobody,
                      sessions'[k] = Nobody
               PROVE  pc[sessions[k]] \in {"failed", "closed"}
    BY DEF WebRtc!EvictsOnlyTheDead
  <2>1. SharedTypes /\ Nobody \notin Callers
    BY DEF SharedInv, WebRtcAssumption, WebRtc!NobodyAssumption
  <2>2. ASSUME NEW c \in Callers, WebRtc!Setup(c) PROVE FALSE
    BY <2>1, <2>2 DEF WebRtc!Setup, WebRtc!Lookup, WebRtc!Build, WebRtc!BuildFails, WebRtc!Insert, WebRtc!InsertLoses, WebRtc!InsertWins, SharedTypes
  <2>3. ASSUME NEW c \in Callers, WebRtc!Handoff(c) \/ WebRtc!Owner(c) PROVE FALSE
    BY <2>3 DEF WebRtc!Handoff, WebRtc!IntoInner, WebRtc!Release, WebRtc!DropHandoff, WebRtc!DropLast, WebRtc!CloseIfAbandoned,
                WebRtc!CloseAbandoned, WebRtc!Owner, WebRtc!Adopt, WebRtc!EndServing
  <2>4. ASSUME NEW p \in Callers, WebRtc!NoteHealth(p) \/ WebRtc!Fail(p) \/ WebRtc!Notify(p) PROVE FALSE
    BY <2>4 DEF WebRtc!NoteHealth, WebRtc!Fail, WebRtc!Notify
  <2>5. ASSUME NEW p \in Callers, WebRtc!Evict(p) PROVE pc[sessions[k]] \in {"failed", "closed"}
    <3>1. sessions[k] = p
      BY <2>5 DEF WebRtc!Evict, WebRtc!RemoveSessionsForPeer
    <3> QED
      BY <2>5, <3>1 DEF WebRtc!Evict, SharedInv, HandlerIsOfDead
  <2> QED
    BY <2>2, <2>3, <2>4, <2>5 DEF WebRtc!Next, WebRtc!Handler
<1> QED
  BY <1>1, <1>2, <1>3, PTL DEF WebRtc!Spec

-----------------------------------------------------------------------------
(* How the controlling side gets a connection: ClientStart. *)

\* The transports and the requests.
StartAssumption == Start!TypesAssumption /\ Start!TriesAssumption

\* A flag that is told truthfully, and that a relay policy never leaves set.
Honest(c) ==
    c.direct => Start!Direct(c.typ) \/ (c.typ = "webrtc" /\ ~turn /\ ~cfg.policy)

\* What a forced relay leaves.
Forced(c) == cfg.force => c.typ \in {"relay", "webrtc"}

\* A connection that may be an outcome.
Fair(c) == c \in Start!Conns => Honest(c) /\ Forced(c)

\* The replies so far: what may be raced, and what of it under a forced relay.
RepliesFit ==
    \A a \in Start!Attempts :
        /\ reply[a].transports \subseteq {"tcp", "udp", "v6", "relay"}
        /\ cfg.force /\ reply[a].via # "punched" => reply[a].transports \subseteq {"relay"}

\* The guard is armed from the start to the end of the preferred attempt, or to
\* where it gives the offer up.  Without it no offer goes out.
GuardFits ==
    /\ guard => offerer = "open" /\ Start!Busy("preferred")
    /\ guard /\ at["preferred"] \notin {"rendezvous", "exchange"} => exchanged
    /\ tries["preferred"] > 0 => at["preferred"] \notin {"rendezvous", "exchange"}
    /\ at["preferred"] \in {"exchange", "answer"} => guard
    /\ at["preferred"] = "answer" => "tcp" \notin reply["preferred"].transports
    /\ at["fallback"] \notin {"exchange", "answer"}
    /\ at["preferred"] # "off"

\* WebRTC is raced by the preferred attempt, while its guard is armed, and
\* comes out once.
WebrtcOnce(q) ==
    /\ "webrtc" \in q.others => ~Start!Preferring(q)
    /\ ~Start!Ended(q) /\ (q.webrtc \/ "webrtc" \in q.others) => q.held.typ # "webrtc"

\* It may still come out, or has.
Carries(q) ==
    q.webrtc \/ "webrtc" \in q.others \/ q.held.typ = "webrtc" \/ q.outcome.typ = "webrtc"

\* The race of an attempt.
RaceFits(a) ==
    at[a] = "race" =>
        /\ startRace[a].others \subseteq reply[a].transports \cup {"webrtc"}
        /\ \A c \in Start!Conns \cap {startRace[a].held, startRace[a].outcome} :
             Honest(c) /\ c.typ \in reply[a].transports \cup {"webrtc"}
        /\ WebrtcOnce(startRace[a])
        /\ Carries(startRace[a]) => a = "preferred" /\ guard

\* The connection of an attempt, between its race and its end.
ConnFits(a) ==
    /\ at[a] \in {"off", "rendezvous", "exchange", "punch", "answer", "race", "relay"}
         => conn[a] = Start!NoConn
    /\ at[a] \in {"secure", "pair"} =>
         /\ conn[a] \in Start!Conns /\ Fair(conn[a])
         /\ conn[a].typ = "webrtc" => a = "preferred" /\ guard

\* The bridge starts with the answer, over the encrypted socket.
BridgeFits ==
    /\ at["preferred"] \in {"rendezvous", "exchange", "punch", "answer"} => bridge = "none"
    /\ bridge # "none" => exchanged
    /\ Start!SocketNotShared

\* The peer connection is the outcome or held.
Kept == outer.outcome.typ = "webrtc" \/ (~Start!Ended(outer) /\ outer.held.typ = "webrtc")

OuterFits ==
    /\ Start!Ended(outer) => \A a \in Start!Attempts : ~Start!Busy(a)
    /\ Fair(outer.held) /\ Fair(outer.outcome)
    /\ "webrtc" \in {outer.held.typ, outer.outcome.typ} =>
         at["preferred"] = "done" /\ conn["preferred"].typ = "webrtc"
    /\ Kept => offerer = "open"
    /\ offerer = "open" => Kept \/ (guard /\ ~Start!Ended(outer))

\* The inductive invariant.
StartInv ==
    /\ Start!TypeOK /\ Start!Possible(cfg) /\ RepliesFit /\ GuardFits
    /\ \A a \in Start!Attempts : RaceFits(a) /\ ConnFits(a)
    /\ BridgeFits /\ OuterFits
-----------------------------------------------------------------------------
\* The outcomes of a race are told apart by their labels.
LEMMA Labels ==
  ASSUME StartAssumption
  PROVE  /\ \A c \in Start!Conns : c.typ \in MCTypes /\ c.direct \in BOOLEAN
         /\ \A c \in Start!Conns : c.typ \notin {"none", "running", "failed"}
         /\ Start!NoConn.typ = "none" /\ Start!Running.typ = "running"
         /\ \A f \in Start!Failures : f.typ = "failed"
         /\ Start!NoConn \notin Start!Conns \cup Start!Failures \cup {Start!Running}
         /\ Start!Running \notin Start!Conns \cup Start!Failures \cup {Start!NoConn}
         /\ \A f \in Start!Failures : f \notin Start!Conns
<1>1. \A c \in Start!Conns : c.typ \in MCTypes /\ c.direct \in BOOLEAN
  BY DEF Start!Conns
<1>2. \A c \in Start!Conns : c.typ \notin {"none", "running", "failed"}
  BY <1>1 DEF StartAssumption, Start!TypesAssumption
<1>3. Start!NoConn.typ = "none" /\ Start!Running.typ = "running"
  BY DEF Start!NoConn, Start!Running
<1>4. \A f \in Start!Failures : f.typ = "failed"
  BY DEF Start!Failures, Start!Failed
<1> QED
  BY <1>1, <1>2, <1>3, <1>4

\* The errors that a message names.
LEMMA FailuresMade ==
  ASSUME NEW e \in SUBSET {"webrtc", "others"}
  PROVE  Start!Failed(e) \in Start!Failures
BY DEF Start!Failures

\* What a step of a race may do, whichever it is, when it is given c: NoConn
\* for an error or for the end of the window.
Advances(q, o, c) ==
    /\ o \in Start!Races
    /\ o.others \subseteq q.others
    /\ o.webrtc => q.webrtc
    /\ o.held \in {q.held, c}
    /\ q.held # Start!NoConn => o.held = q.held
    /\ o.outcome \in ({Start!Running, q.held, c} \cup Start!Failures) \ {Start!NoConn}

\* Returning a connection, or an error, is such a step.
LEMMA ReturnAdvances ==
  ASSUME StartAssumption, NEW q \in Start!Races, NEW c \in Start!Conns \cup {Start!NoConn},
         NEW r \in Start!Races, r.others \subseteq q.others, r.webrtc => q.webrtc,
         r.held = q.held, NEW out \in ({q.held, c} \cup Start!Failures) \ {Start!NoConn}
  PROVE  Advances(q, Start!Return(r, out), c)
<1>1. q.held \in Start!Conns \cup {Start!NoConn}
  BY DEF Start!Races
<1>2. out \in Start!Conns \cup {Start!Running} \cup Start!Failures
  BY <1>1
<1> HIDE DEF Start!Conns, Start!NoConn, Start!Running, Start!Failures
<1> DEFINE o == Start!Return(r, out)
<1>3. /\ o \in Start!Races
      /\ o.outcome = out /\ o.held = r.held /\ o.others = r.others /\ o.webrtc = r.webrtc
  <2>1. PICK z \in Start!Races : z = r
    OBVIOUS
  <2> QED
    BY <1>2, <2>1 DEF Start!Races, Start!Return
<1> HIDE DEF o
<1> QED
  BY <1>3 DEF Advances, o

\* Only the first relay is held.
LEMMA HoldAdvances ==
  ASSUME StartAssumption, NEW r \in Start!Races, NEW c \in Start!Conns
  PROVE  /\ Start!Hold(r, c) \in Start!Races
         /\ Start!Hold(r, c).held = IF r.held = Start!NoConn THEN c ELSE r.held
         /\ Start!Hold(r, c).others = r.others
         /\ Start!Hold(r, c).webrtc = r.webrtc
         /\ Start!Hold(r, c).outcome = r.outcome
         /\ Start!Hold(r, c).werr = r.werr
<1> HIDE DEF Start!Conns, Start!NoConn, Start!Running, Start!Failures
<1> QED
  BY DEF Start!Races, Start!Hold

\* Leaving an attempt out, or noting an error, changes nothing else.
LEMMA FieldsKept ==
  ASSUME StartAssumption, NEW r \in Start!Races, NEW s \in SUBSET r.others
  PROVE  /\ [r EXCEPT !.webrtc = FALSE] \in Start!Races
         /\ [r EXCEPT !.webrtc = FALSE].others = r.others
         /\ [r EXCEPT !.webrtc = FALSE].webrtc = FALSE
         /\ [r EXCEPT !.webrtc = FALSE].held = r.held
         /\ [r EXCEPT !.webrtc = FALSE].outcome = r.outcome
         /\ [r EXCEPT !.others = s] \in Start!Races
         /\ [r EXCEPT !.others = s].others = s
         /\ [r EXCEPT !.others = s].webrtc = r.webrtc
         /\ [r EXCEPT !.others = s].werr = r.werr
         /\ [r EXCEPT !.others = s].held = r.held
         /\ [r EXCEPT !.others = s].outcome = r.outcome
         /\ [r EXCEPT !.werr = TRUE] \in Start!Races
         /\ [r EXCEPT !.werr = TRUE].others = r.others
         /\ [r EXCEPT !.werr = TRUE].webrtc = r.webrtc
         /\ [r EXCEPT !.werr = TRUE].held = r.held
         /\ [r EXCEPT !.werr = TRUE].outcome = r.outcome
         /\ [r EXCEPT !.oerr = TRUE] \in Start!Races
         /\ [r EXCEPT !.oerr = TRUE].others = r.others
         /\ [r EXCEPT !.oerr = TRUE].webrtc = r.webrtc
         /\ [r EXCEPT !.oerr = TRUE].held = r.held
         /\ [r EXCEPT !.oerr = TRUE].outcome = r.outcome
<1> HIDE DEF Start!Conns, Start!NoConn, Start!Running, Start!Failures
<1> QED
  BY DEF Start!Races

\* Every step of a race that has not ended is an advance of it.
LEMMA SelectAdvances ==
  ASSUME StartAssumption, NEW q \in Start!Races, ~Start!Ended(q), NEW c \in Start!Conns, NEW i
  PROVE  /\ Advances(q, Start!SelectOk(q, c), c)
         /\ Start!SelectOk(q, c).held = q.held /\ Start!SelectOk(q, c).werr = q.werr
         /\ Start!SelectOk(q, c).webrtc = q.webrtc
         /\ Advances(q, Start!SelectErr(q, i), Start!NoConn)
         /\ Start!SelectErr(q, i).held = q.held /\ Start!SelectErr(q, i).werr = q.werr
         /\ Start!SelectErr(q, i).webrtc = q.webrtc
<1> HIDE DEF Start!Conns, Start!NoConn, Start!Running, Start!Failures, Start!Failed
<1>1. c # Start!NoConn /\ Start!Failed({"others"}) \in Start!Failures /\ Start!NoConn \notin Start!Failures
  BY Labels, FailuresMade
<1>2. Advances(q, Start!SelectOk(q, c), c)
  BY <1>1, ReturnAdvances DEF Start!SelectOk
<1>3. /\ Start!SelectOk(q, c).held = q.held /\ Start!SelectOk(q, c).werr = q.werr
      /\ Start!SelectOk(q, c).webrtc = q.webrtc
  BY DEF Start!SelectOk, Start!Return, Start!Races
<1> DEFINE left == q.others \ {i}
<1>4. CASE left # {}
  <2> left \in SUBSET q.others
    OBVIOUS
  <2>1. Start!SelectErr(q, i) = [q EXCEPT !.others = left]
    BY <1>4 DEF Start!SelectErr
  <2> HIDE DEF left
  <2>2. q.outcome = Start!Running /\ Start!Running # Start!NoConn
    BY Labels DEF Start!Ended
  <2>3. /\ Start!SelectErr(q, i) \in Start!Races /\ Start!SelectErr(q, i).others = left
        /\ Start!SelectErr(q, i).held = q.held /\ Start!SelectErr(q, i).werr = q.werr
        /\ Start!SelectErr(q, i).webrtc = q.webrtc /\ Start!SelectErr(q, i).outcome = q.outcome
    <3> DEFINE o == [q EXCEPT !.others = left]
    <3>1. /\ o \in Start!Races /\ o.others = left /\ o.held = q.held /\ o.werr = q.werr
          /\ o.webrtc = q.webrtc /\ o.outcome = q.outcome
      BY FieldsKept
    <3>2. Start!SelectErr(q, i) = o
      BY <2>1
    <3> HIDE DEF o
    <3> QED
      BY <3>1, <3>2
  <2>4. Advances(q, Start!SelectErr(q, i), Start!NoConn)
    BY <2>2, <2>3 DEF Advances
  <2> QED
    BY <2>3, <2>4, <1>2, <1>3
<1>5. CASE left = {}
  <2>0. {} \in SUBSET q.others
    OBVIOUS
  <2>1. Start!SelectErr(q, i) = Start!Return([q EXCEPT !.others = {}], Start!Failed({"others"}))
    BY <1>5 DEF Start!SelectErr
  <2>2. Advances(q, Start!SelectErr(q, i), Start!NoConn)
    <3> DEFINE e == [q EXCEPT !.others = {}]
    <3>1. e \in Start!Races /\ e.others = {} /\ e.webrtc = q.webrtc /\ e.held = q.held
      BY <2>0, FieldsKept
    <3>2. Start!SelectErr(q, i) = Start!Return(e, Start!Failed({"others"}))
      BY <2>1
    <3> HIDE DEF e
    <3> QED
      BY <3>1, <3>2, <1>1, ReturnAdvances
  <2>3. /\ Start!SelectErr(q, i).held = q.held /\ Start!SelectErr(q, i).werr = q.werr
        /\ Start!SelectErr(q, i).webrtc = q.webrtc
    BY <2>1 DEF Start!Return, Start!Races
  <2> QED
    BY <2>2, <2>3, <1>2, <1>3
<1> QED
  BY <1>4, <1>5

\* WebRTC comes out of the race that prefers it.
LEMMA WebrtcAdvances ==
  ASSUME StartAssumption, NEW q \in Start!Races, ~Start!Ended(q), NEW c \in Start!Conns
  PROVE  /\ Advances(q, Start!WebrtcOk(q, c), c)
         /\ ~Start!WebrtcOk(q, c).webrtc
         /\ Advances(q, Start!WebrtcErr(q), Start!NoConn)
         /\ Start!WebrtcErr(q).held = q.held
<1> HIDE DEF Start!Conns, Start!NoConn, Start!Running, Start!Failures, Start!Failed
<1> DEFINE n == [q EXCEPT !.webrtc = FALSE]
<1>1. /\ n \in Start!Races /\ n.others = q.others /\ ~n.webrtc /\ n.held = q.held
      /\ n.outcome = Start!Running
  BY FieldsKept DEF Start!Ended
<1>2. /\ c # Start!NoConn /\ Start!NoConn \notin Start!Failures /\ Start!Running # Start!NoConn
      /\ Start!Failed({"webrtc", "others"}) \in Start!Failures /\ Start!Failed({"webrtc"}) \in Start!Failures
  BY Labels, FailuresMade
<1>3. /\ Start!WebrtcOk(q, c) = IF c.direct \/ q.others = {} THEN Start!Return(n, c) ELSE Start!Hold(n, c)
      /\ Start!WebrtcErr(q) =
           IF q.others = {} /\ q.held # Start!NoConn THEN Start!Return(n, q.held)
           ELSE IF q.oerr THEN Start!Return(n, Start!Failed({"webrtc", "others"}))
           ELSE IF q.others = {} THEN Start!Return(n, Start!Failed({"webrtc"}))
           ELSE [n EXCEPT !.werr = TRUE]
  BY DEF Start!WebrtcOk, Start!WebrtcErr
<1> HIDE DEF n
<1>4. ASSUME NEW out PROVE Start!Return(n, out).webrtc = FALSE /\ Start!Return(n, out).held = q.held
  BY <1>1 DEF Start!Return, Start!Races
<1>5. Advances(q, Start!Return(n, c), c)
  BY <1>1, <1>2, ReturnAdvances
<1>6. Advances(q, Start!Hold(n, c), c) /\ ~Start!Hold(n, c).webrtc
  BY <1>1, <1>2, HoldAdvances DEF Advances
<1>7. \A f \in Start!Failures : Advances(q, Start!Return(n, f), Start!NoConn)
  BY <1>1, <1>2, ReturnAdvances
<1>8. q.held # Start!NoConn => Advances(q, Start!Return(n, q.held), Start!NoConn)
  BY <1>1, <1>2, ReturnAdvances
<1>9. Advances(q, [n EXCEPT !.werr = TRUE], Start!NoConn) /\ [n EXCEPT !.werr = TRUE].held = q.held
  BY <1>1, <1>2, FieldsKept DEF Advances
<1>10. Advances(q, Start!WebrtcOk(q, c), c) /\ ~Start!WebrtcOk(q, c).webrtc
  BY <1>3, <1>4, <1>5, <1>6
<1>11. Advances(q, Start!WebrtcErr(q), Start!NoConn) /\ Start!WebrtcErr(q).held = q.held
  BY <1>2, <1>3, <1>4, <1>7, <1>8, <1>9
<1> QED
  BY <1>10, <1>11

\* One of the other attempts comes out of it.
LEMMA OtherAdvances ==
  ASSUME StartAssumption, NEW q \in Start!Races, ~Start!Ended(q), NEW c \in Start!Conns, NEW i
  PROVE  /\ Advances(q, Start!OtherOk(q, i, c), c)
         /\ Advances(q, Start!OtherErr(q, i), Start!NoConn)
         /\ Start!OtherErr(q, i).held = q.held
<1> HIDE DEF Start!Conns, Start!NoConn, Start!Running, Start!Failures, Start!Failed
<1> DEFINE left == q.others \ {i}
           n == [q EXCEPT !.others = left]
           e == [q EXCEPT !.others = {}]
           h == Start!Hold(q, c)
<1>0. left \in SUBSET q.others /\ {} \in SUBSET q.others
  OBVIOUS
<1>1. /\ n \in Start!Races /\ n.others = left /\ n.webrtc = q.webrtc /\ n.held = q.held
      /\ n.outcome = Start!Running /\ n.werr = q.werr
      /\ e \in Start!Races /\ e.others = {} /\ e.webrtc = q.webrtc /\ e.held = q.held
  BY <1>0, FieldsKept DEF Start!Ended
<1>2. /\ c # Start!NoConn /\ Start!NoConn \notin Start!Failures /\ Start!Running # Start!NoConn
      /\ Start!Failed({"webrtc", "others"}) \in Start!Failures /\ Start!Failed({"others"}) \in Start!Failures
  BY Labels, FailuresMade
<1>h. /\ h \in Start!Races /\ h.others = q.others /\ h.webrtc = q.webrtc
      /\ h.held = IF q.held = Start!NoConn THEN c ELSE q.held
      /\ h.outcome = Start!Running
  BY HoldAdvances DEF Start!Ended
<1>3. Start!OtherOk(q, i, c) = IF c.direct \/ (~q.webrtc /\ left = {}) THEN Start!Return(e, c)
                               ELSE [h EXCEPT !.others = left]
  BY DEF Start!OtherOk
<1>4. Start!OtherErr(q, i) =
         IF left # {} THEN n
         ELSE IF q.werr THEN (IF q.held # Start!NoConn THEN Start!Return(n, q.held)
                              ELSE Start!Return(n, Start!Failed({"webrtc", "others"})))
         ELSE IF ~q.webrtc THEN (IF q.held # Start!NoConn THEN Start!Return(n, q.held)
                                 ELSE Start!Return(n, Start!Failed({"others"})))
         ELSE [n EXCEPT !.oerr = TRUE]
  BY <1>1 DEF Start!OtherErr
<1>l. left \subseteq q.others /\ left \in SUBSET h.others
  BY <1>0, <1>h
<1> HIDE DEF n, e, h, left
<1>5. Advances(q, Start!Return(e, c), c)
  BY <1>1, <1>2, ReturnAdvances
<1>6. Advances(q, [h EXCEPT !.others = left], c)
  <2> DEFINE o == [h EXCEPT !.others = left]
  <2>1. /\ o \in Start!Races /\ o.others = left /\ o.webrtc = h.webrtc /\ o.held = h.held
        /\ o.outcome = h.outcome
    BY <1>h, <1>l, FieldsKept
  <2> HIDE DEF o
  <2>2. Advances(q, o, c)
    BY <1>h, <1>2, <1>l, <2>1 DEF Advances
  <2> QED
    BY <2>2 DEF o
<1>7. \A f \in Start!Failures : Advances(q, Start!Return(n, f), Start!NoConn)
  BY <1>1, <1>2, <1>l, ReturnAdvances
<1>8. q.held # Start!NoConn => Advances(q, Start!Return(n, q.held), Start!NoConn)
  BY <1>1, <1>2, <1>l, ReturnAdvances
<1>9. Advances(q, [n EXCEPT !.oerr = TRUE], Start!NoConn) /\ [n EXCEPT !.oerr = TRUE].held = q.held
  BY <1>1, <1>2, <1>l, FieldsKept DEF Advances
<1>10. Advances(q, n, Start!NoConn)
  BY <1>1, <1>2, <1>l DEF Advances
<1>11. ASSUME NEW out PROVE Start!Return(n, out).held = q.held
  BY <1>1 DEF Start!Return, Start!Races
<1>12. Advances(q, Start!OtherOk(q, i, c), c)
  BY <1>3, <1>5, <1>6
<1>13. Advances(q, Start!OtherErr(q, i), Start!NoConn) /\ Start!OtherErr(q, i).held = q.held
  BY <1>1, <1>2, <1>4, <1>7, <1>8, <1>9, <1>10, <1>11
<1> QED
  BY <1>12, <1>13

\* The preference window is over.
LEMMA WindowAdvances ==
  ASSUME StartAssumption, NEW q \in Start!Races, ~Start!Ended(q)
  PROVE  /\ Advances(q, Start!WindowOver(q), Start!NoConn)
         /\ Start!WindowOver(q).held = q.held /\ Start!WindowOver(q).others = q.others
         /\ Start!WindowOver(q).webrtc = q.webrtc /\ Start!WindowOver(q).werr = q.werr
<1> HIDE DEF Start!Conns, Start!NoConn, Start!Running, Start!Failures, Start!Failed
<1>1. CASE q.held # Start!NoConn
  <2>1. Start!WindowOver(q) = Start!Return(q, q.held)
    BY <1>1 DEF Start!WindowOver
  <2>2. Advances(q, Start!WindowOver(q), Start!NoConn)
    BY <1>1, <2>1, ReturnAdvances
  <2> QED
    BY <2>1, <2>2 DEF Start!Return, Start!Races
<1>2. CASE q.held = Start!NoConn
  <2>1. Start!WindowOver(q) = [q EXCEPT !.window = FALSE]
    BY <1>2 DEF Start!WindowOver
  <2>2. q.outcome = Start!Running /\ Start!Running # Start!NoConn
    BY Labels DEF Start!Ended
  <2> QED
    BY <2>1, <2>2 DEF Start!Races, Advances
<1> QED
  BY <1>1, <1>2

-----------------------------------------------------------------------------
\* The connection c comes out of an attempt, or NoConn if it fails.
LEMMA OuterAdvances ==
  ASSUME StartAssumption, outer \in Start!Races, ~Start!Ended(outer), NEW a \in Start!Attempts,
         NEW c \in Start!Conns \cup {Start!NoConn}
  PROVE  Advances(outer, Start!Outer(a, c), c)
<1>1. CASE c = Start!NoConn
  <2>1. PICK d : d \in Start!Conns
    <3>1. [typ |-> "tcp", direct |-> TRUE] \in Start!Conns
      BY DEF Start!Conns, StartAssumption, Start!TypesAssumption
    <3> QED
      BY <3>1
  <2> HIDE DEF Start!Conns, Start!NoConn, Start!Running, Start!Failures, Advances, Start!Ended
  <2> QED
    BY <1>1, <2>1, SelectAdvances, WebrtcAdvances, OtherAdvances DEF Start!Outer
<1>2. CASE c \in Start!Conns
  <2>1. c # Start!NoConn
    BY <1>2, Labels
  <2> HIDE DEF Start!Conns, Start!NoConn, Start!Running, Start!Failures, Advances, Start!Ended
  <2> QED
    BY <1>2, <2>1, SelectAdvances, WebrtcAdvances, OtherAdvances DEF Start!Outer
<1> QED
  BY <1>1, <1>2

\* Whatever ends an attempt, or the window of the race between them, keeps the
\* invariant.
LEMMA SettleKeeps ==
  ASSUME StartAssumption, StartInv, ~Start!Ended(outer),
         NEW o, NEW c \in Start!Conns \cup {Start!NoConn}, Advances(outer, o, c),
         NEW ended \in Start!Attempts \cup {"none"}, ended \in Start!Attempts => Start!Busy(ended),
         Fair(c),
         c.typ = "webrtc" => ended = "preferred" /\ guard /\ conn["preferred"].typ = "webrtc",
         NEW armed \in BOOLEAN, guard => armed \/ conn["preferred"].typ = "webrtc",
         NEW carrier \in {"none", "running", "told", "ended"},
         carrier # bridge => /\ ended = "preferred" /\ exchanged
                             /\ "tcp" \notin reply["preferred"].transports,
         Start!Settle(o, ended, armed, carrier),
         conn' \in [Start!Attempts -> Start!Conns \cup {Start!NoConn}],
         \A x \in Start!Attempts \ {ended} : conn'[x] = conn[x],
         c \in Start!Conns => conn'[ended] = c,
         c = Start!NoConn => conn' = conn,
         UNCHANGED <<cfg, tries, reply, startRace, turn, exchanged>>
  PROVE  StartInv'
<1> DEFINE in_use == ~Start!Ended(o) /\ ~(ended = "preferred") /\ Start!Busy("preferred")
           kept == o.outcome.typ = "webrtc" \/ (~Start!Ended(o) /\ o.held.typ = "webrtc")
<1> HIDE DEF Start!Conns, Start!NoConn, Start!Running, Start!Failures
<1>1. /\ outer' = o
      /\ at' = [x \in Start!Attempts |->
                  IF at[x] # "off" /\ (x = ended \/ Start!Ended(o)) THEN "done" ELSE at[x]]
      /\ guard' = (guard /\ in_use)
      /\ offerer' = IF offerer = "open" /\ ~in_use /\ ~kept /\ (armed \/ conn["preferred"].typ = "webrtc")
                    THEN "closed" ELSE offerer
      /\ bridge' = IF in_use \/ carrier # "running" THEN carrier ELSE "told"
  BY DEF Start!Settle
<1>2. /\ \A x \in Start!Attempts : at'[x] \in {at[x], "done"}
      /\ \A x \in Start!Attempts : at'[x] = at[x] \/ (at[x] # "off" /\ at'[x] = "done")
      /\ ended \in Start!Attempts => at'[ended] = "done"
      /\ Start!Ended(o) => \A x \in Start!Attempts : at'[x] \in {"off", "done"}
      /\ at["preferred"] # "off"
      /\ in_use => at'["preferred"] = at["preferred"]
      /\ at'["preferred"] # "done" => in_use
      /\ in_use \in BOOLEAN
  <2>1. at["preferred"] # "off" /\ "preferred" \in Start!Attempts
    BY DEF StartInv, GuardFits, Start!Attempts
  <2>2. ended # "none" => ended \in Start!Attempts
    OBVIOUS
  <2> QED
    BY <1>1, <2>1, <2>2 DEF Start!Busy
<1>3. Start!TypeOK'
  <2>1. at' \in [Start!Attempts -> Start!Places]
    BY <1>1 DEF StartInv, Start!TypeOK, Start!Places
  <2>2. outer' \in Start!Races
    BY <1>1 DEF Advances
  <2>3. offerer' \in {"none", "open", "closed"} /\ bridge' \in {"none", "running", "told", "ended"}
    BY <1>1 DEF StartInv, Start!TypeOK
  <2>4. {turn', guard', exchanged'} \subseteq BOOLEAN
    BY <1>1, <1>2 DEF StartInv, Start!TypeOK
  <2> QED
    BY <2>1, <2>2, <2>3, <2>4 DEF StartInv, Start!TypeOK
<1>4. Start!Possible(cfg)' /\ RepliesFit'
  BY <1>2 DEF StartInv, RepliesFit, Start!Possible
<1> HIDE DEF in_use, kept
<1>5. GuardFits'
  <2> USE DEF StartInv
  <2>1. guard' => guard /\ in_use /\ offerer = "open" /\ Start!Busy("preferred")
    BY <1>1 DEF GuardFits
  <2>2. in_use => offerer' = offerer
    BY <1>1
  <2>3. guard' => (offerer = "open" /\ Start!Busy("preferred"))'
    BY <2>1, <2>2, <1>2 DEF Start!Busy
  <2>4. at'["preferred"] \in {"exchange", "answer"} => guard'
    BY <1>1, <1>2 DEF GuardFits
  <2> QED
    BY <2>1, <2>3, <2>4, <1>2 DEF GuardFits, Start!Attempts
<1>6. ASSUME NEW x \in Start!Attempts PROVE RaceFits(x)'
  <2> USE DEF StartInv
  <2>1. at'[x] = "race" => at[x] = "race" /\ (x = "preferred" => guard' = guard)
    BY <1>1, <1>2 DEF Start!TypeOK
  <2>2. RaceFits(x)
    OBVIOUS
  <2> QED
    BY <2>1, <2>2 DEF RaceFits, Honest, WebrtcOnce, Carries, Start!Ended, Start!Preferring
<1>7. ASSUME NEW x \in Start!Attempts PROVE ConnFits(x)'
  <2> USE DEF StartInv
  <2>1. CASE at'[x] = "done"
    BY <2>1 DEF ConnFits
  <2>2. CASE at'[x] # "done"
    <3>1. x # ended /\ at'[x] = at[x] /\ conn'[x] = conn[x]
      BY <1>2, <2>2
    <3>2. x = "preferred" => guard' = guard
      BY <1>1, <1>2, <2>2 DEF Start!TypeOK
    <3>3. ConnFits(x)
      OBVIOUS
    <3> QED
      BY <3>1, <3>2, <3>3 DEF ConnFits, Fair, Honest, Forced
  <2> QED
    BY <2>1, <2>2
<1>8. BridgeFits'
  <2> USE DEF StartInv
  <2>1. at'["preferred"] \in {"rendezvous", "exchange", "punch", "answer"} =>
          bridge' = bridge /\ at'["preferred"] = at["preferred"]
    BY <1>1, <1>2
  <2>2. bridge' # "none" => carrier # "none"
    BY <1>1
  <2>3. bridge' \in {"running", "told"} => carrier \in {"running", "told"}
    BY <1>1
  <2> QED
    BY <2>1, <2>2, <2>3 DEF BridgeFits, Start!SocketNotShared
<1>9. OuterFits'
  <2> USE DEF StartInv
  <2>0. /\ o.held \in {outer.held, c}
        /\ outer.held # Start!NoConn => o.held = outer.held
        /\ o.outcome \in {Start!Running, outer.held, c} \cup Start!Failures
    BY DEF Advances
  <2>l. /\ Start!NoConn.typ # "webrtc" /\ Start!Running.typ # "webrtc"
        /\ \A f \in Start!Failures : f.typ # "webrtc" /\ f \notin Start!Conns
        /\ Start!Running \notin Start!Conns
    BY Labels
  <2>1. (Start!Ended(outer) => \A x \in Start!Attempts : ~Start!Busy(x))'
    BY <1>1, <1>2 DEF Start!Busy, Start!Ended
  <2>2. Fair(o.held) /\ Fair(o.outcome)
    BY <2>0, <2>l DEF OuterFits, Fair
  <2>3. (Fair(outer.held) /\ Fair(outer.outcome))'
    BY <1>1, <2>2 DEF Fair, Honest, Forced
  <2>4. "webrtc" \in {o.held.typ, o.outcome.typ} => "webrtc" \in {outer.held.typ, c.typ}
    BY <2>0, <2>l
  <2>5. c.typ = "webrtc" => c \in Start!Conns
    BY <2>l
  <2>6. outer.held.typ = "webrtc" =>
          /\ at["preferred"] = "done" /\ conn["preferred"].typ = "webrtc"
          /\ ended # "preferred" /\ offerer = "open" /\ ~guard /\ ~in_use
    BY DEF OuterFits, Kept, GuardFits, Start!Busy, in_use, Start!Attempts
  <2>7. "webrtc" \in {o.held.typ, o.outcome.typ} =>
          at'["preferred"] = "done" /\ conn'["preferred"].typ = "webrtc"
    <3>1. CASE c.typ = "webrtc"
      BY <3>1, <2>5, <1>2
    <3>2. CASE outer.held.typ = "webrtc"
      BY <3>2, <2>6, <1>2 DEF Start!Attempts
    <3> QED
      BY <2>4, <3>1, <3>2
  <2>8. outer.outcome = Start!Running
    BY DEF Start!Ended
  <2>9. kept => offerer' = "open"
    <3>1. CASE c.typ = "webrtc"
      BY <3>1, <1>1 DEF GuardFits
    <3>2. CASE outer.held.typ = "webrtc"
      BY <3>2, <2>6, <1>1
    <3> QED
      BY <2>4, <3>1, <3>2 DEF kept
  <2>10. offerer' = "open" => kept \/ (guard' /\ ~Start!Ended(o))
    <3> HAVE offerer' = "open"
    <3>1. offerer = "open"
      BY <1>1
    <3>2. outer.held.typ = "webrtc" \/ guard
      BY <3>1, <2>8, <2>l DEF OuterFits, Kept
    <3>3. CASE in_use
      BY <3>2, <3>3, <2>6, <1>1 DEF in_use
    <3>4. CASE ~in_use
      BY <3>1, <3>2, <3>4, <2>6, <1>1
    <3> QED
      BY <3>3, <3>4
  <2> QED
    BY <1>1, <2>1, <2>3, <2>7, <2>9, <2>10 DEF OuterFits, Kept, kept, Start!Ended
<1> QED
  BY <1>3, <1>4, <1>5, <1>6, <1>7, <1>8, <1>9 DEF StartInv

\* While an attempt is under way, the race between the attempts is.
LEMMA BusyNotEnded ==
  ASSUME StartInv, NEW a \in Start!Attempts, Start!Busy(a)
  PROVE  ~Start!Ended(outer) /\ outer \in Start!Races
BY DEF StartInv, OuterFits, Start!TypeOK

\* An attempt ends in an error.
LEMMA FailsKeeps ==
  ASSUME StartAssumption, StartInv, NEW a \in Start!Attempts, Start!Busy(a), Start!Fails(a)
  PROVE  StartInv'
<1> HIDE DEF Start!Conns, Start!NoConn, Start!Running, Start!Failures
<1>1. ~Start!Ended(outer) /\ outer \in Start!Races
  BY BusyNotEnded
<1>2. Advances(outer, Start!Outer(a, Start!NoConn), Start!NoConn)
  BY <1>1, OuterAdvances
<1>3. Start!NoConn \notin Start!Conns /\ Start!NoConn.typ # "webrtc"
  BY Labels
<1>4. /\ guard \in BOOLEAN /\ bridge \in {"none", "running", "told", "ended"}
      /\ conn \in [Start!Attempts -> Start!Conns \cup {Start!NoConn}]
  BY DEF StartInv, Start!TypeOK
<1>5. /\ Start!Settle(Start!Outer(a, Start!NoConn), a, guard, bridge)
      /\ UNCHANGED <<cfg, tries, reply, startRace, conn, turn, exchanged>>
  BY DEF Start!Fails
<1> DEFINE o == Start!Outer(a, Start!NoConn)
<1> HIDE DEF o
<1>6. Start!Settle(o, a, guard, bridge) /\ Advances(outer, o, Start!NoConn)
  BY <1>2, <1>5 DEF o
<1> QED
  BY <1>1, <1>3, <1>4, <1>5, <1>6, SettleKeeps DEF Fair

\* An attempt ends in a connection that is fair, and that is WebRTC only while
\* the guard still holds the offerer.
LEMMA SucceedsKeeps ==
  ASSUME StartAssumption, StartInv, NEW a \in Start!Attempts, Start!Busy(a), NEW c \in Start!Conns, Fair(c),
         c.typ = "webrtc" => a = "preferred" /\ guard /\ conn["preferred"].typ = "webrtc",
         Start!Succeeds(a, c)
  PROVE  StartInv'
<1> HIDE DEF Start!Conns, Start!NoConn, Start!Running, Start!Failures
<1>1. ~Start!Ended(outer) /\ outer \in Start!Races
  BY BusyNotEnded
<1>2. Advances(outer, Start!Outer(a, c), c)
  BY <1>1, OuterAdvances
<1>3. c # Start!NoConn
  BY Labels
<1>4. /\ guard \in BOOLEAN /\ bridge \in {"none", "running", "told", "ended"}
      /\ conn \in [Start!Attempts -> Start!Conns \cup {Start!NoConn}]
  BY DEF StartInv, Start!TypeOK
<1>5. /\ Start!Settle(Start!Outer(a, c), a, guard /\ c.typ # "webrtc", bridge)
      /\ conn' = [conn EXCEPT ![a] = c]
      /\ UNCHANGED <<cfg, tries, reply, startRace, turn, exchanged>>
  BY DEF Start!Succeeds
<1>6. /\ conn' \in [Start!Attempts -> Start!Conns \cup {Start!NoConn}] /\ conn'[a] = c
      /\ \A x \in Start!Attempts \ {a} : conn'[x] = conn[x]
  BY <1>4, <1>5
<1> DEFINE o == Start!Outer(a, c)
           armed == guard /\ c.typ # "webrtc"
<1>7. armed \in BOOLEAN /\ (guard => armed \/ conn["preferred"].typ = "webrtc")
  BY <1>4
<1>8. Start!Settle(o, a, armed, bridge) /\ Advances(outer, o, c)
  BY <1>2, <1>5
<1> HIDE DEF o, armed
<1> QED
  BY <1>1, <1>3, <1>4, <1>5, <1>6, <1>7, <1>8, SettleKeeps

\* A step of an attempt that goes on leaves the other one and the race between
\* them alone, and only the preferred attempt touches the offerer.
LEMMA GoesOnKeeps ==
  ASSUME StartAssumption, StartInv, NEW a \in Start!Attempts, Start!Busy(a), Start!TypeOK',
         at'[a] \notin {"off", "done"},
         \A x \in Start!Attempts \ {a} : /\ at'[x] = at[x] /\ startRace'[x] = startRace[x]
                                         /\ reply'[x] = reply[x] /\ conn'[x] = conn[x],
         UNCHANGED <<cfg, outer>>,
         a = "preferred" \/ UNCHANGED <<offerer, turn, guard>>,
         offerer' = "open" => offerer = "open" /\ (guard => guard'),
         RepliesFit', GuardFits', BridgeFits', RaceFits(a)', ConnFits(a)'
  PROVE  StartInv'
<1> HIDE DEF Start!Conns, Start!NoConn, Start!Running, Start!Failures
<1> USE DEF StartInv
<1>1. ~Start!Ended(outer)
  BY BusyNotEnded
<1>l. /\ \A c \in Start!Conns : c.typ \in MCTypes /\ c.direct \in BOOLEAN
      /\ Start!Running.typ # "webrtc" /\ Start!Running \notin Start!Conns
  BY Labels
<1>2. ASSUME NEW x \in Start!Attempts PROVE RaceFits(x)'
  <2>1. CASE x = a
    BY <2>1
  <2>2. CASE x # a /\ a # "preferred"
    <3>1. at'[x] = at[x] /\ startRace'[x] = startRace[x] /\ reply'[x] = reply[x] /\ guard' = guard
      BY <2>2
    <3>2. RaceFits(x)
      OBVIOUS
    <3> QED
      BY <2>2, <3>1, <3>2 DEF RaceFits, Honest, WebrtcOnce, Carries, Start!Ended, Start!Preferring
  <2>3. CASE x # a /\ a = "preferred"
    <3>1. at'[x] = at[x] /\ startRace'[x] = startRace[x] /\ reply'[x] = reply[x]
      BY <2>3
    <3>2. RaceFits(x)
      OBVIOUS
    <3>3. at[x] = "race" => ~Carries(startRace[x])
      BY <2>3, <3>2 DEF RaceFits
    <3>4. at[x] = "race" => startRace[x].held.typ # "webrtc" /\ startRace[x].outcome.typ # "webrtc"
      BY <3>3 DEF Carries
    <3> QED
      BY <3>1, <3>2, <3>3, <3>4 DEF RaceFits, Honest, WebrtcOnce, Carries, Start!Ended, Start!Preferring
  <2> QED
    BY <2>1, <2>2, <2>3
<1>3. ASSUME NEW x \in Start!Attempts PROVE ConnFits(x)'
  <2>1. CASE x = a
    BY <2>1
  <2>2. CASE x # a /\ a # "preferred"
    <3>1. at'[x] = at[x] /\ conn'[x] = conn[x]
      BY <2>2
    <3>2. ConnFits(x)
      OBVIOUS
    <3> QED
      BY <2>2, <3>1, <3>2 DEF ConnFits, Fair, Honest, Forced
  <2>3. CASE x # a /\ a = "preferred"
    <3>1. at'[x] = at[x] /\ conn'[x] = conn[x]
      BY <2>3
    <3>2. ConnFits(x)
      OBVIOUS
    <3> QED
      BY <2>3, <3>1, <3>2 DEF ConnFits, Fair, Honest, Forced
  <2> QED
    BY <2>1, <2>2, <2>3
<1>4. OuterFits'
  <2>1. outer.outcome = Start!Running /\ outer.outcome.typ # "webrtc"
    BY <1>1, <1>l DEF Start!Ended
  <2>2. outer.held.typ = "webrtc" => a # "preferred"
    BY DEF OuterFits, Start!Busy
  <2>3. Fair(outer.held)'
    <3>1. CASE a = "preferred"
      BY <2>2, <3>1 DEF OuterFits, Fair, Honest, Forced
    <3>2. CASE a # "preferred"
      BY <3>2 DEF OuterFits, Fair, Honest, Forced
    <3> QED
      BY <3>1, <3>2
  <2>4. Fair(outer.outcome)'
    BY <2>1, <1>l DEF Fair
  <2>5. outer'.held.typ = "webrtc" => at'["preferred"] = "done" /\ conn'["preferred"].typ = "webrtc"
    BY <2>2 DEF OuterFits, Start!Attempts
  <2>6. Kept => offerer' = "open"
    BY <2>1, <2>2 DEF OuterFits, Kept
  <2>7. offerer' = "open" => Kept \/ guard'
    BY DEF OuterFits
  <2> QED
    BY <1>1, <2>1, <2>3, <2>4, <2>5, <2>6, <2>7 DEF OuterFits, Kept, Start!Ended
<1> QED
  BY <1>2, <1>3, <1>4 DEF Start!Possible
-----------------------------------------------------------------------------
(* The steps of an attempt, one by one. *)

\* connect_tcp to the rendezvous server.
LEMMA ConnectKeeps ==
  ASSUME StartAssumption, StartInv, NEW a \in Start!Attempts, Start!Connect(a)
  PROVE  StartInv'
<1> HIDE DEF Start!Conns, Start!NoConn, Start!Running, Start!Failures
<1>0. at[a] = "rendezvous" /\ Start!Busy(a)
  BY DEF Start!Connect, Start!Busy
<1>1. CASE Start!Fails(a)
  BY <1>0, <1>1, FailsKeeps
<1>2. CASE /\ Start!Goes(a, IF Start!Offers(a) THEN "exchange" ELSE "punch")
           /\ UNCHANGED <<cfg, tries, reply, startRace, conn, Start!offerer, outer>>
  <2> USE <1>0, <1>2 DEF StartInv, Start!offerer
  <2>1. /\ at' \in [Start!Attempts -> Start!Places] /\ \A x \in Start!Attempts \ {a} : at'[x] = at[x]
        /\ at'[a] = IF Start!Offers(a) THEN "exchange" ELSE "punch"
    BY DEF Start!Goes, Start!TypeOK, Start!Places
  <2>2. Start!TypeOK' /\ RepliesFit'
    BY <2>1 DEF Start!TypeOK, RepliesFit
  <2>3. GuardFits'
    BY <2>1 DEF GuardFits, Start!Offers, Start!Attempts, Start!Busy
  <2>4. BridgeFits'
    BY <2>1 DEF BridgeFits, Start!SocketNotShared, Start!Attempts
  <2>5. RaceFits(a)' /\ ConnFits(a)'
    BY <2>1 DEF RaceFits, ConnFits
  <2> QED
    BY <2>1, <2>2, <2>3, <2>4, <2>5, GoesOnKeeps
<1> QED
  BY <1>1, <1>2 DEF Start!Connect

\* secure_tcp_required: encrypted, or the offer is given up.
LEMMA ExchangeKeeps ==
  ASSUME StartAssumption, StartInv, NEW a \in Start!Attempts, Start!Exchange(a)
  PROVE  StartInv'
<1> HIDE DEF Start!Conns, Start!NoConn, Start!Running, Start!Failures
<1> USE DEF StartInv
<1>0. /\ at[a] = "exchange" /\ Start!Busy(a) /\ a = "preferred"
      /\ Start!Goes(a, "punch")
      /\ UNCHANGED <<cfg, tries, reply, startRace, conn, turn, bridge, outer>>
  BY DEF Start!Exchange, Start!Busy, GuardFits, Start!Attempts
<1>1. /\ at' \in [Start!Attempts -> Start!Places] /\ \A x \in Start!Attempts \ {a} : at'[x] = at[x]
      /\ at'[a] = "punch"
  BY <1>0 DEF Start!Goes, Start!TypeOK, Start!Places
<1>2. \/ exchanged' = TRUE /\ UNCHANGED <<offerer, guard>>
      \/ exchanged' = FALSE /\ offerer' = "closed" /\ guard' = FALSE
  BY DEF Start!Exchange
<1>3. Start!TypeOK' /\ RepliesFit'
  BY <1>0, <1>1, <1>2 DEF Start!TypeOK, RepliesFit
<1>4. GuardFits'
  BY <1>0, <1>1, <1>2 DEF GuardFits, Start!Attempts, Start!Busy
<1>5. BridgeFits'
  BY <1>0, <1>1, <1>2 DEF BridgeFits, Start!SocketNotShared, Start!Attempts
<1>6. RaceFits(a)' /\ ConnFits(a)'
  BY <1>0, <1>1 DEF RaceFits, ConnFits
<1> QED
  BY <1>0, <1>1, <1>2, <1>3, <1>4, <1>5, <1>6, GoesOnKeeps

\* The punch request.
LEMMA AskKeeps ==
  ASSUME StartAssumption, StartInv, NEW a \in Start!Attempts, Start!Ask(a)
  PROVE  StartInv'
<1> HIDE DEF Start!Conns, Start!NoConn, Start!Running, Start!Failures
<1>0. at[a] = "punch" /\ Start!Busy(a) /\ tries[a] < MaxTries
  BY DEF Start!Ask, Start!Busy
<1>1. CASE Start!Fails(a)
  BY <1>0, <1>1, FailsKeeps
<1>2. CASE /\ tries' = [tries EXCEPT ![a] = @ + 1]
           /\ UNCHANGED <<cfg, at, reply, startRace, conn, Start!offerer, outer>>
  <2> USE <1>0, <1>2 DEF StartInv, Start!offerer
  <2>1. tries' \in [Start!Attempts -> 0..MaxTries] /\ \A x \in Start!Attempts \ {a} : tries'[x] = tries[x]
    BY DEF Start!TypeOK, StartAssumption, Start!TriesAssumption
  <2>2. Start!TypeOK' /\ RepliesFit'
    BY <2>1 DEF Start!TypeOK, RepliesFit
  <2>3. GuardFits'
    BY <2>1 DEF GuardFits, Start!Attempts, Start!Busy
  <2>4. BridgeFits'
    BY DEF BridgeFits, Start!SocketNotShared, Start!Attempts
  <2>5. RaceFits(a)' /\ ConnFits(a)'
    BY DEF RaceFits, ConnFits
  <2> QED
    BY <2>2, <2>3, <2>4, <2>5, GoesOnKeeps
<1> QED
  BY <1>1, <1>2 DEF Start!Ask

\* A race that has just begun.
LEMMA NewRaceFits ==
  ASSUME StartAssumption, NEW s \in SUBSET MCTypes, NEW w \in BOOLEAN, NEW r,
         r = IF w THEN Start!NewRace(s) ELSE Start!NewSelect(s)
  PROVE  /\ r \in Start!Races /\ r.webrtc = w /\ r.others = s /\ r.held = Start!NoConn
         /\ r.outcome = Start!Running /\ (Start!Preferring(r) <=> w)
<1> DEFINE z == [webrtc |-> w, others |-> s, held |-> Start!NoConn, werr |-> FALSE,
                 oerr |-> FALSE, window |-> FALSE, outcome |-> Start!Running]
<1>1. r = z
  BY DEF Start!NewRace, Start!NewSelect
<1> HIDE DEF Start!Conns, Start!NoConn, Start!Running, Start!Failures
<1>2. z \in Start!Races
  BY DEF Start!Races
<1>3. /\ z.webrtc = w /\ z.others = s /\ z.held = Start!NoConn /\ z.outcome = Start!Running
      /\ z.werr = FALSE
  OBVIOUS
<1> HIDE DEF z
<1> QED
  BY <1>1, <1>2, <1>3 DEF Start!Preferring

\* What the rendezvous server says.
ReplyType == [via : {"none", "punched", "relayed"}, transports : SUBSET MCTypes,
              relay : BOOLEAN, port : BOOLEAN]

\* A reply without an answer drops the guard and races the rest.
LEMMA PlainKeeps ==
  ASSUME StartAssumption, StartInv, NEW a \in Start!Attempts, at[a] \in {"punch", "answer"},
         NEW r \in ReplyType,
         r.transports \in SUBSET {"tcp", "udp", "v6", "relay"},
         cfg.force /\ r.via # "punched" => r.transports \subseteq {"relay"},
         at[a] = "answer" => reply[a] = r,
         Start!Plain(a, r)
  PROVE  StartInv'
<1> HIDE DEF Start!Conns, Start!NoConn, Start!Running, Start!Failures
<1> USE DEF StartInv
<1>0. Start!Busy(a) /\ (at[a] = "answer" => a = "preferred")
  BY DEF Start!Busy, GuardFits, Start!Attempts
<1>1. CASE ~r.port
  BY <1>0, <1>1, FailsKeeps DEF Start!Plain
<1>2. CASE r.port
  <2>0. /\ Start!Goes(a, "race")
        /\ reply' = [reply EXCEPT ![a] = r]
        /\ startRace' = [startRace EXCEPT ![a] = Start!RaceOf(r, FALSE)]
        /\ offerer' = IF Start!Offers(a) THEN "closed" ELSE offerer
        /\ guard' = (guard /\ ~Start!Offers(a))
        /\ UNCHANGED <<cfg, tries, conn, turn, exchanged, bridge, outer>>
    BY <1>2 DEF Start!Plain
  <2>1. /\ at' \in [Start!Attempts -> Start!Places] /\ \A x \in Start!Attempts \ {a} : at'[x] = at[x]
        /\ at'[a] = "race"
    BY <2>0 DEF Start!Goes, Start!TypeOK, Start!Places
  <2>2. r.transports \in SUBSET MCTypes
    BY DEF StartAssumption, Start!TypesAssumption
  <2> DEFINE q == Start!RaceOf(r, FALSE)
  <2>3. /\ q \in Start!Races /\ q.webrtc = FALSE /\ q.others = r.transports /\ q.held = Start!NoConn
        /\ q.outcome = Start!Running /\ ~Start!Preferring(q)
    BY <2>2, NewRaceFits DEF Start!RaceOf
  <2> HIDE DEF q
  <2>4. /\ startRace' \in [Start!Attempts -> Start!Races] /\ startRace'[a] = q
        /\ \A x \in Start!Attempts \ {a} : startRace'[x] = startRace[x]
    BY <2>0, <2>3 DEF Start!TypeOK, q
  <2>5. reply'[a] = r /\ \A x \in Start!Attempts \ {a} : reply'[x] = reply[x]
    BY <2>0 DEF Start!TypeOK
  <2>6. guard' \in BOOLEAN /\ offerer' \in {"none", "open", "closed"}
    BY <2>0 DEF Start!TypeOK
  <2>r. reply' \in [Start!Attempts -> ReplyType]
    BY <2>0 DEF Start!TypeOK, ReplyType
  <2>7. Start!TypeOK'
    BY <2>0, <2>1, <2>4, <2>6, <2>r DEF Start!TypeOK, ReplyType
  <2>8. RepliesFit'
    <3> SUFFICES ASSUME NEW x \in Start!Attempts
                 PROVE  /\ reply'[x].transports \subseteq {"tcp", "udp", "v6", "relay"}
                        /\ cfg.force /\ reply'[x].via # "punched" => reply'[x].transports \subseteq {"relay"}
      BY <2>0 DEF RepliesFit
    <3>1. CASE x = a
      BY <2>5, <3>1
    <3>2. CASE x # a
      BY <2>5, <3>2 DEF RepliesFit
    <3> QED
      BY <3>1, <3>2
  <2>9. GuardFits'
    <3>1. CASE a = "preferred"
      <4>1. ~guard'
        BY <2>0, <3>1 DEF Start!Offers, Start!TypeOK
      <4> QED
        BY <2>0, <2>1, <3>1, <4>1 DEF GuardFits, Start!Attempts
    <3>2. CASE a = "fallback"
      <4>1. guard' = guard /\ offerer' = offerer
        BY <2>0, <3>2 DEF Start!Offers, Start!TypeOK
      <4> QED
        BY <2>0, <2>1, <2>5, <3>2, <4>1 DEF GuardFits, Start!Attempts, Start!Busy
    <3> QED
      BY <3>1, <3>2 DEF Start!Attempts
  <2>10. BridgeFits'
    BY <1>0, <2>0, <2>1, <2>5 DEF BridgeFits, Start!SocketNotShared, Start!Attempts
  <2>l. /\ Start!NoConn.typ # "webrtc" /\ Start!Running.typ # "webrtc"
        /\ Start!Running \notin Start!Conns /\ Start!NoConn \notin Start!Conns
    BY Labels
  <2>11. RaceFits(a)'
    BY <2>l, <2>3, <2>4, <2>5 DEF RaceFits, WebrtcOnce, Carries
  <2>12. ConnFits(a)'
    BY <2>0, <2>1 DEF ConnFits
  <2>13. a = "preferred" \/ UNCHANGED <<offerer, turn, guard>>
    BY <2>0 DEF Start!Offers, Start!TypeOK
  <2>14. offerer' = "open" => offerer = "open" /\ (guard => guard')
    BY <2>0
  <2> QED
    BY <1>0, <2>0, <2>1, <2>4, <2>5, <2>7, <2>8, <2>9, <2>10, <2>11, <2>12, <2>13, <2>14,
       GoesOnKeeps
<1> QED
  BY <1>1, <1>2

\* What the rendezvous server may say: a forced relay has no IPv6 socket, and
\* a request with an offer does not punch TCP.
LEMMA RepliesSaid ==
  ASSUME StartAssumption, StartInv, NEW a \in Start!Attempts, NEW r \in Start!Replies(a)
  PROVE  /\ r \in ReplyType
         /\ r.transports \in SUBSET {"tcp", "udp", "v6", "relay"}
         /\ cfg.force /\ r.via # "punched" => r.transports \subseteq {"relay"}
         /\ Start!Offers(a) => "tcp" \notin r.transports
<1>0. cfg.force => ~cfg.v6
  BY DEF StartInv, Start!Possible
<1>t. {"tcp", "udp", "v6", "relay"} \subseteq MCTypes
  BY DEF StartAssumption, Start!TypesAssumption
<1>1. \A s \in Start!PunchSets(a) : /\ s \in SUBSET {"tcp", "udp", "v6", "relay"}
                                    /\ Start!Offers(a) => "tcp" \notin s
  BY DEF Start!PunchSets, Start!allow_tcp_punch
<1>2. \A s \in Start!RelaySets(a) : /\ s \in SUBSET {"tcp", "udp", "v6", "relay"} /\ "tcp" \notin s
                                    /\ cfg.force => s \subseteq {"relay"}
  BY <1>0 DEF Start!RelaySets
<1> HIDE DEF Start!PunchSets, Start!RelaySets, Start!Offers
<1>3. CASE r \in [via : {"punched"}, transports : Start!PunchSets(a), relay : BOOLEAN, port : BOOLEAN]
  <2>0. PICK s \in Start!PunchSets(a) : s = r.transports /\ r.via = "punched"
    BY <1>3
  <2>1. s \in SUBSET {"tcp", "udp", "v6", "relay"} /\ (Start!Offers(a) => "tcp" \notin s)
    BY <1>1
  <2>2. r.transports \in SUBSET MCTypes
    BY <2>0, <2>1, <1>t
  <2>3. PICK t \in SUBSET MCTypes : t = r.transports
    BY <2>2
  <2>4. r \in ReplyType
    BY <1>3, <2>3 DEF ReplyType
  <2> QED
    BY <2>0, <2>1, <2>4
<1>4. CASE r \in [via : {"relayed"}, transports : Start!RelaySets(a), relay : {TRUE}, port : {TRUE}]
  <2>0. PICK s \in Start!RelaySets(a) : s = r.transports
    BY <1>4
  <2>1. /\ s \in SUBSET {"tcp", "udp", "v6", "relay"} /\ (Start!Offers(a) => "tcp" \notin s)
        /\ cfg.force => s \subseteq {"relay"}
    BY <1>2
  <2>2. r.transports \in SUBSET MCTypes
    BY <2>0, <2>1, <1>t
  <2>3. PICK t \in SUBSET MCTypes : t = r.transports
    BY <2>2
  <2>4. r \in ReplyType
    BY <1>4, <2>3 DEF ReplyType
  <2> QED
    BY <2>0, <2>1, <2>4
<1> QED
  BY <1>3, <1>4 DEF Start!Replies

\* The reply, with or without an answer.
LEMMA RepliedKeeps ==
  ASSUME StartAssumption, StartInv, NEW a \in Start!Attempts, Start!Replied(a)
  PROVE  StartInv'
<1> HIDE DEF Start!Conns, Start!NoConn, Start!Running, Start!Failures
<1> USE DEF StartInv
<1>0. at[a] = "punch" /\ Start!Busy(a)
  BY DEF Start!Replied, Start!Busy
<1>1. PICK r \in Start!Replies(a) :
        \/ Start!Plain(a, r)
        \/ /\ Start!Offers(a)
           /\ Start!Goes(a, "answer")
           /\ reply' = [reply EXCEPT ![a] = r]
           /\ UNCHANGED <<cfg, tries, startRace, conn, Start!offerer, outer>>
  BY DEF Start!Replied
<1>2. /\ r \in ReplyType /\ r.transports \in SUBSET {"tcp", "udp", "v6", "relay"}
      /\ cfg.force /\ r.via # "punched" => r.transports \subseteq {"relay"}
      /\ Start!Offers(a) => "tcp" \notin r.transports
  BY RepliesSaid
<1>3. CASE Start!Plain(a, r)
  BY <1>0, <1>2, <1>3, PlainKeeps
<1>4. CASE /\ Start!Offers(a)
           /\ Start!Goes(a, "answer")
           /\ reply' = [reply EXCEPT ![a] = r]
           /\ UNCHANGED <<cfg, tries, startRace, conn, Start!offerer, outer>>
  <2>0. /\ a = "preferred" /\ guard /\ "tcp" \notin r.transports
        /\ UNCHANGED <<cfg, tries, startRace, conn, offerer, turn, guard, exchanged, bridge, outer>>
    BY <1>2, <1>4 DEF Start!Offers, Start!offerer
  <2>1. /\ at' \in [Start!Attempts -> Start!Places] /\ \A x \in Start!Attempts \ {a} : at'[x] = at[x]
        /\ at'[a] = "answer"
    BY <1>4 DEF Start!Goes, Start!TypeOK, Start!Places
  <2>2. /\ reply' \in [Start!Attempts -> ReplyType] /\ reply'[a] = r
        /\ \A x \in Start!Attempts \ {a} : reply'[x] = reply[x]
    BY <1>2, <1>4 DEF Start!TypeOK, ReplyType
  <2>3. Start!TypeOK'
    BY <2>0, <2>1, <2>2 DEF Start!TypeOK, ReplyType
  <2>4. RepliesFit'
    <3> SUFFICES ASSUME NEW x \in Start!Attempts
                 PROVE  /\ reply'[x].transports \subseteq {"tcp", "udp", "v6", "relay"}
                        /\ cfg.force /\ reply'[x].via # "punched" => reply'[x].transports \subseteq {"relay"}
      BY <2>0 DEF RepliesFit
    <3>1. CASE x = a
      BY <1>2, <2>2, <3>1
    <3>2. CASE x # a
      BY <2>2, <3>2 DEF RepliesFit
    <3> QED
      BY <3>1, <3>2
  <2>5. GuardFits'
    BY <1>0, <2>0, <2>1, <2>2 DEF GuardFits, Start!Attempts, Start!Busy
  <2>6. BridgeFits'
    BY <1>0, <2>0, <2>1, <2>2 DEF BridgeFits, Start!SocketNotShared, Start!Attempts
  <2>7. RaceFits(a)' /\ ConnFits(a)'
    BY <1>0, <2>0, <2>1 DEF RaceFits, ConnFits
  <2> QED
    BY <1>0, <2>0, <2>1, <2>2, <2>3, <2>4, <2>5, <2>6, <2>7, GoesOnKeeps
<1> QED
  BY <1>1, <1>3, <1>4

\* The race that an answer starts.
LEMMA RaceOfFits ==
  ASSUME StartAssumption, NEW r, r.transports \in SUBSET {"tcp", "udp", "v6", "relay"}
  PROVE  LET q == Start!RaceOf(r, TRUE) IN
         /\ q \in Start!Races /\ q.others \subseteq r.transports \cup {"webrtc"}
         /\ q.held = Start!NoConn /\ q.outcome = Start!Running
         /\ "webrtc" \in q.others => ~Start!Preferring(q)
<1> HIDE DEF Start!Conns, Start!NoConn, Start!Running, Start!Failures
<1>1. r.transports \in SUBSET MCTypes /\ r.transports \cup {"webrtc"} \in SUBSET MCTypes
      /\ {"webrtc"} \in SUBSET MCTypes /\ "webrtc" \notin r.transports
  BY DEF StartAssumption, Start!TypesAssumption
<1> DEFINE q == Start!RaceOf(r, TRUE)
<1>2. CASE q = Start!NewSelect({"webrtc"})
  <2> HIDE DEF q
  <2>1. q \in Start!Races /\ q.others = {"webrtc"} /\ q.held = Start!NoConn /\ q.outcome = Start!Running
        /\ ~Start!Preferring(q)
    BY <1>1, <1>2, NewRaceFits
  <2> QED
    BY <2>1 DEF q
<1>3. CASE q = Start!NewSelect(r.transports \cup {"webrtc"})
  <2> DEFINE s == r.transports \cup {"webrtc"}
  <2>1. q = Start!NewSelect(s) /\ s \in SUBSET MCTypes
    BY <1>1, <1>3
  <2> HIDE DEF s, q
  <2>2. q \in Start!Races /\ q.others = s /\ q.held = Start!NoConn /\ q.outcome = Start!Running /\ ~Start!Preferring(q)
    BY <2>1, NewRaceFits
  <2> QED
    BY <2>2 DEF s, q
<1>4. CASE q = Start!NewRace(r.transports)
  <2> HIDE DEF q
  <2>2. q \in Start!Races /\ q.others = r.transports /\ q.held = Start!NoConn /\ q.outcome = Start!Running
    BY <1>1, <1>4, NewRaceFits
  <2> QED
    BY <1>1, <2>2 DEF q
<1> QED
  BY <1>2, <1>3, <1>4 DEF Start!RaceOf

\* The answer is set: the bridge and the race start.
LEMMA AnswerSetKeeps ==
  ASSUME StartAssumption, StartInv, NEW a \in Start!Attempts, Start!AnswerSet(a)
  PROVE  StartInv'
<1> HIDE DEF Start!Conns, Start!NoConn, Start!Running, Start!Failures
<1> USE DEF StartInv
<1>0. /\ at[a] = "answer" /\ Start!Busy(a) /\ a = "preferred" /\ guard
      /\ Start!Goes(a, "race")
      /\ startRace' = [startRace EXCEPT ![a] = Start!RaceOf(reply[a], TRUE)]
      /\ bridge' = "running"
      /\ UNCHANGED <<cfg, tries, reply, conn, offerer, turn, guard, exchanged, outer>>
  BY DEF Start!AnswerSet, Start!Busy, GuardFits, Start!Attempts
<1>1. /\ at' \in [Start!Attempts -> Start!Places] /\ \A x \in Start!Attempts \ {a} : at'[x] = at[x]
      /\ at'[a] = "race"
  BY <1>0 DEF Start!Goes, Start!TypeOK, Start!Places
<1> DEFINE q == Start!RaceOf(reply[a], TRUE)
<1>2. /\ q \in Start!Races /\ q.others \subseteq reply[a].transports \cup {"webrtc"}
      /\ q.held = Start!NoConn /\ q.outcome = Start!Running
      /\ "webrtc" \in q.others => ~Start!Preferring(q)
  BY RaceOfFits DEF RepliesFit
<1> HIDE DEF q
<1>3. /\ startRace' \in [Start!Attempts -> Start!Races] /\ startRace'[a] = q
      /\ \A x \in Start!Attempts \ {a} : startRace'[x] = startRace[x]
  BY <1>0, <1>2 DEF Start!TypeOK, q
<1>4. Start!TypeOK' /\ RepliesFit'
  BY <1>0, <1>1, <1>3 DEF Start!TypeOK, RepliesFit
<1>5. GuardFits'
  BY <1>0, <1>1 DEF GuardFits, Start!Attempts, Start!Busy
<1>6. BridgeFits'
  BY <1>0, <1>1 DEF BridgeFits, Start!SocketNotShared, Start!Attempts, GuardFits
<1>l. /\ Start!NoConn.typ # "webrtc" /\ Start!Running.typ # "webrtc"
      /\ Start!Running \notin Start!Conns /\ Start!NoConn \notin Start!Conns
  BY Labels
<1>7. RaceFits(a)'
  BY <1>l, <1>0, <1>2, <1>3 DEF RaceFits, WebrtcOnce
<1>8. ConnFits(a)'
  BY <1>0, <1>1 DEF ConnFits
<1> QED
  BY <1>0, <1>1, <1>3, <1>4, <1>5, <1>6, <1>7, <1>8, GoesOnKeeps

\* The answer is rejected: the race is a plain one.
LEMMA AnswerRejectedKeeps ==
  ASSUME StartAssumption, StartInv, NEW a \in Start!Attempts, Start!AnswerRejected(a)
  PROVE  StartInv'
<1>1. reply[a] \in ReplyType
  BY DEF StartInv, Start!TypeOK, ReplyType
<1> QED
  BY <1>1, PlainKeeps DEF Start!AnswerRejected, StartInv, RepliesFit

\* The answer is set and there is no address: the one exit that closes by hand.
LEMMA NoAddressKeeps ==
  ASSUME StartAssumption, StartInv, NEW a \in Start!Attempts, Start!NoAddress(a)
  PROVE  StartInv'
<1> HIDE DEF Start!Conns, Start!NoConn, Start!Running, Start!Failures
<1>0. /\ at[a] = "answer" /\ a = "preferred" /\ exchanged
      /\ "tcp" \notin reply["preferred"].transports
  BY DEF Start!NoAddress, StartInv, GuardFits, Start!Attempts
<1>1. ~Start!Ended(outer) /\ outer \in Start!Races /\ Start!Busy(a)
  BY <1>0, BusyNotEnded DEF Start!Busy
<1>2. Advances(outer, Start!Outer(a, Start!NoConn), Start!NoConn)
  BY <1>1, OuterAdvances
<1>3. Start!NoConn \notin Start!Conns /\ Start!NoConn.typ # "webrtc"
  BY Labels
<1>4. conn \in [Start!Attempts -> Start!Conns \cup {Start!NoConn}]
  BY DEF StartInv, Start!TypeOK
<1> DEFINE o == Start!Outer(a, Start!NoConn)
<1>5. Start!Settle(o, a, TRUE, "running") /\ UNCHANGED <<cfg, tries, reply, startRace, conn, turn, exchanged>>
  BY DEF Start!NoAddress
<1>6. Advances(outer, o, Start!NoConn)
  BY <1>2
<1> HIDE DEF o
<1> QED
  BY <1>0, <1>1, <1>3, <1>4, <1>5, <1>6, SettleKeeps DEF Fair

\* The race of an attempt goes on: what it holds or returns is what it held or
\* what came out.
LEMMA RaceStepKeeps ==
  ASSUME StartAssumption, StartInv, NEW a \in Start!Attempts, at[a] = "race",
         NEW o, NEW c \in Start!Conns \cup {Start!NoConn},
         Advances(startRace[a], o, c), ~Start!Ended(startRace[a]),
         startRace' = [startRace EXCEPT ![a] = o],
         WebrtcOnce(o), Carries(o) => Carries(startRace[a]),
         c \in Start!Conns => Honest(c)' /\ c.typ \in reply[a].transports \cup {"webrtc"},
         turn' \in BOOLEAN, turn' # turn => a = "preferred" /\ startRace[a].held.typ # "webrtc",
         UNCHANGED <<cfg, at, tries, reply, conn, offerer, guard, exchanged, bridge, outer>>
  PROVE  StartInv'
<1> HIDE DEF Start!Conns, Start!NoConn, Start!Running, Start!Failures
<1> USE DEF StartInv
<1>0. Start!Busy(a) /\ at'[a] = "race"
  BY DEF Start!Busy
<1>1. /\ startRace' \in [Start!Attempts -> Start!Races] /\ startRace'[a] = o
      /\ \A x \in Start!Attempts \ {a} : startRace'[x] = startRace[x]
  BY DEF Start!TypeOK, Advances
<1>2. Start!TypeOK' /\ RepliesFit'
  BY <1>1 DEF Start!TypeOK, RepliesFit
<1>3. GuardFits'
  BY DEF GuardFits, Start!Busy
<1>4. BridgeFits'
  BY DEF BridgeFits, Start!SocketNotShared
<1>5. ConnFits(a)'
  BY <1>0 DEF ConnFits
<1>l. /\ Start!Running \notin Start!Conns
      /\ \A f \in Start!Failures : f \notin Start!Conns
      /\ Start!NoConn \notin Start!Conns
  BY Labels
<1>6. RaceFits(a)'
  <2>0. RaceFits(a) /\ startRace'[a] = o /\ reply' = reply /\ cfg' = cfg /\ guard' = guard
    BY <1>1
  <2>1. o.others \subseteq reply[a].transports \cup {"webrtc"}
    BY <2>0 DEF RaceFits, Advances
  <2>2. ASSUME NEW d \in Start!Conns, d \in {o.held, o.outcome}
        PROVE  Honest(d)' /\ d.typ \in reply[a].transports \cup {"webrtc"}
    <3>1. d = startRace[a].held \/ d = c
      BY <2>2, <1>l DEF Advances
    <3>2. CASE d = c
      BY <3>2
    <3>3. CASE d = startRace[a].held
      <4>1. Honest(d) /\ d.typ \in reply[a].transports \cup {"webrtc"}
        BY <2>0, <3>3 DEF RaceFits
      <4> QED
        BY <3>3, <4>1 DEF Honest
    <3> QED
      BY <3>1, <3>2, <3>3
  <2>3. (\A d \in Start!Conns \cap {startRace[a].held, startRace[a].outcome} :
           Honest(d) /\ d.typ \in reply[a].transports \cup {"webrtc"})'
    BY <2>0, <2>2 DEF Honest
  <2>4. WebrtcOnce(startRace[a])' /\ (Carries(startRace[a])' => a = "preferred" /\ guard)
    BY <2>0 DEF WebrtcOnce, Carries, Start!Preferring, Start!Ended, RaceFits
  <2> QED
    BY <2>0, <2>1, <2>3, <2>4 DEF RaceFits
<1> QED
  BY <1>0, <1>1, <1>2, <1>3, <1>4, <1>5, <1>6, GoesOnKeeps

\* The step of a race in which WebRTC comes out once, in each of its forms.
LEMMA OnceKept ==
  ASSUME StartAssumption, NEW q \in Start!Races, ~Start!Ended(q), WebrtcOnce(q),
         NEW c \in Start!Conns \cup {Start!NoConn}, NEW o, Advances(q, o, c),
         c.typ = "webrtc" => "webrtc" \in q.others \/ q.webrtc,
         \/ ~Start!Preferring(q) /\ o.held = q.held /\ o.werr = q.werr /\ o.webrtc = q.webrtc
         \/ Start!Preferring(q) /\ (c.typ = "webrtc" => ~o.webrtc)
  PROVE  WebrtcOnce(o) /\ (Carries(o) => Carries(q))
<1> HIDE DEF Start!Conns, Start!NoConn, Start!Running, Start!Failures
<1>l. Start!Running.typ # "webrtc" /\ \A f \in Start!Failures : f.typ # "webrtc"
  BY Labels
<1>1. WebrtcOnce(o)
  BY DEF WebrtcOnce, Start!Preferring, Advances
<1>2. Carries(o) => Carries(q)
  BY <1>l DEF Carries, Advances
<1> QED
  BY <1>1, <1>2

\* A transport comes out, WebRTC with what ICE has nominated.
LEMMA ArrivesKeeps ==
  ASSUME StartAssumption, StartInv, NEW a \in Start!Attempts, NEW t \in MCTypes, Start!Arrives(a, t)
  PROVE  StartInv'
<1> HIDE DEF Start!Conns, Start!NoConn, Start!Running, Start!Failures
<1> USE DEF StartInv
<1> DEFINE q == startRace[a]
<1>0. /\ at[a] = "race" /\ ~Start!Ended(q) /\ q \in Start!Races
      /\ t \in q.others \/ (t = "webrtc" /\ q.webrtc)
      /\ IF t = "webrtc" THEN turn' \in {cfg.policy, TRUE} ELSE UNCHANGED turn
      /\ UNCHANGED <<cfg, at, tries, reply, conn, offerer, guard, exchanged, bridge, outer>>
      /\ cfg.policy \in BOOLEAN /\ turn \in BOOLEAN
  BY DEF Start!Arrives, Start!TypeOK, Start!Cfgs
<1>1. RaceFits(a)
  OBVIOUS
<1>2. WebrtcOnce(q) /\ q.others \subseteq reply[a].transports \cup {"webrtc"}
  BY <1>0, <1>1 DEF RaceFits
<1>3. t = "webrtc" => a = "preferred" /\ q.held.typ # "webrtc"
  BY <1>0, <1>1, <1>2 DEF RaceFits, WebrtcOnce, Carries
<1>4. t \in reply[a].transports \cup {"webrtc"}
  BY <1>0, <1>2
<1>l. Start!NoConn.typ # "webrtc" /\ Start!NoConn \notin Start!Conns
  BY Labels
<1>5. ASSUME NEW c \in Start!Results(t),
             startRace' = [startRace EXCEPT ![a] =
                       IF ~Start!Preferring(q) THEN Start!SelectOk(q, c)
                       ELSE IF t = "webrtc" THEN Start!WebrtcOk(q, c)
                       ELSE Start!OtherOk(q, t, c)]
      PROVE  StartInv'
  <2>1. PICK d \in IF t = "webrtc" THEN {FALSE} \cup {~turn'} ELSE {Start!Direct(t)} :
          c = [typ |-> t, direct |-> d]
    BY DEF Start!Results
  <2>2. d \in BOOLEAN
    <3>1. CASE t = "webrtc"
      BY <1>0, <2>1, <3>1
    <3>2. CASE t # "webrtc"
      <4>1. d = Start!Direct(t)
        BY <2>1, <3>2
      <4>2. Start!Direct(t) \in BOOLEAN
        <5>1. CASE t \in {"tcp", "udp", "v6"}
          <6>1. Start!Direct(t) = TRUE
            BY <5>1 DEF Start!Direct
          <6> QED
            BY <6>1
        <5>2. CASE t \notin {"tcp", "udp", "v6"}
          <6>1. Start!Direct(t) = FALSE
            BY <5>2 DEF Start!Direct
          <6> QED
            BY <6>1
        <5> QED
          BY <5>1, <5>2
      <4> QED
        BY <4>1, <4>2
    <3> QED
      BY <3>1, <3>2
  <2>3. c \in Start!Conns /\ c.typ = t /\ c.direct = d
    BY <2>1, <2>2 DEF Start!Conns
  <2>4. Honest(c)'
    BY <1>0, <2>1, <2>3 DEF Honest, Start!Direct
  <2> DEFINE o == IF ~Start!Preferring(q) THEN Start!SelectOk(q, c)
                  ELSE IF t = "webrtc" THEN Start!WebrtcOk(q, c)
                  ELSE Start!OtherOk(q, t, c)
  <2> HIDE DEF q
  <2>5. Advances(q, o, c)
    BY <1>0, <2>3, SelectAdvances, WebrtcAdvances, OtherAdvances
  <2>6. \/ ~Start!Preferring(q) /\ o.held = q.held /\ o.werr = q.werr /\ o.webrtc = q.webrtc
        \/ Start!Preferring(q) /\ (c.typ = "webrtc" => ~o.webrtc)
    BY <1>0, <2>3, SelectAdvances, WebrtcAdvances
  <2>o. startRace' = [startRace EXCEPT ![a] = o]
    BY <1>5
  <2> HIDE DEF o
  <2>7. WebrtcOnce(o) /\ (Carries(o) => Carries(q))
    BY <1>0, <1>2, <2>3, <2>5, <2>6, OnceKept
  <2>8. turn' \in BOOLEAN /\ (turn' # turn => t = "webrtc")
    BY <1>0
  <2> QED
    BY <1>0, <1>3, <1>4, <2>3, <2>4, <2>5, <2>7, <2>8, <2>o, RaceStepKeeps DEF q
<1>6. ASSUME startRace' = [startRace EXCEPT ![a] =
                       IF ~Start!Preferring(q) THEN Start!SelectErr(q, t)
                       ELSE IF t = "webrtc" THEN Start!WebrtcErr(q)
                       ELSE Start!OtherErr(q, t)]
      PROVE  StartInv'
  <2>1. PICK d : d \in Start!Conns
    <3>1. [typ |-> "tcp", direct |-> TRUE] \in Start!Conns
      BY DEF Start!Conns, StartAssumption, Start!TypesAssumption
    <3> QED
      BY <3>1
  <2> DEFINE o == IF ~Start!Preferring(q) THEN Start!SelectErr(q, t)
                  ELSE IF t = "webrtc" THEN Start!WebrtcErr(q)
                  ELSE Start!OtherErr(q, t)
  <2> HIDE DEF q
  <2>5. Advances(q, o, Start!NoConn)
    BY <1>0, <2>1, SelectAdvances, WebrtcAdvances, OtherAdvances
  <2>6. \/ ~Start!Preferring(q) /\ o.held = q.held /\ o.werr = q.werr /\ o.webrtc = q.webrtc
        \/ Start!Preferring(q)
    BY <1>0, <2>1, SelectAdvances
  <2>o. startRace' = [startRace EXCEPT ![a] = o]
    BY <1>6
  <2> HIDE DEF o
  <2>7. WebrtcOnce(o) /\ (Carries(o) => Carries(q))
    BY <1>0, <1>2, <1>l, <2>5, <2>6, OnceKept
  <2>8. turn' \in BOOLEAN /\ (turn' # turn => t = "webrtc")
    BY <1>0
  <2> QED
    BY <1>0, <1>3, <1>l, <2>5, <2>7, <2>8, <2>o, RaceStepKeeps DEF q
<1> QED
  BY <1>5, <1>6 DEF Start!Arrives

\* The window of an attempt's race.
LEMMA WindowEndsKeeps ==
  ASSUME StartAssumption, StartInv, NEW a \in Start!Attempts, Start!WindowEnds(a)
  PROVE  StartInv'
<1> HIDE DEF Start!Conns, Start!NoConn, Start!Running, Start!Failures
<1> DEFINE q == startRace[a]
           o == Start!WindowOver(q)
<1>0. /\ at[a] = "race" /\ ~Start!Ended(q) /\ q \in Start!Races /\ startRace' = [startRace EXCEPT ![a] = o]
      /\ UNCHANGED <<cfg, at, tries, reply, conn, offerer, turn, guard, exchanged, bridge, outer>>
  BY DEF Start!WindowEnds, StartInv, Start!TypeOK, Start!offerer
<1>1. WebrtcOnce(q) /\ turn \in BOOLEAN
  BY <1>0 DEF StartInv, RaceFits, Start!TypeOK
<1>l. Start!NoConn.typ # "webrtc" /\ Start!NoConn \notin Start!Conns
  BY Labels
<1> HIDE DEF q
<1>2. /\ Advances(q, o, Start!NoConn)
      /\ o.held = q.held /\ o.werr = q.werr /\ o.webrtc = q.webrtc
  BY <1>0, WindowAdvances
<1> HIDE DEF o
<1>3. WebrtcOnce(o) /\ (Carries(o) => Carries(q))
  BY <1>0, <1>1, <1>2, <1>l, OnceKept
<1> QED
  BY <1>0, <1>1, <1>2, <1>3, <1>l, RaceStepKeeps DEF q

\* The race is over: what a forced relay lets pass is kept.
LEMMA RacedKeeps ==
  ASSUME StartAssumption, StartInv, NEW a \in Start!Attempts, Start!Raced(a)
  PROVE  StartInv'
<1> HIDE DEF Start!Conns, Start!NoConn, Start!Running, Start!Failures
<1> USE DEF StartInv
<1> DEFINE q == startRace[a]
           keep == /\ Start!Won(q)
                   /\ reply[a].via = "punched" /\ cfg.force => q.outcome.typ = "webrtc"
           relays == reply[a].via = "punched" /\ reply[a].relay
<1>0. at[a] = "race" /\ Start!Busy(a)
  BY DEF Start!Raced, Start!RacedTo, Start!Busy
<1>1. \/ Start!Fails(a)
      \/ /\ keep \/ relays
         /\ Start!Goes(a, IF keep THEN "secure" ELSE "relay")
         /\ conn' = [conn EXCEPT ![a] = IF keep THEN q.outcome ELSE Start!NoConn]
         /\ bridge' = IF a = "preferred" THEN Start!Told ELSE bridge
         /\ UNCHANGED <<cfg, tries, reply, startRace, offerer, turn, guard, exchanged, outer>>
  BY DEF Start!Raced, Start!RacedTo
<1>2. CASE Start!Fails(a)
  BY <1>0, <1>2, FailsKeeps
<1>3. CASE /\ Start!Goes(a, IF keep THEN "secure" ELSE "relay")
           /\ conn' = [conn EXCEPT ![a] = IF keep THEN q.outcome ELSE Start!NoConn]
           /\ bridge' = IF a = "preferred" THEN Start!Told ELSE bridge
           /\ UNCHANGED <<cfg, tries, reply, startRace, offerer, turn, guard, exchanged, outer>>
  <2>r. /\ RaceFits(a) /\ reply[a].transports \subseteq {"tcp", "udp", "v6", "relay"}
        /\ cfg.force /\ reply[a].via # "punched" => reply[a].transports \subseteq {"relay"}
    BY DEF RepliesFit
  <2>1. keep => /\ q.outcome \in Start!Conns /\ Fair(q.outcome)
                /\ q.outcome.typ = "webrtc" => a = "preferred" /\ guard
    BY <1>0, <2>r DEF Start!Won, RaceFits, Fair, Forced, Carries
  <2>2. /\ at' \in [Start!Attempts -> Start!Places] /\ \A x \in Start!Attempts \ {a} : at'[x] = at[x]
        /\ at'[a] = IF keep THEN "secure" ELSE "relay"
    BY <1>3 DEF Start!Goes, Start!TypeOK, Start!Places
  <2>3. /\ conn' \in [Start!Attempts -> Start!Conns \cup {Start!NoConn}]
        /\ \A x \in Start!Attempts \ {a} : conn'[x] = conn[x]
        /\ conn'[a] = IF keep THEN q.outcome ELSE Start!NoConn
    BY <1>3, <2>1 DEF Start!TypeOK
  <2> HIDE DEF keep, relays, q
  <2>4. bridge' \in {"none", "running", "told", "ended"}
    BY <1>3 DEF Start!TypeOK, Start!Told
  <2>5. Start!TypeOK' /\ RepliesFit'
    BY <1>3, <2>2, <2>3, <2>4 DEF Start!TypeOK, RepliesFit
  <2>6. GuardFits'
    BY <1>0, <1>3, <2>2 DEF GuardFits, Start!Attempts, Start!Busy
  <2>7. BridgeFits'
    BY <1>0, <1>3, <2>2 DEF BridgeFits, Start!SocketNotShared, Start!Told, Start!Attempts
  <2>8. RaceFits(a)'
    BY <2>2 DEF RaceFits
  <2>9. ConnFits(a)'
    <3>1. CASE keep
      BY <1>3, <2>1, <2>2, <2>3, <3>1 DEF ConnFits, Fair, Honest, Forced
    <3>2. CASE ~keep
      BY <2>2, <2>3, <3>2 DEF ConnFits
    <3> QED
      BY <3>1, <3>2
  <2> QED
    BY <1>0, <1>3, <2>2, <2>3, <2>5, <2>6, <2>7, <2>8, <2>9, GoesOnKeeps
<1> QED
  BY <1>1, <1>2, <1>3

\* A relay is an honest connection under any setting.
LEMMA RelayFair ==
  ASSUME StartAssumption
  PROVE  LET c == [typ |-> "relay", direct |-> FALSE]
         IN  c \in Start!Conns /\ Fair(c) /\ c.typ = "relay"
<1> DEFINE c == [typ |-> "relay", direct |-> FALSE]
<1>1. c \in Start!Conns /\ c.typ = "relay" /\ c.direct = FALSE
  BY DEF Start!Conns, StartAssumption, Start!TypesAssumption
<1> HIDE DEF c
<1>2. Fair(c)
  BY <1>1 DEF Fair, Honest, Forced
<1> QED
  BY <1>1, <1>2 DEF c

\* request_relay, for want of a direct connection.
LEMMA RelayInsteadKeeps ==
  ASSUME StartAssumption, StartInv, NEW a \in Start!Attempts, Start!RelayInstead(a)
  PROVE  StartInv'
<1> HIDE DEF Start!Conns, Start!NoConn, Start!Running, Start!Failures
<1> USE DEF StartInv
<1> DEFINE c == [typ |-> "relay", direct |-> FALSE]
<1>0. at[a] = "relay" /\ Start!Busy(a)
  BY DEF Start!RelayInstead, Start!Busy
<1>1. CASE Start!Fails(a)
  BY <1>0, <1>1, FailsKeeps
<1>2. CASE /\ Start!Goes(a, "secure")
           /\ conn' = [conn EXCEPT ![a] = c]
           /\ UNCHANGED <<cfg, tries, reply, startRace, Start!offerer, outer>>
  <2>1. c \in Start!Conns /\ Fair(c) /\ c.typ = "relay"
    BY RelayFair
  <2> HIDE DEF c
  <2>2. /\ at' \in [Start!Attempts -> Start!Places] /\ \A x \in Start!Attempts \ {a} : at'[x] = at[x]
        /\ at'[a] = "secure"
    BY <1>2 DEF Start!Goes, Start!TypeOK, Start!Places
  <2>3. /\ conn' \in [Start!Attempts -> Start!Conns \cup {Start!NoConn}] /\ conn'[a] = c
        /\ \A x \in Start!Attempts \ {a} : conn'[x] = conn[x]
    BY <1>2, <2>1 DEF Start!TypeOK
  <2>4. UNCHANGED <<cfg, tries, reply, startRace, offerer, turn, guard, exchanged, bridge, outer>>
    BY <1>2 DEF Start!offerer
  <2>5. Start!TypeOK' /\ RepliesFit'
    BY <2>2, <2>3, <2>4 DEF Start!TypeOK, RepliesFit
  <2>6. GuardFits'
    BY <1>0, <2>2, <2>4 DEF GuardFits, Start!Attempts, Start!Busy
  <2>7. BridgeFits'
    BY <1>0, <2>2, <2>4 DEF BridgeFits, Start!SocketNotShared, Start!Attempts
  <2>8. RaceFits(a)' /\ ConnFits(a)'
    BY <2>1, <2>2, <2>3, <2>4 DEF RaceFits, ConnFits, Fair, Honest, Forced
  <2> QED
    BY <1>0, <2>2, <2>3, <2>4, <2>5, <2>6, <2>7, <2>8, GoesOnKeeps
<1> QED
  BY <1>1, <1>2 DEF Start!RelayInstead

\* secure_connection, and WebRTC that it refuses.
LEMMA SecureKeeps ==
  ASSUME StartAssumption, StartInv, NEW a \in Start!Attempts, Start!Secure(a)
  PROVE  StartInv'
<1> HIDE DEF Start!Conns, Start!NoConn, Start!Running, Start!Failures
<1> USE DEF StartInv
<1>0. /\ at[a] = "secure" /\ Start!Busy(a) /\ conn[a] \in Start!Conns /\ Fair(conn[a])
      /\ conn[a].typ = "webrtc" => a = "preferred" /\ guard
  BY DEF Start!Secure, Start!Busy, ConnFits
<1>1. CASE Start!Fails(a)
  BY <1>0, <1>1, FailsKeeps
<1>2. CASE Start!Succeeds(a, conn[a])
  BY <1>0, <1>2, SucceedsKeeps
<1>3. CASE /\ Start!Goes(a, "pair")
           /\ UNCHANGED <<cfg, tries, reply, startRace, conn, Start!offerer, outer>>
  <2>1. /\ at' \in [Start!Attempts -> Start!Places] /\ \A x \in Start!Attempts \ {a} : at'[x] = at[x]
        /\ at'[a] = "pair"
    BY <1>3 DEF Start!Goes, Start!TypeOK, Start!Places
  <2>2. UNCHANGED <<cfg, tries, reply, startRace, conn, offerer, turn, guard, exchanged, bridge, outer>>
    BY <1>3 DEF Start!offerer
  <2>3. Start!TypeOK' /\ RepliesFit'
    BY <2>1, <2>2 DEF Start!TypeOK, RepliesFit
  <2>4. GuardFits'
    BY <1>0, <2>1, <2>2 DEF GuardFits, Start!Attempts, Start!Busy
  <2>5. BridgeFits'
    BY <1>0, <2>1, <2>2 DEF BridgeFits, Start!SocketNotShared, Start!Attempts
  <2>6. RaceFits(a)' /\ ConnFits(a)'
    BY <1>0, <2>1, <2>2 DEF RaceFits, ConnFits, Fair, Honest, Forced
  <2> QED
    BY <1>0, <2>1, <2>2, <2>3, <2>4, <2>5, <2>6, GoesOnKeeps
<1>4. CASE /\ conn[a].typ = "webrtc"
           /\ Start!Goes(a, "again")
           /\ offerer' = "closed"
           /\ guard' = FALSE
           /\ UNCHANGED <<cfg, tries, reply, startRace, conn, turn, exchanged, bridge, outer>>
  <2>1. /\ at' \in [Start!Attempts -> Start!Places] /\ \A x \in Start!Attempts \ {a} : at'[x] = at[x]
        /\ at'[a] = "again"
    BY <1>4 DEF Start!Goes, Start!TypeOK, Start!Places
  <2>3. Start!TypeOK' /\ RepliesFit'
    BY <1>4, <2>1 DEF Start!TypeOK, RepliesFit
  <2>4. GuardFits'
    BY <1>0, <1>4, <2>1 DEF GuardFits, Start!Attempts, Start!Busy
  <2>5. BridgeFits'
    BY <1>0, <1>4, <2>1 DEF BridgeFits, Start!SocketNotShared, Start!Attempts
  <2>6. RaceFits(a)' /\ ConnFits(a)'
    BY <2>1 DEF RaceFits, ConnFits
  <2> QED
    BY <1>0, <1>4, <2>1, <2>3, <2>4, <2>5, <2>6, GoesOnKeeps
<1> QED
  BY <1>1, <1>2, <1>3, <1>4 DEF Start!Secure

\* The second look at the nominated pair only takes the flag away.
LEMMA PairReadKeeps ==
  ASSUME StartAssumption, StartInv, NEW a \in Start!Attempts, Start!PairRead(a)
  PROVE  StartInv'
<1> HIDE DEF Start!NoConn, Start!Running, Start!Failures
<1>0. /\ at[a] = "pair" /\ Start!Busy(a) /\ conn[a] \in Start!Conns /\ Fair(conn[a])
      /\ conn[a].typ = "webrtc" => a = "preferred" /\ guard
  BY DEF Start!PairRead, Start!Busy, StartInv, ConnFits
<1>1. PICK unknown \in BOOLEAN :
        Start!Succeeds(a, [conn[a] EXCEPT !.direct = @ /\ ~turn /\ ~unknown])
  BY DEF Start!PairRead
<1> DEFINE c == [conn[a] EXCEPT !.direct = @ /\ ~turn /\ ~unknown]
<1>2. c \in Start!Conns /\ c.typ = conn[a].typ /\ (c.direct => conn[a].direct)
  <2>1. PICK z \in Start!Conns : z = conn[a]
    BY <1>0
  <2>2. (z.direct /\ ~turn /\ ~unknown) \in BOOLEAN
    OBVIOUS
  <2>3. c = [z EXCEPT !.direct = z.direct /\ ~turn /\ ~unknown]
    BY <2>1
  <2> QED
    BY <2>1, <2>2, <2>3 DEF Start!Conns
<1>3. Start!Succeeds(a, c)
  BY <1>1
<1> HIDE DEF c, Start!Conns
<1>4. Fair(c)
  BY <1>0, <1>2 DEF Fair, Honest, Forced
<1> QED
  BY <1>0, <1>2, <1>3, <1>4, SucceedsKeeps

\* request_relay in place of WebRTC.
LEMMA RelayAgainKeeps ==
  ASSUME StartAssumption, StartInv, NEW a \in Start!Attempts, Start!RelayAgain(a)
  PROVE  StartInv'
<1> HIDE DEF Start!Conns, Start!NoConn, Start!Running, Start!Failures
<1> USE DEF StartInv
<1>0. at[a] = "again" /\ Start!Busy(a)
  BY DEF Start!RelayAgain, Start!Busy
<1>1. CASE Start!Fails(a)
  BY <1>0, <1>1, FailsKeeps
<1>2. CASE /\ Start!Goes(a, "secure again")
           /\ UNCHANGED <<cfg, tries, reply, startRace, conn, Start!offerer, outer>>
  <2>1. /\ at' \in [Start!Attempts -> Start!Places] /\ \A x \in Start!Attempts \ {a} : at'[x] = at[x]
        /\ at'[a] = "secure again"
    BY <1>2 DEF Start!Goes, Start!TypeOK, Start!Places
  <2>2. UNCHANGED <<cfg, tries, reply, startRace, conn, offerer, turn, guard, exchanged, bridge, outer>>
    BY <1>2 DEF Start!offerer
  <2>3. Start!TypeOK' /\ RepliesFit'
    BY <2>1, <2>2 DEF Start!TypeOK, RepliesFit
  <2>4. GuardFits'
    BY <1>0, <2>1, <2>2 DEF GuardFits, Start!Attempts, Start!Busy
  <2>5. BridgeFits'
    BY <1>0, <2>1, <2>2 DEF BridgeFits, Start!SocketNotShared, Start!Attempts
  <2>6. RaceFits(a)' /\ ConnFits(a)'
    BY <2>1 DEF RaceFits, ConnFits
  <2> QED
    BY <1>0, <2>1, <2>2, <2>3, <2>4, <2>5, <2>6, GoesOnKeeps
<1> QED
  BY <1>1, <1>2 DEF Start!RelayAgain

\* That relay is secured, with a flag of its own.
LEMMA SecureAgainKeeps ==
  ASSUME StartAssumption, StartInv, NEW a \in Start!Attempts, Start!SecureAgain(a)
  PROVE  StartInv'
<1> HIDE DEF Start!Conns, Start!NoConn, Start!Running, Start!Failures
<1> DEFINE c == [typ |-> "relay", direct |-> FALSE]
<1>0. at[a] = "secure again" /\ Start!Busy(a) /\ (Start!Succeeds(a, c) \/ Start!Fails(a))
  BY DEF Start!SecureAgain, Start!Busy
<1>1. c \in Start!Conns /\ Fair(c) /\ c.typ = "relay"
  BY RelayFair
<1> HIDE DEF c
<1> QED
  BY <1>0, <1>1, FailsKeeps, SucceedsKeeps

\* The window of the race between the attempts.
LEMMA OuterWindowKeeps ==
  ASSUME StartAssumption, StartInv, Start!OuterWindow
  PROVE  StartInv'
<1> HIDE DEF Start!Conns, Start!NoConn, Start!Running, Start!Failures
<1> DEFINE o == Start!WindowOver(outer)
<1>1. /\ ~Start!Ended(outer) /\ outer \in Start!Races
      /\ Start!Settle(o, "none", guard, bridge)
      /\ UNCHANGED <<cfg, tries, reply, startRace, conn, turn, exchanged>>
      /\ guard \in BOOLEAN /\ bridge \in {"none", "running", "told", "ended"}
      /\ conn \in [Start!Attempts -> Start!Conns \cup {Start!NoConn}]
  BY DEF Start!OuterWindow, StartInv, Start!TypeOK
<1>2. Advances(outer, o, Start!NoConn)
  BY <1>1, WindowAdvances
<1>3. Start!NoConn \notin Start!Conns /\ Start!NoConn.typ # "webrtc"
  BY Labels
<1>4. "none" \notin Start!Attempts
  BY DEF Start!Attempts
<1> HIDE DEF o
<1> QED
  BY <1>1, <1>2, <1>3, <1>4, SettleKeeps DEF Fair

\* The bridge stops.
LEMMA BridgeEndsKeeps ==
  ASSUME StartInv, NEW state \in {"told", "running"}, Start!BridgeEnds(state)
  PROVE  StartInv'
<1> HIDE DEF Start!Conns, Start!NoConn, Start!Running, Start!Failures
<1> USE DEF StartInv, Start!BridgeEnds
<1>1. Start!TypeOK' /\ Start!Possible(cfg)' /\ RepliesFit'
  BY DEF Start!TypeOK, Start!Possible, RepliesFit
<1>2. GuardFits' /\ BridgeFits'
  BY DEF GuardFits, BridgeFits, Start!SocketNotShared, Start!Busy
<1>3. ASSUME NEW a \in Start!Attempts PROVE RaceFits(a)' /\ ConnFits(a)'
  <2>1. RaceFits(a) /\ ConnFits(a)
    OBVIOUS
  <2> QED
    BY <2>1 DEF RaceFits, ConnFits, Fair, Honest, Forced, WebrtcOnce, Carries, Start!Preferring, Start!Ended
<1>4. OuterFits'
  BY DEF OuterFits, Kept, Fair, Honest, Forced, Start!Ended, Start!Busy
<1> QED
  BY <1>1, <1>2, <1>3, <1>4

\* The invariant holds at first.
LEMMA StartInit == ASSUME StartAssumption, Start!Init PROVE StartInv
<1> HIDE DEF Start!Conns, Start!NoConn, Start!Running, Start!Failures
<1> USE DEF Start!Init
<1>l. /\ Start!NoConn.typ # "webrtc" /\ Start!Running.typ # "webrtc"
      /\ Start!Running \notin Start!Conns /\ Start!NoConn \notin Start!Conns
  BY Labels
<1>0. cfg \in Start!Cfgs /\ Start!Possible(cfg)
  OBVIOUS
<1>1. /\ at \in [Start!Attempts -> {"off", "rendezvous"}] /\ at["preferred"] = "rendezvous"
  BY DEF Start!Attempts
<1>2. Start!NewSelect({}) \in Start!Races
  BY NewRaceFits
<1>3. outer \in Start!Races /\ outer.held = Start!NoConn /\ outer.outcome = Start!Running
  <2> DEFINE New(w, s) ==
        [webrtc |-> w, others |-> s, held |-> Start!NoConn, werr |-> FALSE,
         oerr |-> FALSE, window |-> FALSE, outcome |-> Start!Running]
  <2>1. ASSUME NEW w \in BOOLEAN, NEW s \in SUBSET (MCTypes \cup Start!Attempts)
        PROVE  New(w, s) \in Start!Races /\ New(w, s).held = Start!NoConn /\ New(w, s).outcome = Start!Running
    BY DEF Start!Races
  <2>2. \E w \in BOOLEAN, s \in SUBSET (MCTypes \cup Start!Attempts) : outer = New(w, s)
    <3>1. CASE Start!Prefers(cfg)
      <4>1. outer = New(TRUE, {"fallback"})
        BY <3>1 DEF Start!NewRace
      <4> QED
        BY <4>1 DEF Start!Attempts
    <3>2. CASE ~Start!Prefers(cfg) /\ Start!Alone(cfg)
      <4>1. outer = New(FALSE, {"preferred"})
        BY <3>2 DEF Start!NewRace, Start!NewSelect
      <4> QED
        BY <4>1 DEF Start!Attempts
    <3>3. CASE ~Start!Prefers(cfg) /\ ~Start!Alone(cfg)
      <4>1. outer = New(FALSE, Start!Attempts)
        BY <3>3 DEF Start!NewRace, Start!NewSelect
      <4> QED
        BY <4>1
    <3> QED
      BY <3>1, <3>2, <3>3
  <2> HIDE DEF New
  <2> QED
    BY <2>1, <2>2
<1>4. Start!TypeOK
  <2>1. 0 \in 0..MaxTries
    BY DEF StartAssumption, Start!TriesAssumption
  <2>2. tries \in [Start!Attempts -> 0..MaxTries]
    BY <2>1
  <2>3. reply \in [Start!Attempts -> ReplyType]
    <3>1. Start!NoReply \in ReplyType
      BY DEF Start!NoReply, ReplyType
    <3> QED
      BY <3>1
  <2>4. startRace \in [Start!Attempts -> Start!Races] /\ conn \in [Start!Attempts -> Start!Conns \cup {Start!NoConn}]
    BY <1>2
  <2>5. {turn, guard, exchanged} \subseteq BOOLEAN
    BY <1>0 DEF Start!Cfgs
  <2>6. at \in [Start!Attempts -> Start!Places]
    BY <1>1 DEF Start!Places
  <2> QED
    BY <1>0, <1>3, <2>2, <2>3, <2>4, <2>5, <2>6 DEF Start!TypeOK, ReplyType
<1>5. RepliesFit
  BY DEF RepliesFit, Start!NoReply
<1>6. GuardFits /\ BridgeFits
  BY <1>1 DEF GuardFits, BridgeFits, Start!SocketNotShared, Start!Busy, Start!Attempts
<1>7. \A a \in Start!Attempts : RaceFits(a) /\ ConnFits(a)
  BY <1>1 DEF RaceFits, ConnFits
<1>8. OuterFits
  BY <1>l, <1>3 DEF OuterFits, Kept, Fair, Start!Ended
<1> QED
  BY <1>0, <1>4, <1>5, <1>6, <1>7, <1>8 DEF StartInv

\* Every step keeps it.
LEMMA StartNext == ASSUME StartAssumption, StartInv, [Start!Next]_Start!vars PROVE StartInv'
<1>1. CASE UNCHANGED Start!vars
  BY <1>1 DEF Start!vars, Start!offerer, StartInv, Start!TypeOK, Start!Possible, RepliesFit, GuardFits, RaceFits, ConnFits,
       BridgeFits, OuterFits, Kept, Fair, Honest, Forced, WebrtcOnce, Carries, Start!Preferring, Start!Ended,
       Start!Busy, Start!SocketNotShared
<1>2. ASSUME NEW a \in Start!Attempts, Start!Step(a) PROVE StartInv'
  <2>1. ASSUME at[a] = "punch", Start!Fails(a) PROVE StartInv'
    BY <2>1, FailsKeeps DEF Start!Busy
  <2> QED
    BY <1>2, <2>1, ConnectKeeps, ExchangeKeeps, AskKeeps, RepliedKeeps, AnswerSetKeeps,
       AnswerRejectedKeeps, NoAddressKeeps, ArrivesKeeps, WindowEndsKeeps, RacedKeeps,
       RelayInsteadKeeps, SecureKeeps, PairReadKeeps, RelayAgainKeeps, SecureAgainKeeps
    DEF Start!Step, Start!GiveUp, Start!Refused
<1> QED
  BY <1>1, <1>2, OuterWindowKeeps, BridgeEndsKeeps DEF Start!Next, Start!Rest

LEMMA StartInvSays == ASSUME StartAssumption, StartInv PROVE StartedAsSaid
<1> HIDE DEF Start!Conns, Start!NoConn, Start!Running, Start!Failures
<1> USE DEF StartInv
<1>1. Start!OffererReleased
  BY DEF OuterFits, Kept, Start!OffererReleased
<1>2. Start!DirectIsTrue /\ Start!RelayHonoured
  <2>1. Start!Won(outer) => Honest(outer.outcome) /\ Forced(outer.outcome)
    BY DEF OuterFits, Fair, Start!Won
  <2>2. cfg.policy => cfg.force
    BY DEF Start!Possible
  <2>3. Start!DirectIsTrue
    BY <2>1 DEF Start!DirectIsTrue, Honest
  <2>4. Start!RelayHonoured
    BY <2>1, <2>2 DEF Start!RelayHonoured, Honest, Forced, Start!Direct
  <2> QED
    BY <2>3, <2>4
<1>3. Start!NeverInTheClear /\ Start!SocketNotShared
  BY DEF GuardFits, BridgeFits, Start!NeverInTheClear
<1> QED
  BY <1>1, <1>2, <1>3 DEF StartedAsSaid

\* Whatever exit a start took, by return, error or cancellation at any await:
\* the peer connection it made is closed unless it is the one that was handed
\* out; a connection called direct is direct; a relay by policy or by force is
\* honoured; no offer has gone out in the clear, and the socket that carries
\* candidates is not punched from (_start, _start_inner, connect).
THEOREM StartedTheorem == Start!Spec => []StartedAsSaid
<1> StartAssumption
  BY StartFits DEF StartAssumption
<1>1. Start!Init => StartInv
  BY StartInit
<1>2. StartInv /\ [Start!Next]_Start!vars => StartInv'
  BY StartNext
<1>3. StartInv => StartedAsSaid
  BY StartInvSays
<1> QED
  BY <1>1, <1>2, <1>3, PTL DEF Start!Spec
=============================================================================
