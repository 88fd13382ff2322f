------------------------------ MODULE RaceStep ------------------------------
(***************************************************************************)
(* race_transports_prefer_webrtc and select_ok, src/src/client.rs: what one*)
(* branch of the select! loop does to the state of the race.               *)
(*                                                                         *)
(* A race is a record: the WebRTC attempt is still there (webrtc), the     *)
(* attempts left in others_fut (others, empty for None), the relayed       *)
(* connection put aside (held), the error of each side (werr, oerr) and    *)
(* whether the preference window runs (window).  A connection is           *)
(* [typ, direct]; is_p2p reads the second field.  An outcome is a          *)
(* connection, Running, or Failed(errs) with the sides whose errors the    *)
(* message names.                                                          *)
(***************************************************************************)
EXTENDS FiniteSets

CONSTANT Types    \* the labels a connection may carry

Conns == [typ : Types, direct : BOOLEAN]
NoConn == [typ |-> "none", direct |-> FALSE]
Running == [typ |-> "running", direct |-> FALSE]
Failed(errs) == [typ |-> "failed", errs |-> errs]
Failures == {Failed(e) : e \in SUBSET {"webrtc", "others"}}
Ended(r) == r.outcome # Running
Won(r) == r.outcome \in Conns

\* select_ok requires others to be non-empty.
NewRace(others) ==
    [webrtc |-> TRUE, others |-> others, held |-> NoConn, werr |-> FALSE,
     oerr |-> FALSE, window |-> FALSE, outcome |-> Running]

\* A race of one side only, without a preference: select_ok(others).
NewSelect(others) == [NewRace(others) EXCEPT !.webrtc = FALSE]

Return(r, out) == [r EXCEPT !.outcome = out]

\* Only the first relay is held; the window is counted from that moment.
Hold(r, c) ==
    IF r.held = NoConn THEN [r EXCEPT !.held = c, !.window = TRUE] ELSE r

\* The first branch: webrtc_fut is ready with a connection, or with an error.
WebrtcOk(r, c) ==
    IF c.direct \/ r.others = {}
    THEN Return([r EXCEPT !.webrtc = FALSE], c)
    ELSE Hold([r EXCEPT !.webrtc = FALSE], c)

WebrtcErrForgetsHeld(r) ==
    IF r.others = {} THEN Return([r EXCEPT !.webrtc = FALSE],
                                 Failed({"webrtc", "others"}))
    ELSE [r EXCEPT !.webrtc = FALSE, !.werr = TRUE]

WebrtcErr(r) ==
    LET q == [r EXCEPT !.webrtc = FALSE] IN
    IF r.others = {} /\ r.held # NoConn THEN Return(q, r.held)
    ELSE IF r.oerr THEN Return(q, Failed({"webrtc", "others"}))
    ELSE IF r.others = {} THEN Return(q, Failed({"webrtc"}))
    ELSE [q EXCEPT !.werr = TRUE]

\* The second branch: an attempt of others_fut has succeeded, and what is
\* unfinished is raced on; or one has failed, which select_ok reports only
\* when it was the last.
OtherOk(r, i, c) ==
    LET unfinished == r.others \ {i} IN
    IF c.direct \/ (~r.webrtc /\ unfinished = {})
    THEN Return([r EXCEPT !.others = {}], c)
    ELSE [Hold(r, c) EXCEPT !.others = unfinished]

OtherErr(r, i) ==
    LET q == [r EXCEPT !.others = @ \ {i}]
        OrHeld(errs) == IF r.held # NoConn THEN Return(q, r.held)
                                           ELSE Return(q, Failed(errs))
    IN  IF q.others # {} THEN q
        ELSE IF r.werr THEN OrHeld({"webrtc", "others"})
        ELSE IF ~r.webrtc THEN OrHeld({"others"})
        ELSE [q EXCEPT !.oerr = TRUE]

\* The third branch: the window is over.
WindowOver(r) ==
    IF r.held # NoConn THEN Return(r, r.held) ELSE [r EXCEPT !.window = FALSE]

\* select_ok: the first success, or the last error.
SelectOk(r, c) == Return(r, c)
SelectErr(r, i) ==
    LET left == r.others \ {i} IN
    IF left # {} THEN [r EXCEPT !.others = left]
    ELSE Return([r EXCEPT !.others = {}], Failed({"others"}))
=============================================================================
