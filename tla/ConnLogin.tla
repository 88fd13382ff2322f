----------------------------- MODULE ConnLogin -----------------------------
(***************************************************************************)
(* How a connection of the controlled side comes to be authorized          *)
(* (server/connection.rs): login requests, one-time and permanent          *)
(* passwords, sessions remembered over a reconnect, two-factor codes,      *)
(* trusted devices, a click in the connection manager, switched sides.     *)
(*                                                                         *)
(* A connection handles one message at a time, but the connections run in  *)
(* parallel and share the sessions, the one-time password and the tokens   *)
(* of switched sides: a handler is cut where it looks at one of these.     *)
(*                                                                         *)
(* A session key stands for the peer's id, name and session id; a digest   *)
(* of login_scope is the peer's id and the scope.  Options are constants.  *)
(***************************************************************************)
EXTENDS Naturals, FiniteSets

CONSTANTS
  Conns,
  Keys,          \* session keys
  PeerOf,        \* PeerOf[k]: the peer's id in session key k
  Scopes,        \* remote, terminal and others
  Permitted,     \* the scopes whose permission is on
  Listed,        \* the peers the id whitelist allows
  ApproveMode,   \* "click", "password" or "both"
  PermanentEnabled,
  TfaEnabled,    \* two-factor authentication is set up
  Trusted,       \* the keys that come from a trusted device
  MaxRequests,   \* bound: login requests of a connection
  MaxTemp,       \* bound: one-time passwords, before those that let in
  MaxTokens      \* bound: tokens of switched sides

ConnLoginAssumption ==
  /\ DOMAIN PeerOf = Keys
  /\ Permitted \subseteq Scopes /\ "remote" \in Scopes /\ Trusted \subseteq Keys
  /\ ApproveMode \in {"click", "password", "both"}
  /\ PermanentEnabled \in BOOLEAN /\ TfaEnabled \in BOOLEAN
  /\ MaxRequests \in Nat /\ MaxTemp \in Nat /\ MaxTokens \in Nat

VARIABLES
  conn,      \* conn[c]: the fields of Connection, and where its handler is
  sessions,  \* SESSIONS
  temp,      \* the number of the present one-time password
  tokens,    \* SWITCH_SIDES_UUID: tokens[peer], 0 is none
  issued,    \* how many tokens were made
  shown,     \* shown[c]: the digests the connection manager was told
  click,     \* click[c]: accepted there, for this digest, and under way
  proof,     \* proof[c]: what has been shown of c's present request
  proved2fa  \* session keys with a right code since their last one-time login

vars == <<conn, sessions, temp, tokens, issued, shown, click, proof, proved2fa>>

Peers == {PeerOf[k] : k \in Keys}
NoScope == <<>>
Digest(lr) == <<PeerOf[lr.key], lr.scope>>

Empty == <<"none", 0>>
Permanent == <<"permanent", 0>>
OneTime(g) == <<"temporary", g>>
Passwords == {Empty, <<"wrong", 0>>, Permanent} \union {OneTime(g) : g \in 1..temp}

Requests == [key : Keys, scope : Scopes, password : Passwords]
NoSession == [there |-> FALSE, password |-> Empty, tfa |-> FALSE]

Closed == [at |-> "closed", authorized |-> FALSE]

Opened(k) ==
  [at |-> "idle", authorized |-> FALSE, login_scope |-> NoScope, asked |-> 0,
   lr |-> [key |-> k, scope |-> "remote", password |-> Empty],
   require_2fa |-> TfaEnabled, awaiting_2fa |-> FALSE, from_switch |-> FALSE,
   user_token |-> FALSE, by |-> "", granted |-> NoScope]

NoProof == [password |-> Empty, tfa |-> FALSE, token |-> 0, click |-> NoScope]

Init ==
  /\ conn \in [Conns -> {Opened(k) : k \in Keys}]
  /\ sessions = [k \in Keys |-> NoSession]
  /\ temp = 1
  /\ tokens = [p \in Peers |-> 0]
  /\ issued = 0
  /\ shown = [c \in Conns |-> {}]
  /\ click = [c \in Conns |-> NoScope]
  /\ proof = [c \in Conns |-> NoProof]
  /\ proved2fa = {}

Idle(c) == conn[c].at = "idle"

Shut(c) ==
  /\ conn' = [conn EXCEPT ![c] = Closed]
  /\ click' = [click EXCEPT ![c] = NoScope]
  /\ shown' = [shown EXCEPT ![c] = {}]

----------------------------------------------------------------------------
(* try_start_cm: the connection manager shows who asks for what. *)
TryStartCm(c, lr) == shown' = [shown EXCEPT ![c] = @ \union {Digest(lr)}]

(* A request with its sender's device, and where its handler goes next. *)
WithRequest(r, lr, at) ==
  [r EXCEPT !.lr = lr, !.at = at, !.asked = @ + 1,
            !.require_2fa = @ /\ lr.key \notin Trusted]

(* is_recent_session(false): the password the session remembers. *)
IsRecentSession(lr) ==
  /\ sessions[lr.key].there /\ lr.password # Empty
  /\ sessions[lr.key].password = lr.password

IsRecentSession2fa(lr) ==
  sessions[lr.key].there /\ lr.password # Empty /\ sessions[lr.key].tfa

(* One-time passwords are enabled, so there is a valid password. *)
NeedsClick == ApproveMode = "click"

Branch(lr) ==
  CASE NeedsClick -> "ask"
    [] ~NeedsClick /\ IsRecentSession(lr) -> "respond"
    [] ~NeedsClick /\ ~IsRecentSession(lr) /\ lr.password = Empty -> "ask"
    [] OTHER -> "check"

(* check_login_scope *)
ScopeHolds(c, lr) == conn[c].login_scope \in {NoScope, Digest(lr)}

Latched(scope, lr) == IF scope = NoScope THEN Digest(lr) ELSE scope

(* What closes the connection once its scope is accepted: the whitelist,    *)
(* the scope's permission.                                                  *)
Refused(lr) == PeerOf[lr.key] \notin Listed \/ lr.scope \notin Permitted

(* A new request starts anew, but for the second factor. *)
ProofOf(proved, lr) ==
  [password |-> IF sessions[lr.key].password = lr.password THEN lr.password ELSE Empty,
   tfa |-> proved.tfa \/ lr.key \in Trusted, token |-> 0, click |-> NoScope]

(* A request that is accepted.  The scope's fields are reset and set anew:  *)
(* they are lr.scope's.                                                     *)
Accepted(r, lr) ==
  [WithRequest(r, lr, Branch(lr)) EXCEPT
     !.login_scope = Latched(@, lr), !.awaiting_2fa = FALSE, !.by = "password"]

(* on_message, LoginRequest, up to the way it is decided.                   *)
LoginRequest(c, lr) ==
  /\ Idle(c) /\ ~conn[c].authorized /\ conn[c].asked < MaxRequests
  /\ IF ~ScopeHolds(c, lr) \/ Refused(lr)
     THEN Shut(c)
     ELSE /\ conn' = [conn EXCEPT ![c] = Accepted(@, lr)]
          /\ UNCHANGED <<click, shown>>
  /\ proof' = [proof EXCEPT ![c] = ProofOf(@, lr)]
  /\ UNCHANGED <<sessions, temp, tokens, issued, proved2fa>>

(* Somebody is to click.  A terminal's user who is named logs in first. *)
Ask(c) ==
  /\ conn[c].at = "ask"
  /\ \/ /\ \E named \in {FALSE, conn[c].lr.scope = "terminal"} :
             conn' = [conn EXCEPT ![c].at = "idle", ![c].user_token = @ \/ named]
        /\ TryStartCm(c, conn[c].lr)
        /\ UNCHANGED click
     \/ /\ conn[c].lr.scope = "terminal" /\ ~conn[c].user_token
        /\ Shut(c)
  /\ UNCHANGED <<sessions, temp, tokens, issued, proof, proved2fa>>

(* check_failure(0): too many wrong attempts leave it at that. *)
CheckFailure(c) ==
  /\ conn[c].at = "check"
  /\ \E to \in {"idle", "validate"} : conn' = [conn EXCEPT ![c].at = to]
  /\ UNCHANGED <<sessions, temp, tokens, issued, shown, click, proof, proved2fa>>

SessionKeeps2fa(k, password) ==
  sessions' = [sessions EXCEPT ![k] = [there |-> TRUE, password |-> password,
                                       tfa |-> @.tfa]]

UpdateSession(k, password) ==
  sessions' = [sessions EXCEPT ![k] = [there |-> TRUE, password |-> password,
                                       tfa |-> FALSE]]

(* validate_password: the one-time password, or the permanent one. *)
Validated(c, password) ==
  /\ conn' = [conn EXCEPT ![c].at = "respond"]
  /\ proof' = [proof EXCEPT ![c].password = password]
  /\ UNCHANGED shown

ValidatePassword(c) ==
  /\ conn[c].at = "validate"
  /\ LET lr == conn[c].lr IN
     \/ /\ lr.password = OneTime(temp)
        /\ UpdateSession(lr.key, lr.password)
        /\ Validated(c, lr.password)
        /\ proved2fa' = proved2fa \ {lr.key}
     \/ /\ lr.password = Permanent /\ PermanentEnabled
        /\ Validated(c, lr.password)
        /\ UNCHANGED <<sessions, proved2fa>>
     \/ /\ lr.password # OneTime(temp)
        /\ lr.password # Permanent \/ ~PermanentEnabled
        /\ conn' = [conn EXCEPT ![c].at = "idle"]
        /\ TryStartCm(c, lr)
        /\ UNCHANGED <<sessions, proof, proved2fa>>
  /\ UNCHANGED <<temp, tokens, issued, click>>

(* The user's refresh, or check_update_temporary_password after too many    *)
(* wrong ones.                                                              *)
UpdateTemporaryPassword ==
  /\ temp < MaxTemp
  /\ temp' = temp + 1
  /\ UNCHANGED <<conn, sessions, tokens, issued, shown, click, proof, proved2fa>>

(* send_logon_response_and_keep_alive, up to the terminal's user. *)
Respond(c) ==
  /\ conn[c].at = "respond"
  /\ LET r == conn[c] IN
     IF r.authorized
     THEN /\ conn' = [conn EXCEPT ![c].at = "idle"]
          /\ UNCHANGED shown
     ELSE IF r.require_2fa /\ ~IsRecentSession2fa(r.lr) /\ ~r.from_switch
     THEN /\ conn' = [conn EXCEPT ![c].at = "idle", ![c].awaiting_2fa = TRUE]
          /\ IF r.by = "click" THEN UNCHANGED shown ELSE TryStartCm(c, r.lr)
     ELSE /\ conn' = [conn EXCEPT ![c].awaiting_2fa = FALSE,
               ![c].at = IF r.lr.scope = "terminal" /\ ~r.user_token
                         THEN "terminal" ELSE "authorize"]
          /\ UNCHANGED shown
  /\ proof' = [proof EXCEPT ![c].tfa = @ \/ conn[c].lr.key \in proved2fa]
  /\ UNCHANGED <<sessions, temp, tokens, issued, click, proved2fa>>

(* prepare_terminal_login_for_authorization *)
PrepareTerminal(c) ==
  /\ conn[c].at = "terminal"
  /\ \/ /\ conn' = [conn EXCEPT ![c].at = "authorize", ![c].user_token = TRUE]
        /\ UNCHANGED <<click, shown>>
     \/ Shut(c)
  /\ UNCHANGED <<sessions, temp, tokens, issued, proof, proved2fa>>

AuthorizeKeepsPassword(c) ==
  /\ conn[c].at = "authorize"
  /\ conn' = [conn EXCEPT ![c].at = "idle", ![c].authorized = TRUE,
                          ![c].granted = Digest(conn[c].lr)]
  /\ UNCHANGED <<temp, click, shown, sessions, tokens, issued, proof, proved2fa>>

(* The rest of it: authorized, and the one-time password is gone.  A port   *)
(* forward whose target cannot be reached is closed.                        *)
Authorize(c) ==
  /\ conn[c].at = "authorize"
  /\ \/ /\ conn' = [conn EXCEPT ![c].at = "idle", ![c].authorized = TRUE,
                                ![c].granted = Digest(conn[c].lr)]
        /\ temp' = temp + 1
        /\ UNCHANGED <<click, shown>>
     \/ /\ conn[c].lr.scope = "forward"
        /\ Shut(c)
        /\ UNCHANGED temp
  /\ UNCHANGED <<sessions, tokens, issued, proof, proved2fa>>

----------------------------------------------------------------------------
(* A code.  It is ignored unless the connection waits for one; too many     *)
(* wrong ones, or a wrong one, change nothing here.                         *)
Auth2fa(c) ==
  /\ Idle(c) /\ conn[c].awaiting_2fa
  /\ conn[c].require_2fa
  /\ LET k == conn[c].lr.key IN
     /\ conn' = [conn EXCEPT ![c].require_2fa = FALSE, ![c].at = "respond"]
     /\ sessions' = [sessions EXCEPT ![k].there = TRUE, ![k].tfa = TRUE]
     /\ proved2fa' = proved2fa \union {k}
     /\ proof' = [proof EXCEPT ![c].tfa = TRUE]
  /\ UNCHANGED <<temp, tokens, issued, shown, click>>

(* Accepted in the connection manager, and the connection hears of it. *)
Click(c, digest) ==
  /\ digest \in shown[c] /\ click[c] = NoScope /\ ~conn[c].authorized
  /\ click' = [click EXCEPT ![c] = digest]
  /\ UNCHANGED <<conn, sessions, temp, tokens, issued, shown, proof, proved2fa>>

(* Data::Authorize *)
AuthorizedByClick(c) ==
  /\ Idle(c) /\ click[c] # NoScope
  /\ conn' = [conn EXCEPT ![c].require_2fa = FALSE, ![c].at = "respond",
                          ![c].by = IF conn[c].authorized THEN @ ELSE "click"]
  /\ click' = [click EXCEPT ![c] = NoScope]
  /\ proof' = [proof EXCEPT ![c].click = click[c]]
  /\ UNCHANGED <<sessions, temp, tokens, issued, shown, proved2fa>>

(* insert_switch_sides_uuid, and its expiry *)
InsertToken(p) ==
  /\ issued < MaxTokens
  /\ issued' = issued + 1
  /\ tokens' = [tokens EXCEPT ![p] = issued + 1]
  /\ UNCHANGED <<conn, sessions, temp, shown, click, proof, proved2fa>>

TokenExpires(p) ==
  /\ tokens[p] # 0
  /\ tokens' = [tokens EXCEPT ![p] = 0]
  /\ UNCHANGED <<conn, sessions, temp, issued, shown, click, proof, proved2fa>>

(* The first use of a token takes it away, right or wrong. *)
TakeToken(p) == tokens' = [tokens EXCEPT ![p] = 0]

(* Switched sides: the request needs no password. *)
Switched(r, lr) ==
  [WithRequest(r, lr, "respond") EXCEPT
     !.from_switch = TRUE, !.by = IF r.authorized THEN @ ELSE "switch"]

(* SwitchSidesResponse, with the right token or not.  An authorized         *)
(* connection that is not a remote one drops it as out of scope.            *)
SwitchSidesResponse(c, k, right) ==
  /\ Idle(c) /\ tokens[PeerOf[k]] # 0 /\ conn[c].asked < MaxRequests
  /\ conn[c].authorized => conn[c].granted[2] = "remote"
  /\ LET lr == [key |-> k, scope |-> "remote", password |-> Empty] IN
     IF ~right THEN UNCHANGED <<conn, click, shown, proof>>
     ELSE IF PeerOf[k] \notin Listed THEN Shut(c) /\ UNCHANGED proof
     ELSE /\ conn' = [conn EXCEPT ![c] = Switched(@, lr)]
          /\ proof' = [proof EXCEPT ![c] =
               IF conn[c].authorized THEN @
               ELSE [NoProof EXCEPT !.token = tokens[PeerOf[k]]]]
          /\ UNCHANGED <<click, shown>>
  /\ TakeToken(PeerOf[k])
  /\ UNCHANGED <<sessions, temp, issued, proved2fa>>

----------------------------------------------------------------------------
(* check_remove_session: a session stays for another remote connection.     *)
Remote(c, k) ==
  conn[c].authorized /\ conn[c].granted[2] = "remote" /\ conn[c].lr.key = k

CheckRemoveSession(c, k) ==
  sessions' = IF Remote(c, k) \/ \A d \in Conns \ {c} : ~Remote(d, k)
              THEN [sessions EXCEPT ![k] = NoSession] ELSE sessions

(* The peer says it closes, or the connection manager closes: no retry. *)
CloseNoRetry(c) ==
  /\ Idle(c)
  /\ CheckRemoveSession(c, conn[c].lr.key)
  /\ Shut(c)
  /\ UNCHANGED <<temp, tokens, issued, proof, proved2fa>>

(* The link is lost. *)
Lost(c) ==
  /\ Idle(c)
  /\ Shut(c)
  /\ UNCHANGED <<sessions, temp, tokens, issued, proof, proved2fa>>

(* A session nothing was heard of for SESSION_TIMEOUT. *)
SessionExpires(k) ==
  /\ sessions[k].there
  /\ sessions' = [sessions EXCEPT ![k] = NoSession]
  /\ UNCHANGED <<conn, temp, tokens, issued, shown, click, proof, proved2fa>>

Handler(c) ==
  \/ Ask(c) \/ CheckFailure(c) \/ ValidatePassword(c) \/ Respond(c)
  \/ PrepareTerminal(c) \/ Authorize(c)

Next ==
  \/ \E c \in Conns :
       \/ \E lr \in Requests : LoginRequest(c, lr)
       \/ Handler(c) \/ Auth2fa(c) \/ AuthorizedByClick(c)
       \/ \E digest \in shown[c] : Click(c, digest)
       \/ \E k \in Keys, right \in BOOLEAN : SwitchSidesResponse(c, k, right)
       \/ CloseNoRetry(c) \/ Lost(c)
  \/ \E k \in Keys : SessionExpires(k)
  \/ \E p \in Peers : InsertToken(p) \/ TokenExpires(p)
  \/ UpdateTemporaryPassword

Spec == Init /\ [][Next]_vars

----------------------------------------------------------------------------
(* Nobody is let in but by a click for just what the connection manager     *)
(* showed, a token of switched sides, or a password checked for this very   *)
(* request, and then with a code, from a trusted device, or in a session    *)
(* that had given its code since its last one-time password.                *)
LetInProperly ==
  \A c \in Conns : conn[c].authorized =>
    CASE conn[c].by = "click"  -> proof[c].click = conn[c].granted
      [] conn[c].by = "switch" -> proof[c].token # 0
      [] OTHER -> /\ proof[c].password # Empty
                  /\ (TfaEnabled => proof[c].tfa)

(* The scope a connection is let in with is the one it asked for first,     *)
(* unless it switched sides.                                                *)
ScopeIsFirst ==
  \A c \in Conns : conn[c].authorized /\ conn[c].by # "switch" =>
    conn[c].granted = conn[c].login_scope

(* "One-time means gone once it has let a peer in, not once that peer       *)
(* leaves": no password that let a connection in is the present one.        *)
OneTimeGone ==
  \A c \in Conns : conn[c].authorized => proof[c].password # OneTime(temp)

(* A token of switched sides lets in one connection. *)
TokenOnce ==
  \A c, d \in Conns : c # d /\ conn[c].authorized /\ conn[d].authorized
    /\ conn[c].by = "switch" /\ conn[d].by = "switch" =>
       proof[c].token # proof[d].token

(* A password for once and a token let in once. *)
LetsInOnce == OneTimeGone /\ TokenOnce
=============================================================================
