------------------------------ MODULE MCLogin ------------------------------
(***************************************************************************)
(* Who is let in: ConnLogin with two connections of one peer, and with one *)
(* that comes as a trusted device, as another and as a stranger; and       *)
(* LoginFailures with two addresses of one prefix, the first of which has  *)
(* two connections, for passwords and for the id whitelist.                *)
(*                                                                         *)
(* A behaviour is of one part, chosen at first; the other rests.           *)
(***************************************************************************)
EXTENDS LoginFailures, TLC

CONSTANTS
  x, y,                                     \* two connections
  Links, SessionKeys, PeerOf, Scopes, Permitted, Listed, ApproveMode,    \* of ConnLogin
  PermanentEnabled, TfaEnabled, Trusted, MaxRequests, MaxTemp, MaxTokens

VARIABLES chosen, conn, sessions, temp, tokens, issued, shown, click, proof, proved2fa

login == <<conn, sessions, temp, tokens, issued, shown, click, proof, proved2fa>>
all == <<chosen, vars, login>>

TwoAddresses == [c \in Conns |-> IF c = 3 THEN <<"p", "b">> ELSE <<"p", "a">>]
PrefixHigher == [k \in Keys |-> IF k = "p" THEN 2 ELSE 1]

(* The id whitelist's map. *)
Ids == INSTANCE LoginFailures WITH Whitelist <- TRUE

(* Two connections in one session. *)
Pair == INSTANCE ConnLogin WITH Conns <- Links, Keys <- SessionKeys

OnePeer == [k \in SessionKeys |-> "p"]

(* One connection of the two, and for it two sessions of one peer, the first of
   a trusted device, and a stranger's, with a scope that is not permitted and
   one whose target may be dead.                                           *)
Sessions == {"k1", "k2", "k3"}

Single == INSTANCE ConnLogin WITH
  Conns <- Links, Keys <- Sessions, PeerOf <- [k \in Sessions |-> IF k = "k3" THEN "q" ELSE "p"],
  Scopes <- {"remote", "terminal", "forward"}, Permitted <- {"remote", "forward"},
  Trusted <- {"k1"}, MaxRequests <- 3

AnotherRests == \E c \in Links : conn[c] = Single!Opened("k1")

ASSUME LoginFits == Pair!ConnLoginAssumption

ASSUME Ids!FailuresAssumption /\ Single!ConnLoginAssumption

PartsInit ==
  /\ chosen \in {"passwords", "ids", "pair", "single"}
  /\ Init
  /\ IF chosen = "single" THEN Single!Init /\ AnotherRests ELSE Pair!Init

PartsNext ==
  \/ chosen = "passwords" /\ Next /\ UNCHANGED <<chosen, login>>
  \/ chosen = "ids" /\ Ids!Next /\ UNCHANGED <<chosen, login>>
  \/ chosen = "pair" /\ Pair!Next /\ UNCHANGED <<chosen, vars>>
  \/ chosen = "single" /\ Single!Next /\ AnotherRests' /\ UNCHANGED <<chosen, vars>>

PartsSpec == PartsInit /\ [][PartsNext]_all

(* The two connections are interchangeable. *)
Alike == Permutations({x, y})

----------------------------------------------------------------------------
(* Nobody is let in but by a click for just what the connection manager
   showed, a token of switched sides, or a password checked for this very
   request, and then with a code, from a trusted device, or in a session that
   had given its code since its last one-time password; and with the scope
   asked for first, unless the sides were switched (on_message,
   send_logon_response_and_keep_alive, check_login_scope).                 *)
LetInProperly == Pair!LetInProperly /\ Pair!ScopeIsFirst

(* "One-time means gone once it has let a peer in, not once that peer
   leaves": no one-time password that let a connection in is the present one,
   and no token of switched sides lets in two (update_temporary_password,
   SWITCH_SIDES_UUID).                                                     *)
LetsInOnce == Pair!LetsInOnce
=============================================================================
