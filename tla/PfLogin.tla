------------------------------ MODULE PfLogin ------------------------------
(***************************************************************************)
(* The logins of a window's port-forward mappings.  All of them are built  *)
(* from one LoginConfigHandler (`lc`): a mapping fills in its target, its  *)
(* multiplex flag and its challenge, and the login message is made from    *)
(* what the handler holds then.  port_forward_login_turn keeps one mapping *)
(* at a time between the two.                                              *)
(*                                                                         *)
(* Every access to the handler is a step, whatever runtime the mappings    *)
(* share.  A password is a member of Passwords; NoPassword is the empty    *)
(* one.  Salts are the peer's, the same for all mappings, and left out.    *)
(***************************************************************************)
EXTENDS Naturals, Sequences

CONSTANTS
  Mappings,
  Multiplexed,  \* the mappings that ask for the tunnel
  Passwords,
  NoPassword,
  Saved,        \* what preset, saved and built-in passwords come to
  Shared,       \* the password of a shared address book, used once
  Right,        \* the password the peer accepts
  NoMapping,
  MaxHashes,    \* bound: challenges per mapping
  MaxPrompts    \* bound: passwords the user enters

LoginAssumption ==
  /\ Multiplexed \subseteq Mappings
  /\ NoPassword \notin Passwords
  /\ {Saved, Shared} \subseteq Passwords \union {NoPassword} /\ Right \in Passwords
  /\ NoMapping \notin Mappings
  /\ MaxHashes \in Nat /\ MaxPrompts \in Nat

VARIABLES
  lc,         \* port_forward, port_forward_multiplex, hash, password,
              \* shared_password
  turn,       \* who holds port_forward_login_turn
  at,         \* at[m]: where mapping m is
  challenge,  \* challenge[m]: its Hash so far, by number; 0 is none
  pending,    \* pending[m]: pending_login
  inbox,      \* inbox[m]: entered passwords, broadcast by the window
  local,      \* local[m]: the variables of the login under way
  sent,       \* sent[m]: the last LoginRequest on m's connection
  prompts     \* how many passwords were entered

vars == <<lc, turn, at, challenge, pending, inbox, local, sent, prompts>>

Entered == Passwords \union {NoPassword}

Hash(m, n) == <<m, n>>
NoHash == Hash(NoMapping, 0)

NoLocal == [hash |-> NoHash, ui |-> FALSE, password |-> NoPassword]

NotSent == [target |-> NoMapping, multiplex |-> FALSE, answers |-> NoHash,
            own |-> NoHash, password |-> NoPassword]

Init ==
  /\ lc = [target |-> NoMapping, multiplex |-> FALSE, hash |-> NoHash,
           password |-> NoPassword, shared |-> Shared]
  /\ turn = NoMapping
  /\ at = [m \in Mappings |-> "select"]
  /\ challenge = [m \in Mappings |-> 0]
  /\ pending = [m \in Mappings |-> <<>>]
  /\ inbox = [m \in Mappings |-> <<>>]
  /\ local = [m \in Mappings |-> NoLocal]
  /\ sent = [m \in Mappings |-> NotSent]
  /\ prompts = 0

----------------------------------------------------------------------------
(* The window broadcasts what was entered to every mapping. *)
Enter(p) ==
  /\ prompts < MaxPrompts
  /\ prompts' = prompts + 1
  /\ inbox' = [m \in Mappings |-> Append(inbox[m], p)]
  /\ UNCHANGED <<lc, turn, at, challenge, pending, local, sent>>

(* The two ways into a login. *)
LoginWithHash(m, hash) ==
  /\ at' = [at EXCEPT ![m] = "wait_hash"]
  /\ local' = [local EXCEPT ![m] = [NoLocal EXCEPT !.hash = hash]]

LoginFromUi(m, hash, p) ==
  /\ at' = [at EXCEPT ![m] = "wait_ui"]
  /\ local' = [local EXCEPT ![m] = [hash |-> hash, ui |-> TRUE, password |-> p]]

HashIgnoresPending(m) ==
  /\ at[m] = "select" /\ challenge[m] < MaxHashes
  /\ challenge' = [challenge EXCEPT ![m] = @ + 1]
  /\ pending' = [pending EXCEPT ![m] = <<>>]
  /\ LoginWithHash(m, Hash(m, challenge[m] + 1))
  /\ UNCHANGED <<lc, turn, inbox, sent, prompts>>

(* hash_arrived: a password that came first answers it. *)
HashArrived(m) ==
  /\ at[m] = "select" /\ challenge[m] < MaxHashes
  /\ challenge' = [challenge EXCEPT ![m] = @ + 1]
  /\ pending' = [pending EXCEPT ![m] = <<>>]
  /\ IF pending[m] = <<>>
     THEN LoginWithHash(m, Hash(m, challenge[m] + 1))
     ELSE LoginFromUi(m, Hash(m, challenge[m] + 1), Head(pending[m]))
  /\ UNCHANGED <<lc, turn, inbox, sent, prompts>>

(* Data::Login from the window's queue. *)
UiLogin(m) ==
  /\ at[m] = "select" /\ inbox[m] # <<>>
  /\ inbox' = [inbox EXCEPT ![m] = Tail(@)]
  /\ IF challenge[m] = 0
     THEN /\ pending' = [pending EXCEPT ![m] = <<Head(inbox[m])>>]
          /\ UNCHANGED <<at, local>>
     ELSE /\ LoginFromUi(m, Hash(m, challenge[m]), Head(inbox[m]))
          /\ UNCHANGED pending
  /\ UNCHANGED <<lc, turn, challenge, sent, prompts>>

Step(m, from, to) == at[m] = from /\ at' = [at EXCEPT ![m] = to]

NoTurn(m) ==
  /\ \/ Step(m, "wait_hash", "set_target")
     \/ Step(m, "wait_ui", "fill")
  /\ UNCHANGED <<lc, turn, challenge, pending, inbox, local, sent, prompts>>

TakeTurn(m) ==
  /\ turn = NoMapping
  /\ turn' = m
  /\ \/ Step(m, "wait_hash", "set_target")
     \/ Step(m, "wait_ui", "fill")
  /\ UNCHANGED <<lc, challenge, pending, inbox, local, sent, prompts>>

(* login_with_hash and handle_hash, one access after the other. *)
SetTarget(m) ==
  /\ Step(m, "set_target", "set_mux")
  /\ lc' = [lc EXCEPT !.target = m]
  /\ UNCHANGED <<turn, challenge, pending, inbox, local, sent, prompts>>

SetMultiplex(m) ==
  /\ Step(m, "set_mux", "set_hash")
  /\ lc' = [lc EXCEPT !.multiplex = m \in Multiplexed]
  /\ UNCHANGED <<turn, challenge, pending, inbox, local, sent, prompts>>

HandleHash(m) ==
  /\ Step(m, "set_hash", "choose")
  /\ lc' = [lc EXCEPT !.hash = local[m].hash]
  /\ UNCHANGED <<turn, challenge, pending, inbox, local, sent, prompts>>

(* The shared password, once, or the last one, or the first of the others   *)
(* there is.                                                                *)
ChoosePassword(m) ==
  /\ Step(m, "choose", "keep")
  /\ local' = [local EXCEPT ![m].password =
                 IF lc.shared # NoPassword THEN lc.shared
                 ELSE IF lc.password # NoPassword THEN lc.password ELSE Saved]
  /\ lc' = [lc EXCEPT !.shared = NoPassword]
  /\ UNCHANGED <<turn, challenge, pending, inbox, sent, prompts>>

(* login_from_ui and handle_login_from_ui. *)
Fill(m) ==
  /\ Step(m, "fill", "choose_ui")
  /\ lc' = [lc EXCEPT !.target = m, !.multiplex = m \in Multiplexed,
                      !.hash = local[m].hash]
  /\ UNCHANGED <<turn, challenge, pending, inbox, local, sent, prompts>>

ChoosePasswordFromUi(m) ==
  /\ Step(m, "choose_ui", "keep")
  /\ local' = [local EXCEPT ![m].password =
                 IF @ # NoPassword THEN @
                 ELSE IF lc.password # NoPassword THEN lc.password ELSE Saved]
  /\ UNCHANGED <<lc, turn, challenge, pending, inbox, sent, prompts>>

(* Both keep the password for the next login of the window. *)
KeepPassword(m) ==
  /\ Step(m, "keep", "send")
  /\ lc' = [lc EXCEPT !.password = local[m].password]
  /\ UNCHANGED <<turn, challenge, pending, inbox, local, sent, prompts>>

(* The password is hashed with the challenge, and create_login_msg reads    *)
(* the rest.  handle_hash has its own copy of the challenge,                *)
(* handle_login_from_ui takes the handler's.                                *)
SendLogin(m) ==
  /\ Step(m, "send", "sent")
  /\ sent' = [sent EXCEPT ![m] =
       [target |-> lc.target, multiplex |-> lc.multiplex,
        answers |-> IF local[m].ui THEN lc.hash ELSE local[m].hash,
        own |-> local[m].hash, password |-> local[m].password]]
  /\ UNCHANGED <<lc, turn, challenge, pending, inbox, local, prompts>>

(* The message is on its way; handle_hash sets the hash again, and the turn *)
(* ends with the function.                                                  *)
EndLogin(m) ==
  /\ Step(m, "sent", "select")
  /\ lc' = IF local[m].ui THEN lc ELSE [lc EXCEPT !.hash = local[m].hash]
  /\ turn' = NoMapping
  /\ UNCHANGED <<challenge, pending, inbox, local, sent, prompts>>

(* The peer's answers.  A wrong password is forgotten, turn or no turn. *)
Accepted(m) == sent[m].password = Right /\ sent[m].answers[1] = m

LoginError(m) ==
  /\ at[m] = "select" /\ sent[m] # NotSent /\ ~Accepted(m)
  /\ lc' = [lc EXCEPT !.password = NoPassword]
  /\ sent' = [sent EXCEPT ![m] = NotSent]
  /\ UNCHANGED <<turn, at, challenge, pending, inbox, local, prompts>>

(* Without a password, the remote side may click accept. *)
PeerInfo(m) ==
  /\ sent[m] # NotSent
  /\ Accepted(m) \/ sent[m].password = NoPassword
  /\ Step(m, "select", "in")
  /\ UNCHANGED <<lc, turn, challenge, pending, inbox, local, sent, prompts>>

(* The local connection or the peer's is closed, or nothing comes in time. *)
GiveUp(m) ==
  /\ Step(m, "select", "out")
  /\ UNCHANGED <<lc, turn, challenge, pending, inbox, local, sent, prompts>>

Login(m) ==
  \/ TakeTurn(m) \/ SetTarget(m) \/ SetMultiplex(m) \/ HandleHash(m)
  \/ ChoosePassword(m) \/ Fill(m) \/ ChoosePasswordFromUi(m) \/ KeepPassword(m)
  \/ SendLogin(m) \/ EndLogin(m)

Next ==
  \/ \E p \in Entered : Enter(p)
  \/ \E m \in Mappings : \/ HashArrived(m) \/ UiLogin(m) \/ Login(m)
                         \/ LoginError(m) \/ PeerInfo(m) \/ GiveUp(m)

Spec == Init /\ [][Next]_vars

----------------------------------------------------------------------------
(* "or one login carried another mapping's target or answered another's     *)
(* challenge": a login carries its own mapping's target and flag, and       *)
(* answers its own mapping's challenge.                                     *)
OwnLogin ==
  \A m \in Mappings : sent[m] # NotSent =>
    /\ sent[m].target = m
    /\ sent[m].multiplex = (m \in Multiplexed)
    /\ sent[m].answers = sent[m].own

(* "a password typed while the Hash was on its way is kept and answers it": *)
(* a mapping that holds one sends it, unless the mapping ends or a later    *)
(* one replaces it.                                                         *)
TypedIsSent ==
  \A m \in Mappings : \A p \in Passwords :
    pending[m] = <<p>> ~>
      (sent[m].password = p \/ at[m] = "out" \/ pending[m] \notin {<<p>>, <<>>})
=============================================================================
