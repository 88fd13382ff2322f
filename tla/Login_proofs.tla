--------------------------- MODULE Login_proofs -----------------------------
(***************************************************************************)
(* Who is let in, proved for all parameters.  LoginFailures: the limits on *)
(* failures hold whatever runs at once.  ConnLogin: the login of a         *)
(* connection, from its first request to its authorization.                *)
(***************************************************************************)
EXTENDS MCLogin, TLAPS

Inv == TypeOK /\ NoneForgotten

Entry == Nat \X Nat \X Nat

(* A bumped entry counts one more failure. *)
LEMMA BumpAdds ==
  ASSUME NEW cur \in Entry, NEW time \in Nat
  PROVE  /\ BumpFailureEntry(cur, time) \in Entry
         /\ BumpFailureEntry(cur, time)[3] = cur[3] + 1
BY DEF Entry, BumpFailureEntry

(* The keys of a connection. *)
LEMMA OwnKeys ==
  ASSUME NEW c \in Conns
  PROVE  KeySet(c) \subseteq Keys
BY FailuresAssumption DEF KeySet

(* Every step of an attempt keeps what was counted. *)
LEMMA StepKeeps ==
  ASSUME Inv, [Next]_vars
  PROVE  Inv'
<1>1. CASE Tick
  BY <1>1, FailuresAssumption DEF Inv, TypeOK, NoneForgotten, Tick
<1>2. ASSUME NEW c \in Conns, Begin(c)
      PROVE  Inv'
  <2>1. None \in Entry
    BY DEF None, Entry
  <2>2. /\ try' \in [Conns -> [at : Nat, time : Nat, seen : Entry]]
        /\ minute' \in Nat /\ tries' \in Nat
    BY <1>2, <2>1 DEF Inv, TypeOK, Begin, Entry
  <2>3. CASE Whitelist
    <3>1. /\ failures' = [k \in Keys |-> IF k \in Stale(c) THEN None ELSE failures[k]]
          /\ missed' = [k \in Keys |-> IF k \in Stale(c) THEN 0 ELSE missed[k]]
      BY <1>2, <2>3, Zenon DEF Begin
    <3>2. failures' \in [Keys -> Entry] /\ missed' \in [Keys -> Nat]
      BY <2>1, <3>1 DEF Inv, TypeOK, Entry
    <3>3. \A k \in Keys : failures'[k][3] >= missed'[k]
      BY <3>1 DEF Inv, TypeOK, NoneForgotten, None
    <3>4. QED
      BY <2>2, <3>2, <3>3 DEF Inv, TypeOK, NoneForgotten, Entry
  <2>4. CASE ~Whitelist
    <3>1. failures' = failures /\ missed' = missed
      BY <1>2, <2>4, Zenon DEF Begin
    <3>2. QED
      BY <2>2, <3>1 DEF Inv, TypeOK, NoneForgotten, Entry
  <2>5. QED
    BY <2>3, <2>4
<1>3. ASSUME NEW c \in Conns, CheckFailure(c)
      PROVE  Inv'
  <2> DEFINE k == KeysOf[c][try[c].at]
              next == IF Blocks(k, try[c].time, k = Own(c)) THEN NoTry
                      ELSE [at |-> try[c].at + 1, time |-> try[c].time, seen |-> failures[k]]
              Try == [at : Nat, time : Nat, seen : Entry]
  <2>1. k \in Keys
    BY <1>3, FailuresAssumption DEF CheckFailure
  <2>2. failures[k] \in Entry /\ NoTry \in Try /\ try \in [Conns -> Try]
    BY <2>1 DEF Inv, TypeOK, Entry, NoTry, None
  <2>3. next \in Try
    <3>1. [at |-> try[c].at + 1, time |-> try[c].time, seen |-> failures[k]] \in Try
      BY <2>2
    <3>2. QED
      BY <2>2, <3>1
  <2>4. try' = [try EXCEPT ![c] = next]
    BY <1>3, Zenon DEF CheckFailure
  <2>5. try' \in [Conns -> Try]
    BY <2>2, <2>3, <2>4
  <2>6. QED
    BY <1>3, <2>5 DEF Inv, TypeOK, NoneForgotten, CheckFailure, Entry
<1>4. ASSUME NEW c \in Conns, WrongAnswer(c)
      PROVE  Inv'
  <2>1. try[c].time \in Nat /\ failures \in [Keys -> Entry]
    BY DEF Inv, TypeOK, Entry
  <2>2. \A k \in Keys : /\ BumpFailureEntry(failures[k], try[c].time) \in Entry
                        /\ BumpFailureEntry(failures[k], try[c].time)[3] = failures[k][3] + 1
    BY <2>1, BumpAdds
  <2>3. failures' \in [Keys -> Entry]
    BY <1>4, <2>1, <2>2 DEF WrongAnswer, Bump
  <2>4. missed' \in [Keys -> Nat]
    BY <1>4 DEF Inv, TypeOK, WrongAnswer
  <2>5. ASSUME NEW k \in Keys
        PROVE  failures'[k][3] >= missed'[k]
    <3>1. failures[k][3] >= missed[k] /\ failures[k][3] \in Nat /\ missed[k] \in Nat
      BY <2>1 DEF Inv, TypeOK, NoneForgotten, Entry
    <3>2. CASE k \in KeySet(c)
      <4>1. failures'[k][3] = failures[k][3] + 1
        BY <1>4, <2>2, <3>2 DEF WrongAnswer, Bump
      <4>2. missed'[k] = missed[k] + 1
        BY <1>4, <3>2 DEF WrongAnswer
      <4>3. QED
        BY <3>1, <4>1, <4>2
    <3>3. CASE k \notin KeySet(c)
      BY <1>4, <3>1, <3>3 DEF WrongAnswer, Bump
    <3>4. QED
      BY <3>2, <3>3
  <2>6. try' \in [Conns -> [at : Nat, time : Nat, seen : Entry]]
    BY <1>4 DEF Inv, TypeOK, WrongAnswer, NoTry, None, Entry
  <2>7. QED
    BY <1>4, <2>3, <2>4, <2>5, <2>6 DEF Inv, TypeOK, NoneForgotten, WrongAnswer, Entry
<1>5. ASSUME NEW c \in Conns, RightAnswer(c)
      PROVE  Inv'
  <2>1. None \in Entry /\ NoTry \in [at : Nat, time : Nat, seen : Entry]
    BY DEF None, Entry, NoTry
  <2>2. failures' \in [Keys -> Entry] /\ missed' \in [Keys -> Nat]
    BY <1>5, <2>1 DEF Inv, TypeOK, RightAnswer, Forget, Entry
  <2>3. \A k \in Keys : failures'[k][3] >= missed'[k]
    BY <1>5, <2>1 DEF Inv, TypeOK, NoneForgotten, RightAnswer, Forget, Entry, None
  <2>4. try' \in [Conns -> [at : Nat, time : Nat, seen : Entry]]
    BY <1>5, <2>1 DEF Inv, TypeOK, RightAnswer, Entry
  <2>5. QED
    BY <1>5, <2>2, <2>3, <2>4 DEF Inv, TypeOK, NoneForgotten, RightAnswer, Entry
<1>6. ASSUME NEW c \in Conns, IdMatches(c)
      PROVE  Inv'
  <2>1. NoTry \in [at : Nat, time : Nat, seen : Entry]
    BY DEF None, Entry, NoTry
  <2>2. QED
    BY <1>6, <2>1 DEF Inv, TypeOK, NoneForgotten, IdMatches, Entry
<1>7. ASSUME NEW c \in Conns, Authorized(c)
      PROVE  Inv'
  <2>1. None \in Entry
    BY DEF None, Entry
  <2>2. failures' \in [Keys -> Entry] /\ missed' \in [Keys -> Nat]
    BY <1>7, <2>1 DEF Inv, TypeOK, Authorized, Forget, Entry
  <2>3. \A k \in Keys : failures'[k][3] >= missed'[k]
    BY <1>7, <2>1 DEF Inv, TypeOK, NoneForgotten, Authorized, Forget, Entry, None
  <2>4. QED
    BY <1>7, <2>2, <2>3 DEF Inv, TypeOK, NoneForgotten, Authorized, Entry
<1>8. CASE UNCHANGED vars
  BY <1>8 DEF Inv, TypeOK, NoneForgotten, vars
<1>9. QED
  BY <1>1, <1>2, <1>3, <1>4, <1>5, <1>6, <1>7, <1>8 DEF Next

(* No wrong attempt is forgotten but by one that may clear them, whatever   *)
(* the order in which the connections read and write the map.               *)
THEOREM FailuresKept == Spec => []NoneForgotten
<1>1. Init => Inv
  BY DEF Init, Inv, TypeOK, NoneForgotten, None, NoTry
<1>2. Inv /\ [Next]_vars => Inv'
  BY StepKeeps
<1>3. Inv => NoneForgotten
  BY DEF Inv
<1>4. QED
  BY <1>1, <1>2, <1>3, PTL DEF Spec

-----------------------------------------------------------------------------
(* The login of a connection: ConnLogin. *)

AnyPassword == {Pair!Empty, <<"wrong", 0>>, Pair!Permanent} \cup {Pair!OneTime(g) : g \in Nat}
Digests == Pair!Peers \X Scopes
Places == {"idle", "ask", "check", "validate", "respond", "terminal", "authorize"}
Asked == [key : SessionKeys, scope : Scopes, password : AnyPassword]

(* A Connection that is open, and what is remembered of its proofs. *)
Fields ==
  [at : Places, authorized : BOOLEAN, login_scope : Digests \cup {Pair!NoScope}, asked : Nat,
   lr : Asked, require_2fa : BOOLEAN, awaiting_2fa : BOOLEAN, from_switch : BOOLEAN,
   user_token : BOOLEAN, by : {"", "password", "click", "switch"},
   granted : Digests \cup {Pair!NoScope}]
Proofs == [password : AnyPassword, tfa : BOOLEAN, token : Nat, click : Digests \cup {Pair!NoScope}]
Remembered == [there : BOOLEAN, password : AnyPassword, tfa : BOOLEAN]

ConnTypes ==
  /\ conn \in [Links -> Fields \cup {Pair!Closed}]
  /\ sessions \in [SessionKeys -> Remembered]
  /\ temp \in Nat /\ issued \in Nat
  /\ tokens \in [Pair!Peers -> Nat]
  /\ shown \in [Links -> SUBSET Digests]
  /\ click \in [Links -> Digests \cup {Pair!NoScope}]
  /\ proof \in [Links -> Proofs]

(* The handler of an authorized connection is never in a login. *)
Sequential(r) == r.authorized => r.at \in {"idle", "respond"}

(* Once something was asked for, the scope is the first request's, every later
   one's too; what was shown or clicked is that scope.                     *)
OneScope(r, sh, ck) ==
  /\ r.by \in {"password", "click"} => r.login_scope # Pair!NoScope
  /\ r.by = "" => /\ ~r.authorized /\ r.at = "idle" /\ ~r.awaiting_2fa
                  /\ r.login_scope = Pair!NoScope
  /\ r.login_scope # Pair!NoScope /\ ~r.authorized /\ r.by # "switch" => r.login_scope = Pair!Digest(r.lr)
  /\ sh \subseteq {r.login_scope} \ {Pair!NoScope}
  /\ ck \in {Pair!NoScope, r.login_scope}
  /\ r.authorized /\ r.by # "switch" => r.granted = r.login_scope

(* A click or a token leads to the authorization without a stop. *)
Straight(r, p) ==
  /\ r.by = "click" => p.click = r.login_scope
  /\ r.by = "click" /\ ~r.authorized =>
       r.at \in {"respond", "terminal", "authorize"} /\ ~r.require_2fa
  /\ r.by = "switch" => p.token # 0
  /\ r.by = "switch" /\ ~r.authorized =>
       r.at \in {"respond", "authorize"} /\ r.from_switch /\ r.lr.scope = "remote"
  /\ r.from_switch /\ ~r.authorized => r.by = "switch"

(* A password has been checked by the time the answer is sent, and a second
   factor by the time nothing else is missing.                             *)
Proven(r, p) ==
  /\ r.by = "password" /\ (r.authorized \/ r.awaiting_2fa
                            \/ r.at \in {"respond", "terminal", "authorize"})
       => p.password # Pair!Empty
  /\ TfaEnabled /\ r.by \in {"", "password"} /\ ~r.authorized /\ ~r.require_2fa => p.tfa
  /\ TfaEnabled /\ r.by = "password" /\ (r.authorized \/ r.at \in {"terminal", "authorize"})
       => p.tfa

Good(r, p, sh, ck) ==
  Sequential(r) /\ OneScope(r, sh, ck) /\ Straight(r, p) /\ Proven(r, p)

AllGood ==
  \A c \in Links : conn[c] # Pair!Closed => Good(conn[c], proof[c], shown[c], click[c])

(* A session that gave its code is one that did so since its last one-time
   password.                                                               *)
CodesGiven == \A k \in SessionKeys : sessions[k].tfa => k \in proved2fa

(* Nobody holds a one-time password that has not been made yet. *)
Made(password) == \A g \in Nat : password = Pair!OneTime(g) => g <= temp

NoneAhead ==
  /\ \A k \in SessionKeys : Made(sessions[k].password)
  /\ \A c \in Links : Made(proof[c].password) /\ (conn[c] # Pair!Closed => Made(conn[c].lr.password))

(* A token is at one place: in the table or with the connection it let in. *)
TokensApart ==
  /\ \A p \in Pair!Peers : tokens[p] <= issued
  /\ \A c \in Links : proof[c].token <= issued
  /\ \A p, q \in Pair!Peers : p # q /\ tokens[p] # 0 => tokens[p] # tokens[q]
  /\ \A p \in Pair!Peers, c \in Links : tokens[p] # 0 => tokens[p] # proof[c].token
  /\ \A c, d \in Links : c # d /\ proof[c].token # 0 => proof[c].token # proof[d].token

ConnInv == ConnTypes /\ AllGood /\ CodesGiven /\ NoneAhead /\ Pair!OneTimeGone /\ TokensApart


LEMMA PasswordsDiffer ==
  /\ Pair!Permanent # Pair!Empty /\ Pair!Empty \in AnyPassword /\ Pair!Permanent \in AnyPassword
  /\ <<"wrong", 0>> \in AnyPassword
  /\ \A g \in Nat : Pair!OneTime(g) # Pair!Empty /\ Pair!OneTime(g) # Pair!Permanent /\ Pair!OneTime(g) # <<"wrong", 0>>
  /\ \A g, h \in Nat : Pair!OneTime(g) = Pair!OneTime(h) => g = h
  /\ \A g \in Nat : Pair!OneTime(g) \in AnyPassword
BY DEF AnyPassword, Pair!Empty, Pair!Permanent, Pair!OneTime

LEMMA PasswordsKnown ==
  ASSUME temp \in Nat, NEW pw \in Pair!Passwords
  PROVE  pw \in AnyPassword /\ Made(pw)
<1>1. CASE pw \in {Pair!Empty, <<"wrong", 0>>, Pair!Permanent}
  BY <1>1, PasswordsDiffer DEF Made
<1>2. CASE pw \in {Pair!OneTime(g) : g \in 1..temp}
  <2>1. PICK h \in 1..temp : pw = Pair!OneTime(h)
    BY <1>2
  <2>2. h \in Nat
    BY <2>1
  <2> QED
    BY <2>1, <2>2, PasswordsDiffer DEF Made
<1> QED
  BY <1>1, <1>2 DEF Pair!Passwords

LEMMA DigestsAreNot ==
  ASSUME NEW lr \in Asked
  PROVE  Pair!Digest(lr) \in Digests /\ Pair!Digest(lr) # Pair!NoScope
BY DEF Pair!Digest, Digests, Pair!Peers, Pair!NoScope, Asked

LEMMA ConnInit == ASSUME Pair!ConnLoginAssumption PROVE Pair!Init => ConnInv
<1> SUFFICES ASSUME Pair!Init PROVE ConnInv
  OBVIOUS
<1>1. Pair!NoProof \in Proofs /\ Pair!NoSession \in Remembered
  BY PasswordsDiffer DEF Pair!NoProof, Pair!NoSession, Proofs, Remembered
<1>2. ASSUME NEW k \in SessionKeys
      PROVE  /\ Pair!Opened(k) \in Fields
             /\ Good(Pair!Opened(k), Pair!NoProof, {}, Pair!NoScope) /\ Made(Pair!Opened(k).lr.password)
  <2> DEFINE lr == [key |-> k, scope |-> "remote", password |-> Pair!Empty]
  <2>1. lr \in Asked
    BY PasswordsDiffer DEF Pair!ConnLoginAssumption, Asked
  <2>2. TfaEnabled \in BOOLEAN
    BY DEF Pair!ConnLoginAssumption
  <2>3. Pair!Opened(k).lr = lr
    BY DEF Pair!Opened
  <2> HIDE DEF lr
  <2>4. /\ Pair!Opened(k) \in Fields
        /\ Pair!Opened(k).by = "" /\ Pair!Opened(k).at = "idle" /\ Pair!Opened(k).login_scope = Pair!NoScope
        /\ ~Pair!Opened(k).authorized /\ ~Pair!Opened(k).awaiting_2fa /\ Pair!Opened(k).require_2fa = TfaEnabled /\ ~Pair!Opened(k).from_switch
    BY <2>1, <2>2 DEF Pair!Opened, Fields, Places, lr
  <2>5. Good(Pair!Opened(k), Pair!NoProof, {}, Pair!NoScope)
    BY <2>2, <2>4 DEF Good, Sequential, OneScope, Straight, Proven
  <2>6. Pair!Opened(k).lr.password = Pair!Empty
    BY <2>3 DEF lr
  <2> QED
    BY <2>4, <2>5, <2>6, PasswordsDiffer DEF Made
<1>3. ConnTypes
  BY <1>1, <1>2 DEF Pair!Init, ConnTypes
<1>4. AllGood
  BY <1>2 DEF Pair!Init, AllGood
<1>5. CodesGiven
  BY DEF Pair!Init, CodesGiven, Pair!NoSession
<1>6. NoneAhead
  <2>1. Made(Pair!Empty)
    BY PasswordsDiffer DEF Made
  <2> QED
    BY <1>2, <2>1 DEF Pair!Init, NoneAhead, Pair!NoSession, Pair!NoProof
<1>7. Pair!OneTimeGone
  <2>1. \A k \in SessionKeys : ~Pair!Opened(k).authorized
    BY DEF Pair!Opened
  <2> QED
    BY <2>1 DEF Pair!Init, Pair!OneTimeGone
<1>8. TokensApart
  BY DEF Pair!Init, TokensApart, Pair!NoProof
<1> QED
  BY <1>3, <1>4, <1>5, <1>6, <1>7, <1>8 DEF ConnInv

(* A step of one connection, which changes nothing that the others rest on. *)
LEMMA OneMoves ==
  ASSUME ConnInv, ConnTypes', NEW c \in Links,
         \A d \in Links : d # c => conn'[d] = conn[d] /\ proof'[d] = proof[d]
                                   /\ shown'[d] = shown[d] /\ click'[d] = click[d],
         conn'[c] # Pair!Closed => Good(conn'[c], proof'[c], shown'[c], click'[c])
  PROVE  AllGood'
BY DEF ConnInv, AllGood

(* What a step does to the passwords: none is new, and those of the connection
   that moves are as before, in a session, or the request's.               *)
LEMMA PasswordsKept ==
  ASSUME ConnInv, ConnTypes', NEW c \in Links, temp' >= temp,
         \A d \in Links : d # c => conn'[d] = conn[d] /\ proof'[d] = proof[d],
         \A k \in SessionKeys : Made(sessions'[k].password),
         Made(proof'[c].password),
         conn'[c] # Pair!Closed => Made(conn'[c].lr.password),
         conn'[c].authorized => proof'[c].password # Pair!OneTime(temp'),
         temp' = temp \/ temp' = temp + 1
  PROVE  NoneAhead' /\ Pair!OneTimeGone'
<1>1. temp \in Nat /\ temp' \in Nat
  BY DEF ConnInv, ConnTypes
<1>2. \A pw : Made(pw) => Made(pw)'
  BY <1>1 DEF Made
<1>3. NoneAhead'
  BY <1>2 DEF ConnInv, NoneAhead
<1>4. ASSUME NEW d \in Links, d # c, conn[d].authorized PROVE proof[d].password # Pair!OneTime(temp')
  <2>1. Made(proof[d].password) /\ proof[d].password # Pair!OneTime(temp)
    BY <1>4 DEF ConnInv, NoneAhead, Pair!OneTimeGone
  <2> QED
    BY <1>1, <2>1, PasswordsDiffer DEF Made
<1>5. Pair!OneTimeGone'
  BY <1>4 DEF Pair!OneTimeGone
<1> QED
  BY <1>3, <1>5

LEMMA ClosedAt == Pair!Closed.at = "closed" /\ ~Pair!Closed.authorized /\ Pair!Closed \notin Fields
BY DEF Pair!Closed, Fields, Places

LEMMA ShutKeeps ==
  ASSUME ConnInv, NEW c \in Links, Pair!Shut(c), UNCHANGED <<temp, tokens, issued>>,
         sessions' \in [SessionKeys -> Remembered], CodesGiven',
         \A k \in SessionKeys : Made(sessions'[k].password),
         NEW p \in Proofs, proof' = [proof EXCEPT ![c] = p], Made(p.password),
         p.token \in {0, proof[c].token}
  PROVE  ConnInv'
<1>1. ConnTypes
  BY DEF ConnInv
<1>2. ConnTypes'
  BY <1>1 DEF ConnTypes, Pair!Shut
<1>3. conn'[c] = Pair!Closed /\ ~conn'[c].authorized
  BY <1>1 DEF ConnTypes, Pair!Shut, Pair!Closed
<1>4. AllGood'
  BY <1>1, <1>2, <1>3, OneMoves DEF ConnTypes, Pair!Shut
<1>5. NoneAhead' /\ Pair!OneTimeGone'
  BY <1>1, <1>2, <1>3, PasswordsKept DEF ConnTypes, Pair!Shut
<1>6. TokensApart'
  BY <1>1 DEF ConnInv, ConnTypes, TokensApart, Proofs
<1> QED
  BY <1>2, <1>4, <1>5, <1>6 DEF ConnInv

(* A request replaces the last one; a trusted device needs no code. *)
LEMMA WithRequestFields ==
  ASSUME NEW r \in Fields, NEW lr \in Asked, NEW at \in Places
  PROVE  LET u == Pair!WithRequest(r, lr, at) IN
         /\ u \in Fields /\ u.lr = lr /\ u.at = at
         /\ u.require_2fa = (r.require_2fa /\ lr.key \notin Trusted)
         /\ u.login_scope = r.login_scope /\ u.authorized = r.authorized
         /\ u.from_switch = r.from_switch /\ u.granted = r.granted /\ u.by = r.by
         /\ u.awaiting_2fa = r.awaiting_2fa
<1> DEFINE u == Pair!WithRequest(r, lr, at)
           n == r.asked + 1
           two == r.require_2fa /\ lr.key \notin Trusted
<1>a. r.asked \in Nat
  BY DEF Fields
<1>1. n \in Nat /\ two \in BOOLEAN
  BY <1>a
<1>2. u = [r EXCEPT !.lr = lr, !.at = at, !.asked = n, !.require_2fa = two]
  BY DEF Pair!WithRequest
<1>3. two = (r.require_2fa /\ lr.key \notin Trusted)
  OBVIOUS
<1> HIDE DEF n, two, u
<1>4. /\ u \in Fields /\ u.lr = lr /\ u.at = at /\ u.require_2fa = two
      /\ u.login_scope = r.login_scope /\ u.authorized = r.authorized
      /\ u.from_switch = r.from_switch /\ u.granted = r.granted /\ u.by = r.by
      /\ u.awaiting_2fa = r.awaiting_2fa
  BY <1>1, <1>2 DEF Fields
<1> QED
  BY <1>3, <1>4 DEF u

LEMMA AcceptedFields ==
  ASSUME NEW r \in Fields, NEW lr \in Asked, r.login_scope \in {Pair!NoScope, Pair!Digest(lr)},
         Pair!Digest(lr) \in Digests, Pair!Branch(lr) \in {"ask", "check", "respond"}
  PROVE  LET s == Pair!Accepted(r, lr) IN
         /\ s \in Fields /\ s.lr = lr /\ s.at = Pair!Branch(lr) /\ s.login_scope = Pair!Digest(lr)
         /\ s.require_2fa = (r.require_2fa /\ lr.key \notin Trusted)
         /\ s.awaiting_2fa = FALSE /\ s.by = "password" /\ s.authorized = r.authorized
         /\ s.from_switch = r.from_switch /\ s.granted = r.granted
<1> DEFINE s == Pair!Accepted(r, lr)
           scope == Pair!Latched(r.login_scope, lr)
<1>a. Pair!Branch(lr) \in Places
  BY DEF Places
<1>1. PICK u \in Fields :
        /\ u = Pair!WithRequest(r, lr, Pair!Branch(lr)) /\ u.lr = lr /\ u.at = Pair!Branch(lr)
        /\ u.require_2fa = (r.require_2fa /\ lr.key \notin Trusted)
        /\ u.login_scope = r.login_scope /\ u.authorized = r.authorized
        /\ u.from_switch = r.from_switch /\ u.granted = r.granted
  BY <1>a, WithRequestFields
<1>2. scope = Pair!Digest(lr) /\ scope \in Digests
  BY DEF Pair!Latched
<1>3. s = [u EXCEPT !.login_scope = scope, !.awaiting_2fa = FALSE, !.by = "password"]
  BY <1>1 DEF Pair!Accepted
<1> HIDE DEF s, scope
<1>4. /\ s \in Fields /\ s.lr = u.lr /\ s.at = u.at /\ s.login_scope = scope
      /\ s.require_2fa = u.require_2fa
      /\ s.awaiting_2fa = FALSE /\ s.by = "password" /\ s.authorized = u.authorized
      /\ s.from_switch = u.from_switch /\ s.granted = u.granted
  BY <1>2, <1>3 DEF Fields
<1> QED
  BY <1>1, <1>2, <1>4 DEF s

LEMMA LoginRequestKeeps ==
  ASSUME Pair!ConnLoginAssumption, ConnInv, NEW c \in Links, NEW lr \in Pair!Requests, Pair!LoginRequest(c, lr)
  PROVE  ConnInv'
<1>1. ConnTypes /\ conn[c] \in Fields \cup {Pair!Closed} /\ proof[c] \in Proofs
  BY DEF ConnInv, ConnTypes
<1> DEFINE r == conn[c]
           p == proof[c]
           q == Pair!ProofOf(p, lr)
<1>2. r \in Fields /\ r.at = "idle" /\ ~r.authorized
  BY <1>1 DEF Pair!LoginRequest, Pair!Idle, Pair!Closed
<1>3. /\ lr \in Asked /\ Made(lr.password) /\ lr.key \in SessionKeys
      /\ Pair!Digest(lr) \in Digests /\ Pair!Digest(lr) # Pair!NoScope
  <2>1. lr.password \in AnyPassword /\ Made(lr.password)
    BY <1>1, PasswordsKnown DEF ConnTypes, Pair!Requests
  <2>2. lr \in Asked
    BY <2>1 DEF Pair!Requests, Asked
  <2> QED
    BY <2>1, <2>2, DigestsAreNot DEF Asked
<1>4. /\ q \in Proofs /\ q.token = 0
      /\ q.password = IF sessions[lr.key].password = lr.password THEN lr.password ELSE Pair!Empty
      /\ q.tfa = (p.tfa \/ lr.key \in Trusted)
  <2> DEFINE b == p.tfa \/ lr.key \in Trusted
             w == IF sessions[lr.key].password = lr.password THEN lr.password ELSE Pair!Empty
  <2>1. b \in BOOLEAN /\ w \in AnyPassword
    BY <1>1, <1>3, PasswordsDiffer DEF Asked
  <2>2. q = [password |-> w, tfa |-> b, token |-> 0, click |-> Pair!NoScope]
    BY DEF Pair!ProofOf
  <2> HIDE DEF b, w
  <2>3. q \in Proofs /\ q.token = 0 /\ q.password = w /\ q.tfa = b
    BY <2>1, <2>2 DEF Proofs
  <2> QED
    BY <2>3 DEF b, w
<1>5. /\ proof' = [proof EXCEPT ![c] = q]
      /\ UNCHANGED <<sessions, temp, tokens, issued, proved2fa>>
  BY DEF Pair!LoginRequest
<1>6. Made(q.password) /\ CodesGiven' /\ \A k \in SessionKeys : Made(sessions'[k].password)
  BY <1>3, <1>4, <1>5, PasswordsDiffer DEF Made, ConnInv, CodesGiven, NoneAhead
<1> HIDE DEF q
<1>7. CASE ~Pair!ScopeHolds(c, lr) \/ Pair!Refused(lr)
  <2>1. Pair!Shut(c)
    BY <1>7 DEF Pair!LoginRequest
  <2> QED
    BY <1>1, <1>4, <1>5, <1>6, <2>1, ShutKeeps DEF ConnTypes
<1>8. CASE ~(~Pair!ScopeHolds(c, lr) \/ Pair!Refused(lr))
  <2> DEFINE at == Pair!Branch(lr)
             s == Pair!Accepted(r, lr)
  <2>1. conn' = [conn EXCEPT ![c] = s] /\ UNCHANGED <<click, shown>>
    BY <1>8 DEF Pair!LoginRequest
  <2>2. r.login_scope \in {Pair!NoScope, Pair!Digest(lr)}
    BY <1>8 DEF Pair!ScopeHolds
  <2>3. at \in {"ask", "check", "respond"} /\ (at = "respond" => Pair!IsRecentSession(lr))
    BY DEF Pair!Branch
  <2>4. at = "respond" => q.password # Pair!Empty
    BY <1>4, <2>3 DEF Pair!IsRecentSession
  <2>6. /\ s \in Fields /\ s.lr = lr /\ s.at = at /\ s.login_scope = Pair!Digest(lr)
        /\ s.require_2fa = (r.require_2fa /\ lr.key \notin Trusted)
        /\ s.awaiting_2fa = FALSE /\ s.by = "password" /\ s.authorized = r.authorized
        /\ s.from_switch = r.from_switch /\ s.granted = r.granted
    BY <1>2, <1>3, <2>2, <2>3, AcceptedFields
  <2>7. conn'[c] = s /\ proof'[c] = q /\ shown'[c] = shown[c] /\ click'[c] = click[c]
    BY <1>1, <1>5, <2>1 DEF ConnTypes
  <2> HIDE DEF s, at
  <2>8. ConnTypes'
    BY <1>1, <1>4, <1>5, <2>1, <2>6 DEF ConnTypes
  <2>9. Good(r, p, shown[c], click[c])
    BY <1>2, ClosedAt DEF ConnInv, AllGood
  <2>10. Good(s, q, shown[c], click[c])
    <3>1. Sequential(s)
      BY <1>2, <2>6 DEF Sequential
    <3>2. OneScope(s, shown[c], click[c])
      BY <1>2, <1>3, <2>2, <2>6, <2>9 DEF OneScope, Good
    <3>3. r.by \in {"", "password"} /\ ~r.from_switch
      BY <1>2, <2>9 DEF Straight, Good, Fields
    <3>4. Straight(s, q)
      BY <3>3, <2>6 DEF Straight
    <3>5. Proven(s, q)
      BY <1>2, <1>4, <2>3, <2>4, <2>6, <2>9, <3>3 DEF Proven, Good
    <3> QED
      BY <3>1, <3>2, <3>4, <3>5 DEF Good
  <2>11. AllGood'
    BY <1>1, <1>5, <2>1, <2>7, <2>8, <2>10, OneMoves DEF ConnTypes
  <2>12. NoneAhead' /\ Pair!OneTimeGone'
    BY <1>1, <1>2, <1>3, <1>5, <1>6, <2>1, <2>6, <2>7, <2>8, PasswordsKept DEF ConnTypes
  <2>13. TokensApart'
    BY <1>1, <1>4, <1>5 DEF ConnInv, ConnTypes, TokensApart, Proofs
  <2> QED
    BY <1>6, <2>8, <2>11, <2>12, <2>13 DEF ConnInv
<1> QED
  BY <1>7, <1>8

(* A step of one connection that stays open: what it has to establish. *)
LEMMA OneStepKeeps ==
  ASSUME ConnInv, ConnTypes', NEW c \in Links,
         \A d \in Links : d # c => conn'[d] = conn[d] /\ proof'[d] = proof[d]
                                   /\ shown'[d] = shown[d] /\ click'[d] = click[d],
         Good(conn'[c], proof'[c], shown'[c], click'[c]),
         temp' \in {temp, temp + 1}, CodesGiven', TokensApart',
         \A k \in SessionKeys : Made(sessions'[k].password),
         Made(proof'[c].password), Made(conn'[c].lr.password),
         conn'[c].authorized => proof'[c].password # Pair!OneTime(temp')
  PROVE  ConnInv'
<1>1. AllGood'
  BY OneMoves
<1>2. temp \in Nat
  BY DEF ConnInv, ConnTypes
<1>3. NoneAhead' /\ Pair!OneTimeGone'
  BY <1>2, PasswordsKept
<1> QED
  BY <1>1, <1>3 DEF ConnInv

(* The same for a handler that goes on with its request. *)
LEMMA HandlerKeeps ==
  ASSUME ConnInv, NEW c \in Links, conn[c] \in Fields,
         NEW s \in Fields, conn' = [conn EXCEPT ![c] = s],
         NEW p \in Proofs, proof' = [proof EXCEPT ![c] = p],
         NEW sh \in SUBSET Digests, shown' = [shown EXCEPT ![c] = sh],
         NEW ck \in Digests \cup {Pair!NoScope}, click' = [click EXCEPT ![c] = ck],
         UNCHANGED <<sessions, temp, tokens, issued, proved2fa>>,
         s.lr = conn[c].lr, s.authorized => conn[c].authorized,
         p.password = proof[c].password, p.token = proof[c].token,
         Good(s, p, sh, ck)
  PROVE  ConnInv'
<1>1. ConnTypes /\ conn[c] # Pair!Closed
  BY ClosedAt DEF ConnInv
<1>2. ConnTypes'
  BY <1>1 DEF ConnTypes
<1>3. conn'[c] = s /\ proof'[c] = p /\ shown'[c] = sh /\ click'[c] = ck
  BY <1>1 DEF ConnTypes
<1>4. \A d \in Links : d # c => conn'[d] = conn[d] /\ proof'[d] = proof[d]
                                /\ shown'[d] = shown[d] /\ click'[d] = click[d]
  BY <1>1 DEF ConnTypes
<1>5. CodesGiven' /\ \A k \in SessionKeys : Made(sessions'[k].password)
  BY DEF ConnInv, CodesGiven, NoneAhead
<1>6. TokensApart'
  BY <1>1 DEF ConnInv, ConnTypes, TokensApart
<1>7. Made(p.password) /\ Made(s.lr.password)
  BY <1>1 DEF ConnInv, NoneAhead
<1>8. s.authorized => p.password # Pair!OneTime(temp')
  BY DEF ConnInv, Pair!OneTimeGone
<1> QED
  BY <1>2, <1>3, <1>4, <1>5, <1>6, <1>7, <1>8, OneStepKeeps

(* What is known of a connection whose handler is under way. *)
LEMMA OpenOne ==
  ASSUME ConnInv, NEW c \in Links, conn[c].at # "closed"
  PROVE  /\ conn[c] \in Fields /\ proof[c] \in Proofs
         /\ shown[c] \in SUBSET Digests /\ click[c] \in Digests \cup {Pair!NoScope}
         /\ proof = [proof EXCEPT ![c] = proof[c]] /\ shown = [shown EXCEPT ![c] = shown[c]]
         /\ click = [click EXCEPT ![c] = click[c]]
         /\ Good(conn[c], proof[c], shown[c], click[c])
         /\ Pair!Digest(conn[c].lr) \in Digests /\ Pair!Digest(conn[c].lr) # Pair!NoScope
         /\ conn[c].lr \in Asked /\ conn[c].lr.key \in SessionKeys
<1>1. conn[c] \in Fields
  BY ClosedAt DEF ConnInv, ConnTypes
<1>2. conn[c].lr \in Asked
  BY <1>1 DEF Fields
<1> QED
  BY <1>1, <1>2, ClosedAt, DigestsAreNot DEF ConnInv, ConnTypes, AllGood, Asked

LEMMA AskKeeps ==
  ASSUME ConnInv, NEW c \in Links, Pair!Ask(c)
  PROVE  ConnInv'
<1>1. conn[c].at = "ask"
  BY DEF Pair!Ask
<1>2. UNCHANGED <<sessions, temp, tokens, issued, proof, proved2fa>>
  BY DEF Pair!Ask
<1> DEFINE r == conn[c]
           p == proof[c]
<1>3. /\ r \in Fields /\ p \in Proofs /\ Good(r, p, shown[c], click[c])
      /\ Pair!Digest(r.lr) \in Digests /\ Pair!Digest(r.lr) # Pair!NoScope
  BY <1>1, OpenOne
<1>4. CASE Pair!Shut(c)
  <2>1. Made(p.password) /\ CodesGiven' /\ \A k \in SessionKeys : Made(sessions'[k].password)
    BY <1>2 DEF ConnInv, CodesGiven, NoneAhead
  <2> QED
    BY <1>1, <1>2, <1>3, <1>4, <2>1, OpenOne, ShutKeeps DEF ConnInv, ConnTypes
<1>5. CASE ~Pair!Shut(c)
  <2> DEFINE sh == shown[c] \cup {Pair!Digest(r.lr)}
  <2>1. PICK named \in BOOLEAN :
          conn' = [conn EXCEPT ![c].at = "idle", ![c].user_token = @ \/ named]
    BY <1>5 DEF Pair!Ask
  <2>2. shown' = [shown EXCEPT ![c] = sh] /\ click' = click
    BY <1>5 DEF Pair!Ask, Pair!TryStartCm
  <2>3. PICK z \in Fields : z = r
    BY <1>3
  <2>4. PICK b \in BOOLEAN : b = (z.user_token \/ named)
    OBVIOUS
  <2> DEFINE s == [z EXCEPT !.at = "idle", !.user_token = b]
  <2>5. conn' = [conn EXCEPT ![c] = s]
    BY <2>1, <2>3, <2>4 DEF ConnInv, ConnTypes
  <2>6. /\ s \in Fields /\ s.lr = z.lr /\ s.authorized = z.authorized /\ s.at = "idle"
        /\ s.by = z.by /\ s.login_scope = z.login_scope /\ s.require_2fa = z.require_2fa
        /\ s.awaiting_2fa = z.awaiting_2fa /\ s.from_switch = z.from_switch /\ s.granted = z.granted
    BY DEF Fields, Places
  <2> HIDE DEF s
  <2>7. z.at = "ask" /\ Good(z, p, shown[c], click[c])
    BY <1>1, <1>3, <2>3
  <2>8. z.login_scope = Pair!Digest(z.lr) /\ Pair!Digest(z.lr) # Pair!NoScope
    BY <1>3, <2>3, <2>7 DEF Good, OneScope, Sequential, Straight, Fields
  <2>9. Good(s, p, sh, click[c])
    <3>1. OneScope(s, sh, click[c])
      BY <2>3, <2>6, <2>7, <2>8 DEF Good, OneScope, Sequential
    <3> QED
      BY <2>6, <2>7, <3>1 DEF Good, Sequential, Straight, Proven
  <2> QED
    <3>1. /\ proof' = [proof EXCEPT ![c] = p] /\ sh \in SUBSET Digests
          /\ click' = [click EXCEPT ![c] = click[c]] /\ click[c] \in Digests \cup {Pair!NoScope}
      BY <1>1, <1>2, <1>3, <2>2, OpenOne
    <3>2. s.lr = conn[c].lr /\ (s.authorized => conn[c].authorized) /\ conn[c] \in Fields
      BY <1>3, <2>3, <2>6
    <3> HIDE DEF sh, p, r
    <3> QED
      BY <1>2, <1>3, <2>2, <2>5, <2>6, <2>9, <3>1, <3>2, HandlerKeeps DEF p
<1> QED
  BY <1>4, <1>5

LEMMA CheckFailureKeeps ==
  ASSUME ConnInv, NEW c \in Links, Pair!CheckFailure(c)
  PROVE  ConnInv'
<1>1. /\ conn[c].at = "check"
      /\ UNCHANGED <<sessions, temp, tokens, issued, shown, click, proof, proved2fa>>
  BY DEF Pair!CheckFailure
<1>2. PICK to \in {"idle", "validate"} : conn' = [conn EXCEPT ![c].at = to]
  BY DEF Pair!CheckFailure
<1>3. PICK z \in Fields : z = conn[c] /\ Good(z, proof[c], shown[c], click[c]) /\ z.at = "check"
  BY <1>1, OpenOne
<1> DEFINE s == [z EXCEPT !.at = to]
<1>4. conn' = [conn EXCEPT ![c] = s]
  BY <1>2, <1>3 DEF ConnInv, ConnTypes
<1>5. /\ s \in Fields /\ s.lr = z.lr /\ s.authorized = z.authorized /\ s.at = to
      /\ s.by = z.by /\ s.login_scope = z.login_scope /\ s.require_2fa = z.require_2fa
      /\ s.awaiting_2fa = z.awaiting_2fa /\ s.from_switch = z.from_switch /\ s.granted = z.granted
  BY DEF Fields, Places
<1> HIDE DEF s
<1>6. Good(s, proof[c], shown[c], click[c])
  BY <1>3, <1>5 DEF Good, Sequential, OneScope, Straight, Proven, Fields
<1> QED
  <2>1. /\ proof' = [proof EXCEPT ![c] = proof[c]] /\ proof[c] \in Proofs
        /\ shown' = [shown EXCEPT ![c] = shown[c]] /\ shown[c] \in SUBSET Digests
        /\ click' = [click EXCEPT ![c] = click[c]] /\ click[c] \in Digests \cup {Pair!NoScope}
    BY <1>1, OpenOne
  <2>2. s.lr = conn[c].lr /\ (s.authorized => conn[c].authorized) /\ conn[c] \in Fields
    BY <1>3, <1>5
  <2> QED
    BY <1>1, <1>4, <1>5, <1>6, <2>1, <2>2, HandlerKeeps

LEMMA ValidateKeeps ==
  ASSUME ConnInv, NEW c \in Links, Pair!ValidatePassword(c)
  PROVE  ConnInv'
<1>1. conn[c].at = "validate" /\ UNCHANGED <<temp, tokens, issued, click>>
  BY DEF Pair!ValidatePassword
<1>2. PICK z \in Fields : /\ z = conn[c] /\ Good(z, proof[c], shown[c], click[c])
                          /\ z.at = "validate" /\ z.lr \in Asked /\ z.lr.key \in SessionKeys
                          /\ Pair!Digest(z.lr) \in Digests /\ Pair!Digest(z.lr) # Pair!NoScope
  BY <1>1, OpenOne
<1>3. /\ proof[c] \in Proofs /\ shown[c] \in SUBSET Digests /\ ConnTypes
      /\ click' = [click EXCEPT ![c] = click[c]] /\ click[c] \in Digests \cup {Pair!NoScope}
      /\ Made(z.lr.password)
  BY <1>1, <1>2, OpenOne, ClosedAt DEF ConnInv, NoneAhead
<1>4. ~z.authorized /\ z.by = "password"
  BY <1>2 DEF Good, Sequential, OneScope, Straight, Fields
<1>5. CASE /\ z.lr.password \in {Pair!OneTime(temp), Pair!Permanent}
           /\ conn' = [conn EXCEPT ![c].at = "respond"]
           /\ proof' = [proof EXCEPT ![c].password = z.lr.password]
           /\ shown' = shown
           /\ \/ /\ sessions' = [sessions EXCEPT ![z.lr.key] =
                      [there |-> TRUE, password |-> z.lr.password, tfa |-> FALSE]]
                 /\ proved2fa' = proved2fa \ {z.lr.key}
              \/ UNCHANGED <<sessions, proved2fa>>
  <2>1. PICK pw \in AnyPassword : pw = z.lr.password
    BY <1>2 DEF Asked
  <2>2. pw # Pair!Empty /\ Made(pw)
    BY <1>3, <1>5, <2>1, PasswordsDiffer DEF ConnTypes
  <2>3. PICK w \in Proofs : w = proof[c]
    BY <1>3
  <2> DEFINE s == [z EXCEPT !.at = "respond"]
             p == [w EXCEPT !.password = pw]
  <2>4. conn' = [conn EXCEPT ![c] = s] /\ proof' = [proof EXCEPT ![c] = p]
    BY <1>2, <1>3, <1>5, <2>1, <2>3 DEF ConnTypes
  <2>5. /\ s \in Fields /\ s.lr = z.lr /\ s.authorized = z.authorized /\ s.at = "respond"
        /\ s.by = z.by /\ s.login_scope = z.login_scope /\ s.require_2fa = z.require_2fa
        /\ s.awaiting_2fa = z.awaiting_2fa /\ s.from_switch = z.from_switch
        /\ s.granted = z.granted
    BY DEF Fields, Places
  <2>6. /\ p \in Proofs /\ p.password = pw /\ p.tfa = w.tfa /\ p.token = w.token
        /\ p.click = w.click
    BY DEF Proofs
  <2> HIDE DEF s, p
  <2>7. Good(s, p, shown[c], click[c])
    BY <1>2, <1>4, <2>2, <2>3, <2>5, <2>6 DEF Good, Sequential, OneScope, Straight, Proven
  <2>8. sessions' \in [SessionKeys -> Remembered] /\ CodesGiven' /\ \A k \in SessionKeys : Made(sessions'[k].password)
    <3>1. CASE UNCHANGED <<sessions, proved2fa>>
      BY <3>1, <1>3 DEF ConnInv, ConnTypes, CodesGiven, NoneAhead
    <3>2. CASE /\ sessions' = [sessions EXCEPT ![z.lr.key] =
                      [there |-> TRUE, password |-> z.lr.password, tfa |-> FALSE]]
               /\ proved2fa' = proved2fa \ {z.lr.key}
      <4> DEFINE n == [there |-> TRUE, password |-> pw, tfa |-> FALSE]
      <4>1. n \in Remembered /\ n.password = pw /\ ~n.tfa
        BY DEF Remembered
      <4>2. sessions' = [sessions EXCEPT ![z.lr.key] = n]
        BY <2>1, <3>2
      <4> HIDE DEF n
      <4>3. sessions' \in [SessionKeys -> Remembered]
        BY <1>3, <4>1, <4>2 DEF ConnTypes
      <4>4. \A k \in SessionKeys : sessions'[k] = IF k = z.lr.key THEN n ELSE sessions[k]
        BY <1>3, <4>2 DEF ConnTypes
      <4>5. CodesGiven'
        BY <3>2, <4>1, <4>4 DEF ConnInv, CodesGiven
      <4>6. \A k \in SessionKeys : Made(sessions'[k].password)
        BY <2>2, <4>1, <4>4 DEF ConnInv, NoneAhead
      <4> QED
        BY <4>3, <4>5, <4>6
    <3> QED
      BY <1>5, <3>1, <3>2
  <2>9. ConnTypes'
    BY <1>1, <1>3, <1>5, <2>4, <2>5, <2>6, <2>8 DEF ConnTypes
  <2>10. /\ conn'[c] = s /\ proof'[c] = p /\ shown'[c] = shown[c] /\ click'[c] = click[c]
         /\ \A d \in Links : d # c => conn'[d] = conn[d] /\ proof'[d] = proof[d]
                                      /\ shown'[d] = shown[d] /\ click'[d] = click[d]
    BY <1>1, <1>3, <1>5, <2>4 DEF ConnTypes
  <2>11. TokensApart'
    BY <1>1, <1>3, <2>3, <2>6, <2>10 DEF ConnInv, TokensApart
  <2>12. Made(s.lr.password) /\ Made(p.password) /\ ~s.authorized
    BY <1>3, <1>4, <2>2, <2>5, <2>6
  <2> QED
    BY <1>1, <2>7, <2>8, <2>9, <2>10, <2>11, <2>12, OneStepKeeps
<1>6. CASE /\ conn' = [conn EXCEPT ![c].at = "idle"]
           /\ shown' = [shown EXCEPT ![c] = @ \union {Pair!Digest(z.lr)}]
           /\ UNCHANGED <<sessions, proof, proved2fa>>
  <2> DEFINE s == [z EXCEPT !.at = "idle"]
             sh == shown[c] \cup {Pair!Digest(z.lr)}
  <2>1. conn' = [conn EXCEPT ![c] = s] /\ shown' = [shown EXCEPT ![c] = sh]
    BY <1>2, <1>3, <1>6 DEF ConnTypes
  <2>2. /\ s \in Fields /\ s.lr = z.lr /\ s.authorized = z.authorized /\ s.at = "idle"
        /\ s.by = z.by /\ s.login_scope = z.login_scope /\ s.require_2fa = z.require_2fa
        /\ s.awaiting_2fa = z.awaiting_2fa /\ s.from_switch = z.from_switch
        /\ s.granted = z.granted
    BY DEF Fields, Places
  <2> HIDE DEF s
  <2>3. z.login_scope = Pair!Digest(z.lr) /\ Pair!Digest(z.lr) # Pair!NoScope
    BY <1>2, <1>4 DEF Good, OneScope
  <2>4. Good(s, proof[c], sh, click[c])
    <3>1. OneScope(s, sh, click[c])
      BY <1>2, <2>2, <2>3 DEF Good, OneScope
    <3> QED
      BY <1>2, <1>4, <2>2, <3>1 DEF Good, Sequential, Straight, Proven
  <2>5. proof' = [proof EXCEPT ![c] = proof[c]] /\ sh \in SUBSET Digests
    BY <1>2, <1>3, <1>6 DEF ConnTypes
  <2>6. s.lr = conn[c].lr /\ (s.authorized => conn[c].authorized) /\ conn[c] \in Fields
    BY <1>2, <2>2
  <2> HIDE DEF sh
  <2> QED
    BY <1>1, <1>3, <1>6, <2>1, <2>2, <2>4, <2>5, <2>6, HandlerKeeps
<1> QED
  BY <1>2, <1>5, <1>6 DEF Pair!ValidatePassword, Pair!Validated, Pair!UpdateSession, Pair!TryStartCm

LEMMA RespondKeeps ==
  ASSUME ConnInv, NEW c \in Links, Pair!Respond(c)
  PROVE  ConnInv'
<1>1. conn[c].at = "respond" /\ UNCHANGED <<sessions, temp, tokens, issued, click, proved2fa>>
  BY DEF Pair!Respond
<1>2. PICK z \in Fields : /\ z = conn[c] /\ Good(z, proof[c], shown[c], click[c])
                          /\ z.at = "respond" /\ z.lr \in Asked /\ z.lr.key \in SessionKeys
                          /\ Pair!Digest(z.lr) \in Digests /\ Pair!Digest(z.lr) # Pair!NoScope
  BY <1>1, OpenOne
<1>3. /\ shown[c] \in SUBSET Digests /\ ConnTypes
      /\ click' = [click EXCEPT ![c] = click[c]] /\ click[c] \in Digests \cup {Pair!NoScope}
  BY <1>1, OpenOne DEF ConnInv
<1>4. PICK w \in Proofs : w = proof[c]
  BY <1>3 DEF ConnTypes
<1>5. PICK b \in BOOLEAN : b = (w.tfa \/ z.lr.key \in proved2fa)
  OBVIOUS
<1> DEFINE p == [w EXCEPT !.tfa = b]
<1>6. proof' = [proof EXCEPT ![c] = p]
  BY <1>2, <1>3, <1>4, <1>5 DEF Pair!Respond, ConnTypes
<1>7. /\ p \in Proofs /\ p.password = w.password /\ p.tfa = b /\ p.token = w.token
      /\ p.click = w.click
  BY DEF Proofs
<1> HIDE DEF p
<1>8. p.password = proof[c].password /\ p.token = proof[c].token /\ conn[c] \in Fields
  BY <1>2, <1>4, <1>7
<1>9. w.tfa \in BOOLEAN
  BY DEF Proofs
<1>10. CASE z.authorized
  <2> DEFINE s == [z EXCEPT !.at = "idle"]
  <2>1. conn' = [conn EXCEPT ![c] = s] /\ shown' = [shown EXCEPT ![c] = shown[c]]
    BY <1>2, <1>3, <1>10 DEF Pair!Respond, ConnTypes
  <2>2. /\ s \in Fields /\ s.lr = z.lr /\ s.authorized = z.authorized /\ s.at = "idle"
        /\ s.by = z.by /\ s.login_scope = z.login_scope /\ s.require_2fa = z.require_2fa
        /\ s.awaiting_2fa = z.awaiting_2fa /\ s.from_switch = z.from_switch
        /\ s.granted = z.granted
    BY DEF Fields, Places
  <2> HIDE DEF s
  <2>3. Good(s, p, shown[c], click[c])
    BY <1>2, <1>4, <1>5, <1>7, <1>9, <1>10, <2>2
    DEF Good, Sequential, OneScope, Straight, Proven
  <2>4. s.lr = conn[c].lr /\ (s.authorized => conn[c].authorized)
    BY <1>2, <2>2
  <2> QED
    BY <1>1, <1>3, <1>6, <1>7, <1>8, <2>1, <2>2, <2>3, <2>4, HandlerKeeps
<1>11. CASE ~z.authorized /\ z.require_2fa /\ ~Pair!IsRecentSession2fa(z.lr) /\ ~z.from_switch
  <2> DEFINE s == [z EXCEPT !.at = "idle", !.awaiting_2fa = TRUE]
             sh == shown[c] \cup {Pair!Digest(z.lr)}
  <2>1. conn' = [conn EXCEPT ![c] = s]
    BY <1>2, <1>3, <1>11 DEF Pair!Respond, ConnTypes
  <2>2. /\ s \in Fields /\ s.lr = z.lr /\ s.authorized = z.authorized /\ s.at = "idle"
        /\ s.by = z.by /\ s.login_scope = z.login_scope /\ s.require_2fa = z.require_2fa
        /\ s.awaiting_2fa = TRUE /\ s.from_switch = z.from_switch
        /\ s.granted = z.granted
    BY DEF Fields, Places
  <2> HIDE DEF s
  <2>3. z.by = "password"
    BY <1>2, <1>11 DEF Good, OneScope, Straight, Fields
  <2>4. shown' = [shown EXCEPT ![c] = sh]
    BY <1>2, <1>11, <2>3 DEF Pair!Respond, Pair!TryStartCm
  <2>5. z.login_scope = Pair!Digest(z.lr)
    BY <1>2, <1>11, <2>3 DEF Good, OneScope
  <2>6. Good(s, p, sh, click[c])
    <3>1. OneScope(s, sh, click[c])
      BY <1>2, <2>2, <2>5 DEF Good, OneScope
    <3> QED
      BY <1>2, <1>4, <1>5, <1>7, <1>9, <1>11, <2>2, <2>3, <3>1
      DEF Good, Sequential, Straight, Proven
  <2>7. s.lr = conn[c].lr /\ (s.authorized => conn[c].authorized) /\ sh \in SUBSET Digests
    BY <1>2, <1>3, <2>2
  <2> HIDE DEF sh
  <2> QED
    BY <1>1, <1>3, <1>6, <1>7, <1>8, <2>1, <2>2, <2>4, <2>6, <2>7, HandlerKeeps
<1>12. CASE ~z.authorized /\ ~(z.require_2fa /\ ~Pair!IsRecentSession2fa(z.lr) /\ ~z.from_switch)
  <2>1. PICK to \in {"terminal", "authorize"} :
          to = IF z.lr.scope = "terminal" /\ ~z.user_token THEN "terminal" ELSE "authorize"
    OBVIOUS
  <2> DEFINE s == [z EXCEPT !.awaiting_2fa = FALSE, !.at = to]
  <2>2. conn' = [conn EXCEPT ![c] = s] /\ shown' = [shown EXCEPT ![c] = shown[c]]
    BY <1>2, <1>3, <1>12, <2>1 DEF Pair!Respond, ConnTypes
  <2>3. /\ s \in Fields /\ s.lr = z.lr /\ s.authorized = z.authorized /\ s.at = to
        /\ s.by = z.by /\ s.login_scope = z.login_scope /\ s.require_2fa = z.require_2fa
        /\ s.awaiting_2fa = FALSE /\ s.from_switch = z.from_switch
        /\ s.granted = z.granted
    BY DEF Fields, Places
  <2> HIDE DEF s
  (* Nothing is missing: a code was given here or in this session. *)
  <2>4. z.by = "password" /\ TfaEnabled => p.tfa
    <3>1. Pair!IsRecentSession2fa(z.lr) => z.lr.key \in proved2fa
      BY <1>2 DEF Pair!IsRecentSession2fa, ConnInv, CodesGiven
    <3> QED
      BY <1>2, <1>4, <1>5, <1>7, <1>12, <3>1 DEF Good, Proven, Straight
  <2>5. Good(s, p, shown[c], click[c])
    <3>1. z.by = "switch" => to = "authorize"
      BY <1>2, <1>12, <2>1 DEF Good, Straight
    <3> QED
      BY <1>2, <1>4, <1>5, <1>7, <1>9, <1>12, <2>3, <2>4, <3>1
      DEF Good, Sequential, OneScope, Straight, Proven
  <2>6. s.lr = conn[c].lr /\ (s.authorized => conn[c].authorized)
    BY <1>2, <2>3
  <2> QED
    BY <1>1, <1>3, <1>6, <1>7, <1>8, <2>2, <2>3, <2>5, <2>6, HandlerKeeps
<1> QED
  BY <1>10, <1>11, <1>12

(* A connection that closes, by whatever reason, with the sessions as they are. *)
LEMMA ShutAlone ==
  ASSUME ConnInv, NEW c \in Links, Pair!Shut(c),
         UNCHANGED <<sessions, temp, tokens, issued, proof, proved2fa>>
  PROVE  ConnInv'
<1>1. ConnTypes
  BY DEF ConnInv
<1>2. proof[c] \in Proofs /\ proof' = [proof EXCEPT ![c] = proof[c]] /\ sessions' \in [SessionKeys -> Remembered]
  BY <1>1 DEF ConnTypes
<1>3. Made(proof[c].password) /\ CodesGiven' /\ \A k \in SessionKeys : Made(sessions'[k].password)
  BY DEF ConnInv, CodesGiven, NoneAhead
<1> QED
  BY <1>2, <1>3, ShutKeeps

LEMMA PrepareTerminalKeeps ==
  ASSUME ConnInv, NEW c \in Links, Pair!PrepareTerminal(c)
  PROVE  ConnInv'
<1>1. conn[c].at = "terminal" /\ UNCHANGED <<sessions, temp, tokens, issued, proof, proved2fa>>
  BY DEF Pair!PrepareTerminal
<1>2. CASE Pair!Shut(c)
  BY <1>1, <1>2, ShutAlone
<1>3. CASE ~Pair!Shut(c)
  <2>1. PICK z \in Fields : z = conn[c] /\ Good(z, proof[c], shown[c], click[c]) /\ z.at = "terminal"
    BY <1>1, OpenOne
  <2> DEFINE s == [z EXCEPT !.at = "authorize", !.user_token = TRUE]
  <2>2. conn' = [conn EXCEPT ![c] = s] /\ UNCHANGED <<click, shown>>
    BY <1>3, <2>1 DEF Pair!PrepareTerminal, ConnInv, ConnTypes
  <2>3. /\ s \in Fields /\ s.lr = z.lr /\ s.authorized = z.authorized /\ s.at = "authorize"
        /\ s.by = z.by /\ s.login_scope = z.login_scope /\ s.require_2fa = z.require_2fa
        /\ s.awaiting_2fa = z.awaiting_2fa /\ s.from_switch = z.from_switch
        /\ s.granted = z.granted
    BY DEF Fields, Places
  <2> HIDE DEF s
  <2>4. Good(s, proof[c], shown[c], click[c])
    BY <2>1, <2>3 DEF Good, Sequential, OneScope, Straight, Proven
  <2>5. /\ proof' = [proof EXCEPT ![c] = proof[c]] /\ proof[c] \in Proofs
        /\ shown' = [shown EXCEPT ![c] = shown[c]] /\ shown[c] \in SUBSET Digests
        /\ click' = [click EXCEPT ![c] = click[c]] /\ click[c] \in Digests \cup {Pair!NoScope}
    BY <1>1, <2>2, OpenOne
  <2>6. s.lr = conn[c].lr /\ (s.authorized => conn[c].authorized) /\ conn[c] \in Fields
    BY <2>1, <2>3
  <2> QED
    BY <1>1, <2>2, <2>3, <2>4, <2>5, <2>6, HandlerKeeps
<1> QED
  BY <1>2, <1>3

(* The one-time password that was used is one of those made before. *)
LEMMA AuthorizeKeeps ==
  ASSUME ConnInv, NEW c \in Links, Pair!Authorize(c)
  PROVE  ConnInv'
<1>1. conn[c].at = "authorize" /\ UNCHANGED <<sessions, tokens, issued, proof, proved2fa>>
  BY DEF Pair!Authorize
<1>2. CASE Pair!Shut(c) /\ UNCHANGED temp
  BY <1>1, <1>2, ShutAlone
<1>3. CASE ~(Pair!Shut(c) /\ UNCHANGED temp)
  <2>1. PICK z \in Fields : /\ z = conn[c] /\ Good(z, proof[c], shown[c], click[c])
                            /\ z.at = "authorize"
                            /\ Pair!Digest(z.lr) \in Digests /\ Pair!Digest(z.lr) # Pair!NoScope
    BY <1>1, OpenOne
  <2>2. PICK digest \in Digests : digest = Pair!Digest(z.lr)
    BY <2>1
  <2> DEFINE s == [z EXCEPT !.at = "idle", !.authorized = TRUE, !.granted = digest]
  <2>3. conn' = [conn EXCEPT ![c] = s] /\ UNCHANGED <<click, shown>> /\ temp' = temp + 1
    BY <1>3, <2>1, <2>2 DEF Pair!Authorize, ConnInv, ConnTypes
  <2>4. /\ s \in Fields /\ s.lr = z.lr /\ s.authorized = TRUE /\ s.at = "idle"
        /\ s.by = z.by /\ s.login_scope = z.login_scope /\ s.require_2fa = z.require_2fa
        /\ s.awaiting_2fa = z.awaiting_2fa /\ s.from_switch = z.from_switch
        /\ s.granted = digest
    BY DEF Fields, Places
  <2> HIDE DEF s
  <2>5. ~z.authorized
    BY <2>1 DEF Good, Sequential
  <2>6. Good(s, proof[c], shown[c], click[c])
    <3>1. z.by \in {"", "password", "click", "switch"}
      BY DEF Fields
    <3>2. z.by # "" /\ (z.by # "switch" => digest = z.login_scope)
      BY <2>1, <2>2, <2>5, <3>1 DEF Good, OneScope
    <3> QED
      BY <2>1, <2>4, <2>5, <3>1, <3>2 DEF Good, Sequential, OneScope, Straight, Proven
  <2>7. ConnTypes /\ temp \in Nat
    BY DEF ConnInv, ConnTypes
  <2>8. ConnTypes'
    BY <1>1, <2>3, <2>4, <2>7 DEF ConnTypes
  <2>9. /\ conn'[c] = s /\ proof'[c] = proof[c] /\ shown'[c] = shown[c] /\ click'[c] = click[c]
        /\ \A d \in Links : d # c => conn'[d] = conn[d] /\ proof'[d] = proof[d]
                                     /\ shown'[d] = shown[d] /\ click'[d] = click[d]
    BY <1>1, <2>3, <2>7 DEF ConnTypes
  <2>10. /\ CodesGiven' /\ TokensApart' /\ \A k \in SessionKeys : Made(sessions'[k].password)
         /\ Made(proof[c].password)
    BY <1>1 DEF ConnInv, CodesGiven, TokensApart, NoneAhead
  <2>11. Made(s.lr.password)
    BY <1>1, <2>1, <2>4, ClosedAt DEF ConnInv, NoneAhead
  <2>12. proof[c].password # Pair!OneTime(temp')
    BY <2>3, <2>7, <2>10 DEF Made
  <2> QED
    BY <2>3, <2>6, <2>8, <2>9, <2>10, <2>11, <2>12, OneStepKeeps
<1> QED
  BY <1>2, <1>3

LEMMA Auth2faKeeps ==
  ASSUME ConnInv, NEW c \in Links, Pair!Auth2fa(c)
  PROVE  ConnInv'
<1>1. conn[c].at = "idle" /\ UNCHANGED <<temp, tokens, issued, shown, click>>
  BY DEF Pair!Auth2fa, Pair!Idle
<1>2. PICK z \in Fields : /\ z = conn[c] /\ Good(z, proof[c], shown[c], click[c])
                          /\ z.at = "idle" /\ z.awaiting_2fa /\ z.require_2fa
                          /\ z.lr.key \in SessionKeys
  BY <1>1, OpenOne DEF Pair!Auth2fa
<1>3. ConnTypes /\ Made(proof[c].password) /\ Made(z.lr.password)
  BY <1>1, <1>2, ClosedAt DEF ConnInv, NoneAhead
<1>4. PICK w \in Proofs : w = proof[c]
  BY <1>3 DEF ConnTypes
<1>5. PICK k \in SessionKeys : k = z.lr.key
  BY <1>2
<1>6. PICK o \in Remembered : o = sessions[k]
  BY <1>3 DEF ConnTypes
<1> DEFINE s == [z EXCEPT !.require_2fa = FALSE, !.at = "respond"]
           p == [w EXCEPT !.tfa = TRUE]
           n == [o EXCEPT !.there = TRUE, !.tfa = TRUE]
<1>7. /\ conn' = [conn EXCEPT ![c] = s] /\ proof' = [proof EXCEPT ![c] = p]
      /\ sessions' = [sessions EXCEPT ![k] = n] /\ proved2fa' = proved2fa \cup {k}
  BY <1>2, <1>3, <1>4, <1>5, <1>6 DEF Pair!Auth2fa, ConnTypes
<1>8. /\ s \in Fields /\ s.lr = z.lr /\ s.authorized = z.authorized /\ s.at = "respond"
      /\ s.by = z.by /\ s.login_scope = z.login_scope /\ s.require_2fa = FALSE
      /\ s.awaiting_2fa = z.awaiting_2fa /\ s.from_switch = z.from_switch
      /\ s.granted = z.granted
  BY DEF Fields, Places
<1>9. /\ p \in Proofs /\ p.password = w.password /\ p.tfa = TRUE /\ p.token = w.token
      /\ p.click = w.click
  BY DEF Proofs
<1>10. n \in Remembered /\ n.password = o.password
  BY DEF Remembered
<1> HIDE DEF s, p, n
<1>11. Good(s, p, shown[c], click[c])
  BY <1>2, <1>4, <1>8, <1>9 DEF Good, Sequential, OneScope, Straight, Proven
<1>12. ConnTypes'
  BY <1>1, <1>3, <1>7, <1>8, <1>9, <1>10 DEF ConnTypes
<1>13. /\ conn'[c] = s /\ proof'[c] = p /\ shown'[c] = shown[c] /\ click'[c] = click[c]
       /\ \A d \in Links : d # c => conn'[d] = conn[d] /\ proof'[d] = proof[d]
                                    /\ shown'[d] = shown[d] /\ click'[d] = click[d]
  BY <1>1, <1>3, <1>7 DEF ConnTypes
<1>14. \A j \in SessionKeys : sessions'[j] = IF j = k THEN n ELSE sessions[j]
  BY <1>3, <1>7 DEF ConnTypes
<1>15. CodesGiven'
  BY <1>7, <1>14 DEF ConnInv, CodesGiven
<1>16. \A j \in SessionKeys : Made(sessions'[j].password)
  BY <1>6, <1>10, <1>14 DEF ConnInv, NoneAhead
<1>17. TokensApart'
  BY <1>1, <1>4, <1>9, <1>13 DEF ConnInv, TokensApart
<1>18. s.authorized => p.password # Pair!OneTime(temp')
  BY <1>1, <1>2, <1>4, <1>8, <1>9 DEF ConnInv, Pair!OneTimeGone
<1>19. Made(p.password) /\ Made(s.lr.password)
  BY <1>3, <1>4, <1>8, <1>9
<1> QED
  BY <1>1, <1>11, <1>12, <1>13, <1>15, <1>16, <1>17, <1>18, <1>19, OneStepKeeps

LEMMA ClicksKeep ==
  ASSUME ConnInv, NEW c \in Links,
         Pair!AuthorizedByClick(c) \/ \E digest \in shown[c] : Pair!Click(c, digest)
  PROVE  ConnInv'
<1>1. CASE Pair!AuthorizedByClick(c)
  <2>1. conn[c].at = "idle" /\ UNCHANGED <<sessions, temp, tokens, issued, shown, proved2fa>>
    BY <1>1 DEF Pair!AuthorizedByClick, Pair!Idle
  <2>2. PICK z \in Fields : z = conn[c] /\ Good(z, proof[c], shown[c], click[c]) /\ z.at = "idle"
    BY <2>1, OpenOne
  <2>3. ConnTypes
    BY DEF ConnInv
  <2>4. PICK w \in Proofs : w = proof[c]
    BY <2>3 DEF ConnTypes
  <2>5. PICK scope \in Digests : scope = click[c] /\ scope = z.login_scope /\ scope # Pair!NoScope
    BY <1>1, <2>2, <2>3 DEF Pair!AuthorizedByClick, ConnTypes, Good, OneScope
  <2>6. PICK by \in {"", "password", "click", "switch"} :
          by = IF z.authorized THEN z.by ELSE "click"
    BY DEF Fields
  <2> DEFINE s == [z EXCEPT !.require_2fa = FALSE, !.at = "respond", !.by = by]
             p == [w EXCEPT !.click = scope]
  <2>7. /\ conn' = [conn EXCEPT ![c] = s] /\ proof' = [proof EXCEPT ![c] = p]
        /\ click' = [click EXCEPT ![c] = Pair!NoScope]
    BY <1>1, <2>2, <2>3, <2>4, <2>5, <2>6 DEF Pair!AuthorizedByClick, ConnTypes
  <2>8. /\ s \in Fields /\ s.lr = z.lr /\ s.authorized = z.authorized /\ s.at = "respond"
        /\ s.by = by /\ s.login_scope = z.login_scope /\ s.require_2fa = FALSE
        /\ s.awaiting_2fa = z.awaiting_2fa /\ s.from_switch = z.from_switch
        /\ s.granted = z.granted
    BY DEF Fields, Places
  <2>9. /\ p \in Proofs /\ p.password = w.password /\ p.tfa = w.tfa /\ p.token = w.token
        /\ p.click = scope
    BY DEF Proofs
  <2> HIDE DEF s, p
  <2>10. Good(s, p, shown[c], Pair!NoScope)
    BY <2>2, <2>4, <2>5, <2>6, <2>8, <2>9
    DEF Good, Sequential, OneScope, Straight, Proven, Fields
  <2>11. shown' = [shown EXCEPT ![c] = shown[c]] /\ shown[c] \in SUBSET Digests
    BY <2>1, <2>3 DEF ConnTypes
  <2>12. s.lr = conn[c].lr /\ (s.authorized => conn[c].authorized) /\ conn[c] \in Fields
         /\ p.password = proof[c].password /\ p.token = proof[c].token
    BY <2>2, <2>4, <2>8, <2>9
  <2> QED
    BY <2>1, <2>7, <2>8, <2>9, <2>10, <2>11, <2>12, HandlerKeeps
<1>2. ASSUME NEW digest \in shown[c], Pair!Click(c, digest) PROVE ConnInv'
  <2>1. /\ UNCHANGED <<conn, sessions, temp, tokens, issued, shown, proof, proved2fa>>
        /\ click' = [click EXCEPT ![c] = digest]
    BY <1>2 DEF Pair!Click
  <2>2. ConnTypes /\ digest \in Digests
    BY <1>2 DEF ConnInv, ConnTypes
  <2>3. ConnTypes'
    BY <2>1, <2>2 DEF ConnTypes
  <2>4. conn[c] # Pair!Closed => Good(conn[c], proof[c], shown[c], digest)
    BY <1>2 DEF ConnInv, AllGood, Good, OneScope
  <2>5. AllGood'
    BY <2>1, <2>2, <2>4 DEF ConnInv, ConnTypes, AllGood
  <2> QED
    BY <2>1, <2>3, <2>5
    DEF ConnInv, CodesGiven, NoneAhead, Made, Pair!OneTimeGone, TokensApart
<1> QED
  BY <1>1, <1>2

LEMMA SwitchedFields ==
  ASSUME NEW r \in Fields, NEW lr \in Asked
  PROVE  LET s == Pair!Switched(r, lr) IN
         /\ s \in Fields /\ s.lr = lr /\ s.at = "respond" /\ s.login_scope = r.login_scope
         /\ s.require_2fa = (r.require_2fa /\ lr.key \notin Trusted)
         /\ s.awaiting_2fa = r.awaiting_2fa /\ s.authorized = r.authorized
         /\ s.by = (IF r.authorized THEN r.by ELSE "switch")
         /\ s.from_switch = TRUE /\ s.granted = r.granted
<1> DEFINE s == Pair!Switched(r, lr)
<1>a. "respond" \in Places
  BY DEF Places
<1>1. PICK u \in Fields :
        /\ u = Pair!WithRequest(r, lr, "respond") /\ u.lr = lr /\ u.at = "respond"
        /\ u.require_2fa = (r.require_2fa /\ lr.key \notin Trusted)
        /\ u.login_scope = r.login_scope /\ u.authorized = r.authorized
        /\ u.from_switch = r.from_switch /\ u.granted = r.granted /\ u.by = r.by
        /\ u.awaiting_2fa = r.awaiting_2fa
  BY <1>a, WithRequestFields
<1>2. r.by \in {"", "password", "click", "switch"}
  BY DEF Fields
<1>3. PICK by \in {"", "password", "click", "switch"} :
        by = IF r.authorized THEN r.by ELSE "switch"
  BY <1>2
<1>4. s = [u EXCEPT !.from_switch = TRUE, !.by = by]
  BY <1>1, <1>3 DEF Pair!Switched
<1> HIDE DEF s
<1>5. /\ s \in Fields /\ s.lr = u.lr /\ s.at = u.at /\ s.login_scope = u.login_scope
      /\ s.require_2fa = u.require_2fa /\ s.awaiting_2fa = u.awaiting_2fa
      /\ s.authorized = u.authorized /\ s.by = by /\ s.from_switch = TRUE
      /\ s.granted = u.granted
  BY <1>4 DEF Fields
<1> QED
  BY <1>1, <1>3, <1>5 DEF s

LEMMA TokenTaken ==
  ASSUME ConnInv, NEW peer \in Pair!Peers, issued' = issued,
         \A q \in Pair!Peers : tokens'[q] = IF q = peer THEN 0 ELSE tokens[q],
         NEW e \in Links, NEW t \in Nat, t \in {proof[e].token, tokens[peer]},
         \A d \in Links : proof'[d].token = IF d = e THEN t ELSE proof[d].token
  PROVE  TokensApart'
<1>1. /\ issued \in Nat
      /\ \A q \in Pair!Peers : tokens[q] \in Nat
      /\ \A d \in Links : proof[d].token \in Nat
  BY DEF ConnInv, ConnTypes, Proofs
<1>2. TokensApart
  BY DEF ConnInv
<1>3. \A q \in Pair!Peers : tokens'[q] <= issued'
  BY <1>1, <1>2 DEF TokensApart
<1>4. \A d \in Links : proof'[d].token <= issued'
  BY <1>1, <1>2 DEF TokensApart
<1>5. \A q, o \in Pair!Peers : q # o /\ tokens'[q] # 0 => tokens'[q] # tokens'[o]
  BY <1>2 DEF TokensApart
<1>6. \A q \in Pair!Peers, d \in Links : tokens'[q] # 0 => tokens'[q] # proof'[d].token
  BY <1>2 DEF TokensApart
<1>7. \A c, d \in Links : c # d /\ proof'[c].token # 0 => proof'[c].token # proof'[d].token
  BY <1>2 DEF TokensApart
<1> QED
  BY <1>3, <1>4, <1>5, <1>6, <1>7 DEF TokensApart

LEMMA SwitchKeeps ==
  ASSUME Pair!ConnLoginAssumption, ConnInv, NEW c \in Links, NEW k \in SessionKeys, NEW right \in BOOLEAN,
         Pair!SwitchSidesResponse(c, k, right)
  PROVE  ConnInv'
<1> DEFINE peer == PeerOf[k]
           lr == [key |-> k, scope |-> "remote", password |-> Pair!Empty]
<1>1. /\ conn[c].at = "idle" /\ tokens[peer] # 0 /\ tokens' = [tokens EXCEPT ![peer] = 0]
      /\ UNCHANGED <<sessions, temp, issued, proved2fa>>
  BY DEF Pair!SwitchSidesResponse, Pair!Idle, Pair!TakeToken
<1>2. peer \in Pair!Peers /\ lr \in Asked /\ lr.scope = "remote" /\ lr.password = Pair!Empty
  BY PasswordsDiffer DEF Pair!Peers, Asked, Pair!ConnLoginAssumption
<1>3. ConnTypes
  BY DEF ConnInv
<1>4. PICK t \in Nat : t = tokens[peer] /\ t # 0 /\ t <= issued
  BY <1>1, <1>2, <1>3 DEF ConnInv, ConnTypes, TokensApart
<1>5. tokens' \in [Pair!Peers -> Nat] /\ \A q \in Pair!Peers : tokens'[q] = IF q = peer THEN 0 ELSE tokens[q]
  BY <1>1, <1>2, <1>3 DEF ConnTypes
<1>6. CodesGiven' /\ \A j \in SessionKeys : Made(sessions'[j].password)
  BY <1>1 DEF ConnInv, CodesGiven, NoneAhead
<1>6a. proof[c].token \in Nat
  BY <1>3 DEF ConnTypes, Proofs
<1>7. CASE ~right
  <2>1. UNCHANGED <<conn, click, shown, proof>>
    BY <1>7 DEF Pair!SwitchSidesResponse
  <2>2. ConnTypes' /\ AllGood'
    BY <1>1, <1>3, <1>5, <2>1 DEF ConnInv, ConnTypes, AllGood
  <2>3. NoneAhead' /\ Pair!OneTimeGone'
    BY <1>1, <2>1 DEF ConnInv, NoneAhead, Made, Pair!OneTimeGone
  <2>4. TokensApart'
    BY <1>1, <1>2, <1>5, <1>6a, <2>1, TokenTaken
  <2> QED
    BY <1>6, <2>2, <2>3, <2>4 DEF ConnInv
<1>8. CASE right /\ PeerOf[k] \notin Listed
  <2>1. Pair!Shut(c) /\ UNCHANGED proof
    BY <1>8 DEF Pair!SwitchSidesResponse
  <2>2. ConnTypes'
    BY <1>1, <1>3, <1>5, <2>1 DEF ConnTypes, Pair!Shut
  <2>3. conn'[c] = Pair!Closed /\ ~conn'[c].authorized
    BY <1>3, <2>1 DEF ConnTypes, Pair!Shut, Pair!Closed
  <2>4. AllGood'
    BY <1>3, <2>1, <2>2, <2>3, OneMoves DEF ConnTypes, Pair!Shut
  <2>5. NoneAhead' /\ Pair!OneTimeGone'
    <3>1. Made(proof'[c].password)
      BY <2>1 DEF ConnInv, NoneAhead
    <3> QED
      BY <1>1, <1>3, <1>6, <2>1, <2>2, <2>3, <3>1, PasswordsKept DEF ConnTypes, Pair!Shut
  <2>6. TokensApart'
    BY <1>1, <1>2, <1>5, <1>6a, <2>1, TokenTaken
  <2> QED
    BY <1>6, <2>2, <2>4, <2>5, <2>6 DEF ConnInv
<1>9. CASE right /\ PeerOf[k] \in Listed
  <2>1. PICK z \in Fields : z = conn[c] /\ Good(z, proof[c], shown[c], click[c]) /\ z.at = "idle"
    BY <1>1, OpenOne
  <2>2. PICK w \in Proofs : w = proof[c]
    BY <1>3 DEF ConnTypes
  <2> DEFINE n == [Pair!NoProof EXCEPT !.token = t]
  <2>3. /\ n \in Proofs /\ n.token = t /\ n.password = Pair!Empty
    BY PasswordsDiffer DEF Pair!NoProof, Proofs
  <2>4. PICK p \in Proofs : p = IF z.authorized THEN w ELSE n
    BY <2>3
  <2> DEFINE s == Pair!Switched(z, lr)
  <2>5. conn' = [conn EXCEPT ![c] = s] /\ UNCHANGED <<click, shown>>
    BY <1>9, <2>1 DEF Pair!SwitchSidesResponse
  <2>6. proof' = [proof EXCEPT ![c] = p]
    BY <1>4, <1>9, <2>1, <2>2, <2>4 DEF Pair!SwitchSidesResponse
  <2> HIDE DEF n, lr
  <2>7. /\ s \in Fields /\ s.lr = lr /\ s.at = "respond" /\ s.login_scope = z.login_scope
        /\ s.require_2fa = (z.require_2fa /\ lr.key \notin Trusted)
        /\ s.awaiting_2fa = z.awaiting_2fa /\ s.authorized = z.authorized
        /\ s.by = (IF z.authorized THEN z.by ELSE "switch")
        /\ s.from_switch = TRUE /\ s.granted = z.granted
    BY <1>2, <2>1, SwitchedFields
  <2> HIDE DEF s
  <2>8. Good(s, p, shown[c], click[c])
    <3>1. CASE z.authorized
      BY <2>1, <2>2, <2>4, <2>7, <3>1 DEF Good, Sequential, OneScope, Straight, Proven
    <3>2. CASE ~z.authorized
      BY <1>2, <1>4, <2>1, <2>3, <2>4, <2>7, <3>2
      DEF Good, Sequential, OneScope, Straight, Proven
    <3> QED
      BY <3>1, <3>2
  <2>9. ConnTypes'
    BY <1>1, <1>3, <1>5, <2>5, <2>6, <2>7 DEF ConnTypes
  <2>10. /\ conn'[c] = s /\ proof'[c] = p /\ shown'[c] = shown[c] /\ click'[c] = click[c]
         /\ \A d \in Links : d # c => conn'[d] = conn[d] /\ proof'[d] = proof[d]
                                      /\ shown'[d] = shown[d] /\ click'[d] = click[d]
    BY <1>3, <2>5, <2>6 DEF ConnTypes
  <2>11. Made(Pair!Empty) /\ Made(w.password)
    BY <2>2, PasswordsDiffer DEF ConnInv, NoneAhead, Made
  <2>12. Made(p.password) /\ Made(s.lr.password)
    BY <1>2, <2>3, <2>4, <2>7, <2>11
  <2>13. s.authorized => p.password # Pair!OneTime(temp')
    BY <1>1, <2>1, <2>2, <2>4, <2>7 DEF ConnInv, Pair!OneTimeGone
  <2>14. TokensApart'
    <3>1. /\ p.token \in Nat /\ p.token \in {proof[c].token, tokens[peer]}
          /\ \A d \in Links : proof'[d].token = IF d = c THEN p.token ELSE proof[d].token
      BY <1>4, <2>2, <2>3, <2>4, <2>10 DEF Proofs
    <3> HIDE DEF peer
    <3> QED
      BY <1>1, <1>2, <1>5, <3>1, TokenTaken
  <2> QED
    BY <1>1, <1>6, <2>8, <2>9, <2>10, <2>12, <2>13, <2>14, OneStepKeeps
<1> QED
  BY <1>7, <1>8, <1>9

LEMMA ClosingKeeps ==
  ASSUME ConnInv, NEW c \in Links, Pair!CloseNoRetry(c) \/ Pair!Lost(c)
  PROVE  ConnInv'
<1>1. CASE Pair!Lost(c)
  BY <1>1, ShutAlone DEF Pair!Lost
<1>2. CASE Pair!CloseNoRetry(c)
  <2>1. /\ conn[c].at = "idle" /\ Pair!Shut(c) /\ Pair!CheckRemoveSession(c, conn[c].lr.key)
        /\ UNCHANGED <<temp, tokens, issued, proof, proved2fa>>
    BY <1>2 DEF Pair!CloseNoRetry, Pair!Idle
  <2>2. conn[c].lr.key \in SessionKeys /\ ConnTypes
    BY <2>1, OpenOne DEF ConnInv
  <2>3. Pair!NoSession \in Remembered /\ ~Pair!NoSession.tfa /\ Pair!NoSession.password = Pair!Empty
    BY PasswordsDiffer DEF Pair!NoSession, Remembered
  <2>4. /\ sessions' \in [SessionKeys -> Remembered]
        /\ \A k \in SessionKeys : sessions'[k] \in {sessions[k], Pair!NoSession}
    BY <2>1, <2>2, <2>3 DEF Pair!CheckRemoveSession, ConnTypes
  <2>5. CodesGiven'
    BY <2>1, <2>3, <2>4 DEF ConnInv, CodesGiven
  <2>6. Made(Pair!Empty)
    BY PasswordsDiffer DEF Made
  <2>7. Made(proof[c].password) /\ \A k \in SessionKeys : Made(sessions'[k].password)
    BY <2>3, <2>4, <2>6 DEF ConnInv, NoneAhead
  <2>8. proof[c] \in Proofs /\ proof' = [proof EXCEPT ![c] = proof[c]]
    BY <2>1, <2>2 DEF ConnTypes
  <2> QED
    BY <2>1, <2>4, <2>5, <2>7, <2>8, ShutKeeps
<1> QED
  BY <1>1, <1>2

(* What happens to the shared tables by themselves. *)
LEMMA TablesKeep ==
  ASSUME ConnInv,
         \/ \E k \in SessionKeys : Pair!SessionExpires(k)
         \/ \E p \in Pair!Peers : Pair!InsertToken(p) \/ Pair!TokenExpires(p)
         \/ Pair!UpdateTemporaryPassword
  PROVE  ConnInv'
<1>1. ConnTypes
  BY DEF ConnInv
<1>2. ASSUME NEW k \in SessionKeys, Pair!SessionExpires(k) PROVE ConnInv'
  <2>1. /\ UNCHANGED <<conn, temp, tokens, issued, shown, click, proof, proved2fa>>
        /\ sessions' = [sessions EXCEPT ![k] = Pair!NoSession]
    BY <1>2 DEF Pair!SessionExpires
  <2>2. Pair!NoSession \in Remembered /\ ~Pair!NoSession.tfa /\ Pair!NoSession.password = Pair!Empty
    BY PasswordsDiffer DEF Pair!NoSession, Remembered
  <2>3. ConnTypes' /\ \A j \in SessionKeys : sessions'[j] \in {sessions[j], Pair!NoSession}
    BY <1>1, <2>1, <2>2 DEF ConnTypes
  <2>4. CodesGiven'
    BY <2>1, <2>2, <2>3 DEF ConnInv, CodesGiven
  <2>5. Made(Pair!Empty)
    BY PasswordsDiffer DEF Made
  <2>6. NoneAhead'
    BY <2>1, <2>2, <2>3, <2>5 DEF ConnInv, NoneAhead, Made
  <2> QED
    BY <2>1, <2>3, <2>4, <2>6 DEF ConnInv, AllGood, Pair!OneTimeGone, TokensApart
<1>3. ASSUME NEW p \in Pair!Peers, Pair!InsertToken(p) PROVE ConnInv'
  <2>1. /\ UNCHANGED <<conn, sessions, temp, shown, click, proof, proved2fa>>
        /\ issued' = issued + 1 /\ tokens' = [tokens EXCEPT ![p] = issued + 1]
    BY <1>3 DEF Pair!InsertToken
  <2>2. issued \in Nat /\ \A c \in Links : proof[c].token \in Nat
    BY <1>1 DEF ConnTypes, Proofs
  <2>3. ConnTypes' /\ \A q \in Pair!Peers : tokens'[q] = IF q = p THEN issued + 1 ELSE tokens[q]
    BY <1>1, <2>1, <2>2 DEF ConnTypes
  <2>4. \A q \in Pair!Peers : tokens[q] \in Nat
    BY <1>1 DEF ConnTypes
  <2>5. TokensApart'
    BY <2>1, <2>2, <2>3, <2>4 DEF ConnInv, TokensApart
  <2> QED
    BY <2>1, <2>3, <2>5 DEF ConnInv, AllGood, CodesGiven, NoneAhead, Made, Pair!OneTimeGone
<1>4. ASSUME NEW p \in Pair!Peers, Pair!TokenExpires(p) PROVE ConnInv'
  <2>1. /\ UNCHANGED <<conn, sessions, temp, issued, shown, click, proof, proved2fa>>
        /\ tokens' = [tokens EXCEPT ![p] = 0]
    BY <1>4 DEF Pair!TokenExpires
  <2>2. ConnTypes' /\ \A q \in Pair!Peers : tokens'[q] = IF q = p THEN 0 ELSE tokens[q]
    BY <1>1, <2>1 DEF ConnTypes
  <2>3. issued \in Nat
    BY <1>1 DEF ConnTypes
  <2>4. TokensApart'
    BY <2>1, <2>2, <2>3 DEF ConnInv, TokensApart
  <2> QED
    BY <2>1, <2>2, <2>4 DEF ConnInv, AllGood, CodesGiven, NoneAhead, Made, Pair!OneTimeGone
<1>5. CASE Pair!UpdateTemporaryPassword
  <2>1. /\ UNCHANGED <<conn, sessions, tokens, issued, shown, click, proof, proved2fa>>
        /\ temp' = temp + 1
    BY <1>5 DEF Pair!UpdateTemporaryPassword
  <2>2. temp \in Nat /\ ConnTypes'
    BY <1>1, <2>1 DEF ConnTypes
  <2>3. \A pw : Made(pw) => Made(pw)' /\ pw # Pair!OneTime(temp')
    BY <2>1, <2>2 DEF Made
  <2>4. NoneAhead' /\ Pair!OneTimeGone'
    BY <2>1, <2>3 DEF ConnInv, NoneAhead, Pair!OneTimeGone
  <2> QED
    BY <2>1, <2>2, <2>4 DEF ConnInv, AllGood, CodesGiven, TokensApart
<1> QED
  BY <1>2, <1>3, <1>4, <1>5

LEMMA ConnNext == ASSUME Pair!ConnLoginAssumption PROVE ConnInv /\ [Pair!Next]_Pair!vars => ConnInv'
<1> SUFFICES ASSUME ConnInv, [Pair!Next]_Pair!vars PROVE ConnInv'
  OBVIOUS
<1>1. CASE UNCHANGED Pair!vars
  BY <1>1 DEF Pair!vars, ConnInv, ConnTypes, AllGood, CodesGiven, NoneAhead, Made, Pair!OneTimeGone, TokensApart
<1>2. ASSUME NEW c \in Links, \E lr \in Pair!Requests : Pair!LoginRequest(c, lr) PROVE ConnInv'
  BY <1>2, LoginRequestKeeps
<1>3. ASSUME NEW c \in Links, Pair!Handler(c) PROVE ConnInv'
  BY <1>3, AskKeeps, CheckFailureKeeps, ValidateKeeps, RespondKeeps, PrepareTerminalKeeps,
     AuthorizeKeeps DEF Pair!Handler
<1>4. ASSUME NEW c \in Links, NEW k \in SessionKeys, NEW right \in BOOLEAN, Pair!SwitchSidesResponse(c, k, right)
      PROVE  ConnInv'
  BY <1>4, SwitchKeeps
<1> QED
  BY <1>1, <1>2, <1>3, <1>4, Auth2faKeeps, ClicksKeep, ClosingKeeps, TablesKeep DEF Pair!Next

(* What the inductive invariant says of a connection that is let in. *)
LEMMA ConnInvImplies == ConnInv => Pair!LetInProperly /\ Pair!ScopeIsFirst /\ Pair!OneTimeGone /\ Pair!TokenOnce
<1> SUFFICES ASSUME ConnInv PROVE Pair!LetInProperly /\ Pair!ScopeIsFirst /\ Pair!OneTimeGone /\ Pair!TokenOnce
  OBVIOUS
<1>1. ASSUME NEW c \in Links, conn[c].authorized
      PROVE  /\ conn[c].by \in {"password", "click", "switch"}
             /\ Good(conn[c], proof[c], shown[c], click[c])
  <2>1. conn[c].at # "closed"
    BY <1>1, ClosedAt DEF ConnInv, ConnTypes, Fields, Places
  <2>2. conn[c] \in Fields /\ Good(conn[c], proof[c], shown[c], click[c])
    BY <2>1, OpenOne
  <2>3. conn[c].by \in {"", "password", "click", "switch"}
    BY <2>2 DEF Fields
  <2> QED
    BY <1>1, <2>2, <2>3 DEF Good, OneScope
<1>2. Pair!LetInProperly
  BY <1>1 DEF Pair!LetInProperly, Good, OneScope, Straight, Proven
<1>3. Pair!ScopeIsFirst
  BY <1>1 DEF Pair!ScopeIsFirst, Good, OneScope
<1>4. Pair!TokenOnce
  BY <1>1 DEF Pair!TokenOnce, Good, Straight, ConnInv, TokensApart
<1> QED
  BY <1>2, <1>3, <1>4 DEF ConnInv

(* For any connections, peers, scopes and settings: nobody is let in but by a
   click for what was shown, a token of switched sides, or a password checked
   for this request and, where two factors are on, a code; and with the scope
   asked for first.                                                        *)
THEOREM LetInTheorem == Pair!Spec => []LetInProperly
<1>1. ConnInv => LetInProperly
  BY ConnInvImplies DEF LetInProperly
<1> QED
  BY LoginFits, ConnInit, ConnNext, <1>1, PTL DEF Pair!Spec

(* A one-time password that let a connection in is never the present one, and
   a token of switched sides lets in one connection at most.               *)
THEOREM OnceTheorem == Pair!Spec => []LetsInOnce
<1>1. ConnInv => LetsInOnce
  BY ConnInvImplies DEF LetsInOnce, Pair!LetsInOnce
<1> QED
  BY LoginFits, ConnInit, ConnNext, <1>1, PTL DEF Pair!Spec
=============================================================================
