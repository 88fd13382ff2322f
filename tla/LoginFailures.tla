--------------------------- MODULE LoginFailures ---------------------------
(***************************************************************************)
(* The limits on wrong login attempts (server/connection.rs): one map of   *)
(* LOGIN_FAILURES, shared by all connections, from an address or an IPv6   *)
(* prefix to the minute of its last failure, the failures in that minute   *)
(* and the failures in all.                                                *)
(*                                                                         *)
(* An attempt reads the map, key by key, before the answer is looked at,   *)
(* and writes it afterwards; other connections' attempts come in between.  *)
(* With Whitelist the map is the one of the id whitelist, else that of     *)
(* passwords or codes.                                                     *)
(***************************************************************************)
EXTENDS Integers, Sequences, FiniteSets

CONSTANTS
  Conns,
  Keys,        \* addresses and prefixes
  KeysOf,      \* KeysOf[c]: the prefixes of c's address, then the address
  Limit,       \* Limit[k]: 30 for an address, more for the prefixes
  MinuteLimit, \* 6
  Whitelist,
  Decay,       \* ID_WHITELIST_FAILURE_DECAY_MINUTES
  MaxMinute,   \* bound: the clock
  MaxTries     \* bound: attempts in all

ASSUME FailuresAssumption ==
  /\ \A c \in Conns : KeysOf[c] \in Seq(Keys) /\ KeysOf[c] # <<>>
  /\ Limit \in [Keys -> Nat] /\ MinuteLimit \in Nat
  /\ Whitelist \in BOOLEAN /\ Decay \in Nat /\ MaxMinute \in Nat /\ MaxTries \in Nat

VARIABLES
  failures,  \* failures[k]: <<minute, in this minute, in all>>; None if absent
  minute,    \* get_time() / 60_000
  try,       \* try[c]: the attempt of c under way
  tries,
  missed     \* missed[k]: wrong attempts since the last that clears them

vars == <<failures, minute, try, tries, missed>>

None == <<0, 0, 0>>
NoTry == [at |-> 0, time |-> 0, seen |-> None]
Own(c) == KeysOf[c][Len(KeysOf[c])]
KeySet(c) == {KeysOf[c][i] : i \in DOMAIN KeysOf[c]}

(* Minutes since 1970 are never 0, which stands for no entry. *)
Init ==
  /\ failures = [k \in Keys |-> None]
  /\ minute = 1
  /\ try = [c \in Conns |-> NoTry]
  /\ tries = 0
  /\ missed = [k \in Keys |-> 0]

(* The clock goes on, and may be set back. *)
Tick ==
  /\ minute' \in 1..MaxMinute /\ minute' # minute
  /\ UNCHANGED <<failures, try, tries, missed>>

BumpFailureEntry(cur, time) ==
  <<time, IF cur[1] = time THEN cur[2] + 1 ELSE 1, cur[3] + 1>>

(* decay_stale_failures, before the whitelist's check *)
Stale(c) == {k \in KeySet(c) : failures[k] # None /\ minute - failures[k][1] >= Decay}

Begin(c) ==
  /\ try[c] = NoTry /\ tries < MaxTries
  /\ tries' = tries + 1
  /\ try' = [try EXCEPT ![c] = [at |-> 1, time |-> minute, seen |-> None]]
  /\ IF Whitelist
     THEN /\ failures' = [k \in Keys |-> IF k \in Stale(c) THEN None ELSE failures[k]]
          /\ missed' = [k \in Keys |-> IF k \in Stale(c) THEN 0 ELSE missed[k]]
     ELSE UNCHANGED <<failures, missed>>
  /\ UNCHANGED minute

Blocks(k, time, own) ==
  \/ failures[k][3] > Limit[k]
  \/ own /\ failures[k][1] = time /\ failures[k][2] > MinuteLimit

(* check_failure_with_scope: the prefixes, one after the other, and then    *)
(* the address.                                                             *)
CheckFailure(c) ==
  /\ try[c].at \in DOMAIN KeysOf[c]
  /\ LET k == KeysOf[c][try[c].at] IN
     try' = [try EXCEPT ![c] =
       IF Blocks(k, try[c].time, k = Own(c)) THEN NoTry
       ELSE [at |-> try[c].at + 1, time |-> try[c].time, seen |-> failures[k]]]
  /\ UNCHANGED <<failures, minute, tries, missed>>

Checked(c) == try[c].at = Len(KeysOf[c]) + 1

(* update_failure_with_scope after a wrong answer: the entries are read     *)
(* again.                                                                   *)
BumpFromCheck(c) ==
  failures' = [k \in Keys |->
    IF k = Own(c) THEN BumpFailureEntry(try[c].seen, try[c].time)
    ELSE IF k \in KeySet(c) THEN BumpFailureEntry(failures[k], try[c].time)
    ELSE failures[k]]

Bump(c) ==
  failures' = [k \in Keys |->
    IF k \in KeySet(c) THEN BumpFailureEntry(failures[k], try[c].time) ELSE failures[k]]

WrongAnswer(c) ==
  /\ Checked(c)
  /\ Bump(c)
  /\ missed' = [k \in Keys |-> missed[k] + IF k \in KeySet(c) THEN 1 ELSE 0]
  /\ try' = [try EXCEPT ![c] = NoTry]
  /\ UNCHANGED <<minute, tries>>

Forget(c) ==
  failures' = [k \in Keys |-> IF k \in KeySet(c) THEN None ELSE failures[k]]

(* A right password or code: removed if the address had an entry. *)
RightAnswer(c) ==
  /\ Checked(c) /\ ~Whitelist
  /\ IF try[c].seen[1] # 0 THEN Forget(c) ELSE UNCHANGED failures
  /\ missed' = [k \in Keys |-> IF k \in KeySet(c) THEN 0 ELSE missed[k]]
  /\ try' = [try EXCEPT ![c] = NoTry]
  /\ UNCHANGED <<minute, tries>>

(* check_id_whitelist: the id is on the list, which proves nothing. *)
IdMatches(c) ==
  /\ Checked(c) /\ Whitelist
  /\ try' = [try EXCEPT ![c] = NoTry]
  /\ UNCHANGED <<failures, minute, tries, missed>>

(* clear_id_whitelist_failures: the peer is authorized. *)
Authorized(c) ==
  /\ Whitelist /\ try[c] = NoTry /\ tries < MaxTries
  /\ tries' = tries + 1
  /\ Forget(c)
  /\ missed' = [k \in Keys |-> IF k \in KeySet(c) THEN 0 ELSE missed[k]]
  /\ UNCHANGED <<minute, try>>

Next ==
  \/ Tick
  \/ \E c \in Conns : \/ Begin(c) \/ CheckFailure(c) \/ WrongAnswer(c)
                      \/ RightAnswer(c) \/ IdMatches(c) \/ Authorized(c)

Spec == Init /\ [][Next]_vars

----------------------------------------------------------------------------
TypeOK ==
  /\ failures \in [Keys -> Nat \X Nat \X Nat]
  /\ missed \in [Keys -> Nat]
  /\ minute \in Nat /\ tries \in Nat
  /\ try \in [Conns -> [at : Nat, time : Nat, seen : Nat \X Nat \X Nat]]

(* "in case another failed attempt updated it": no wrong attempt is         *)
(* forgotten, however the connections' attempts interleave, but by one      *)
(* that may clear them: a right answer, an authorization, an old age.       *)
NoneForgotten == \A k \in Keys : failures[k][3] >= missed[k]

(* The check and the write are apart, so attempts under way can pass the    *)
(* limit together, but by no more than there are connections from there.    *)
Bounded ==
  \A k \in Keys : failures[k][3] <= Limit[k] + Cardinality({c \in Conns : k \in KeySet(c)})
=============================================================================
