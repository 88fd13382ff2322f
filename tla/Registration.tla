---------------------------- MODULE Registration ----------------------------
(***************************************************************************)
(* Registration with the rendezvous servers over UDP: start_udp,           *)
(* register_peer, register_pk, handle_uuid_mismatch and the responses in   *)
(* handle_resp, src/src/rendezvous_mediator.rs, with CheckIfResendPk and   *)
(* the confirmation flags of the configuration.                            *)
(*                                                                         *)
(* Each server has a loop; the loops share the id, the key pair, the flags *)
(* and SOLVING_PK_MISMATCH.  Datagrams are lost, repeated and reordered,   *)
(* and a response names neither the id nor the key it answers for.  The    *)
(* servers are external: they keep the key of each id, refuse an id that   *)
(* another machine has, and a device that is not deployed.                 *)
(***************************************************************************)
EXTENDS Naturals, FiniteSets

CONSTANTS Hosts,      \* the rendezvous servers
          MaxId,      \* bound: ids, in the order in which update_id draws them
          Taken,      \* Taken[h]: ids that another machine has at h
          MaxDups,    \* bound: datagrams that arrive twice
          MaxMoves,   \* bound: times an operator deploys or deletes the device
          Start,      \* whether the device is deployed at first
          Late,       \* datagrams may be on the way for longer than the timeout
          MaySync,    \* the configuration is synced from root once
          Nobody

MaxIdAssumption == MaxId \in Nat
TakenAssumption == Taken \in [Hosts -> SUBSET (0..MaxId)]
BoundsAssumption == MaxDups \in Nat /\ MaxMoves \in Nat /\ MaySync \in BOOLEAN /\ Late \in BOOLEAN
StartAssumption == Start \subseteq BOOLEAN
NobodyAssumption == Nobody \notin Hosts

VARIABLES
    id, pk,            \* the configuration: id, public key
    keyConfirmed,      \* key_confirmed
    hostConfirmed,     \* keys_confirmed
    sentPk,            \* SENT_REGISTER_PK
    solving,           \* SOLVING_PK_MISMATCH
    needsDeploy,       \* NEEDS_DEPLOY
    throttled,         \* LAST_NOT_DEPLOYED_REGISTER is younger than the interval
    waiting,           \* last_register_sent is set
    expired,           \* last_register_resp is older than REG_INTERVAL
    net,               \* datagrams on the way
    dups,              \* datagrams that have arrived twice
    db,                \* what each server has for each id: a key or none
    deployed, moves    \* whether the servers have the device in their database

config == <<id, pk, keyConfirmed, hostConfirmed>>
loops == <<solving, needsDeploy, throttled, waiting, expired, sentPk>>
servers == <<db, deployed, moves>>
vars == <<config, loops, net, dups, servers>>

Ids == 0..MaxId
Pks == {"own", "root"}
Responses == {"known", "request_pk", "ok", "uuid_mismatch", "not_deployed"}
RegisterPkMsg(h, i) == [host |-> h, kind |-> "pk", id |-> i, pk |-> pk]
RegisterPeerMsg(h) == [host |-> h, kind |-> "peer", id |-> id]
Response(h, kind) == [host |-> h, kind |-> kind]

TypeOK ==
    /\ id \in Ids /\ pk \in Pks
    /\ keyConfirmed \in BOOLEAN /\ hostConfirmed \in [Hosts -> BOOLEAN]
    /\ sentPk \in BOOLEAN
    /\ solving \in Hosts \cup {Nobody}
    /\ needsDeploy \in BOOLEAN /\ throttled \in BOOLEAN
    /\ waiting \in [Hosts -> BOOLEAN] /\ expired \in [Hosts -> BOOLEAN]
    /\ net \subseteq [host : Hosts, kind : {"pk"}, id : Ids, pk : Pks]
                       \cup [host : Hosts, kind : {"peer"}, id : Ids]
                       \cup [host : Hosts, kind : Responses]
    /\ dups \in 0..MaxDups
    /\ db \in [Hosts -> [Ids -> Pks \cup {"none"}]]
    /\ deployed \in BOOLEAN /\ moves \in 0..MaxMoves

Init ==
    /\ id = 0 /\ pk = "own"
    /\ keyConfirmed = FALSE /\ hostConfirmed = [h \in Hosts |-> FALSE]
    /\ sentPk = FALSE
    /\ solving = Nobody
    /\ needsDeploy = FALSE /\ throttled = FALSE
    /\ waiting = [h \in Hosts |-> FALSE] /\ expired = [h \in Hosts |-> TRUE]
    /\ net = {}
    /\ dups = 0
    /\ db = [h \in Hosts |-> [i \in Ids |-> "none"]]
    /\ deployed \in Start /\ moves = 0

-----------------------------------------------------------------------------
(* Sending.                                                                *)

\* To host h, beside the datagrams in rest; while the device is not deployed,
\* once in DEPLOY_RETRY_INTERVAL.
RegisterPk(h, i, rest) ==
    IF needsDeploy /\ throttled
      THEN net' = rest /\ UNCHANGED <<throttled, sentPk>>
      ELSE /\ net' = rest \cup {RegisterPkMsg(h, i)}
           /\ throttled' = needsDeploy
           /\ sentPk' = TRUE

\* A server waits while the mismatch of another one is being solved.
RegisterPeer(h) ==
    IF solving \notin {Nobody, h} THEN UNCHANGED <<net, throttled, sentPk>>
    ELSE IF ~keyConfirmed \/ ~hostConfirmed[h] THEN RegisterPk(h, id, net)
    ELSE /\ net' = net \cup {RegisterPeerMsg(h)}
         /\ UNCHANGED <<throttled, sentPk>>

\* The timer: no response in time, or the last one is old.
Tick(h) ==
    /\ ~(needsDeploy /\ throttled)
    /\ waiting[h] \/ expired[h]
    /\ Late \/ \A m \in net : m.host # h
    /\ RegisterPeer(h)
    /\ waiting' = [waiting EXCEPT ![h] = TRUE]
    /\ UNCHANGED <<config, solving, needsDeploy, expired, dups, servers>>

-----------------------------------------------------------------------------
(* The network and the responses.                                          *)

\* m leaves the network, or stays in it to arrive again.
Arrives(m) ==
    /\ m \in net
    /\ \/ dups' = dups
       \/ dups < MaxDups /\ dups' = dups + 1

Rest(m) == IF dups' = dups THEN net \ {m} ELSE net

Lose(m) ==
    /\ m \in net
    /\ net' = net \ {m}
    /\ UNCHANGED <<config, loops, dups, servers>>

UpdateLatency(h) ==
    /\ waiting' = [waiting EXCEPT ![h] = FALSE]
    /\ expired' = [expired EXCEPT ![h] = FALSE]

\* Config::set_key_confirmed: taking the confirmation back takes that of
\* every host with it, unless it was not there.
SetKeyConfirmed(v) ==
    /\ keyConfirmed' = v
    /\ hostConfirmed' = IF keyConfirmed /\ ~v THEN [h \in Hosts |-> FALSE] ELSE hostConfirmed

OnKnown(h) ==
    /\ Arrives(Response(h, "known"))
    /\ net' = Rest(Response(h, "known"))
    /\ UpdateLatency(h)
    /\ UNCHANGED <<config, solving, needsDeploy, throttled, sentPk, servers>>

OnRequestPkIgnored(h) ==
    /\ Arrives(Response(h, "request_pk"))
    /\ net' = Rest(Response(h, "request_pk"))
    /\ UpdateLatency(h)
    /\ UNCHANGED <<config, solving, needsDeploy, throttled, sentPk, servers>>

OnRequestPk(h) ==
    /\ Arrives(Response(h, "request_pk"))
    /\ UpdateLatency(h)
    /\ RegisterPk(h, id, Rest(Response(h, "request_pk")))
    /\ UNCHANGED <<config, solving, needsDeploy, servers>>

OnOk(h) ==
    /\ Arrives(Response(h, "ok"))
    /\ net' = Rest(Response(h, "ok"))
    /\ UpdateLatency(h)
    /\ keyConfirmed' = TRUE
    /\ hostConfirmed' = [hostConfirmed EXCEPT ![h] = TRUE]
    /\ solving' = Nobody
    /\ needsDeploy' = FALSE
    /\ UNCHANGED <<id, pk, throttled, sentPk, servers>>

\* handle_uuid_mismatch: a new id, registered at once.
OnMismatch(h) ==
    /\ Arrives(Response(h, "uuid_mismatch"))
    /\ UpdateLatency(h)
    /\ IF solving \in {Nobody, h}
         THEN /\ SetKeyConfirmed(FALSE)
              /\ id' = id + 1
              /\ solving' = h
              /\ RegisterPk(h, id + 1, Rest(Response(h, "uuid_mismatch")))
         ELSE /\ net' = Rest(Response(h, "uuid_mismatch"))
              /\ UNCHANGED <<id, keyConfirmed, hostConfirmed, solving, throttled, sentPk>>
    /\ UNCHANGED <<pk, needsDeploy, servers>>

OnNotDeployed(h) ==
    /\ Arrives(Response(h, "not_deployed"))
    /\ net' = Rest(Response(h, "not_deployed"))
    /\ UpdateLatency(h)
    /\ needsDeploy' = TRUE
    /\ keyConfirmed' = FALSE
    /\ hostConfirmed' = [g \in Hosts |-> ~keyConfirmed /\ g # h /\ hostConfirmed[g]]
    /\ UNCHANGED <<id, pk, solving, throttled, sentPk, servers>>

Expire(h) ==
    /\ ~expired[h]
    /\ expired' = [expired EXCEPT ![h] = TRUE]
    /\ UNCHANGED <<config, solving, needsDeploy, throttled, waiting, sentPk, net, dups, servers>>

Unthrottle ==
    /\ throttled
    /\ throttled' = FALSE
    /\ UNCHANGED <<config, solving, needsDeploy, waiting, expired, sentPk, net, dups, servers>>

\* A key was sent that is not the key any more.
CheckIfResendPk ==
    IF sentPk THEN SetKeyConfirmed(FALSE) ELSE UNCHANGED <<keyConfirmed, hostConfirmed>>

\* The configuration of root replaces ours, key pair included.
SyncConfig ==
    /\ MaySync
    /\ pk = "own"
    /\ pk' = "root"
    /\ CheckIfResendPk
    /\ UNCHANGED <<id, loops, net, dups, servers>>

-----------------------------------------------------------------------------
(* The servers.                                                            *)

Answer(h, i) ==
    IF i \in Taken[h] THEN "uuid_mismatch" ELSE IF ~deployed THEN "not_deployed" ELSE "ok"

ServerRegistersPk(h) ==
    \E m \in net :
        /\ m.host = h /\ m.kind = "pk"
        /\ Arrives(m)
        /\ net' = Rest(m) \cup {Response(h, Answer(h, m.id))}
        /\ db' = IF Answer(h, m.id) = "ok" THEN [db EXCEPT ![h][m.id] = m.pk] ELSE db
        /\ UNCHANGED <<config, loops, deployed, moves>>

ServerAnswersPeer(h) ==
    \E m \in net :
        /\ m.host = h /\ m.kind = "peer"
        /\ Arrives(m)
        /\ net' = Rest(m) \cup
                    {Response(h, IF db[h][m.id] = "none" THEN "request_pk" ELSE "known")}
        /\ UNCHANGED <<config, loops, servers>>

\* An operator deploys the device, or deletes it.
Move ==
    /\ moves < MaxMoves
    /\ moves' = moves + 1
    /\ deployed' = ~deployed
    /\ db' = IF deployed THEN [h \in Hosts |-> [i \in Ids |-> "none"]] ELSE db
    /\ UNCHANGED <<config, loops, net, dups>>

-----------------------------------------------------------------------------
Receive(h) == OnKnown(h) \/ OnRequestPk(h) \/ OnOk(h) \/ OnMismatch(h) \/ OnNotDeployed(h)

Serve(h) == ServerRegistersPk(h) \/ ServerAnswersPeer(h)

Next ==
    \/ \E h \in Hosts : Tick(h) \/ Receive(h) \/ Expire(h) \/ Serve(h)
    \/ \E m \in net : Lose(m)
    \/ Unthrottle \/ SyncConfig \/ Move

Spec == Init /\ [][Next]_vars

-----------------------------------------------------------------------------
(* Properties.                                                             *)

Registered(h) == db[h][id] # "none"

\* Every server has the id that the device now has.
AllRegistered == \A h \in Hosts : Registered(h)

\* Not deployed, the device sends no key within the interval, on whichever
\* path it comes to register_pk: the timer, a request or a mismatch.
PkThrottled ==
    needsDeploy /\ throttled => \A m \in net' \ net : m.kind # "pk"

=============================================================================
