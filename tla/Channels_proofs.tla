-------------------------- MODULE Channels_proofs ---------------------------
(***************************************************************************)
(* What a session carries besides the desktop, proved for all parameters.  *)
(* PfListener: the life of the listener and the tunnel of a port mapping.  *)
(* PfLogin: over the one handler that the mappings of a window share, a    *)
(* login is always its own mapping's.  FileTransfer: a file that is done   *)
(* is whole, however often the job was resumed.                            *)
(***************************************************************************)
EXTENDS MCMapping, MCFiles, TLAPS, SequenceTheorems

(* While a login is under way the state is the one that led to it: no loop
   is left that could reset it.                                            *)
LoginState ==
  /\ pc \in {"connect", "confirm", "login"} /\ mode = "mux" => state \in {Unset, Failed}
  /\ pc \in {"connect", "confirm", "login"} /\ mode = "raw" => state = Legacy

(* Between publishing a handle and spawning its loop there is no loop yet. *)
Published ==
  pc = "spawn" => gen \in Gens /\ state = Muxed(gen) /\ loop[gen] = "none"

(* Loops exist for handles only. *)
NoLoopAhead == \A g \in Gens : g > gen => loop[g] = "none"

IndInv ==
  /\ TypeOK /\ ResetIsOwn /\ NoDeadHandlePinned
  /\ LoginState /\ Published /\ NoLoopAhead

(* The four kinds of state are told apart, and so are two handles. *)
LEMMA StatesDiffer ==
  /\ Unset.kind = "Unset" /\ Failed.kind = "Failed" /\ Legacy.kind = "Legacy"
  /\ \A g \in Gens : Muxed(g).kind = "Muxed" /\ Muxed(g).gen = g
BY DEF Unset, Failed, Legacy, Muxed

(* A state is known by its kind. *)
LEMMA StateOfKind ==
  ASSUME state \in States
  PROVE  /\ state.kind = "Muxed" => state.gen \in Gens /\ state = Muxed(state.gen)
         /\ state.kind \in {"Unset", "Failed"} => state \in {Unset, Failed}
         /\ state.kind = "Legacy" => state = Legacy
         /\ state.kind \in {"Unset", "Failed", "Legacy", "Muxed"}
BY DEF States, Unset, Failed, Legacy, Muxed

(* A Tunnel starts Unset, with no loop. *)
LEMMA InitInv == Init => IndInv
<1> SUFFICES ASSUME Init PROVE IndInv
  OBVIOUS
<1>1. TypeOK
  BY ListenerAssumption DEF Init, TypeOK, Pcs, Live, States
<1> QED
  BY <1>1, StatesDiffer
  DEF Init, IndInv, ResetIsOwn, NoDeadHandlePinned, LoginState, Published, NoLoopAhead, Live

(* Every step of the listener, of the loops and of the window preserves it. *)
LEMMA NextInv == IndInv /\ [Next]_vars => IndInv'
<1> SUFFICES ASSUME IndInv, [Next]_vars PROVE IndInv'
  OBVIOUS
<1>a. /\ TypeOK /\ ResetIsOwn /\ NoDeadHandlePinned /\ LoginState /\ Published
      /\ NoLoopAhead /\ state \in States
  BY DEF IndInv, TypeOK
<1>b. /\ Unset \in States /\ Failed \in States /\ Legacy \in States
      /\ \A g \in Gens : Muxed(g) \in States
  BY DEF States
(* Steps that leave the state and the loops alone only have to establish what
   their new pc asks for.                                                  *)
<1>c. ASSUME UNCHANGED <<state, loop, gen>>, TypeOK', LoginState', pc # "spawn", pc' # "spawn"
      PROVE  IndInv'
  BY <1>a, <1>c DEF IndInv, ResetIsOwn, NoDeadHandlePinned, Published, NoLoopAhead
<1>1. ASSUME NEW d \in {"continue", "reject", "other"}, UiSends(d) PROVE IndInv'
  <2>1. TypeOK'
    BY <1>1, <1>a DEF UiSends, TypeOK
  <2> QED
    BY <1>1, <1>a, <2>1
    DEF UiSends, IndInv, ResetIsOwn, NoDeadHandlePinned, LoginState, Published, NoLoopAhead
<1>2. CASE Remove
  <2>1. TypeOK'
    <3>1. sender' \in BOOLEAN
      BY <1>2 DEF Remove
    <3>2. ui' \in Seq({"continue", "reject", "other", "close"})
      BY <1>2, <1>a DEF Remove, TypeOK
    <3> QED
      BY <1>2, <1>a, <3>1, <3>2 DEF Remove, TypeOK
  <2> QED
    BY <1>2, <1>a, <2>1
    DEF Remove, IndInv, ResetIsOwn, NoDeadHandlePinned, LoginState, Published, NoLoopAhead
<1>3. CASE AcceptMuxed
  <2>1. TypeOK'
    <3>1. state.gen \in 0..MaxGen
      BY <1>3, <1>a, StateOfKind, ListenerAssumption DEF AcceptMuxed, Gens
    <3> QED
      BY <1>3, <1>a, <3>1 DEF AcceptMuxed, TypeOK, Pcs
  <2> QED
    BY <1>3, <1>c, <2>1 DEF AcceptMuxed, LoginState
<1>4. CASE AcceptClaimed
  <2>1. TypeOK'
    BY <1>4, <1>a DEF AcceptClaimed, TypeOK, Pcs
  <2>2. LoginState'
    BY <1>4, <1>a, StateOfKind DEF AcceptClaimed, LoginState
  <2> QED
    BY <1>4, <1>c, <2>1, <2>2 DEF AcceptClaimed
<1>5. CASE AcceptLegacy
  <2>1. TypeOK'
    BY <1>5, <1>a DEF AcceptLegacy, TypeOK, Pcs
  <2>2. LoginState'
    BY <1>5, <1>a, StateOfKind DEF AcceptLegacy, LoginState
  <2> QED
    BY <1>5, <1>c, <2>1, <2>2 DEF AcceptLegacy
<1>6. CASE UiRecv
  <2>1. TypeOK'
    BY <1>6, <1>a DEF UiRecv, TypeOK, Pcs
  <2> QED
    BY <1>6, <1>c, <2>1 DEF UiRecv, LoginState
<1>7. ASSUME NEW secured \in BOOLEAN, ClientStarted(secured) PROVE IndInv'
  <2>1. TypeOK'
    BY <1>7, <1>a DEF ClientStarted, TypeOK, Pcs
  <2>2. LoginState'
    BY <1>7, <1>a DEF ClientStarted, LoginState
  <2> QED
    BY <1>7, <1>c, <2>1, <2>2 DEF ClientStarted
(* A failed login leaves a state without loop for another. *)
<1>d. ASSUME pc \in {"connect", "confirm", "login"}, state' \in {state, Failed, Legacy},
             state' # state => mode = "mux", UNCHANGED <<loop, gen>>,
             TypeOK', LoginState', pc' # "spawn"
      PROVE  IndInv'
  <2>1. mode \in {"mux", "raw"}
    BY <1>a DEF TypeOK
  <2>2. state \in {Unset, Failed, Legacy}
    BY <1>a, <1>d, <2>1 DEF LoginState
  <2>3. \A g \in Gens : loop[g] \notin Live
    BY <1>a, <2>2, StatesDiffer DEF ResetIsOwn
  <2>4. state'.kind # "Muxed"
    BY <1>d, <2>2, StatesDiffer
  <2> QED
    BY <1>d, <2>3, <2>4 DEF IndInv, ResetIsOwn, NoDeadHandlePinned, Published, NoLoopAhead
<1>8. CASE LoginFails
  <2>1. TypeOK'
    BY <1>8, <1>a, <1>b DEF LoginFails, SetFailedIfMux, TypeOK, Pcs
  <2> QED
    BY <1>8, <1>d, <2>1 DEF LoginFails, SetFailedIfMux, LoginState
<1>9. CASE Confirm
  <2>1. \/ pc' = "login" /\ state' = state
        \/ pc' = "stopped" /\ SetFailedIfMux
        \/ pc' = pc /\ state' = state
    BY <1>9 DEF Confirm
  <2>2. TypeOK'
    BY <1>9, <1>a, <1>b, <2>1 DEF Confirm, SetFailedIfMux, TypeOK, Pcs
  <2>3. LoginState'
    BY <1>9, <1>a, <2>1 DEF Confirm, LoginState
  <2> QED
    BY <1>9, <1>d, <2>1, <2>2, <2>3 DEF Confirm, SetFailedIfMux
<1>10. CASE ConfirmNobody
  <2>1. TypeOK'
    BY <1>10, <1>a, <1>b DEF ConfirmNobody, SetFailedIfMux, TypeOK, Pcs
  <2> QED
    BY <1>10, <1>d, <2>1 DEF ConfirmNobody, SetFailedIfMux, LoginState
<1>11. CASE LoginRecv
  <2>1. TypeOK'
    BY <1>11, <1>a DEF LoginRecv, TypeOK
  <2> QED
    BY <1>11, <1>a, <1>c, <2>1 DEF LoginRecv, LoginState
<1>12. CASE LoginRaw
  <2>1. TypeOK'
    BY <1>12, <1>a, <1>b DEF LoginRaw, TypeOK, Pcs
  <2> QED
    BY <1>12, <1>d, <2>1 DEF LoginRaw, LoginState
<1>13. ASSUME NEW local_eof \in BOOLEAN, SetMuxed(local_eof) PROVE IndInv'
  <2>1. CASE pc = "login"
    <3>1. /\ mode = "mux" /\ gen < MaxGen /\ gen' = gen + 1 /\ handle' = gen + 1
          /\ state' = Muxed(gen') /\ pc' = "spawn"
          /\ UNCHANGED <<mode, loop, ui, sender>>
      BY <1>13, <2>1 DEF SetMuxed
    <3>2. gen' \in Gens /\ gen' \in 0..MaxGen
      BY <1>a, <3>1, ListenerAssumption DEF TypeOK, Gens
    <3>3. TypeOK'
      BY <1>a, <1>b, <3>1, <3>2 DEF TypeOK, Pcs
    <3>4. \A g \in Gens : loop[g] \notin Live
      BY <1>a, <2>1, <3>1, StatesDiffer DEF LoginState, ResetIsOwn
    <3>5. loop'[gen'] = "none"
      BY <1>a, <3>1, <3>2, ListenerAssumption DEF NoLoopAhead, TypeOK, Gens
    <3>6. NoLoopAhead'
      BY <1>a, <3>1, <3>2, ListenerAssumption DEF NoLoopAhead, TypeOK, Gens
    <3> QED
      BY <3>1, <3>2, <3>3, <3>4, <3>5, <3>6
      DEF IndInv, ResetIsOwn, NoDeadHandlePinned, LoginState, Published
  <2>2. CASE pc = "spawn"
    <3>1. /\ loop' = [loop EXCEPT ![gen] = "running"] /\ pc' \in {"accept", "open"}
          /\ UNCHANGED <<mode, state, gen, handle, ui, sender>>
      BY <1>13, <2>2 DEF SetMuxed
    <3>2. gen \in Gens /\ state = Muxed(gen) /\ state.gen = gen
      BY <1>a, <2>2, StatesDiffer DEF Published
    <3>3. loop \in [Gens -> {"none", "gone"} \cup Live] /\ "running" \in Live
      BY <1>a DEF TypeOK, Live
    <3>4. loop' \in [Gens -> {"none", "gone"} \cup Live]
      BY <3>1, <3>2, <3>3
    <3>5. TypeOK'
      BY <1>a, <3>1, <3>4 DEF TypeOK, Pcs
    <3>6. ResetIsOwn'
      BY <1>a, <3>1, <3>2, <3>3 DEF ResetIsOwn
    <3>7. NoLoopAhead'
      BY <1>a, <3>1, <3>2, <3>3, ListenerAssumption DEF NoLoopAhead, Gens
    <3> QED
      BY <3>1, <3>2, <3>3, <3>5, <3>6, <3>7 DEF IndInv, NoDeadHandlePinned, LoginState, Published
  <2> QED
    BY <1>13, <2>1, <2>2 DEF SetMuxed
<1>14. CASE OpenChannel
  <2>1. TypeOK'
    BY <1>14, <1>a, ListenerAssumption DEF OpenChannel, TypeOK, Pcs
  <2> QED
    BY <1>14, <1>c, <2>1 DEF OpenChannel, LoginState
(* A loop moves on and is not yet gone. *)
<1>e. ASSUME NEW g \in Gens, NEW to \in Live, loop[g] \in Live,
             loop' = [loop EXCEPT ![g] = to],
             UNCHANGED <<pc, mode, state, gen, handle, ui, sender>>
      PROVE  IndInv'
  <2>1. loop \in [Gens -> {"none", "gone"} \cup Live]
    BY <1>a DEF TypeOK
  <2>2. TypeOK'
    BY <1>a, <1>e, <2>1 DEF TypeOK
  <2>3. ResetIsOwn'
    BY <1>a, <1>e, <2>1 DEF ResetIsOwn
  <2>4. NoDeadHandlePinned'
    BY <1>a, <1>e, <2>1, StateOfKind DEF NoDeadHandlePinned
  <2>5. "none" \notin Live
    BY DEF Live
  <2>6. pc # "spawn" /\ ~(g > gen)
    BY <1>a, <1>e, <2>5, StatesDiffer DEF Published, NoLoopAhead, ResetIsOwn
  <2>7. NoLoopAhead'
    BY <1>a, <1>e, <2>1, <2>6 DEF NoLoopAhead
  <2> QED
    BY <1>a, <1>e, <2>2, <2>3, <2>4, <2>6, <2>7 DEF IndInv, LoginState, Published
<1>15. ASSUME NEW g \in Gens, LoopStreamEnds(g) PROVE IndInv'
  BY <1>15, <1>e DEF LoopStreamEnds, Live
<1>16. ASSUME NEW g \in Gens, LoopListenerEnds(g) PROVE IndInv'
  BY <1>16, <1>e DEF LoopListenerEnds, Live
<1>17. ASSUME NEW g \in Gens, LoopRaisesTeardown(g) PROVE IndInv'
  BY <1>17, <1>e DEF LoopRaisesTeardown, Live
<1>18. ASSUME NEW g \in Gens, LoopResets(g) PROVE IndInv'
  <2>1. state = Muxed(g)
    BY <1>18, <1>a DEF LoopResets, ResetIsOwn, Live
  <2>2. pc # "spawn"
    BY <1>18, <1>a, <2>1, StatesDiffer DEF LoopResets, Published
  <2>3. TypeOK'
    BY <1>18, <1>a, <1>b DEF LoopResets, TypeOK
  <2>4. \A h \in Gens : loop'[h] \notin Live
    BY <1>18, <1>a, <2>1, StatesDiffer DEF LoopResets, ResetIsOwn, TypeOK, Live
  <2> QED
    BY <1>18, <1>a, <2>1, <2>2, <2>3, <2>4, StatesDiffer
    DEF LoopResets, IndInv, ResetIsOwn, NoDeadHandlePinned, LoginState, Published, NoLoopAhead
<1>19. CASE UNCHANGED vars
  BY <1>19, <1>a
  DEF vars, IndInv, TypeOK, ResetIsOwn, NoDeadHandlePinned, LoginState, Published, NoLoopAhead
<1> QED
  BY <1>1, <1>2, <1>3, <1>4, <1>5, <1>6, <1>7, <1>8, <1>9, <1>10, <1>11, <1>12, <1>13,
     <1>14, <1>15, <1>16, <1>17, <1>18, <1>19 DEF Next, Accept, LoginEnds

LEMMA Inductive == Spec => []IndInv
BY InitInv, NextInv, PTL DEF Spec

(* The variables of the listener keep their types. *)
THEOREM TypeCorrect == Spec => []TypeOK
<1>1. IndInv => TypeOK
  BY DEF IndInv
<1> QED
  BY Inductive, <1>1, PTL

(* Whatever the number of tunnels, the state is never pinned at the handle of
   a loop that has ended.                                                  *)
THEOREM NeverPinned == Spec => []NoDeadHandlePinned
<1>1. IndInv => NoDeadHandlePinned
  BY DEF IndInv
<1> QED
  BY Inductive, <1>1, PTL

(* A loop's unconditional reset only ever clears that loop's own handle. *)
THEOREM ResetsOwnHandle == Spec => []ResetIsOwn
<1>1. IndInv => ResetIsOwn
  BY DEF IndInv
<1> QED
  BY Inductive, <1>1, PTL

(* A mapping latched to the raw pipe stays there. *)
THEOREM LegacyForGood == Spec => LegacyIsSticky
<1>1. IndInv /\ [Next]_vars => [state = Legacy => state' = Legacy]_vars
  <2> SUFFICES ASSUME IndInv, Next, state = Legacy PROVE state' = Legacy
    BY DEF vars
  <2>1. state.kind = "Legacy"
    BY StatesDiffer
  <2>2. \A g \in Gens : loop[g] \notin Live
    BY StatesDiffer DEF IndInv, ResetIsOwn
  <2>3. pc \in {"connect", "confirm", "login"} => mode # "mux"
    BY StatesDiffer DEF IndInv, LoginState
  <2> QED
    BY <2>1, <2>2, <2>3
    DEF Next, UiSends, Remove, Accept, AcceptMuxed, AcceptClaimed, AcceptLegacy, UiRecv,
        ClientStarted, Confirm, ConfirmNobody, LoginRecv, LoginEnds, LoginFails, LoginRaw,
        SetMuxed, SetFailedIfMux, OpenChannel, LoopStreamEnds, LoopListenerEnds,
        LoopRaisesTeardown, LoopResets, Live
<1> QED
  BY Inductive, <1>1, PTL DEF Spec, LegacyIsSticky

-----------------------------------------------------------------------------
(* The logins of the mappings over one handler: PfLogin. *)

Somebody == Mappings \cup {NoMapping}

Hashes == Somebody \X Nat

Places ==
  {"select", "wait_hash", "wait_ui", "set_target", "set_mux", "set_hash", "choose", "fill",
   "choose_ui", "keep", "send", "sent", "in", "out"}

(* What the handler holds, the variables of a login, and a LoginRequest. *)
Handlers == [target : Somebody, multiplex : BOOLEAN, hash : Hashes,
             password : Stored!Entered, shared : Stored!Entered]
Locals == [hash : Hashes, ui : BOOLEAN, password : Stored!Entered]
Requests == [target : Somebody, multiplex : BOOLEAN, answers : Hashes, own : Hashes,
             password : Stored!Entered]

LoginTypes ==
  /\ lc \in Handlers
  /\ turn \in Somebody
  /\ at \in [Mappings -> Places]
  /\ challenge \in [Mappings -> Nat]
  /\ pending \in [Mappings -> Seq(Stored!Entered)] /\ inbox \in [Mappings -> Seq(Stored!Entered)]
  /\ local \in [Mappings -> Locals]
  /\ sent \in [Mappings -> Requests]

HashSet == {"choose", "choose_ui", "keep", "send", "sent"}
MuxSet == HashSet \cup {"set_hash"}
TargetSet == MuxSet \cup {"set_mux"}
InTurn == TargetSet \cup {"set_target", "fill"}

(* Whoever is between the turn's taking and its end has the turn, and the
   handler holds as much of its login as it has filled in.                 *)
TurnHeld == \A m \in Mappings : at[m] \in InTurn => turn = m

FilledIn ==
  \A m \in Mappings :
    /\ at[m] \in TargetSet => lc.target = m
    /\ at[m] \in MuxSet => lc.multiplex = (m \in Multiplexed)
    /\ at[m] \in HashSet => lc.hash = local[m].hash

LoginInv == LoginTypes /\ TurnHeld /\ FilledIn /\ Stored!OwnLogin

LEMMA LoginInit == ASSUME Stored!LoginAssumption PROVE Stored!Init => LoginInv
<1> SUFFICES ASSUME Stored!Init PROVE LoginInv
  OBVIOUS
<1>1. Stored!NoHash \in Hashes
  BY DEF Stored!NoHash, Stored!Hash, Hashes, Somebody
<1>2. Shared \in Stored!Entered /\ NoPassword \in Stored!Entered
  BY DEF Stored!LoginAssumption, Stored!Entered
<1>3. LoginTypes
  BY <1>1, <1>2 DEF Stored!Init, LoginTypes, Handlers, Locals, Requests, Stored!NoLocal,
     Stored!NotSent, Somebody, Places
<1> QED
  BY <1>3 DEF Stored!Init, LoginInv, TurnHeld, FilledIn, Stored!OwnLogin, InTurn, TargetSet,
     MuxSet, HashSet

LEMMA LoginNext == ASSUME Stored!LoginAssumption PROVE LoginInv /\ [Stored!Next]_Stored!vars
     => LoginInv'
<1> SUFFICES ASSUME LoginInv, [Stored!Next]_Stored!vars PROVE LoginInv'
  OBVIOUS
<1>a. LoginTypes /\ TurnHeld /\ FilledIn /\ Stored!OwnLogin
  BY DEF LoginInv
<1>b. /\ NoPassword \in Stored!Entered /\ Saved \in Stored!Entered /\ Stored!NoHash \in Hashes
      /\ Stored!NoLocal \in Locals
      /\ Stored!NotSent \in Requests
  BY DEF Stored!LoginAssumption, Stored!Entered, Stored!NoHash, Stored!Hash, Hashes, Somebody,
     Stored!NoLocal, Stored!NotSent, Locals, Requests
(* The steps outside a turn leave the handler's login, and what those in a
   turn have, alone.                                                       *)
<1>c. ASSUME NEW m \in Mappings, at[m] \notin InTurn, NEW to \in Places \ InTurn,
             at' = [at EXCEPT ![m] = to],
             \A n \in Mappings : n # m => local'[n] = local[n],
             \A n \in Mappings : sent'[n] \in {sent[n], Stored!NotSent},
             lc'.target = lc.target, lc'.multiplex = lc.multiplex, lc'.hash = lc.hash,
             turn' = turn, LoginTypes'
      PROVE  LoginInv'
  <2>1. at'[m] \notin InTurn /\ \A n \in Mappings : n # m => at'[n] = at[n]
    BY <1>a, <1>c DEF LoginTypes
  <2>2. TurnHeld'
    BY <1>a, <1>c, <2>1 DEF TurnHeld
  <2>3. FilledIn'
    BY <1>a, <1>c, <2>1 DEF FilledIn, InTurn, TargetSet, MuxSet
  <2>4. Stored!OwnLogin'
    BY <1>a, <1>c DEF Stored!OwnLogin
  <2> QED
    BY <1>c, <2>2, <2>3, <2>4 DEF LoginInv
(* A step in a turn: nobody else is in one. *)
<1>d. ASSUME NEW m \in Mappings, turn \in {m, NoMapping}, turn' \in {m, NoMapping},
             NEW to \in Places, at' = [at EXCEPT ![m] = to], to \in InTurn => turn' = m,
             \A n \in Mappings : n # m => local'[n] = local[n],
             to \in TargetSet => lc'.target = m,
             to \in MuxSet => lc'.multiplex = (m \in Multiplexed),
             to \in HashSet => lc'.hash = local'[m].hash,
             LoginTypes', Stored!OwnLogin'
      PROVE  LoginInv'
  <2>1. NoMapping \notin Mappings
    BY DEF Stored!LoginAssumption
  <2>2. at'[m] = to /\ \A n \in Mappings : n # m => at'[n] = at[n]
    BY <1>a, <1>d DEF LoginTypes
  <2>3. \A n \in Mappings : n # m => at'[n] \notin InTurn
    BY <1>a, <1>d, <2>1, <2>2 DEF TurnHeld
  <2>4. TurnHeld'
    BY <1>d, <2>2, <2>3 DEF TurnHeld
  <2>5. FilledIn'
    BY <1>d, <2>2, <2>3 DEF FilledIn, InTurn, TargetSet, MuxSet
  <2> QED
    BY <1>d, <2>4, <2>5 DEF LoginInv
<1>1. ASSUME NEW p \in Stored!Entered, Stored!Enter(p) PROVE LoginInv'
  <2>1. LoginTypes'
    BY <1>1, <1>a DEF Stored!Enter, LoginTypes
  <2> QED
    BY <1>1, <1>a, <2>1 DEF Stored!Enter, LoginInv, TurnHeld, FilledIn, Stored!OwnLogin
<1>2. ASSUME NEW m \in Mappings, Stored!HashArrived(m) PROVE LoginInv'
  <2>1. Stored!Hash(m, challenge[m] + 1) \in Hashes
    BY <1>a DEF Stored!Hash, Hashes, Somebody, LoginTypes
  <2>2. pending[m] # <<>> => Head(pending[m]) \in Stored!Entered
    BY <1>a DEF LoginTypes
  <2>3. PICK l \in Locals, to \in {"wait_hash", "wait_ui"} :
          local' = [local EXCEPT ![m] = l] /\ at' = [at EXCEPT ![m] = to]
    <3>1. CASE pending[m] = <<>>
      BY <1>2, <1>b, <2>1, <3>1 DEF Stored!HashArrived, Stored!LoginWithHash, Stored!NoLocal, Locals
    <3>2. CASE pending[m] # <<>>
      BY <1>2, <1>b, <2>1, <2>2, <3>2 DEF Stored!HashArrived, Stored!LoginFromUi, Locals
    <3> QED
      BY <3>1, <3>2
  <2>4. LoginTypes'
    BY <1>2, <1>a, <2>3 DEF Stored!HashArrived, LoginTypes, Places
  <2> QED
    BY <1>2, <1>a, <1>c, <2>3, <2>4 
    DEF Stored!HashArrived, LoginTypes, Places, InTurn, TargetSet, MuxSet, HashSet
<1>3. ASSUME NEW m \in Mappings, Stored!UiLogin(m) PROVE LoginInv'
  <2>1. Stored!Hash(m, challenge[m]) \in Hashes
    BY <1>a DEF Stored!Hash, Hashes, Somebody, LoginTypes
  <2>2. Head(inbox[m]) \in Stored!Entered /\ Tail(inbox[m]) \in Seq(Stored!Entered)
    BY <1>3, <1>a DEF Stored!UiLogin, LoginTypes
  <2>3. PICK l \in Locals, to \in {"select", "wait_ui"} :
          local' = [local EXCEPT ![m] = l] /\ at' = [at EXCEPT ![m] = to]
    <3>1. CASE challenge[m] = 0
      BY <1>3, <1>a, <1>b, <3>1 DEF Stored!UiLogin, LoginTypes
    <3>2. CASE challenge[m] # 0
      BY <1>3, <1>b, <2>1, <2>2, <3>2 DEF Stored!UiLogin, Stored!LoginFromUi, Locals
    <3> QED
      BY <3>1, <3>2
  <2>4. inbox' \in [Mappings -> Seq(Stored!Entered)]
       /\ pending' \in [Mappings -> Seq(Stored!Entered)]
    <3>1. <<Head(inbox[m])>> \in Seq(Stored!Entered)
      BY <2>2
    <3>2. \E s \in Seq(Stored!Entered) : pending' = [pending EXCEPT ![m] = s]
      BY <1>3, <1>a, <3>1 DEF Stored!UiLogin, LoginTypes
    <3> QED
      BY <1>3, <1>a, <2>2, <3>2 DEF Stored!UiLogin, LoginTypes
  <2>5. LoginTypes'
    BY <1>3, <1>a, <2>3, <2>4 DEF Stored!UiLogin, LoginTypes, Places
  <2> QED
    BY <1>3, <1>a, <1>c, <2>3, <2>5 
    DEF Stored!UiLogin, LoginTypes, Places, InTurn, TargetSet, MuxSet, HashSet
<1>4. ASSUME NEW m \in Mappings, Stored!TakeTurn(m) PROVE LoginInv'
  <2>1. LoginTypes'
    BY <1>4, <1>a DEF Stored!TakeTurn, Stored!Step, LoginTypes, Places, Somebody
  <2>2. Stored!OwnLogin'
    BY <1>4, <1>a DEF Stored!TakeTurn, Stored!OwnLogin
  <2> QED
    BY <1>4, <1>d, <2>1, <2>2 DEF Stored!TakeTurn, Stored!Step, Places, TargetSet, MuxSet, HashSet
<1>5. ASSUME NEW m \in Mappings, Stored!SetTarget(m) PROVE LoginInv'
  <2>1. lc' \in Handlers /\ lc'.target = m
    BY <1>5, <1>a DEF Stored!SetTarget, LoginTypes, Handlers, Somebody
  <2>2. LoginTypes'
    BY <1>5, <1>a, <2>1 DEF Stored!SetTarget, Stored!Step, LoginTypes, Places
  <2>3. Stored!OwnLogin'
    BY <1>5, <1>a DEF Stored!SetTarget, Stored!OwnLogin
  <2>4. turn = m
    BY <1>5, <1>a DEF Stored!SetTarget, Stored!Step, TurnHeld, InTurn
  <2> QED
    BY <1>5, <1>d, <2>1, <2>2, <2>3, <2>4 DEF Stored!SetTarget, Stored!Step, Places, MuxSet, HashSet
<1>6. ASSUME NEW m \in Mappings, Stored!SetMultiplex(m) PROVE LoginInv'
  <2>1. lc' \in Handlers /\ lc'.multiplex = (m \in Multiplexed) /\ lc'.target = lc.target
    <3> DEFINE flag == m \in Multiplexed
    <3>1. flag \in BOOLEAN /\ lc' = [lc EXCEPT !.multiplex = flag] /\ lc \in Handlers
      BY <1>6, <1>a DEF Stored!SetMultiplex, LoginTypes
    <3> HIDE DEF flag
    <3>2. lc' \in Handlers /\ lc'.multiplex = flag /\ lc'.target = lc.target
      BY <3>1 DEF Handlers
    <3> QED
      BY <3>2 DEF flag
  <2>2. LoginTypes'
    BY <1>6, <1>a, <2>1 DEF Stored!SetMultiplex, Stored!Step, LoginTypes, Places
  <2>3. Stored!OwnLogin'
    BY <1>6, <1>a DEF Stored!SetMultiplex, Stored!OwnLogin
  <2>4. turn = m /\ lc.target = m
    BY <1>6, <1>a DEF Stored!SetMultiplex, Stored!Step, TurnHeld, FilledIn, InTurn, TargetSet
  <2> QED
    BY <1>6, <1>d, <2>1, <2>2, <2>3, <2>4 DEF Stored!SetMultiplex, Stored!Step, Places, HashSet
<1>7. ASSUME NEW m \in Mappings, Stored!HandleHash(m) PROVE LoginInv'
  <2>1. local[m].hash \in Hashes
    BY <1>a DEF LoginTypes, Locals
  <2>2. /\ lc' \in Handlers
        /\ lc'.hash = local[m].hash /\ lc'.target = lc.target /\ lc'.multiplex = lc.multiplex
    BY <1>7, <1>a, <2>1 DEF Stored!HandleHash, LoginTypes, Handlers
  <2>3. LoginTypes'
    BY <1>7, <1>a, <2>2 DEF Stored!HandleHash, Stored!Step, LoginTypes, Places
  <2>4. Stored!OwnLogin'
    BY <1>7, <1>a DEF Stored!HandleHash, Stored!OwnLogin
  <2>5. turn = m /\ lc.target = m /\ lc.multiplex = (m \in Multiplexed)
    BY <1>7, <1>a DEF Stored!HandleHash, Stored!Step, TurnHeld, FilledIn, InTurn, TargetSet, MuxSet
  <2> QED
    BY <1>7, <1>d, <2>2, <2>3, <2>4, <2>5 DEF Stored!HandleHash, Stored!Step, Places
<1>14. ASSUME NEW m \in Mappings, Stored!Fill(m) PROVE LoginInv'
  <2> DEFINE flag == m \in Multiplexed
  <2>1. local[m].hash \in Hashes /\ flag \in BOOLEAN /\ m \in Somebody
    BY <1>a DEF LoginTypes, Locals, Somebody
  <2>2. /\ lc' \in Handlers
        /\ lc'.hash = local[m].hash /\ lc'.target = m /\ lc'.multiplex = flag
    <3>1. lc' = [lc EXCEPT !.target = m, !.multiplex = flag, !.hash = local[m].hash]
      BY <1>14 DEF Stored!Fill
    <3>2. lc \in Handlers
      BY <1>a DEF LoginTypes
    <3> HIDE DEF flag
    <3> QED
      BY <2>1, <3>1, <3>2 DEF Handlers
  <2>3. LoginTypes'
    BY <1>14, <1>a, <2>2 DEF Stored!Fill, Stored!Step, LoginTypes, Places
  <2>4. Stored!OwnLogin'
    BY <1>14, <1>a DEF Stored!Fill, Stored!OwnLogin
  <2>5. turn = m
    BY <1>14, <1>a DEF Stored!Fill, Stored!Step, TurnHeld, InTurn
  <2> QED
    BY <1>14, <1>d, <2>2, <2>3, <2>4, <2>5 DEF Stored!Fill, Stored!Step, Places
<1>8. ASSUME NEW m \in Mappings, Stored!ChoosePassword(m) \/ Stored!ChoosePasswordFromUi(m)
     PROVE LoginInv'
  <2>1. /\ lc' \in Handlers 
        /\ lc'.hash = lc.hash /\ lc'.target = lc.target /\ lc'.multiplex = lc.multiplex
    BY <1>8, <1>a, <1>b DEF Stored!ChoosePassword, Stored!ChoosePasswordFromUi, LoginTypes, Handlers
  <2>2. PICK p \in Stored!Entered : local' = [local EXCEPT ![m].password = p]
    <3>1. lc.shared \in Stored!Entered /\ lc.password \in Stored!Entered
         /\ local[m].password \in Stored!Entered
      BY <1>a DEF LoginTypes, Handlers, Locals
    <3> QED
      BY <1>8, <1>b, <3>1 DEF Stored!ChoosePassword, Stored!ChoosePasswordFromUi
  <2>3. local' \in [Mappings -> Locals] /\ local'[m].hash = local[m].hash
       /\ \A n \in Mappings : n # m => local'[n] = local[n]
    BY <1>a, <2>2 DEF LoginTypes, Locals
  <2>4. LoginTypes'
    BY <1>8, <1>a, <2>1, <2>3 DEF Stored!ChoosePassword, Stored!ChoosePasswordFromUi,
       Stored!Step, LoginTypes, Places
  <2>5. Stored!OwnLogin'
    BY <1>8, <1>a DEF Stored!ChoosePassword, Stored!ChoosePasswordFromUi, Stored!OwnLogin
  <2>6. turn = m /\ lc.target = m /\ lc.multiplex = (m \in Multiplexed) /\ lc.hash = local[m].hash
    BY <1>8, <1>a DEF Stored!ChoosePassword, Stored!ChoosePasswordFromUi, Stored!Step, TurnHeld,
       FilledIn, InTurn, TargetSet, MuxSet, HashSet
  <2> QED
    BY <1>8, <1>d, <2>1, <2>3, <2>4, <2>5, <2>6 DEF Stored!ChoosePassword,
       Stored!ChoosePasswordFromUi, Stored!Step, Places
<1>9. ASSUME NEW m \in Mappings, Stored!KeepPassword(m) PROVE LoginInv'
  <2>0. local[m].password \in Stored!Entered
    BY <1>a DEF LoginTypes, Locals
  <2>1. /\ lc' \in Handlers 
        /\ lc'.hash = lc.hash /\ lc'.target = lc.target /\ lc'.multiplex = lc.multiplex
    BY <1>9, <1>a, <2>0 DEF Stored!KeepPassword, LoginTypes, Handlers
  <2>4. LoginTypes'
    BY <1>9, <1>a, <2>1 DEF Stored!KeepPassword, Stored!Step, LoginTypes, Places
  <2>5. Stored!OwnLogin'
    BY <1>9, <1>a DEF Stored!KeepPassword, Stored!OwnLogin
  <2>6. turn = m /\ lc.target = m /\ lc.multiplex = (m \in Multiplexed) /\ lc.hash = local[m].hash
    BY <1>9, <1>a DEF Stored!KeepPassword, Stored!Step, TurnHeld, FilledIn, InTurn, TargetSet,
       MuxSet, HashSet
  <2> QED
    BY <1>9, <1>d, <2>1, <2>4, <2>5, <2>6 DEF Stored!KeepPassword, Stored!Step, Places
<1>10. ASSUME NEW m \in Mappings, Stored!SendLogin(m) PROVE LoginInv'
  <2>1. turn = m /\ lc.target = m /\ lc.multiplex = (m \in Multiplexed) /\ lc.hash = local[m].hash
    BY <1>10, <1>a DEF Stored!SendLogin, Stored!Step, TurnHeld, FilledIn, InTurn, TargetSet,
       MuxSet, HashSet
  <2> DEFINE flag == m \in Multiplexed
             req == [target |-> m, multiplex |-> flag, answers |-> local[m].hash,
                     own |-> local[m].hash, password |-> local[m].password]
  <2>2. sent' = [sent EXCEPT ![m] = req]
    BY <1>10, <2>1 DEF Stored!SendLogin
  <2>3. local[m].hash \in Hashes /\ local[m].password \in Stored!Entered /\ flag \in BOOLEAN
    BY <1>a DEF LoginTypes, Locals
  <2> HIDE DEF flag
  <2>4. req \in Requests
    BY <2>3 DEF Requests, Somebody
  <2>5. LoginTypes'
    BY <1>10, <1>a, <2>2, <2>4 DEF Stored!SendLogin, Stored!Step, LoginTypes, Places
  <2>6. Stored!OwnLogin'
    BY <1>a, <2>2 DEF Stored!OwnLogin, LoginTypes, flag
  <2> QED
    BY <1>10, <1>d, <2>1, <2>5, <2>6 DEF Stored!SendLogin, Stored!Step, Places
<1>11. ASSUME NEW m \in Mappings, Stored!EndLogin(m) PROVE LoginInv'
  <2>0. local[m].hash \in Hashes
    BY <1>a DEF LoginTypes, Locals
  <2>1. lc' \in Handlers 
    BY <1>11, <1>a, <2>0 DEF Stored!EndLogin, LoginTypes, Handlers
  <2>2. LoginTypes'
    BY <1>11, <1>a, <2>1 DEF Stored!EndLogin, Stored!Step, LoginTypes, Places, Somebody
  <2>3. Stored!OwnLogin'
    BY <1>11, <1>a DEF Stored!EndLogin, Stored!OwnLogin
  <2>4. turn = m
    BY <1>11, <1>a DEF Stored!EndLogin, Stored!Step, TurnHeld, InTurn, TargetSet, MuxSet, HashSet
  <2> QED
    BY <1>11, <1>d, <2>2, <2>3, <2>4 DEF Stored!EndLogin, Stored!Step, Places, InTurn, TargetSet,
       MuxSet, HashSet
<1>12. ASSUME NEW m \in Mappings, Stored!LoginError(m) \/ Stored!PeerInfo(m)
     \/ Stored!GiveUp(m) PROVE LoginInv'
  <2>1. /\ lc' \in Handlers 
        /\ lc'.hash = lc.hash /\ lc'.target = lc.target /\ lc'.multiplex = lc.multiplex
    BY <1>12, <1>a, <1>b DEF Stored!LoginError, Stored!PeerInfo, Stored!GiveUp, LoginTypes, Handlers
  <2>2. /\ sent' \in [Mappings -> Requests]
        /\ \A n \in Mappings : sent'[n] \in {sent[n], Stored!NotSent}
    <3>1. sent' \in {sent, [sent EXCEPT ![m] = Stored!NotSent]}
      BY <1>12 DEF Stored!LoginError, Stored!PeerInfo, Stored!GiveUp
    <3> QED
      BY <1>a, <1>b, <3>1 DEF LoginTypes
  <2>3. at[m] = "select" /\ \E to \in {"select", "in", "out"} : at' = [at EXCEPT ![m] = to]
    BY <1>12, <1>a DEF Stored!LoginError, Stored!PeerInfo, Stored!GiveUp, Stored!Step, LoginTypes
  <2>4. LoginTypes'
    BY <1>12, <1>a, <2>1, <2>2, <2>3 DEF Stored!LoginError, Stored!PeerInfo, Stored!GiveUp,
       LoginTypes, Places
  <2> QED
    BY <1>12, <1>c, <2>1, <2>2, <2>3, <2>4
    DEF Stored!LoginError, Stored!PeerInfo, Stored!GiveUp, Places, InTurn, TargetSet, MuxSet,
       HashSet
<1>13. CASE UNCHANGED Stored!vars
  BY <1>13, <1>a DEF Stored!vars, LoginInv, LoginTypes, TurnHeld, FilledIn, Stored!OwnLogin
<1> QED
  BY <1>1, <1>2, <1>3, <1>4, <1>5, <1>6, <1>7, <1>8, <1>9, <1>10, <1>11, <1>12, <1>13,
     <1>14
  DEF Stored!Next, Stored!Login

(* For any mappings over one handler, multiplexed or not, and any passwords: a
   login that is sent carries its own mapping's target and flag and answers
   its own mapping's challenge.  Of the password itself nothing is said: one
   that was entered is kept in the handler for the next login of any mapping. *)
THEOREM OwnLoginSent == Stored!Spec => []OwnLogin
<1>1. LoginInv => OwnLogin
  BY DEF LoginInv, OwnLogin
<1> QED
  BY LoginFits, LoginInit, LoginNext, <1>1, PTL DEF Stored!Spec

-----------------------------------------------------------------------------
(* A transfer job, its reader and its writer: FileTransfer. *)

Numbers == 0..N
Spots == {Transfer!None} \cup Nat
Offsets == {Transfer!Skip} \cup Nat
Readers == [on : BOOLEAN, num : Numbers, pos : Spots, confirmed : BOOLEAN, waiting : BOOLEAN,
            resume : BOOLEAN]
Writers == [on : BOOLEAN, num : Numbers, pos : Spots, at : Numbers, dig : Nat, resume : BOOLEAN]
Digests == [t : {"digest"}, f : Transfer!Files, v : Nat, resume : BOOLEAN]
Loads == {<<>>} \cup {<<i>> : i \in Nat}
Blocks == [t : {"block"}, f : Transfer!Files, d : Loads, v : Nat]
Confirms == [t : {"confirm"}, f : Transfer!Files, off : Offsets]
Asks == [t : {"ask"}, f : Transfer!Files, off : Nat]
ToWriter == Digests \cup Blocks \cup Confirms \cup [t : {"done"}, f : Numbers]
ToReader == Confirms \cup Asks

Pairs == Nat \X Nat
Contents == SUBSET Seq(Pairs)

IsOn(g) == g = [f \in Transfer!Files |-> g[f]]

Types ==
  /\ upload \in BOOLEAN /\ misplaced \in BOOLEAN
  /\ ver \in 1..(MaxEdits + 1) /\ ver \in Nat \ {0}
  /\ rd \in Readers /\ wr \in Writers
  /\ strategy \in {"ask", "yes", "no"} /\ ask \in Transfer!Files \cup {Transfer!None}
  /\ toW \in Seq(ToWriter) /\ toR \in Seq(ToReader)
  /\ IsOn(final) /\ part \in [Transfer!Files -> Contents] /\ dig \in [Transfer!Files -> Nat]
       /\ IsOn(kept)
  /\ meta \in Numbers \cup {Transfer!None} /\ ended \in {"no", "done"}

\* The reader has announced a file and waits.
Waiting == rd.pos # Transfer!None /\ ~rd.confirmed

Roles ==
  /\ rd.pos # Transfer!None => rd.on /\ rd.num \in Transfer!Files
  /\ rd.confirmed => rd.pos # Transfer!None
  /\ rd.waiting <=> rd.pos # Transfer!None
  /\ Waiting => rd.pos = 0
  /\ rd.on => wr.on
  /\ ~wr.on => toW = <<>> /\ wr.pos = Transfer!None /\ wr.dig = 0
  /\ wr.on => meta = Transfer!None /\ ended = "no"
  /\ wr.pos # Transfer!None => wr.num \in Transfer!Files /\ part[wr.num] # {}
  /\ wr.dig = ver \/ (wr.dig = 0 /\ ask = Transfer!None /\ toR = <<>> /\ ~rd.confirmed
                       /\ \A i \in 1..Len(toW) : toW[i].t # "block")
  /\ \A f \in Transfer!Files : dig[f] \in 0..ver

\* A confirmation for the writer goes before what the reader sends then; seen
\* past it, the queue and the writer are these.
HasConfirm == toW # <<>> /\ toW[1].t = "confirm"
Queue == IF HasConfirm THEN Tail(toW) ELSE toW
Taker == IF HasConfirm THEN Transfer!ConfirmedWriter(toW[1].f, toW[1].off) ELSE wr

Blocked == Queue # <<>> /\ Queue[1].t = "block"

\* One token goes round for each file: its digest, the prompt, the answer.
Token ==
  /\ ask # Transfer!None => Waiting /\ ask = rd.num /\ toW = <<>> /\ toR = <<>>
  /\ toR # <<>> => /\ Waiting /\ Len(toR) = 1 /\ toR[1].f = rd.num /\ toW = <<>>
                   /\ toR[1].t = "ask" => upload
                   /\ upload /\ toR[1].t = "confirm" => toR[1].off = 0
  /\ Waiting /\ ask = Transfer!None /\ toR = <<>> => toW # <<>> /\ toW[Len(toW)].t = "digest"
  /\ wr.on /\ ~rd.on => toW # <<>> /\ toW[Len(toW)].t = "done"
  /\ HasConfirm => upload

RNum == IF rd.on THEN rd.num ELSE N
Cur == IF rd.confirmed THEN rd.num ELSE RNum - 1
Waits == Waiting /\ ask = Transfer!None /\ toR = <<>>

\* The blocks of one file, its end as the last of them unless it is being read,
\* and then the next digest or the end of the job.
ShapeAt(q, i) ==
  /\ q[i].t # "confirm"
  /\ q[i].t # "block" => i = Len(q)
  /\ q[i].t = "digest" => Waits /\ q[i].f = rd.num /\ q[i].v = ver
  /\ q[i].t = "done" => ~rd.on
  /\ q[i].t = "block" =>
       /\ q[i].v = ver /\ q[i].f = Cur
       /\ q[i].d = <<>> => ~rd.confirmed /\ (i < Len(q) => q[i + 1].t # "block")
       /\ q[i].d # <<>> /\ ~rd.confirmed => i < Len(q) /\ q[i + 1].t = "block"

QueueShape == \A i \in 1..Len(Queue) : ShapeAt(Queue, i)

\* A .download is one sequence of blocks and ends where the writer writes; an
\* offset on its way to the writer is where it ended, and still ends.
OfferWas(f, offset) == offset > 0 => part[f] # {} /\ offset = Transfer!Transferred(f)
Storage ==
  /\ \A f \in Transfer!Files : \A s \in part[f] : part[f] = {s}
  /\ wr.pos # Transfer!None => \A s \in part[wr.num] : Len(s) = wr.pos
  /\ toR # <<>> /\ toR[1].t = "ask" => OfferWas(toR[1].f, toR[1].off)
  /\ HasConfirm => OfferWas(toW[1].f, toW[1].off)

Control == Types /\ Roles /\ Token /\ QueueShape /\ Storage

-----------------------------------------------------------------------------
LEMMA Ranges ==
  ASSUME Transfer!FilesAssumption
  PROVE  /\ 0 \in Numbers /\ N \in Numbers /\ Transfer!Files \subseteq Numbers
              /\ Transfer!None \notin Transfer!Files
         /\ \A f \in Transfer!Files : f + 1 \in Numbers /\ f < N /\ f \in Nat
              /\ Size[f] \in Nat \ {0}
         /\ \A n \in Numbers : n \in Nat /\ n <= N /\ (n # N => n \in Transfer!Files)
              /\ n # Transfer!None
         /\ Transfer!None \in Spots /\ Nat \subseteq Spots /\ Transfer!None \notin Nat
              /\ Transfer!Skip \notin Nat
         /\ Transfer!Skip \in Offsets /\ Nat \subseteq Offsets /\ N \notin Transfer!Files
         /\ \A o \in Offsets : (o = Transfer!Skip \/ o \in Nat) /\ (o > 0 => o \in Nat)
         /\ \A p \in Spots : p # Transfer!None => p \in Nat
BY DEF Transfer!FilesAssumption, Numbers, Transfer!Files, Spots, Offsets, Transfer!None,
   Transfer!Skip

LEMMA Kinds ==
  /\ \A m \in ToWriter : m.t \in {"digest", "block", "confirm", "done"}
  /\ \A m \in ToWriter : m.t = "digest" => m.f \in Transfer!Files /\ m.v \in Nat
       /\ m.resume \in BOOLEAN
  /\ \A m \in ToWriter : m.t = "block" => m.f \in Transfer!Files /\ m.v \in Nat /\ m.d \in Loads
  /\ \A m \in ToWriter : m.t = "confirm" => m.f \in Transfer!Files /\ m.off \in Offsets
  /\ \A m \in ToReader : m.t \in {"confirm", "ask"} /\ m.f \in Transfer!Files
  /\ \A m \in ToReader : m.t = "confirm" => m.off \in Offsets
  /\ \A m \in ToReader : m.t = "ask" => m.off \in Nat
BY DEF ToWriter, ToReader, Digests, Blocks, Confirms, Asks

LEMMA Heads ==
  ASSUME NEW S, NEW q \in Seq(S), q # <<>>
  PROVE  /\ Head(q) = q[1] /\ q[1] \in S /\ Tail(q) \in Seq(S) /\ Len(q) \in Nat \ {0}
         /\ Len(Tail(q)) = Len(q) - 1 /\ (Len(q) = 1 => Tail(q) = <<>>)
         /\ \A i \in 1..Len(Tail(q)) : i + 1 \in 1..Len(q) /\ Tail(q)[i] = q[i + 1]
         /\ (Tail(q) # <<>> => Tail(q)[Len(Tail(q))] = q[Len(q)])
<1>1. Len(q) \in Nat \ {0} /\ Tail(q) \in Seq(S) /\ Len(Tail(q)) = Len(q) - 1
      /\ \A i \in 1..Len(Tail(q)) : Tail(q)[i] = q[i + 1]
  BY HeadTailProperties, EmptySeq
<1>3. Tail(q) # <<>> => Len(Tail(q)) \in Nat \ {0}
  BY <1>1, EmptySeq
<1>2. Len(q) = 1 => Tail(q) = <<>>
  BY <1>1, <1>3
<1>4. Tail(q) # <<>> => Tail(q)[Len(Tail(q))] = q[Len(q)]
  BY <1>1, <1>3
<1> QED
  BY <1>1, <1>2, <1>4

\* The queue seen past the confirmation, when something is put in and taken out.
LEMMA ViewSend ==
  ASSUME Types, NEW m \in ToWriter, m.t # "confirm", Transfer!Send(m), UNCHANGED <<wr, part, dig>>
  PROVE  /\ Queue \in Seq(ToWriter) /\ Queue' = Append(Queue, m) /\ Taker' = Taker
         /\ HasConfirm' = HasConfirm /\ toW' \in Seq(ToWriter)
         /\ toW' # <<>> /\ toW'[Len(toW')] = m /\ (HasConfirm => toW'[1] = toW[1])
         /\ Len(toW') = Len(toW) + 1
         /\ \A i \in 1..Len(toW') : toW'[i] = IF i <= Len(toW) THEN toW[i] ELSE m
<1>1. toW \in Seq(ToWriter) /\ toW' = Append(toW, m)
  BY DEF Types, Transfer!Send
<1>2. /\ toW' \in Seq(ToWriter) /\ toW' # <<>> /\ toW'[Len(toW')] = m
      /\ Len(toW') = Len(toW) + 1 /\ Len(toW) \in Nat
      /\ \A i \in 1..Len(toW') : toW'[i] = IF i <= Len(toW) THEN toW[i] ELSE m
  BY <1>1, AppendProperties
<1>3. CASE toW = <<>>
  BY <1>1, <1>2, <1>3 DEF HasConfirm, Queue, Taker
<1>4. CASE toW # <<>>
  <2>1. Len(toW) \in Nat \ {0} /\ Tail(toW) \in Seq(ToWriter)
    BY <1>1, <1>4, Heads
  <2>2. toW'[1] = toW[1]
    BY <1>2, <2>1
  <2>3. Tail(toW') = Append(Tail(toW), m)
    BY <1>1, <1>4, HeadTailAppend
  <2>4. HasConfirm' = HasConfirm
    BY <1>2, <1>4, <2>2 DEF HasConfirm
  <2>5. Taker' = Taker
    BY <2>2, <2>4 DEF Taker, Transfer!ConfirmedWriter
  <2> QED
    BY <1>1, <1>2, <2>1, <2>2, <2>3, <2>4, <2>5 DEF Queue
<1> QED
  BY <1>3, <1>4

LEMMA ViewTake ==
  ASSUME Control, toW # <<>>, Head(toW).t # "confirm", toW' = Tail(toW)
  PROVE  /\ ~HasConfirm /\ Queue = toW /\ Taker = wr
         /\ ~HasConfirm' /\ Queue' = Tail(toW) /\ Taker' = wr'
         /\ toW[1] = Head(toW) /\ toW[1] \in ToWriter /\ Tail(toW) \in Seq(ToWriter)
         /\ Len(toW) \in Nat \ {0} /\ Len(Tail(toW)) = Len(toW) - 1
         /\ \A i \in 1..Len(Tail(toW)) : i + 1 \in 1..Len(toW) /\ Tail(toW)[i] = toW[i + 1]
<1>1. /\ toW[1] = Head(toW) /\ toW[1] \in ToWriter /\ Tail(toW) \in Seq(ToWriter)
      /\ Len(toW) \in Nat \ {0} /\ Len(Tail(toW)) = Len(toW) - 1
      /\ \A i \in 1..Len(Tail(toW)) : i + 1 \in 1..Len(toW) /\ Tail(toW)[i] = toW[i + 1]
  BY Heads DEF Control, Types
<1>2. ~HasConfirm /\ Queue = toW /\ Taker = wr
  BY <1>1 DEF HasConfirm, Queue, Taker
<1>3. ~HasConfirm'
  <2>1. CASE Tail(toW) = <<>>
    BY <2>1 DEF HasConfirm
  <2>2. CASE Tail(toW) # <<>>
    <3>1. 1 \in 1..Len(Tail(toW))
      BY <1>1, <2>2, EmptySeq
    <3>2. 2 \in 1..Len(toW) /\ Tail(toW)[1] = toW[2]
      BY <1>1, <3>1
    <3>3. toW[2].t # "confirm"
      BY <1>2, <3>2 DEF Control, QueueShape, ShapeAt
    <3> QED
      BY <3>2, <3>3 DEF HasConfirm
  <2> QED
    BY <2>1, <2>2
<1> QED
  BY <1>1, <1>2, <1>3 DEF Queue, Taker

LEMMA ViewSame ==
  ASSUME UNCHANGED <<toW, wr, part, dig>>
  PROVE  HasConfirm' = HasConfirm /\ Queue' = Queue /\ Taker' = Taker
BY DEF HasConfirm, Queue, Taker, Transfer!ConfirmedWriter

LEMMA ViewEmpty ==
  ASSUME toW = <<>> PROVE ~HasConfirm /\ Queue = <<>> /\ Taker = wr
BY DEF HasConfirm, Queue, Taker

-----------------------------------------------------------------------------
(* The control, action by action. *)

LEMMA ControlInit == ASSUME Transfer!FilesAssumption, Transfer!Init PROVE Control
<1>1. rd \in Readers /\ wr \in Writers
  BY Ranges DEF Transfer!Init, Transfer!NoReader, Transfer!NoWriter, Readers, Writers
<1>2. Types
  <2>1. ver \in 1..(MaxEdits + 1) /\ ver \in Nat \ {0}
    BY DEF Transfer!Init, Transfer!FilesAssumption
  <2>2. IsOn(final) /\ part \in [Transfer!Files -> Contents] /\ IsOn(kept)
       /\ dig \in [Transfer!Files -> Nat]
    BY DEF Transfer!Init, IsOn, Contents
  <2>3. toW \in Seq(ToWriter) /\ toR \in Seq(ToReader)
    BY DEF Transfer!Init
  <2>4. strategy \in {"ask", "yes", "no"} /\ ask \in Transfer!Files \cup {Transfer!None}
        /\ meta \in Numbers \cup {Transfer!None} /\ ended \in {"no", "done"} /\ upload \in BOOLEAN
        /\ misplaced \in BOOLEAN
    BY DEF Transfer!Init
  <2> QED
    BY <1>1, <2>1, <2>2, <2>3, <2>4 DEF Types
<1>3. Roles
  BY <1>2 DEF Transfer!Init, Roles, Transfer!NoReader, Transfer!NoWriter, Waiting, Types
<1>4. Token /\ QueueShape /\ Storage
  <2>1. rd.pos = Transfer!None /\ wr.pos = Transfer!None
       /\ (\A f \in Transfer!Files : part[f] = {}) /\ ~rd.on /\ ~wr.on /\ ask = Transfer!None
            /\ toW = <<>> /\ toR = <<>>
    BY DEF Transfer!Init, Transfer!NoReader, Transfer!NoWriter
  <2> QED
    BY <2>1, ViewEmpty DEF Token, QueueShape, Waiting, Storage
<1> QED
  BY <1>2, <1>3, <1>4 DEF Control

\* Nothing runs.
LEMMA AtIdle ==
  ASSUME Transfer!FilesAssumption, Control, Transfer!Idle
  PROVE  rd.pos = Transfer!None /\ wr.pos = Transfer!None /\ wr.dig = 0 /\ ask = Transfer!None
       /\ toW = <<>> /\ toR = <<>>
         /\ ~rd.confirmed /\ ~rd.on /\ ~wr.on
BY DEF Control, Roles, Token, Waiting, Transfer!Idle

LEMMA BeginControl ==
  ASSUME Transfer!FilesAssumption, NEW n \in Numbers, NEW b \in BOOLEAN, Transfer!Begin(n, b),
         UNCHANGED upload, upload \in BOOLEAN, misplaced' \in BOOLEAN, IsOn(kept'), IsOn(final),
         ver \in 1..(MaxEdits + 1), ver \in Nat \ {0},
         part \in [Transfer!Files -> Contents], dig \in [Transfer!Files -> Nat],
         \A f \in Transfer!Files : dig[f] \in 0..ver /\ \A s \in part[f] : part[f] = {s}
  PROVE  Control'
<1>1. /\ ask' = Transfer!None /\ toW' = <<>> /\ toR' = <<>> /\ meta' = Transfer!None
           /\ ended' = "no"
      /\ UNCHANGED <<ver, final, part, dig>> /\ strategy' = "ask"
  BY DEF Transfer!Begin, Transfer!Idle, Transfer!disk
<1>2. /\ rd' \in Readers /\ rd'.on /\ rd'.pos = Transfer!None /\ ~rd'.confirmed /\ ~rd'.waiting
      /\ rd'.num = n
  BY Ranges DEF Transfer!Begin, Transfer!NoReader, Readers
<1>3. wr' \in Writers /\ wr'.on /\ wr'.pos = Transfer!None /\ wr'.dig = 0 /\ wr'.num = n
  BY Ranges DEF Transfer!Begin, Transfer!NoWriter, Writers
<1>4. Types'
  BY <1>1, <1>2, <1>3 DEF Types, IsOn
<1>5. Roles'
  BY <1>1, <1>2, <1>3 DEF Roles, Waiting
<1>6. Token' /\ QueueShape' /\ Storage'
  BY <1>1, <1>2, <1>3, ViewEmpty DEF Storage, Token, Waiting, QueueShape, HasConfirm, Queue
<1> QED
  BY <1>4, <1>5, <1>6 DEF Control

LEMMA StopControl ==
  ASSUME Transfer!FilesAssumption, Control, rd' = Transfer!NoReader, wr' = Transfer!NoWriter,
       ask' = Transfer!None,
         toW' = <<>>, toR' = <<>>, meta' \in Numbers \cup {Transfer!None}, IsOn(final'),
         part' \in [Transfer!Files -> Contents], \A f \in Transfer!Files : part'[f] \in {{}, part[f]},
         dig' \in [Transfer!Files -> Nat], \A f \in Transfer!Files : dig'[f] \in {0, dig[f]},
         ended' \in {"no", "done"}, UNCHANGED <<upload, ver, strategy, kept, misplaced, spoilt>>
  PROVE  Control'
<1>1. /\ rd' \in Readers /\ ~rd'.on /\ rd'.pos = Transfer!None /\ ~rd'.confirmed /\ ~rd'.waiting
  BY Ranges DEF Transfer!NoReader, Readers
<1>2. wr' \in Writers /\ ~wr'.on /\ wr'.pos = Transfer!None /\ wr'.dig = 0
  BY Ranges DEF Transfer!NoWriter, Writers
<1>3. Types'
  BY <1>1, <1>2 DEF Control, Types, IsOn
<1>4. Roles'
  <2>1. \A f \in Transfer!Files : dig'[f] \in 0..ver
    <3>1. ver \in Nat /\ \A f \in Transfer!Files : dig[f] \in 0..ver
      BY DEF Control, Roles, Types
    <3> QED
      BY <3>1
  <2> QED
    BY <1>1, <1>2, <2>1 DEF Roles, Waiting
<1>5. Token' /\ QueueShape' /\ Storage'
  BY <1>1, <1>2 DEF Control, Storage, Token, Waiting, QueueShape, HasConfirm, Queue
<1> QED
  BY <1>3, <1>4, <1>5 DEF Control

\* A job that stays unspoilt sees an edit only between its parts, and in the digest.
LEMMA EditIs ==
  ASSUME spoilt = {}, spoilt' = {}, Transfer!Edit
  PROVE  /\ Transfer!Idle /\ ver' = ver + 1 /\ stamp' = ver + 1 /\ ver <= MaxEdits
         /\ UNCHANGED <<rd, wr, strategy, ask, toW, toR, final, part, dig, meta, ended, kept,
                        misplaced>>
BY DEF Transfer!Edit, Transfer!Spoil, Transfer!jobs, Transfer!disk

LEMMA EditControl ==
  ASSUME Transfer!FilesAssumption, Control, UNCHANGED upload, spoilt = {}, spoilt' = {},
         Transfer!Edit
  PROVE  Control'
<1>1. UNCHANGED <<upload, rd, wr, strategy, ask, toW, toR, final, part, dig, meta, ended, kept,
                  misplaced>> /\ ver' = ver + 1 /\ ver <= MaxEdits /\ Transfer!Idle
  BY EditIs
<1>2. ver' \in 1..(MaxEdits + 1) /\ ver' \in Nat \ {0} /\ 0..ver \subseteq 0..ver'
  BY <1>1 DEF Control, Types, Transfer!FilesAssumption
<1>3. Types'
  BY <1>1, <1>2 DEF Control, Types, IsOn
<1>4. Roles'
  <2>1. wr.dig = 0 /\ ask = Transfer!None /\ toR = <<>> /\ ~rd.confirmed /\ toW = <<>>
    BY <1>1, AtIdle
  <2> QED
    BY <1>1, <1>2, <2>1 DEF Control, Roles, Waiting
<1>5. Token' /\ QueueShape' /\ Storage'
  BY <1>1, AtIdle DEF Control, Storage, Token, Waiting, QueueShape, HasConfirm, Queue
<1> QED
  BY <1>3, <1>4, <1>5 DEF Control

LEMMA ShapeSend ==
  ASSUME Control, ~Waits, rd.on, NEW m \in ToWriter, m.t # "confirm", Transfer!Send(m),
         UNCHANGED <<wr, part, dig, ver>>, Cur' = Cur, rd'.confirmed => rd.confirmed,
         m.t = "block" <=> rd.confirmed,
         m.t = "digest" => Waits' /\ m.f = rd'.num /\ m.v = ver,
         m.t = "done" => ~rd'.on,
         m.t = "block" => m.v = ver /\ m.f = Cur /\ (m.d = <<>> <=> ~rd'.confirmed)
  PROVE  QueueShape'
<1> DEFINE q == Queue
           p == Queue'
<1>1. q \in Seq(ToWriter) /\ p = Append(q, m)
  BY ViewSend DEF Control
<1>2. QueueShape
  BY DEF Control
<1> HIDE DEF q, p
<1>3. Len(p) = Len(q) + 1 /\ Len(q) \in Nat
     /\ \A i \in 1..Len(p) : p[i] = IF i <= Len(q) THEN q[i] ELSE m
  BY <1>1, AppendProperties
<1>4. \A i \in 1..Len(q) : q[i].t = "block"
  <2> TAKE i \in 1..Len(q)
  <2>1. q[i].t \in {"digest", "block", "confirm", "done"}
    BY <1>1, Kinds
  <2>2. ShapeAt(q, i)
    BY <1>2 DEF QueueShape, q
  <2> QED
    BY <2>1, <2>2 DEF ShapeAt
<1> SUFFICES ASSUME NEW i \in 1..Len(p)
    PROVE  /\ p[i].t # "confirm"
           /\ p[i].t # "block" => i = Len(p)
           /\ p[i].t = "digest" => Waits' /\ p[i].f = rd'.num /\ p[i].v = ver
           /\ p[i].t = "done" => ~rd'.on
           /\ p[i].t = "block" =>
                /\ p[i].v = ver /\ p[i].f = Cur
                /\ p[i].d = <<>> => ~rd'.confirmed /\ (i < Len(p) => p[i + 1].t # "block")
                /\ p[i].d # <<>> /\ ~rd'.confirmed => i < Len(p) /\ p[i + 1].t = "block"
  BY DEF QueueShape, ShapeAt, p
<1>5. CASE i = Len(p)
  BY <1>3, <1>5
<1>6. CASE i < Len(p)
  <2>1. i \in 1..Len(q) /\ p[i] = q[i] /\ q[i].t = "block"
    BY <1>3, <1>4, <1>6
  <2>2. ShapeAt(q, i)
    BY <1>2, <2>1 DEF QueueShape, q
  <2>3. p[i + 1] = (IF i < Len(q) THEN q[i + 1] ELSE m)
    BY <1>3, <1>6
  <2>4. i < Len(q) => q[i + 1].t = "block"
    BY <1>3, <1>4
  <2>5. /\ q[i].v = ver /\ q[i].f = Cur
        /\ q[i].d = <<>> => ~rd.confirmed /\ (i < Len(q) => q[i + 1].t # "block")
        /\ q[i].d # <<>> /\ ~rd.confirmed => i < Len(q) /\ q[i + 1].t = "block"
    BY <2>1, <2>2 DEF ShapeAt
  <2>6. q[i].d = <<>> => ~rd'.confirmed /\ i = Len(q) /\ m.t # "block"
    BY <1>3, <2>1, <2>4, <2>5
  <2>7. q[i].d # <<>> /\ ~rd'.confirmed => p[i + 1].t = "block"
    BY <1>3, <2>1, <2>3, <2>4, <2>5
  <2> QED
    BY <1>6, <2>1, <2>3, <2>5, <2>6, <2>7
<1> QED
  BY <1>3, <1>5, <1>6

\* What the reader sends while it does not wait.
LEMMA SendControl ==
  ASSUME Transfer!FilesAssumption, Control, ~Waiting, rd.on, NEW m \in ToWriter, m.t # "confirm",
       Transfer!Send(m),
         UNCHANGED <<upload, ver, wr, strategy, ask, toR, final, part, dig, meta, ended, kept,
                     misplaced, spoilt>>,
         rd' \in Readers,
         rd'.pos # Transfer!None => rd'.on /\ rd'.num \in Transfer!Files, rd'.confirmed
              => rd'.pos # Transfer!None,
         rd'.waiting <=> rd'.pos # Transfer!None, Waiting' => rd'.pos = 0,
         Cur' = Cur, rd'.confirmed => rd.confirmed,
         m.t = "block" <=> rd.confirmed, m.t = "digest" <=> Waiting', m.t = "done" <=> ~rd'.on,
         m.t = "digest" => m.f = rd'.num /\ m.v = ver,
         m.t = "block" => m.v = ver /\ m.f = Cur /\ (m.d = <<>> <=> ~rd'.confirmed)
  PROVE  Control' /\ wr.on /\ ask = Transfer!None /\ toR = <<>>
<1>1. ask = Transfer!None /\ toR = <<>> /\ wr.on
  BY DEF Control, Token, Roles
<1>2. ~Waits /\ Waits' = Waiting'
  BY <1>1 DEF Waits
<1>3. QueueShape'
  BY <1>2, ShapeSend
<1>4. /\ HasConfirm' = HasConfirm /\ (HasConfirm => toW'[1] = toW[1])
      /\ toW' \in Seq(ToWriter) /\ toW' # <<>> /\ toW'[Len(toW')] = m
      /\ \A i \in 1..Len(toW') : toW'[i] = IF i <= Len(toW) THEN toW[i] ELSE m
      /\ Len(toW') = Len(toW) + 1
  BY ViewSend DEF Control
<1>5. Types'
  BY <1>4 DEF Control, Types, IsOn
<1>6. Roles'
  <2>1. wr.dig = ver
       \/ (wr.dig = 0 /\ ~rd'.confirmed /\ \A i \in 1..Len(toW') : toW'[i].t # "block")
    <3>1. wr.dig = ver \/ (wr.dig = 0 /\ ~rd.confirmed /\ \A i \in 1..Len(toW) : toW[i].t # "block")
      BY DEF Control, Roles
    <3>2. CASE wr.dig # ver
      <4>1. m.t # "block" /\ \A i \in 1..Len(toW) : toW[i].t # "block"
        BY <3>1, <3>2
      <4>2. Len(toW) \in Nat /\ Len(toW') = Len(toW) + 1
        BY <1>4 DEF Control, Types
      <4>3. \A i \in 1..Len(toW') : toW'[i].t # "block"
        BY <1>4, <4>1, <4>2
      <4> QED
        BY <3>1, <3>2, <4>3
    <3> QED
      BY <3>2
  <2>2. /\ wr.on => meta = Transfer!None /\ ended = "no"
        /\ wr.pos # Transfer!None => wr.num \in Transfer!Files /\ part[wr.num] # {}
        /\ \A f \in Transfer!Files : dig[f] \in 0..ver
    BY DEF Control, Roles
  <2> QED
    BY <1>1, <2>1, <2>2 DEF Roles
<1>7. Token'
  BY <1>1, <1>4 DEF Control, Token
<1>8. Storage'
  BY <1>1, <1>4 DEF Control, Storage, OfferWas, Transfer!Transferred
<1> QED
  BY <1>1, <1>3, <1>5, <1>6, <1>7, <1>8 DEF Control

LEMMA AnnounceControl ==
  ASSUME Transfer!FilesAssumption, Control, stamp = ver, UNCHANGED upload, Transfer!Announce
  PROVE  /\ Control' /\ wr.on /\ ask = Transfer!None /\ toR = <<>> /\ ~rd.confirmed
         /\ Cur' = Cur /\ rd'.on /\ rd'.num = rd.num /\ ~rd'.confirmed
<1> DEFINE m == [t |-> "digest", f |-> rd.num, v |-> ver, resume |-> rd.resume]
<1>1. /\ rd.on /\ rd.pos = Transfer!None /\ rd.num \in Transfer!Files /\ Transfer!Send(m)
      /\ rd' = [rd EXCEPT !.pos = 0, !.confirmed = FALSE, !.waiting = TRUE]
      /\ UNCHANGED <<upload, ver, wr, strategy, ask, toR, final, part, dig, meta, ended, kept,
                     misplaced, spoilt>>
  BY DEF Transfer!Announce, Transfer!disk, Transfer!rest
<1>2. m \in ToWriter /\ m.t = "digest" /\ m.f = rd.num /\ m.v = ver
  BY <1>1 DEF ToWriter, Digests, Control, Types, Readers
<1> HIDE DEF m
<1>3. /\ rd' \in Readers /\ rd'.on /\ rd'.pos = 0 /\ ~rd'.confirmed /\ rd'.waiting
      /\ rd'.num = rd.num
  BY <1>1, Ranges DEF Control, Types, Readers
<1>4. ~Waiting /\ ~rd.confirmed
  BY <1>1 DEF Control, Waiting, Roles
<1>5. Waiting' /\ Cur' = Cur /\ rd'.pos # Transfer!None
  BY <1>1, <1>3, <1>4 DEF Waiting, RNum, Cur, Transfer!None
<1> QED
  BY <1>1, <1>2, <1>3, <1>4, <1>5, SendControl

LEMMA NextFileIs ==
  ASSUME Transfer!FilesAssumption, rd \in Readers, rd.num \in Transfer!Files
  PROVE  /\ Transfer!NextFile \in Readers /\ Transfer!NextFile.on = rd.on
              /\ Transfer!NextFile.num = rd.num + 1
         /\ Transfer!NextFile.pos = Transfer!None /\ ~Transfer!NextFile.confirmed
              /\ ~Transfer!NextFile.waiting
BY Ranges DEF Transfer!NextFile, Readers

LEMMA ReadBlockControl ==
  ASSUME Transfer!FilesAssumption, Control, UNCHANGED upload, Transfer!ReadBlock
  PROVE  Control' /\ wr.on /\ ask = Transfer!None /\ toR = <<>>
<1>1. /\ rd.on /\ rd.confirmed
      /\ UNCHANGED <<upload, ver, wr, strategy, ask, toR, final, part, dig, meta, ended, kept,
                     misplaced, spoilt>>
  BY DEF Transfer!ReadBlock, Transfer!disk, Transfer!rest
<1>2. rd \in Readers /\ rd.pos \in Nat /\ rd.num \in Transfer!Files /\ rd.waiting /\ ~Waiting
     /\ Cur = rd.num
      /\ ver \in Nat /\ rd.num \in Nat
  BY <1>1, Ranges DEF Control, Roles, Types, Readers, Waiting, Cur
<1>3. CASE rd.pos < Size[rd.num]
  <2> DEFINE m == [t |-> "block", f |-> rd.num, d |-> <<rd.pos + 1>>, v |-> ver]
  <2>1. rd' = [rd EXCEPT !.pos = @ + 1] /\ Transfer!Send(m)
    BY <1>3 DEF Transfer!ReadBlock
  <2>2. m \in ToWriter /\ m.t = "block" /\ m.f = rd.num /\ m.v = ver /\ m.d # <<>>
    BY <1>2 DEF ToWriter, Blocks, Loads
  <2> HIDE DEF m
  <2>3. /\ rd' \in Readers /\ rd'.on /\ rd'.pos = rd.pos + 1 /\ rd'.confirmed /\ rd'.waiting
        /\ rd'.num = rd.num
    <3>1. rd.pos + 1 \in Spots
      BY <1>2, Ranges
    <3> QED
      BY <1>1, <1>2, <2>1, <3>1 DEF Readers
  <2>4. ~Waiting' /\ Cur' = Cur /\ rd'.pos # Transfer!None
    BY <1>2, <2>3 DEF Waiting, Cur, Transfer!None
  <2> QED
    BY <1>1, <1>2, <2>1, <2>2, <2>3, <2>4, SendControl
<1>4. CASE ~(rd.pos < Size[rd.num])
  <2> DEFINE m == [t |-> "block", f |-> rd.num, d |-> <<>>, v |-> ver]
  <2>1. rd' = Transfer!NextFile /\ Transfer!Send(m)
    BY <1>4 DEF Transfer!ReadBlock
  <2>2. m \in ToWriter /\ m.t = "block" /\ m.f = rd.num /\ m.v = ver /\ m.d = <<>>
    BY <1>2 DEF ToWriter, Blocks, Loads
  <2> HIDE DEF m
  <2>3. /\ rd' \in Readers /\ rd'.on /\ rd'.pos = Transfer!None /\ ~rd'.confirmed /\ ~rd'.waiting
        /\ rd'.num = rd.num + 1
    BY <1>1, <1>2, <2>1, NextFileIs
  <2>4. ~Waiting' /\ Cur' = Cur
    BY <1>2, <2>3 DEF Waiting, Cur, RNum
  <2> QED
    BY <1>1, <1>2, <2>1, <2>2, <2>3, <2>4, SendControl
<1> QED
  BY <1>3, <1>4

LEMMA FinishControl ==
  ASSUME Transfer!FilesAssumption, Control, UNCHANGED upload, Transfer!Finish
  PROVE  Control' /\ wr.on /\ ask = Transfer!None /\ toR = <<>>
<1> DEFINE m == [t |-> "done", f |-> rd.num]
<1>1. /\ rd.on /\ rd.pos = Transfer!None /\ rd.num = N /\ Transfer!Send(m)
           /\ rd' = Transfer!NoReader
      /\ UNCHANGED <<upload, ver, wr, strategy, ask, toR, final, part, dig, meta, ended, kept,
                     misplaced, spoilt>>
  BY DEF Transfer!Finish, Transfer!disk, Transfer!rest
<1>2. m \in ToWriter /\ m.t = "done"
  BY <1>1, Ranges DEF ToWriter
<1> HIDE DEF m
<1>3. rd' \in Readers /\ ~rd'.on /\ rd'.pos = Transfer!None /\ ~rd'.confirmed /\ ~rd'.waiting
  BY <1>1, Ranges DEF Transfer!NoReader, Readers
<1>4. ~Waiting /\ ~Waiting' /\ ~rd.confirmed /\ Cur' = Cur
  BY <1>1, <1>3 DEF Control, Waiting, Roles, Cur, RNum
<1> QED
  BY <1>1, <1>2, <1>3, <1>4, SendControl

-----------------------------------------------------------------------------
(* The token goes round. *)

LEMMA ConfirmedReaderIs ==
  ASSUME Transfer!FilesAssumption, rd \in Readers, Roles, Waiting, NEW offset \in Offsets
  PROVE  LET r == Transfer!ConfirmedReader(rd.num, offset) IN
         /\ r \in Readers /\ r.on
         /\ offset = Transfer!Skip => r = Transfer!NextFile
         /\ offset # Transfer!Skip => r.num = rd.num /\ r.confirmed /\ r.waiting
              /\ r.pos = offset /\ offset \in Nat
<1>1. rd.on /\ rd.num \in Transfer!Files /\ rd.pos = 0 /\ rd.waiting
  BY DEF Roles, Waiting
<1>2. CASE offset = Transfer!Skip
  BY <1>1, <1>2, NextFileIs DEF Transfer!ConfirmedReader
<1>3. CASE offset # Transfer!Skip
  <2>1. offset \in Nat /\ offset \in Spots /\ (offset > 0 \/ offset = 0)
    BY <1>3, Ranges
  <2>2. Transfer!ConfirmedReader(rd.num, offset) = [rd EXCEPT !.confirmed = TRUE, !.pos = IF offset > 0 THEN offset ELSE @]
    BY <1>1, <1>3 DEF Transfer!ConfirmedReader
  <2>3. Transfer!ConfirmedReader(rd.num, offset) = [rd EXCEPT !.confirmed = TRUE, !.pos = offset]
    BY <1>1, <2>1, <2>2
  <2> QED
    BY <1>1, <1>3, <2>1, <2>3 DEF Readers
<1> QED
  BY <1>2, <1>3

LEMMA ConfirmedWriterIs ==
  ASSUME Transfer!FilesAssumption, wr \in Writers, NEW f \in Transfer!Files, NEW offset \in Offsets
  PROVE  LET w == Transfer!ConfirmedWriter(f, offset) IN
         /\ w \in Writers /\ w.on = wr.on /\ w.dig = wr.dig
         /\ wr.num # f => w = wr
         /\ wr.num = f /\ offset = Transfer!Skip => w.num = f + 1 /\ w.pos = Transfer!None
         /\ offset # Transfer!Skip => w.num = wr.num
         /\ offset # Transfer!Skip /\ ~(wr.num = f /\ offset > 0 /\ part[f] # {} /\ dig[f] # 0) => w = wr
         /\ wr.num = f /\ offset # Transfer!Skip /\ offset > 0 /\ part[f] # {} /\ dig[f] # 0 =>
              w.pos = offset /\ offset \in Nat
<1>1. f + 1 \in Numbers /\ Transfer!None \in Spots
     /\ (offset # Transfer!Skip => offset \in Nat /\ offset \in Spots)
  BY Ranges
<1> QED
  BY <1>1 DEF Transfer!ConfirmedWriter, Writers

\* A step while the reader waits: it leaves no block on the way.
LEMMA TokenControl ==
  ASSUME Transfer!FilesAssumption, Control, Queue' = <<>>, Types', Token', Storage',
         rd'.pos # Transfer!None => rd'.on /\ rd'.num \in Transfer!Files, rd'.confirmed
              => rd'.pos # Transfer!None,
         rd'.waiting <=> rd'.pos # Transfer!None, Waiting' => rd'.pos = 0,
         wr.on, wr'.on, wr'.dig = ver,
         wr'.pos # Transfer!None => wr'.num \in Transfer!Files /\ part[wr'.num] # {},
         UNCHANGED <<ver, part, dig, meta, ended>>
  PROVE  Control'
<1>1. Roles'
  <2>1. meta = Transfer!None /\ ended = "no" /\ \A f \in Transfer!Files : dig[f] \in 0..ver
    BY DEF Control, Roles
  <2> QED
    BY <2>1 DEF Roles
<1>2. QueueShape'
  BY DEF QueueShape
<1> QED
  BY <1>1, <1>2 DEF Control

\* The digest at the head is the only message there is.
LEMMA DigestAlone ==
  ASSUME Transfer!FilesAssumption, Control, toW # <<>>, Head(toW).t = "digest"
  PROVE  /\ Len(toW) = 1 /\ Tail(toW) = <<>> /\ Waiting /\ ask = Transfer!None /\ toR = <<>>
         /\ Head(toW) \in ToWriter /\ Head(toW).f = rd.num /\ Head(toW).v = ver
         /\ ~HasConfirm /\ Queue = toW /\ Taker = wr
         /\ rd.on /\ wr.on /\ rd.num \in Transfer!Files
<1>1. Head(toW) = toW[1] /\ toW[1] \in ToWriter /\ Len(toW) \in Nat \ {0}
     /\ (Len(toW) = 1 => Tail(toW) = <<>>)
  BY Heads DEF Control, Types
<1>2. ~HasConfirm /\ Queue = toW /\ Taker = wr
  BY <1>1 DEF HasConfirm, Queue, Taker
<1>3. ShapeAt(toW, 1)
  BY <1>1, <1>2 DEF Control, QueueShape
<1>4. Len(toW) = 1 /\ Waits /\ toW[1].f = rd.num /\ toW[1].v = ver
  BY <1>1, <1>3 DEF ShapeAt
<1> QED
  BY <1>1, <1>2, <1>4 DEF Waits, Control, Roles, Waiting

\* What is on its way to the reader.
LEMMA TokenAlone ==
  ASSUME Transfer!FilesAssumption, Control, toR # <<>>
  PROVE  /\ Len(toR) = 1 /\ Tail(toR) = <<>> /\ Waiting /\ ask = Transfer!None /\ toW = <<>>
         /\ Head(toR) = toR[1] /\ toR[1] \in ToReader /\ toR[1].f = rd.num
         /\ toR[1].t = "ask" => upload
         /\ upload /\ toR[1].t = "confirm" => toR[1].off = 0
         /\ rd.on /\ wr.on /\ rd.num \in Transfer!Files /\ wr.dig = ver
<1>1. Head(toR) = toR[1] /\ toR[1] \in ToReader /\ Len(toR) \in Nat \ {0}
     /\ (Len(toR) = 1 => Tail(toR) = <<>>)
  BY Heads DEF Control, Types
<1> QED
  BY <1>1 DEF Control, Token, Roles, Waiting

LEMMA AskAlone ==
  ASSUME Transfer!FilesAssumption, Control, ask # Transfer!None
  PROVE  /\ Waiting /\ toW = <<>> /\ toR = <<>> /\ ask = rd.num
         /\ rd.on /\ wr.on /\ rd.num \in Transfer!Files /\ wr.dig = ver
BY DEF Control, Token, Roles, Waiting

LEMMA DecisionIs ==
  ASSUME NEW f, NEW n \in Nat, strategy \in {"ask", "yes", "no"}
  PROVE  \A offset \in Transfer!Decision(f, n) : offset \in Offsets
       /\ (offset = n \/ offset = 0 \/ offset = Transfer!Skip)
                                    /\ (n > 0 => offset = n)
BY DEF Transfer!Decision, Offsets

LEMMA AppendOne == ASSUME NEW m PROVE Append(<<>>, m) = <<m>>
OBVIOUS

LEMMA TransferredIs ==
  ASSUME part \in [Transfer!Files -> Contents], NEW f \in Transfer!Files, part[f] # {}
  PROVE  /\ Transfer!Transferred(f) \in Nat /\ (CHOOSE s \in part[f] : TRUE) \in part[f]
         /\ \A s \in part[f] : s \in Seq(Pairs)
BY DEF Transfer!Transferred, Contents

\* What of the part of f is taken over.
Sofar(f, v, resume) == IF Transfer!IsResumable(f, v, resume) THEN Transfer!Transferred(f) ELSE 0

LEMMA SofarIs ==
  ASSUME part \in [Transfer!Files -> Contents], NEW f \in Transfer!Files, NEW v, NEW b
  PROVE  /\ Sofar(f, v, b) \in Nat
         /\ Sofar(f, v, b) > 0 => part[f] # {} /\ dig[f] = v
              /\ Sofar(f, v, b) = Transfer!Transferred(f)
<1>1. Transfer!IsResumable(f, v, b) => part[f] # {} /\ dig[f] = v
  BY DEF Transfer!IsResumable
<1> QED
  BY <1>1, TransferredIs DEF Sofar

\* A confirmed offset is the end of the part.
LEMMA ConfirmedFits ==
  ASSUME Transfer!FilesAssumption, Control, NEW f \in Transfer!Files, NEW offset \in Offsets,
       OfferWas(f, offset)
  PROVE  LET w == Transfer!ConfirmedWriter(f, offset) IN
         w.pos # Transfer!None => w.num \in Transfer!Files /\ part[w.num] # {}
              /\ \A s \in part[w.num] : Len(s) = w.pos
<1> DEFINE w == Transfer!ConfirmedWriter(f, offset)
<1>1. wr.pos # Transfer!None => wr.num \in Transfer!Files /\ part[wr.num] # {}
     /\ \A s \in part[wr.num] : Len(s) = wr.pos
  BY DEF Control, Roles, Storage
<1>2. wr \in Writers
  BY DEF Control, Types
<1>3. CASE w = wr
  BY <1>1, <1>3
<1>4. CASE wr.num = f /\ offset = Transfer!Skip
  BY <1>2, <1>4, ConfirmedWriterIs
<1>5. CASE wr.num = f /\ offset # Transfer!Skip /\ offset > 0 /\ part[f] # {} /\ dig[f] # 0
  <2>1. w.num = f /\ w.pos = offset
    BY <1>2, <1>5, ConfirmedWriterIs
  <2>2. offset = Transfer!Transferred(f) /\ \A s \in part[f] : part[f] = {s}
    BY <1>5 DEF Control, Storage, OfferWas
  <2> QED
    BY <1>5, <2>1, <2>2 DEF Transfer!Transferred
<1> QED
  BY <1>2, <1>3, <1>4, <1>5, ConfirmedWriterIs

LEMMA KeptOn == ASSUME IsOn(kept), NEW f \in Transfer!Files, NEW offset, Transfer!Kept(f, offset) PROVE IsOn(kept')
BY DEF IsOn, Transfer!Kept

\* The answers there may be, and how far the part goes for each.
OfferOf(offset) == offset > 0 => part[rd.num] # {} /\ dig[rd.num] = ver
     /\ offset = Transfer!Transferred(rd.num)

LEMMA OnDigestIs ==
  ASSUME Transfer!FilesAssumption, Control, UNCHANGED upload, Transfer!OnDigest
  PROVE  /\ ~upload /\ Waiting /\ ask = Transfer!None /\ toR = <<>> /\ rd.on /\ wr.on
              /\ rd.num \in Transfer!Files
         /\ ~HasConfirm /\ Taker = wr /\ ~Blocked /\ toW' = <<>>
         /\ UNCHANGED <<upload, ver, rd, strategy, final, part, dig, meta, ended, misplaced, spoilt>>
         /\ \/ ask' = rd.num /\ wr' = [wr EXCEPT !.dig = ver] /\ UNCHANGED <<toR, kept>>
            \/ \E offset \in Offsets : /\ OfferOf(offset)
                                       /\ wr' = [Transfer!ConfirmedWriter(rd.num, offset) EXCEPT !.dig = ver]
                                       /\ toR' = <<[t |-> "confirm", f |-> rd.num, off |-> offset]>>
                                       /\ Transfer!Kept(rd.num, offset) /\ UNCHANGED ask
<1> DEFINE f == rd.num
           m == Head(toW)
           sofar == Sofar(m.f, m.v, wr.resume)
           d == IF sofar > 0 \/ Transfer!Exists(m.f) THEN Transfer!Decision(m.f, sofar) ELSE {0}
<1>1. /\ Len(toW) = 1 /\ Tail(toW) = <<>> /\ Waiting /\ ask = Transfer!None /\ toR = <<>>
      /\ m \in ToWriter /\ m.f = f /\ m.v = ver /\ rd.on /\ wr.on /\ f \in Transfer!Files
      /\ ~HasConfirm /\ Queue = toW /\ Taker = wr
  BY DigestAlone DEF Transfer!OnDigest
<1>2. /\ ~upload /\ toW' = <<>>
      /\ UNCHANGED <<upload, ver, rd, strategy, final, part, dig, meta, ended, misplaced, spoilt>>
  BY <1>1 DEF Transfer!OnDigest, Transfer!disk
<1>3. IF d = {} THEN ask' = m.f /\ wr' = [wr EXCEPT !.dig = m.v] /\ UNCHANGED <<toR, kept>>
      ELSE \E offset \in d : /\ wr' = [Transfer!ConfirmedWriter(m.f, offset) EXCEPT !.dig = m.v]
                             /\ toR' = Append(toR, [t |-> "confirm", f |-> m.f, off |-> offset])
                             /\ Transfer!Kept(m.f, offset) /\ UNCHANGED ask
  BY DEF Transfer!OnDigest, Sofar
<1>4. ~Blocked
  <2>1. toW[1].t = "digest"
    BY <1>1, Heads DEF Transfer!OnDigest, Control, Types
  <2> QED
    BY <1>1, <2>1 DEF Blocked
<1> HIDE DEF d, sofar, m
<1>5. part \in [Transfer!Files -> Contents] /\ strategy \in {"ask", "yes", "no"}
  BY DEF Control, Types
<1>6. sofar \in Nat /\ (sofar > 0 => part[f] # {} /\ dig[f] = ver /\ sofar = Transfer!Transferred(f))
  BY <1>1, <1>5, SofarIs DEF sofar
<1>7. CASE d = {}
  BY <1>1, <1>2, <1>3, <1>4, <1>7
<1>8. CASE d # {}
  <2>1. PICK offset \in d : /\ wr' = [Transfer!ConfirmedWriter(f, offset) EXCEPT !.dig = ver]
                            /\ toR' = <<[t |-> "confirm", f |-> f, off |-> offset]>>
                            /\ Transfer!Kept(f, offset) /\ UNCHANGED ask
    BY <1>1, <1>3, <1>8
  <2>2. offset \in Offsets /\ (offset = 0 \/ offset = Transfer!Skip \/ (offset = sofar /\ offset > 0))
    BY <1>5, <1>6, DecisionIs DEF d, Offsets
  <2>3. OfferOf(offset)
    BY <1>6, <2>2 DEF OfferOf, Transfer!Skip
  <2> QED
    BY <1>1, <1>2, <1>4, <2>1, <2>2, <2>3
<1> QED
  BY <1>7, <1>8

\* The writer's side has decided, and the answer goes to the reader.
LEMMA DecidedControl ==
  ASSUME Transfer!FilesAssumption, Control, ~upload, Waiting, rd.on, wr.on,
       rd.num \in Transfer!Files,
         NEW offset \in Offsets, OfferOf(offset),
         wr' \in Writers, wr'.on, wr'.dig = ver,
         wr'.num = Transfer!ConfirmedWriter(rd.num, offset).num,
              wr'.pos = Transfer!ConfirmedWriter(rd.num, offset).pos,
         toR' = <<[t |-> "confirm", f |-> rd.num, off |-> offset]>>, toW' = <<>>,
              ask' = Transfer!None,
         Transfer!Kept(rd.num, offset), strategy' \in {"ask", "yes", "no"},
         UNCHANGED <<upload, ver, rd, final, part, dig, meta, ended, misplaced, spoilt>>
  PROVE  Control'
<1>1. wr'.pos # Transfer!None => wr'.num \in Transfer!Files /\ part[wr'.num] # {}
     /\ \A s \in part[wr'.num] : Len(s) = wr'.pos
  <2>1. OfferWas(rd.num, offset)
    BY DEF OfferWas, OfferOf
  <2> QED
    BY <2>1, ConfirmedFits
<1>2. toR' \in Seq(ToReader) /\ toR' # <<>> /\ Len(toR') = 1 /\ toR'[1].t = "confirm"
     /\ toR'[1].f = rd.num
  BY DEF ToReader, Confirms
<1>3. ~HasConfirm' /\ Queue' = <<>>
  BY DEF HasConfirm, Queue
<1>4. Types'
  <2>1. IsOn(kept')
    BY KeptOn DEF Control, Types
  <2>2. IsOn(final')
    BY DEF Control, Types, IsOn
  <2> QED
    BY <1>2, <2>1, <2>2 DEF Control, Types
<1>5. Token'
  BY <1>2, <1>3 DEF Token, Waiting
<1>6. Storage'
  BY <1>1, <1>2, <1>3 DEF Control, Storage
<1> QED
  BY <1>1, <1>3, <1>4, <1>5, <1>6, TokenControl DEF Control, Roles, Waiting

LEMMA OnDigestControl ==
  ASSUME Transfer!FilesAssumption, Control, UNCHANGED upload, Transfer!OnDigest PROVE Control'
<1>1. /\ ~upload /\ Waiting /\ ask = Transfer!None /\ toR = <<>> /\ rd.on /\ wr.on
           /\ rd.num \in Transfer!Files
      /\ toW' = <<>>
      /\ UNCHANGED <<upload, ver, rd, strategy, final, part, dig, meta, ended, misplaced, spoilt>>
  BY OnDigestIs
<1>2. wr \in Writers /\ ver \in Nat /\ strategy \in {"ask", "yes", "no"}
  BY DEF Control, Types
<1>3. CASE ask' = rd.num /\ wr' = [wr EXCEPT !.dig = ver] /\ UNCHANGED <<toR, kept>>
  <2>1. wr' \in Writers /\ wr'.on = wr.on /\ wr'.dig = ver /\ wr'.pos = wr.pos /\ wr'.num = wr.num
    BY <1>2, <1>3 DEF Writers
  <2>2. ~HasConfirm' /\ Queue' = <<>>
    BY <1>1 DEF HasConfirm, Queue
  <2>3. Types'
    BY <1>1, <1>3, <2>1 DEF Control, Types, IsOn
  <2>4. Token'
    BY <1>1, <1>3, <2>2, Ranges DEF Token, Waiting
  <2>5. Storage'
    BY <1>1, <1>3, <2>1, <2>2 DEF Control, Storage
  <2> QED
    BY <1>1, <2>1, <2>2, <2>3, <2>4, <2>5, TokenControl DEF Control, Roles, Waiting
<1>4. ASSUME NEW offset \in Offsets, OfferOf(offset),
             wr' = [Transfer!ConfirmedWriter(rd.num, offset) EXCEPT !.dig = ver],
             toR' = <<[t |-> "confirm", f |-> rd.num, off |-> offset]>>,
             Transfer!Kept(rd.num, offset), UNCHANGED ask
      PROVE  Control'
  <2>1. Transfer!ConfirmedWriter(rd.num, offset) \in Writers
       /\ Transfer!ConfirmedWriter(rd.num, offset).on
    BY <1>1, <1>2, <1>4, ConfirmedWriterIs
  <2>2. /\ wr' \in Writers /\ wr'.on /\ wr'.dig = ver
             /\ wr'.num = Transfer!ConfirmedWriter(rd.num, offset).num
        /\ wr'.pos = Transfer!ConfirmedWriter(rd.num, offset).pos
    BY <1>2, <1>4, <2>1 DEF Writers
  <2> QED
    BY <1>1, <1>2, <1>4, <2>2, DecidedControl
<1> QED
  BY <1>3, <1>4, OnDigestIs

LEMMA OnCheckDigestIs ==
  ASSUME Transfer!FilesAssumption, Control, UNCHANGED upload, Transfer!OnCheckDigest
  PROVE  /\ upload /\ Waiting /\ ask = Transfer!None /\ toR = <<>> /\ rd.on /\ wr.on
              /\ rd.num \in Transfer!Files
         /\ ~HasConfirm /\ Taker = wr /\ ~Blocked /\ toW' = <<>>
         /\ wr' \in Writers /\ wr'.on /\ wr'.dig = ver /\ wr'.pos = wr.pos /\ wr'.num = wr.num
         /\ UNCHANGED <<upload, ver, rd, strategy, ask, final, part, dig, meta, ended, kept, misplaced, spoilt>>
         /\ toR' \in Seq(ToReader) /\ toR' # <<>> /\ Len(toR') = 1 /\ toR'[1].f = rd.num
         /\ toR'[1].t = "confirm" => toR'[1].off = 0
         /\ toR'[1].off \in Nat /\ OfferOf(toR'[1].off)
<1> DEFINE f == rd.num
           m == Head(toW)
           sofar == Sofar(m.f, m.v, m.resume)
           a == IF sofar > 0 \/ Transfer!Exists(m.f) THEN [t |-> "ask", f |-> m.f, off |-> sofar]
                                           ELSE [t |-> "confirm", f |-> m.f, off |-> 0]
<1>1. /\ Len(toW) = 1 /\ Tail(toW) = <<>> /\ Waiting /\ ask = Transfer!None /\ toR = <<>>
      /\ m \in ToWriter /\ m.f = f /\ m.v = ver /\ rd.on /\ wr.on /\ f \in Transfer!Files
      /\ ~HasConfirm /\ Queue = toW /\ Taker = wr
  BY DigestAlone DEF Transfer!OnCheckDigest
<1>2. /\ upload /\ toW' = <<>> /\ toR' = Append(toR, a)
      /\ UNCHANGED <<upload, ver, rd, strategy, ask, final, part, dig, meta, ended, kept, misplaced, spoilt>>
  BY <1>1 DEF Transfer!OnCheckDigest, Transfer!disk, Transfer!rest, Sofar
<1>3. wr' = [wr EXCEPT !.dig = ver]
  BY <1>1 DEF Transfer!OnCheckDigest
<1>4. ~Blocked
  <2>1. toW[1].t = "digest"
    BY <1>1, Heads DEF Transfer!OnCheckDigest, Control, Types
  <2> QED
    BY <1>1, <2>1 DEF Blocked
<1> HIDE DEF sofar, m
<1>5. wr \in Writers /\ part \in [Transfer!Files -> Contents] /\ ver \in Nat
  BY DEF Control, Types
<1>6. sofar \in Nat /\ (sofar > 0 => part[f] # {} /\ dig[f] = ver /\ sofar = Transfer!Transferred(f))
  BY <1>1, <1>5, SofarIs DEF sofar
<1>7. /\ a \in ToReader /\ a.f = f /\ (a.t = "confirm" => a.off = 0)
      /\ (a.off = sofar \/ a.off = 0)
  BY <1>1, <1>6, Ranges DEF ToReader, Confirms, Asks
<1> HIDE DEF a
<1>8. toR' \in Seq(ToReader) /\ toR' # <<>> /\ Len(toR') = 1 /\ toR'[1] = a
  BY <1>1, <1>2, <1>7
<1>9. wr' \in Writers /\ wr'.on /\ wr'.dig = ver /\ wr'.pos = wr.pos /\ wr'.num = wr.num
  BY <1>1, <1>3, <1>5 DEF Writers
<1>10. toR'[1].off \in Nat /\ OfferOf(toR'[1].off)
  BY <1>6, <1>7, <1>8 DEF OfferOf
<1> QED
  BY <1>1, <1>2, <1>4, <1>7, <1>8, <1>9, <1>10

LEMMA OnCheckDigestControl ==
  ASSUME Transfer!FilesAssumption, Control, UNCHANGED upload, Transfer!OnCheckDigest PROVE Control'
<1>1. /\ upload /\ Waiting /\ ask = Transfer!None /\ toR = <<>> /\ rd.on /\ wr.on
           /\ rd.num \in Transfer!Files /\ toW' = <<>>
      /\ wr' \in Writers /\ wr'.on /\ wr'.dig = ver /\ wr'.pos = wr.pos /\ wr'.num = wr.num
      /\ UNCHANGED <<upload, ver, rd, strategy, ask, final, part, dig, meta, ended, kept, misplaced, spoilt>>
      /\ toR' \in Seq(ToReader) /\ toR' # <<>> /\ Len(toR') = 1 /\ toR'[1].f = rd.num
      /\ toR'[1].t = "confirm" => toR'[1].off = 0
      /\ OfferOf(toR'[1].off)
  BY OnCheckDigestIs
<1>2. ~HasConfirm' /\ Queue' = <<>>
  BY <1>1 DEF HasConfirm, Queue
<1>3. Types'
  BY <1>1 DEF Control, Types, IsOn
<1>4. Token'
  BY <1>1, <1>2 DEF Token, Waiting
<1>5. Storage'
  BY <1>1, <1>2 DEF Control, Storage, OfferWas, OfferOf, Transfer!Transferred
<1> QED
  BY <1>1, <1>2, <1>3, <1>4, <1>5, TokenControl DEF Control, Roles, Waiting

\* What becomes of the reader when the answer for its file is there.
LEMMA AnsweredReader ==
  ASSUME Transfer!FilesAssumption, Control, Waiting, NEW offset \in Offsets,
         rd' = Transfer!ConfirmedReader(rd.num, offset)
  PROVE  /\ rd' \in Readers /\ rd'.on /\ ~Waiting' /\ (rd'.waiting <=> rd'.pos # Transfer!None)
         /\ (rd'.pos # Transfer!None => rd'.num \in Transfer!Files)
              /\ (rd'.confirmed => rd'.pos # Transfer!None)
         /\ offset = Transfer!Skip => rd'.num = rd.num + 1 /\ rd'.pos = Transfer!None
              /\ ~rd'.confirmed
         /\ offset # Transfer!Skip => rd'.num = rd.num /\ rd'.pos = offset /\ offset \in Nat
              /\ rd'.confirmed
<1>1. rd \in Readers /\ Roles /\ rd.num \in Transfer!Files
  BY DEF Control, Types, Roles, Waiting
<1>2. CASE offset = Transfer!Skip
  <2>1. rd' = Transfer!NextFile
    BY <1>1, <1>2, ConfirmedReaderIs
  <2> QED
    BY <1>1, <1>2, <2>1, NextFileIs, ConfirmedReaderIs DEF Waiting
<1>3. CASE offset # Transfer!Skip
  <2>1. /\ rd' \in Readers /\ rd'.on /\ rd'.num = rd.num /\ rd'.confirmed /\ rd'.waiting
        /\ rd'.pos = offset /\ offset \in Nat
    BY <1>1, <1>3, ConfirmedReaderIs
  <2> QED
    BY <1>1, <1>3, <2>1, Ranges DEF Waiting
<1> QED
  BY <1>2, <1>3

LEMMA OnAskIs ==
  ASSUME Transfer!FilesAssumption, Control, UNCHANGED upload, Transfer!OnAsk
  PROVE  /\ toR # <<>> /\ toR[1].t = "ask" /\ toR[1].off \in Nat /\ toR[1].f = rd.num
         /\ Waiting /\ ask = Transfer!None /\ toW = <<>> /\ upload /\ rd.on /\ wr.on
              /\ rd.num \in Transfer!Files /\ wr.dig = ver
         /\ ~HasConfirm /\ Taker = wr /\ ~Blocked /\ toR' = <<>>
         /\ UNCHANGED <<upload, ver, wr, strategy, final, part, dig, meta, ended, misplaced, spoilt>>
         /\ \/ ask' = rd.num /\ UNCHANGED <<rd, toW, kept>>
            \/ \E offset \in Offsets :
                 /\ offset = 0 \/ offset = Transfer!Skip \/ offset = toR[1].off
                 /\ rd' = Transfer!ConfirmedReader(rd.num, offset)
                 /\ toW' = <<[t |-> "confirm", f |-> rd.num, off |-> offset]>>
                 /\ Transfer!Kept(rd.num, offset) /\ UNCHANGED ask
<1> DEFINE f == rd.num
           m == Head(toR)
           d == Transfer!Decision(m.f, m.off)
<1>1. /\ Tail(toR) = <<>> /\ Waiting /\ ask = Transfer!None /\ toW = <<>> /\ m = toR[1]
           /\ m \in ToReader
      /\ m.f = f /\ m.t = "ask" /\ upload /\ rd.on /\ wr.on /\ f \in Transfer!Files /\ wr.dig = ver
      /\ toR # <<>>
  BY TokenAlone DEF Transfer!OnAsk
<1>2. /\ toR' = <<>>
      /\ UNCHANGED <<upload, ver, wr, strategy, final, part, dig, meta, ended, misplaced, spoilt>>
  BY <1>1 DEF Transfer!OnAsk, Transfer!disk
<1>3. IF d = {} THEN ask' = m.f /\ UNCHANGED <<rd, toW, kept>>
      ELSE \E offset \in d : /\ rd' = Transfer!ConfirmedReader(m.f, offset)
                             /\ Transfer!Send([t |-> "confirm", f |-> m.f, off |-> offset])
                             /\ Transfer!Kept(m.f, offset) /\ UNCHANGED ask
  BY DEF Transfer!OnAsk
<1> HIDE DEF d, m
<1>4. strategy \in {"ask", "yes", "no"} /\ m.off \in Nat
  BY <1>1, Kinds DEF Control, Types
<1>5. ~HasConfirm /\ Taker = wr /\ ~Blocked
  BY <1>1 DEF HasConfirm, Taker, Blocked, Queue
<1>6. CASE d = {}
  BY <1>1, <1>2, <1>3, <1>4, <1>5, <1>6
<1>7. CASE d # {}
  <2>1. PICK offset \in d : /\ rd' = Transfer!ConfirmedReader(f, offset)
                            /\ Transfer!Send([t |-> "confirm", f |-> f, off |-> offset])
                            /\ Transfer!Kept(f, offset) /\ UNCHANGED ask
    BY <1>1, <1>3, <1>7
  <2>2. offset \in Offsets /\ (offset = 0 \/ offset = Transfer!Skip \/ offset = m.off)
    BY <1>4, DecisionIs DEF d
  <2>3. toW' = <<[t |-> "confirm", f |-> f, off |-> offset]>>
    BY <1>1, <2>1 DEF Transfer!Send
  <2> QED
    BY <1>1, <1>2, <1>4, <1>5, <2>1, <2>2, <2>3
<1> QED
  BY <1>6, <1>7

\* The confirmation is the only message to the writer.
LEMMA ConfirmSent ==
  ASSUME NEW offset \in Offsets, rd.num \in Transfer!Files, toW' = <<[t |-> "confirm", f |-> rd.num, off |-> offset]>>,
         UNCHANGED <<wr, part, dig>>
  PROVE  /\ toW' \in Seq(ToWriter) /\ toW' # <<>> /\ Len(toW') = 1
         /\ toW'[1].f = rd.num /\ toW'[1].off = offset
         /\ HasConfirm' /\ Queue' = <<>> /\ Taker' = Transfer!ConfirmedWriter(rd.num, offset)
<1> DEFINE c == [t |-> "confirm", f |-> rd.num, off |-> offset]
<1>1. c \in ToWriter /\ c.t = "confirm" /\ c.f = rd.num /\ c.off = offset
  BY DEF ToWriter, Confirms
<1>2. toW' = <<c>>
  OBVIOUS
<1> HIDE DEF c
<1>3. toW' \in Seq(ToWriter) /\ toW' # <<>> /\ Len(toW') = 1 /\ toW'[1] = c /\ Tail(toW') = <<>>
  BY <1>1, <1>2
<1>4. HasConfirm' /\ Queue' = <<>>
  BY <1>1, <1>3 DEF HasConfirm, Queue
<1>5. Taker' = Transfer!ConfirmedWriter(rd.num, offset)
  BY <1>1, <1>3, <1>4 DEF Taker, Transfer!ConfirmedWriter
<1> QED
  BY <1>1, <1>3, <1>4, <1>5

LEMMA OnAskControl ==
  ASSUME Transfer!FilesAssumption, Control, UNCHANGED upload, Transfer!OnAsk PROVE Control'
<1>1. /\ toR # <<>> /\ toR[1].t = "ask" /\ toR[1].off \in Nat /\ toR[1].f = rd.num
      /\ Waiting /\ ask = Transfer!None /\ toW = <<>> /\ upload /\ rd.on /\ wr.on
           /\ rd.num \in Transfer!Files /\ wr.dig = ver
      /\ toR' = <<>>
      /\ UNCHANGED <<upload, ver, wr, strategy, final, part, dig, meta, ended, misplaced, spoilt>>
  BY OnAskIs
<1>2. wr.pos # Transfer!None => wr.num \in Transfer!Files /\ part[wr.num] # {}
  BY DEF Control, Roles
<1>3. CASE ask' = rd.num /\ UNCHANGED <<rd, toW, kept>>
  <2>1. ~HasConfirm' /\ Queue' = <<>>
    BY <1>1, <1>3 DEF HasConfirm, Queue
  <2>2. Types'
    BY <1>1, <1>3 DEF Control, Types, IsOn
  <2>3. Token'
    BY <1>1, <1>3, <2>1, Ranges DEF Token, Waiting
  <2>4. Storage'
    BY <1>1, <2>1 DEF Control, Storage
  <2> QED
    BY <1>1, <1>2, <1>3, <2>1, <2>2, <2>3, <2>4, TokenControl DEF Control, Roles, Waiting
<1>4. ASSUME NEW offset \in Offsets, offset = 0 \/ offset = Transfer!Skip \/ offset = toR[1].off,
             rd' = Transfer!ConfirmedReader(rd.num, offset),
             toW' = <<[t |-> "confirm", f |-> rd.num, off |-> offset]>>,
             Transfer!Kept(rd.num, offset), UNCHANGED ask
      PROVE  Control'
  <2>1. /\ toW' \in Seq(ToWriter) /\ toW' # <<>> /\ Len(toW') = 1
        /\ toW'[1].f = rd.num /\ toW'[1].off = offset /\ HasConfirm' /\ Queue' = <<>>
    BY <1>1, <1>4, ConfirmSent
  <2>2. /\ rd' \in Readers /\ rd'.on /\ ~Waiting' /\ (rd'.waiting <=> rd'.pos # Transfer!None)
        /\ (rd'.pos # Transfer!None => rd'.num \in Transfer!Files)
             /\ (rd'.confirmed => rd'.pos # Transfer!None)
    BY <1>1, <1>4, AnsweredReader
  <2>3. Types'
    <3>1. IsOn(kept')
      BY <1>1, <1>4, KeptOn DEF Control, Types
    <3>2. IsOn(final')
      BY <1>1 DEF Control, Types, IsOn
    <3> QED
      BY <1>1, <1>4, <2>1, <2>2, <3>1, <3>2 DEF Control, Types
  <2>4. Token'
    BY <1>1, <1>4, <2>1, <2>2 DEF Token
  <2>5. Storage'
    <3>1. OfferWas(rd.num, offset)
      BY <1>1, <1>4 DEF OfferWas, Transfer!Skip, Control, Storage
    <3> QED
      BY <1>1, <2>1, <3>1 DEF Control, Storage, OfferWas, Transfer!Transferred
  <2> QED
    BY <1>1, <1>2, <2>1, <2>2, <2>3, <2>4, <2>5, TokenControl
<1> QED
  BY <1>3, <1>4, OnAskIs

LEMMA AnswerIs ==
  ASSUME Transfer!FilesAssumption, Control, UNCHANGED upload, Transfer!Answer
  PROVE  /\ Waiting /\ toW = <<>> /\ toR = <<>> /\ rd.on /\ wr.on /\ rd.num \in Transfer!Files
              /\ wr.dig = ver
         /\ ~HasConfirm /\ Taker = wr /\ ~Blocked /\ ask' = Transfer!None /\ toW' = <<>>
         /\ strategy' \in {"ask", "yes", "no"}
         /\ UNCHANGED <<upload, ver, final, part, dig, meta, ended, misplaced, spoilt>>
         /\ \E offset \in {0, Transfer!Skip} :
              /\ Transfer!Kept(rd.num, offset)
              /\ IF upload THEN rd' = Transfer!ConfirmedReader(rd.num, offset)
                   /\ UNCHANGED <<wr, toR>>
                 ELSE /\ wr' = Transfer!ConfirmedWriter(rd.num, offset) /\ UNCHANGED rd
                      /\ toR' = <<[t |-> "confirm", f |-> rd.num, off |-> offset]>>
<1>1. /\ Waiting /\ toW = <<>> /\ toR = <<>> /\ ask = rd.num /\ ask # Transfer!None
      /\ rd.on /\ wr.on /\ rd.num \in Transfer!Files /\ wr.dig = ver
  BY AskAlone DEF Transfer!Answer
<1>2. /\ ask' = Transfer!None /\ toW' = <<>>
      /\ UNCHANGED <<upload, ver, final, part, dig, meta, ended, misplaced, spoilt>>
  BY <1>1 DEF Transfer!Answer, Transfer!disk
<1>3. PICK offset \in {0, Transfer!Skip}, remember \in BOOLEAN :
          /\ strategy' = IF ~remember THEN strategy ELSE IF offset = Transfer!Skip THEN "no" ELSE "yes"
          /\ Transfer!Kept(rd.num, offset)
          /\ IF upload
               THEN rd' = Transfer!ConfirmedReader(rd.num, offset) /\ UNCHANGED <<wr, toR>>
               ELSE /\ wr' = Transfer!ConfirmedWriter(rd.num, offset)
                    /\ toR' = Append(toR, [t |-> "confirm", f |-> rd.num, off |-> offset])
                    /\ UNCHANGED rd
  BY <1>1 DEF Transfer!Answer
<1>4. strategy' \in {"ask", "yes", "no"}
  BY <1>3 DEF Control, Types
<1>5. ~HasConfirm /\ Taker = wr /\ ~Blocked
  BY <1>1 DEF HasConfirm, Taker, Blocked, Queue
<1>6. ~upload => toR' = <<[t |-> "confirm", f |-> rd.num, off |-> offset]>>
  BY <1>1, <1>3
<1> QED
  BY <1>1, <1>2, <1>3, <1>4, <1>5, <1>6

LEMMA AnswerControl ==
  ASSUME Transfer!FilesAssumption, Control, UNCHANGED upload, Transfer!Answer PROVE Control'
<1>1. /\ Waiting /\ toW = <<>> /\ toR = <<>> /\ rd.on /\ wr.on /\ rd.num \in Transfer!Files
           /\ wr.dig = ver
      /\ ask' = Transfer!None /\ toW' = <<>> /\ strategy' \in {"ask", "yes", "no"}
      /\ UNCHANGED <<upload, ver, final, part, dig, meta, ended, misplaced, spoilt>>
  BY AnswerIs
<1>2. PICK offset \in {0, Transfer!Skip} :
              /\ Transfer!Kept(rd.num, offset)
              /\ IF upload THEN rd' = Transfer!ConfirmedReader(rd.num, offset)
                   /\ UNCHANGED <<wr, toR>>
                 ELSE /\ wr' = Transfer!ConfirmedWriter(rd.num, offset) /\ UNCHANGED rd
                      /\ toR' = <<[t |-> "confirm", f |-> rd.num, off |-> offset]>>
  BY AnswerIs
<1>3. wr \in Writers /\ IsOn(kept)
  BY DEF Control, Types
<1>4. offset \in Offsets /\ OfferOf(offset)
  BY Ranges DEF OfferOf, Transfer!Skip
<1>5. CASE upload
  <2>1. rd' = Transfer!ConfirmedReader(rd.num, offset) /\ wr' = wr /\ toR' = <<>>
    BY <1>1, <1>2, <1>5
  <2>2. /\ rd' \in Readers /\ rd'.on /\ ~Waiting' /\ (rd'.waiting <=> rd'.pos # Transfer!None)
        /\ (rd'.pos # Transfer!None => rd'.num \in Transfer!Files)
             /\ (rd'.confirmed => rd'.pos # Transfer!None)
    BY <1>1, <1>4, <2>1, AnsweredReader
  <2>3. ~HasConfirm' /\ Queue' = <<>>
    BY <1>1 DEF HasConfirm, Queue
  <2>4. Types'
    <3>1. IsOn(kept')
      BY <1>1, <1>2, <1>3, KeptOn
    <3>2. IsOn(final')
      BY <1>1 DEF Control, Types, IsOn
    <3> QED
      BY <1>1, <2>1, <2>2, <3>1, <3>2 DEF Control, Types
  <2>5. Token'
    BY <1>1, <2>1, <2>2, <2>3 DEF Token
  <2>6. Storage'
    BY <1>1, <2>1, <2>3 DEF Control, Storage
  <2>7. wr.pos # Transfer!None => wr.num \in Transfer!Files /\ part[wr.num] # {}
    BY DEF Control, Roles
  <2> QED
    BY <1>1, <2>1, <2>2, <2>3, <2>4, <2>5, <2>6, <2>7, TokenControl
<1>6. CASE ~upload
  <2>1. /\ rd' = rd /\ wr' = Transfer!ConfirmedWriter(rd.num, offset)
             /\ Transfer!Kept(rd.num, offset)
        /\ toR' = <<[t |-> "confirm", f |-> rd.num, off |-> offset]>>
    BY <1>2, <1>6
  <2>2. wr' \in Writers /\ wr'.on /\ wr'.dig = ver
    BY <1>1, <1>3, <1>4, <2>1, ConfirmedWriterIs
  <2> QED
    BY <1>1, <1>4, <1>6, <2>1, <2>2, DecidedControl
<1> QED
  BY <1>5, <1>6

LEMMA OnConfirmReaderControl ==
  ASSUME Transfer!FilesAssumption, Control, UNCHANGED upload, Transfer!OnConfirmReader
       PROVE Control'
<1> DEFINE m == toR[1]
<1>1. /\ Tail(toR) = <<>> /\ Waiting /\ ask = Transfer!None /\ toW = <<>> /\ m = Head(toR)
           /\ m \in ToReader
      /\ m.f = rd.num /\ m.t = "confirm" /\ rd.on /\ wr.on /\ rd.num \in Transfer!Files
           /\ wr.dig = ver
  BY TokenAlone DEF Transfer!OnConfirmReader
<1>2. /\ toR' = <<>> /\ toW' = <<>> /\ rd' = Transfer!ConfirmedReader(rd.num, m.off)
      /\ UNCHANGED <<upload, ver, wr, strategy, ask, final, part, dig, meta, ended, kept, misplaced, spoilt>>
  BY <1>1 DEF Transfer!OnConfirmReader, Transfer!disk, Transfer!rest
<1>3. m.off \in Offsets
  BY <1>1, Kinds
<1>4. /\ rd' \in Readers /\ rd'.on /\ ~Waiting' /\ (rd'.waiting <=> rd'.pos # Transfer!None)
      /\ (rd'.pos # Transfer!None => rd'.num \in Transfer!Files)
           /\ (rd'.confirmed => rd'.pos # Transfer!None)
  BY <1>1, <1>2, <1>3, AnsweredReader
<1>5. ~HasConfirm' /\ Queue' = <<>>
  BY <1>2 DEF HasConfirm, Queue
<1>6. Types'
  BY <1>2, <1>4 DEF Control, Types, IsOn
<1>7. Token'
  BY <1>1, <1>2, <1>4, <1>5 DEF Token
<1>8. Storage'
  BY <1>2, <1>5 DEF Control, Storage
<1>9. wr.pos # Transfer!None => wr.num \in Transfer!Files /\ part[wr.num] # {}
  BY DEF Control, Roles
<1> QED
  BY <1>1, <1>2, <1>4, <1>5, <1>6, <1>7, <1>8, <1>9, TokenControl

LEMMA OnConfirmWriterControl ==
  ASSUME Transfer!FilesAssumption, Control, UNCHANGED upload, Transfer!OnConfirmWriter
  PROVE  /\ Control' /\ HasConfirm /\ wr' = Taker /\ toW' = Queue
         /\ ~HasConfirm' /\ Queue' = Queue /\ Taker' = Taker /\ wr.on
         /\ toW[1] \in ToWriter /\ toW[1].t = "confirm"
<1> DEFINE m == toW[1]
<1>1. /\ m = Head(toW) /\ m.t = "confirm" /\ m \in ToWriter /\ Tail(toW) \in Seq(ToWriter)
           /\ toW # <<>>
      /\ Len(toW) \in Nat \ {0} /\ Len(Tail(toW)) = Len(toW) - 1
      /\ (Tail(toW) # <<>> => Tail(toW)[Len(Tail(toW))] = toW[Len(toW)])
      /\ (Len(toW) = 1 => Tail(toW) = <<>>)
      /\ \A i \in 1..Len(Tail(toW)) : i + 1 \in 1..Len(toW) /\ Tail(toW)[i] = toW[i + 1]
  BY Heads DEF Transfer!OnConfirmWriter, Control, Types
<1>2. /\ HasConfirm /\ Queue = Tail(toW) /\ Taker = Transfer!ConfirmedWriter(m.f, m.off)
           /\ wr.on /\ upload
  BY <1>1 DEF HasConfirm, Queue, Taker, Control, Token, Roles
<1>3. /\ toW' = Tail(toW) /\ wr' = Transfer!ConfirmedWriter(m.f, m.off)
      /\ UNCHANGED <<upload, ver, rd, strategy, ask, toR, final, part, dig, meta, ended, kept, misplaced, spoilt>>
  BY <1>1 DEF Transfer!OnConfirmWriter, Transfer!disk, Transfer!rest
<1>4. m.f \in Transfer!Files /\ m.off \in Offsets /\ wr \in Writers /\ OfferWas(m.f, m.off)
  BY <1>1, <1>2, Kinds DEF Control, Types, Storage
<1>5. wr' \in Writers /\ wr'.on /\ wr'.dig = wr.dig
  BY <1>2, <1>3, <1>4, ConfirmedWriterIs
<1>6. wr'.pos # Transfer!None => wr'.num \in Transfer!Files /\ part[wr'.num] # {}
     /\ \A s \in part[wr'.num] : Len(s) = wr'.pos
  BY <1>3, <1>4, ConfirmedFits
<1>7. ~HasConfirm'
  <2>1. CASE Tail(toW) = <<>>
    BY <1>3, <2>1 DEF HasConfirm
  <2>2. CASE Tail(toW) # <<>>
    <3>1. 1 \in 1..Len(Queue)
      BY <1>1, <1>2, <2>2, EmptySeq
    <3>2. ShapeAt(Queue, 1)
      BY <3>1 DEF Control, QueueShape
    <3> QED
      BY <1>2, <1>3, <3>2 DEF HasConfirm, ShapeAt
  <2> QED
    BY <2>1, <2>2
<1>8. Queue' = Queue /\ Taker' = Taker
  BY <1>2, <1>3, <1>7 DEF Queue, Taker
<1>9. Types'
  BY <1>1, <1>3, <1>5 DEF Control, Types, IsOn
<1>10. Waits' = Waits /\ Cur' = Cur /\ Waiting' = Waiting
  BY <1>3 DEF Waits, Waiting, Cur, RNum
<1>11. QueueShape'
  BY <1>3, <1>8, <1>10 DEF Control, QueueShape, ShapeAt
<1>12. Storage'
  BY <1>3, <1>6, <1>7 DEF Control, Storage, OfferWas, Transfer!Transferred
<1>13. toW[Len(toW)].t # "confirm" => Tail(toW) # <<>> /\ toW'[Len(toW')] = toW[Len(toW)]
  <2>1. CASE Len(toW) = 1
    BY <1>1, <2>1
  <2>2. CASE Len(toW) # 1
    <3>1. Len(Tail(toW)) # 0
      BY <1>1, <2>2
    <3>2. Tail(toW) # <<>>
      <4>1. Len(<<>>) = 0
        OBVIOUS
      <4> QED
        BY <3>1, <4>1, Zenon
    <3> QED
      BY <1>1, <1>3, <3>2
  <2> QED
    BY <2>1, <2>2
<1>14. Token'
  <2>1. ask = Transfer!None /\ toR = <<>>
    BY <1>1 DEF Control, Token
  <2>2. Waiting => toW[Len(toW)].t = "digest"
    BY <2>1 DEF Control, Token
  <2>3. ~rd.on => toW[Len(toW)].t = "done"
    BY <1>2 DEF Control, Token
  <2> QED
    BY <1>3, <1>7, <1>10, <1>13, <2>1, <2>2, <2>3 DEF Token
<1>15. Roles'
  <2>1. wr.dig = ver \/ (wr.dig = 0 /\ ask = Transfer!None /\ toR = <<>> /\ ~rd.confirmed
                         /\ \A i \in 1..Len(toW') : toW'[i].t # "block")
    BY <1>1, <1>3 DEF Control, Roles
  <2> QED
    BY <1>2, <1>3, <1>5, <1>6, <1>10, <2>1 DEF Control, Roles
<1> QED
  BY <1>1, <1>2, <1>3, <1>7, <1>8, <1>9, <1>11, <1>12, <1>14, <1>15 DEF Control
-----------------------------------------------------------------------------
(* The writer takes a block. *)

LEMMA LoadIs ==
  ASSUME NEW d \in Loads
  PROVE  \/ d = <<>> /\ Len(d) = 0
         \/ d # <<>> /\ Len(d) = 1 /\ d[1] \in Nat /\ d = <<d[1]>>
BY DEF Loads

LEMMA PutAtEnd ==
  ASSUME NEW S, NEW s \in Seq(S), NEW b \in S PROVE Transfer!PutAt(s, Len(s), b) = Append(s, b)
<1>1. Len(s) \in Nat
  OBVIOUS
<1>2. SubSeq(s, 1, Len(s)) = s /\ SubSeq(s, Len(s) + 2, Len(s)) = <<>>
  BY <1>1, SubSeqFull, SubSeqEmpty
<1>3. Transfer!PutAt(s, Len(s), b) = (s \o <<b>>) \o <<>>
  BY <1>2 DEF Transfer!PutAt
<1>4. s \o <<b>> = Append(s, b) /\ Append(s, b) \in Seq(S)
  BY AppendIsConcat, AppendProperties
<1> QED
  BY <1>3, <1>4, ConcatEmptySeq

Fresh == toW[1].f # wr.num \/ wr.pos = Transfer!None
Load == toW[1].d
From == IF Fresh THEN 0 ELSE wr.pos
Before == IF Fresh THEN <<>> ELSE CHOOSE x \in part[toW[1].f] : TRUE
After == IF Load = <<>> THEN Before ELSE Append(Before, <<ver, Load[1]>>)

LEMMA BlockIs ==
  ASSUME Transfer!FilesAssumption, Control, Transfer!OnBlock
  PROVE  /\ toW # <<>> /\ Head(toW) = toW[1] /\ toW[1] \in ToWriter /\ toW[1].t = "block" /\ wr.on
         /\ ~HasConfirm /\ Queue = toW /\ Taker = wr
         /\ ~HasConfirm' /\ Queue' = toW' /\ Taker' = wr' /\ toW' = Tail(toW)
         /\ toW' \in Seq(ToWriter) /\ Len(toW) \in Nat \ {0} /\ Len(toW') = Len(toW) - 1
         /\ \A i \in 1..Len(toW') : i + 1 \in 1..Len(toW) /\ toW'[i] = toW[i + 1]
         /\ ShapeAt(toW, 1) /\ toW[1].f = Cur /\ toW[1].v = ver /\ toW[1].f \in Transfer!Files
              /\ Load \in Loads
         /\ ask = Transfer!None /\ toR = <<>> /\ wr.dig = ver /\ ver \in Nat \ {0} /\ wr \in Writers
<1>1. toW # <<>> /\ Head(toW).t = "block" /\ toW' = Tail(toW) /\ wr.on
  BY DEF Transfer!OnBlock
<1>2. /\ ~HasConfirm /\ Queue = toW /\ Taker = wr
      /\ ~HasConfirm' /\ Queue' = Tail(toW) /\ Taker' = wr'
      /\ toW[1] = Head(toW) /\ toW[1] \in ToWriter /\ Tail(toW) \in Seq(ToWriter)
      /\ Len(toW) \in Nat \ {0} /\ Len(Tail(toW)) = Len(toW) - 1
      /\ \A i \in 1..Len(Tail(toW)) : i + 1 \in 1..Len(toW) /\ Tail(toW)[i] = toW[i + 1]
  BY <1>1, ViewTake
<1>3. 1 \in 1..Len(toW) /\ ShapeAt(toW, 1)
  BY <1>2 DEF Control, QueueShape
<1>4. toW[1].f = Cur /\ toW[1].v = ver
  BY <1>1, <1>2, <1>3 DEF ShapeAt
<1>5. toW[1].f \in Transfer!Files /\ Load \in Loads
  BY <1>1, <1>2, Kinds DEF Load
<1>6. ask = Transfer!None /\ toR = <<>>
  BY <1>1 DEF Control, Token
<1>7. wr.dig = ver /\ ver \in Nat \ {0} /\ wr \in Writers
  BY <1>1, <1>2, <1>3 DEF Control, Roles, Types
<1> QED
  BY <1>1, <1>2, <1>3, <1>4, <1>5, <1>6, <1>7

LEMMA BeforeIs ==
  ASSUME Transfer!FilesAssumption, Control, Transfer!OnBlock
  PROVE  /\ Before \in Seq(Pairs) /\ Len(Before) = From /\ From \in Nat
         /\ After \in Seq(Pairs) /\ Len(After) = From + Len(Load) /\ Len(Load) \in 0..1
         /\ (Load # <<>> => Load[1] \in Nat /\ Len(Load) = 1 /\ Transfer!PutAt(Before, From, <<ver, Load[1]>>) = After)
         /\ (Load = <<>> => Len(Load) = 0)
         /\ ~Fresh => part[toW[1].f] = {Before}
<1>1. toW[1].f \in Transfer!Files /\ Load \in Loads /\ ver \in Nat /\ wr \in Writers
  BY BlockIs
<1>2. /\ Before \in Seq(Pairs) /\ Len(Before) = From /\ From \in Nat
      /\ ~Fresh => part[toW[1].f] = {Before}
  <2>1. CASE Fresh
    BY <2>1 DEF Before, From
  <2>2. CASE ~Fresh
    <3>1. wr.pos # Transfer!None /\ wr.num = toW[1].f /\ wr.pos \in Nat
      BY <1>1, <2>2, Ranges DEF Fresh, Writers
    <3>2. part[wr.num] # {} /\ (\A s \in part[wr.num] : Len(s) = wr.pos /\ part[wr.num] = {s})
      BY <1>1, <3>1 DEF Control, Roles, Storage
    <3>3. Before \in part[wr.num] /\ part[wr.num] \subseteq Seq(Pairs)
      BY <1>1, <2>2, <3>1, <3>2 DEF Before, Control, Types, Contents
    <3> QED
      BY <2>2, <3>1, <3>2, <3>3 DEF From
  <2> QED
    BY <2>1, <2>2
<1>3. \/ Load = <<>> /\ Len(Load) = 0
      \/ Load # <<>> /\ Len(Load) = 1 /\ Load[1] \in Nat
  BY <1>1, LoadIs
<1> HIDE DEF Before, From, Load
<1>4. CASE Load = <<>>
  BY <1>2, <1>3, <1>4 DEF After
<1>5. CASE Load # <<>>
  <2>1. <<ver, Load[1]>> \in Pairs
    BY <1>1, <1>3, <1>5 DEF Pairs
  <2>2. After = Append(Before, <<ver, Load[1]>>)
    BY <1>5 DEF After
  <2>3. Transfer!PutAt(Before, From, <<ver, Load[1]>>) = After
    BY <1>2, <2>1, <2>2, PutAtEnd
  <2>4. After \in Seq(Pairs) /\ Len(After) = From + 1
    BY <1>2, <2>1, <2>2, AppendProperties
  <2>5. Len(Load) = 1 /\ Load[1] \in Nat /\ 1 \in 0..1
    BY <1>3, <1>5
  <2> QED
    BY <1>2, <1>5, <2>3, <2>4, <2>5
<1> QED
  BY <1>4, <1>5

LEMMA BlockDoes ==
  ASSUME Transfer!FilesAssumption, Control, Transfer!OnBlock
  PROVE  /\ part' \in [Transfer!Files -> Contents] /\ part'[toW[1].f] = {After}
         /\ \A g \in Transfer!Files : g # toW[1].f => part'[g] = IF Fresh
              /\ g = wr.num THEN {} ELSE part[g]
         /\ dig' \in [Transfer!Files -> Nat]
              /\ dig'[toW[1].f] = IF Fresh THEN ver ELSE dig[toW[1].f]
         /\ \A g \in Transfer!Files : g # toW[1].f => dig'[g] = IF Fresh
              /\ g = wr.num THEN 0 ELSE dig[g]
         /\ final' = IF Fresh THEN Transfer!Renamed(wr.num) ELSE final
         /\ wr' \in Writers /\ wr'.on /\ wr'.dig = ver /\ wr'.num = toW[1].f
         /\ wr'.pos = From + Len(Load) /\ wr'.pos # Transfer!None
         /\ misplaced' = (misplaced \/ (Load # <<>> /\ Load[1] # From + 1))
         /\ UNCHANGED <<ver, rd, strategy, ask, toR, meta, ended, kept, spoilt>>
<1> DEFINE m == Head(toW)
           grown == IF m.d = <<>> THEN Before ELSE Transfer!PutAt(Before, From, <<m.v, m.d[1]>>)
<1>1. m = toW[1] /\ m.f \in Transfer!Files /\ m.v = ver /\ m.d = Load /\ wr.on /\ wr.dig = ver
     /\ wr \in Writers
      /\ ver \in Nat
  BY BlockIs DEF Load
<1>2. /\ final' = IF Fresh THEN Transfer!Renamed(wr.num) ELSE final
      /\ part' = [(IF Fresh THEN Transfer!Unparted(wr.num) ELSE part) EXCEPT ![m.f] = {grown}]
      /\ dig' = IF Fresh THEN [Transfer!Undigested(wr.num) EXCEPT ![m.f] = wr.dig] ELSE dig
      /\ wr' = [wr EXCEPT !.num = m.f, !.pos = From + Len(m.d), !.at = m.f]
      /\ misplaced' = (misplaced \/ (m.d # <<>> /\ m.d[1] # From + 1))
      /\ UNCHANGED <<ver, rd, strategy, ask, toR, meta, ended, kept, spoilt>>
  BY <1>1 DEF Transfer!OnBlock, Fresh, From, Before
<1>3. grown = After /\ After \in Seq(Pairs) /\ From \in Nat /\ Len(Load) \in Nat
  <2>1. /\ After \in Seq(Pairs) /\ From \in Nat /\ Len(Load) \in 0..1
        /\ (Load # <<>> => Transfer!PutAt(Before, From, <<ver, Load[1]>>) = After)
    BY BeforeIs
  <2>2. grown = After
    BY <1>1, <2>1 DEF After
  <2> QED
    BY <2>1, <2>2
<1> HIDE DEF grown, Fresh, From, After, Load, m
<1>4. part \in [Transfer!Files -> Contents] /\ dig \in [Transfer!Files -> Nat]
  BY DEF Control, Types
<1>5. {After} \in Contents /\ {} \in Contents
  BY <1>3 DEF Contents
<1>6. Transfer!Unparted(wr.num) \in [Transfer!Files -> Contents]
     /\ Transfer!Undigested(wr.num) \in [Transfer!Files -> Nat]
      /\ \A g \in Transfer!Files : /\ Transfer!Unparted(wr.num)[g] = IF g = wr.num THEN {} ELSE part[g]
                         /\ Transfer!Undigested(wr.num)[g] = IF g = wr.num THEN 0 ELSE dig[g]
  BY <1>4, <1>5 DEF Transfer!Unparted, Transfer!Undigested
<1>7. /\ part' \in [Transfer!Files -> Contents] /\ part'[m.f] = {After}
      /\ \A g \in Transfer!Files : g # m.f => part'[g] = IF Fresh /\ g = wr.num THEN {} ELSE part[g]
  BY <1>1, <1>2, <1>3, <1>4, <1>5, <1>6
<1>8. /\ dig' \in [Transfer!Files -> Nat] /\ dig'[m.f] = IF Fresh THEN ver ELSE dig[m.f]
      /\ \A g \in Transfer!Files : g # m.f => dig'[g] = IF Fresh /\ g = wr.num THEN 0 ELSE dig[g]
  BY <1>1, <1>2, <1>4, <1>6
<1>9. From + Len(m.d) \in Nat /\ From + Len(m.d) \in Spots /\ From + Len(m.d) # Transfer!None
  BY <1>1, <1>3, Ranges DEF Transfer!None
<1>10. wr' \in Writers /\ wr'.on /\ wr'.dig = ver /\ wr'.num = m.f /\ wr'.pos = From + Len(m.d)
  <2>1. m.f \in Numbers
    BY <1>1, Ranges
  <2> QED
    BY <1>1, <1>2, <1>9, <2>1 DEF Writers
<1> QED
  BY <1>1, <1>2, <1>7, <1>8, <1>9, <1>10

LEMMA OnBlockControl ==
  ASSUME Transfer!FilesAssumption, Control, UNCHANGED upload, Transfer!OnBlock PROVE Control'
<1> DEFINE f == toW[1].f
<1>1. /\ toW # <<>> /\ toW[1].t = "block" /\ wr.on /\ f \in Transfer!Files
      /\ ~HasConfirm /\ Queue = toW /\ ~HasConfirm' /\ Queue' = toW'
      /\ toW' \in Seq(ToWriter) /\ Len(toW) \in Nat \ {0} /\ Len(toW') = Len(toW) - 1
      /\ \A i \in 1..Len(toW') : i + 1 \in 1..Len(toW) /\ toW'[i] = toW[i + 1]
      /\ ask = Transfer!None /\ toR = <<>> /\ wr.dig = ver /\ ver \in Nat \ {0}
  BY BlockIs
<1>2. /\ part' \in [Transfer!Files -> Contents] /\ part'[f] = {After}
      /\ \A g \in Transfer!Files : g # f => part'[g] = IF Fresh /\ g = wr.num THEN {} ELSE part[g]
      /\ dig' \in [Transfer!Files -> Nat] /\ dig'[f] = IF Fresh THEN ver ELSE dig[f]
      /\ \A g \in Transfer!Files : g # f => dig'[g] = IF Fresh /\ g = wr.num THEN 0 ELSE dig[g]
      /\ final' = IF Fresh THEN Transfer!Renamed(wr.num) ELSE final
      /\ wr' \in Writers /\ wr'.on /\ wr'.dig = ver /\ wr'.num = f
      /\ wr'.pos = From + Len(Load) /\ wr'.pos # Transfer!None
      /\ misplaced' = (misplaced \/ (Load # <<>> /\ Load[1] # From + 1))
      /\ UNCHANGED <<upload, ver, rd, strategy, ask, toR, meta, ended, kept, spoilt>>
  BY BlockDoes
<1>3. Len(After) = From + Len(Load)
  BY BeforeIs
<1> HIDE DEF f
<1>4. Types'
  <2>1. IsOn(final')
    BY <1>2 DEF Control, Types, IsOn, Transfer!Renamed
  <2>2. IsOn(kept')
    BY <1>2 DEF Control, Types, IsOn
  <2>3. misplaced' \in BOOLEAN
    BY <1>2
  <2> QED
    BY <1>1, <1>2, <2>1, <2>2, <2>3 DEF Control, Types
<1>5. Roles'
  <2>1. \A g \in Transfer!Files : dig'[g] \in 0..ver
    <3>1. \A g \in Transfer!Files : dig[g] \in 0..ver
      BY DEF Control, Roles
    <3>2. 0 \in 0..ver /\ ver \in 0..ver
      BY <1>1
    <3> QED
      BY <1>2, <3>1, <3>2
  <2> QED
    BY <1>1, <1>2, <2>1 DEF Control, Roles, Waiting
<1>6. Token'
  <2>1. toW[Len(toW)].t # "block" => toW' # <<>> /\ toW'[Len(toW')] = toW[Len(toW)]
    BY <1>1
  <2>2. Waiting => toW[Len(toW)].t = "digest"
    BY <1>1 DEF Control, Token
  <2>3. ~rd.on => toW[Len(toW)].t = "done"
    BY <1>1 DEF Control, Token
  <2>4. Waiting' = Waiting
    BY <1>2 DEF Waiting
  <2> QED
    BY <1>1, <1>2, <2>1, <2>2, <2>3, <2>4 DEF Token
<1>7. QueueShape'
  <2>1. Waits' = Waits /\ Cur' = Cur
    BY <1>2 DEF Waits, Waiting, Cur, RNum
  <2> DEFINE q == toW
             p == toW'
  <2>2. \A i \in 1..Len(p) : i + 1 \in 1..Len(q) /\ p[i] = q[i + 1]
                            /\ (i < Len(p) => p[i + 1] = q[(i + 1) + 1])
                            /\ (i < Len(p) <=> i + 1 < Len(q)) /\ (i = Len(p) <=> i + 1 = Len(q))
    BY <1>1
  <2> SUFFICES ASSUME NEW i \in 1..Len(p)
      PROVE  /\ p[i].t # "confirm"
             /\ p[i].t # "block" => i = Len(p)
             /\ p[i].t = "digest" => Waits /\ p[i].f = rd.num /\ p[i].v = ver
             /\ p[i].t = "done" => ~rd.on
             /\ p[i].t = "block" =>
                  /\ p[i].v = ver /\ p[i].f = Cur
                  /\ p[i].d = <<>> => ~rd.confirmed /\ (i < Len(p) => p[i + 1].t # "block")
                  /\ p[i].d # <<>> /\ ~rd.confirmed => i < Len(p) /\ p[i + 1].t = "block"
    BY <1>1, <1>2, <2>1 DEF QueueShape, ShapeAt
  <2>3. ShapeAt(q, i + 1)
    BY <1>1, <2>2 DEF Control, QueueShape
  <2> HIDE DEF q, p
  <2>4. i + 1 \in 1..Len(q) /\ p[i] = q[i + 1]
        /\ (i < Len(p) => p[i + 1] = q[(i + 1) + 1])
        /\ (i < Len(p) <=> i + 1 < Len(q)) /\ (i = Len(p) <=> i + 1 = Len(q))
    BY <2>2
  <2> QED
    BY <2>3, <2>4 DEF ShapeAt
<1>8. Storage'
  <2>1. \A g \in Transfer!Files : \A s \in part[g] : part[g] = {s}
    BY DEF Control, Storage
  <2>2. \A g \in Transfer!Files : \A s \in part'[g] : part'[g] = {s}
    BY <1>1, <1>2, <2>1
  <2> QED
    BY <1>1, <1>2, <1>3, <2>2 DEF Storage
<1> QED
  BY <1>4, <1>5, <1>6, <1>7, <1>8 DEF Control

LEMMA DoneIs ==
  ASSUME Transfer!FilesAssumption, Control, Transfer!OnDone
  PROVE  /\ toW # <<>> /\ toW[1].t = "done" /\ wr.on /\ ~rd.on /\ toW' = <<>> /\ toR = <<>>
              /\ ask = Transfer!None
         /\ ~HasConfirm /\ Queue = toW /\ Taker = wr /\ Len(toW) = 1 /\ rd.pos = Transfer!None
              /\ ~rd.confirmed
         /\ final' = Transfer!Renamed(wr.num) /\ part' = Transfer!Unparted(wr.num)
              /\ dig' = Transfer!Undigested(wr.num)
         /\ wr' = Transfer!NoWriter /\ ended' = "done"
         /\ UNCHANGED <<ver, rd, strategy, ask, toR, meta, kept, misplaced, spoilt>>
<1>1. /\ toW # <<>> /\ Head(toW).t = "done" /\ wr.on /\ toW' = Tail(toW)
      /\ final' = Transfer!Renamed(wr.num) /\ part' = Transfer!Unparted(wr.num)
           /\ dig' = Transfer!Undigested(wr.num)
      /\ wr' = Transfer!NoWriter /\ ended' = "done"
      /\ UNCHANGED <<ver, rd, strategy, ask, toR, meta, kept, misplaced, spoilt>>
  BY DEF Transfer!OnDone, Transfer!rest
<1>2. /\ Head(toW) = toW[1] /\ Len(toW) \in Nat \ {0} /\ (Len(toW) = 1 => Tail(toW) = <<>>)
  BY <1>1, Heads DEF Control, Types
<1>3. ~HasConfirm /\ Queue = toW /\ Taker = wr
  BY <1>1, <1>2 DEF HasConfirm, Queue, Taker
<1>4. ShapeAt(toW, 1)
  BY <1>2, <1>3 DEF Control, QueueShape
<1>5. Len(toW) = 1 /\ ~rd.on
  BY <1>1, <1>2, <1>4 DEF ShapeAt
<1>6. rd.pos = Transfer!None /\ ~rd.confirmed /\ toR = <<>> /\ ask = Transfer!None
  BY <1>5 DEF Control, Roles, Token, Waiting
<1> QED
  BY <1>1, <1>2, <1>3, <1>5, <1>6

LEMMA OnDoneControl ==
  ASSUME Transfer!FilesAssumption, Control, UNCHANGED upload, Transfer!OnDone PROVE Control'
<1>1. /\ wr.on /\ ~rd.on /\ toW' = <<>> /\ toR = <<>> /\ ask = Transfer!None
      /\ rd.pos = Transfer!None /\ ~rd.confirmed
      /\ final' = Transfer!Renamed(wr.num) /\ part' = Transfer!Unparted(wr.num)
           /\ dig' = Transfer!Undigested(wr.num)
      /\ wr' = Transfer!NoWriter /\ ended' = "done"
      /\ UNCHANGED <<ver, rd, strategy, ask, toR, meta, kept, misplaced, spoilt>>
  BY DoneIs
<1>2. ~HasConfirm' /\ Queue' = <<>>
  BY <1>1 DEF HasConfirm, Queue
<1>3. /\ part \in [Transfer!Files -> Contents] /\ dig \in [Transfer!Files -> Nat] /\ {} \in Contents
      /\ ver \in Nat /\ \A g \in Transfer!Files : dig[g] \in 0..ver
  BY DEF Control, Types, Contents, Roles
<1>4. /\ part' \in [Transfer!Files -> Contents] /\ dig' \in [Transfer!Files -> Nat]
      /\ \A g \in Transfer!Files : part'[g] \in {{}, part[g]} /\ dig'[g] \in {0, dig[g]}
  BY <1>1, <1>3 DEF Transfer!Unparted, Transfer!Undigested
<1>5. wr' \in Writers /\ ~wr'.on /\ wr'.pos = Transfer!None /\ wr'.dig = 0
  BY <1>1, Ranges DEF Transfer!NoWriter, Writers
<1>6. Types'
  <2>1. IsOn(final')
    BY <1>1 DEF Control, Types, IsOn, Transfer!Renamed
  <2>2. IsOn(kept')
    BY <1>1 DEF Control, Types, IsOn
  <2> QED
    BY <1>1, <1>4, <1>5, <2>1, <2>2 DEF Control, Types
<1>7. Roles'
  <2>1. 0 \in 0..ver
    BY <1>3
  <2>2. \A g \in Transfer!Files : dig'[g] \in 0..ver
    BY <1>3, <1>4, <2>1
  <2> QED
    BY <1>1, <1>5, <2>2 DEF Control, Roles, Waiting
<1>8. Token' /\ QueueShape'
  BY <1>1, <1>2, <1>5 DEF Token, QueueShape, Waiting
<1>9. Storage'
  BY <1>1, <1>2, <1>4, <1>5 DEF Control, Storage
<1> QED
  BY <1>6, <1>7, <1>8, <1>9 DEF Control

-----------------------------------------------------------------------------
\* What leaves a job unspoilt is none of the failures.
LEMMA Unhurt ==
  ASSUME Control, spoilt = {}, spoilt' = {}
  PROVE  ~Transfer!CancelUpload /\ ~Transfer!OnCancelWrite /\ ~Transfer!Fault
<1>1. ~Transfer!CancelUpload
  BY DEF Transfer!CancelUpload, Transfer!Spoil
<1>2. ~Transfer!OnCancelWrite
  <2>1. toW # <<>> => Head(toW).t \in {"digest", "block", "confirm", "done"}
    BY Heads, Kinds DEF Control, Types
  <2> QED
    BY <2>1 DEF Transfer!OnCancelWrite
<1>3. ~Transfer!OnError
  <2>1. toR # <<>> => Head(toR).t \in {"confirm", "ask"}
    BY Heads, Kinds DEF Control, Types
  <2>2. toR # <<>> => rd.on
    BY DEF Control, Token, Roles, Waiting
  <2> QED
    BY <2>1, <2>2 DEF Transfer!OnError
<1>4. Transfer!Fault => Transfer!Spoil("disk") \/ Transfer!OnError
  BY DEF Transfer!Fault, Transfer!RenameFails, Transfer!OpenFails, Transfer!WriteFails,
     Transfer!OnBlockAstray, Transfer!SeekFails, Transfer!DigestFails
<1>5. ~Transfer!Spoil("disk")
  BY DEF Transfer!Spoil
<1> QED
  BY <1>1, <1>2, <1>3, <1>4, <1>5

LEMMA ControlStep ==
  ASSUME Transfer!FilesAssumption, Control, spoilt = {}, spoilt' = {}, stamp = ver, ~Transfer!Start,
         [Transfer!Next]_Transfer!vars
  PROVE  Control'
<1>1. CASE UNCHANGED Transfer!vars
  <2>1. UNCHANGED <<upload, ver, rd, wr, strategy, ask, toW, toR, final, part, dig, meta, ended, kept,
                    misplaced, spoilt>>
    BY <1>1 DEF Transfer!vars, Transfer!jobs, Transfer!disk, Transfer!rest
  <2>2. Types'
    BY <2>1 DEF Control, Types, IsOn
  <2>3. Waiting' = Waiting /\ Waits' = Waits /\ Cur' = Cur
    BY <2>1 DEF Waiting, Waits, Cur, RNum
  <2>4. Roles'
    BY <2>1, <2>3 DEF Control, Roles
  <2>5. HasConfirm' = HasConfirm /\ Queue' = Queue
    BY <2>1, ViewSame
  <2>6. Token' /\ QueueShape'
    BY <2>1, <2>3, <2>5 DEF Control, Token, QueueShape, ShapeAt
  <2>7. Storage'
    BY <2>1, <2>5 DEF Control, Storage, OfferWas, Transfer!Transferred
  <2> QED
    BY <2>2, <2>4, <2>6, <2>7 DEF Control
<1>2. CASE UNCHANGED upload /\ Transfer!Resume
  <2>1. meta \in Numbers /\ Transfer!Begin(meta, TRUE) /\ UNCHANGED <<kept, misplaced>>
    BY <1>2 DEF Transfer!Resume, Control, Types
  <2>2. misplaced' \in BOOLEAN /\ IsOn(kept')
    BY <2>1 DEF Control, Types, IsOn
  <2> QED
    BY <1>2, <2>1, <2>2, BeginControl DEF Control, Types, Roles, Storage
<1>3. CASE UNCHANGED upload /\ Transfer!Drop
  <2>1. /\ rd' = Transfer!NoReader /\ wr' = Transfer!NoWriter /\ ask' = Transfer!None
             /\ toW' = <<>> /\ toR' = <<>> /\ meta' = Transfer!Saved
        /\ UNCHANGED <<upload, ver, strategy, final, part, dig, ended, kept, misplaced, spoilt>>
    BY <1>3 DEF Transfer!Drop, Transfer!disk
  <2>2. meta' \in Numbers \cup {Transfer!None}
    BY <2>1 DEF Transfer!Saved, Control, Types, Readers, Writers
  <2>3. IsOn(final')
    BY <2>1 DEF Control, Types, IsOn
  <2>4. part' \in [Transfer!Files -> Contents] /\ dig' \in [Transfer!Files -> Nat]
       /\ ended' \in {"no", "done"}
        /\ \A f \in Transfer!Files : part'[f] \in {{}, part[f]} /\ dig'[f] \in {0, dig[f]}
    BY <2>1 DEF Control, Types
  <2> QED
    BY <2>1, <2>2, <2>3, <2>4, StopControl
<1>4. CASE UNCHANGED upload /\ Transfer!Cancel
  <2>1. /\ rd' = Transfer!NoReader /\ wr' = Transfer!NoWriter /\ ask' = Transfer!None
             /\ toW' = <<>> /\ toR' = <<>>
        /\ part' = [f \in Transfer!Files |-> IF f = wr.num THEN {} ELSE part[f]]
        /\ dig' = [f \in Transfer!Files |-> IF f = wr.num THEN 0 ELSE dig[f]]
        /\ UNCHANGED <<upload, ver, strategy, final, meta, ended, kept, misplaced, spoilt>>
    BY <1>4 DEF Transfer!Cancel, Transfer!rest
  <2>2. IsOn(final')
    BY <2>1 DEF Control, Types, IsOn
  <2>3. part \in [Transfer!Files -> Contents] /\ dig \in [Transfer!Files -> Nat] /\ {} \in Contents
    BY DEF Control, Types, Contents
  <2>4. part' \in [Transfer!Files -> Contents] /\ dig' \in [Transfer!Files -> Nat]
        /\ \A f \in Transfer!Files : part'[f] \in {{}, part[f]} /\ dig'[f] \in {0, dig[f]}
    BY <2>1, <2>3
  <2>5. meta' \in Numbers \cup {Transfer!None} /\ ended' \in {"no", "done"}
    BY <2>1 DEF Control, Types
  <2> QED
    BY <2>1, <2>2, <2>4, <2>5, StopControl
<1> QED
  BY <1>1, <1>2, <1>3, <1>4, Unhurt, EditControl, AnnounceControl, ReadBlockControl, FinishControl,
     OnDigestControl, OnCheckDigestControl, OnAskControl, AnswerControl, OnConfirmReaderControl,
     OnConfirmWriterControl, OnBlockControl, OnDoneControl DEF Transfer!Next

-----------------------------------------------------------------------------
(* The data: where the writer is, and where what it gets belongs. *)

At(w, f) == IF w.num = f /\ w.pos # Transfer!None THEN w.pos ELSE 0

Skipping == toR # <<>> /\ toR[1].off = Transfer!Skip
Ahead == IF Skipping THEN rd.num + 1 ELSE RNum
Front == IF Blocked THEN Cur ELSE Ahead
Offered == IF ~upload /\ toR # <<>> /\ toR[1].off > 0 THEN toR[1].off ELSE 0

\* The i-th block on its way goes i places behind where the writer is.
PlacedAt(q, i) ==
  q[i].t = "block" =>
    IF q[i].d = <<>> THEN At(Taker, Cur) + i - 1 = Size[Cur]
    ELSE q[i].d = <<At(Taker, Cur) + i>> /\ At(Taker, Cur) + i <= Size[Cur]

Placed ==
  /\ \A i \in 1..Len(Queue) : PlacedAt(Queue, i)
  /\ rd.confirmed => rd.pos = At(Taker, rd.num) + Len(Queue) /\ rd.pos <= Size[rd.num]
  /\ rd.on /\ ~rd.confirmed => At(Taker, rd.num) = Offered
  /\ Skipping => At(Taker, rd.num + 1) = 0
  /\ wr.on => Taker.num <= Front

Resumes(f, offset) == offset > 0 => wr.num = f /\ wr.pos = Transfer!None /\ dig[f] = ver
OfferFits ==
  /\ toR # <<>> /\ toR[1].t = "ask" => Resumes(toR[1].f, toR[1].off)
  /\ HasConfirm => Resumes(toW[1].f, toW[1].off)

\* A .download is the beginning of the file in the version of its .digest.
Content ==
  \A f \in Transfer!Files : \A s \in part[f] :
    dig[f] # 0 /\ Len(s) <= Size[f] /\ \A i \in 1..Len(s) : s[i] = <<dig[f], i>>

Open == wr.pos # Transfer!None => dig[wr.num] = ver

At0 == IF wr.on THEN wr.num ELSE meta
NoneAhead == wr.on \/ meta # Transfer!None => \A f \in Transfer!Files : f > At0 => part[f] = {}

Data == ~misplaced /\ Placed /\ OfferFits /\ Content /\ Open /\ NoneAhead

-----------------------------------------------------------------------------
LEMMA TakerTyped ==
  ASSUME Transfer!FilesAssumption, Control
  PROVE  /\ Taker \in Writers /\ Taker.num \in Nat /\ Taker.pos \in Spots
         /\ wr \in Writers /\ wr.num \in Nat /\ wr.num <= Taker.num
         /\ rd \in Readers /\ rd.num \in Nat /\ RNum \in Nat /\ Cur \in Int
         /\ \A f : At(Taker, f) \in Nat /\ At(wr, f) \in Nat
<1>1. wr \in Writers /\ rd \in Readers
  BY DEF Control, Types
<1>2. Taker \in Writers /\ wr.num <= Taker.num
  <2>1. CASE ~HasConfirm
    <3>1. wr.num \in Nat
      BY <1>1, Ranges DEF Writers
    <3> QED
      BY <1>1, <2>1, <3>1 DEF Taker
  <2>2. CASE HasConfirm
    <3>1. toW[1] \in ToWriter
      BY <2>2, Heads DEF HasConfirm, Control, Types
    <3>2. toW[1].f \in Transfer!Files /\ toW[1].off \in Offsets
      BY <2>2, <3>1, Kinds DEF HasConfirm
    <3>3. Taker = Transfer!ConfirmedWriter(toW[1].f, toW[1].off)
      BY <2>2 DEF Taker
    <3> DEFINE f == toW[1].f
               offset == toW[1].off
    <3> HIDE DEF f, offset
    <3>4. /\ Taker \in Writers
          /\ wr.num # f => Taker = wr
          /\ wr.num = f /\ offset = Transfer!Skip => Taker.num = f + 1
          /\ offset # Transfer!Skip => Taker.num = wr.num
      BY <1>1, <3>2, <3>3, ConfirmedWriterIs DEF f, offset
    <3>5. wr.num \in Nat
      BY <1>1, Ranges DEF Writers
    <3> QED
      BY <3>4, <3>5
  <2> QED
    BY <2>1, <2>2
<1>3. Taker.num \in Nat /\ Taker.pos \in Spots /\ wr.num \in Nat /\ rd.num \in Nat
     /\ wr.pos \in Spots
  BY <1>1, <1>2, Ranges DEF Writers, Readers
<1>4. RNum \in Nat /\ Cur \in Int
  BY <1>3 DEF RNum, Cur, Transfer!FilesAssumption
<1>5. \A f : At(Taker, f) \in Nat /\ At(wr, f) \in Nat
  BY <1>3, Ranges DEF At
<1> QED
  BY <1>1, <1>2, <1>3, <1>4, <1>5

LEMMA SendPlaced ==
  ASSUME Transfer!FilesAssumption, Control, Placed, rd.on, ~Waiting, NEW m \in ToWriter,
       m.t # "confirm", Transfer!Send(m),
         UNCHANGED <<wr, part, dig>>, Cur' = Cur,
         m.t = "block" =>
           IF m.d = <<>> THEN At(Taker, Cur) + Len(Queue) = Size[Cur]
           ELSE m.d = <<At(Taker, Cur) + Len(Queue) + 1>>
                /\ At(Taker, Cur) + Len(Queue) + 1 <= Size[Cur]
  PROVE  /\ Taker' = Taker /\ Len(Queue') = Len(Queue) + 1 /\ Len(Queue) \in Nat
         /\ \A i \in 1..Len(Queue') : PlacedAt(Queue, i)'
         /\ Queue # <<>> => Blocked /\ Blocked'
         /\ Queue = <<>> => ~Blocked /\ (Blocked' <=> m.t = "block")
<1> DEFINE q == Queue
           p == Queue'
<1>1. q \in Seq(ToWriter) /\ p = Append(q, m) /\ Taker' = Taker
  BY ViewSend DEF Control
<1>2. ~Waits
  BY DEF Waits
<1>3. QueueShape
  BY DEF Control
<1>4. At(Taker, Cur)' = At(Taker, Cur)
  BY <1>1
<1> HIDE DEF q, p
<1>5. Len(p) = Len(q) + 1 /\ Len(q) \in Nat
     /\ \A i \in 1..Len(p) : p[i] = IF i <= Len(q) THEN q[i] ELSE m
  BY <1>1, AppendProperties
<1>6. \A i \in 1..Len(p) : PlacedAt(Queue, i)'
  <2> TAKE i \in 1..Len(p)
  <2>1. CASE i = Len(p)
    <3>1. i = Len(q) + 1 /\ p[i] = m
      BY <1>5, <2>1
    <3>2. At(Taker, Cur) \in Nat
      BY TakerTyped
    <3>3. /\ At(Taker, Cur) + Len(q) + 1 = At(Taker, Cur) + i
          /\ At(Taker, Cur) + i - 1 = At(Taker, Cur) + Len(q)
      BY <1>5, <3>1, <3>2
    <3>4. m.t = "block" =>
            IF m.d = <<>> THEN At(Taker, Cur) + i - 1 = Size[Cur]
            ELSE m.d = <<At(Taker, Cur) + i>> /\ At(Taker, Cur) + i <= Size[Cur]
      BY <3>3 DEF q
    <3> QED
      BY <1>4, <3>1, <3>4 DEF PlacedAt, p
  <2>2. CASE i # Len(p)
    <3>1. i \in 1..Len(q) /\ p[i] = q[i]
      BY <1>5, <2>2
    <3>2. PlacedAt(Queue, i)
      BY <3>1 DEF Placed, q
    <3> QED
      BY <1>4, <3>1, <3>2 DEF PlacedAt, q, p
  <2> QED
    BY <2>1, <2>2
<1>7. Queue # <<>> => Blocked /\ Blocked'
  <2> SUFFICES ASSUME q # <<>> PROVE Blocked /\ Blocked'
    BY DEF q
  <2>1. 1 \in 1..Len(q) /\ 1 \in 1..Len(p)
    BY <1>1, <1>5, EmptySeq
  <2>2. q[1].t = "block"
    <3>1. ShapeAt(Queue, 1)
      BY <1>3, <2>1 DEF QueueShape, q
    <3>2. q[1].t \in {"digest", "block", "confirm", "done"}
      BY <1>1, <2>1, Kinds
    <3> QED
      BY <1>2, <3>1, <3>2 DEF ShapeAt, q
  <2>3. p[1] = q[1] /\ p # <<>>
    BY <1>1, <1>5, <2>1
  <2> QED
    BY <2>2, <2>3 DEF Blocked, q, p
<1>8. Queue = <<>> => ~Blocked /\ (Blocked' <=> m.t = "block")
  <2> SUFFICES ASSUME q = <<>> PROVE ~Blocked /\ (Blocked' <=> m.t = "block")
    BY DEF q
  <2>1. p[1] = m /\ p # <<>>
    BY <1>1
  <2> QED
    BY <2>1 DEF Blocked, q, p
<1> QED
  BY <1>1, <1>5, <1>6, <1>7, <1>8 DEF q, p

LEMMA SendData ==
  ASSUME Control, Data, NEW m \in ToWriter, m.t # "confirm", Transfer!Send(m), Placed', toR = <<>>,
         UNCHANGED <<ver, wr, toR, part, dig, meta, misplaced>>
  PROVE  Data'
<1>1. HasConfirm' = HasConfirm /\ (HasConfirm => toW'[1] = toW[1])
  BY ViewSend DEF Control
<1>2. OfferFits'
  BY <1>1 DEF Data, OfferFits, Resumes
<1>3. Content' /\ Open' /\ NoneAhead' /\ ~misplaced'
  BY DEF Data, Content, Open, NoneAhead, At0
<1> QED
  BY <1>2, <1>3 DEF Data

LEMMA NotSkipping ==
  ASSUME toR = <<>> PROVE ~Skipping /\ Ahead = RNum /\ Offered = 0
BY DEF Skipping, Ahead, Offered

LEMMA AnnounceData ==
  ASSUME Transfer!FilesAssumption, Control, Data, stamp = ver, UNCHANGED upload, Transfer!Announce
  PROVE  Data'
<1> DEFINE m == [t |-> "digest", f |-> rd.num, v |-> ver, resume |-> rd.resume]
<1>1. /\ rd.on /\ rd.pos = Transfer!None /\ rd.num \in Transfer!Files /\ Transfer!Send(m)
      /\ UNCHANGED <<upload, ver, wr, toR, part, dig, meta, misplaced>>
  BY DEF Transfer!Announce, Transfer!disk, Transfer!rest
<1>2. m \in ToWriter /\ m.t = "digest"
  BY <1>1 DEF ToWriter, Digests, Control, Types, Readers
<1> HIDE DEF m
<1>3. /\ wr.on /\ toR = <<>> /\ ~rd.confirmed /\ Cur' = Cur /\ rd'.on /\ rd'.num = rd.num
           /\ ~rd'.confirmed
  BY AnnounceControl
<1>4. ~Waiting /\ Placed /\ RNum' = RNum
  BY <1>1, <1>3 DEF Waiting, Data, RNum
<1>5. /\ Taker' = Taker
      /\ \A i \in 1..Len(Queue') : PlacedAt(Queue, i)'
      /\ Queue # <<>> => Blocked /\ Blocked'
      /\ Queue = <<>> => ~Blocked /\ ~Blocked'
  BY <1>1, <1>2, <1>3, <1>4, SendPlaced
<1>6. ~Skipping /\ Ahead = RNum /\ Offered = 0
  BY <1>3, NotSkipping
<1>7. ~Skipping' /\ Ahead' = Ahead /\ Offered' = 0 /\ Front' = Front
  BY <1>1, <1>3, <1>4, <1>5, <1>6 DEF Skipping, Ahead, Offered, Front
<1>8. Placed'
  BY <1>1, <1>3, <1>4, <1>5, <1>6, <1>7 DEF Placed
<1> QED
  BY <1>1, <1>2, <1>3, <1>8, SendData

LEMMA FinishData ==
  ASSUME Transfer!FilesAssumption, Control, Data, UNCHANGED upload, Transfer!Finish PROVE Data'
<1> DEFINE m == [t |-> "done", f |-> rd.num]
<1>1. /\ rd.on /\ rd.pos = Transfer!None /\ rd.num = N /\ Transfer!Send(m)
           /\ rd' = Transfer!NoReader
      /\ UNCHANGED <<upload, ver, wr, toR, part, dig, meta, misplaced>>
  BY DEF Transfer!Finish, Transfer!disk, Transfer!rest
<1>2. m \in ToWriter /\ m.t = "done"
  BY <1>1, Ranges DEF ToWriter
<1> HIDE DEF m
<1>3. wr.on /\ toR = <<>> /\ ~rd'.on /\ ~rd'.confirmed /\ ~rd.confirmed
  BY <1>1, FinishControl DEF Transfer!NoReader, Control, Roles
<1>4. ~Waiting /\ Placed /\ RNum' = RNum /\ Cur' = Cur
  BY <1>1, <1>3 DEF Waiting, Data, RNum, Cur
<1>5. /\ Taker' = Taker
      /\ \A i \in 1..Len(Queue') : PlacedAt(Queue, i)'
      /\ Queue # <<>> => Blocked /\ Blocked'
      /\ Queue = <<>> => ~Blocked /\ ~Blocked'
  BY <1>1, <1>2, <1>3, <1>4, SendPlaced
<1>6. ~Skipping /\ Ahead = RNum
  BY <1>3, NotSkipping
<1>7. ~Skipping' /\ Ahead' = Ahead /\ Front' = Front
  BY <1>1, <1>3, <1>4, <1>5, <1>6 DEF Skipping, Ahead, Front
<1>8. Placed'
  BY <1>1, <1>3, <1>4, <1>5, <1>6, <1>7 DEF Placed
<1> QED
  BY <1>1, <1>2, <1>3, <1>8, SendData

LEMMA ReadBlockData ==
  ASSUME Transfer!FilesAssumption, Control, Data, UNCHANGED upload, Transfer!ReadBlock PROVE Data'
<1> DEFINE b == At(Taker, rd.num)
<1>1. /\ rd.on /\ rd.confirmed /\ UNCHANGED <<upload, ver, wr, toR, part, dig, meta, misplaced>>
  BY DEF Transfer!ReadBlock, Transfer!disk, Transfer!rest
<1>2. /\ rd \in Readers /\ rd.pos \in Nat /\ rd.num \in Transfer!Files /\ ~Waiting
           /\ Cur = rd.num /\ RNum = rd.num
      /\ ver \in Nat /\ rd.num \in Nat /\ Size[rd.num] \in Nat
  BY <1>1, Ranges DEF Control, Roles, Types, Readers, Waiting, Cur, RNum
<1>3. wr.on /\ toR = <<>> /\ Placed
  BY ReadBlockControl DEF Data
<1>4. b \in Nat /\ Taker.num \in Nat
  BY TakerTyped
<1>5. rd.pos = b + Len(Queue) /\ rd.pos <= Size[rd.num] /\ Taker.num <= Front
  BY <1>1, <1>3 DEF Placed
<1>6. ~Skipping /\ Ahead = rd.num /\ Front = rd.num
  BY <1>2, <1>3, NotSkipping DEF Front
<1>7. ~Skipping' /\ Offered' = 0
  BY <1>1, <1>3 DEF Skipping, Offered
<1> HIDE DEF b
<1>8. CASE rd.pos < Size[rd.num]
  <2> DEFINE m == [t |-> "block", f |-> rd.num, d |-> <<rd.pos + 1>>, v |-> ver]
  <2>1. rd' = [rd EXCEPT !.pos = @ + 1] /\ Transfer!Send(m)
    BY <1>8 DEF Transfer!ReadBlock
  <2>2. m \in ToWriter /\ m.t = "block" /\ m.d = <<rd.pos + 1>> /\ m.d # <<>>
    BY <1>2 DEF ToWriter, Blocks, Loads
  <2> HIDE DEF m
  <2>3. /\ rd'.on /\ rd'.pos = rd.pos + 1 /\ rd'.confirmed /\ rd'.num = rd.num
    BY <1>1, <1>2, <2>1 DEF Readers
  <2>4. Cur' = Cur
    BY <1>2, <2>3 DEF Cur
  <2>5. Len(Queue) \in Nat
    <3>1. Queue \in Seq(ToWriter)
      BY <2>1, <2>2, <1>1, ViewSend DEF Control
    <3> QED
      BY <3>1
  <2>6. m.d = <<b + Len(Queue) + 1>> /\ b + Len(Queue) + 1 <= Size[Cur]
    BY <1>2, <1>4, <1>5, <1>8, <2>2, <2>5
  <2>7. /\ Taker' = Taker /\ Len(Queue') = Len(Queue) + 1
        /\ \A i \in 1..Len(Queue') : PlacedAt(Queue, i)'
        /\ Blocked'
    BY <1>1, <1>2, <1>3, <2>1, <2>2, <2>4, <2>6, SendPlaced DEF b
  <2>8. At(Taker, rd.num)' = b /\ Front' = rd.num
    BY <1>2, <2>3, <2>4, <2>7 DEF b, Front
  <2>9. rd'.pos = b + Len(Queue') /\ rd'.pos <= Size[rd'.num]
    BY <1>2, <1>4, <1>5, <1>8, <2>3, <2>5, <2>7
  <2>10. Placed'
    BY <1>1, <1>3, <1>5, <1>6, <1>7, <2>3, <2>7, <2>8, <2>9 DEF Placed
  <2> QED
    BY <1>1, <1>3, <2>1, <2>2, <2>10, SendData
<1>9. CASE ~(rd.pos < Size[rd.num])
  <2> DEFINE m == [t |-> "block", f |-> rd.num, d |-> <<>>, v |-> ver]
  <2>1. rd' = Transfer!NextFile /\ Transfer!Send(m)
    BY <1>9 DEF Transfer!ReadBlock
  <2>2. m \in ToWriter /\ m.t = "block" /\ m.d = <<>>
    BY <1>2 DEF ToWriter, Blocks, Loads
  <2> HIDE DEF m
  <2>3. rd'.on /\ ~rd'.confirmed /\ rd'.num = rd.num + 1
    BY <1>1, <1>2, <2>1, NextFileIs
  <2>4. Cur' = Cur
    BY <1>2, <2>3 DEF Cur, RNum
  <2>5. Len(Queue) \in Nat
    <3>1. Queue \in Seq(ToWriter)
      BY <2>1, <2>2, <1>1, ViewSend DEF Control
    <3> QED
      BY <3>1
  <2>6. b + Len(Queue) = Size[Cur]
    BY <1>2, <1>4, <1>5, <1>9, <2>5
  <2>7. /\ Taker' = Taker /\ \A i \in 1..Len(Queue') : PlacedAt(Queue, i)'
        /\ Blocked'
    BY <1>1, <1>2, <1>3, <2>1, <2>2, <2>4, <2>6, SendPlaced DEF b
  <2>8. Front' = rd.num
    BY <1>2, <2>4, <2>7 DEF Front
  <2>9. At(Taker, rd.num)' = 0
    BY <1>2, <1>4, <1>5, <1>6, <2>3, <2>7 DEF At
  <2>10. Placed'
    BY <1>1, <1>3, <1>5, <1>6, <1>7, <2>3, <2>7, <2>8, <2>9 DEF Placed
  <2> QED
    BY <1>1, <1>3, <2>1, <2>2, <2>10, SendData
<1> QED
  BY <1>8, <1>9

LEMMA PlacedEmpty ==
  ASSUME Queue' = <<>>,
         rd'.confirmed => rd'.pos = At(Taker, rd.num)' /\ rd'.pos <= Size[rd'.num]
              /\ rd'.pos \in Nat,
         rd'.on /\ ~rd'.confirmed => At(Taker, rd.num)' = Offered',
         Skipping' => At(Taker, rd.num + 1)' = 0,
         wr'.on => Taker'.num <= Ahead'
  PROVE  Placed'
<1>1. ~Blocked' /\ Len(Queue') = 0 /\ Front' = Ahead'
  BY DEF Blocked, Front
<1>2. \A i \in 1..Len(Queue') : PlacedAt(Queue, i)'
  BY <1>1
<1> QED
  BY <1>1, <1>2 DEF Placed

\* While the reader waits for the answer, the writer is not ahead of it, and the
\* part of the file is there only if it is the writer's own.
LEMMA WaitData ==
  ASSUME Transfer!FilesAssumption, Control, Data, Waiting, ~HasConfirm, ~Blocked, ~Skipping,
       Offered = 0
  PROVE  /\ wr.num <= rd.num /\ At(wr, rd.num) = 0
         /\ part[rd.num] # {} => wr.num = rd.num
<1>1. rd.on /\ wr.on /\ rd.num \in Transfer!Files /\ Taker = wr
  BY DEF Control, Roles, Waiting, Taker
<1>2. Ahead = rd.num /\ Front = rd.num
  BY <1>1 DEF Ahead, Front, RNum
<1>3. wr.num <= rd.num /\ At(wr, rd.num) = 0
  BY <1>1, <1>2 DEF Data, Placed, Waiting
<1>4. wr.num \in Nat /\ rd.num \in Nat
  BY TakerTyped
<1>5. rd.num > wr.num => part[rd.num] = {}
  BY <1>1 DEF Data, NoneAhead, At0
<1> QED
  BY <1>3, <1>4, <1>5

\* What becomes of the writer by the answer.
LEMMA AnsweredWriter ==
  ASSUME Transfer!FilesAssumption, Control, NEW offset \in Offsets, rd.num \in Transfer!Files,
         wr.num <= rd.num, At(wr, rd.num) = 0,
         offset > 0 => wr.num = rd.num /\ part[rd.num] # {} /\ dig[rd.num] = ver
  PROVE  LET w == Transfer!ConfirmedWriter(rd.num, offset) IN
         /\ wr.num <= w.num /\ w.num <= (IF offset = Transfer!Skip THEN rd.num + 1 ELSE rd.num)
         /\ At(w, rd.num) = (IF offset > 0 THEN offset ELSE 0)
         /\ offset = Transfer!Skip => At(w, rd.num + 1) = 0
         /\ w.pos # Transfer!None => w.num = wr.num /\ (w.pos = wr.pos \/ dig[w.num] = ver)
         /\ offset # Transfer!Skip => w.num = wr.num
         /\ offset = Transfer!Skip /\ wr.num = rd.num => w.num = rd.num + 1 /\ w.pos = Transfer!None
         /\ wr.num # rd.num => w = wr
         /\ offset = 0 => w = wr
<1> DEFINE f == rd.num
           w == Transfer!ConfirmedWriter(rd.num, offset)
<1>1. wr \in Writers /\ wr.num \in Nat /\ f \in Nat /\ ver # 0 /\ f + 1 # f
     /\ (offset > 0 => offset # Transfer!Skip)
  BY TakerTyped DEF Control, Types, Transfer!Skip
<1>2. /\ wr.num # f => w = wr
      /\ wr.num = f /\ offset = Transfer!Skip => w.num = f + 1 /\ w.pos = Transfer!None
      /\ offset # Transfer!Skip => w.num = wr.num
      /\ offset # Transfer!Skip /\ ~(wr.num = f /\ offset > 0 /\ part[f] # {} /\ dig[f] # 0)
           => w = wr
      /\ wr.num = f /\ offset # Transfer!Skip /\ offset > 0 /\ part[f] # {} /\ dig[f] # 0
           => w.pos = offset /\ offset \in Nat
  BY <1>1, ConfirmedWriterIs
<1> HIDE DEF w, f
<1>3. CASE wr.num # f
  <2>1. w = wr /\ ~(offset > 0)
    BY <1>2, <1>3 DEF f
  <2>2. At(w, f + 1) = 0
    BY <1>1, <2>1 DEF At, f
  <2> QED
    BY <1>1, <1>3, <2>1, <2>2 DEF f, w
<1>4. CASE wr.num = f /\ offset = Transfer!Skip
  <2>1. w.num = f + 1 /\ w.pos = Transfer!None /\ ~(offset > 0)
    BY <1>2, <1>4 DEF Transfer!Skip
  <2>2. At(w, f) = 0 /\ At(w, f + 1) = 0
    BY <2>1 DEF At
  <2>3. offset # 0
    BY <1>4 DEF Transfer!Skip
  <2> QED
    BY <1>1, <1>4, <2>1, <2>2, <2>3 DEF f, w
<1>5. CASE wr.num = f /\ offset # Transfer!Skip /\ offset > 0
  <2>1. part[f] # {} /\ dig[f] = ver /\ w.num = f /\ w.pos = offset /\ offset \in Nat
    BY <1>1, <1>2, <1>5 DEF f
  <2>2. At(w, f) = offset /\ offset # 0
    BY <1>5, <2>1 DEF At, Transfer!None
  <2> QED
    BY <1>1, <1>5, <2>1, <2>2 DEF f, w
<1>6. CASE wr.num = f /\ offset # Transfer!Skip /\ ~(offset > 0)
  <2>1. w = wr
    BY <1>2, <1>6
  <2> QED
    BY <1>1, <1>6, <2>1 DEF f, w
<1> QED
  BY <1>3, <1>4, <1>5, <1>6

\* The writer's disk is left alone, and the writer may go on.
LEMMA QuietData ==
  ASSUME Transfer!FilesAssumption, Control, Data, wr.on, wr'.on, wr.num <= wr'.num, wr'.num \in Nat,
         wr'.pos # Transfer!None => wr'.num = wr.num /\ (wr'.pos = wr.pos \/ dig[wr'.num] = ver),
         UNCHANGED <<ver, part, dig, misplaced>>, Placed', OfferFits'
  PROVE  Data'
<1>1. wr.num \in Nat
  BY TakerTyped
<1>2. Content' /\ ~misplaced'
  BY DEF Data, Content
<1>3. Open'
  BY DEF Data, Open
<1>4. NoneAhead'
  <2>1. \A f \in Transfer!Files : f > wr.num => part[f] = {}
    BY DEF Data, NoneAhead, At0
  <2>2. \A f \in Transfer!Files : f > wr'.num => f > wr.num
    BY <1>1, Ranges
  <2> QED
    BY <2>1, <2>2 DEF NoneAhead, At0
<1> QED
  BY <1>2, <1>3, <1>4 DEF Data
\* The writer's side has decided.
LEMMA DecidedData ==
  ASSUME Transfer!FilesAssumption, Control, Data, ~upload, Waiting, rd.on, wr.on,
       rd.num \in Transfer!Files,
         ~HasConfirm, ~Blocked, toR = <<>>,
         NEW offset \in Offsets, OfferOf(offset), wr' \in Writers, wr'.on,
         wr'.num = Transfer!ConfirmedWriter(rd.num, offset).num,
              wr'.pos = Transfer!ConfirmedWriter(rd.num, offset).pos,
         toR' = <<[t |-> "confirm", f |-> rd.num, off |-> offset]>>, toW' = <<>>,
         UNCHANGED <<upload, ver, rd, part, dig, misplaced>>
  PROVE  Data'
<1> DEFINE w == Transfer!ConfirmedWriter(rd.num, offset)
<1>1. ~Skipping /\ Offered = 0
  BY NotSkipping
<1>2. wr.num <= rd.num /\ At(wr, rd.num) = 0 /\ (part[rd.num] # {} => wr.num = rd.num)
  BY <1>1, WaitData
<1>3. offset > 0 => wr.num = rd.num /\ part[rd.num] # {} /\ dig[rd.num] = ver
  BY <1>2 DEF OfferOf
<1>4. /\ wr.num <= w.num /\ w.num <= (IF offset = Transfer!Skip THEN rd.num + 1 ELSE rd.num)
      /\ At(w, rd.num) = (IF offset > 0 THEN offset ELSE 0)
      /\ offset = Transfer!Skip => At(w, rd.num + 1) = 0
      /\ w.pos # Transfer!None => w.num = wr.num /\ (w.pos = wr.pos \/ dig[w.num] = ver)
  BY <1>2, <1>3, AnsweredWriter
<1>5. ~HasConfirm' /\ Queue' = <<>> /\ Taker' = wr'
  BY DEF HasConfirm, Queue, Taker
<1>7. toR' # <<>> /\ toR'[1].off = offset /\ toR'[1].t = "confirm"
  OBVIOUS
<1>8. /\ (Skipping' <=> offset = Transfer!Skip) /\ Offered' = (IF offset > 0 THEN offset ELSE 0)
      /\ Ahead' = (IF offset = Transfer!Skip THEN rd.num + 1 ELSE rd.num)
  <2>1. Skipping' <=> offset = Transfer!Skip
    BY <1>7 DEF Skipping
  <2>2. Offered' = (IF offset > 0 THEN offset ELSE 0)
    BY <1>7 DEF Offered
  <2> QED
    BY <2>1, <2>2 DEF Ahead, RNum
<1> HIDE DEF w
<1>9. At(Taker, rd.num)' = At(w, rd.num) /\ At(Taker, rd.num + 1)' = At(w, rd.num + 1)
     /\ wr'.num = w.num /\ wr'.pos = w.pos
  BY <1>5 DEF At, w
<1>10. Placed'
  <2>1. rd'.on /\ ~rd'.confirmed
    BY DEF Waiting
  <2> QED
    BY <1>4, <1>5, <1>8, <1>9, <2>1, PlacedEmpty
<1>11. OfferFits'
  BY <1>5, <1>7 DEF OfferFits
<1>12. wr'.num \in Nat
  BY Ranges DEF Writers
<1> QED
  BY <1>4, <1>9, <1>10, <1>11, <1>12, QuietData

LEMMA OnDigestData ==
  ASSUME Transfer!FilesAssumption, Control, Data, UNCHANGED upload, Transfer!OnDigest PROVE Data'
<1>1. /\ ~upload /\ Waiting /\ ask = Transfer!None /\ toR = <<>> /\ rd.on /\ wr.on
           /\ rd.num \in Transfer!Files
      /\ ~HasConfirm /\ Taker = wr /\ ~Blocked /\ toW' = <<>>
      /\ UNCHANGED <<upload, ver, rd, part, dig, misplaced>>
  BY OnDigestIs
<1>2. wr \in Writers /\ ver \in Nat /\ wr.num \in Nat
  BY Ranges DEF Control, Types, Writers
<1>3. CASE ask' = rd.num /\ wr' = [wr EXCEPT !.dig = ver] /\ UNCHANGED <<toR, kept>>
  <2>1. wr'.on = wr.on /\ wr'.pos = wr.pos /\ wr'.num = wr.num
    BY <1>2, <1>3 DEF Writers
  <2>2. ~HasConfirm' /\ Queue' = <<>> /\ Taker' = wr'
    BY <1>1 DEF HasConfirm, Queue, Taker
  <2>3. ~Skipping /\ Offered = 0
    BY <1>1, NotSkipping
  <2>4. wr.num <= rd.num /\ At(wr, rd.num) = 0
    BY <1>1, <2>3, WaitData
  <2>5. ~Skipping' /\ Offered' = 0 /\ Ahead' = rd.num
    BY <1>1, <1>3 DEF Skipping, Offered, Ahead, RNum
  <2>6. At(Taker, rd.num)' = 0
    BY <1>1, <2>1, <2>2, <2>4 DEF At
  <2>7. Placed'
    <3>1. ~rd'.confirmed
      BY <1>1 DEF Waiting
    <3> QED
      BY <2>1, <2>2, <2>4, <2>5, <2>6, <3>1, PlacedEmpty
  <2>8. OfferFits'
    BY <1>1, <1>3, <2>2 DEF OfferFits
  <2> QED
    BY <1>1, <1>2, <2>1, <2>7, <2>8, QuietData
<1>4. ASSUME NEW offset \in Offsets, OfferOf(offset),
             wr' = [Transfer!ConfirmedWriter(rd.num, offset) EXCEPT !.dig = ver],
             toR' = <<[t |-> "confirm", f |-> rd.num, off |-> offset]>>
      PROVE  Data'
  <2>1. Transfer!ConfirmedWriter(rd.num, offset) \in Writers
       /\ Transfer!ConfirmedWriter(rd.num, offset).on
    BY <1>1, <1>2, <1>4, ConfirmedWriterIs
  <2>2. /\ wr' \in Writers /\ wr'.on /\ wr'.num = Transfer!ConfirmedWriter(rd.num, offset).num
        /\ wr'.pos = Transfer!ConfirmedWriter(rd.num, offset).pos
    BY <1>2, <1>4, <2>1 DEF Writers
  <2> QED
    BY <1>1, <1>4, <2>2, DecidedData
<1> QED
  BY <1>3, <1>4, OnDigestIs

LEMMA OnCheckDigestData ==
  ASSUME Transfer!FilesAssumption, Control, Data, UNCHANGED upload, Transfer!OnCheckDigest
       PROVE Data'
<1>1. /\ upload /\ Waiting /\ ask = Transfer!None /\ toR = <<>> /\ rd.on /\ wr.on
           /\ rd.num \in Transfer!Files /\ toW' = <<>>
      /\ ~HasConfirm /\ Taker = wr /\ ~Blocked
      /\ wr' \in Writers /\ wr'.on /\ wr'.pos = wr.pos /\ wr'.num = wr.num
      /\ UNCHANGED <<upload, ver, rd, part, dig, misplaced>>
      /\ toR' # <<>> /\ toR'[1].f = rd.num /\ toR'[1].off \in Nat /\ OfferOf(toR'[1].off)
  BY OnCheckDigestIs
<1>2. ~HasConfirm' /\ Queue' = <<>> /\ Taker' = wr'
  BY <1>1 DEF HasConfirm, Queue, Taker
<1>3. ~Skipping /\ Offered = 0
  BY <1>1, NotSkipping
<1>4. wr.num <= rd.num /\ At(wr, rd.num) = 0 /\ (part[rd.num] # {} => wr.num = rd.num)
  BY <1>1, <1>3, WaitData
<1>5. ~Skipping' /\ Offered' = 0 /\ Ahead' = rd.num
  BY <1>1 DEF Skipping, Offered, Ahead, RNum, Transfer!Skip
<1>6. At(Taker, rd.num)' = 0
  BY <1>1, <1>2, <1>4 DEF At
<1>7. Placed'
  <2>1. ~rd'.confirmed
    BY <1>1 DEF Waiting
  <2> QED
    BY <1>1, <1>2, <1>4, <1>5, <1>6, <2>1, PlacedEmpty
<1>8. toR'[1].off > 0 => wr.num = rd.num /\ wr.pos = Transfer!None /\ dig[rd.num] = ver
  <2> SUFFICES ASSUME toR'[1].off > 0 PROVE wr.num = rd.num /\ wr.pos = Transfer!None
       /\ dig[rd.num] = ver
    OBVIOUS
  <2>1. part[rd.num] # {} /\ dig[rd.num] = ver /\ Transfer!Transferred(rd.num) > 0
       /\ wr.num = rd.num
    BY <1>1, <1>4 DEF OfferOf
  <2>2. wr.pos # Transfer!None => wr.pos = 0
    BY <1>4, <2>1 DEF At
  <2>3. wr.pos # Transfer!None => wr.pos = Transfer!Transferred(rd.num)
    BY <2>1 DEF Control, Storage, Transfer!Transferred
  <2> QED
    BY <2>1, <2>2, <2>3
<1>9. OfferFits'
  BY <1>1, <1>2, <1>8 DEF OfferFits, Resumes
<1>10. wr.num \in Nat
  BY TakerTyped
<1> QED
  BY <1>1, <1>7, <1>9, <1>10, QuietData
\* Before the answer for the file is there, nothing of it has been taken over.
LEMMA AskedData ==
  ASSUME Transfer!FilesAssumption, Control, Data, toR # <<>>, upload
  PROVE  /\ ~Skipping /\ Offered = 0 /\ wr.num <= rd.num /\ At(wr, rd.num) = 0
         /\ ~HasConfirm /\ ~Blocked
<1>1. /\ Waiting /\ toW = <<>> /\ toR[1] \in ToReader
      /\ toR[1].t = "confirm" => toR[1].off = 0
  BY TokenAlone
<1>2. ~HasConfirm /\ ~Blocked
  BY <1>1 DEF HasConfirm, Queue, Blocked
<1>3. toR[1].off \in Nat
  BY <1>1, Kinds
<1>4. ~Skipping /\ Offered = 0
  BY <1>3 DEF Skipping, Offered, Transfer!Skip
<1> QED
  BY <1>1, <1>2, <1>4, WaitData

LEMMA OnAskData ==
  ASSUME Transfer!FilesAssumption, Control, Data, UNCHANGED upload, Transfer!OnAsk PROVE Data'
<1>1. /\ toR # <<>> /\ toR[1].t = "ask" /\ toR[1].off \in Nat /\ toR[1].f = rd.num
      /\ Waiting /\ ask = Transfer!None /\ toW = <<>> /\ upload /\ rd.on /\ wr.on
           /\ rd.num \in Transfer!Files
      /\ ~HasConfirm /\ Taker = wr /\ ~Blocked /\ toR' = <<>>
      /\ UNCHANGED <<upload, ver, wr, part, dig, misplaced>>
  BY OnAskIs
<1>2. wr.num <= rd.num /\ At(wr, rd.num) = 0
  BY <1>1, AskedData
<1>3. ~Skipping' /\ Offered' = 0 /\ Ahead' = RNum'
  BY <1>1 DEF Skipping, Offered, Ahead
<1>4. wr.num \in Nat /\ rd.num \in Nat /\ wr \in Writers
  BY TakerTyped
<1>5. CASE ask' = rd.num /\ UNCHANGED <<rd, toW, kept>>
  <2>1. ~HasConfirm' /\ Queue' = <<>> /\ Taker' = wr
    BY <1>1, <1>5 DEF HasConfirm, Queue, Taker
  <2>2. RNum' = rd.num /\ At(Taker, rd.num)' = 0 /\ ~rd'.confirmed
    BY <1>1, <1>2, <1>5, <2>1 DEF RNum, At, Waiting
  <2>3. Placed'
    BY <1>1, <1>2, <1>3, <2>1, <2>2, PlacedEmpty
  <2>4. OfferFits'
    BY <1>1, <2>1 DEF OfferFits
  <2> QED
    BY <1>1, <1>4, <2>3, <2>4, QuietData
<1>6. ASSUME NEW offset \in Offsets, offset = 0 \/ offset = Transfer!Skip \/ offset = toR[1].off,
             rd' = Transfer!ConfirmedReader(rd.num, offset),
             toW' = <<[t |-> "confirm", f |-> rd.num, off |-> offset]>>
      PROVE  Data'
  <2> DEFINE w == Transfer!ConfirmedWriter(rd.num, offset)
  <2>1. /\ toW'[1].f = rd.num /\ toW'[1].off = offset /\ HasConfirm' /\ Queue' = <<>> /\ Taker' = w
    BY <1>1, <1>6, ConfirmSent
  <2>2. /\ rd'.on
        /\ offset = Transfer!Skip => rd'.num = rd.num + 1 /\ ~rd'.confirmed
        /\ offset # Transfer!Skip => rd'.num = rd.num /\ rd'.pos = offset /\ offset \in Nat
             /\ rd'.confirmed
    BY <1>1, <1>6, AnsweredReader
  <2>3. offset > 0 => /\ wr.num = rd.num /\ wr.pos = Transfer!None /\ dig[rd.num] = ver /\ part[rd.num] # {}
                      /\ offset = Transfer!Transferred(rd.num)
    <3>1. Resumes(rd.num, toR[1].off) /\ OfferWas(rd.num, toR[1].off)
      BY <1>1 DEF Data, OfferFits, Control, Storage
    <3> QED
      BY <1>6, <3>1 DEF Resumes, OfferWas, Transfer!Skip
  <2>4. /\ w.num <= (IF offset = Transfer!Skip THEN rd.num + 1 ELSE rd.num)
        /\ At(w, rd.num) = (IF offset > 0 THEN offset ELSE 0)
        /\ offset = Transfer!Skip => At(w, rd.num + 1) = 0
    BY <1>1, <1>2, <2>3, AnsweredWriter
  <2> HIDE DEF w
  <2>5. offset # Transfer!Skip => offset <= Size[rd.num]
       /\ (IF offset > 0 THEN offset ELSE 0) = offset
    <3>1. Size[rd.num] \in Nat
      BY <1>1, Ranges
    <3>2. offset > 0 => Transfer!Transferred(rd.num) <= Size[rd.num]
      BY <1>1, <2>3, TransferredIs DEF Data, Content, Transfer!Transferred, Control, Types
    <3> QED
      BY <2>2, <2>3, <3>1, <3>2
  <2>6. Placed'
    <3>1. CASE offset = Transfer!Skip
      <4>1. Ahead' = rd.num + 1
        BY <1>3, <2>2, <3>1 DEF RNum
      <4>2. At(Taker, rd.num)' = 0
        BY <2>1, <2>2, <2>4, <3>1
      <4> QED
        BY <1>3, <2>1, <2>2, <2>4, <3>1, <4>1, <4>2, PlacedEmpty
    <3>2. CASE offset # Transfer!Skip
      <4>1. Ahead' = rd.num
        BY <1>3, <2>2, <3>2 DEF RNum
      <4>2. At(Taker, rd.num)' = offset
        BY <2>1, <2>2, <2>4, <2>5, <3>2
      <4> QED
        BY <1>3, <2>1, <2>2, <2>4, <2>5, <3>2, <4>1, <4>2, PlacedEmpty
    <3> QED
      BY <3>1, <3>2
  <2>7. OfferFits'
    BY <1>1, <2>1, <2>3 DEF OfferFits, Resumes
  <2> QED
    BY <1>1, <1>4, <2>6, <2>7, QuietData
<1> QED
  BY <1>5, <1>6, OnAskIs

LEMMA AnswerData ==
  ASSUME Transfer!FilesAssumption, Control, Data, UNCHANGED upload, Transfer!Answer PROVE Data'
<1>1. /\ Waiting /\ toW = <<>> /\ toR = <<>> /\ rd.on /\ wr.on /\ rd.num \in Transfer!Files
      /\ ~HasConfirm /\ Taker = wr /\ ~Blocked /\ toW' = <<>>
      /\ UNCHANGED <<upload, ver, part, dig, misplaced>>
  BY AnswerIs
<1>2. PICK offset \in {0, Transfer!Skip} :
        IF upload THEN rd' = Transfer!ConfirmedReader(rd.num, offset) /\ UNCHANGED <<wr, toR>>
        ELSE /\ wr' = Transfer!ConfirmedWriter(rd.num, offset) /\ UNCHANGED rd
             /\ toR' = <<[t |-> "confirm", f |-> rd.num, off |-> offset]>>
  BY AnswerIs
<1>3. offset \in Offsets /\ OfferOf(offset)
  BY Ranges DEF OfferOf, Transfer!Skip
<1>4. wr.num \in Nat /\ rd.num \in Nat /\ wr \in Writers /\ Size[rd.num] \in Nat
  BY <1>1, TakerTyped, Ranges
<1>5. CASE upload
  <2>1. rd' = Transfer!ConfirmedReader(rd.num, offset) /\ wr' = wr /\ toR' = <<>>
    BY <1>1, <1>2, <1>5
  <2>2. /\ rd'.on
        /\ offset = Transfer!Skip => rd'.num = rd.num + 1 /\ ~rd'.confirmed
        /\ offset # Transfer!Skip => rd'.num = rd.num /\ rd'.pos = offset /\ rd'.confirmed
    BY <1>1, <1>3, <2>1, AnsweredReader
  <2>3. ~HasConfirm' /\ Queue' = <<>> /\ Taker' = wr
    BY <1>1, <2>1 DEF HasConfirm, Queue, Taker
  <2>4. ~Skipping /\ Offered = 0
    BY <1>1, NotSkipping
  <2>5. wr.num <= rd.num /\ At(wr, rd.num) = 0
    BY <1>1, <2>4, WaitData
  <2>6. ~Skipping' /\ Offered' = 0 /\ Ahead' = rd'.num
    BY <2>1, <2>2 DEF Skipping, Offered, Ahead, RNum
  <2>7. Placed'
    <3>1. CASE offset = Transfer!Skip
      <4>1. At(Taker, rd.num)' = 0 /\ wr.num <= rd'.num
        BY <1>4, <2>2, <2>3, <2>5, <3>1 DEF At
      <4> QED
        BY <2>2, <2>3, <2>6, <3>1, <4>1, PlacedEmpty
    <3>2. CASE offset # Transfer!Skip
      <4>1. At(Taker, rd.num)' = 0 /\ wr.num <= rd'.num /\ rd'.pos = 0 /\ 0 <= Size[rd'.num]
        BY <1>4, <2>2, <2>3, <2>5, <3>2
      <4> QED
        BY <2>2, <2>3, <2>6, <3>2, <4>1, PlacedEmpty
    <3> QED
      BY <3>1, <3>2
  <2>8. OfferFits'
    BY <2>1, <2>3 DEF OfferFits
  <2> QED
    BY <1>1, <1>4, <2>1, <2>7, <2>8, QuietData
<1>6. CASE ~upload
  <2>1. /\ rd' = rd /\ wr' = Transfer!ConfirmedWriter(rd.num, offset)
        /\ toR' = <<[t |-> "confirm", f |-> rd.num, off |-> offset]>>
    BY <1>2, <1>6
  <2>2. wr' \in Writers /\ wr'.on
    BY <1>1, <1>3, <1>4, <2>1, ConfirmedWriterIs
  <2> QED
    BY <1>1, <1>3, <1>6, <2>1, <2>2, DecidedData
<1> QED
  BY <1>5, <1>6

LEMMA OnConfirmReaderData ==
  ASSUME Transfer!FilesAssumption, Control, Data, UNCHANGED upload,
       Transfer!OnConfirmReader PROVE Data'
<1> DEFINE offset == toR[1].off
           b == At(wr, rd.num)
<1>1. /\ toR # <<>> /\ Tail(toR) = <<>> /\ Waiting /\ ask = Transfer!None /\ toW = <<>>
           /\ toR[1] = Head(toR)
      /\ toR[1] \in ToReader
      /\ toR[1].f = rd.num /\ toR[1].t = "confirm" /\ rd.on /\ wr.on /\ rd.num \in Transfer!Files
      /\ upload => offset = 0
  BY TokenAlone DEF Transfer!OnConfirmReader
<1>2. /\ toR' = <<>> /\ toW' = <<>> /\ rd' = Transfer!ConfirmedReader(rd.num, offset)
      /\ UNCHANGED <<upload, ver, wr, part, dig, misplaced>>
  BY <1>1 DEF Transfer!OnConfirmReader, Transfer!disk, Transfer!rest
<1>3. offset \in Offsets
  BY <1>1, Kinds
<1>4. /\ rd'.on
      /\ offset = Transfer!Skip => rd'.num = rd.num + 1 /\ ~rd'.confirmed
      /\ offset # Transfer!Skip => rd'.num = rd.num /\ rd'.pos = offset /\ offset \in Nat
           /\ rd'.confirmed
  BY <1>1, <1>2, <1>3, AnsweredReader
<1>5. Taker = wr /\ ~Blocked /\ ~HasConfirm' /\ Queue' = <<>> /\ Taker' = wr
  BY <1>1, <1>2 DEF HasConfirm, Queue, Taker, Blocked
<1>6. /\ b = Offered /\ (Skipping => At(wr, rd.num + 1) = 0)
      /\ wr.num <= Ahead
  BY <1>1, <1>5 DEF Data, Placed, Front, Waiting
<1>7. ~Skipping' /\ Offered' = 0 /\ Ahead' = rd'.num /\ Ahead = rd'.num
  BY <1>1, <1>2, <1>4 DEF Skipping, Offered, Ahead, RNum
<1>8. offset = Transfer!Skip => Skipping
  BY <1>1 DEF Skipping
<1>9. offset # Transfer!Skip => b = offset /\ offset \in Nat
  BY <1>1, <1>4, <1>6 DEF Offered
<1>10. offset # Transfer!Skip => offset <= Size[rd.num]
  <2>1. Size[rd.num] \in Nat
    BY <1>1, Ranges
  <2>2. offset # Transfer!Skip /\ offset # 0 => wr.num = rd.num /\ wr.pos = offset
       /\ wr.pos # Transfer!None
    BY <1>9 DEF At
  <2>3. offset # Transfer!Skip /\ offset # 0 => \E s \in part[rd.num] : Len(s) = offset
    BY <2>2 DEF Control, Roles, Storage
  <2>4. \A s \in part[rd.num] : Len(s) <= Size[rd.num]
    BY <1>1 DEF Data, Content
  <2> QED
    BY <1>9, <2>1, <2>3, <2>4
<1> HIDE DEF offset, b
<1>11. Placed'
  <2>1. CASE offset = Transfer!Skip
    <3>1. At(Taker, rd.num)' = 0
      BY <1>4, <1>5, <1>6, <1>8, <2>1
    <3> QED
      BY <1>4, <1>5, <1>6, <1>7, <2>1, <3>1, PlacedEmpty
  <2>2. CASE offset # Transfer!Skip
    <3>1. At(Taker, rd.num)' = offset
      BY <1>4, <1>5, <1>9, <2>2 DEF b
    <3> QED
      BY <1>4, <1>5, <1>6, <1>7, <1>10, <2>2, <3>1, PlacedEmpty
  <2> QED
    BY <2>1, <2>2
<1>12. OfferFits'
  BY <1>2, <1>5 DEF OfferFits
<1>13. wr.num \in Nat
  BY TakerTyped
<1> QED
  BY <1>1, <1>2, <1>11, <1>12, <1>13, QuietData

LEMMA OnConfirmWriterData ==
  ASSUME Transfer!FilesAssumption, Control, Data, UNCHANGED upload,
       Transfer!OnConfirmWriter PROVE Data'
<1> DEFINE f == toW[1].f
           offset == toW[1].off
<1>1. /\ HasConfirm /\ wr' = Taker /\ toW' = Queue /\ ~HasConfirm' /\ Queue' = Queue
           /\ Taker' = Taker /\ wr.on
      /\ toW[1] \in ToWriter /\ toW[1].t = "confirm"
  BY OnConfirmWriterControl
<1>2. UNCHANGED <<upload, ver, rd, toR, part, dig, misplaced>> /\ toR = <<>>
  BY <1>1 DEF Transfer!OnConfirmWriter, Transfer!disk, Transfer!rest, Control, Token, HasConfirm
<1>3. f \in Transfer!Files /\ offset \in Offsets /\ wr \in Writers
     /\ Taker = Transfer!ConfirmedWriter(f, offset) /\ Resumes(f, offset)
  BY <1>1, Kinds DEF Control, Types, Taker, Data, OfferFits
<1> HIDE DEF f, offset
<1>4. wr'.on /\ (wr'.pos # Transfer!None => wr'.num = wr.num /\ (wr'.pos = wr.pos \/ dig[wr'.num] = ver))
  <2>1. /\ Taker.on = wr.on
        /\ wr.num # f => Taker = wr
        /\ wr.num = f /\ offset = Transfer!Skip => Taker.num = f + 1 /\ Taker.pos = Transfer!None
        /\ offset # Transfer!Skip => Taker.num = wr.num
        /\ offset # Transfer!Skip /\ ~(wr.num = f /\ offset > 0 /\ part[f] # {} /\ dig[f] # 0)
             => Taker = wr
    BY <1>3, ConfirmedWriterIs
  <2> QED
    BY <1>1, <1>3, <2>1 DEF Resumes
<1>5. wr.num <= wr'.num /\ wr'.num \in Nat
  BY <1>1, TakerTyped
<1>6. Cur' = Cur /\ Skipping' = Skipping /\ Offered' = Offered /\ Front' = Front
  BY <1>1, <1>2 DEF Cur, RNum, Skipping, Offered, Front, Ahead, Blocked
<1>7. Placed'
  BY <1>1, <1>2, <1>4, <1>6 DEF Data, Placed, PlacedAt
<1>8. OfferFits'
  BY <1>1, <1>2 DEF OfferFits
<1> QED
  BY <1>1, <1>2, <1>4, <1>5, <1>7, <1>8, QuietData

\* What a block finds: the writer is where the block belongs.
LEMMA BlockFits ==
  ASSUME Transfer!FilesAssumption, Control, Data, Transfer!OnBlock
  PROVE  /\ At(wr, Cur) = From /\ wr.num <= Cur /\ Cur \in Transfer!Files /\ Cur \in Nat
              /\ Size[Cur] \in Nat
         /\ From \in Nat /\ From + Len(Load) <= Size[Cur] /\ Len(Load) \in 0..1
         /\ Load = <<>> => From = Size[Cur]
         /\ Load # <<>> => Load[1] = From + 1 /\ Len(Load) = 1
         /\ Blocked
<1>1. /\ toW # <<>> /\ toW[1].t = "block" /\ wr.on /\ Queue = toW /\ Taker = wr /\ toW[1].f = Cur
      /\ toW[1].f \in Transfer!Files /\ Len(toW) \in Nat \ {0}
  BY BlockIs
<1>2. Cur \in Transfer!Files /\ Cur \in Nat /\ Size[Cur] \in Nat
  BY <1>1, Ranges
<1>3. At(wr, Cur) = From
  BY <1>1 DEF At, From, Fresh
<1>4. Blocked /\ Front = Cur
  BY <1>1 DEF Blocked, Front
<1>5. wr.num <= Cur
  BY <1>1, <1>4 DEF Data, Placed
<1>6. /\ From \in Nat /\ Len(Load) \in 0..1 /\ (Load = <<>> => Len(Load) = 0)
      /\ (Load # <<>> => Len(Load) = 1)
  BY BeforeIs
<1>7. PlacedAt(toW, 1)
  BY <1>1 DEF Data, Placed
<1>8. IF Load = <<>> THEN From + 1 - 1 = Size[Cur]
      ELSE Load = <<From + 1>> /\ From + 1 <= Size[Cur]
  BY <1>1, <1>3, <1>7 DEF PlacedAt, Load
<1>9. CASE Load = <<>>
  BY <1>2, <1>3, <1>4, <1>5, <1>6, <1>8, <1>9
<1>10. CASE Load # <<>>
  <2>1. Load[1] = From + 1
    BY <1>8, <1>10
  <2> QED
    BY <1>2, <1>3, <1>4, <1>5, <1>6, <1>8, <1>10, <2>1
<1> QED
  BY <1>9, <1>10

LEMMA AfterIs ==
  ASSUME Transfer!FilesAssumption, Control, Data, Transfer!OnBlock
  PROVE  /\ dig'[Cur] = ver /\ ver # 0 /\ Len(After) = From + Len(Load)
         /\ \A i \in 1..Len(After) : After[i] = <<ver, i>>
<1>1. toW[1].f = Cur /\ Cur \in Transfer!Files /\ ver \in Nat \ {0}
  BY BlockIs, BlockFits
<1>2. dig'[Cur] = IF Fresh THEN ver ELSE dig[Cur]
  BY <1>1, BlockDoes
<1>3. ~Fresh => dig[Cur] = ver
  BY <1>1 DEF Fresh, Data, Open
<1>4. /\ Before \in Seq(Pairs) /\ Len(Before) = From /\ From \in Nat
      /\ After \in Seq(Pairs) /\ Len(After) = From + Len(Load)
      /\ ~Fresh => part[Cur] = {Before}
  BY <1>1, BeforeIs
<1>5. \A i \in 1..Len(Before) : Before[i] = <<ver, i>>
  <2>1. CASE Fresh
    BY <2>1 DEF Before
  <2>2. CASE ~Fresh
    BY <1>1, <1>3, <1>4, <2>2 DEF Data, Content
  <2> QED
    BY <2>1, <2>2
<1>6. CASE Load = <<>>
  BY <1>1, <1>2, <1>3, <1>4, <1>5, <1>6 DEF After
<1>7. CASE Load # <<>>
  <2>1. Load[1] = From + 1
    BY <1>7, BlockFits
  <2>2. After = Append(Before, <<ver, From + 1>>)
    BY <1>7, <2>1 DEF After
  <2>3. <<ver, From + 1>> \in Pairs
    BY <1>1, <1>4 DEF Pairs
  <2>4. \A i \in 1..Len(After) : After[i] = <<ver, i>>
    <3> HIDE DEF Before, After, From
    <3>1. /\ Len(After) = Len(Before) + 1 /\ After[Len(Before) + 1] = <<ver, From + 1>>
          /\ \A i \in 1..Len(Before) : After[i] = Before[i]
      BY <1>4, <2>2, <2>3, AppendProperties
    <3>2. \A i \in 1..Len(After) : i \in 1..Len(Before) \/ i = Len(Before) + 1
      BY <1>4, <3>1
    <3> QED
      BY <1>4, <1>5, <3>1, <3>2
  <2> QED
    BY <1>1, <1>2, <1>3, <1>4, <2>4
<1> QED
  BY <1>6, <1>7

LEMMA OnBlockData ==
  ASSUME Transfer!FilesAssumption, Control, Data, UNCHANGED upload, Transfer!OnBlock PROVE Data'
<1>1. /\ toW # <<>> /\ toW[1].t = "block" /\ wr.on /\ toW[1].f = Cur
      /\ ~HasConfirm /\ Queue = toW /\ Taker = wr /\ ~HasConfirm' /\ Queue' = toW' /\ Taker' = wr'
      /\ Len(toW) \in Nat \ {0} /\ Len(toW') = Len(toW) - 1
      /\ \A i \in 1..Len(toW') : i + 1 \in 1..Len(toW) /\ toW'[i] = toW[i + 1]
      /\ toR = <<>> /\ ShapeAt(toW, 1)
  BY BlockIs
<1>2. /\ part'[Cur] = {After}
      /\ \A g \in Transfer!Files : g # Cur => part'[g] = IF Fresh /\ g = wr.num THEN {} ELSE part[g]
      /\ \A g \in Transfer!Files : g # Cur => dig'[g] = IF Fresh /\ g = wr.num THEN 0 ELSE dig[g]
      /\ wr'.on /\ wr'.num = Cur /\ wr'.pos = From + Len(Load) /\ wr'.pos # Transfer!None
      /\ misplaced' = (misplaced \/ (Load # <<>> /\ Load[1] # From + 1))
      /\ UNCHANGED <<upload, ver, rd, toR, meta>>
  BY <1>1, BlockDoes
<1>3. /\ At(wr, Cur) = From /\ wr.num <= Cur /\ Cur \in Transfer!Files /\ Cur \in Nat
           /\ Size[Cur] \in Nat
      /\ From \in Nat /\ From + Len(Load) <= Size[Cur] /\ Len(Load) \in 0..1
      /\ Load # <<>> => Load[1] = From + 1 /\ Len(Load) = 1
  BY BlockFits
<1>4. dig'[Cur] = ver /\ ver # 0 /\ Len(After) = From + Len(Load)
      /\ \A i \in 1..Len(After) : After[i] = <<ver, i>>
  BY AfterIs
<1>5. Cur' = Cur /\ RNum' = RNum
  BY <1>2 DEF Cur, RNum
<1>6. ~misplaced'
  BY <1>2, <1>3 DEF Data
<1>7. Content'
  <2> SUFFICES ASSUME NEW g \in Transfer!Files, NEW s \in part'[g]
               PROVE  dig'[g] # 0 /\ Len(s) <= Size[g] /\ \A i \in 1..Len(s) : s[i] = <<dig'[g], i>>
    BY DEF Content
  <2>1. CASE g = Cur
    <3>1. s = After
      BY <1>2, <2>1
    <3> QED
      BY <1>3, <1>4, <2>1, <3>1
  <2>2. CASE g # Cur
    <3>1. ~(Fresh /\ g = wr.num) /\ part'[g] = part[g] /\ dig'[g] = dig[g]
      BY <1>2, <2>2
    <3> QED
      BY <3>1 DEF Data, Content
  <2> QED
    BY <2>1, <2>2
<1>8. Open' /\ OfferFits'
  BY <1>1, <1>2, <1>4 DEF Open, OfferFits
<1>9. NoneAhead'
  <2>1. \A g \in Transfer!Files : g > wr.num => part[g] = {}
    BY <1>1 DEF Data, NoneAhead, At0
  <2>2. wr.num \in Nat
    BY TakerTyped
  <2>3. \A g \in Transfer!Files : g > Cur => g # Cur /\ g > wr.num
    BY <1>3, <2>2, Ranges
  <2>4. \A g \in Transfer!Files : g > Cur => part'[g] = {}
    BY <1>2, <2>1, <2>3
  <2> QED
    BY <1>2, <2>4 DEF NoneAhead, At0
<1>10. Placed'
  <2>1. At(wr', Cur) = From + Len(Load)
    BY <1>2 DEF At
  <2>2. \A i \in 1..Len(toW') : PlacedAt(toW, i)'
    <3> SUFFICES ASSUME NEW i \in 1..Len(toW'), toW'[i].t = "block"
        PROVE  IF toW'[i].d = <<>> THEN At(wr', Cur) + i - 1 = Size[Cur]
               ELSE toW'[i].d = <<At(wr', Cur) + i>> /\ At(wr', Cur) + i <= Size[Cur]
      BY <1>1, <1>5 DEF PlacedAt
    <3>1. i + 1 \in 1..Len(toW) /\ toW'[i] = toW[i + 1] /\ i \in Nat \ {0}
      BY <1>1
    <3>2. PlacedAt(toW, i + 1)
      BY <1>1, <3>1 DEF Data, Placed
    <3>3. IF toW[i + 1].d = <<>> THEN From + (i + 1) - 1 = Size[Cur]
          ELSE toW[i + 1].d = <<From + (i + 1)>> /\ From + (i + 1) <= Size[Cur]
      BY <1>1, <1>3, <3>1, <3>2 DEF PlacedAt
    <3>4. Load # <<>>
      <4>1. SUFFICES ASSUME Load = <<>> PROVE FALSE
        OBVIOUS
      <4>2. 1 < Len(toW) /\ 2 \in 1..Len(toW)
        BY <1>1, <3>1
      <4>3. toW[2].t # "block"
        BY <1>1, <4>1, <4>2 DEF ShapeAt, Load
      <4>4. 2 = Len(toW)
        BY <1>1, <4>2, <4>3 DEF Control, QueueShape, ShapeAt
      <4>6. i + 1 \in 1..2 /\ i \in Nat \ {0}
        BY <3>1, <4>4
      <4>5. i + 1 = 2
        BY <4>6
      <4> QED
        BY <3>1, <4>3, <4>5
    <3>5. At(wr', Cur) = From + 1
      BY <1>3, <2>1, <3>4
    <3>6. From + (i + 1) - 1 = From + 1 + i - 1 /\ From + (i + 1) = From + 1 + i
      BY <1>3, <3>1
    <3> HIDE DEF From
    <3> QED
      BY <3>1, <3>3, <3>5, <3>6
  <2>3. rd.confirmed => rd.pos = At(wr', rd.num) + Len(toW') /\ rd.pos <= Size[rd.num]
    <3>1. SUFFICES ASSUME rd.confirmed PROVE rd.pos = At(wr', rd.num) + Len(toW')
         /\ rd.pos <= Size[rd.num]
      OBVIOUS
    <3>2. Cur = rd.num /\ Load # <<>>
      BY <1>1, <3>1 DEF Cur, ShapeAt, Load
    <3>3. rd.pos = From + Len(toW) /\ rd.pos <= Size[rd.num]
      BY <1>1, <1>3, <3>1, <3>2 DEF Data, Placed
    <3>4. At(wr', rd.num) = From + 1
      BY <1>3, <2>1, <3>2
    <3> HIDE DEF From
    <3> QED
      BY <1>1, <1>3, <3>3, <3>4
  <2>4. rd.on /\ ~rd.confirmed => At(wr', rd.num) = 0
    <3>1. SUFFICES ASSUME rd.on, ~rd.confirmed PROVE At(wr', rd.num) = 0
      OBVIOUS
    <3>2. Cur = rd.num - 1 /\ rd.num \in Nat
      BY <3>1, TakerTyped DEF Cur, RNum
    <3>3. Cur # rd.num
      BY <3>2
    <3> QED
      BY <1>2, <3>3 DEF At
  <2>5. ~Skipping' /\ Offered' = 0 /\ Ahead' = RNum
    BY <1>1, <1>2, <1>5 DEF Skipping, Offered, Ahead
  <2>6. Cur <= Front'
    <3>1. RNum \in Nat /\ (rd.confirmed => RNum = rd.num)
      BY TakerTyped DEF RNum, Control, Roles
    <3>2. Cur <= RNum
      BY <1>3, <3>1 DEF Cur
    <3> QED
      BY <1>3, <1>5, <2>5, <3>2 DEF Front
  <2> QED
    BY <1>1, <1>2, <2>2, <2>3, <2>4, <2>5, <2>6 DEF Placed
<1> QED
  BY <1>6, <1>7, <1>8, <1>9, <1>10 DEF Data

\* No job runs after the step.
LEMMA IdleData ==
  ASSUME toW' = <<>>, toR' = <<>>, ~rd'.on, ~rd'.confirmed, ~wr'.on, wr'.pos = Transfer!None,
         ~misplaced', Content', NoneAhead'
  PROVE  Data'
<1>1. ~HasConfirm' /\ Queue' = <<>> /\ ~Skipping'
  BY DEF HasConfirm, Queue, Skipping
<1>2. Placed'
  BY <1>1, PlacedEmpty
<1>3. OfferFits' /\ Open'
  BY <1>1 DEF OfferFits, Open
<1> QED
  BY <1>2, <1>3 DEF Data

LEMMA Stopped ==
  ASSUME rd' = Transfer!NoReader, wr' = Transfer!NoWriter
  PROVE  ~rd'.on /\ ~rd'.confirmed /\ ~wr'.on /\ wr'.pos = Transfer!None /\ wr'.num = 0
       /\ rd'.pos = Transfer!None
BY DEF Transfer!NoReader, Transfer!NoWriter

LEMMA OnDoneData ==
  ASSUME Transfer!FilesAssumption, Control, Data, UNCHANGED upload, Transfer!OnDone PROVE Data'
<1>1. /\ wr.on /\ ~rd.on /\ toW' = <<>> /\ toR' = <<>> /\ ~rd'.on /\ ~rd'.confirmed
      /\ part' = Transfer!Unparted(wr.num) /\ dig' = Transfer!Undigested(wr.num)
      /\ wr' = Transfer!NoWriter /\ UNCHANGED <<meta, misplaced>>
  BY DoneIs
<1>2. ~wr'.on /\ wr'.pos = Transfer!None
  BY <1>1 DEF Transfer!NoWriter
<1>3. meta' = Transfer!None
  BY <1>1 DEF Control, Roles
<1>4. Content'
  BY <1>1 DEF Data, Content, Transfer!Unparted, Transfer!Undigested
<1> QED
  BY <1>1, <1>2, <1>3, <1>4, IdleData DEF Data, NoneAhead

LEMMA CancelData ==
  ASSUME Transfer!FilesAssumption, Control, Data, UNCHANGED upload, Transfer!Cancel PROVE Data'
<1>1. /\ wr.on /\ rd' = Transfer!NoReader /\ wr' = Transfer!NoWriter /\ toW' = <<>> /\ toR' = <<>>
      /\ part' = [f \in Transfer!Files |-> IF f = wr.num THEN {} ELSE part[f]]
      /\ dig' = [f \in Transfer!Files |-> IF f = wr.num THEN 0 ELSE dig[f]]
      /\ UNCHANGED <<meta, misplaced>>
  BY DEF Transfer!Cancel, Transfer!rest
<1>2. meta' = Transfer!None
  BY <1>1 DEF Control, Roles
<1>3. Content'
  BY <1>1 DEF Data, Content
<1> QED
  BY <1>1, <1>2, <1>3, Stopped, IdleData DEF Data, NoneAhead

\* The writer is not ahead of the reader of an upload.
LEMMA WriterBehind ==
  ASSUME Transfer!FilesAssumption, Control, Data, wr.on, ~Skipping
  PROVE  wr.num <= RNum
<1>1. /\ wr.num \in Nat /\ wr.num <= Taker.num /\ Taker.num \in Nat /\ RNum \in Nat /\ Cur \in Int
      /\ rd.num \in Nat
  BY TakerTyped
<1>2. Taker.num <= Front
  BY DEF Data, Placed
<1>3. Cur <= RNum
  <2>1. rd.confirmed => RNum = rd.num
    BY DEF RNum, Control, Roles
  <2> QED
    BY <1>1, <2>1 DEF Cur
<1>4. Front = Cur \/ Front = RNum
  BY DEF Front, Ahead
<1> QED
  BY <1>1, <1>2, <1>3, <1>4

LEMMA UploadNeverSkips ==
  ASSUME Transfer!FilesAssumption, Control, upload PROVE ~Skipping
<1>1. SUFFICES ASSUME toR # <<>> PROVE toR[1].off # Transfer!Skip
  BY DEF Skipping
<1>2. toR[1] \in ToReader
  BY <1>1, Heads DEF Control, Types
<1>3. toR[1].t = "confirm" => toR[1].off = 0
  BY <1>1 DEF Control, Token
<1>4. toR[1].t = "ask" => toR[1].off \in Nat
  BY <1>2, Kinds
<1>5. toR[1].t \in {"confirm", "ask"}
  BY <1>2, Kinds
<1>6. Transfer!Skip \notin Nat /\ 0 \in Nat
  BY Ranges
<1> QED
  BY <1>3, <1>4, <1>5, <1>6

LEMMA DropData ==
  ASSUME Transfer!FilesAssumption, Control, Data, UNCHANGED upload, Transfer!Drop PROVE Data'
<1>1. /\ rd' = Transfer!NoReader /\ wr' = Transfer!NoWriter /\ toW' = <<>> /\ toR' = <<>>
           /\ meta' = Transfer!Saved
      /\ UNCHANGED <<part, dig, misplaced>>
  BY DEF Transfer!Drop, Transfer!disk
<1>2. Content' /\ ~misplaced'
  BY <1>1 DEF Data, Content
<1>3. meta' # Transfer!None => wr.on /\ wr.num <= meta' /\ meta' \in Nat
  <2>1. wr.num \in Nat /\ rd.num \in Nat /\ N \in Nat
    BY TakerTyped, Ranges
  <2>2. CASE upload
    <3>1. meta' # Transfer!None => rd.on /\ meta' = rd.num
      BY <1>1, <2>2 DEF Transfer!Saved
    <3>2. rd.on => wr.on /\ RNum = rd.num
      BY DEF Control, Roles, RNum
    <3> QED
      BY <2>1, <2>2, <3>1, <3>2, UploadNeverSkips, WriterBehind
  <2>3. CASE ~upload
    <3>1. meta' # Transfer!None => wr.on /\ meta' = wr.num
      BY <1>1, <2>3 DEF Transfer!Saved
    <3> QED
      BY <2>1, <3>1
  <2> QED
    BY <2>2, <2>3
<1>4. NoneAhead'
  <2>1. SUFFICES ASSUME meta' # Transfer!None, NEW f \in Transfer!Files, f > meta'
       PROVE part[f] = {}
    BY <1>1, Stopped DEF NoneAhead, At0
  <2>2. f > wr.num
    BY <1>3, <2>1, TakerTyped, Ranges
  <2> QED
    BY <1>3, <2>1, <2>2 DEF Data, NoneAhead, At0
<1> QED
  BY <1>1, <1>2, <1>4, Stopped, IdleData

LEMMA EditData ==
  ASSUME Transfer!FilesAssumption, Control, Data, spoilt = {}, spoilt' = {}, Transfer!Edit
  PROVE  Data'
<1>1. UNCHANGED <<rd, wr, toW, toR, part, dig, meta, misplaced>> /\ Transfer!Idle
  BY EditIs
<1>2. ~misplaced' /\ Content' /\ NoneAhead'
  BY <1>1 DEF Data, Content, NoneAhead, At0
<1> QED
  BY <1>1, <1>2, AtIdle, IdleData

LEMMA BeginData ==
  ASSUME Transfer!FilesAssumption, NEW n \in Numbers, NEW b \in BOOLEAN,
       Transfer!Begin(n, b),
         ~misplaced', Content', \A f \in Transfer!Files : f > n => part[f] = {}
  PROVE  Data'
<1>1. toW' = <<>> /\ toR' = <<>> /\ part' = part
  BY DEF Transfer!Begin, Transfer!Idle, Transfer!disk
<1>2. rd'.on /\ ~rd'.confirmed /\ rd'.num = n /\ wr'.on /\ wr'.num = n /\ wr'.pos = Transfer!None
  BY DEF Transfer!Begin, Transfer!NoReader, Transfer!NoWriter
<1>3. ~HasConfirm' /\ Queue' = <<>> /\ Taker' = wr' /\ ~Skipping' /\ Offered' = 0
  BY <1>1 DEF HasConfirm, Queue, Taker, Skipping, Offered
<1>4. Ahead' = n /\ At(Taker, rd.num)' = 0 /\ n <= n
  BY <1>2, <1>3, Ranges DEF Ahead, RNum, At
<1>5. Placed'
  BY <1>2, <1>3, <1>4, PlacedEmpty
<1>6. OfferFits' /\ Open' /\ NoneAhead'
  BY <1>1, <1>2, <1>3 DEF OfferFits, Open, NoneAhead, At0
<1> QED
  BY <1>5, <1>6 DEF Data

LEMMA DataStep ==
  ASSUME Transfer!FilesAssumption, Control, Data, spoilt = {}, spoilt' = {}, stamp = ver,
         ~Transfer!Start, [Transfer!Next]_Transfer!vars
  PROVE  Data'
<1>1. CASE UNCHANGED upload /\ Transfer!Resume
  <2>1. /\ meta \in Numbers /\ Transfer!Begin(meta, TRUE)
             /\ UNCHANGED <<misplaced, part, dig>>
        /\ meta # Transfer!None
    BY <1>1 DEF Transfer!Resume, Transfer!Begin, Transfer!disk, Control, Types
  <2>3. ~wr.on
    BY <2>1 DEF Transfer!Begin, Transfer!Idle
  <2>4. Content' /\ ~misplaced' /\ \A f \in Transfer!Files : f > meta => part[f] = {}
    BY <2>1, <2>3 DEF Data, Content, NoneAhead, At0
  <2> QED
    BY <2>1, <2>4, BeginData
<1>2. CASE UNCHANGED Transfer!vars
  <2>1. UNCHANGED <<upload, ver, rd, wr, ask, toW, toR, part, dig, meta, misplaced, spoilt>>
    BY <1>2 DEF Transfer!vars, Transfer!jobs, Transfer!disk, Transfer!rest
  <2>3. HasConfirm' = HasConfirm /\ Queue' = Queue /\ Taker' = Taker
    BY <2>1, ViewSame
  <2>4. Cur' = Cur /\ Skipping' = Skipping /\ Offered' = Offered /\ Front' = Front
    BY <2>1, <2>3 DEF Cur, RNum, Skipping, Offered, Front, Ahead, Blocked
  <2>5. Placed'
    BY <2>1, <2>3, <2>4 DEF Data, Placed, PlacedAt
  <2>6. OfferFits' /\ Content' /\ Open' /\ NoneAhead' /\ ~misplaced'
    BY <2>1, <2>3 DEF Data, OfferFits, Resumes, Content, Open, NoneAhead, At0
  <2> QED
    BY <2>5, <2>6 DEF Data
<1> QED
  BY <1>1, <1>2, Unhurt, DropData, CancelData, EditData, AnnounceData, ReadBlockData, FinishData,
     OnDigestData, OnCheckDigestData, OnAskData, AnswerData, OnConfirmReaderData,
     OnConfirmWriterData, OnBlockData, OnDoneData DEF Transfer!Next

-----------------------------------------------------------------------------
(* A download: what stands under the name of each file. *)

Good(f) == kept[f] # {} \/ \E v \in 1..ver : final[f] = {Transfer!Whole(v, f)}

AllGood == ended = "done" => \A f \in Transfer!Files : Good(f)
Skipped == \A f \in Transfer!Files : kept[f] # {} => kept[f] = {<<final[f]>>}
Behind == wr.on \/ meta # Transfer!None => \A f \in Transfer!Files : f < At0 => Good(f)

\* The writer has all of its file when nothing more of it is to come.
Complete ==
  wr.pos # Transfer!None /\ wr.num < RNum /\ ~(Blocked /\ wr.num = Cur) => wr.pos = Size[wr.num]

\* The writer is at the file that is next, or all it has passed over is skipped.
Position ==
  wr.on => IF wr.pos = Transfer!None THEN wr.num = Front
           ELSE \A f \in Transfer!Files : wr.num < f /\ f < Front => kept[f] # {}

NotKept ==
  /\ (wr.on \/ meta # Transfer!None) /\ At0 \in Transfer!Files /\ kept[At0] # {} => part[At0] = {}
  /\ Blocked => kept[Cur] = {}
  /\ rd.confirmed => kept[rd.num] = {}
  /\ toR # <<>> => (kept[rd.num] # {} <=> toR[1].off = Transfer!Skip)

Download == AllGood /\ Skipped /\ Behind /\ Complete /\ Position /\ NotKept

LEMMA SendBlocked ==
  ASSUME Transfer!FilesAssumption, Control, rd.on, ~Waiting, NEW m \in ToWriter, m.t # "confirm",
       Transfer!Send(m),
         UNCHANGED <<wr, part, dig>>
  PROVE  /\ m.t = "block" => Blocked'
         /\ m.t # "block" => (Blocked' <=> Blocked)
<1> DEFINE q == Queue
           p == Queue'
<1>1. q \in Seq(ToWriter) /\ p = Append(q, m)
  BY ViewSend DEF Control
<1> HIDE DEF q, p
<1>2. Len(p) = Len(q) + 1 /\ Len(q) \in Nat
     /\ \A i \in 1..Len(p) : p[i] = IF i <= Len(q) THEN q[i] ELSE m
  BY <1>1, AppendProperties
<1>3. CASE q = <<>>
  <2>1. p[1] = m /\ p # <<>>
    BY <1>1, <1>3
  <2> QED
    BY <1>3, <2>1 DEF Blocked, q, p
<1>4. CASE q # <<>>
  <2>1. 1 \in 1..Len(q) /\ 1 \in 1..Len(p)
    BY <1>1, <1>2, <1>4, EmptySeq
  <2>2. q[1].t = "block"
    <3>1. ShapeAt(Queue, 1)
      BY <2>1 DEF Control, QueueShape, q
    <3>2. q[1].t \in {"digest", "block", "confirm", "done"}
      BY <1>1, <2>1, Kinds
    <3> QED
      BY <3>1, <3>2 DEF ShapeAt, Waits, q
  <2>3. p[1] = q[1] /\ p # <<>>
    BY <1>1, <1>2, <2>1
  <2> QED
    BY <1>4, <2>2, <2>3 DEF Blocked, q, p
<1> QED
  BY <1>3, <1>4

\* The files and the writer are left alone, the reader goes on.
LEMMA QuietDownload ==
  ASSUME Transfer!FilesAssumption, Control, Data, Download, wr.on,
         wr'.on, wr'.num = wr.num, wr'.pos = wr.pos, Front' = Front,
         RNum' \in Nat, RNum' = RNum \/ (wr.pos # Transfer!None => wr.num # RNum)
              \/ (Blocked' /\ Cur' = RNum),
         RNum' <= RNum + 1,
         Blocked => Blocked' /\ Cur' = Cur, Blocked' => kept[Cur'] = {}, rd'.confirmed
              => kept[rd'.num] = {},
         toR' = <<>>, UNCHANGED <<ver, final, part, kept, meta, ended>>
  PROVE  Download'
<1>1. AllGood' /\ Skipped' /\ Behind'
  BY DEF Download, AllGood, Skipped, Behind, Good, At0
<1>2. Complete'
  <2> SUFFICES ASSUME wr.pos # Transfer!None, wr.num < RNum', ~(Blocked' /\ wr.num = Cur')
               PROVE  wr.pos = Size[wr.num]
    BY DEF Complete
  <2>1. wr.num < RNum
    BY TakerTyped
  <2>2. ~(Blocked /\ wr.num = Cur)
    OBVIOUS
  <2> QED
    BY <2>1, <2>2 DEF Download, Complete
<1>3. Position'
  BY DEF Download, Position
<1>4. NotKept'
  BY DEF Download, NotKept, At0
<1> QED
  BY <1>1, <1>2, <1>3, <1>4 DEF Download

LEMMA AnnounceDownload ==
  ASSUME Transfer!FilesAssumption, Control, Data, Download, stamp = ver, UNCHANGED upload,
         Transfer!Announce
  PROVE  Download'
<1> DEFINE m == [t |-> "digest", f |-> rd.num, v |-> ver, resume |-> rd.resume]
<1>1. /\ rd.on /\ rd.pos = Transfer!None /\ rd.num \in Transfer!Files /\ Transfer!Send(m)
      /\ UNCHANGED <<upload, ver, wr, toR, final, part, dig, kept, meta, ended>>
  BY DEF Transfer!Announce, Transfer!disk, Transfer!rest
<1>2. m \in ToWriter /\ m.t = "digest"
  BY <1>1 DEF ToWriter, Digests, Control, Types, Readers
<1> HIDE DEF m
<1>3. /\ wr.on /\ toR = <<>> /\ ~rd.confirmed /\ Cur' = Cur /\ rd'.on /\ rd'.num = rd.num
           /\ ~rd'.confirmed
  BY AnnounceControl
<1>4. Blocked' <=> Blocked
  BY <1>1, <1>2, SendBlocked DEF Waiting
<1>5. RNum' = RNum /\ RNum \in Nat
  BY <1>1, <1>3, TakerTyped DEF RNum
<1>6. Front' = Front
  BY <1>1, <1>3, <1>4, <1>5 DEF Front, Ahead, Skipping
<1>7. Blocked => kept[Cur] = {}
  BY DEF Download, NotKept
<1> QED
  BY <1>1, <1>3, <1>4, <1>5, <1>6, <1>7, QuietDownload

LEMMA FinishDownload ==
  ASSUME Transfer!FilesAssumption, Control, Data, Download, UNCHANGED upload,
       Transfer!Finish PROVE Download'
<1> DEFINE m == [t |-> "done", f |-> rd.num]
<1>1. /\ rd.on /\ rd.pos = Transfer!None /\ rd.num = N /\ Transfer!Send(m)
           /\ rd' = Transfer!NoReader
      /\ UNCHANGED <<upload, ver, wr, toR, final, part, dig, kept, meta, ended>>
  BY DEF Transfer!Finish, Transfer!disk, Transfer!rest
<1>2. m \in ToWriter /\ m.t = "done"
  BY <1>1, Ranges DEF ToWriter
<1> HIDE DEF m
<1>3. wr.on /\ toR = <<>> /\ ~rd'.on /\ ~rd'.confirmed /\ ~rd.confirmed
  BY <1>1, FinishControl DEF Transfer!NoReader, Control, Roles
<1>4. Blocked' <=> Blocked
  BY <1>1, <1>2, SendBlocked DEF Waiting
<1>5. RNum' = RNum /\ RNum \in Nat
  BY <1>1, <1>3, TakerTyped DEF RNum
<1>6. Cur' = Cur /\ Front' = Front
  BY <1>1, <1>3, <1>4, <1>5 DEF Front, Ahead, Skipping, Cur
<1>7. Blocked => kept[Cur] = {}
  BY DEF Download, NotKept
<1> QED
  BY <1>1, <1>3, <1>4, <1>5, <1>6, <1>7, QuietDownload

LEMMA ReadBlockDownload ==
  ASSUME Transfer!FilesAssumption, Control, Data, Download, UNCHANGED upload,
       Transfer!ReadBlock PROVE Download'
<1>1. /\ rd.on /\ rd.confirmed
      /\ UNCHANGED <<upload, ver, wr, toR, final, part, dig, kept, meta, ended>>
  BY DEF Transfer!ReadBlock, Transfer!disk, Transfer!rest
<1>2. /\ rd \in Readers /\ rd.num \in Transfer!Files /\ rd.pos \in Nat /\ ~Waiting
           /\ Cur = rd.num /\ RNum = rd.num
      /\ ver \in Nat /\ rd.num \in Nat /\ kept[rd.num] = {}
  BY <1>1, Ranges DEF Control, Roles, Types, Readers, Waiting, Cur, RNum, Download, NotKept
<1>3. wr.on /\ toR = <<>>
  BY ReadBlockControl
<1>4. Front = rd.num
  BY <1>2, <1>3, NotSkipping DEF Front
<1>5. /\ Blocked' /\ Cur' = Cur
      /\ \/ RNum' = rd.num /\ rd'.num = rd.num
         \/ RNum' = rd.num + 1 /\ ~rd'.confirmed
  <2>1. CASE rd.pos < Size[rd.num]
    <3> DEFINE m == [t |-> "block", f |-> rd.num, d |-> <<rd.pos + 1>>, v |-> ver]
    <3>1. rd' = [rd EXCEPT !.pos = @ + 1] /\ Transfer!Send(m)
      BY <2>1 DEF Transfer!ReadBlock
    <3>2. m \in ToWriter /\ m.t = "block"
      BY <1>2 DEF ToWriter, Blocks, Loads
    <3> HIDE DEF m
    <3>3. rd'.on /\ rd'.confirmed /\ rd'.num = rd.num
      BY <1>1, <1>2, <3>1 DEF Readers
    <3> QED
      BY <1>1, <1>2, <3>1, <3>2, <3>3, SendBlocked DEF Cur, RNum
  <2>2. CASE ~(rd.pos < Size[rd.num])
    <3> DEFINE m == [t |-> "block", f |-> rd.num, d |-> <<>>, v |-> ver]
    <3>1. rd' = Transfer!NextFile /\ Transfer!Send(m)
      BY <2>2 DEF Transfer!ReadBlock
    <3>2. m \in ToWriter /\ m.t = "block"
      BY <1>2 DEF ToWriter, Blocks, Loads
    <3> HIDE DEF m
    <3>3. rd'.on /\ ~rd'.confirmed /\ rd'.num = rd.num + 1
      BY <1>1, <1>2, <3>1, NextFileIs
    <3>4. Cur' = Cur /\ RNum' = rd.num + 1
      BY <1>2, <3>3 DEF Cur, RNum
    <3> QED
      BY <1>1, <1>2, <3>1, <3>2, <3>3, <3>4, SendBlocked
  <2> QED
    BY <2>1, <2>2
<1>6. Front' = Front
  BY <1>2, <1>4, <1>5 DEF Front
<1>7. RNum' \in Nat /\ RNum' <= RNum + 1
  BY <1>2, <1>5
<1> QED
  BY <1>1, <1>2, <1>3, <1>5, <1>6, <1>7, QuietDownload

LEMMA KeptIs ==
  ASSUME IsOn(kept), NEW f \in Transfer!Files, NEW offset, Transfer!Kept(f, offset)
  PROVE  /\ kept'[f] = (IF offset = Transfer!Skip THEN {<<final[f]>>} ELSE {})
         /\ \A g \in Transfer!Files : g # f => kept'[g] = kept[g]
BY DEF IsOn, Transfer!Kept

\* The client has decided about the file that the reader waits with.
LEMMA DecidedDownload ==
  ASSUME Transfer!FilesAssumption, Control, Data, Download, ~upload, Waiting, rd.on, wr.on,
       rd.num \in Transfer!Files,
         ~HasConfirm, ~Blocked, toR = <<>>,
         NEW offset \in Offsets, OfferOf(offset), wr'.on, Transfer!Kept(rd.num, offset),
         wr'.num = Transfer!ConfirmedWriter(rd.num, offset).num,
              wr'.pos = Transfer!ConfirmedWriter(rd.num, offset).pos,
         toR' = <<[t |-> "confirm", f |-> rd.num, off |-> offset]>>, toW' = <<>>,
         UNCHANGED <<upload, ver, rd, final, part, dig, meta, ended>>
  PROVE  Download'
<1> DEFINE w == Transfer!ConfirmedWriter(rd.num, offset)
           f == rd.num
<1>1. ~Skipping /\ Offered = 0 /\ Ahead = RNum /\ RNum = f
  BY NotSkipping DEF RNum
<1>2. Front = f
  BY <1>1 DEF Front
<1>3. wr.num <= f /\ At(wr, f) = 0 /\ (part[f] # {} => wr.num = f)
  BY <1>1, WaitData
<1>4. offset > 0 => wr.num = f /\ part[f] # {} /\ dig[f] = ver
  BY <1>3 DEF OfferOf
<1>5. /\ At(w, f) = (IF offset > 0 THEN offset ELSE 0)
      /\ offset # Transfer!Skip => w.num = wr.num
      /\ offset = Transfer!Skip /\ wr.num = f => w.num = f + 1 /\ w.pos = Transfer!None
      /\ wr.num # f => w = wr
      /\ offset = 0 => w = wr
  BY <1>3, <1>4, AnsweredWriter
<1>6. ~HasConfirm' /\ Queue' = <<>> /\ ~Blocked'
  BY DEF HasConfirm, Queue, Blocked
<1>7. toR' # <<>> /\ toR'[1].off = offset /\ toR'[1].t = "confirm"
  OBVIOUS
<1>8. (Skipping' <=> offset = Transfer!Skip)
     /\ Front' = (IF offset = Transfer!Skip THEN f + 1 ELSE f) /\ RNum' = f /\ rd'.num = f
  BY <1>6, <1>7 DEF Skipping, Front, Ahead, RNum
<1>9. /\ kept'[f] = (IF offset = Transfer!Skip THEN {<<final[f]>>} ELSE {})
      /\ \A g \in Transfer!Files : g # f => kept'[g] = kept[g]
  BY KeptIs DEF Control, Types
<1>10. wr.num \in Nat /\ f \in Nat
  BY TakerTyped
<1>11. /\ meta = Transfer!None /\ ended = "no" /\ ~rd'.confirmed /\ f \in Transfer!Files
       /\ wr'.num = w.num /\ wr'.pos = w.pos /\ f' = f
  BY DEF Control, Roles, Waiting
<1>12. offset \in Nat \/ offset = Transfer!Skip
  BY Ranges
<1> HIDE DEF w, f
<1>13. AllGood'
  BY <1>11 DEF AllGood
<1>14. Skipped'
  <2>1. \A g \in Transfer!Files : g # f /\ kept[g] # {} => kept[g] = {<<final[g]>>}
    BY DEF Download, Skipped
  <2> QED
    BY <1>9, <2>1 DEF Skipped
<1>15. \A g \in Transfer!Files : (g # f \/ offset = Transfer!Skip) /\ Good(g) => Good(g)'
  BY <1>9 DEF Good
<1>16. offset = Transfer!Skip => Good(f)'
  BY <1>9, <1>11 DEF Good
<1>17. Behind'
  <2> SUFFICES ASSUME NEW g \in Transfer!Files, g < w.num PROVE Good(g)'
    BY <1>11 DEF Behind, At0
  <2>1. g \in Nat
    BY Ranges
  <2>2. (g < wr.num /\ g # f) \/ (g = f /\ offset = Transfer!Skip)
    BY <1>3, <1>5, <1>10, <1>12, <2>1
  <2>3. g < wr.num => Good(g)
    BY DEF Download, Behind, At0
  <2> QED
    BY <1>11, <1>15, <1>16, <2>2, <2>3
<1>18. Complete'
  <2> SUFFICES ASSUME w.pos # Transfer!None, w.num < f PROVE w.pos = Size[w.num]
    BY <1>8, <1>11 DEF Complete
  <2>1. wr.num # f
    BY <1>5, <1>10, <1>12
  <2>2. w = wr /\ wr.num < RNum
    BY <1>1, <1>5, <2>1 DEF f
  <2> QED
    BY <2>2 DEF Download, Complete
<1>19. Position'
  <2>1. CASE w.pos = Transfer!None
    <3>1. w.num = Front'
      <4>1. CASE offset = Transfer!Skip /\ wr.num = f
        BY <1>5, <1>8, <4>1
      <4>2. CASE offset = Transfer!Skip /\ wr.num # f
        <5>1. w = wr /\ wr.pos = Transfer!None
          BY <1>5, <2>1, <4>2
        <5> QED
          BY <1>2, <4>2, <5>1 DEF Download, Position, f
      <4>3. CASE offset # Transfer!Skip
        <5>1. ~(offset > 0)
          <6>1. At(w, f) = 0
            BY <2>1 DEF At
          <6> QED
            BY <1>5, <1>12, <6>1
        <5>2. w = wr
          BY <1>5, <1>12, <4>3, <5>1
        <5> QED
          BY <1>2, <1>8, <2>1, <4>3, <5>2 DEF Download, Position, f
      <4> QED
        BY <4>1, <4>2, <4>3
    <3> QED
      BY <1>11, <2>1, <3>1 DEF Position
  <2>2. CASE w.pos # Transfer!None
    <3> SUFFICES ASSUME NEW g \in Transfer!Files, w.num < g, g < Front' PROVE kept'[g] # {}
      BY <1>11, <2>2 DEF Position
    <3>1. g \in Nat
      BY Ranges
    <3>2. CASE g = f
      <4>1. offset = Transfer!Skip
        BY <1>8, <1>10, <3>2
      <4> QED
        BY <1>9, <3>2, <4>1
    <3>3. CASE g # f
      <4>1. g < f
        BY <1>8, <1>10, <3>1, <3>3
      <4>2. wr.num # f
        BY <1>5, <1>10, <1>12, <2>2, <3>1, <4>1
      <4>3. w = wr
        BY <1>5, <4>2
      <4>4. kept[g] # {}
        BY <1>2, <2>2, <4>1, <4>3 DEF Download, Position, f
      <4> QED
        BY <1>9, <3>3, <4>4
    <3> QED
      BY <3>2, <3>3
  <2> QED
    BY <2>1, <2>2
<1>20. NotKept'
  <2>1. wr'.num \in Transfer!Files /\ kept'[wr'.num] # {} => part[wr'.num] = {}
    <3>1. SUFFICES ASSUME wr'.num \in Transfer!Files, kept'[wr'.num] # {} PROVE part[wr'.num] = {}
      OBVIOUS
    <3>2. CASE wr.num = f /\ offset = Transfer!Skip
      <4>1. wr'.num = f + 1 /\ f + 1 > wr.num
        BY <1>5, <1>10, <1>11, <3>2
      <4> QED
        BY <3>1, <4>1 DEF Data, NoneAhead, At0
    <3>3. CASE wr.num = f /\ offset # Transfer!Skip
      BY <1>5, <1>9, <1>11, <3>1, <3>3
    <3>4. CASE wr.num # f
      BY <1>5, <1>9, <1>11, <3>1, <3>4 DEF Download, NotKept, At0
    <3> QED
      BY <3>2, <3>3, <3>4
  <2>2. kept'[f] # {} <=> offset = Transfer!Skip
    BY <1>9
  <2> QED
    BY <1>6, <1>7, <1>8, <1>11, <2>1, <2>2 DEF NotKept, At0
<1> QED
  BY <1>13, <1>14, <1>17, <1>18, <1>19, <1>20 DEF Download

LEMMA OnDigestDownload ==
  ASSUME Transfer!FilesAssumption, Control, Data, Download, UNCHANGED upload,
       Transfer!OnDigest PROVE Download'
<1>1. /\ ~upload /\ Waiting /\ ask = Transfer!None /\ toR = <<>> /\ rd.on /\ wr.on
           /\ rd.num \in Transfer!Files
      /\ ~HasConfirm /\ Taker = wr /\ ~Blocked /\ toW' = <<>>
      /\ UNCHANGED <<upload, ver, rd, final, part, dig, meta, ended>>
  BY OnDigestIs
<1>2. wr \in Writers /\ ver \in Nat /\ wr.num \in Nat
  BY Ranges DEF Control, Types, Writers
<1>3. CASE ask' = rd.num /\ wr' = [wr EXCEPT !.dig = ver] /\ UNCHANGED <<toR, kept>>
  <2>1. wr'.on = wr.on /\ wr'.pos = wr.pos /\ wr'.num = wr.num
    BY <1>2, <1>3 DEF Writers
  <2>2. ~Blocked'
    BY <1>1 DEF HasConfirm, Queue, Blocked
  <2>3. RNum' = RNum /\ RNum \in Nat
    BY <1>1, TakerTyped DEF RNum
  <2>4. Front' = Front /\ ~rd'.confirmed
    BY <1>1, <1>3, <2>2, <2>3 DEF Front, Ahead, Skipping, Waiting
  <2> QED
    BY <1>1, <1>3, <2>1, <2>2, <2>3, <2>4, QuietDownload
<1>4. ASSUME NEW offset \in Offsets, OfferOf(offset), Transfer!Kept(rd.num, offset),
             wr' = [Transfer!ConfirmedWriter(rd.num, offset) EXCEPT !.dig = ver],
             toR' = <<[t |-> "confirm", f |-> rd.num, off |-> offset]>>
      PROVE  Download'
  <2>1. Transfer!ConfirmedWriter(rd.num, offset) \in Writers
       /\ Transfer!ConfirmedWriter(rd.num, offset).on
    BY <1>1, <1>2, <1>4, ConfirmedWriterIs
  <2>2. /\ wr'.on /\ wr'.num = Transfer!ConfirmedWriter(rd.num, offset).num
        /\ wr'.pos = Transfer!ConfirmedWriter(rd.num, offset).pos
    BY <1>2, <1>4, <2>1 DEF Writers
  <2> QED
    BY <1>1, <1>4, <2>2, DecidedDownload
<1> QED
  BY <1>3, <1>4, OnDigestIs

LEMMA AnswerDownload ==
  ASSUME Transfer!FilesAssumption, Control, Data, Download, ~upload, UNCHANGED upload,
       Transfer!Answer PROVE Download'
<1>1. /\ Waiting /\ toW = <<>> /\ toR = <<>> /\ rd.on /\ wr.on /\ rd.num \in Transfer!Files
      /\ ~HasConfirm /\ ~Blocked /\ toW' = <<>>
      /\ UNCHANGED <<upload, ver, final, part, dig, meta, ended>>
  BY AnswerIs
<1>2. PICK offset \in {0, Transfer!Skip} :
        /\ Transfer!Kept(rd.num, offset)
        /\ wr' = Transfer!ConfirmedWriter(rd.num, offset) /\ UNCHANGED rd
        /\ toR' = <<[t |-> "confirm", f |-> rd.num, off |-> offset]>>
  BY AnswerIs
<1>3. offset \in Offsets /\ OfferOf(offset)
  BY Ranges DEF OfferOf, Transfer!Skip
<1>4. wr'.on
  BY <1>1, <1>2, <1>3, ConfirmedWriterIs DEF Control, Types
<1> QED
  BY <1>1, <1>2, <1>3, <1>4, DecidedDownload

LEMMA OnConfirmReaderDownload ==
  ASSUME Transfer!FilesAssumption, Control, Data, Download, ~upload, UNCHANGED upload,
       Transfer!OnConfirmReader
  PROVE  Download'
<1> DEFINE offset == toR[1].off
<1>1. /\ toR # <<>> /\ Tail(toR) = <<>> /\ Waiting /\ toW = <<>> /\ toR[1] = Head(toR)
      /\ toR[1] \in ToReader
      /\ toR[1].f = rd.num /\ toR[1].t = "confirm" /\ rd.on /\ wr.on /\ rd.num \in Transfer!Files
  BY TokenAlone DEF Transfer!OnConfirmReader
<1>2. /\ toR' = <<>> /\ toW' = <<>> /\ rd' = Transfer!ConfirmedReader(rd.num, offset)
      /\ UNCHANGED <<upload, ver, wr, final, part, kept, meta, ended>>
  BY <1>1 DEF Transfer!OnConfirmReader, Transfer!disk, Transfer!rest
<1>3. offset \in Offsets
  BY <1>1, Kinds
<1>4. /\ rd'.on
      /\ offset = Transfer!Skip => rd'.num = rd.num + 1 /\ ~rd'.confirmed
      /\ offset # Transfer!Skip => rd'.num = rd.num
  BY <1>1, <1>2, <1>3, AnsweredReader
<1>5. ~Blocked /\ ~Blocked'
  BY <1>1, <1>2 DEF HasConfirm, Queue, Blocked
<1>6. Front' = Front /\ RNum' = rd'.num /\ RNum = rd.num
  BY <1>1, <1>2, <1>4, <1>5 DEF Front, Ahead, Skipping, RNum
<1>7. kept[rd.num] # {} <=> offset = Transfer!Skip
  BY <1>1 DEF Download, NotKept
<1>8. offset = Transfer!Skip => (wr.pos # Transfer!None => wr.num # RNum)
  <2>1. kept[rd.num] # {} /\ wr.num = rd.num => part[rd.num] = {}
    BY <1>1 DEF Download, NotKept, At0
  <2>2. wr.pos # Transfer!None => part[wr.num] # {}
    BY DEF Control, Roles
  <2> QED
    BY <1>6, <1>7, <2>1, <2>2
<1>9. RNum' \in Nat /\ RNum' <= RNum + 1
  BY <1>4, <1>6, TakerTyped
<1>10. rd'.confirmed => kept[rd'.num] = {}
  BY <1>4, <1>7
<1> HIDE DEF offset
<1> QED
  BY <1>1, <1>2, <1>4, <1>5, <1>6, <1>8, <1>9, <1>10, QuietDownload

\* The .download that gets its name is whole.
LEMMA Renaming ==
  ASSUME Transfer!FilesAssumption, Control, Data, Download, wr.on,
       final' = Transfer!Renamed(wr.num), UNCHANGED <<kept, ver>>,
         Front \in Nat, Front \in Transfer!Files => kept[Front] = {},
         wr.num = Front \/ (wr.pos # Transfer!None /\ wr.num < RNum /\ ~(Blocked /\ wr.num = Cur))
  PROVE  Skipped' /\ \A g \in Transfer!Files : g < Front => Good(g)'
<1>1. wr.num \in Nat /\ ver \in Nat \ {0} /\ IsOn(final)
  BY TakerTyped DEF Control, Types
<1>2. \A g \in Transfer!Files : g # wr.num => final'[g] = final[g]
  BY <1>1 DEF Transfer!Renamed, IsOn
<1>3. \A g \in Transfer!Files : kept[g] # {} => kept[g] = {<<final[g]>>}
  BY DEF Download, Skipped
<1>4. \A g \in Transfer!Files : g < wr.num => Good(g)
  BY DEF Download, Behind, At0
<1>5. \A g \in Transfer!Files : g # wr.num /\ Good(g) => Good(g)'
  BY <1>2 DEF Good
<1>6. \A g \in Transfer!Files : g \in Nat
  BY Ranges
<1>7. CASE wr.num = Front
  <2>1. Skipped'
    BY <1>2, <1>3, <1>7 DEF Skipped
  <2>2. \A g \in Transfer!Files : g < Front => g < wr.num /\ g # wr.num
    BY <1>1, <1>6, <1>7
  <2> QED
    BY <1>4, <1>5, <2>1, <2>2
<1>8. CASE wr.pos # Transfer!None /\ wr.num < RNum /\ ~(Blocked /\ wr.num = Cur)
  <2>1. wr.num \in Transfer!Files /\ part[wr.num] # {} /\ wr.pos = Size[wr.num] /\ dig[wr.num] = ver
    BY <1>8 DEF Control, Roles, Download, Complete, Data, Open
  <2>2. PICK s \in part[wr.num] : TRUE
    BY <2>1
  <2>3. /\ part[wr.num] = {s} /\ Len(s) = Size[wr.num] /\ s \in Seq(Pairs)
        /\ \A i \in 1..Len(s) : s[i] = <<ver, i>>
    <3>1. part[wr.num] \subseteq Seq(Pairs)
      BY <2>1 DEF Control, Types, Contents
    <3>2. part[wr.num] = {s} /\ Len(s) = wr.pos
      BY <1>8, <2>1, <2>2 DEF Control, Storage
    <3>3. \A i \in 1..Len(s) : s[i] = <<dig[wr.num], i>>
      BY <2>1, <2>2 DEF Data, Content
    <3> QED
      BY <2>1, <2>2, <3>1, <3>2, <3>3
  <2>4. s = Transfer!Whole(ver, wr.num)
    <3>1. s = [i \in 1..Len(s) |-> s[i]]
      BY <2>3
    <3> QED
      BY <2>3, <3>1 DEF Transfer!Whole
  <2>5. final'[wr.num] = {Transfer!Whole(ver, wr.num)}
    BY <1>1, <2>1, <2>3, <2>4 DEF Transfer!Renamed, IsOn
  <2>6. ver \in 1..ver
    BY <1>1
  <2>7. \A g \in Transfer!Files : g = wr.num => Good(g)'
    BY <2>5, <2>6 DEF Good, Transfer!Whole
  <2>8. kept[wr.num] = {}
    BY <2>1 DEF Download, NotKept, At0
  <2>9. Skipped'
    BY <1>2, <1>3, <2>8 DEF Skipped
  <2>10. \A g \in Transfer!Files : wr.num < g /\ g < Front => kept[g] # {}
    BY <1>8 DEF Download, Position
  <2>11. \A g \in Transfer!Files : wr.num < g /\ g < Front => Good(g)
    BY <2>10 DEF Good
  <2>12. \A g \in Transfer!Files : g < wr.num \/ g = wr.num \/ (wr.num < g /\ g # wr.num)
    BY <1>1, <1>6
  <2>13. \A g \in Transfer!Files : g < wr.num => g # wr.num
    BY <1>1, <1>6
  <2> QED
    BY <1>4, <1>5, <2>7, <2>9, <2>11, <2>12, <2>13
<1> QED
  BY <1>7, <1>8

LEMMA OnBlockDownload ==
  ASSUME Transfer!FilesAssumption, Control, Data, Download, UNCHANGED upload,
       Transfer!OnBlock PROVE Download'
<1>1. /\ toW # <<>> /\ toW[1].t = "block" /\ wr.on /\ toW[1].f = Cur
      /\ ~HasConfirm /\ Queue = toW /\ ~HasConfirm' /\ Queue' = toW'
      /\ Len(toW) \in Nat \ {0} /\ Len(toW') = Len(toW) - 1 /\ toW' \in Seq(ToWriter)
      /\ \A i \in 1..Len(toW') : i + 1 \in 1..Len(toW) /\ toW'[i] = toW[i + 1]
      /\ toR = <<>> /\ ShapeAt(toW, 1)
  BY BlockIs
<1>2. /\ final' = IF Fresh THEN Transfer!Renamed(wr.num) ELSE final
      /\ wr'.on /\ wr'.num = Cur /\ wr'.pos = From + Len(Load) /\ wr'.pos # Transfer!None
      /\ UNCHANGED <<upload, ver, rd, toR, kept, meta, ended>>
  BY <1>1, BlockDoes
<1>3. /\ wr.num <= Cur /\ Cur \in Transfer!Files /\ Cur \in Nat /\ Size[Cur] \in Nat
      /\ From \in Nat /\ Len(Load) \in 0..1 /\ (Load = <<>> => From = Size[Cur]) /\ Blocked
  BY BlockFits
<1>4. Cur' = Cur /\ RNum' = RNum /\ Front = Cur /\ wr.num \in Nat
  BY <1>2, <1>3, TakerTyped DEF Cur, RNum, Front
<1>5. kept[Cur] = {} /\ ended = "no" /\ meta = Transfer!None
  BY <1>1, <1>3 DEF Download, NotKept, Control, Roles
<1>6. RNum \in Nat /\ (rd.confirmed => Cur = RNum) /\ (~rd.confirmed => Cur = RNum - 1)
  BY TakerTyped DEF Cur, RNum, Control, Roles
<1>7. Skipped' /\ \A g \in Transfer!Files : g < Cur => Good(g)'
  <2>1. CASE Fresh
    <3>1. wr.num = Front \/ (wr.pos # Transfer!None /\ wr.num < RNum /\ ~(Blocked /\ wr.num = Cur))
      <4>1. CASE wr.pos = Transfer!None
        BY <1>1, <4>1 DEF Download, Position
      <4>2. CASE wr.pos # Transfer!None
        <5>1. wr.num # Cur
          BY <1>1, <2>1, <4>2 DEF Fresh
        <5> QED
          BY <1>3, <1>4, <1>6, <4>2, <5>1
      <4> QED
        BY <4>1, <4>2
    <3> QED
      BY <1>1, <1>2, <1>3, <1>4, <1>5, <2>1, <3>1, Renaming
  <2>2. CASE ~Fresh
    <3>1. wr.num = Cur /\ final' = final
      BY <1>1, <1>2, <2>2 DEF Fresh
    <3> QED
      BY <1>1, <1>2, <3>1 DEF Download, Skipped, Behind, At0, Good
  <2> QED
    BY <2>1, <2>2
<1>8. AllGood' /\ Behind'
  BY <1>2, <1>4, <1>5, <1>7 DEF AllGood, Behind, At0
<1>9. Complete'
  <2> SUFFICES ASSUME Cur < RNum, ~Blocked' PROVE From + Len(Load) = Size[Cur]
    BY <1>2, <1>4 DEF Complete
  <2>1. ~rd.confirmed
    BY <1>3, <1>6
  <2>2. Load = <<>>
    <3>1. SUFFICES ASSUME Load # <<>> PROVE Blocked'
      OBVIOUS
    <3>2. 1 < Len(toW) /\ toW[2].t = "block"
      BY <1>1, <2>1, <3>1 DEF ShapeAt, Load
    <3>3. 1 \in 1..Len(toW')
      BY <1>1, <3>2
    <3>4. toW'[1] = toW[2] /\ toW' # <<>>
      BY <1>1, <3>3
    <3> QED
      BY <1>1, <3>2, <3>4 DEF Blocked
  <2>3. Len(Load) = 0
    BY <2>2
  <2> QED
    BY <1>3, <2>2, <2>3
<1>10. Position'
  <2>1. Front' = Cur \/ Front' = RNum
    BY <1>1, <1>2, <1>4 DEF Front, Ahead, Skipping
  <2>2. \A g \in Transfer!Files : ~(Cur < g /\ g < Front')
    BY <1>3, <1>6, <2>1, Ranges
  <2> QED
    BY <1>2, <1>4, <2>2 DEF Position
<1>11. NotKept'
  BY <1>1, <1>2, <1>4, <1>5 DEF Download, NotKept, At0
<1> QED
  BY <1>7, <1>8, <1>9, <1>10, <1>11 DEF Download

LEMMA IdleDownload ==
  ASSUME ~wr'.on, wr'.pos = Transfer!None, ~rd'.confirmed, toR' = <<>>, toW' = <<>>, AllGood',
       Skipped', Behind',
         meta' \in Transfer!Files /\ kept'[meta'] # {} => part'[meta'] = {}
  PROVE  Download'
<1>1. ~Blocked'
  BY DEF HasConfirm, Queue, Blocked
<1> QED
  BY <1>1 DEF Download, Complete, Position, NotKept, At0

LEMMA OnDoneDownload ==
  ASSUME Transfer!FilesAssumption, Control, Data, Download, UNCHANGED upload,
       Transfer!OnDone PROVE Download'
<1>1. /\ toW # <<>> /\ toW[1].t = "done" /\ Queue = toW /\ wr.on /\ ~rd.on /\ toW' = <<>>
           /\ toR = <<>>
      /\ toR' = <<>> /\ ~rd'.confirmed /\ final' = Transfer!Renamed(wr.num)
           /\ wr' = Transfer!NoWriter
      /\ UNCHANGED <<ver, meta, kept>>
  BY DoneIs
<1>2. ~wr'.on /\ wr'.pos = Transfer!None /\ meta' = Transfer!None
     /\ Transfer!None \notin Transfer!Files
  BY <1>1, Ranges DEF Transfer!NoWriter, Control, Roles
<1>3. ~Blocked /\ Front = N /\ RNum = N /\ N \in Nat /\ N \notin Transfer!Files
  BY <1>1, NotSkipping, Ranges DEF Blocked, Front, RNum, Transfer!FilesAssumption
<1>4. wr.num = Front \/ (wr.pos # Transfer!None /\ wr.num < RNum /\ ~(Blocked /\ wr.num = Cur))
  <2>1. wr.pos = Transfer!None => wr.num = Front
    BY <1>1 DEF Download, Position
  <2>2. wr.pos # Transfer!None => wr.num \in Transfer!Files
    BY DEF Control, Roles
  <2> QED
    BY <1>3, <2>1, <2>2, Ranges
<1>5. Skipped' /\ \A g \in Transfer!Files : g < Front => Good(g)'
  BY <1>1, <1>3, <1>4, Renaming
<1>6. \A g \in Transfer!Files : g < N
  BY Ranges
<1>7. AllGood' /\ Behind'
  BY <1>2, <1>3, <1>5, <1>6 DEF AllGood, Behind
<1> QED
  BY <1>1, <1>2, <1>5, <1>7, IdleDownload

LEMMA DropDownload ==
  ASSUME Transfer!FilesAssumption, Control, Download, ~upload, UNCHANGED upload,
       Transfer!Drop PROVE Download'
<1>1. /\ rd' = Transfer!NoReader /\ wr' = Transfer!NoWriter /\ toW' = <<>> /\ toR' = <<>>
           /\ meta' = Transfer!Saved
      /\ UNCHANGED <<ver, final, part, dig, kept, ended>>
  BY DEF Transfer!Drop, Transfer!disk
<1>2. meta' # Transfer!None => wr.on /\ meta' = wr.num
  BY <1>1 DEF Transfer!Saved
<1>3. ~wr'.on
  BY <1>1, Stopped
<1>4. AllGood' /\ Skipped'
  BY <1>1 DEF Download, AllGood, Skipped, Good
<1>5. Behind'
  BY <1>1, <1>2, <1>3 DEF Download, Behind, At0, Good
<1>6. meta' \in Transfer!Files /\ kept'[meta'] # {} => part'[meta'] = {}
  <2>1. meta' \in Transfer!Files => meta' # Transfer!None
    BY Ranges
  <2> QED
    BY <1>1, <1>2, <2>1 DEF Download, NotKept, At0
<1> QED
  BY <1>1, <1>4, <1>5, <1>6, Stopped, IdleDownload

LEMMA CancelDownload ==
  ASSUME Transfer!FilesAssumption, Control, Download, UNCHANGED upload, Transfer!Cancel
       PROVE Download'
<1>1. /\ wr.on /\ rd' = Transfer!NoReader /\ wr' = Transfer!NoWriter /\ toW' = <<>> /\ toR' = <<>>
      /\ UNCHANGED <<ver, final, kept, meta, ended>>
  BY DEF Transfer!Cancel, Transfer!rest
<1>2. meta' = Transfer!None /\ Transfer!None \notin Transfer!Files
  BY <1>1, Ranges DEF Control, Roles
<1>3. ~wr'.on
  BY <1>1, Stopped
<1>4. AllGood' /\ Skipped' /\ Behind'
  BY <1>1, <1>2, <1>3 DEF Download, AllGood, Skipped, Behind, Good
<1> QED
  BY <1>1, <1>2, <1>4, Stopped, IdleDownload

LEMMA EditDownload ==
  ASSUME Transfer!FilesAssumption, Control, Download, spoilt = {}, spoilt' = {}, Transfer!Edit
  PROVE  Download'
<1>1. UNCHANGED <<rd, wr, toW, toR, final, part, dig, meta, ended, kept>> /\ Transfer!Idle
     /\ ver' = ver + 1
  BY EditIs
<1>2. ver \in Nat
  BY DEF Control, Types
<1>3. \A f \in Transfer!Files : Good(f) => Good(f)'
  <2>1. 1..ver \subseteq 1..ver'
    BY <1>1, <1>2
  <2> QED
    BY <1>1, <2>1 DEF Good, Transfer!Whole
<1>4. AllGood' /\ Skipped' /\ Behind'
  BY <1>1, <1>3 DEF Download, AllGood, Skipped, Behind, At0
<1>5. ~wr.on /\ wr.pos = Transfer!None /\ ~rd.confirmed /\ toR = <<>> /\ toW = <<>>
  BY <1>1, AtIdle
<1>6. meta \in Transfer!Files /\ kept[meta] # {} => part[meta] = {}
  BY <1>5, Ranges DEF Download, NotKept, At0
<1> QED
  BY <1>1, <1>4, <1>5, <1>6, IdleDownload

LEMMA BeginDownload ==
  ASSUME Transfer!FilesAssumption, NEW n \in Numbers, NEW b \in BOOLEAN,
       Transfer!Begin(n, b),
         Skipped', \A f \in Transfer!Files : f < n => Good(f)',
         n \in Transfer!Files /\ kept'[n] # {} => part[n] = {}
  PROVE  Download'
<1>1. toW' = <<>> /\ toR' = <<>> /\ part' = part /\ ended' = "no"
  BY DEF Transfer!Begin, Transfer!Idle, Transfer!disk
<1>2. rd'.on /\ ~rd'.confirmed /\ rd'.num = n /\ wr'.on /\ wr'.num = n /\ wr'.pos = Transfer!None
  BY DEF Transfer!Begin, Transfer!NoReader, Transfer!NoWriter
<1>3. ~Blocked' /\ Front' = n
  BY <1>1, <1>2 DEF HasConfirm, Queue, Blocked, Front, Ahead, Skipping, RNum
<1>4. AllGood' /\ Behind' /\ Complete' /\ Position'
  BY <1>1, <1>2, <1>3 DEF AllGood, Behind, Complete, Position, At0
<1>5. NotKept'
  BY <1>1, <1>2, <1>3 DEF NotKept, At0
<1> QED
  BY <1>4, <1>5 DEF Download

LEMMA DownloadStep ==
  ASSUME Transfer!FilesAssumption, Control, Data, Download, ~upload, spoilt = {}, spoilt' = {},
         stamp = ver, ~Transfer!Start, [Transfer!Next]_Transfer!vars
  PROVE  Download'
<1>1. CASE UNCHANGED upload /\ Transfer!Resume
  <2>1. /\ meta \in Numbers /\ Transfer!Begin(meta, TRUE)
             /\ UNCHANGED <<ver, kept, final, part>>
        /\ meta # Transfer!None
    BY <1>1 DEF Transfer!Resume, Transfer!Begin, Transfer!disk, Control, Types
  <2>2. ~wr.on
    BY <2>1 DEF Transfer!Begin, Transfer!Idle
  <2>3. Skipped' /\ (\A f \in Transfer!Files : f < meta => Good(f)')
    BY <2>1, <2>2 DEF Download, Skipped, Behind, At0, Good
  <2>4. meta \in Transfer!Files /\ kept[meta] # {} => part[meta] = {}
    BY <2>1, <2>2 DEF Download, NotKept, At0
  <2> QED
    BY <2>1, <2>3, <2>4, BeginDownload
<1>2. CASE UNCHANGED Transfer!vars
  <2>1. UNCHANGED <<upload, ver, rd, wr, ask, toW, toR, final, part, dig, meta, ended, kept, spoilt>>
    BY <1>2 DEF Transfer!vars, Transfer!jobs, Transfer!disk, Transfer!rest
  <2>3. Queue' = Queue
    BY <2>1, ViewSame
  <2>4. Cur' = Cur /\ RNum' = RNum /\ (Blocked' <=> Blocked) /\ Front' = Front
    BY <2>1, <2>3 DEF Cur, RNum, Skipping, Front, Ahead, Blocked
  <2>5. AllGood' /\ Skipped' /\ Behind'
    BY <2>1 DEF Download, AllGood, Skipped, Behind, Good, At0
  <2>6. Complete' /\ Position' /\ NotKept'
    BY <2>1, <2>4 DEF Download, Complete, Position, NotKept, At0
  <2> QED
    BY <2>5, <2>6 DEF Download
<1>3. ~Transfer!OnCheckDigest
  BY DEF Transfer!OnCheckDigest
<1>4. ~Transfer!OnAsk
  BY TokenAlone DEF Transfer!OnAsk
<1>5. ~Transfer!OnConfirmWriter
  <2>1. SUFFICES ASSUME Transfer!OnConfirmWriter PROVE HasConfirm
    BY DEF Control, Token
  <2>2. toW # <<>> /\ toW[1] = Head(toW)
    BY <2>1, Heads DEF Transfer!OnConfirmWriter, Control, Types
  <2> QED
    BY <2>1, <2>2 DEF Transfer!OnConfirmWriter, HasConfirm
<1> QED
  BY <1>1, <1>2, <1>3, <1>4, <1>5, Unhurt, DropDownload, CancelDownload, EditDownload, AnnounceDownload,
     ReadBlockDownload, FinishDownload, OnDigestDownload, AnswerDownload, OnConfirmReaderDownload,
     OnBlockDownload, OnDoneDownload DEF Transfer!Next

-----------------------------------------------------------------------------
(* A step that leaves the job unspoilt begins one anew, or keeps it unspoilt. *)

\* What stays true of a spoilt job.
Loose ==
  /\ ver \in 1..(MaxEdits + 1) /\ ver \in Nat \ {0}
  /\ IsOn(final) /\ IsOn(part) /\ IsOn(dig)

LEMMA EditsBound ==
  ASSUME Transfer!FilesAssumption, Loose, ver <= MaxEdits, ver' = ver + 1
  PROVE  ver' \in 1..(MaxEdits + 1) /\ ver' \in Nat \ {0}
BY DEF Transfer!FilesAssumption, Loose

LEMMA LooseStep ==
  ASSUME Transfer!FilesAssumption, Loose, [Transfer!Next]_Transfer!vars
  PROVE  Loose'
<1>1. CASE UNCHANGED <<final, part, dig>>
  <2>1. IsOn(final)' /\ IsOn(part)' /\ IsOn(dig)'
    BY <1>1 DEF Loose, IsOn
  <2>2. CASE Transfer!Edit
    BY <2>1, <2>2, EditsBound DEF Transfer!Edit, Loose
  <2>3. CASE UNCHANGED ver
    BY <2>1, <2>3 DEF Loose
  <2>4. Transfer!Edit \/ UNCHANGED ver
    BY DEF Transfer!Next, Transfer!Start, Transfer!Resume, Transfer!Begin, Transfer!Drop,
       Transfer!Cancel, Transfer!Announce, Transfer!ReadBlock, Transfer!Finish, Transfer!OnDigest,
       Transfer!OnCheckDigest, Transfer!OnAsk, Transfer!Answer, Transfer!OnConfirmReader,
       Transfer!OnConfirmWriter, Transfer!OnBlock, Transfer!OnDone, Transfer!CancelUpload,
       Transfer!OnCancelWrite, Transfer!Fault, Transfer!RenameFails, Transfer!OpenFails,
       Transfer!WriteFails, Transfer!OnBlockAstray, Transfer!SeekFails, Transfer!DigestFails,
       Transfer!OnError, Transfer!vars
  <2> QED
    BY <2>2, <2>3, <2>4
<1>2. CASE Transfer!Cancel \/ Transfer!OnCancelWrite
  <2>1. /\ part' = [f \in Transfer!Files |-> IF f = wr.num THEN {} ELSE part[f]]
        /\ dig' = [f \in Transfer!Files |-> IF f = wr.num THEN 0 ELSE dig[f]]
        /\ UNCHANGED <<ver, final>>
    BY <1>2 DEF Transfer!Cancel, Transfer!OnCancelWrite
  <2> QED
    BY <2>1 DEF Loose, IsOn
<1>3. /\ IsOn(Transfer!Renamed(wr.num)) /\ IsOn(Transfer!Unparted(wr.num))
      /\ IsOn(Transfer!Undigested(wr.num))
  BY DEF Loose, IsOn, Transfer!Renamed, Transfer!Unparted, Transfer!Undigested
<1>4. \A g, f, c : IsOn(g) => IsOn([g EXCEPT ![f] = c])
  BY DEF IsOn
<1>5. CASE Transfer!OnBlock
  BY <1>3, <1>4, <1>5 DEF Transfer!OnBlock, Loose
<1>6. CASE Transfer!OnDone
  BY <1>3, <1>6 DEF Transfer!OnDone, Loose
<1>7. CASE Transfer!RenameFails
  <2> DEFINE m == Head(toW)
             c == {IF m.d = <<>> THEN <<>> ELSE << <<m.v, m.d[1]>> >>}
  <2>1. /\ UNCHANGED <<ver, final>>
        /\ \/ /\ part' = [part EXCEPT ![m.f] = c]
              /\ dig' = [Transfer!Undigested(wr.num) EXCEPT ![m.f] = wr.dig]
           \/ UNCHANGED part /\ dig' = Transfer!Undigested(wr.num)
    BY <1>7 DEF Transfer!RenameFails
  <2> HIDE DEF m, c
  <2>2. IsOn(part)' /\ IsOn(dig)'
    BY <1>3, <1>4, <2>1 DEF Loose, IsOn
  <2> QED
    BY <2>1, <2>2 DEF Loose, IsOn
<1>8. CASE Transfer!OpenFails
  <2>1. \E g : /\ final' = Transfer!Renamed(wr.num) /\ part' = Transfer!Unparted(wr.num)
               /\ dig' \in {Transfer!Undigested(wr.num),
                            [Transfer!Undigested(wr.num) EXCEPT ![g] = 0]}
               /\ UNCHANGED ver
    BY <1>8 DEF Transfer!OpenFails
  <2> QED
    BY <1>3, <1>4, <2>1 DEF Loose
<1>9. CASE Transfer!WriteFails
  <2>1. \/ UNCHANGED <<final, part, dig>>
        \/ \E g, d : /\ final' = Transfer!Renamed(wr.num)
                     /\ part' = [Transfer!Unparted(wr.num) EXCEPT ![g] = {<<>>}]
                     /\ dig' = [Transfer!Undigested(wr.num) EXCEPT ![g] = d]
                     /\ UNCHANGED ver
    BY <1>9 DEF Transfer!WriteFails, Transfer!disk
  <2>2. CASE ~UNCHANGED <<final, part, dig>>
    <3>1. PICK g, d : /\ final' = Transfer!Renamed(wr.num)
                      /\ part' = [Transfer!Unparted(wr.num) EXCEPT ![g] = {<<>>}]
                      /\ dig' = [Transfer!Undigested(wr.num) EXCEPT ![g] = d]
                      /\ UNCHANGED ver
      BY <2>1, <2>2
    <3>2. /\ IsOn([Transfer!Unparted(wr.num) EXCEPT ![g] = {<<>>}])
          /\ IsOn([Transfer!Undigested(wr.num) EXCEPT ![g] = d])
      BY <1>3, <1>4
    <3> QED
      BY <1>3, <3>1, <3>2 DEF Loose, IsOn
  <2> QED
    BY <1>1, <2>2
<1>10. CASE Transfer!OnBlockAstray
  <2>1. \E g, c : /\ \/ part' = [part EXCEPT ![g] = c] /\ UNCHANGED final
                     \/ final' = [final EXCEPT ![g] = c] /\ UNCHANGED part
                  /\ UNCHANGED <<ver, dig>>
    BY <1>10 DEF Transfer!OnBlockAstray
  <2> QED
    BY <1>4, <2>1 DEF Loose, IsOn
<1> QED
  BY <1>1, <1>2, <1>5, <1>6, <1>7, <1>8, <1>9, <1>10
  DEF Transfer!Next, Transfer!Start, Transfer!Resume, Transfer!Begin, Transfer!Drop, Transfer!Edit,
      Transfer!Announce, Transfer!ReadBlock, Transfer!Finish, Transfer!OnDigest,
      Transfer!OnCheckDigest, Transfer!OnAsk, Transfer!Answer, Transfer!OnConfirmReader,
      Transfer!OnConfirmWriter, Transfer!CancelUpload, Transfer!Fault, Transfer!SeekFails,
      Transfer!DigestFails, Transfer!OnError, Transfer!vars, Transfer!disk

\* A job begun where nothing of another lies, whatever became of that one.
LEMMA StartAnew ==
  ASSUME Transfer!FilesAssumption, Loose, UNCHANGED upload, Transfer!Start, spoilt' = {}
  PROVE  stamp' = ver' /\ Control' /\ Data' /\ Download'
<1>1. /\ Transfer!Begin(0, FALSE) /\ misplaced' = FALSE /\ kept' = [f \in Transfer!Files |-> {}]
      /\ ~Transfer!Leftover /\ stamp' = ver
  BY DEF Transfer!Start
<1>2. UNCHANGED <<ver, part, dig>>
  BY <1>1 DEF Transfer!Begin, Transfer!disk
<1>3. \A f \in Transfer!Files : part[f] = {} /\ dig[f] = 0
  BY <1>1 DEF Transfer!Leftover
<1>4. part \in [Transfer!Files -> Contents] /\ dig \in [Transfer!Files -> Nat]
  BY <1>3 DEF Loose, IsOn, Contents
<1>5. IsOn(kept') /\ upload \in BOOLEAN /\ misplaced' \in BOOLEAN /\ 0 \in 0..ver
  <2>1. IsOn(kept')
    BY <1>1 DEF IsOn
  <2>2. upload \in BOOLEAN
    BY DEF upload
  <2>3. 0 \in 0..ver
    BY DEF Loose
  <2> QED
    BY <1>1, <2>1, <2>2, <2>3
<1>6. Control'
  BY <1>1, <1>3, <1>4, <1>5, BeginControl, Ranges DEF Loose
<1>7. Content'
  BY <1>2, <1>3 DEF Content
<1>8. Data'
  BY <1>1, <1>3, <1>7, BeginData, Ranges
<1>9. Skipped' /\ \A f \in Transfer!Files : ~(f < 0)
  BY <1>1, Ranges DEF Skipped
<1>10. 0 \in Numbers /\ (0 \in Transfer!Files => kept'[0] = {})
  BY <1>1, Ranges
<1>11. Download'
  BY <1>1, <1>9, <1>10, BeginDownload
<1> QED
  BY <1>1, <1>2, <1>6, <1>8, <1>11

\* The digest tells the versions apart while the job is unspoilt.
LEMMA StampStep ==
  ASSUME spoilt = {}, spoilt' = {}, stamp = ver, ~Transfer!Start, [Transfer!Next]_Transfer!vars
  PROVE  stamp' = ver'
<1>1. CASE Transfer!Edit
  BY <1>1, EditIs
<1>2. CASE ~Transfer!Edit
  BY <1>2
  DEF Transfer!Next, Transfer!Resume, Transfer!Begin, Transfer!Drop,
      Transfer!Cancel, Transfer!Announce, Transfer!ReadBlock, Transfer!Finish, Transfer!OnDigest,
      Transfer!OnCheckDigest, Transfer!OnAsk, Transfer!Answer, Transfer!OnConfirmReader,
      Transfer!OnConfirmWriter, Transfer!OnBlock, Transfer!OnDone, Transfer!CancelUpload,
      Transfer!OnCancelWrite, Transfer!Fault, Transfer!RenameFails, Transfer!OpenFails,
      Transfer!WriteFails, Transfer!OnBlockAstray, Transfer!SeekFails, Transfer!DigestFails,
      Transfer!OnError, Transfer!vars, Transfer!rest
<1> QED
  BY <1>1, <1>2

LEMMA SpoiltStays ==
  ASSUME spoilt # {}, ~Transfer!Start, [Transfer!Next]_Transfer!vars
  PROVE  spoilt' # {}
<1>1. UNCHANGED spoilt \/ \E why : spoilt' = spoilt \cup {why}
  BY DEF Transfer!Next, Transfer!Resume, Transfer!Begin, Transfer!Drop, Transfer!Edit,
      Transfer!Cancel, Transfer!Announce, Transfer!ReadBlock, Transfer!Finish, Transfer!OnDigest,
      Transfer!OnCheckDigest, Transfer!OnAsk, Transfer!Answer, Transfer!OnConfirmReader,
      Transfer!OnConfirmWriter, Transfer!OnBlock, Transfer!OnDone, Transfer!CancelUpload,
      Transfer!OnCancelWrite, Transfer!Fault, Transfer!RenameFails, Transfer!OpenFails,
      Transfer!WriteFails, Transfer!OnBlockAstray, Transfer!SeekFails, Transfer!DigestFails,
      Transfer!OnError, Transfer!vars, Transfer!rest, Transfer!Spoil
<1> QED
  BY <1>1

-----------------------------------------------------------------------------
(* The three together are inductive while the job is unspoilt: the data need
   the control, the files of a download both. *)

FilesInv ==
  /\ Loose
  /\ spoilt = {} => stamp = ver /\ Control /\ Data /\ (~upload => Download)

LEMMA FilesInit == ASSUME Transfer!FilesAssumption, Transfer!Init PROVE FilesInv
<1>1. Control
  BY ControlInit
<1>2. /\ ~rd.on /\ rd.pos = Transfer!None /\ ~rd.confirmed /\ ~wr.on /\ wr.pos = Transfer!None
           /\ toW = <<>> /\ toR = <<>>
      /\ meta = Transfer!None /\ ended = "no" /\ ~misplaced
      /\ \A f \in Transfer!Files : part[f] = {} /\ kept[f] = {}
  BY DEF Transfer!Init, Transfer!NoReader, Transfer!NoWriter
<1>3. ~HasConfirm /\ Queue = <<>> /\ ~Blocked /\ ~Skipping /\ Len(Queue) = 0
  BY <1>2 DEF HasConfirm, Queue, Blocked, Skipping
<1>4. Data
  BY <1>2, <1>3 DEF Data, Placed, OfferFits, Content, Open, NoneAhead
<1>5. Download
  BY <1>2, <1>3 DEF Download, AllGood, Skipped, Behind, Complete, Position, NotKept
<1>6. Loose /\ stamp = ver
  BY <1>1 DEF Transfer!Init, Control, Types, Loose, IsOn
<1> QED
  BY <1>1, <1>4, <1>5, <1>6 DEF FilesInv

LEMMA FilesStep == ASSUME Transfer!FilesAssumption, FilesInv, [Transfer!Next]_Transfer!vars
     PROVE FilesInv'
<1>1. Loose /\ Loose'
  BY LooseStep DEF FilesInv
<1>2. upload' = upload
  BY DEF Transfer!Next, Transfer!vars
<1>3. SUFFICES ASSUME spoilt' = {}
               PROVE  stamp' = ver' /\ Control' /\ Data' /\ (~upload' => Download')
  BY <1>1 DEF FilesInv
<1>4. CASE Transfer!Start
  BY <1>1, <1>2, <1>3, <1>4, StartAnew
<1>5. CASE ~Transfer!Start
  <2>1. spoilt = {}
    BY <1>3, <1>5, SpoiltStays
  <2>2. stamp = ver /\ Control /\ Data /\ (~upload => Download)
    BY <2>1 DEF FilesInv
  <2>3. stamp' = ver'
    BY <1>3, <1>5, <2>1, <2>2, StampStep
  <2>4. Control' /\ Data'
    BY <1>3, <1>5, <2>1, <2>2, ControlStep, DataStep
  <2>5. ~upload' => Download'
    BY <1>2, <1>3, <1>5, <2>1, <2>2, DownloadStep
  <2> QED
    BY <2>3, <2>4, <2>5
<1> QED
  BY <1>4, <1>5

LEMMA FilesSafe ==
  ASSUME FilesInv
  PROVE  Transfer!NothingMisplaced /\ Transfer!DoneIsWhole /\ Transfer!SkippedIsKept
<1>1. Transfer!NothingMisplaced
  BY DEF FilesInv, Data, Transfer!NothingMisplaced, Transfer!Unspoilt
<1>2. Transfer!DoneIsWhole /\ Transfer!SkippedIsKept
  BY DEF FilesInv, Download, AllGood, Skipped, Good, Transfer!DoneIsWhole, Transfer!SkippedIsKept,
     Transfer!Unspoilt
<1> QED
  BY <1>1, <1>2

(* For any number of files of any sizes, any number of lost connections and of
   edits of the source, in both directions, of a job that was begun where no
   .download or .digest of another lay, whose source changed only between its
   parts and then in its digest, and none of whose operations on the writer's
   disk failed: a block is written at its own place, and a download that is
   reported done has left every file whole and of one version, except those
   the user skipped, which are as they were.                               *)
THEOREM FilesTheorem == Transfer!Spec => []FilesWhole
<1>1. Transfer!Init => FilesInv
  BY TransferFits, FilesInit
<1>2. FilesInv /\ [Transfer!Next]_Transfer!vars => FilesInv'
  BY TransferFits, FilesStep
<1>3. FilesInv => FilesWhole
  BY FilesSafe DEF FilesWhole
<1> QED
  BY <1>1, <1>2, <1>3, PTL DEF Transfer!Spec
=============================================================================
