--------------------------- MODULE Screen_proofs ----------------------------
(***************************************************************************)
(* What a controlled machine shows, proved for all parameters.  DrmProbe:  *)
(* one thread asks at a time, and no older answer is put over a newer one. *)
(* DrmStream: no credit is lost or made up, and one frame at most passes to*)
(* a peer whose session is no longer the active one.  PrivacyMode: who     *)
(* owns privacy mode, and that nobody else ends it.  CursorShapes: the     *)
(* caches of the cursor service hang together.                             *)
(***************************************************************************)
EXTENDS MCDrm, MCDesktop, TLAPS, FiniteSetTheorems, SequenceTheorems, FunctionTheorems

Displays == Lists \cup {NoDisplays}
Answers == [ok : BOOLEAN, list : Displays, seen : 0..MaxChanges]
Jobs == {"none", "probe", "yes", "no", "login", "warm"}
States == [pc : {"idle", "want", "held", "query", "answer"}, job : Jobs, moved : BOOLEAN,
           got : Answers]
Verdicts == [k : {"Unknown", "Unavailable", "Available"}, list : Displays, fresh : BOOLEAN,
             seen : 0..MaxChanges]
Sent == [list : Displays, seen : 0..MaxChanges]

VerdictTypes ==
  /\ world \in [up : BOOLEAN, list : Displays, ver : 0..MaxChanges]
  /\ st \in Verdicts /\ (st.k = "Available" <=> st.list # NoDisplays)
  /\ thr \in [Threads -> States] /\ hotplug \in Seq(Sent)
  /\ faults \in 0..MaxFaults /\ probeFails \in 0..ProbeMax
  /\ refreshFails \in 0..(RefreshMax - 1) /\ tries \in 0..WarmTries /\ inFlight \in BOOLEAN

\* Who does what: the jobs behind the flag are the callers', and a thread that
\* asks has one.
JobFits(t, r) ==
  /\ r.job \in {"probe", "yes", "no"} => t \in Callers
  /\ t \in Callers /\ r.pc # "idle" => r.job \in {"probe", "yes", "no"}
  /\ t = Warm /\ r.pc # "idle" => r.job = "warm"
  /\ t \notin Callers => r.pc \in {"idle", "query", "answer"}

JobsFit == \A t \in Threads : JobFits(t, thr[t])

\* Nothing is based on a change that is still to come.
Dated ==
  /\ st.seen <= world.ver
  /\ \A i \in 1..Len(hotplug) : hotplug[i].seen <= world.ver
  /\ \A t \in Threads : thr[t].got.seen <= world.ver

\* An answer is no older than the verdict while the generation has not moved.
AnswerIsNewer ==
  \A t \in Threads : thr[t].pc = "answer" /\ ~thr[t].moved => st.seen <= thr[t].got.seen

\* The flag has one holder while it is up, and none while it is down.
Holds(r) == r.pc \in {"held", "query", "answer"}
FlagHeld ==
  /\ inFlight => \E t \in Callers : Holds(thr[t])
  /\ ~inFlight => \A t \in Callers : ~Holds(thr[t])
  /\ \A t, u \in Callers : Holds(thr[t]) /\ Holds(thr[u]) => t = u

ProbeInv == VerdictTypes /\ JobsFit /\ Dated /\ AnswerIsNewer /\ FlagHeld

LEMMA IdleIsState ==
  ASSUME ProbeAssumption
  PROVE  /\ Idle \in States /\ Idle.pc = "idle" /\ Idle.job = "none" /\ ~Idle.moved
         /\ Idle.got.seen = 0 /\ ~Holds(Idle) /\ \A t : JobFits(t, Idle)
<1>1. None \in Answers /\ None.seen = 0
  BY DEF None, Answers, Displays, ProbeAssumption
<1>2. Idle \in States /\ Idle.pc = "idle" /\ Idle.job = "none" /\ ~Idle.moved /\ Idle.got = None
  BY <1>1 DEF Idle, States, Jobs
<1> QED
  BY <1>1, <1>2 DEF Holds, JobFits, ProbeAssumption, Threads

LEMMA ProbeTyped ==
  ASSUME ProbeAssumption, ProbeInv
  PROVE  /\ world \in [up : BOOLEAN, list : Displays, ver : 0..MaxChanges]
         /\ world.ver \in 0..MaxChanges /\ MaxChanges \in Nat
         /\ st \in Verdicts /\ thr \in [Threads -> States] /\ hotplug \in Seq(Sent)
         /\ faults \in 0..MaxFaults /\ probeFails \in 0..ProbeMax
         /\ refreshFails \in 0..(RefreshMax - 1) /\ tries \in 0..WarmTries /\ inFlight \in BOOLEAN
BY DEF ProbeAssumption, ProbeInv, VerdictTypes

LEMMA ProbeInit == ASSUME ProbeAssumption PROVE Init => ProbeInv
<1> SUFFICES ASSUME Init PROVE ProbeInv
  OBVIOUS
<1>1. /\ world \in [up : BOOLEAN, list : Displays, ver : 0..MaxChanges] /\ world.ver = 0
      /\ faults \in 0..MaxFaults /\ hotplug = <<>> /\ inFlight = FALSE /\ probeFails \in 0..ProbeMax
      /\ refreshFails \in 0..(RefreshMax - 1) /\ tries \in 0..WarmTries
  BY DEF Init, Displays, ProbeAssumption
<1>2. st \in Verdicts /\ st.seen = 0 /\ st.k = "Unknown" /\ st.list = NoDisplays
  BY DEF Init, Verdicts, Displays, ProbeAssumption
<1>3. thr \in [Threads -> States] /\ \A t \in Threads : thr[t] = Idle
  BY IdleIsState DEF Init
<1>3a. hotplug \in Seq(Sent) /\ inFlight \in BOOLEAN
  BY <1>1, EmptySeq
<1>4. VerdictTypes
  BY <1>1, <1>2, <1>3, <1>3a DEF VerdictTypes
<1>5. JobsFit /\ AnswerIsNewer /\ FlagHeld
  BY <1>1, <1>3, IdleIsState DEF JobsFit, AnswerIsNewer, FlagHeld, Threads
<1>6. Dated
  BY <1>1, <1>2, <1>3, IdleIsState DEF Dated
<1> QED
  BY <1>4, <1>5, <1>6 DEF ProbeInv

\* A step of thread t: the verdict keeps its date, or the generation moves for
\* everybody; the flag is left alone, taken or given back.
LEMMA ThreadStep ==
  ASSUME ProbeAssumption, ProbeInv, VerdictTypes', NEW t \in Threads,
         UNCHANGED <<world, hotplug>>, JobFits(t, thr'[t]),
         \A u \in Threads : u # t => /\ thr'[u].pc = thr[u].pc /\ thr'[u].job = thr[u].job
                                     /\ thr'[u].got = thr[u].got,
         \/ st'.seen = st.seen /\ \A u \in Threads : u # t => thr'[u].moved = thr[u].moved
         \/ st'.seen <= world.ver /\ \A u \in Threads : thr'[u].moved,
         thr'[t].got.seen <= world.ver,
         thr'[t].pc = "answer" => thr'[t].moved \/ st'.seen <= thr'[t].got.seen,
         \/ inFlight' = inFlight /\ (t \in Callers => (Holds(thr'[t]) <=> Holds(thr[t])))
         \/ t \in Callers /\ ~inFlight /\ inFlight' /\ Holds(thr'[t])
         \/ t \in Callers /\ Holds(thr[t]) /\ ~inFlight' /\ ~Holds(thr'[t])
  PROVE  ProbeInv'
<1>1. JobsFit'
  BY DEF ProbeInv, JobsFit, JobFits
<1>2. Dated'
  BY DEF ProbeInv, Dated
<1>3. AnswerIsNewer'
  BY DEF ProbeInv, AnswerIsNewer
<1>4. \A u \in Callers : u # t => (Holds(thr'[u]) <=> Holds(thr[u]))
  BY DEF Holds, Threads
<1>5. FlagHeld'
  BY <1>4 DEF ProbeInv, FlagHeld
<1> QED
  BY <1>1, <1>2, <1>3, <1>5 DEF ProbeInv

\* A thread that moves on by itself.
LEMMA AloneStep ==
  ASSUME ProbeAssumption, ProbeInv, NEW t \in Threads, NEW r \in States,
         thr' = [thr EXCEPT ![t] = r], JobFits(t, r),
         UNCHANGED <<world, hotplug>>, st' \in Verdicts, st'.seen = st.seen, st'.k = st.k,
         st'.list = st.list,
         faults' \in 0..MaxFaults, probeFails' \in 0..ProbeMax,
         refreshFails' \in 0..(RefreshMax - 1), tries' \in 0..WarmTries, inFlight' \in BOOLEAN,
         r.got.seen <= world.ver, r.pc = "answer" => r.moved \/ st.seen <= r.got.seen,
         \/ inFlight' = inFlight /\ (t \in Callers => (Holds(r) <=> Holds(thr[t])))
         \/ t \in Callers /\ ~inFlight /\ inFlight' /\ Holds(r)
         \/ t \in Callers /\ Holds(thr[t]) /\ ~inFlight' /\ ~Holds(r)
  PROVE  ProbeInv'
<1>1. thr' \in [Threads -> States] /\ thr'[t] = r /\ \A u \in Threads : u # t => thr'[u] = thr[u]
  BY ProbeTyped
<1>2. st'.k = "Available" <=> st'.list # NoDisplays
  BY DEF ProbeInv, VerdictTypes
<1>3. VerdictTypes'
  BY <1>1, <1>2, ProbeTyped DEF VerdictTypes
<1> QED
  BY <1>1, <1>3, ThreadStep

\* A thread that publishes and is done.
LEMMA PublishStep ==
  ASSUME ProbeAssumption, ProbeInv, NEW t \in Threads,
         NEW k \in {"Unknown", "Unavailable", "Available"}, NEW list \in Displays,
         k = "Available" <=> list # NoDisplays,
         publish_probe_state(k, list, thr[t].got.seen, Done(t)),
         UNCHANGED <<world, faults, hotplug>>, probeFails' \in 0..ProbeMax,
         refreshFails' \in 0..(RefreshMax - 1), tries' \in 0..WarmTries, inFlight' \in BOOLEAN,
         \/ inFlight' = inFlight /\ t \notin Callers
         \/ t \in Callers /\ Holds(thr[t]) /\ ~inFlight'
  PROVE  ProbeInv' /\ st'.seen = thr[t].got.seen
<1>1. PICK seen \in 0..MaxChanges : seen = thr[t].got.seen /\ seen <= world.ver
  BY ProbeTyped DEF States, Answers, ProbeInv, Dated
<1>2. st' = [k |-> k, list |-> list, fresh |-> k # "Unknown", seen |-> seen]
  BY <1>1 DEF publish_probe_state
<1>3. PICK new \in BOOLEAN : new = (k # "Unknown")
  OBVIOUS
<1>4. /\ st' \in Verdicts /\ st'.seen = seen /\ (st'.k = "Available" <=> st'.list # NoDisplays)
  BY <1>2, <1>3 DEF Verdicts
<1>5. thr' = [u \in Threads |-> [Done(t)[u] EXCEPT !.moved = TRUE]]
  BY DEF publish_probe_state, Moved
<1>6. \A u \in Threads : Done(t)[u] \in States /\ Done(t)[u] = IF u = t THEN Idle ELSE thr[u]
  BY ProbeTyped, IdleIsState DEF Done
<1>7. \A r \in States : LET m == [r EXCEPT !.moved = TRUE] IN
        m \in States /\ m.moved /\ m.pc = r.pc /\ m.job = r.job /\ m.got = r.got
  BY DEF States
<1>8. /\ thr' \in [Threads -> States]
      /\ \A u \in Threads : /\ thr'[u].moved /\ thr'[u].pc = Done(t)[u].pc
                            /\ thr'[u].job = Done(t)[u].job /\ thr'[u].got = Done(t)[u].got
  BY <1>5, <1>6, <1>7
<1>9. VerdictTypes'
  BY <1>4, <1>8, ProbeTyped DEF VerdictTypes
<1>10. /\ thr'[t].pc = "idle" /\ thr'[t].got.seen = 0 /\ JobFits(t, thr'[t]) /\ ~Holds(thr'[t])
  BY <1>6, <1>8, IdleIsState DEF JobFits, Holds
<1>11. \A u \in Threads : u # t => /\ thr'[u].pc = thr[u].pc /\ thr'[u].job = thr[u].job
                                   /\ thr'[u].got = thr[u].got
  BY <1>6, <1>8
<1>12. thr'[t].got.seen <= world.ver
  BY <1>10, ProbeTyped
<1>13. ProbeInv'
  BY <1>1, <1>4, <1>8, <1>9, <1>10, <1>11, <1>12, ThreadStep
<1> QED
  BY <1>1, <1>4, <1>13

\* The fields of a thread's record.
LEMMA StateOf ==
  ASSUME ProbeAssumption, ProbeInv, NEW t \in Threads
  PROVE  /\ thr[t] \in States /\ thr[t].got \in Answers /\ thr[t].got.seen \in 0..MaxChanges
         /\ thr[t].got.list \in Displays /\ thr[t].got.ok \in BOOLEAN /\ thr[t].moved \in BOOLEAN
         /\ thr[t].got.seen <= world.ver /\ JobFits(t, thr[t])
BY ProbeTyped DEF States, Answers, ProbeInv, Dated, JobsFit

\* A thread gives up, or ends without a verdict of its own.
LEMMA DoneStep ==
  ASSUME ProbeAssumption, ProbeInv, NEW t \in Threads, thr' = Done(t),
         UNCHANGED <<world, hotplug>>, st' \in Verdicts, st'.seen = st.seen, st'.k = st.k,
         st'.list = st.list,
         faults' \in 0..MaxFaults, probeFails' \in 0..ProbeMax,
         refreshFails' \in 0..(RefreshMax - 1), tries' \in 0..WarmTries, inFlight' \in BOOLEAN,
         \/ inFlight' = inFlight /\ (t \in Callers => ~Holds(thr[t]))
         \/ t \in Callers /\ Holds(thr[t]) /\ ~inFlight'
  PROVE  ProbeInv'
<1>1. Idle \in States /\ JobFits(t, Idle) /\ Idle.got.seen <= world.ver /\ ~Holds(Idle)
      /\ Idle.pc # "answer"
  BY IdleIsState, ProbeTyped
<1>2. thr' = [thr EXCEPT ![t] = Idle]
  BY DEF Done
<1> QED
  BY <1>1, <1>2, AloneStep

\* The rest of the state, where a step leaves it alone.
LEMMA RestTyped ==
  ASSUME ProbeAssumption, ProbeInv
  PROVE  /\ st' = st => st' \in Verdicts
         /\ faults' = faults => faults' \in 0..MaxFaults
         /\ probeFails' = probeFails => probeFails' \in 0..ProbeMax
         /\ refreshFails' = refreshFails => refreshFails' \in 0..(RefreshMax - 1)
         /\ tries' = tries => tries' \in 0..WarmTries
         /\ inFlight' = inFlight => inFlight' \in BOOLEAN
BY ProbeTyped

LEMMA OutsideKeeps ==
  ASSUME ProbeAssumption, ProbeInv, WorldChanges \/ Expires
  PROVE  ProbeInv'
<1>1. CASE WorldChanges
  <2>1. PICK w \in [up : BOOLEAN, list : Displays, ver : {world.ver + 1}] :
          /\ world' = w
          /\ hotplug' = hotplug \/ hotplug' = Append(hotplug, [list |-> w.list, seen |-> w.ver])
    BY <1>1 DEF WorldChanges, Displays
  <2>2. /\ world.ver < MaxChanges /\ w.ver = world.ver + 1
        /\ UNCHANGED <<faults, st, inFlight, probeFails, refreshFails, thr, tries>>
    BY <1>1 DEF WorldChanges
  <2>3. w \in [up : BOOLEAN, list : Displays, ver : 0..MaxChanges] /\ w.ver \in 0..MaxChanges
        /\ w.list \in Displays
    BY <2>2, ProbeTyped
  <2> DEFINE m == [list |-> w.list, seen |-> w.ver]
  <2>4. m \in Sent /\ m.seen = w.ver
    BY <2>3 DEF Sent
  <2> HIDE DEF m
  <2>5. hotplug' = hotplug \/ hotplug' = Append(hotplug, m)
    BY <2>1 DEF m
  <2>6. /\ hotplug' \in Seq(Sent)
        /\ \A i \in 1..Len(hotplug') : hotplug'[i] = m
             \/ (i \in 1..Len(hotplug) /\ hotplug'[i] = hotplug[i])
    <3>1. CASE hotplug' = hotplug
      BY <3>1, ProbeTyped
    <3>2. CASE hotplug' = Append(hotplug, m)
      BY <2>4, <3>2, ProbeTyped, AppendProperties
    <3> QED
      BY <2>5, <3>1, <3>2
  <2>7. VerdictTypes'
    BY <2>1, <2>2, <2>3, <2>6 DEF ProbeInv, VerdictTypes
  <2>8. st.seen \in Nat /\ world.ver \in Nat /\ \A t \in Threads : thr[t].got.seen \in Nat
    BY ProbeTyped DEF Verdicts, States, Answers
  <2>9. \A i \in 1..Len(hotplug) : hotplug[i].seen \in Nat
    <3>1. \A i \in 1..Len(hotplug) : hotplug[i] \in Sent
      BY ProbeTyped, ElementOfSeq
    <3>2. \A e \in Sent : e.seen \in Nat
      BY ProbeTyped DEF Sent
    <3> QED
      BY <3>1, <3>2
  <2>10. Dated'
    BY <2>1, <2>2, <2>4, <2>6, <2>8, <2>9 DEF ProbeInv, Dated
  <2> QED
    BY <2>2, <2>7, <2>10 DEF ProbeInv, JobsFit, AnswerIsNewer, FlagHeld
<1>2. CASE Expires
  <2>1. PICK v \in Verdicts : v = st
    BY ProbeTyped
  <2>2. /\ st' = [v EXCEPT !.fresh = FALSE]
        /\ UNCHANGED <<world, faults, hotplug, inFlight, probeFails, refreshFails, thr, tries>>
    BY <1>2, <2>1 DEF Expires, env
  <2>3. st' \in Verdicts /\ st'.k = v.k /\ st'.list = v.list /\ st'.seen = v.seen
    BY <2>2 DEF Verdicts
  <2> QED
    BY <2>1, <2>2, <2>3 DEF ProbeInv, VerdictTypes, JobsFit, Dated, AnswerIsNewer, FlagHeld
<1> QED
  BY <1>1, <1>2

LEMMA AvailabilityKeeps ==
  ASSUME ProbeAssumption, ProbeInv, NEW t \in Callers, availability(t)
  PROVE  ProbeInv'
<1>1. thr[t].pc = "idle"
     /\ UNCHANGED <<world, faults, hotplug, st, inFlight, probeFails, refreshFails, tries>>
  BY DEF availability, env
<1>2. PICK job \in {"probe", "yes", "no"} :
        thr' = [thr EXCEPT ![t] = [Idle EXCEPT !.pc = "want", !.job = job]]
  BY DEF availability
<1>3. PICK z \in States : z = Idle
  BY IdleIsState
<1> DEFINE r == [z EXCEPT !.pc = "want", !.job = job]
<1>4. r \in States /\ r.pc = "want" /\ r.job = job /\ r.got = z.got
  BY DEF States, Jobs
<1>5. thr' = [thr EXCEPT ![t] = r]
  BY <1>2, <1>3
<1> HIDE DEF r
<1>6. JobFits(t, r) /\ ~Holds(r) /\ ~Holds(thr[t]) /\ t \in Threads /\ r.got.seen <= world.ver
  BY <1>1, <1>3, <1>4, IdleIsState, ProbeTyped DEF JobFits, Holds, ProbeAssumption, Threads
<1> QED
  BY <1>1, <1>4, <1>5, <1>6, RestTyped, AloneStep

LEMMA FlagKeeps ==
  ASSUME ProbeAssumption, ProbeInv, NEW t \in Callers, TakeFlag(t) \/ Sample(t) \/ SpawnFails(t)
  PROVE  ProbeInv'
<1>1. PICK z \in States : z = thr[t] /\ JobFits(t, z) /\ z.got.seen <= world.ver /\ t \in Threads
  BY StateOf DEF Threads
<1>2. CASE TakeFlag(t)
  <2>1. /\ z.pc = "want" /\ inFlight' = TRUE
        /\ UNCHANGED <<world, faults, hotplug, st, probeFails, refreshFails, tries>>
    BY <1>1, <1>2 DEF TakeFlag, env
  <2>2. CASE inFlight
    <3>1. thr' = Done(t) /\ inFlight' = inFlight /\ ~Holds(z)
      BY <1>2, <2>1, <2>2, ProbeTyped DEF TakeFlag, Holds
    <3> QED
      BY <1>1, <2>1, <3>1, RestTyped, DoneStep
  <2>3. CASE ~inFlight
    <3>1. PICK at \in {"query", "held"} : thr' = [thr EXCEPT ![t] = [z EXCEPT !.pc = at]]
      BY <1>1, <1>2, <2>3 DEF TakeFlag
    <3> DEFINE r == [z EXCEPT !.pc = at]
    <3>2. r \in States /\ r.pc = at /\ r.job = z.job /\ r.got = z.got
      BY DEF States
    <3>3. thr' = [thr EXCEPT ![t] = r]
      BY <3>1
    <3> HIDE DEF r
    <3>4. JobFits(t, r) /\ Holds(r) /\ r.got.seen <= world.ver /\ r.pc # "answer"
      BY <1>1, <2>1, <3>2 DEF JobFits, Holds
    <3> QED
      BY <1>1, <2>1, <2>3, <3>2, <3>3, <3>4, RestTyped, AloneStep
  <2> QED
    BY <2>2, <2>3
<1>3. CASE Sample(t)
  <2>1. z.pc = "held" /\ Holds(z)
       /\ UNCHANGED <<world, faults, hotplug, st, probeFails, refreshFails, tries>>
    BY <1>1, <1>3 DEF Sample, env, Holds
  <2>2. CASE thr' = Done(t) /\ inFlight' = FALSE
    BY <1>1, <2>1, <2>2, RestTyped, DoneStep
  <2>3. CASE thr' = [thr EXCEPT ![t].pc = "query", ![t].moved = FALSE] /\ UNCHANGED inFlight
    <3> DEFINE r == [z EXCEPT !.pc = "query", !.moved = FALSE]
    <3>1. r \in States /\ r.pc = "query" /\ r.job = z.job /\ r.got = z.got
      BY DEF States
    <3>2. thr' = [thr EXCEPT ![t] = r]
      BY <1>1, <2>3, ProbeTyped
    <3> HIDE DEF r
    <3>3. JobFits(t, r) /\ Holds(r) /\ r.got.seen <= world.ver
      BY <1>1, <2>1, <3>1 DEF JobFits, Holds
    <3> QED
      BY <1>1, <2>1, <2>3, <3>1, <3>2, <3>3, RestTyped, AloneStep
  <2> QED
    BY <1>3, <2>2, <2>3 DEF Sample
<1>4. CASE SpawnFails(t)
  <2>1. /\ z.pc = "query" /\ Holds(z) /\ thr' = Done(t) /\ inFlight' = FALSE
        /\ faults < MaxFaults /\ faults' = faults + 1
        /\ UNCHANGED <<world, hotplug, st, probeFails, refreshFails, tries>>
    BY <1>1, <1>4 DEF SpawnFails, Holds
  <2>2. faults' \in 0..MaxFaults
    BY <2>1, ProbeTyped DEF ProbeAssumption
  <2> QED
    BY <1>1, <2>1, <2>2, RestTyped, DoneStep
<1> QED
  BY <1>2, <1>3, <1>4

LEMMA QueryKeeps ==
  ASSUME ProbeAssumption, ProbeInv, NEW t \in Threads, query_displays(t)
  PROVE  ProbeInv'
<1>1. PICK z \in States : z = thr[t] /\ JobFits(t, z) /\ z.pc = "query"
  BY StateOf DEF query_displays
<1>2. UNCHANGED <<world, hotplug, st, inFlight, probeFails, refreshFails, tries>>
  BY DEF query_displays
<1>3. faults' \in 0..MaxFaults
  BY ProbeTyped DEF query_displays, ProbeAssumption
<1>4. world.list \in Displays /\ NoDisplays \in Displays /\ world.ver \in 0..MaxChanges
  BY ProbeTyped DEF Displays
<1>5. PICK a \in Answers :
        a.seen = world.ver /\ thr' = [thr EXCEPT ![t].pc = "answer", ![t].got = a]
  <2> DEFINE yes == [ok |-> TRUE, list |-> world.list, seen |-> world.ver]
             no == [ok |-> FALSE, list |-> NoDisplays, seen |-> world.ver]
  <2>1. yes \in Answers /\ no \in Answers /\ yes.seen = world.ver /\ no.seen = world.ver
    BY <1>4 DEF Answers
  <2>2. \/ thr' = [thr EXCEPT ![t].pc = "answer", ![t].got = yes]
        \/ thr' = [thr EXCEPT ![t].pc = "answer", ![t].got = no]
    BY DEF query_displays
  <2> QED
    BY <2>1, <2>2
<1> DEFINE r == [z EXCEPT !.pc = "answer", !.got = a]
<1>6. r \in States /\ r.pc = "answer" /\ r.job = z.job /\ r.got = a
  BY DEF States
<1>7. thr' = [thr EXCEPT ![t] = r]
  BY <1>1, <1>5, ProbeTyped
<1> HIDE DEF r
<1>8. JobFits(t, r) /\ Holds(r) /\ Holds(z) /\ r.got.seen <= world.ver /\ st.seen <= r.got.seen
  BY <1>1, <1>4, <1>5, <1>6 DEF JobFits, Holds, ProbeInv, Dated
<1> QED
  BY <1>1, <1>2, <1>3, <1>6, <1>7, <1>8, RestTyped, AloneStep

\* The three that held the flag, and what their verdict is dated by.
LEMMA ProbeKeeps ==
  ASSUME ProbeAssumption, ProbeInv, NEW t \in Threads, probe_and_publish(t)
  PROVE  ProbeInv'
<1>1. /\ thr[t].pc = "answer" /\ thr[t].job = "probe" /\ inFlight' = FALSE
      /\ UNCHANGED <<world, faults, hotplug, refreshFails, tries>>
  BY DEF probe_and_publish, env
<1>2. t \in Callers /\ Holds(thr[t]) /\ thr[t].got.list \in Displays /\ NoDisplays \in Displays
  BY <1>1, StateOf DEF JobFits, Holds, Displays
<1>3. probeFails' \in 0..ProbeMax
  BY ProbeTyped DEF probe_and_publish, ProbeAssumption
<1>4. CASE thr' = Done(t) /\ UNCHANGED st
  BY <1>1, <1>2, <1>3, <1>4, RestTyped, DoneStep
<1>5. CASE ~(thr' = Done(t) /\ UNCHANGED st)
  <2>1. PICK k \in {"Unavailable", "Available"}, list \in Displays :
          /\ k = "Available" <=> list # NoDisplays
          /\ publish_probe_state(k, list, thr[t].got.seen, Done(t))
    BY <1>2, <1>5 DEF probe_and_publish
  <2> QED
    BY <1>1, <1>2, <1>3, <2>1, RestTyped, PublishStep
<1> QED
  BY <1>4, <1>5

LEMMA RefreshNoKeeps ==
  ASSUME ProbeAssumption, ProbeInv, NEW t \in Threads, refresh_unavailable_async(t)
  PROVE  ProbeInv' /\ st.seen <= st'.seen
<1>1. /\ thr[t].pc = "answer" /\ thr[t].job = "no" /\ inFlight' = FALSE
      /\ UNCHANGED <<world, faults, hotplug, refreshFails, tries>>
  BY DEF refresh_unavailable_async, env
<1>2. t \in Callers /\ Holds(thr[t]) /\ thr[t].got.list \in Displays /\ NoDisplays \in Displays
  BY <1>1, StateOf DEF JobFits, Holds, Displays
<1>3. probeFails' \in 0..ProbeMax
  BY ProbeTyped DEF refresh_unavailable_async, ProbeAssumption
<1>4. st.seen \in Nat
  BY ProbeTyped DEF Verdicts
<1>5. CASE thr' = Done(t) /\ UNCHANGED st
  <2>1. ProbeInv'
    BY <1>1, <1>2, <1>3, <1>5, RestTyped, DoneStep
  <2> QED
    BY <1>4, <1>5, <2>1
<1>6. CASE ~(thr' = Done(t) /\ UNCHANGED st)
  <2>1. PICK k \in {"Unavailable", "Available"}, list \in Displays :
          /\ k = "Available" <=> list # NoDisplays
          /\ publish_probe_state(k, list, thr[t].got.seen, Done(t))
    BY <1>2, <1>6 DEF refresh_unavailable_async
  <2>2. ~thr[t].moved
    BY <1>6 DEF refresh_unavailable_async
  <2>3. ProbeInv' /\ st'.seen = thr[t].got.seen
    BY <1>1, <1>2, <1>3, <2>1, RestTyped, PublishStep
  <2> QED
    BY <1>1, <2>2, <2>3 DEF ProbeInv, AnswerIsNewer
<1> QED
  BY <1>5, <1>6

LEMMA RefreshYesKeeps ==
  ASSUME ProbeAssumption, ProbeInv, NEW t \in Threads, refresh_available_async(t)
  PROVE  ProbeInv' /\ st.seen <= st'.seen
<1> DEFINE reply == thr[t].got
           failures == IF reply.ok THEN 0 ELSE refreshFails + 1
           outcome == refresh_outcome(reply, failures)
<1>1. /\ thr[t].pc = "answer" /\ thr[t].job = "yes" /\ inFlight' = FALSE
      /\ UNCHANGED <<world, faults, hotplug, probeFails, tries>>
  BY DEF refresh_available_async, env
<1>2. t \in Callers /\ Holds(thr[t]) /\ reply.list \in Displays /\ NoDisplays \in Displays
  BY <1>1, StateOf DEF JobFits, Holds, Displays
<1>3. st.seen \in Nat
  BY ProbeTyped DEF Verdicts
<1>4. /\ outcome = "Publish" => reply.list # NoDisplays
      /\ outcome \notin {"GiveUp"} => failures < RefreshMax
  BY ProbeTyped, StateOf DEF refresh_outcome, ProbeAssumption
<1>5. refreshFails' \in 0..(RefreshMax - 1)
  <2>1. refreshFails' \in {refreshFails, 0} \/ (outcome # "GiveUp" /\ refreshFails' = failures)
    BY DEF refresh_available_async
  <2>2. failures \in Nat /\ RefreshMax \in Nat \ {0} /\ refreshFails \in 0..(RefreshMax - 1)
    BY ProbeTyped DEF ProbeAssumption
  <2> QED
    BY <1>4, <2>1, <2>2
<1>6. CASE thr[t].moved
  <2>1. thr' = Done(t) /\ UNCHANGED st
    BY <1>6 DEF refresh_available_async
  <2>2. ProbeInv'
    BY <1>1, <1>2, <1>5, <2>1, RestTyped, DoneStep
  <2> QED
    BY <1>3, <2>1, <2>2
<1>7. CASE ~thr[t].moved /\ outcome = "Restamp"
  <2>1. PICK v \in Verdicts : v = st
    BY ProbeTyped
  <2>2. st' = [v EXCEPT !.fresh = TRUE] /\ thr' = Done(t)
    BY <1>7, <2>1 DEF refresh_available_async
  <2>3. st' \in Verdicts /\ st'.k = v.k /\ st'.list = v.list /\ st'.seen = v.seen
    BY <2>2 DEF Verdicts
  <2>4. ProbeInv'
    BY <1>1, <1>2, <1>5, <2>1, <2>2, <2>3, RestTyped, DoneStep
  <2> QED
    BY <1>3, <2>1, <2>3, <2>4
<1>8. CASE ~thr[t].moved /\ outcome # "Restamp"
  <2>1. PICK k \in {"Unknown", "Unavailable", "Available"}, list \in Displays :
          /\ k = "Available" <=> list # NoDisplays
          /\ publish_probe_state(k, list, thr[t].got.seen, Done(t))
    BY <1>2, <1>4, <1>8 DEF refresh_available_async
  <2>2. ProbeInv' /\ st'.seen = thr[t].got.seen
    BY <1>1, <1>2, <1>5, <2>1, RestTyped, PublishStep
  <2> QED
    BY <1>1, <1>8, <2>2 DEF ProbeInv, AnswerIsNewer
<1> QED
  BY <1>6, <1>7, <1>8

\* The writers without the flag.
LEMMA LoginKeeps ==
  ASSUME ProbeAssumption, ProbeInv, refresh_displays_for_login
  PROVE  ProbeInv' /\ st.seen <= st'.seen
<1>1. /\ thr[Login].pc = "answer" /\ Login \in Threads /\ Login \notin Callers
      /\ UNCHANGED <<world, faults, hotplug, inFlight, probeFails, refreshFails, tries>>
  BY DEF refresh_displays_for_login, env, Threads, ProbeAssumption
<1>2. st.seen \in Nat /\ thr[Login].got.list \in Displays
  BY <1>1, StateOf, ProbeTyped DEF Verdicts
<1>3. CASE thr' = Done(Login) /\ UNCHANGED st
  BY <1>1, <1>2, <1>3, RestTyped, DoneStep
<1>4. CASE ~(thr' = Done(Login) /\ UNCHANGED st)
  <2>1. /\ thr[Login].got.list # NoDisplays /\ ~thr[Login].moved
        /\ publish_probe_state("Available", thr[Login].got.list, thr[Login].got.seen, Done(Login))
    BY <1>4 DEF refresh_displays_for_login
  <2>2. ProbeInv' /\ st'.seen = thr[Login].got.seen
    BY <1>1, <1>2, <2>1, RestTyped, PublishStep
  <2> QED
    BY <1>1, <2>1, <2>2 DEF ProbeInv, AnswerIsNewer
<1> QED
  BY <1>3, <1>4

LEMMA WarmKeeps ==
  ASSUME ProbeAssumption, ProbeInv, warm_availability
  PROVE  ProbeInv'
<1>1. /\ thr[Warm].pc = "answer" /\ Warm \in Threads /\ Warm \notin Callers
      /\ UNCHANGED <<world, faults, hotplug, inFlight, probeFails, refreshFails>>
      /\ tries' \in {tries, 0}
  BY DEF warm_availability, env, Threads, ProbeAssumption
<1>2. thr[Warm].got.list \in Displays /\ tries' \in 0..WarmTries
  BY <1>1, StateOf, ProbeTyped DEF ProbeAssumption
<1>3. CASE thr' = Done(Warm) /\ UNCHANGED st
  BY <1>1, <1>2, <1>3, RestTyped, DoneStep
<1>4. CASE ~(thr' = Done(Warm) /\ UNCHANGED st)
  <2>1. /\ thr[Warm].got.list # NoDisplays
        /\ publish_probe_state("Available", thr[Warm].got.list, thr[Warm].got.seen, Done(Warm))
    BY <1>4 DEF warm_availability
  <2> QED
    BY <1>1, <1>2, <2>1, RestTyped, PublishStep
<1> QED
  BY <1>3, <1>4

LEMMA BeginKeeps ==
  ASSUME ProbeAssumption, ProbeInv, LoginStarts \/ WarmTurn
  PROVE  ProbeInv'
<1>1. UNCHANGED <<world, faults, hotplug, st, inFlight, probeFails, refreshFails>>
  BY DEF LoginStarts, WarmTurn, env
<1>2. tries' \in 0..WarmTries
  BY ProbeTyped DEF LoginStarts, WarmTurn, ProbeAssumption
<1>3. CASE thr' = thr
  BY <1>1, <1>2, <1>3 DEF ProbeInv, VerdictTypes, JobsFit, Dated, AnswerIsNewer, FlagHeld
<1>4. CASE thr' # thr
  <2>1. PICK t \in {Login, Warm}, job \in {"login", "warm"} :
          /\ thr' = [thr EXCEPT ![t] = [Idle EXCEPT !.pc = "query", !.job = job]]
          /\ t = Warm => job = "warm"
    BY <1>4 DEF LoginStarts, WarmTurn, ProbeAssumption
  <2>2. PICK z \in States : z = Idle
    BY IdleIsState
  <2> DEFINE r == [z EXCEPT !.pc = "query", !.job = job]
  <2>3. r \in States /\ r.pc = "query" /\ r.job = job /\ r.got = z.got
    BY DEF States, Jobs
  <2>4. thr' = [thr EXCEPT ![t] = r]
    BY <2>1, <2>2
  <2> HIDE DEF r
  <2>5. JobFits(t, r) /\ t \in Threads /\ t \notin Callers /\ r.got.seen <= world.ver
    BY <2>1, <2>2, <2>3, IdleIsState, ProbeTyped DEF JobFits, ProbeAssumption, Threads
  <2> QED
    BY <1>1, <1>2, <2>3, <2>4, <2>5, RestTyped, AloneStep
<1> QED
  BY <1>3, <1>4

LEMMA ListKeeps ==
  ASSUME ProbeAssumption, ProbeInv, swap_available_displays
  PROVE  ProbeInv'
<1>1. /\ hotplug # <<>> /\ hotplug' = Tail(hotplug)
      /\ UNCHANGED <<world, faults, inFlight, probeFails, refreshFails, tries>>
  BY DEF swap_available_displays
<1>2. /\ hotplug' \in Seq(Sent) /\ Head(hotplug) = hotplug[1] /\ 1 \in 1..Len(hotplug)
      /\ \A i \in 1..Len(hotplug') : i + 1 \in 1..Len(hotplug) /\ hotplug'[i] = hotplug[i + 1]
  BY <1>1, ProbeTyped
<1>3. PICK m \in Sent : m = Head(hotplug) /\ m.seen <= world.ver
  BY <1>2, ProbeTyped DEF ProbeInv, Dated
<1>4. \A i \in 1..Len(hotplug') : hotplug'[i].seen <= world.ver
  BY <1>2 DEF ProbeInv, Dated
<1>5. CASE UNCHANGED <<st, thr>>
  BY <1>1, <1>2, <1>4, <1>5 DEF ProbeInv, VerdictTypes, JobsFit, Dated, AnswerIsNewer, FlagHeld
<1>6. CASE ~UNCHANGED <<st, thr>>
  <2>1. PICK k \in {"Unavailable", "Available"} :
          k = IF m.list = NoDisplays THEN "Unavailable" ELSE "Available"
    OBVIOUS
  <2>2. /\ st' = [k |-> k, list |-> m.list, fresh |-> k # "Unknown", seen |-> m.seen]
        /\ thr' = [u \in Threads |-> [thr[u] EXCEPT !.moved = TRUE]]
    BY <1>3, <1>6, <2>1 DEF swap_available_displays, publish_probe_state, Moved
  <2>3. m.list \in Displays /\ m.seen \in 0..MaxChanges
    BY DEF Sent
  <2>4. PICK new \in BOOLEAN : new = (k # "Unknown")
    OBVIOUS
  <2>5. st' \in Verdicts /\ st'.seen = m.seen /\ (st'.k = "Available" <=> st'.list # NoDisplays)
    BY <2>1, <2>2, <2>3, <2>4 DEF Verdicts
  <2>6. \A r \in States : LET n == [r EXCEPT !.moved = TRUE] IN
          n \in States /\ n.moved /\ n.pc = r.pc /\ n.job = r.job /\ n.got = r.got
    BY DEF States
  <2>7. /\ thr' \in [Threads -> States]
        /\ \A u \in Threads : /\ thr'[u].moved /\ thr'[u].pc = thr[u].pc
                              /\ thr'[u].job = thr[u].job /\ thr'[u].got = thr[u].got
    BY <2>2, <2>6, ProbeTyped
  <2>8. VerdictTypes'
    BY <1>1, <1>2, <2>5, <2>7, ProbeTyped DEF VerdictTypes
  <2>9. JobsFit' /\ AnswerIsNewer'
    BY <2>7 DEF ProbeInv, JobsFit, JobFits, AnswerIsNewer
  <2>10. Dated'
    BY <1>1, <1>3, <1>4, <2>5, <2>7 DEF ProbeInv, Dated
  <2>11. FlagHeld'
    BY <1>1, <2>7 DEF ProbeInv, FlagHeld, Holds, Threads
  <2> QED
    BY <2>8, <2>9, <2>10, <2>11 DEF ProbeInv
<1> QED
  BY <1>5, <1>6

LEMMA ProbeStep == ASSUME ProbeAssumption PROVE ProbeInv /\ [Next]_vars => ProbeInv'
<1> SUFFICES ASSUME ProbeInv, [Next]_vars PROVE ProbeInv'
  OBVIOUS
<1>1. ASSUME NEW t \in Callers, availability(t) \/ SpawnFails(t) PROVE ProbeInv'
  BY <1>1, AvailabilityKeeps, FlagKeeps
<1>2. ASSUME NEW t \in Threads, Proceeds(t) PROVE ProbeInv'
  <2>1. CASE TakeFlag(t) \/ Sample(t)
    BY <2>1, FlagKeeps DEF TakeFlag, Sample
  <2> QED
    BY <1>2, <2>1, QueryKeeps, ProbeKeeps, RefreshNoKeeps, RefreshYesKeeps DEF Proceeds
<1>3. CASE UNCHANGED vars
  BY <1>3 DEF vars, ProbeInv, VerdictTypes, JobsFit, Dated, AnswerIsNewer, FlagHeld
<1> QED
  BY <1>1, <1>2, <1>3, OutsideKeeps, ListKeeps, BeginKeeps, LoginKeeps, WarmKeeps DEF Next

LEMMA FlagIsSingle == ASSUME ProbeInv PROVE SingleFlight
<1> DEFINE holders == {t \in Callers : thr[t].pc \in {"held", "query", "answer"}}
<1>1. CASE inFlight
  <2>1. PICK t \in Callers : holders = {t}
    BY <1>1 DEF ProbeInv, FlagHeld, Holds
  <2> QED
    BY <1>1, <2>1, FS_Singleton DEF SingleFlight
<1>2. CASE ~inFlight
  <2>1. holders = {}
    BY <1>2 DEF ProbeInv, FlagHeld, Holds
  <2> QED
    BY <1>2, <2>1, FS_EmptySet DEF SingleFlight
<1> QED
  BY <1>1, <1>2

LEMMA TypesOK == ASSUME ProbeInv PROVE TypeOK
<1>1. \A i \in DOMAIN hotplug : hotplug[i] \in Sent
  BY DEF ProbeInv, VerdictTypes
<1>2. \A e \in Sent : e.list \in Lists \cup {NoDisplays}
  BY DEF Sent, Displays
<1> QED
  BY <1>1, <1>2 DEF ProbeInv, VerdictTypes, TypeOK, Displays, Answers, Jobs, States, Verdicts

\* The thread that ends is the one that acts.
LEMMA NewerStep ==
  ASSUME ProbeAssumption, ProbeInv, Next
  PROVE  NewerStays
<1> SUFFICES ASSUME NEW t \in Threads, thr[t].pc = "answer", thr'[t].pc = "idle",
                    thr[t].job \in {"yes", "no", "login"}
             PROVE  st.seen <= st'.seen
  <2>1. st.seen <= st'.seen => st'.seen >= st.seen
    OBVIOUS
  <2> QED
    BY <2>1 DEF NewerStays
<1>1. st.seen \in Nat /\ thr \in [Threads -> States]
  BY ProbeTyped DEF Verdicts
<1>2. CASE st' = st
  BY <1>1, <1>2
<1>3. CASE \E u \in Threads : refresh_unavailable_async(u) \/ refresh_available_async(u)
  BY <1>3, RefreshNoKeeps, RefreshYesKeeps
<1>4. CASE refresh_displays_for_login
  BY <1>4, LoginKeeps
<1>5. ASSUME NEW u \in Threads, probe_and_publish(u) \/ (warm_availability /\ u = Warm)
      PROVE  st' = st
  <2>1. u # t
    <3>1. thr[u].job \in {"probe", "warm"}
      BY <1>5, StateOf DEF probe_and_publish, warm_availability, JobFits
    <3> QED
      BY <3>1
  <2>2. st' = st \/ thr' = Moved(Done(u))
    BY <1>5 DEF probe_and_publish, warm_availability, publish_probe_state
  <2>3. CASE thr' = Moved(Done(u))
    <3>1. thr'[t] = [thr[t] EXCEPT !.moved = TRUE]
      BY <1>1, <2>1, <2>3 DEF Moved, Done
    <3>2. thr'[t].pc = thr[t].pc
      BY <1>1, <3>1 DEF States
    <3> QED
      BY <3>2
  <2> QED
    BY <2>2, <2>3
<1>6. CASE swap_available_displays
  <2>1. st' = st \/ thr' = Moved(thr)
    BY <1>6 DEF swap_available_displays, publish_probe_state
  <2>2. CASE thr' = Moved(thr)
    <3>1. thr'[t] = [thr[t] EXCEPT !.moved = TRUE]
      BY <2>2 DEF Moved
    <3>2. thr'[t].pc = thr[t].pc
      BY <1>1, <3>1 DEF States
    <3> QED
      BY <3>2
  <2> QED
    BY <1>2, <2>1, <2>2
<1>7. CASE Expires
  BY <1>7 DEF Expires
<1>8. Warm \in Threads
  BY DEF Threads
<1>9. CASE \E u \in Threads : TakeFlag(u) \/ Sample(u) \/ query_displays(u)
  BY <1>2, <1>9 DEF TakeFlag, Sample, query_displays
<1>10. CASE \E u \in Callers : availability(u) \/ SpawnFails(u)
  BY <1>2, <1>10 DEF availability, SpawnFails
<1>11. CASE WorldChanges \/ LoginStarts \/ WarmTurn
  BY <1>2, <1>11 DEF WorldChanges, LoginStarts, WarmTurn
<1> QED
  BY <1>2, <1>3, <1>4, <1>5, <1>6, <1>7, <1>8, <1>9, <1>10, <1>11 DEF Next, Proceeds

\* For any callers, lists and bounds on failures: DRM_PROBE_IN_FLIGHT is up
\* while exactly one of the threads that go through it asks and down when none
\* does, and a slow refresh, or the job of a login, never puts an older answer
\* over a newer one.  Probes and the warm-up publish without that check.
THEOREM VerdictTheorem == Spec => VerdictInOrder
<1> ProbeAssumption
  BY ProbeFits
<1>1. Init => ProbeInv
  BY ProbeInit
<1>2. ProbeInv /\ [Next]_vars => ProbeInv'
  BY ProbeStep
<1>3. ProbeInv => TypeOK /\ SingleFlight
  BY TypesOK, FlagIsSingle
<1>4. ProbeInv /\ Next => NewerStays
  BY NewerStep
<1> QED
  BY <1>1, <1>2, <1>3, <1>4, PTL DEF Spec, VerdictInOrder

-----------------------------------------------------------------------------
(* The stream of one screen: DrmStream. *)

Pictures == 0..MaxScene
Shapes == 0..MaxShape
Topos == 0..MaxTopo
Credits == 0..Credit
Ages == 0..(Stall + 1)
Stalls == 0..MaxStalled

FrameMsgs == [k : {"frame"}, n : Pictures \ {Stream!None}]
CursorMsgs == [k : {"cursor"}, n : Shapes]
Produced == FrameMsgs \cup CursorMsgs
Wired == Produced \cup [k : {"displays"}, n : Topos]
Workers == [pc : {"run", "ended"}, out : Seq(Produced), shape : Shapes, stalled : Stalls]
Tasks == [pc : {"top", "recv", "work", "send", "ended"}, credit : Credits, age : Ages,
          latest : Pictures, held : Pictures, seen : Topos]
Receivers == [pc : {"top", "recv", "ended"}, pending : Shapes, shown : Shapes, told : Topos,
              hung : BOOLEAN]

\* The types, with those of the messages on their way.
ScreenTypes ==
  /\ (chosen = "failing") \in BOOLEAN /\ active \in BOOLEAN /\ peerOk \in BOOLEAN
  /\ scene \in 1..MaxScene /\ shape \in 1..MaxShape /\ topo \in Topos
ProducerTypes ==
  /\ worker \in Workers /\ Len(worker.out) <= 2
  /\ chan \in Seq(Produced) /\ Len(chan) <= ChanCap
  /\ gated \in BOOLEAN /\ task \in Tasks
ConsumerTypes ==
  /\ cons \in Receivers /\ transform \in BOOLEAN
  /\ latest \in Pictures /\ cur \in Pictures
SocketTypes == wire \in Seq(Wired) /\ acks \in Nat

\* The credit, in two halves: it is never made up, whoever has ended, and none
\* is lost while both ends live.
NoneMadeUp == task.credit + Stream!Frames(wire) + acks <= Credit

\* A frame that passed after the check has used up its turn of the loop: the
\* task has to pass the check again.
LateIsOver ==
  /\ lateSent \in 0..1
  /\ peerOk => lateSent = 0
  /\ lateSent = 1 => task.pc \in {"top", "recv", "ended"}

StreamInv ==
  /\ ScreenTypes /\ ProducerTypes /\ ConsumerTypes /\ SocketTypes
  /\ NoneMadeUp /\ Stream!CreditKept /\ LateIsOver

-----------------------------------------------------------------------------
(* Frames in a sequence. *)

FrameAt(s) == {i \in 1..Len(s) : s[i].k = "frame"}

\* FiniteSets comes with the instance once more.
LEMMA StreamNotions ==
  ASSUME NEW S
  PROVE  Stream!IsFiniteSet(S) = IsFiniteSet(S) /\ Stream!Cardinality(S) = Cardinality(S)
BY DEF Stream!IsFiniteSet, IsFiniteSet, Stream!Cardinality, Cardinality

LEMMA FramesFinite ==
  ASSUME NEW S, NEW s \in Seq(S)
  PROVE  IsFiniteSet(FrameAt(s)) /\ Stream!Frames(s) = Cardinality(FrameAt(s))
       /\ Stream!Frames(s) \in Nat
<1>1. IsFiniteSet(1..Len(s))
  BY FS_Interval
<1>2. IsFiniteSet(FrameAt(s))
  BY <1>1, FS_Subset DEF FrameAt
<1> QED
  BY <1>2, FS_CardinalityType, StreamNotions DEF Stream!Frames, FrameAt

LEMMA FramesEmpty == Stream!Frames(<<>>) = 0
<1>1. {i \in 1..Len(<<>>) : <<>>[i].k = "frame"} = {}
  OBVIOUS
<1> QED
  BY <1>1, FS_EmptySet, StreamNotions DEF Stream!Frames

LEMMA FramesAppend ==
  ASSUME NEW S, NEW s \in Seq(S), NEW m \in S
  PROVE  Stream!Frames(Append(s, m)) = Stream!Frames(s) + (IF m.k = "frame" THEN 1 ELSE 0)
<1> DEFINE t == Append(s, m)
<1>1. Len(t) = Len(s) + 1 /\ t[Len(s) + 1] = m /\ Len(s) \in Nat /\ t \in Seq(S)
      /\ \A i \in 1..Len(s) : t[i] = s[i]
  BY AppendProperties
<1>2. IsFiniteSet(FrameAt(s)) /\ Stream!Frames(s) = Cardinality(FrameAt(s))
     /\ Stream!Frames(s) \in Nat
      /\ Stream!Frames(t) = Cardinality(FrameAt(t))
  BY <1>1, FramesFinite
<1> HIDE DEF t
<1>3. CASE m.k = "frame"
  <2>1. FrameAt(t) = FrameAt(s) \cup {Len(s) + 1} /\ Len(s) + 1 \notin FrameAt(s)
    BY <1>1, <1>3 DEF FrameAt
  <2> QED
    BY <1>2, <1>3, <2>1, FS_AddElement, ZenonT(30) DEF t
<1>4. CASE m.k # "frame"
  <2>1. FrameAt(t) = FrameAt(s)
    BY <1>1, <1>4 DEF FrameAt
  <2> QED
    BY <1>2, <1>4, <2>1 DEF t
<1> QED
  BY <1>3, <1>4

LEMMA FramesTail ==
  ASSUME NEW S, NEW s \in Seq(S), s # <<>>
  PROVE  Stream!Frames(s) = Stream!Frames(Tail(s)) + (IF Head(s).k = "frame" THEN 1 ELSE 0)
<1> DEFINE t == Tail(s)
           f == [i \in FrameAt(t) |-> i + 1]
<1>1. Len(t) = Len(s) - 1 /\ Len(s) \in Nat \ {0} /\ t \in Seq(S) /\ Head(s) = s[1]
      /\ \A i \in 1..Len(t) : t[i] = s[i + 1]
  BY HeadTailProperties, EmptySeq
<1>2. IsFiniteSet(FrameAt(s)) /\ Stream!Frames(s) = Cardinality(FrameAt(s))
     /\ Stream!Frames(s) \in Nat
      /\ IsFiniteSet(FrameAt(t)) /\ Stream!Frames(t) = Cardinality(FrameAt(t))
           /\ Stream!Frames(t) \in Nat
  BY <1>1, FramesFinite
<1> HIDE DEF t
<1>3. FrameAt(t) \subseteq 1..Len(t) /\ FrameAt(s) \subseteq 1..Len(s)
  BY DEF FrameAt
<1>4. \A i \in FrameAt(t) : i + 1 \in FrameAt(s) \ {1}
  BY <1>1 DEF FrameAt
<1>5. \A j \in FrameAt(s) \ {1} : j - 1 \in FrameAt(t) /\ j = (j - 1) + 1
  <2> TAKE j \in FrameAt(s) \ {1}
  <2>1. j \in 2..Len(s) /\ s[j].k = "frame"
    BY <1>1 DEF FrameAt
  <2>2. j - 1 \in 1..Len(t) /\ t[j - 1] = s[(j - 1) + 1] /\ (j - 1) + 1 = j
    BY <1>1, <2>1
  <2> QED
    BY <2>1, <2>2 DEF FrameAt
<1>6. f \in Bijection(FrameAt(t), FrameAt(s) \ {1})
  <2>1. f \in Injection(FrameAt(t), FrameAt(s) \ {1})
    BY <1>3, <1>4 DEF Injection, IsInjective
  <2>2. f \in Surjection(FrameAt(t), FrameAt(s) \ {1})
    BY <1>3, <1>4, <1>5 DEF Surjection
  <2> QED
    BY <2>1, <2>2 DEF Bijection
<1>7. Cardinality(FrameAt(s) \ {1}) = Cardinality(FrameAt(t))
  BY <1>2, <1>6, FS_Bijection DEF ExistsBijection
<1>8. 1 \in FrameAt(s) <=> Head(s).k = "frame"
  BY <1>1 DEF FrameAt
<1>9. Cardinality(FrameAt(s) \ {1})
        = IF 1 \in FrameAt(s) THEN Cardinality(FrameAt(s)) - 1 ELSE Cardinality(FrameAt(s))
  BY <1>2, FS_RemoveElement
<1> QED
  BY <1>2, <1>7, <1>8, <1>9 DEF t

-----------------------------------------------------------------------------
\* What the provers need of the intervals, apart from the records.
LEMMA Ranges ==
  ASSUME Stream!StreamAssumption
  PROVE  /\ 0 \in Pictures /\ Stream!None \in Pictures
              /\ 1..MaxScene \subseteq Pictures \ {Stream!None}
         /\ 0 \in Shapes /\ 1..MaxShape \subseteq Shapes /\ 0 \in Topos
         /\ 0 \in Credits /\ Credit \in Credits /\ 0 \in Ages /\ 0 \in Stalls
         /\ \A i \in Ages : i <= Stall => i + 1 \in Ages
         /\ \A i \in Stalls : ~(i + 1 > MaxStalled) => i + 1 \in Stalls
BY DEF Stream!StreamAssumption, Pictures, Shapes, Topos, Credits, Ages, Stalls, Stream!None

LEMMA StreamInit == ASSUME Stream!StreamAssumption, Stream!Init PROVE StreamInv
<1>1. ScreenTypes
  BY Ranges DEF Stream!Init, Stream!StreamAssumption, ScreenTypes
<1>2. ProducerTypes /\ ConsumerTypes
  <2>1. worker \in Workers /\ task \in Tasks /\ cons \in Receivers
    BY Ranges DEF Stream!Init, Workers, Tasks, Receivers
  <2>2. worker.out = <<>> /\ chan = <<>>
    BY DEF Stream!Init
  <2>3. chan \in Seq(Produced) /\ Len(chan) = 0 /\ Len(worker.out) = 0
    BY <2>2
  <2>4. Len(chan) <= ChanCap /\ Len(worker.out) <= 2
    BY <2>3 DEF Stream!StreamAssumption
  <2> QED
    BY <2>1, <2>3, <2>4, Ranges DEF Stream!Init, ProducerTypes, ConsumerTypes
<1>3. SocketTypes /\ NoneMadeUp /\ Stream!CreditKept /\ LateIsOver
  BY FramesEmpty DEF Stream!Init, Stream!StreamAssumption, SocketTypes, NoneMadeUp,
     Stream!CreditKept, LateIsOver
<1> QED
  BY <1>1, <1>2, <1>3 DEF StreamInv

\* What the screen, the device, time and the encoder do touches no credit.
LEMMA ScreenKeeps ==
  ASSUME Stream!StreamAssumption, StreamInv, UNCHANGED (chosen = "failing"), Stream!ScreenChanges
  PROVE  StreamInv'
<1>1. ScreenTypes'
  <2>1. scene < MaxScene => scene + 1 \in 1..MaxScene
    BY DEF StreamInv, ScreenTypes, Stream!StreamAssumption
  <2>2. shape < MaxShape => shape + 1 \in 1..MaxShape
    BY DEF StreamInv, ScreenTypes, Stream!StreamAssumption
  <2>3. topo < MaxTopo => topo + 1 \in Topos
    BY DEF StreamInv, ScreenTypes, Stream!StreamAssumption, Topos
  <2> QED
    BY <2>1, <2>2, <2>3 DEF StreamInv, ScreenTypes, Stream!ScreenChanges
<1>2. UNCHANGED <<peerOk, worker, chan, gated, task, wire, acks, cons, transform, latest, cur,
                  lateSent>>
  BY DEF Stream!ScreenChanges, Stream!producer, Stream!consumer
<1> QED
  BY <1>1, <1>2 DEF StreamInv, ProducerTypes, ConsumerTypes, SocketTypes, NoneMadeUp,
     Stream!CreditKept,
     Stream!Running, LateIsOver

\* What the service's loop reads: the peer's uid forgets the late frames, another
\* uid or none leaves them counted.
LEMMA CacheKeeps ==
  ASSUME StreamInv, UNCHANGED (chosen = "failing"), Stream!update_active_user_lookup_cache
  PROVE  StreamInv'
<1>1. UNCHANGED <<scene, shape, topo, active, worker, chan, gated, task, wire, acks, cons,
                  transform, latest, cur>>
  BY DEF Stream!update_active_user_lookup_cache, Stream!producer, Stream!consumer
<1>2. peerOk' \in BOOLEAN
  BY DEF Stream!update_active_user_lookup_cache, StreamInv, ScreenTypes
<1>3. LateIsOver'
  BY <1>1, <1>2 DEF Stream!update_active_user_lookup_cache, StreamInv, LateIsOver
<1> QED
  BY <1>1, <1>2, <1>3 DEF StreamInv, ScreenTypes, ProducerTypes, ConsumerTypes, SocketTypes,
     NoneMadeUp, Stream!CreditKept, Stream!Running

LEMMA QuietKeeps ==
  ASSUME Stream!StreamAssumption, StreamInv, UNCHANGED (chosen = "failing"),
         Stream!Hangs \/ Stream!Tick \/ Stream!Grab \/ Stream!GrabFails \/ Stream!WorkerSends
              \/ Stream!StoreTransform \/ Stream!RecvTop \/ Stream!frame
  PROVE  StreamInv'
<1>1. ProducerTypes'
  <2> USE DEF StreamInv, ProducerTypes
  <2>1. CASE UNCHANGED Stream!producer
    BY <2>1 DEF Stream!producer
  <2>2. CASE Stream!Tick
    <3>1. task.age \in Ages /\ task.age <= Stall => task.age + 1 \in Ages
      BY Ranges
    <3>2. task' \in Tasks
      BY <2>2, <3>1 DEF Stream!Tick, Tasks
    <3> QED
      BY <2>2, <3>2 DEF Stream!Tick
  <2>3. CASE Stream!Grab
    <3> DEFINE c == IF shape # worker.shape THEN <<[k |-> "cursor", n |-> shape]>> ELSE <<>>
               f == IF gated THEN <<>> ELSE <<[k |-> "frame", n |-> scene]>>
    <3>1. shape \in Shapes /\ scene \in Pictures \ {Stream!None}
      BY Ranges DEF ScreenTypes
    <3>2. [k |-> "cursor", n |-> shape] \in Produced /\ [k |-> "frame", n |-> scene] \in Produced
      BY <3>1 DEF Produced, FrameMsgs, CursorMsgs
    <3>3. c \in Seq(Produced) /\ f \in Seq(Produced) /\ Len(c) <= 1 /\ Len(f) <= 1
      BY <3>2
    <3>4. f \o c \in Seq(Produced) /\ Len(f \o c) = Len(f) + Len(c)
      BY <3>3, ConcatProperties
    <3>5. worker' = [worker EXCEPT !.out = f \o c, !.shape = shape,
                       !.stalled = IF gated THEN @ ELSE 0]
          /\ UNCHANGED <<chan, gated, task>>
      BY <2>3 DEF Stream!Grab
    <3>6. Len(f \o c) <= 2
      BY <3>3, <3>4
    <3> HIDE DEF c, f
    <3>7. worker' \in Workers /\ worker'.out = f \o c
      BY <3>1, <3>4, <3>5, Ranges DEF Workers
    <3> QED
      BY <3>5, <3>6, <3>7
  <2>4. CASE Stream!GrabFails
    <3>1. ~(worker.stalled + 1 > MaxStalled) => worker.stalled + 1 \in Stalls
      BY Ranges DEF Workers
    <3>2. worker' \in Workers /\ worker'.out = worker.out
      BY <2>4, <3>1 DEF Stream!GrabFails, Workers
    <3> QED
      BY <2>4, <3>2 DEF Stream!GrabFails
  <2>5. CASE Stream!WorkerSends
    <3>1. worker.out \in Seq(Produced) /\ UNCHANGED <<gated, task>>
      BY <2>5 DEF Workers, Stream!WorkerSends
    <3>2. CASE worker.out # <<>> /\ Len(chan) < ChanCap /\ chan' = Append(chan, Head(worker.out))
               /\ worker' = [worker EXCEPT !.out = Tail(@)]
      <4>1. Head(worker.out) \in Produced /\ Tail(worker.out) \in Seq(Produced)
            /\ Len(Tail(worker.out)) = Len(worker.out) - 1
        BY <3>1, <3>2, HeadTailProperties
      <4>2. chan' \in Seq(Produced) /\ Len(chan') = Len(chan) + 1
        BY <3>2, <4>1, AppendProperties
      <4>3. worker' \in Workers /\ worker'.out = Tail(worker.out)
        BY <3>2, <4>1 DEF Workers
      <4> QED
        BY <3>1, <3>2, <4>1, <4>2, <4>3 DEF Stream!StreamAssumption
    <3>3. CASE worker' = [worker EXCEPT !.pc = "ended", !.out = <<>>] /\ UNCHANGED chan
      <4>1. worker' \in Workers /\ worker'.out = <<>>
        <5>1. <<>> \in Seq(Produced)
          OBVIOUS
        <5> QED
          BY <3>3, <5>1 DEF Workers
      <4> QED
        BY <3>1, <3>3, <4>1
    <3> QED
      BY <2>5, <3>2, <3>3 DEF Stream!WorkerSends
  <2> QED
    BY <2>1, <2>2, <2>3, <2>4, <2>5 DEF Stream!Hangs, Stream!StoreTransform, Stream!RecvTop,
       Stream!frame
<1>2. ConsumerTypes'
  BY Ranges DEF StreamInv, ConsumerTypes, Receivers, Stream!Hangs, Stream!Tick, Stream!Grab,
     Stream!GrabFails, Stream!WorkerSends,
         Stream!StoreTransform, Stream!RecvTop, Stream!frame, Stream!consumer
<1>3. UNCHANGED <<(chosen = "failing"), scene, shape, topo, active, peerOk, wire, acks, lateSent>>
  BY DEF Stream!Hangs, Stream!Tick, Stream!Grab, Stream!GrabFails, Stream!WorkerSends,
     Stream!StoreTransform, Stream!RecvTop, Stream!frame, Stream!outside
<1>4. task'.pc = task.pc /\ task'.credit = task.credit /\ (cons'.pc = "ended" <=> cons.pc = "ended")
  BY DEF StreamInv, ProducerTypes, ConsumerTypes, Tasks, Receivers, Stream!Hangs, Stream!Tick,
     Stream!Grab, Stream!GrabFails,
         Stream!WorkerSends, Stream!StoreTransform, Stream!RecvTop, Stream!frame,
              Stream!producer, Stream!consumer
<1> QED
  BY <1>1, <1>2, <1>3, <1>4 DEF StreamInv, ScreenTypes, SocketTypes, NoneMadeUp, Stream!CreditKept,
     Stream!Running, LateIsOver

\* The end of the task empties the channel and touches nothing else.
LEMMA EndKeeps ==
  ASSUME Stream!StreamAssumption, StreamInv, Stream!TaskEnds, acks' \in Nat, acks' <= acks,
         UNCHANGED <<(chosen = "failing"), Stream!outside, worker, wire, Stream!consumer, lateSent>>
  PROVE  StreamInv'
<1>1. ProducerTypes' /\ task'.pc = "ended" /\ task'.credit = task.credit
  <2>1. task' \in Tasks /\ task'.pc = "ended" /\ task'.credit = task.credit
    BY Ranges DEF StreamInv, ProducerTypes, Stream!TaskEnds, Tasks
  <2> QED
    BY <2>1 DEF StreamInv, ProducerTypes, Stream!TaskEnds, Stream!StreamAssumption
<1>2. Stream!Frames(wire) \in Nat /\ task.credit \in Nat /\ acks \in Nat /\ Credit \in Nat
  BY FramesFinite DEF StreamInv, SocketTypes, ProducerTypes, Tasks, Credits, Stream!StreamAssumption
<1>3. NoneMadeUp' /\ Stream!CreditKept'
  BY <1>1, <1>2 DEF StreamInv, NoneMadeUp, Stream!CreditKept, Stream!Running
<1>4. LateIsOver'
  BY <1>1 DEF StreamInv, LateIsOver, Stream!outside
<1> QED
  BY <1>1, <1>3, <1>4 DEF StreamInv, ScreenTypes, ConsumerTypes, SocketTypes, Stream!outside,
     Stream!consumer

LEMMA DrainCounts ==
  ASSUME Stream!StreamAssumption, StreamInv
  PROVE  /\ Stream!drain_frame_acks(task.credit) = task.credit + acks
         /\ task.credit + acks \in 0..Credit
         /\ Stream!Frames(wire) \in Nat /\ task.credit \in Nat /\ acks \in Nat
<1>1. Stream!Frames(wire) \in Nat /\ task.credit \in Nat /\ acks \in Nat /\ Credit \in Nat
  BY FramesFinite DEF StreamInv, SocketTypes, ProducerTypes, Tasks, Credits, Stream!StreamAssumption
<1> QED
  BY <1>1 DEF StreamInv, NoneMadeUp, Stream!drain_frame_acks

LEMMA TopKeeps ==
  ASSUME Stream!StreamAssumption, StreamInv, UNCHANGED (chosen = "failing"), Stream!TaskTop
  PROVE  StreamInv'
<1>1. CASE Stream!TaskEnds
  BY <1>1, EndKeeps, DrainCounts DEF Stream!TaskTop
<1>2. CASE ~Stream!TaskEnds
  <2> DEFINE c == task.credit + acks
  <2>1. /\ task.pc = "top" /\ acks' = 0
        /\ task' = [task EXCEPT !.pc = "recv", !.credit = c, !.age = IF c > 0 THEN 0 ELSE @]
        /\ gated' \in BOOLEAN
        /\ UNCHANGED <<(chosen = "failing"), Stream!outside, worker, chan, wire, Stream!consumer, lateSent>>
    BY <1>2, DrainCounts DEF Stream!TaskTop
  <2>2. c \in 0..Credit /\ Stream!Frames(wire) \in Nat /\ task.credit \in Nat /\ acks \in Nat
    BY DrainCounts
  <2>3. ProducerTypes' /\ task'.pc = "recv" /\ task'.credit = c
    <3>1. c \in Credits
      BY <2>2 DEF Credits
    <3>2. task' \in Tasks /\ task'.pc = "recv" /\ task'.credit = c
      BY <2>1, <3>1, Ranges DEF StreamInv, ProducerTypes, Tasks
    <3> QED
      BY <2>1, <3>2 DEF StreamInv, ProducerTypes
  <2>4. NoneMadeUp' /\ Stream!CreditKept'
    BY <2>1, <2>2, <2>3 DEF StreamInv, NoneMadeUp, Stream!CreditKept, Stream!Running,
       Stream!consumer
  <2>5. LateIsOver'
    BY <2>1, <2>3 DEF StreamInv, LateIsOver, Stream!outside
  <2> QED
    BY <2>1, <2>3, <2>4, <2>5 DEF StreamInv, ScreenTypes, ConsumerTypes, SocketTypes,
       Stream!outside,
       Stream!consumer
<1> QED
  BY <1>1, <1>2

LEMMA ProceedKeeps ==
  ASSUME Stream!StreamAssumption, StreamInv, task.pc = "recv", Stream!Proceed,
         UNCHANGED <<(chosen = "failing"), Stream!outside, worker, acks, Stream!consumer, lateSent>>
  PROVE  StreamInv'
<1>1. CASE ~peerOk
  BY <1>1, EndKeeps, DrainCounts DEF Stream!Proceed
<1>2. CASE peerOk
  <2>1. /\ task' = [task EXCEPT !.pc = "work", !.latest = task.held, !.held = Stream!None, !.seen = topo]
        /\ wire' = IF topo # task.seen THEN Append(wire, [k |-> "displays", n |-> topo]) ELSE wire
        /\ UNCHANGED <<chan, gated>>
    BY <1>2 DEF Stream!Proceed
  <2>2. [k |-> "displays", n |-> topo] \in Wired
    BY DEF StreamInv, ScreenTypes, Wired
  <2>3. wire' \in Seq(Wired) /\ Stream!Frames(wire') = Stream!Frames(wire)
    <3>1. CASE topo # task.seen
      <4> DEFINE m == [k |-> "displays", n |-> topo]
      <4>1. Stream!Frames(Append(wire, m)) = Stream!Frames(wire) + (IF m.k = "frame" THEN 1 ELSE 0)
        BY <2>2, FramesAppend DEF StreamInv, SocketTypes
      <4> QED
        BY <2>1, <2>2, <3>1, <4>1, DrainCounts, AppendProperties DEF StreamInv, SocketTypes
    <3> QED
      BY <2>1, <3>1 DEF StreamInv, SocketTypes
  <2>4. ProducerTypes' /\ task'.pc = "work" /\ task'.credit = task.credit
    <3>1. task' \in Tasks /\ task'.pc = "work" /\ task'.credit = task.credit
      BY <2>1, Ranges DEF StreamInv, ScreenTypes, ProducerTypes, Tasks
    <3> QED
      BY <2>1, <3>1 DEF StreamInv, ProducerTypes
  <2>5. NoneMadeUp' /\ Stream!CreditKept'
    BY <2>3, <2>4 DEF StreamInv, NoneMadeUp, Stream!CreditKept, Stream!Running, Stream!consumer
  <2>6. LateIsOver'
    BY <1>2 DEF StreamInv, LateIsOver, Stream!outside
  <2> QED
    BY <2>3, <2>4, <2>5, <2>6 DEF StreamInv, ScreenTypes, ConsumerTypes, SocketTypes,
       Stream!outside,
       Stream!consumer
<1> QED
  BY <1>1, <1>2 DEF StreamInv, ScreenTypes

LEMMA TaskRecvKeeps ==
  ASSUME Stream!StreamAssumption, StreamInv, UNCHANGED (chosen = "failing"), Stream!TaskRecv
  PROVE  StreamInv'
<1>1. task.pc = "recv"
     /\ UNCHANGED <<(chosen = "failing"), Stream!outside, worker, acks, Stream!consumer, lateSent>>
      /\ (Stream!Proceed \/ (Stream!TaskEnds /\ UNCHANGED wire))
  BY DEF Stream!TaskRecv
<1> QED
  BY <1>1, EndKeeps, ProceedKeeps, DrainCounts

LEMMA TakesKeeps ==
  ASSUME Stream!StreamAssumption, StreamInv, UNCHANGED (chosen = "failing"), Stream!TaskTakes
  PROVE  StreamInv'
<1>1. UNCHANGED <<(chosen = "failing"), Stream!outside, worker, gated, acks, Stream!consumer, lateSent>> /\ task.pc = "work"
  BY DEF Stream!TaskTakes
<1>2. chan # <<>> => /\ Head(chan) \in Produced /\ Tail(chan) \in Seq(Produced)
                     /\ Len(Tail(chan)) <= ChanCap
  BY HeadTailProperties DEF StreamInv, ProducerTypes, Stream!StreamAssumption
<1>3. chan' \in Seq(Produced) /\ Len(chan') <= ChanCap
  BY <1>2 DEF Stream!TaskTakes, StreamInv, ProducerTypes
<1>4. task' \in Tasks /\ task'.credit = task.credit /\ task'.pc \in {"work", "send"}
  <2>1. chan # <<>> /\ Head(chan).k = "frame" => Head(chan).n \in Pictures
    BY <1>2 DEF Produced, FrameMsgs, CursorMsgs
  <2> QED
    BY <2>1 DEF Stream!TaskTakes, StreamInv, ProducerTypes, Tasks
<1>5. wire' \in Seq(Wired) /\ Stream!Frames(wire') = Stream!Frames(wire)
  <2>1. CASE chan # <<>> /\ Head(chan).k = "cursor" /\ wire' = Append(wire, Head(chan))
    <3>1. Head(chan) \in Wired
      BY <1>2, <2>1 DEF Wired
    <3>2. Stream!Frames(Append(wire, Head(chan))) = Stream!Frames(wire) + (IF Head(chan).k = "frame" THEN 1 ELSE 0)
      BY <3>1, FramesAppend DEF StreamInv, SocketTypes
    <3> QED
      BY <2>1, <3>1, <3>2, DrainCounts, AppendProperties DEF StreamInv, SocketTypes
  <2> QED
    BY <2>1 DEF Stream!TaskTakes, StreamInv, SocketTypes
<1>6. NoneMadeUp' /\ Stream!CreditKept'
  BY <1>1, <1>4, <1>5 DEF StreamInv, NoneMadeUp, Stream!CreditKept, Stream!Running, Stream!consumer
<1>7. LateIsOver'
  BY <1>1 DEF StreamInv, LateIsOver, Stream!outside
<1> QED
  BY <1>1, <1>3, <1>4, <1>5, <1>6, <1>7 DEF StreamInv, ScreenTypes, ProducerTypes, ConsumerTypes,
     SocketTypes, Stream!outside, Stream!consumer

LEMMA SendsKeeps ==
  ASSUME Stream!StreamAssumption, StreamInv, UNCHANGED (chosen = "failing"), Stream!TaskSends
  PROVE  StreamInv'
<1> DEFINE c == task.credit + acks
<1>1. c \in 0..Credit /\ Stream!Frames(wire) \in Nat /\ task.credit \in Nat /\ acks \in Nat
  BY DrainCounts
<1>2. task.pc = "send" /\ acks' = 0
     /\ UNCHANGED <<(chosen = "failing"), Stream!outside, worker, Stream!consumer>>
  BY DEF Stream!TaskSends
<1>3. CASE cons.pc = "ended"
  BY <1>1, <1>2, <1>3, EndKeeps DEF Stream!TaskSends
<1>4. CASE cons.pc # "ended"
  <2>1. /\ UNCHANGED <<chan, gated>>
        /\ \/ /\ task' = [task EXCEPT !.pc = "top", !.credit = c,
                            !.held = task.latest, !.latest = Stream!None]
              /\ UNCHANGED <<wire, lateSent>>
           \/ /\ c > 0 /\ task.latest # Stream!None
              /\ task' = [task EXCEPT !.pc = "top", !.credit = c - 1, !.latest = Stream!None]
              /\ wire' = Append(wire, [k |-> "frame", n |-> task.latest])
              /\ lateSent' = IF peerOk THEN lateSent ELSE lateSent + 1
           \/ /\ task' = [task EXCEPT !.pc = "top", !.credit = c]
              /\ UNCHANGED <<wire, lateSent>>
    BY <1>4, DrainCounts DEF Stream!TaskSends
  <2>2. lateSent = 0
    BY <1>2 DEF StreamInv, LateIsOver
  <2>3. task' \in Tasks /\ task'.pc = "top"
    <3>1. c \in Credits /\ (c > 0 => c - 1 \in Credits)
      BY <1>1 DEF Credits, Stream!StreamAssumption
    <3> HIDE DEF c
    <3> QED
      BY <2>1, <3>1, Ranges DEF StreamInv, ProducerTypes, Tasks
  <2>4. LateIsOver'
    BY <1>2, <2>1, <2>2, <2>3 DEF LateIsOver, Stream!outside, StreamInv, ScreenTypes
  <2>5. wire' \in Seq(Wired) /\ task'.credit + Stream!Frames(wire') = c + Stream!Frames(wire)
    <3>1. CASE UNCHANGED wire /\ task'.credit = c
      BY <3>1 DEF StreamInv, SocketTypes
    <3>2. CASE /\ c > 0 /\ task.latest # Stream!None /\ task'.credit = c - 1
               /\ wire' = Append(wire, [k |-> "frame", n |-> task.latest])
      <4> DEFINE m == [k |-> "frame", n |-> task.latest]
      <4>1. m \in Wired
        BY <3>2 DEF Wired, Produced, FrameMsgs, StreamInv, ProducerTypes, Tasks
      <4>2. Stream!Frames(Append(wire, m)) = Stream!Frames(wire) + (IF m.k = "frame" THEN 1 ELSE 0)
        BY <4>1, FramesAppend DEF StreamInv, SocketTypes
      <4>3. Stream!Frames(wire') = Stream!Frames(wire) + 1
        BY <3>2, <4>2
      <4>4. wire' \in Seq(Wired)
        BY <3>2, <4>1, AppendProperties DEF StreamInv, SocketTypes
      <4> QED
        BY <1>1, <3>2, <4>3, <4>4
    <3> QED
      BY <2>1, <3>1, <3>2 DEF StreamInv, ProducerTypes, Tasks
  <2>6. NoneMadeUp' /\ Stream!CreditKept'
    <3>1. task'.credit + Stream!Frames(wire') + acks' = c + Stream!Frames(wire)
      BY <1>1, <1>2, <2>5
    <3> QED
      BY <1>1, <1>2, <1>4, <3>1, <2>3 DEF StreamInv, NoneMadeUp, Stream!CreditKept,
         Stream!Running, Stream!consumer
  <2> QED
    BY <1>2, <2>1, <2>3, <2>4, <2>5, <2>6 DEF StreamInv, ScreenTypes, ProducerTypes,
       ConsumerTypes, SocketTypes, Stream!outside, Stream!consumer
<1> QED
  BY <1>3, <1>4

LEMMA RecvKeeps ==
  ASSUME Stream!StreamAssumption, StreamInv, UNCHANGED (chosen = "failing"), Stream!RecvMsg
  PROVE  StreamInv'
<1>1. UNCHANGED <<(chosen = "failing"), Stream!outside, Stream!producer, transform, cur, lateSent>> /\ cons.pc = "recv"
  BY DEF Stream!RecvMsg
<1>2. Stream!Frames(wire) \in Nat /\ task.credit \in Nat /\ acks \in Nat
  BY DrainCounts
<1>3. CASE wire = <<>>
  <2>1. cons' = [cons EXCEPT !.pc = "top"] /\ UNCHANGED <<wire, acks, latest>>
    BY <1>3 DEF Stream!RecvMsg
  <2>2. cons' \in Receivers /\ cons'.pc = "top"
    BY <2>1 DEF StreamInv, ConsumerTypes, Receivers
  <2> QED
    BY <1>1, <2>1, <2>2 DEF StreamInv, ScreenTypes, ProducerTypes, ConsumerTypes, SocketTypes,
       NoneMadeUp, Stream!CreditKept, Stream!Running, LateIsOver, Stream!outside, Stream!producer
<1>4. CASE wire # <<>>
  <2> DEFINE m == Head(wire)
  <2>1. m \in Wired /\ Tail(wire) \in Seq(Wired) /\ Stream!Frames(Tail(wire)) \in Nat
        /\ Stream!Frames(wire) = Stream!Frames(Tail(wire)) + (IF m.k = "frame" THEN 1 ELSE 0)
    BY <1>4, HeadTailProperties, FramesTail, FramesFinite DEF StreamInv, SocketTypes
  <2>2. wire' = Tail(wire) /\ cons' \in Receivers /\ latest' \in Pictures
    <3>1. /\ m.k = "frame" => m.n \in Pictures
          /\ m.k = "cursor" => m.n \in Shapes
          /\ m.k = "displays" => m.n \in Topos
      BY <2>1 DEF Wired, Produced, FrameMsgs, CursorMsgs
    <3> HIDE DEF m
    <3>2. Stream!RecvMsg => \/ /\ m.k = "frame" /\ wire' = Tail(wire) /\ latest' = m.n
                               /\ cons' = [cons EXCEPT !.pc = IF task.pc = "ended" THEN "ended" ELSE "top"]
                            \/ /\ m.k = "cursor" /\ wire' = Tail(wire) /\ UNCHANGED latest
                               /\ cons' = IF transform
                                          THEN [cons EXCEPT !.pc = "top", !.shown = m.n, !.pending = 0]
                                          ELSE [cons EXCEPT !.pc = "top", !.pending = m.n]
                            \/ /\ m.k = "displays" /\ wire' = Tail(wire) /\ UNCHANGED latest
                               /\ cons' = [cons EXCEPT !.pc = "top", !.told = m.n]
      BY <1>4 DEF Stream!RecvMsg, m
    <3> QED
      BY <3>1, <3>2, Ranges DEF StreamInv, ConsumerTypes, Receivers
  <2>3. acks' = acks + (IF m.k = "frame" THEN 1 ELSE 0)
    BY <1>2, <1>4, <2>1 DEF Stream!RecvMsg
  <2>4. acks' \in Nat /\ Stream!Frames(wire') + acks' = Stream!Frames(wire) + acks
    BY <1>2, <2>1, <2>2, <2>3
  <2>5. NoneMadeUp' /\ Stream!CreditKept'
    <3>1. task.credit + Stream!Frames(wire') + acks' = task.credit + Stream!Frames(wire) + acks
      <4>1. Stream!Frames(wire') \in Nat
        BY <2>1, <2>2
      <4> QED
        BY <1>2, <2>4, <4>1, SMTT(30)
    <3>2. task' = task
      BY <1>1 DEF Stream!producer
    <3> QED
      BY <1>1, <3>1, <3>2 DEF StreamInv, NoneMadeUp, Stream!CreditKept, Stream!Running
  <2> QED
    BY <1>1, <2>1, <2>2, <2>4, <2>5 DEF StreamInv, ScreenTypes, ProducerTypes, ConsumerTypes,
       SocketTypes, LateIsOver, Stream!outside, Stream!producer
<1> QED
  BY <1>3, <1>4

LEMMA RecvEndKeeps ==
  ASSUME Stream!StreamAssumption, StreamInv, UNCHANGED (chosen = "failing"), Stream!RecvEnds
  PROVE  StreamInv'
BY DEF Stream!RecvEnds, StreamInv, ScreenTypes, ProducerTypes, ConsumerTypes, SocketTypes,
   NoneMadeUp, Stream!CreditKept, Stream!Running, LateIsOver, Stream!outside, Stream!producer,
        Receivers

LEMMA StreamStep == ASSUME Stream!StreamAssumption, StreamInv, [Stream!Next]_Stream!vars
     PROVE StreamInv'
<1>1. CASE UNCHANGED Stream!vars
  BY <1>1 DEF Stream!vars, Stream!outside, Stream!producer, Stream!consumer, StreamInv,
     ScreenTypes, ProducerTypes,
     ConsumerTypes, SocketTypes, NoneMadeUp, Stream!CreditKept, Stream!Running, LateIsOver
<1>2. CASE Stream!Next
  BY <1>2, ScreenKeeps, CacheKeeps, QuietKeeps, TopKeeps, TaskRecvKeeps, TakesKeeps, SendsKeeps, RecvKeeps,
     RecvEndKeeps DEF Stream!Next, Stream!Worker, Stream!Task, Stream!Receiver
<1> QED
  BY <1>1, <1>2

LEMMA StreamInvSays ==
  ASSUME Stream!StreamAssumption, StreamInv PROVE Stream!TypeOK /\ Stream!CreditKept
       /\ Stream!OneFrameLate
<1>1. acks \in 0..Credit
  BY DrainCounts DEF Stream!StreamAssumption
<1>2. \A i \in DOMAIN wire : wire[i].k \in {"frame", "cursor", "displays"}
  <2>1. \A m \in Wired : m.k \in {"frame", "cursor", "displays"}
    BY DEF Wired, Produced, FrameMsgs, CursorMsgs
  <2> QED
    BY <2>1 DEF StreamInv, SocketTypes
<1>3. lateSent \in Nat /\ Stream!OneFrameLate
  BY DEF StreamInv, LateIsOver, Stream!OneFrameLate
<1>4. /\ worker.pc \in {"run", "ended"} /\ worker.shape \in Shapes /\ worker.stalled \in Stalls
      /\ task.pc \in {"top", "recv", "work", "send", "ended"}
      /\ task.credit \in Credits /\ task.age \in Ages /\ task.latest \in Pictures
      /\ task.held \in Pictures /\ task.seen \in Topos
      /\ cons.pc \in {"top", "recv", "ended"} /\ cons.hung \in BOOLEAN
      /\ cons.pending \in Shapes /\ cons.shown \in Shapes /\ cons.told \in Topos
  BY DEF StreamInv, ProducerTypes, ConsumerTypes, Workers, Tasks, Receivers
<1> QED
  BY <1>1, <1>2, <1>3, <1>4 DEF Stream!TypeOK, StreamInv, ScreenTypes, ProducerTypes, ConsumerTypes,
     Shapes, Stalls, Credits, Ages, Pictures, Topos

\* For any credit, channel and stall limit: what the task of handle_drm_conn
\* lacks of its credit is a frame on the wire or an acknowledgement on its way
\* back while both ends live, and once the cache of the service's loop no longer
\* holds the peer's uid, the peer gets one frame at most.
THEOREM StreamTheorem == Stream!Spec => []StreamInMeasure
<1>1. Stream!Init => StreamInv
  BY StreamInit, StreamFits
<1>2. StreamInv /\ [Stream!Next]_Stream!vars => StreamInv'
  BY StreamStep, StreamFits
<1>3. StreamInv => StreamInMeasure
  BY StreamInvSays, StreamFits DEF StreamInMeasure
<1> QED
  BY <1>1, <1>2, <1>3, PTL DEF Stream!Spec

-----------------------------------------------------------------------------
(* Who owns the privacy mode: PrivacyMode. *)

\* The types the argument needs.
Typed ==
    /\ owner \in Conns \cup {NoConn}
    /\ stuck \in BOOLEAN /\ (stuck => owner # NoConn)
    /\ pc \in [Conns -> Privacy!Places]
    /\ perm \in [Conns -> BOOLEAN]
    /\ told \in [Conns -> {"on", "failed", "off"}]

\* No turn-on thread ever exists when turning on happens in place.
NoThreads ==
    /\ lock = Privacy!Free
    /\ thread = [c \in Conns |-> [w \in Privacy!Which |-> Privacy!None]]
    /\ \A c \in Conns : pc[c] # "wait"

\* A connection on its way to a failure answer does not own the mode: only
\* its own requests could make it the owner, and it makes none meanwhile.  One
\* that was told of a failure and is being revoked owns it only if turning off failed.
FailingOwnsNot ==
    \A c \in Conns :
        /\ pc[c] \in {"no", "err", "undo"} => owner # c
        /\ pc[c] = "revoke" /\ told[c] = "failed" => owner # c \/ stuck

InPlaceInv == Typed /\ NoThreads /\ Privacy!PermKept /\ Privacy!FailedMeansOff /\ FailingOwnsNot

-----------------------------------------------------------------------------
\* What turn_off_privacy may do: the owner goes or stays; a success never
\* leaves the caller the owner, and an owner it should have turned off and did
\* not is stuck.
LEMMA TurnOffEffect ==
    ASSUME NEW c \in Conns \cup {NoConn}, NEW ok \in BOOLEAN, Typed,
           Privacy!turn_off_privacy(c, ok)
    PROVE  /\ owner' \in {owner, NoConn}
           /\ ok => owner' = NoConn
           /\ stuck' \in BOOLEAN /\ (stuck' => owner' # NoConn)
           /\ owner' # NoConn /\ stuck => stuck'
           /\ owner' # NoConn /\ owner' = c => stuck'
           /\ impl' = impl
  BY DEF Typed, Privacy!turn_off_privacy, Privacy!check_off_conn_id

\* What turn_on_privacy_sync may do: the caller becomes the owner only with
\* the answer "ok", and an owner who is not the caller stays.
LEMMA TurnOnEffect ==
    ASSUME NEW c \in Conns, NEW k \in Impls, NEW ok \in {"ok", "no", "err"},
           Typed, Privacy!turn_on_privacy_sync(c, k, ok), Privacy!PrivacyAssumption
    PROVE  /\ owner' \in {owner, c, NoConn}
           /\ ok # "ok" => owner' # c
           /\ owner \in Conns \ {c} => owner' = owner /\ stuck' = stuck
           /\ stuck' \in BOOLEAN /\ (stuck' => owner' # NoConn)
  BY DEF Typed, Privacy!PrivacyAssumption, Privacy!turn_on_privacy_sync, Privacy!TurnOn,
     Privacy!check_on_conn_id

LEMMA InPlaceInit == ASSUME Privacy!PrivacyAssumption PROVE Privacy!Init => InPlaceInv
  BY DEF Privacy!PrivacyAssumption, Privacy!Init, InPlaceInv, Typed, NoThreads, Privacy!PermKept,
     Privacy!FailedMeansOff, FailingOwnsNot, Privacy!Places

LEMMA InPlaceStep ==
    ASSUME Privacy!PrivacyAssumption, ~Amyuni, InPlaceInv, [Privacy!Next]_Privacy!vars
    PROVE  InPlaceInv'
<1> USE DEF Privacy!PrivacyAssumption, InPlaceInv, Typed, NoThreads, Privacy!PermKept,
     Privacy!FailedMeansOff, FailingOwnsNot
<1>1. ASSUME NEW c \in Conns, NEW k \in Impls, Privacy!TurnOnInPlace(c, k)
      PROVE  InPlaceInv'
  <2>1. PICK ok \in {"ok", "no", "err"} : Privacy!turn_on_privacy_sync(c, k, ok)
       /\ Privacy!Goto(c, ok)
    BY <1>1 DEF Privacy!TurnOnInPlace
  <2>2. /\ owner' \in {owner, c, NoConn}
        /\ ok # "ok" => owner' # c
        /\ owner \in Conns \ {c} => owner' = owner /\ stuck' = stuck
        /\ stuck' \in BOOLEAN /\ (stuck' => owner' # NoConn)
    BY <2>1, TurnOnEffect
  <2>3. /\ pc[c] = "idle" /\ perm[c]
        /\ pc' = [pc EXCEPT ![c] = ok]
        /\ UNCHANGED <<lock, thread, perm, told>>
    BY <1>1, <2>1 DEF Privacy!TurnOnInPlace, Privacy!Goto
  <2>4. Typed' /\ NoThreads'
    BY <2>1, <2>2, <2>3 DEF Privacy!Places
  <2>5. Privacy!PermKept'
    BY <2>2, <2>3
  <2>6. Privacy!FailedMeansOff' /\ FailingOwnsNot'
    BY <2>1, <2>2, <2>3 DEF Privacy!Places
  <2> QED BY <2>4, <2>5, <2>6
<1>2. ASSUME NEW c \in Conns, NEW k \in Impls, Privacy!TurnOnAsync(c, k)
      PROVE  InPlaceInv'
  BY <1>2 DEF Privacy!TurnOnAsync, Privacy!is_async_privacy_mode
<1>3. ASSUME NEW c \in Conns, NEW w \in Privacy!Which, Privacy!ThreadLocks(c, w)
     \/ Privacy!ThreadDone(c, w)
      PROVE  InPlaceInv'
  BY <1>3 DEF Privacy!ThreadLocks, Privacy!ThreadDone, Privacy!Free
<1>4. ASSUME NEW c \in Conns, Privacy!Timeout(c)
      PROVE  InPlaceInv'
  BY <1>4 DEF Privacy!Timeout
<1>5. ASSUME NEW c \in Conns, Privacy!AnswerOk(c)
      PROVE  InPlaceInv'
  <2>1. /\ pc[c] = "ok" /\ pc' = [pc EXCEPT ![c] = "idle"]
        /\ UNCHANGED <<lock, thread, perm>>
    BY <1>5 DEF Privacy!AnswerOk, Privacy!Goto
  <2>2. CASE told' = [told EXCEPT ![c] = "on"] /\ UNCHANGED <<impl, owner, stuck>>
    BY <2>1, <2>2 DEF Privacy!Places
  <2>3. CASE /\ impl = "window" /\ told' = [told EXCEPT ![c] = "failed"]
             /\ \E ok \in BOOLEAN : Privacy!turn_off_privacy(c, ok)
    <3>1. /\ owner' \in {owner, NoConn} /\ stuck' \in BOOLEAN /\ (stuck' => owner' # NoConn)
          /\ owner' # NoConn /\ (stuck \/ owner' = c) => stuck'
      BY <2>3, TurnOffEffect
    <3> QED BY <2>1, <2>3, <3>1 DEF Privacy!Places
  <2> QED BY <1>5, <2>2, <2>3 DEF Privacy!AnswerOk, Privacy!Tell
<1>6. ASSUME NEW c \in Conns, Privacy!AnswerNo(c)
      PROVE  InPlaceInv'
  BY <1>6 DEF Privacy!AnswerNo, Privacy!Goto, Privacy!Tell, Privacy!Places
<1>7. ASSUME NEW c \in Conns, Privacy!LookAfterError(c)
      PROVE  InPlaceInv'
  BY <1>7 DEF Privacy!LookAfterError, Privacy!Goto, Privacy!Tell, Privacy!Places
<1>8. ASSUME NEW c \in Conns, Privacy!UndoAfterError(c)
      PROVE  InPlaceInv'
  <2>1. /\ owner' \in {owner, NoConn} /\ stuck' \in BOOLEAN
        /\ (stuck' => owner' # NoConn) /\ (owner' # NoConn /\ stuck => stuck')
    BY <1>8, TurnOffEffect DEF Privacy!UndoAfterError
  <2>2. /\ pc[c] = "undo" /\ pc' = [pc EXCEPT ![c] = "idle"]
        /\ told' = [told EXCEPT ![c] = "failed"]
        /\ UNCHANGED <<lock, thread, perm>>
    BY <1>8 DEF Privacy!UndoAfterError, Privacy!Goto, Privacy!Tell
  <2> QED BY <2>1, <2>2 DEF Privacy!Places
<1>9. ASSUME NEW c \in Conns, Privacy!TurnOff(c)
      PROVE  InPlaceInv'
  <2>1. PICK ok \in BOOLEAN : /\ Privacy!turn_off_privacy(c, ok)
                              /\ told' = IF ok THEN [told EXCEPT ![c] = "off"] ELSE told
    BY <1>9 DEF Privacy!TurnOff
  <2>2. /\ owner' \in {owner, NoConn} /\ stuck' \in BOOLEAN
        /\ (stuck' => owner' # NoConn) /\ (owner' # NoConn /\ stuck => stuck')
    BY <2>1, TurnOffEffect
  <2>3. UNCHANGED <<lock, thread, pc, perm>>
    BY <1>9 DEF Privacy!TurnOff
  <2> QED BY <2>1, <2>2, <2>3
<1>10. ASSUME NEW c \in Conns, Privacy!Revoke(c)
       PROVE  InPlaceInv'
  BY <1>10 DEF Privacy!Revoke, Privacy!Goto, Privacy!Places
<1>11. ASSUME NEW c \in Conns, Privacy!RevokeDone(c)
       PROVE  InPlaceInv'
  <2>1. PICK ok \in BOOLEAN : /\ Privacy!turn_off_privacy(c, ok)
                              /\ perm' = [perm EXCEPT ![c] = ~ok]
                              /\ told' = IF ok THEN [told EXCEPT ![c] = "off"] ELSE told
    BY <1>11 DEF Privacy!RevokeDone
  <2>2. /\ owner' \in {owner, NoConn} /\ (ok => owner' = NoConn) /\ stuck' \in BOOLEAN
        /\ (stuck' => owner' # NoConn) /\ (owner' # NoConn /\ stuck => stuck')
    BY <2>1, TurnOffEffect
  <2>3. /\ pc[c] = "revoke" /\ pc' = [pc EXCEPT ![c] = "idle"]
        /\ UNCHANGED <<lock, thread>>
    BY <1>11 DEF Privacy!RevokeDone, Privacy!Goto
  <2>4. CASE ok
    <3>1. perm' = [perm EXCEPT ![c] = FALSE] /\ told' = [told EXCEPT ![c] = "off"]
      BY <2>1, <2>4
    <3> QED BY <2>2, <2>3, <2>4, <3>1 DEF Privacy!Places
  <2>5. CASE ~ok
    <3>1. perm' = [perm EXCEPT ![c] = TRUE] /\ told' = told
      BY <2>1, <2>5
    <3>2. Privacy!FailedMeansOff'
      BY <2>2, <2>3, <3>1
    <3> QED BY <2>2, <2>3, <3>1, <3>2 DEF Privacy!Places
  <2> QED BY <2>4, <2>5
<1>12. ASSUME NEW c \in Conns, Privacy!Grant(c)
       PROVE  InPlaceInv'
  BY <1>12 DEF Privacy!Grant
<1>13. ASSUME NEW c \in Conns, Privacy!Close(c)
       PROVE  InPlaceInv'
  BY <1>13 DEF Privacy!Close, Privacy!Goto, Privacy!Places
<1>14. ASSUME NEW c \in Conns, Privacy!CloseDone(c)
       PROVE  InPlaceInv'
  <2>1. /\ owner' \in {owner, NoConn} /\ stuck' \in BOOLEAN
        /\ (stuck' => owner' # NoConn) /\ (owner' # NoConn /\ stuck => stuck')
    BY <1>14, TurnOffEffect DEF Privacy!CloseDone
  <2> QED BY <1>14, <2>1 DEF Privacy!CloseDone, Privacy!Goto, Privacy!Places
<1>15. ASSUME Privacy!OffForAll
       PROVE  InPlaceInv'
  <2>1. /\ owner' \in {owner, NoConn} /\ stuck' \in BOOLEAN
        /\ (stuck' => owner' # NoConn) /\ (owner' # NoConn /\ stuck => stuck')
    BY <1>15, TurnOffEffect DEF Privacy!OffForAll
  <2> QED BY <1>15, <2>1 DEF Privacy!OffForAll
<1>16. ASSUME NEW k \in Impls, Privacy!switch(k)
       PROVE  InPlaceInv'
  BY <1>16 DEF Privacy!switch
<1>17. CASE UNCHANGED Privacy!vars
  BY <1>17 DEF Privacy!vars
<1> QED
  BY <1>1, <1>2, <1>3, <1>4, <1>5, <1>6, <1>7, <1>8, <1>9, <1>10, <1>11, <1>12,
     <1>13, <1>14, <1>15, <1>16, <1>17 DEF Privacy!Next, Privacy!ConnStep

\* On a host that turns privacy mode on in place, it is on only for a
\* connection that has the permission: revoking leaves it first, and keeps the
\* permission when leaving fails.
THEOREM PermissionKept == ASSUME Privacy!PrivacyAssumption, ~Amyuni PROVE Privacy!Spec
     => []Privacy!PermKept
<1>1. InPlaceInv /\ [Privacy!Next]_Privacy!vars => InPlaceInv'
  BY InPlaceStep
<1>2. InPlaceInv => Privacy!PermKept
  BY DEF InPlaceInv
<1> QED BY <1>1, <1>2, InPlaceInit, PTL DEF Privacy!Spec

\* ... and a connection whose last request failed does not own it, unless turning
\* off has failed.
THEOREM FailureIsOff == ASSUME Privacy!PrivacyAssumption, ~Amyuni PROVE Privacy!Spec
     => []Privacy!FailedMeansOff
<1>1. InPlaceInv /\ [Privacy!Next]_Privacy!vars => InPlaceInv'
  BY InPlaceStep
<1>2. InPlaceInv => Privacy!FailedMeansOff
  BY DEF InPlaceInv
<1> QED BY <1>1, <1>2, InPlaceInit, PTL DEF Privacy!Spec

\* Privacy mode is not left on for a connection that is closed, unless turning off
\* for that connection has failed.
THEOREM OwnerLives ==
    ASSUME Privacy!PrivacyAssumption, ~Amyuni
    PROVE  Privacy!Spec => []Privacy!OwnerAlive
<1> DEFINE Inv == InPlaceInv /\ Privacy!OwnerAlive
<1>1. Privacy!Init => Inv
  BY InPlaceInit DEF Privacy!Init, Privacy!OwnerAlive
<1>2. Inv /\ [Privacy!Next]_Privacy!vars => Inv'
  <2> SUFFICES ASSUME Inv, [Privacy!Next]_Privacy!vars PROVE Privacy!OwnerAlive'
    BY InPlaceStep
  <2> USE DEF Privacy!PrivacyAssumption, InPlaceInv, Typed, NoThreads
  <2>1. ASSUME NEW c \in Conns, NEW k \in Impls, Privacy!TurnOnInPlace(c, k)
        PROVE  Privacy!OwnerAlive'
    <3>1. PICK ok \in {"ok", "no", "err"} : Privacy!turn_on_privacy_sync(c, k, ok)
         /\ Privacy!Goto(c, ok)
      BY <2>1 DEF Privacy!TurnOnInPlace
    <3>2. owner' \in {owner, c, NoConn} /\ (owner \in Conns \ {c} => stuck' = stuck)
      BY <3>1, TurnOnEffect
    <3> QED BY <3>1, <3>2 DEF Privacy!OwnerAlive, Privacy!Goto, Privacy!Places
  <2>2. ASSUME NEW c \in Conns, NEW k \in Impls, NEW w \in Privacy!Which,
               Privacy!TurnOnAsync(c, k) \/ Privacy!ThreadLocks(c, w)
                    \/ Privacy!ThreadDone(c, w) \/ Privacy!Timeout(c)
        PROVE  FALSE
    BY <2>2 DEF Privacy!TurnOnAsync, Privacy!ThreadLocks, Privacy!ThreadDone, Privacy!Timeout,
       Privacy!is_async_privacy_mode, Privacy!Free
  <2>3. ASSUME NEW c \in Conns,
               Privacy!AnswerOk(c) \/ Privacy!UndoAfterError(c) \/ Privacy!TurnOff(c)
                    \/ Privacy!RevokeDone(c)
        PROVE  Privacy!OwnerAlive'
    <3>1. owner' \in {owner, NoConn} /\ (owner' # NoConn /\ stuck => stuck')
      BY <2>3, TurnOffEffect DEF Privacy!AnswerOk, Privacy!UndoAfterError, Privacy!TurnOff,
         Privacy!RevokeDone
    <3>2. pc' \in {pc, [pc EXCEPT ![c] = "idle"]}
      BY <2>3 DEF Privacy!AnswerOk, Privacy!UndoAfterError, Privacy!TurnOff, Privacy!RevokeDone,
         Privacy!Goto
    <3> QED BY <3>1, <3>2 DEF Privacy!OwnerAlive, Privacy!Places
  <2>4. ASSUME NEW c \in Conns, Privacy!AnswerNo(c) \/ Privacy!LookAfterError(c)
       \/ Privacy!Revoke(c) \/ Privacy!Grant(c)
        PROVE  Privacy!OwnerAlive'
    BY <2>4 DEF Privacy!AnswerNo, Privacy!LookAfterError, Privacy!Revoke, Privacy!Grant,
       Privacy!Goto, Privacy!OwnerAlive, Privacy!Places
  <2>5. ASSUME NEW c \in Conns, Privacy!Close(c)
        PROVE  Privacy!OwnerAlive'
    BY <2>5 DEF Privacy!Close, Privacy!Goto, Privacy!OwnerAlive, Privacy!Places
  <2>6. ASSUME NEW c \in Conns, Privacy!CloseDone(c)
        PROVE  Privacy!OwnerAlive'
    <3>1. /\ owner' \in {owner, NoConn}
          /\ owner' # NoConn /\ (stuck \/ owner' = c) => stuck'
      BY <2>6, TurnOffEffect DEF Privacy!CloseDone
    <3>2. pc' = [pc EXCEPT ![c] = "closed"]
      BY <2>6 DEF Privacy!CloseDone, Privacy!Goto
    <3> QED BY <3>1, <3>2 DEF Privacy!OwnerAlive, Privacy!Places
  <2>7. CASE Privacy!OffForAll
    <3>1. owner' \in {owner, NoConn} /\ (owner' # NoConn /\ stuck => stuck')
      BY <2>7, TurnOffEffect DEF Privacy!OffForAll
    <3> QED BY <2>7, <3>1 DEF Privacy!OffForAll, Privacy!OwnerAlive
  <2>8. ASSUME NEW k \in Impls, Privacy!switch(k)
        PROVE  Privacy!OwnerAlive'
    BY <2>8 DEF Privacy!switch, Privacy!OwnerAlive
  <2>9. CASE UNCHANGED Privacy!vars
    BY <2>9 DEF Privacy!vars, Privacy!OwnerAlive
  <2>10. ASSUME NEW c \in Conns, Privacy!Timeout(c)
         PROVE  FALSE
    BY <2>10 DEF Privacy!Timeout
  <2> QED
    BY <2>1, <2>2, <2>3, <2>4, <2>5, <2>6, <2>7, <2>8, <2>9, <2>10 DEF Privacy!Next,
       Privacy!ConnStep, Privacy!Which
<1>3. Inv => Privacy!OwnerAlive
  OBVIOUS
<1> QED BY <1>1, <1>2, <1>3, PTL DEF Privacy!Spec

\* The three together, whatever the implementations and whichever turn-off fails:
\* the property the runs check.
THEOREM ProperOwner ==
    ASSUME Privacy!PrivacyAssumption, ~Amyuni
    PROVE  Privacy!Spec => []OwnerProper
<1>1. Privacy!OwnerAlive /\ Privacy!PermKept /\ Privacy!FailedMeansOff => OwnerProper
  BY DEF OwnerProper, Privacy!OwnerProper
<1> QED BY <1>1, PermissionKept, FailureIsOff, OwnerLives, PTL

-----------------------------------------------------------------------------
(* The caches of the cursor service: CursorShapes. *)

\* The tick is about a handle, and the message it is about is of that handle's
\* shape; it is kept unless both caches have just been cleared.
AboutHandle ==
    /\ tickPc \in {"capture", "limit", "keep", "file", "send"} => serving \in Handles
    /\ tickPc \in {"limit", "keep", "file", "send"} => msg \in Files!Messages
         /\ msg.s = ShapeOf[serving]
    /\ tickPc \in {"limit", "file", "send"} => msg \in kept
    /\ tickPc = "keep" => kept = {} /\ filed = {}

\* The shape shown is kept also while a capture, which may fail, is under way.
ShownUntilClear ==
    tickPc \in {"idle", "capture", "limit", "snapshot", "swap"} /\ shown # Files!Nothing
         => shown \in kept

\* A step before the place where the ceilings are looked at, and after it,
\* there is room for one more.
Room ==
    /\ IsFiniteSet(filed) /\ IsFiniteSet(kept)
    /\ Cardinality(filed) <= HandlesMax
    /\ tickPc \in {"keep", "file"} => Cardinality(filed) < HandlesMax
    /\ Cardinality(kept) <= ShapesMax
    /\ tickPc # "limit" => Cardinality(kept) < ShapesMax

CursorInv == Files!TypeOK /\ AboutHandle /\ ShownUntilClear /\ Files!FiledIsKept /\ Room

\* FiniteSets comes with the instance once more.
LEMMA FilesNotions ==
  ASSUME NEW S
  PROVE  Files!IsFiniteSet(S) = IsFiniteSet(S) /\ Files!Cardinality(S) = Cardinality(S)
BY DEF Files!IsFiniteSet, IsFiniteSet, Files!Cardinality, Cardinality

LEMMA NothingIsNoMessage == Files!Nothing \notin Files!Messages
BY DEF Files!Nothing, Files!Messages

LEMMA CursorInit == ASSUME Files!CursorAssumption PROVE Files!Init => CursorInv
<1> SUFFICES ASSUME Files!Init PROVE CursorInv
  OBVIOUS
<1>1. Files!TypeOK
  <2>1. built \in 0..MaxBuilt
    BY DEF Files!Init, Files!CursorAssumption
  <2>2. /\ sent \in [Watchers -> SUBSET Looks] /\ shows \in [Watchers -> Looks \cup {Files!Hidden}]
    BY DEF Files!Init
  <2> QED
    BY <2>1, <2>2 DEF Files!Init, Files!TypeOK
<1>2. Room
  BY FS_EmptySet DEF Files!CursorAssumption, Files!Init, Room
<1> QED
  BY <1>1, <1>2 DEF Files!Init, CursorInv, AboutHandle, ShownUntilClear, Files!FiledIsKept

\* What a step keeps that touches none of the caches.
LEMMA CachesStay ==
  ASSUME CursorInv, Files!TypeOK', UNCHANGED <<filed, kept, shown>>, tickPc' # "keep",
       tickPc # "limit", tickPc # "keep",
         tickPc' # "file", tickPc' \in {"capture", "send"} => serving' \in Handles,
         tickPc' = "send" => msg' \in kept /\ msg'.s = ShapeOf[serving'],
         tickPc' # "limit",
         tickPc' \in {"idle", "capture", "snapshot", "swap"} =>
            tickPc \in {"idle", "capture", "snapshot", "swap"}
  PROVE  CursorInv'
<1>1. kept \subseteq Files!Messages
  BY DEF CursorInv, Files!TypeOK
<1>2. AboutHandle'
  BY <1>1 DEF AboutHandle
<1>3. ShownUntilClear'
  BY DEF CursorInv, ShownUntilClear, Files!TypeOK
<1>4. Files!FiledIsKept' /\ Room'
  BY DEF CursorInv, Files!FiledIsKept, Room
<1> QED
  BY <1>2, <1>3, <1>4 DEF CursorInv

LEMMA AroundKeeps ==
  ASSUME Files!CursorAssumption, CursorInv,
         \/ \E h \in Handles \cup {Files!Hidden} : Files!PlatformShows(h)
         \/ \E c \in Watchers : Files!on_subscribe(c) \/ Files!on_unsubscribe(c)
  PROVE  CursorInv'
<1>1. UNCHANGED <<tickPc, msg, serving, hcursor, shown, filed, kept, built, mayReset>>
  BY DEF Files!PlatformShows, Files!on_subscribe, Files!on_unsubscribe, Files!state
<1>2. Files!TypeOK'
  BY DEF CursorInv, Files!TypeOK, Files!PlatformShows, Files!on_subscribe, Files!on_unsubscribe,
     Files!state, Files!service
<1> QED
  BY <1>1, <1>2 DEF CursorInv, AboutHandle, ShownUntilClear, Files!FiledIsKept, Room

LEMMA ResetKeeps == ASSUME Files!CursorAssumption, CursorInv, Files!Reset PROVE CursorInv'
<1>1. Files!TypeOK'
  BY DEF CursorInv, Files!TypeOK, Files!Reset, Files!service
<1>2. tickPc' = "idle" /\ filed' = {} /\ kept' = {} /\ shown' = Files!Nothing
  BY DEF Files!Reset
<1>3. Room'
  BY <1>2, FS_EmptySet DEF Room, Files!CursorAssumption
<1> QED
  BY <1>1, <1>2, <1>3 DEF CursorInv, AboutHandle, ShownUntilClear, Files!FiledIsKept

LEMMA TickKeeps == ASSUME Files!CursorAssumption, CursorInv, Files!Tick PROVE CursorInv'
<1>1. /\ UNCHANGED <<platform, hcursor, shown, filed, kept, built, subs, newSubs, sent, shows>>
      /\ tickPc = "idle" /\ serving' = platform /\ mayReset' = TRUE
  BY DEF Files!Tick, Files!state, Files!service
<1>2. platform \in Handles \cup {Files!Hidden} /\ filed \subseteq Handles \X Files!Messages
  BY DEF CursorInv, Files!TypeOK
<1>3. \/ msg' = msg /\ tickPc' = "snapshot"
      \/ msg' = msg /\ tickPc' = "capture" /\ platform # Files!Hidden
      \/ \E f \in filed : f[1] = platform /\ msg' = f[2] /\ tickPc' = "send"
           /\ platform # Files!Hidden
  BY DEF Files!Tick
<1>4. CASE tickPc' \in {"snapshot", "capture"}
  <2>1. msg' = msg
    BY <1>3, <1>4
  <2>2. Files!TypeOK'
    BY <1>1, <1>4, <2>1 DEF CursorInv, Files!TypeOK
  <2> QED
    BY <1>1, <1>2, <1>3, <1>4, <2>2, CachesStay
<1>5. CASE tickPc' = "send"
  <2>1. PICK f \in filed : f[1] = platform /\ msg' = f[2] /\ platform # Files!Hidden
    BY <1>3, <1>5
  <2>2. f[2] \in Files!Messages /\ f[2] \in kept /\ f[2].s = ShapeOf[platform]
    BY <1>1, <1>2, <2>1 DEF CursorInv, Files!FiledIsKept
  <2>3. Files!TypeOK'
    BY <1>1, <1>5, <2>1, <2>2 DEF CursorInv, Files!TypeOK
  <2> QED
    BY <1>1, <1>2, <1>5, <2>1, <2>2, <2>3, CachesStay
<1> QED
  BY <1>3, <1>4, <1>5

LEMMA CaptureFailsKeeps == ASSUME Files!CursorAssumption, CursorInv, Files!CaptureFails
     PROVE CursorInv'
<1>1. Files!TypeOK'
  BY DEF CursorInv, Files!TypeOK, Files!CaptureFails, Files!state, Files!service
<1> QED
  BY <1>1, CachesStay DEF Files!CaptureFails, Files!state

LEMMA ShapeKeeps == ASSUME Files!CursorAssumption, CursorInv, Files!cursor_shape_message
     PROVE CursorInv'
<1> DEFINE s == ShapeOf[serving]
<1>1. /\ tickPc = "capture" /\ tickPc' = "limit" /\ serving \in Handles /\ s \in Looks
      /\ UNCHANGED <<platform, serving, hcursor, shown, filed, mayReset, subs, newSubs, sent, shows>>
  BY DEF Files!cursor_shape_message, CursorInv, AboutHandle, Files!CursorAssumption, Files!state,
     Files!service
<1>2. Files!TypeOK /\ Cardinality(kept) < ShapesMax /\ IsFiniteSet(kept)
     /\ Cardinality(kept) \in Nat
  BY <1>1, FS_CardinalityType DEF CursorInv, Room
<1>3. CASE Files!cursor_data_message(s) # {}
  <2>1. msg' \in kept /\ msg'.s = s /\ kept' = kept /\ built' = built
    BY <1>3 DEF Files!cursor_shape_message, Files!cursor_data_message
  <2>2. Files!TypeOK'
    BY <1>1, <1>2, <2>1 DEF Files!TypeOK
  <2>3. msg' \in Files!Messages
    BY <1>2, <2>1 DEF Files!TypeOK
  <2> HIDE DEF s
  <2> QED
    BY <1>1, <1>2, <2>1, <2>2, <2>3
    DEF CursorInv, AboutHandle, ShownUntilClear, Files!FiledIsKept, Room, s, Files!CursorAssumption
<1>4. CASE Files!cursor_data_message(s) = {}
  <2> DEFINE m == [s |-> s, n |-> built + 1]
  <2>1. msg' = m /\ kept' = kept \cup {m} /\ built' = built + 1 /\ built < MaxBuilt
    BY <1>4 DEF Files!cursor_shape_message
  <2>2. built + 1 \in 1..MaxBuilt /\ m \in Files!Messages /\ m.s = s
    BY <1>1, <1>2, <2>1 DEF Files!TypeOK, Files!Messages, Files!CursorAssumption
  <2>3. Files!TypeOK'
    BY <1>1, <1>2, <2>1, <2>2 DEF Files!TypeOK
  <2>4. \A n \in kept : n.s # s
    BY <1>4 DEF Files!cursor_data_message
  <2> HIDE DEF s, m
  <2>5. IsFiniteSet(kept') /\ Cardinality(kept') <= ShapesMax
    <3>1. IsFiniteSet(kept \cup {m}) /\ Cardinality(kept \cup {m}) <= Cardinality(kept) + 1
      BY <1>2, FS_AddElement
    <3>2. Cardinality(kept \cup {m}) \in Nat
      BY <3>1, FS_CardinalityType
    <3> QED
      BY <1>2, <2>1, <3>1, <3>2 DEF Files!CursorAssumption
  <2>6. Files!FiledIsKept'
    BY <1>1, <2>1, <2>2, <2>4 DEF CursorInv, Files!FiledIsKept
  <2>7. AboutHandle'
    BY <1>1, <2>1, <2>2 DEF AboutHandle, s
  <2>8. ShownUntilClear' /\ Room'
    BY <1>1, <2>1, <2>5 DEF CursorInv, ShownUntilClear, Room
  <2> QED
    BY <2>3, <2>6, <2>7, <2>8 DEF CursorInv
<1> QED
  BY <1>3, <1>4

LEMMA LimitKeeps == ASSUME Files!CursorAssumption, CursorInv, Files!limit_cursor_handles
     PROVE CursorInv'
<1>1. /\ tickPc = "limit" /\ serving \in Handles /\ msg \in Files!Messages
           /\ msg.s = ShapeOf[serving]
      /\ msg \in kept
      /\ UNCHANGED <<platform, msg, serving, hcursor, shown, built, mayReset, subs, newSubs, sent, shows>>
  BY DEF Files!limit_cursor_handles, CursorInv, AboutHandle, Files!service
<1>2. /\ Cardinality(filed) \in Nat /\ Cardinality(kept) \in Nat
      /\ HandlesMax \in Nat \ {0} /\ ShapesMax \in Nat \ {0, 1}
  BY FS_CardinalityType DEF CursorInv, Room, Files!CursorAssumption
<1>3. CASE tickPc' = "keep"
  <2>1. filed' = {} /\ kept' = {}
    BY <1>3 DEF Files!limit_cursor_handles
  <2>2. Files!TypeOK'
    BY <1>1, <1>3, <2>1 DEF CursorInv, Files!TypeOK
  <2>3. Room'
    BY <1>2, <2>1, FS_EmptySet DEF Room
  <2> QED
    BY <1>1, <1>3, <2>1, <2>2, <2>3 DEF CursorInv, AboutHandle, ShownUntilClear, Files!FiledIsKept
<1>4. CASE tickPc' = "file"
  <2>1. /\ filed' = filed /\ kept' = kept
        /\ Cardinality(filed) < HandlesMax /\ Cardinality(kept) < ShapesMax
    BY <1>2, <1>4, FilesNotions DEF Files!limit_cursor_handles
  <2>2. Files!TypeOK'
    BY <1>1, <1>4, <2>1 DEF CursorInv, Files!TypeOK
  <2> QED
    BY <1>1, <1>4, <2>1, <2>2 DEF CursorInv, AboutHandle, ShownUntilClear, Files!FiledIsKept, Room
<1> QED
  BY <1>3, <1>4 DEF Files!limit_cursor_handles

LEMMA RekeepKeeps == ASSUME Files!CursorAssumption, CursorInv, Files!shared_cursor_shape
     PROVE CursorInv'
<1>1. /\ kept' = {msg} /\ filed' = {} /\ tickPc' = "file" /\ filed = {}
      /\ serving \in Handles /\ msg \in Files!Messages /\ msg.s = ShapeOf[serving]
      /\ UNCHANGED <<platform, msg, serving, hcursor, shown, built, mayReset, subs, newSubs, sent, shows>>
  BY DEF Files!shared_cursor_shape, CursorInv, AboutHandle, Files!service, Files!state
<1>2. Files!TypeOK'
  BY <1>1 DEF CursorInv, Files!TypeOK
<1>3. Room'
  <2>1. IsFiniteSet({msg}) /\ Cardinality({msg}) = 1
    BY FS_Singleton
  <2>2. IsFiniteSet(filed') /\ Cardinality(filed') = 0
    BY <1>1, FS_EmptySet
  <2>3. HandlesMax \in Nat \ {0} /\ ShapesMax \in Nat \ {0, 1}
    BY DEF Files!CursorAssumption
  <2>4. IsFiniteSet(kept') /\ Cardinality(kept') = 1
    BY <1>1, <2>1
  <2> QED
    BY <2>2, <2>3, <2>4 DEF Room
<1> QED
  BY <1>1, <1>2, <1>3 DEF CursorInv, AboutHandle, ShownUntilClear, Files!FiledIsKept

LEMMA FileKeeps == ASSUME Files!CursorAssumption, CursorInv, Files!FileHandle PROVE CursorInv'
<1> DEFINE f == <<serving, msg>>
<1>1. /\ tickPc = "file" /\ tickPc' = "send" /\ filed' \in {filed, filed \cup {f}}
      /\ serving \in Handles /\ msg \in Files!Messages /\ msg.s = ShapeOf[serving] /\ msg \in kept
      /\ UNCHANGED <<platform, msg, serving, hcursor, shown, kept, built, mayReset, subs, newSubs, sent, shows>>
  BY DEF Files!FileHandle, CursorInv, AboutHandle, Files!service
<1>2. Files!TypeOK'
  BY <1>1 DEF CursorInv, Files!TypeOK
<1>3. f[1] = serving /\ f[2] = msg
  OBVIOUS
<1> HIDE DEF f
<1>4. IsFiniteSet(filed') /\ Cardinality(filed') <= HandlesMax
  <2>1. IsFiniteSet(filed) /\ Cardinality(filed) < HandlesMax /\ Cardinality(filed) \in Nat
    BY <1>1, FS_CardinalityType DEF CursorInv, Room
  <2>2. /\ IsFiniteSet(filed \cup {f})
        /\ Cardinality(filed \cup {f}) \in {Cardinality(filed), Cardinality(filed) + 1}
    BY <2>1, FS_AddElement
  <2>3. HandlesMax \in Nat
    BY DEF Files!CursorAssumption
  <2>4. CASE filed' = filed
    BY <2>1, <2>3, <2>4
  <2>5. CASE filed' = filed \cup {f}
    BY <2>1, <2>2, <2>3, <2>5
  <2> QED
    BY <1>1, <2>4, <2>5
<1>5. Files!FiledIsKept'
  BY <1>1, <1>3 DEF CursorInv, Files!FiledIsKept
<1>6. AboutHandle' /\ ShownUntilClear' /\ Room'
  BY <1>1, <1>4 DEF CursorInv, AboutHandle, ShownUntilClear, Room
<1> QED
  BY <1>2, <1>5, <1>6 DEF CursorInv

LEMMA SendTypes ==
  ASSUME Files!TypeOK, NEW m \in Files!Messages \cup {Files!Nothing}, NEW to, Files!Send(m, to)
  PROVE  sent' \in [Watchers -> SUBSET Looks] /\ shows' \in [Watchers -> Looks \cup {Files!Hidden}]
<1>1. m.s \in Looks \cup {Files!Hidden} /\ (m # Files!Nothing => m.s \in Looks)
  BY DEF Files!Messages, Files!Nothing
<1> QED
  BY <1>1 DEF Files!Send, Files!TypeOK

LEMMA SendKeeps == ASSUME Files!CursorAssumption, CursorInv, Files!SendShape PROVE CursorInv'
<1>1. /\ tickPc = "send" /\ tickPc' = "snapshot" /\ hcursor' = serving /\ shown' = msg
           /\ msg \in kept
      /\ UNCHANGED <<platform, msg, serving, filed, kept, built, mayReset, subs, newSubs>>
  BY DEF Files!SendShape, CursorInv, AboutHandle
<1>2. Files!TypeOK /\ msg \in Files!Messages \cup {Files!Nothing}
  BY DEF CursorInv, Files!TypeOK
<1>3. sent' \in [Watchers -> SUBSET Looks] /\ shows' \in [Watchers -> Looks \cup {Files!Hidden}]
  <2>1. CASE Files!Send(msg, subs)
    BY <1>2, <2>1, SendTypes
  <2>2. CASE UNCHANGED <<sent, shows>>
    BY <1>2, <2>2 DEF Files!TypeOK
  <2> QED
    BY <2>1, <2>2 DEF Files!SendShape
<1>4. Files!TypeOK'
  BY <1>1, <1>2, <1>3 DEF Files!TypeOK
<1> QED
  BY <1>1, <1>4 DEF CursorInv, AboutHandle, ShownUntilClear, Files!FiledIsKept, Room

LEMMA SnapshotKeeps == ASSUME Files!CursorAssumption, CursorInv, Files!Snapshot
     \/ Files!swap_new_subscribes PROVE CursorInv'
<1>1. /\ tickPc \in {"snapshot", "swap"} /\ tickPc' \in {"idle", "swap"}
      /\ UNCHANGED <<platform, msg, serving, hcursor, shown, filed, kept, built, mayReset>>
  BY DEF Files!Snapshot, Files!swap_new_subscribes, Files!state
<1>2. Files!TypeOK /\ shown \in Files!Messages \cup {Files!Nothing}
  BY DEF CursorInv, Files!TypeOK
<1>3. sent' \in [Watchers -> SUBSET Looks] /\ shows' \in [Watchers -> Looks \cup {Files!Hidden}]
  <2>1. CASE Files!Send(shown, newSubs)
    BY <1>2, <2>1, SendTypes
  <2>2. CASE UNCHANGED <<sent, shows>>
    BY <1>2, <2>2 DEF Files!TypeOK
  <2> QED
    BY <2>1, <2>2 DEF Files!Snapshot, Files!swap_new_subscribes
<1>4. subs' \subseteq Watchers /\ newSubs' \subseteq Watchers
  BY <1>2 DEF Files!TypeOK, Files!Snapshot, Files!swap_new_subscribes
<1>5. Files!TypeOK'
  BY <1>1, <1>2, <1>3, <1>4 DEF Files!TypeOK
<1> QED
  BY <1>1, <1>5, CachesStay

\* For any handles, shapes and ceilings (the shapes' at least two): the shape
\* shown can be asked for between ticks, a handle filed brings a message that
\* is kept, a shape is one message, and neither cache outgrows its ceiling.
THEOREM CursorKeptTheorem == ASSUME Files!CursorAssumption PROVE Files!Spec => []CursorKept
<1>1. Files!Init => CursorInv
  BY CursorInit
<1>2. CursorInv /\ [Files!Next]_Files!vars => CursorInv'
  <2> SUFFICES ASSUME CursorInv, [Files!Next]_Files!vars PROVE CursorInv'
    OBVIOUS
  <2>1. CASE Files!Service
    BY <2>1, ResetKeeps, TickKeeps, CaptureFailsKeeps, ShapeKeeps, LimitKeeps, RekeepKeeps,
       FileKeeps, SendKeeps, SnapshotKeeps DEF Files!Service
  <2>2. CASE UNCHANGED Files!vars
    BY <2>2 DEF Files!vars, CursorInv, Files!TypeOK, AboutHandle, ShownUntilClear,
       Files!FiledIsKept, Room
  <2> QED
    BY <2>1, <2>2, AroundKeeps DEF Files!Next
<1>3. CursorInv => CursorKept
  BY FilesNotions DEF CursorInv, CursorKept, Files!CursorKept, ShownUntilClear, Files!ShownIsKept,
     Files!Settled, Room, Files!CachesBounded
<1> QED
  BY <1>1, <1>2, <1>3, PTL DEF Files!Spec
=============================================================================
