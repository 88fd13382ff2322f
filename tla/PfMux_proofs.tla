---------------------------- MODULE PfMux_proofs ----------------------------
(***************************************************************************)
(* The port-forward tunnel, proved for all parameters: whatever the two    *)
(* loops, the channels' tasks and their sockets do, in whatever order, no  *)
(* data frame of a live channel is lost, duplicated or reordered, `close`  *)
(* comes after the last of them, and no window is overrun.                 *)
(*                                                                         *)
(* The inductive invariant MuxInv says of each channel, in each direction: *)
(*   - what the receiving task holds, what the stream carries and what the *)
(*     sending task is about to send are the frames from the next one to   *)
(*     be written to the last one read, in order (Held, Carried);          *)
(*   - the receiver's window covers all that the sender may still spend:   *)
(*     its credit, what it has taken of it, what is under way, what is     *)
(*     announced to it, and what `opened` will raise it by (Covered);      *)
(*   - who has sent `close` or `refused` sends no more (Finals), and       *)
(*     `open` comes once, before all data (Opening).                       *)
(* A frame is dropped on purpose where nobody waits for it: Carried is     *)
(* kept only while the receiver hears of the channel, and Covered only     *)
(* while frames of it can be admitted.                                     *)
(*                                                                         *)
(* Queues are joined, and frames move from one to the next; so the first   *)
(* part is about what is counted of a queue and where frames stand in it.  *)
(* Each kind of turn of a task (it goes on, puts a frame on the stream,    *)
(* reads one) keeps the invariant of its two directions; the lemmas named  *)
(* after the actions show which kind each action is.                       *)
(***************************************************************************)
EXTENDS PfMux, TLAPS, SequenceTheorems, WellFoundedInduction

(* Sums of sequences.  What holds of every number is proved by taking the
   least of which it does not.                                             *)
LEMMA LeastOf == \A T \in SUBSET Nat : T # {} => \E x \in T : \A y \in T : x <= y
  <1> SUFFICES ASSUME NEW T \in SUBSET Nat, T # {} PROVE \E x \in T : \A y \in T : x <= y
    OBVIOUS
  <1>1. PICK x \in T : \A y \in T : ~(<<y, x>> \in OpToRel(<, Nat))
    BY NatLessThanWellFounded, WFMin, Zenon
  <1>2. \A y \in T : ~(y < x)
    BY <1>1, Zenon DEF OpToRel
  <1> QED BY <1>2

Adds(p, w, n) ==
  p \in [0..n -> Nat] /\ p[0] = 0 /\ \A i \in 1..n : p[i] = p[i - 1] + w[i]

LEMMA AddsUnique ==
  ASSUME NEW w, NEW n \in Nat, NEW m \in Nat, NEW p, NEW q,
         Adds(p, w, n), Adds(q, w, m), m <= n
  PROVE  \A i \in 0..m : p[i] = q[i]
  <1> DEFINE T == {i \in 0..m : p[i] # q[i]}
  <1> SUFFICES ASSUME T # {} PROVE FALSE
    OBVIOUS
  <1>0. T \in SUBSET Nat
    OBVIOUS
  <1>1. PICK x \in T : \A y \in T : x <= y
    BY <1>0, LeastOf, Zenon
  <1>2. x # 0 /\ x \in 0..m
    BY <1>1 DEF Adds
  <1>3. x - 1 \in 0..m /\ x - 1 \notin T
    BY <1>1, <1>2
  <1>4. p[x - 1] = q[x - 1]
    BY <1>3
  <1>5. p[x] = p[x - 1] + w[x] /\ q[x] = q[x - 1] + w[x]
    <2>1. x \in 1..n /\ x \in 1..m
      BY <1>2
    <2> QED BY <2>1 DEF Adds
  <1> QED BY <1>1, <1>4, <1>5

LEMMA AddsExist ==
  ASSUME NEW w \in Seq(Nat), NEW n \in 0..Len(w)
  PROVE  \E p : Adds(p, w, n)
  <1> DEFINE T == {i \in 0..Len(w) : ~\E p : Adds(p, w, i)}
  <1> SUFFICES ASSUME T # {} PROVE FALSE
    OBVIOUS
  <1>0. Len(w) \in Nat /\ T \in SUBSET Nat
    OBVIOUS
  <1>1. PICK x \in T : \A y \in T : x <= y
    BY <1>0, LeastOf, Zenon
  <1>2. Adds([i \in 0..0 |-> 0], w, 0)
    BY DEF Adds
  <1>3. x # 0
    BY <1>1, <1>2, Zenon
  <1>a. x - 1 \in 0..Len(w) /\ x - 1 \notin T
    <2>1. x \in 0..Len(w)
      OBVIOUS
    <2>2. x - 1 \in 0..Len(w) /\ ~(x <= x - 1)
      BY <1>0, <1>3, <2>1
    <2> QED BY <1>1, <2>2, Zenon
  <1>4. PICK p : Adds(p, w, x - 1)
    BY <1>a
  <1> DEFINE q == [i \in 0..x |-> IF i = x THEN p[x - 1] + w[x] ELSE p[i]]
  <1>5. w[x] \in Nat /\ x \in 1..Len(w)
    BY <1>0, <1>1, <1>3
  <1>6. Adds(q, w, x)
    <2>1. q \in [0..x -> Nat]
      BY <1>4, <1>5, <1>0 DEF Adds
    <2>2. q[0] = 0
      BY <1>4, <1>5, <1>0, <1>3 DEF Adds
    <2>3. ASSUME NEW i \in 1..x PROVE q[i] = q[i - 1] + w[i]
      BY <1>4, <1>5, <1>0, SMTT(30) DEF Adds
    <2> QED BY <2>1, <2>2, <2>3 DEF Adds
  <1> QED BY <1>1, <1>6

LEMMA SumsAdd == ASSUME NEW w \in Seq(Nat) PROVE Adds(Sums(w), w, Len(w))
  <1> DEFINE Rec(g) == g = [n \in 0..Len(w) |-> IF n = 0 THEN 0 ELSE g[n - 1] + w[n]]
  <1>0. Len(w) \in Nat /\ \A i \in 1..Len(w) : w[i] \in Nat
    OBVIOUS
  <1>1. PICK p : Adds(p, w, Len(w))
    BY <1>0, AddsExist
  <1>2. Rec(p)
    <2>1. p \in [0..Len(w) -> Nat]
      BY <1>1 DEF Adds
    <2>2. \A n \in 0..Len(w) : p[n] = IF n = 0 THEN 0 ELSE p[n - 1] + w[n]
      BY <1>0, <1>1 DEF Adds
    <2> QED BY <2>1, <2>2
  <1>3. Sums(w) = CHOOSE g : Rec(g)
    BY Zenon DEF Sums
  <1>4. Rec(Sums(w))
    <2> HIDE DEF Rec
    <2> QED BY <1>2, <1>3, Zenon
  <1> DEFINE g == Sums(w)
  <1>5. g = [n \in 0..Len(w) |-> IF n = 0 THEN 0 ELSE g[n - 1] + w[n]]
    BY <1>4
  <1> HIDE DEF g
  <1>6. \A n \in 0..Len(w) : g[n] = IF n = 0 THEN 0 ELSE g[n - 1] + w[n]
    BY <1>5
  <1>7. g[0] = 0 /\ \A i \in 1..Len(w) : g[i] = g[i - 1] + w[i]
    BY <1>0, <1>6
  <1>8. \A i \in 0..Len(w) : g[i] = p[i]
    <2> DEFINE T == {i \in 0..Len(w) : g[i] # p[i]}
    <2> SUFFICES ASSUME T # {} PROVE FALSE
      OBVIOUS
    <2>0. T \in SUBSET Nat
      BY <1>0
    <2>1. PICK x \in T : \A y \in T : x <= y
      BY <2>0, LeastOf, Zenon
    <2>2. x # 0
      BY <2>1, <1>1, <1>7 DEF Adds
    <2>3. x \in 1..Len(w) /\ x - 1 \in 0..Len(w) /\ x - 1 \notin T
      BY <1>0, <2>1, <2>2
    <2>4. g[x - 1] = p[x - 1] /\ g[x] = g[x - 1] + w[x] /\ p[x] = p[x - 1] + w[x]
      BY <1>1, <1>7, <2>3 DEF Adds
    <2> QED BY <2>1, <2>4
  <1>9. g \in [0..Len(w) -> Nat]
    BY <1>1, <1>5, <1>8 DEF Adds
  <1> QED BY <1>7, <1>9 DEF Adds, g

LEMMA TotalNat == ASSUME NEW w \in Seq(Nat) PROVE Total(w) \in Nat
  <1>1. Len(w) \in 0..Len(w)
    OBVIOUS
  <1> QED BY <1>1, SumsAdd DEF Adds, Total

LEMMA TotalEmpty == Total(<<>>) = 0
  <1>1. <<>> \in Seq(Nat) /\ Len(<<>>) = 0
    OBVIOUS
  <1> QED BY <1>1, SumsAdd DEF Adds, Total

LEMMA TotalOne == ASSUME NEW x \in Nat PROVE Total(<<x>>) = x
  <1>1. <<x>> \in Seq(Nat) /\ Len(<<x>>) = 1 /\ <<x>>[1] = x
    OBVIOUS
  <1> DEFINE w == <<x>>
             p == Sums(w)
  <1>2. Adds(p, w, 1)
    BY <1>1, SumsAdd
  <1> HIDE DEF w, p
  <1>3. p[0] = 0 /\ p[1] = p[1 - 1] + w[1]
    BY <1>2 DEF Adds
  <1>4. p[1] = x
    BY <1>1, <1>3 DEF w
  <1> QED BY <1>1, <1>4 DEF Total, p, w

(* The sum of two sequences in a row. *)
LEMMA TotalConcat ==
  ASSUME NEW v \in Seq(Nat), NEW w \in Seq(Nat)
  PROVE  Total(v \o w) = Total(v) + Total(w)
  <1> DEFINE all == v \o w
             p == Sums(v)
             q == Sums(w)
             g == Sums(all)
             h == [i \in 0..Len(all) |-> IF i <= Len(v) THEN p[i] ELSE p[Len(v)] + q[i - Len(v)]]
  <1>1. /\ all \in Seq(Nat) /\ Len(all) = Len(v) + Len(w) /\ Len(v) \in Nat /\ Len(w) \in Nat
        /\ \A i \in 1..Len(v) : all[i] = v[i]
        /\ \A i \in 1..Len(w) : all[Len(v) + i] = w[i]
    OBVIOUS
  <1>2. Adds(p, v, Len(v)) /\ Adds(q, w, Len(w)) /\ Adds(g, all, Len(all))
    BY <1>1, SumsAdd
  <1> HIDE DEF all, p, q, g
  <1>3. Adds(h, all, Len(all))
    <2>a. \A i \in 0..Len(v) : p[i] \in Nat
      BY <1>2 DEF Adds
    <2>b. \A i \in 0..Len(w) : q[i] \in Nat
      BY <1>2 DEF Adds
    <2>c. p[0] = 0 /\ q[0] = 0
      BY <1>2 DEF Adds
    <2>0. ASSUME NEW i \in 0..Len(all)
          PROVE  (IF i <= Len(v) THEN p[i] ELSE p[Len(v)] + q[i - Len(v)]) \in Nat
      <3>1. p[Len(v)] \in Nat
        BY <1>1, <2>a
      <3>2. CASE i <= Len(v)
        BY <1>1, <2>a, <3>2
      <3>3. CASE ~(i <= Len(v))
        <4>1. i - Len(v) \in 0..Len(w)
          BY <1>1, <3>3
        <4>2. q[i - Len(v)] \in Nat
          BY <2>b, <4>1
        <4>3. p[Len(v)] + q[i - Len(v)] \in Nat
          BY <3>1, <4>2
        <4> QED BY <3>3, <4>3
      <3> QED BY <3>2, <3>3
    <2>1. h \in [0..Len(all) -> Nat] /\ h[0] = 0
      BY <1>1, <2>0, <2>c
    <2>2. ASSUME NEW i \in 1..Len(all) PROVE h[i] = h[i - 1] + all[i]
      <3>1. CASE i <= Len(v)
        BY <1>1, <1>2, <3>1 DEF Adds
      <3>2. CASE i > Len(v)
        <4> DEFINE k == i - Len(v)
        <4>1. k \in 1..Len(w) /\ Len(v) + k = i /\ k - 1 \in 0..Len(w) /\ k \in 0..Len(w)
          BY <1>1, <3>2
        <4>2. i - 1 \in 0..Len(all) /\ i \in 0..Len(all)
          BY <1>1, <3>2
        <4>3. h[i] = p[Len(v)] + q[k]
          BY <3>2, <4>2
        <4>4. h[i - 1] = p[Len(v)] + q[k - 1]
          <5>1. CASE k = 1
            <6>1. i - 1 = Len(v) /\ k - 1 = 0
              BY <1>1, <4>1, <5>1
            <6>2. h[i - 1] = p[Len(v)] /\ q[k - 1] = 0 /\ p[Len(v)] \in Nat
              BY <1>1, <2>a, <2>c, <4>2, <6>1
            <6> QED BY <6>2
          <5>2. CASE k # 1
            <6>1. ~(i - 1 <= Len(v)) /\ i - 1 - Len(v) = k - 1
              BY <1>1, <3>2, <5>2
            <6>2. h[i - 1] = p[Len(v)] + q[i - 1 - Len(v)]
              BY <4>2, <6>1
            <6> QED BY <6>1, <6>2
          <5> QED BY <5>1, <5>2
        <4> HIDE DEF k
        <4>5. all[i] = w[k] /\ q[k] = q[k - 1] + w[k] /\ w[k] \in Nat
          <5>1. all[i] = w[k] /\ w[k] \in Nat
            BY <1>1, <4>1
          <5>2. q[k] = q[k - 1] + w[k]
            BY <1>2, <4>1 DEF Adds
          <5> QED BY <5>1, <5>2
        <4>6. p[Len(v)] \in Nat /\ q[k - 1] \in Nat /\ q[k] \in Nat
          BY <1>1, <2>a, <2>b, <4>1
        <4> QED BY <4>3, <4>4, <4>5, <4>6
      <3> QED BY <1>1, <3>1, <3>2
    <2> QED BY <2>1, <2>2 DEF Adds
  <1>4. g[Len(all)] = h[Len(all)]
    BY <1>1, <1>2, <1>3, AddsUnique, SMTT(30)
  <1>5. h[Len(all)] = p[Len(v)] + q[Len(w)]
    <2>1. p[Len(v)] \in Nat
      <3>1. Len(v) \in 0..Len(v) /\ p \in [0..Len(v) -> Nat]
        BY <1>1, <1>2 DEF Adds
      <3> QED BY <3>1
    <2>4. q[0] = 0
      BY <1>2 DEF Adds
    <2>5. Len(all) \in 0..Len(all)
      BY <1>1
    <2>2. CASE Len(w) = 0
      BY <1>1, <2>1, <2>2, <2>4, <2>5
    <2>3. CASE Len(w) # 0
      BY <1>1, <2>1, <2>3, <2>5
    <2> QED BY <2>2, <2>3
  <1> QED BY <1>4, <1>5 DEF Total, all, p, q, g

-----------------------------------------------------------------------------
(* Frames in queues: what is counted of a queue, and where its frames stand.
   A frame that ends a channel has all of its data before it.              *)
Ends(m, c) == m.kind \in {"close", "refused"} /\ m.c = c

IsOpen(m, c) == m.kind = "open" /\ m.c = c

Opens(c, frames) ==
  Total([i \in DOMAIN frames |-> IF IsOpen(frames[i], c) THEN 1 ELSE 0])

EndsLast(c, frames, from, sent) ==
  \A i \in DOMAIN frames :
    Ends(frames[i], c) => from + DataFrames(c, SubSeq(frames, 1, i)) = sent

OpenFirst(c, frames, before) ==
  \A i \in DOMAIN frames :
    IsData(frames[i], c) => before + Opens(c, SubSeq(frames, 1, i)) >= 1

LEMMA FunctionIsSeq ==
  ASSUME NEW n \in Nat, NEW f \in [1..n -> Nat]
  PROVE  f \in Seq(Nat) /\ Len(f) = n /\ DOMAIN f = 1..n
  OBVIOUS

LEMMA TotalInTwo ==
  ASSUME NEW v \in Seq(Nat), NEW w \in Seq(Nat), NEW all \in Seq(Nat),
         Len(all) = Len(v) + Len(w),
         \A i \in 1..Len(v) : all[i] = v[i],
         \A i \in 1..Len(w) : all[Len(v) + i] = w[i]
  PROVE  Total(all) = Total(v) + Total(w)
  <1>1. v \o w \in Seq(Nat) /\ Len(v \o w) = Len(v) + Len(w)
    OBVIOUS
  <1>2. /\ \A i \in 1..Len(v) : (v \o w)[i] = v[i]
        /\ \A i \in 1..Len(w) : (v \o w)[Len(v) + i] = w[i]
    BY ConcatProperties
  <1>3. ASSUME NEW i \in 1..Len(all) PROVE all[i] = (v \o w)[i]
    <2>1. CASE i <= Len(v)
      BY <1>2, <2>1
    <2>2. CASE i > Len(v)
      <3> DEFINE k == i - Len(v)
      <3>1. k \in 1..Len(w) /\ Len(v) + k = i
        BY <2>2
      <3> HIDE DEF k
      <3>2. all[Len(v) + k] = w[k] /\ (v \o w)[Len(v) + k] = w[k]
        BY <1>2, <3>1
      <3> QED BY <3>1, <3>2
    <2> QED BY <2>1, <2>2
  <1>4. all = v \o w
    BY <1>1, <1>3, SeqEqual
  <1> QED BY <1>4, TotalConcat

(* What is counted of a queue is the sum of its frames' weights. *)
Weigh(f, frames) == Total([i \in DOMAIN frames |-> f[frames[i]]])

DataWeight(c) == [m \in Frames |-> IF IsData(m, c) THEN 1 ELSE 0]
OpenWeight(c) == [m \in Frames |-> IF IsOpen(m, c) THEN 1 ELSE 0]
ChargeWeight(c) == [m \in Frames |-> IF IsData(m, c) THEN charge(m.len) ELSE 0]
UpdateWeight(c) == [m \in Frames |-> IF m.kind = "update" /\ m.c = c THEN m.len ELSE 0]

LEMMA WeighConcat ==
  ASSUME NEW f \in [Frames -> Nat], NEW p \in Seq(Frames), NEW q \in Seq(Frames)
  PROVE  Weigh(f, p) \in Nat /\ Weigh(f, p \o q) = Weigh(f, p) + Weigh(f, q)
  <1> DEFINE w(r) == [i \in DOMAIN r |-> f[r[i]]]
             wp == w(p)
             wq == w(q)
             all == w(p \o q)
  <1>1. /\ p \o q \in Seq(Frames) /\ Len(p \o q) = Len(p) + Len(q)
        /\ \A i \in 1..Len(p) : i \in DOMAIN (p \o q) /\ (p \o q)[i] = p[i]
        /\ \A i \in 1..Len(q) : Len(p) + i \in DOMAIN (p \o q) /\ (p \o q)[Len(p) + i] = q[i]
    OBVIOUS
  <1>2. \A r \in Seq(Frames) : w(r) \in Seq(Nat) /\ Len(w(r)) = Len(r)
    <2> TAKE r \in Seq(Frames)
    <2>1. w(r) \in [1..Len(r) -> Nat] /\ Len(r) \in Nat
      <3>1. \A i \in 1..Len(r) : r[i] \in Frames
        OBVIOUS
      <3> QED BY <3>1
    <2> HIDE DEF w
    <2> QED BY <2>1, FunctionIsSeq
  <1>3. /\ wp \in Seq(Nat) /\ wq \in Seq(Nat) /\ all \in Seq(Nat)
        /\ Len(wp) = Len(p) /\ Len(wq) = Len(q) /\ Len(all) = Len(wp) + Len(wq)
    <2> HIDE DEF w
    <2> QED BY <1>1, <1>2
  <1>4. /\ \A i \in 1..Len(p) : all[i] = wp[i]
        /\ \A i \in 1..Len(q) : all[Len(p) + i] = wq[i]
    BY <1>1
  <1> HIDE DEF wp, wq, all
  <1>5. /\ \A i \in 1..Len(wp) : all[i] = wp[i]
        /\ \A i \in 1..Len(wq) : all[Len(wp) + i] = wq[i]
    BY <1>3, <1>4
  <1>6. Total(all) = Total(wp) + Total(wq)
    BY <1>3, <1>5, TotalInTwo
  <1>7. Total(wp) \in Nat
    BY <1>3, TotalNat
  <1> QED BY <1>6, <1>7, Zenon DEF Weigh, wp, wq, all

LEMMA WeighSmall ==
  ASSUME NEW f \in [Frames -> Nat]
  PROVE  Weigh(f, <<>>) = 0 /\ \A m \in Frames : Weigh(f, <<m>>) = f[m]
  <1>1. Weigh(f, <<>>) = 0
    <2>1. [i \in DOMAIN <<>> |-> f[<<>>[i]]] = <<>>
      OBVIOUS
    <2> QED BY <2>1, TotalEmpty, Zenon DEF Weigh
  <1>2. ASSUME NEW m \in Frames PROVE Weigh(f, <<m>>) = f[m]
    <2>1. [i \in DOMAIN <<m>> |-> f[<<m>>[i]]] = <<f[m]>>
      OBVIOUS
    <2> QED BY <2>1, TotalOne, Zenon DEF Weigh
  <1> QED BY <1>1, <1>2

LEMMA CountsWeigh ==
  ASSUME NEW c
  PROVE  /\ DataWeight(c) \in [Frames -> Nat] /\ OpenWeight(c) \in [Frames -> Nat]
         /\ ChargeWeight(c) \in [Frames -> Nat] /\ UpdateWeight(c) \in [Frames -> Nat]
         /\ \A p \in Seq(Frames) :
              /\ DataFrames(c, p) = Weigh(DataWeight(c), p)
              /\ Opens(c, p) = Weigh(OpenWeight(c), p)
              /\ Charges(c, p) = Weigh(ChargeWeight(c), p)
              /\ Updates(c, p) = Weigh(UpdateWeight(c), p)
  <1>1. \A m \in Frames : m.len \in Nat /\ charge(m.len) \in Nat
    BY WindowAssumption DEF Frames, charge, AtLeast
  <1>2. /\ DataWeight(c) \in [Frames -> Nat] /\ OpenWeight(c) \in [Frames -> Nat]
        /\ ChargeWeight(c) \in [Frames -> Nat] /\ UpdateWeight(c) \in [Frames -> Nat]
    BY <1>1 DEF DataWeight, OpenWeight, ChargeWeight, UpdateWeight
  <1>3. ASSUME NEW p \in Seq(Frames)
        PROVE  /\ DataFrames(c, p) = Weigh(DataWeight(c), p)
               /\ Opens(c, p) = Weigh(OpenWeight(c), p)
               /\ Charges(c, p) = Weigh(ChargeWeight(c), p)
               /\ Updates(c, p) = Weigh(UpdateWeight(c), p)
    <2>0. \A i \in DOMAIN p : p[i] \in Frames
      OBVIOUS
    <2>1. [i \in DOMAIN p |-> IF IsData(p[i], c) THEN 1 ELSE 0] = [i \in DOMAIN p |-> DataWeight(c)[p[i]]]
      BY <2>0 DEF DataWeight
    <2>2. [i \in DOMAIN p |-> IF IsOpen(p[i], c) THEN 1 ELSE 0] = [i \in DOMAIN p |-> OpenWeight(c)[p[i]]]
      BY <2>0 DEF OpenWeight
    <2>3. [i \in DOMAIN p |-> IF IsData(p[i], c) THEN charge(p[i].len) ELSE 0]
            = [i \in DOMAIN p |-> ChargeWeight(c)[p[i]]]
      BY <2>0 DEF ChargeWeight
    <2>4. [i \in DOMAIN p |-> IF p[i].kind = "update" /\ p[i].c = c THEN p[i].len ELSE 0]
            = [i \in DOMAIN p |-> UpdateWeight(c)[p[i]]]
      BY <2>0 DEF UpdateWeight
    <2> QED BY <2>1, <2>2, <2>3, <2>4, Zenon DEF Weigh, DataFrames, Opens, Charges, Updates
  <1> QED BY <1>2, <1>3

LEMMA CountsConcat ==
  ASSUME NEW c, NEW p \in Seq(Frames), NEW q \in Seq(Frames)
  PROVE  /\ DataFrames(c, p) \in Nat /\ DataFrames(c, p \o q) = DataFrames(c, p) + DataFrames(c, q)
         /\ Opens(c, p) \in Nat /\ Opens(c, p \o q) = Opens(c, p) + Opens(c, q)
         /\ Charges(c, p) \in Nat /\ Charges(c, p \o q) = Charges(c, p) + Charges(c, q)
         /\ Updates(c, p) \in Nat /\ Updates(c, p \o q) = Updates(c, p) + Updates(c, q)
  <1>1. p \o q \in Seq(Frames)
    OBVIOUS
  <1>2. \A f \in [Frames -> Nat] : Weigh(f, p) \in Nat
       /\ Weigh(f, p \o q) = Weigh(f, p) + Weigh(f, q)
    BY WeighConcat
  <1> QED BY <1>1, <1>2, CountsWeigh, Zenon

LEMMA CountsSmall ==
  ASSUME NEW c
  PROVE  /\ DataFrames(c, <<>>) = 0 /\ Opens(c, <<>>) = 0 /\ Charges(c, <<>>) = 0
              /\ Updates(c, <<>>) = 0
         /\ \A m \in Frames :
              /\ DataFrames(c, <<m>>) = IF IsData(m, c) THEN 1 ELSE 0
              /\ Opens(c, <<m>>) = IF IsOpen(m, c) THEN 1 ELSE 0
              /\ Charges(c, <<m>>) = IF IsData(m, c) THEN charge(m.len) ELSE 0
              /\ Updates(c, <<m>>) = IF m.kind = "update" /\ m.c = c THEN m.len ELSE 0
  <1>1. <<>> \in Seq(Frames) /\ \A m \in Frames : <<m>> \in Seq(Frames)
    OBVIOUS
  <1>2. /\ DataFrames(c, <<>>) = 0 /\ Opens(c, <<>>) = 0 /\ Charges(c, <<>>) = 0
             /\ Updates(c, <<>>) = 0
        /\ \A m \in Frames :
              /\ DataFrames(c, <<m>>) = DataWeight(c)[m]
              /\ Opens(c, <<m>>) = OpenWeight(c)[m]
              /\ Charges(c, <<m>>) = ChargeWeight(c)[m]
              /\ Updates(c, <<m>>) = UpdateWeight(c)[m]
    BY <1>1, CountsWeigh, WeighSmall
  <1> QED BY <1>2 DEF DataWeight, OpenWeight, ChargeWeight, UpdateWeight

LEMMA PrefixConcat ==
  ASSUME NEW p \in Seq(Frames), NEW q \in Seq(Frames)
  PROVE  /\ \A i \in 1..Len(p) : SubSeq(p \o q, 1, i) = SubSeq(p, 1, i) /\ (p \o q)[i] = p[i]
         /\ \A i \in 1..Len(q) : /\ SubSeq(p \o q, 1, Len(p) + i) = p \o SubSeq(q, 1, i)
                                 /\ (p \o q)[Len(p) + i] = q[i]
         /\ \A i \in 1..Len(p) : SubSeq(p, 1, i) \in Seq(Frames)
  <1> DEFINE all == p \o q
  <1>1. /\ all \in Seq(Frames) /\ Len(all) = Len(p) + Len(q)
        /\ \A i \in 1..Len(p) : all[i] = p[i]
        /\ \A i \in 1..Len(q) : all[Len(p) + i] = q[i]
    OBVIOUS
  <1> HIDE DEF all
  <1>2. ASSUME NEW i \in 1..Len(p) PROVE SubSeq(all, 1, i) = SubSeq(p, 1, i)
    <2>1. SubSeq(all, 1, i) \in Seq(Frames) /\ Len(SubSeq(all, 1, i)) = i
      BY <1>1
    <2>2. SubSeq(p, 1, i) \in Seq(Frames) /\ Len(SubSeq(p, 1, i)) = i
      OBVIOUS
    <2>3. \A j \in 1..i : SubSeq(all, 1, i)[j] = SubSeq(p, 1, i)[j]
      BY <1>1
    <2> QED BY <2>1, <2>2, <2>3, SeqEqual
  <1>3. ASSUME NEW i \in 1..Len(q) PROVE SubSeq(all, 1, Len(p) + i) = p \o SubSeq(q, 1, i)
    <2> DEFINE h == SubSeq(q, 1, i)
               n == Len(p) + i
    <2>1. SubSeq(all, 1, n) \in Seq(Frames) /\ Len(SubSeq(all, 1, n)) = n
      BY <1>1
    <2>2. h \in Seq(Frames) /\ Len(h) = i /\ \A j \in 1..i : h[j] = q[j]
      OBVIOUS
    <2> HIDE DEF h
    <2>3. /\ p \o h \in Seq(Frames) /\ Len(p \o h) = n
          /\ \A j \in 1..Len(p) : (p \o h)[j] = p[j]
          /\ \A j \in 1..Len(h) : (p \o h)[Len(p) + j] = h[j]
      BY <2>2
    <2>4. ASSUME NEW j \in 1..n PROVE SubSeq(all, 1, n)[j] = (p \o h)[j]
      <3>0. SubSeq(all, 1, n)[j] = all[j]
        BY <1>1
      <3>1. CASE j <= Len(p)
        BY <1>1, <2>3, <3>0, <3>1
      <3>2. CASE j > Len(p)
        <4> DEFINE k == j - Len(p)
        <4>1. k \in 1..i /\ k \in 1..Len(q) /\ k \in 1..Len(h) /\ Len(p) + k = j
          BY <2>2, <3>2
        <4> HIDE DEF k
        <4>2. all[Len(p) + k] = q[k] /\ (p \o h)[Len(p) + k] = h[k] /\ h[k] = q[k]
          BY <1>1, <2>2, <2>3, <4>1
        <4> QED BY <3>0, <4>1, <4>2
      <3>3. j <= Len(p) \/ j > Len(p)
        <4>1. j \in Int /\ Len(p) \in Int
          OBVIOUS
        <4> QED BY <4>1
      <3> QED BY <3>1, <3>2, <3>3, Zenon
    <2> HIDE DEF n
    <2> QED BY <2>1, <2>3, <2>4, SeqEqual DEF h, n
  <1>4. \A i \in 1..Len(p) : SubSeq(p, 1, i) \in Seq(Frames)
    OBVIOUS
  <1> QED BY <1>1, <1>2, <1>3, <1>4 DEF all


(* Each frame of a queue stands well, by the weight up to it. *)
Stands(f, frames, from, well) ==
  \A i \in DOMAIN frames : <<frames[i], from + Weigh(f, SubSeq(frames, 1, i))>> \in well

LEMMA StandsConcat ==
  ASSUME NEW f \in [Frames -> Nat], NEW p \in Seq(Frames), NEW q \in Seq(Frames),
         NEW a \in Nat, NEW well
  PROVE  Stands(f, p \o q, a, well) <=> Stands(f, p, a, well) /\ Stands(f, q, a + Weigh(f, p), well)
  <1> DEFINE all == p \o q
             Claim(m, n) == <<m, n>> \in well
  <1>0. DOMAIN all = 1..(Len(p) + Len(q)) /\ DOMAIN p = 1..Len(p) /\ DOMAIN q = 1..Len(q)
    OBVIOUS
  <1>1. /\ \A i \in 1..Len(p) : SubSeq(all, 1, i) = SubSeq(p, 1, i) /\ all[i] = p[i]
        /\ \A i \in 1..Len(q) : /\ SubSeq(all, 1, Len(p) + i) = p \o SubSeq(q, 1, i)
                                /\ all[Len(p) + i] = q[i]
    BY PrefixConcat
  <1>2. \A i \in 1..Len(q) : SubSeq(q, 1, i) \in Seq(Frames)
    OBVIOUS
  <1>3. \A i \in 1..Len(q) :
          /\ Weigh(f, p) \in Nat /\ Weigh(f, SubSeq(q, 1, i)) \in Nat
          /\ Weigh(f, p \o SubSeq(q, 1, i)) = Weigh(f, p) + Weigh(f, SubSeq(q, 1, i))
    BY <1>2, WeighConcat
  <1>a. Weigh(f, p) \in Nat
    BY WeighConcat
  <1>4. /\ Stands(f, all, a, well) <=> \A i \in 1..(Len(p) + Len(q))
             : Claim(all[i], a + Weigh(f, SubSeq(all, 1, i)))
        /\ Stands(f, p, a, well) <=> \A i \in 1..Len(p) : Claim(p[i], a + Weigh(f, SubSeq(p, 1, i)))
        /\ Stands(f, q, a + Weigh(f, p), well)
             <=> \A i \in 1..Len(q) : Claim(q[i], a + Weigh(f, p) + Weigh(f, SubSeq(q, 1, i)))
    BY <1>0, Zenon DEF Stands
  <1> HIDE DEF all, Claim
  <1>5. ASSUME Stands(f, all, a, well) PROVE Stands(f, p, a, well)
       /\ Stands(f, q, a + Weigh(f, p), well)
    <2>1. ASSUME NEW i \in 1..Len(p) PROVE Claim(p[i], a + Weigh(f, SubSeq(p, 1, i)))
      <3>1. i \in 1..(Len(p) + Len(q))
        OBVIOUS
      <3> QED BY <1>1, <1>4, <1>5, <3>1
    <2>2. ASSUME NEW i \in 1..Len(q) PROVE Claim(q[i], a + Weigh(f, p) + Weigh(f, SubSeq(q, 1, i)))
      <3>1. Len(p) + i \in 1..(Len(p) + Len(q))
        OBVIOUS
      <3>2. Claim(all[Len(p) + i], a + Weigh(f, SubSeq(all, 1, Len(p) + i)))
        BY <1>4, <1>5, <3>1
      <3>3. a + Weigh(f, SubSeq(all, 1, Len(p) + i)) = a + Weigh(f, p) + Weigh(f, SubSeq(q, 1, i))
        <4>1. Weigh(f, SubSeq(all, 1, Len(p) + i)) = Weigh(f, p) + Weigh(f, SubSeq(q, 1, i))
          BY <1>1, <1>3
        <4>2. Weigh(f, SubSeq(q, 1, i)) \in Nat
          BY <1>3
        <4> QED BY <1>a, <4>1, <4>2
      <3> QED BY <1>1, <3>2, <3>3
    <2> QED BY <1>4, <2>1, <2>2
  <1>6. ASSUME Stands(f, p, a, well), Stands(f, q, a + Weigh(f, p), well)
       PROVE Stands(f, all, a, well)
    <2>1. ASSUME NEW i \in 1..(Len(p) + Len(q)) PROVE Claim(all[i], a + Weigh(f, SubSeq(all, 1, i)))
      <3>1. CASE i <= Len(p)
        <4>1. i \in 1..Len(p)
          BY <3>1
        <4> QED BY <1>1, <1>4, <1>6, <4>1
      <3>2. CASE i > Len(p)
        <4> DEFINE k == i - Len(p)
        <4>1. k \in 1..Len(q) /\ Len(p) + k = i
          BY <3>2
        <4> HIDE DEF k
        <4>2. Claim(q[k], a + Weigh(f, p) + Weigh(f, SubSeq(q, 1, k)))
          BY <1>4, <1>6, <4>1
        <4>3. a + Weigh(f, SubSeq(all, 1, Len(p) + k)) = a + Weigh(f, p) + Weigh(f, SubSeq(q, 1, k))
          <5>1. Weigh(f, SubSeq(all, 1, Len(p) + k)) = Weigh(f, p) + Weigh(f, SubSeq(q, 1, k))
            BY <1>1, <1>3, <4>1
          <5>2. Weigh(f, SubSeq(q, 1, k)) \in Nat
            BY <1>3, <4>1
          <5> QED BY <1>a, <5>1, <5>2
        <4>4. all[Len(p) + k] = q[k]
          BY <1>1, <4>1
        <4>5. Claim(all[Len(p) + k], a + Weigh(f, SubSeq(all, 1, Len(p) + k)))
          BY <4>2, <4>3, <4>4
        <4> QED BY <4>1, <4>5
      <3> QED BY <3>1, <3>2
    <2> QED BY <1>4, <2>1
  <1> QED BY <1>5, <1>6 DEF all

LEMMA StandsSmall ==
  ASSUME NEW f \in [Frames -> Nat], NEW a \in Nat, NEW well
  PROVE  /\ Stands(f, <<>>, a, well)
         /\ \A m \in Frames : Stands(f, <<m>>, a, well) <=> <<m, a + f[m]>> \in well
  <1>1. Stands(f, <<>>, a, well)
    BY DEF Stands
  <1>2. ASSUME NEW m \in Frames PROVE Stands(f, <<m>>, a, well) <=> <<m, a + f[m]>> \in well
    <2>1. DOMAIN <<m>> = {1} /\ <<m>>[1] = m /\ SubSeq(<<m>>, 1, 1) = <<m>>
      <3>1. <<m>> \in Seq({m}) /\ Len(<<m>>) = 1 /\ <<m>>[1] = m /\ DOMAIN <<m>> = {1}
        OBVIOUS
      <3>2. /\ SubSeq(<<m>>, 1, 1) \in Seq({m}) /\ Len(SubSeq(<<m>>, 1, 1)) = 1
            /\ SubSeq(<<m>>, 1, 1)[1] = m
        BY <3>1
      <3>3. SubSeq(<<m>>, 1, 1) = <<m>>
        <4>1. \A i \in 1..1 : SubSeq(<<m>>, 1, 1)[i] = <<m>>[i]
          BY <3>1, <3>2
        <4>2. 1..Len(SubSeq(<<m>>, 1, 1)) = 1..1
          BY <3>2
        <4> QED BY <3>1, <3>2, <4>1, <4>2, SeqEqual
      <3> QED BY <3>1, <3>3
    <2>2. Stands(f, <<m>>, a, well) <=> <<m, a + Weigh(f, <<m>>)>> \in well
      BY <2>1, Zenon DEF Stands
    <2>3. Weigh(f, <<m>>) = f[m]
      BY WeighSmall
    <2> QED BY <2>2, <2>3
  <1> QED BY <1>1, <1>2

(* The three forms of it. *)
InSequence(c) == {x \in Frames \X Nat : IsData(x[1], c) => x[1].seq = x[2]}
AfterData(c, sent) == {x \in Frames \X Nat : Ends(x[1], c) => x[2] = sent}
AfterOpen(c) == {x \in Frames \X Nat : IsData(x[1], c) => x[2] >= 1}

LEMMA RunsStand ==
  ASSUME NEW c, NEW p \in Seq(Frames), NEW a \in Nat
  PROVE  /\ Numbered(c, p, a) <=> Stands(DataWeight(c), p, a, InSequence(c))
         /\ \A n : EndsLast(c, p, a, n) <=> Stands(DataWeight(c), p, a, AfterData(c, n))
         /\ OpenFirst(c, p, a) <=> Stands(OpenWeight(c), p, a, AfterOpen(c))
  <1> DEFINE D(i) == DataFrames(c, SubSeq(p, 1, i))
             O(i) == Opens(c, SubSeq(p, 1, i))
  <1>1. \A i \in DOMAIN p : p[i] \in Frames /\ SubSeq(p, 1, i) \in Seq(Frames)
    OBVIOUS
  <1>2. \A i \in DOMAIN p : /\ D(i) \in Nat /\ D(i) = Weigh(DataWeight(c), SubSeq(p, 1, i))
                            /\ O(i) \in Nat /\ O(i) = Weigh(OpenWeight(c), SubSeq(p, 1, i))
    BY <1>1, CountsWeigh, CountsConcat
  <1>3. \A i \in DOMAIN p : a + D(i) \in Nat /\ a + O(i) \in Nat
    BY <1>2
  <1> HIDE DEF D, O
  <1>4. \A i \in DOMAIN p :
          /\ <<p[i], a + D(i)>> \in InSequence(c) <=> (IsData(p[i], c) => p[i].seq = a + D(i))
          /\ \A n : <<p[i], a + D(i)>> \in AfterData(c, n) <=> (Ends(p[i], c) => a + D(i) = n)
          /\ <<p[i], a + O(i)>> \in AfterOpen(c) <=> (IsData(p[i], c) => a + O(i) >= 1)
    BY <1>1, <1>3 DEF InSequence, AfterData, AfterOpen
  <1>5. /\ Stands(DataWeight(c), p, a, InSequence(c)) <=> \A i \in DOMAIN p
             : <<p[i], a + D(i)>> \in InSequence(c)
        /\ \A n : Stands(DataWeight(c), p, a, AfterData(c, n)) <=> \A i \in DOMAIN p
             : <<p[i], a + D(i)>> \in AfterData(c, n)
        /\ Stands(OpenWeight(c), p, a, AfterOpen(c)) <=> \A i \in DOMAIN p
             : <<p[i], a + O(i)>> \in AfterOpen(c)
    BY <1>2, Zenon DEF Stands
  <1>6. /\ Numbered(c, p, a) <=> \A i \in DOMAIN p : IsData(p[i], c) => p[i].seq = a + D(i)
        /\ \A n : EndsLast(c, p, a, n) <=> \A i \in DOMAIN p : Ends(p[i], c) => a + D(i) = n
        /\ OpenFirst(c, p, a) <=> \A i \in DOMAIN p : IsData(p[i], c) => a + O(i) >= 1
    BY Zenon DEF Numbered, EndsLast, OpenFirst, D, O
  <1> QED BY <1>4, <1>5, <1>6, Zenon

LEMMA RunsConcat ==
  ASSUME NEW c, NEW p \in Seq(Frames), NEW q \in Seq(Frames), NEW a \in Nat
  PROVE  /\ Numbered(c, p \o q, a) <=> Numbered(c, p, a) /\ Numbered(c, q, a + DataFrames(c, p))
         /\ \A n : EndsLast(c, p \o q, a, n)
                     <=> EndsLast(c, p, a, n) /\ EndsLast(c, q, a + DataFrames(c, p), n)
         /\ OpenFirst(c, p \o q, a) <=> OpenFirst(c, p, a) /\ OpenFirst(c, q, a + Opens(c, p))
  <1> DEFINE d == Weigh(DataWeight(c), p)
             o == Weigh(OpenWeight(c), p)
  <1>1. d = DataFrames(c, p) /\ o = Opens(c, p)
    BY CountsWeigh
  <1>2. p \o q \in Seq(Frames) /\ a + d \in Nat /\ a + o \in Nat
    <2>1. DataFrames(c, p) \in Nat /\ Opens(c, p) \in Nat
      BY CountsConcat
    <2>2. p \o q \in Seq(Frames)
      OBVIOUS
    <2> HIDE DEF d, o
    <2> QED BY <1>1, <2>1, <2>2
  <1>3. /\ DataWeight(c) \in [Frames -> Nat] /\ OpenWeight(c) \in [Frames -> Nat]
    BY CountsWeigh
  <1>4. \A well : /\ Stands(DataWeight(c), p \o q, a, well)
                       <=> Stands(DataWeight(c), p, a, well)
                            /\ Stands(DataWeight(c), q, a + d, well)
                  /\ Stands(OpenWeight(c), p \o q, a, well)
                       <=> Stands(OpenWeight(c), p, a, well)
                            /\ Stands(OpenWeight(c), q, a + o, well)
    BY <1>3, StandsConcat
  <1> HIDE DEF d, o
  <1>5. /\ Numbered(c, p \o q, a) <=> Stands(DataWeight(c), p \o q, a, InSequence(c))
        /\ Numbered(c, p, a) <=> Stands(DataWeight(c), p, a, InSequence(c))
        /\ Numbered(c, q, a + d) <=> Stands(DataWeight(c), q, a + d, InSequence(c))
    BY <1>2, RunsStand
  <1>6. /\ \A n : EndsLast(c, p \o q, a, n) <=> Stands(DataWeight(c), p \o q, a, AfterData(c, n))
        /\ \A n : EndsLast(c, p, a, n) <=> Stands(DataWeight(c), p, a, AfterData(c, n))
        /\ \A n : EndsLast(c, q, a + d, n) <=> Stands(DataWeight(c), q, a + d, AfterData(c, n))
    BY <1>2, RunsStand
  <1>7. /\ OpenFirst(c, p \o q, a) <=> Stands(OpenWeight(c), p \o q, a, AfterOpen(c))
        /\ OpenFirst(c, p, a) <=> Stands(OpenWeight(c), p, a, AfterOpen(c))
        /\ OpenFirst(c, q, a + o) <=> Stands(OpenWeight(c), q, a + o, AfterOpen(c))
    BY <1>2, RunsStand
  <1> QED BY <1>1, <1>4, <1>5, <1>6, <1>7, Zenon

LEMMA RunsSmall ==
  ASSUME NEW c, NEW a \in Nat
  PROVE  /\ Numbered(c, <<>>, a) /\ OpenFirst(c, <<>>, a) /\ \A n : EndsLast(c, <<>>, a, n)
         /\ \A m \in Frames :
              /\ Numbered(c, <<m>>, a) <=> (IsData(m, c) => m.seq = a + 1)
              /\ OpenFirst(c, <<m>>, a) <=> (IsData(m, c) => a >= 1)
              /\ \A n : EndsLast(c, <<m>>, a, n) <=> (Ends(m, c) => a = n)
  <1>1. Numbered(c, <<>>, a) /\ OpenFirst(c, <<>>, a) /\ \A n : EndsLast(c, <<>>, a, n)
    BY DEF Numbered, OpenFirst, EndsLast
  <1>2. ASSUME NEW m \in Frames
        PROVE  /\ Numbered(c, <<m>>, a) <=> (IsData(m, c) => m.seq = a + 1)
               /\ OpenFirst(c, <<m>>, a) <=> (IsData(m, c) => a >= 1)
               /\ \A n : EndsLast(c, <<m>>, a, n) <=> (Ends(m, c) => a = n)
    <2>1. <<m>> \in Seq(Frames) /\ DataWeight(c) \in [Frames -> Nat]
         /\ OpenWeight(c) \in [Frames -> Nat]
      BY CountsWeigh
    <2>2. /\ Numbered(c, <<m>>, a) <=> <<m, a + DataWeight(c)[m]>> \in InSequence(c)
          /\ OpenFirst(c, <<m>>, a) <=> <<m, a + OpenWeight(c)[m]>> \in AfterOpen(c)
          /\ \A n : EndsLast(c, <<m>>, a, n) <=> <<m, a + DataWeight(c)[m]>> \in AfterData(c, n)
      BY <2>1, RunsStand, StandsSmall
    <2>3. /\ a + DataWeight(c)[m] \in Nat /\ a + OpenWeight(c)[m] \in Nat
          /\ IsData(m, c) => DataWeight(c)[m] = 1 /\ OpenWeight(c)[m] = 0
          /\ Ends(m, c) => DataWeight(c)[m] = 0
      BY <2>1 DEF DataWeight, OpenWeight, IsData, IsOpen, Ends
    <2> QED BY <2>2, <2>3 DEF InSequence, AfterData, AfterOpen
  <1> QED BY <1>1, <1>2

-----------------------------------------------------------------------------
(* The inductive invariant, of a task by itself, of a direction of a channel
   and of a channel's opening.                                             *)

\* The frames the task has been given and has not written out, oldest first.
Holds(t) == t.chunk \o t.pend \o t.inbound

Final == {"leaving", "done"}

\* A task's own state at each place of its two relays.
Relays(t) ==
  /\ t.phase = "none" => t = NoTask
  /\ t.phase \in {"opening", "connecting", "granted"} => t.up = "idle" /\ t.down = "idle"
  /\ t.phase \in {"closing", "leaving", "done"} => t.up \in {"idle", "ended"}
  /\ IF t.up = "read" THEN MIN_FRAME_CHARGE <= t.allow /\ t.allow <= MAX_SEND_CREDIT
                      ELSE t.allow = 0
  /\ t.downEnd # "none" => t.down = "ended"
  /\ ~t.overran

Payload(m, c) == IsData(m, c) /\ m.len \in 1..MAX_FRAME

Buffers(c, t) ==
  /\ IF t.up = "send" THEN \E m \in Frames : t.frame = <<m>> /\ Payload(m, c) /\ m.seq = t.sent
                      ELSE t.frame = <<>>
  /\ IF t.down = "write" THEN \E m \in Frames : t.chunk = <<m>> /\ Payload(m, c)
                         ELSE t.chunk = <<>>
  /\ \A m \in Range(t.pend) : Payload(m, c)
  /\ \A m \in Range(t.inbound) : Payload(m, c) \/ (m.kind = "close" /\ m.c = c)
  /\ t.down = "ended" => t.pend = <<>> /\ t.inbound = <<>>

\* The window is at most what the side advertises, and `granted` its grant.
Window(s, t) == IF s = "tgt" /\ ~t.granted THEN INITIAL_WINDOW ELSE CHANNEL_WINDOW

Windows(s, c, t) ==
  /\ t.phase # "none" => t.remaining + Charges(c, Holds(t)) + t.drained <= Window(s, t)
  /\ s = "ctl" \/ t.phase \in {"none", "opening", "connecting"} => ~t.granted
  /\ s = "tgt" /\ t.phase \in {"granted", "relay"} => t.granted

Sane(s, c, t) == Relays(t) /\ Buffers(c, t) /\ Windows(s, c, t)

\* Frames come after the channel's begin at their sender, task t.
Begun(t) == t.phase \notin {"none", "opening"}

Named(c, t, q) ==
  \A m \in Range(q) : m.c = c =>
    /\ Begun(t)
    /\ m.kind = "data" => m.len \in 1..MAX_FRAME
    /\ m.kind \in {"open", "opened"} => m.len = CHANNEL_WINDOW
    /\ m.kind = "opened" => t.granted

\* Whoever has ended a channel sends no more of it.
Finals(c, t, r, q) ==
  (\E m \in Range(q) \cup Range(r.inbound) : Ends(m, c)) \/ r.downEnd = "PeerClosed"
    => t.phase \in Final

\* What the receiver r has got is the next that it has to write out,
Held(c, t, r) ==
  /\ r.down # "ended" => /\ Numbered(c, Holds(r), r.written)
                         /\ EndsLast(c, Holds(r), r.written, t.sent)
  /\ r.downEnd = "PeerClosed" => r.written = t.sent

\* and what comes after it is on its way, while the receiver hears of it.
Got(c, r) == r.written + DataFrames(c, Holds(r))

Carried(c, t, r, q, gone) ==
  /\ Numbered(c, q, Got(c, r)) /\ EndsLast(c, q, Got(c, r), t.sent)
  /\ gone \/ Got(c, r) + DataFrames(c, q) + DataFrames(c, t.frame) = t.sent

\* The receiver's window covers all that the sender may still send: its
\* credit, what it holds, what is under way, and what is announced to it.
Lift(s, t, r) ==
  IF s = "ctl" /\ r.granted /\ ~t.opened THEN CHANNEL_WINDOW - INITIAL_WINDOW ELSE 0

Spends(s, c, t, r) ==
  (IF t.phase = "none" THEN Start(s) ELSE t.credit) + t.allow + Charges(c, t.frame) + Lift(s, t, r)

Admitted(s, r) == IF r.phase = "none" THEN Start(s) ELSE r.remaining

Covered(s, c, t, r, q, announced) ==
  Spends(s, c, t, r) + Charges(c, q) + announced <= Admitted(s, r)

\* `open` is sent once, before any data, and makes the controlled side's task.
Opening(c, t, r, q, gone, lost) ==
  /\ r.phase # "none" => Begun(t)
  /\ Opens(c, q) <= 1
  /\ r.phase # "none" \/ ~Begun(t) => Opens(c, q) = 0
  /\ r.phase = "none" /\ t.phase = "relay" /\ ~gone /\ ~lost => Opens(c, q) = 1
  /\ lost \/ OpenFirst(c, q, IF r.phase = "none" THEN 0 ELSE 1)

\* The frames from side s to the other in their order; updates overtake them.
Stream(s) == wire[s] \o dataQ[s]

Ctrl(s) == IF s = "ctl" THEN ctrlQ ELSE <<>>

\* Side s still writes out, or still admits, what comes for channel c.
Hears(s, c) == ~Over(s, c) /\ ~Gone(s)

Admits(s, c) == (ep[s][c].phase = "none" \/ c \in entries[s]) /\ ~Gone(s)

Direction(s, c, t, r, q, k, gone, hears, admits, announced) ==
  /\ Named(c, t, q) /\ Named(c, t, k) /\ Finals(c, t, r, q) /\ Held(c, t, r)
  /\ hears => Carried(c, t, r, q, gone)
  /\ admits => Covered(s, c, t, r, q, announced)

Channel(c) ==
  /\ \A s \in Sides : Sane(s, c, ep[s][c]) /\ (c \in entries[s] => ep[s][c].phase # "none")
  /\ \A s \in Sides :
       Direction(s, c, ep[s][c], ep[Peer(s)][c], Stream(s), Ctrl(s), Gone(s),
                 Hears(Peer(s), c), Admits(Peer(s), c),
                 Updates(c, Stream(Peer(s))) + Updates(c, Ctrl(Peer(s))))
  /\ Opening(c, ep["ctl"][c], ep["tgt"][c], Stream("ctl"), Gone("ctl"), Gone("tgt"))

MuxInv ==
  /\ MuxAssumption /\ TypeOK
  /\ \A m \in Range(ctrlQ) : m.kind = "update"
  /\ \A c \in Channels : Channel(c)

-----------------------------------------------------------------------------
(* Queues. *)

LEMMA RangeConcat ==
  ASSUME NEW p \in Seq(Frames), NEW q \in Seq(Frames)
  PROVE  Range(p \o q) = Range(p) \cup Range(q) /\ Range(p) \subseteq Frames
  <1>1. /\ DOMAIN (p \o q) = 1..(Len(p) + Len(q)) /\ DOMAIN p = 1..Len(p) /\ DOMAIN q = 1..Len(q)
        /\ \A i \in 1..Len(p) : i \in DOMAIN (p \o q) /\ (p \o q)[i] = p[i]
        /\ \A i \in 1..Len(q) : Len(p) + i \in DOMAIN (p \o q) /\ (p \o q)[Len(p) + i] = q[i]
    OBVIOUS
  <1>2. ASSUME NEW i \in 1..(Len(p) + Len(q))
        PROVE  (p \o q)[i] \in Range(p) \cup Range(q)
    <2>1. CASE i <= Len(p)
      BY <1>1, <2>1 DEF Range
    <2>2. CASE i > Len(p)
      <3> DEFINE k == i - Len(p)
      <3>1. k \in 1..Len(q) /\ Len(p) + k = i
        BY <2>2
      <3> HIDE DEF k
      <3>2. (p \o q)[Len(p) + k] = q[k]
        BY <1>1, <3>1
      <3> QED BY <1>1, <3>1, <3>2 DEF Range
    <2> QED BY <2>1, <2>2
  <1>3. Range(p \o q) \subseteq Range(p) \cup Range(q)
    BY <1>1, <1>2 DEF Range
  <1>4. Range(p) \subseteq Range(p \o q)
    BY <1>1 DEF Range
  <1>5. Range(q) \subseteq Range(p \o q)
    BY <1>1 DEF Range
  <1>6. Range(p) \subseteq Frames
    BY DEF Range
  <1> QED BY <1>3, <1>4, <1>5, <1>6

LEMMA TwoQueues ==
  \A p, q \in Seq(Frames) :
    /\ p \o q \in Seq(Frames) /\ Len(p \o q) = Len(p) + Len(q)
    /\ \A i \in 1..(Len(p) + Len(q)) : (p \o q)[i] = IF i <= Len(p) THEN p[i] ELSE q[i - Len(p)]
  BY ConcatProperties

LEMMA ThreeQueues == \A p, q, r \in Seq(Frames) : (p \o q) \o r = p \o (q \o r)
  BY ConcatAssociative

LEMMA QueueLaws ==
  ASSUME NEW p \in Seq(Frames)
  PROVE  /\ \A m \in Frames : Append(p, m) = p \o <<m>>
         /\ p # <<>> => p = <<Head(p)>> \o Tail(p) /\ Head(p) \in Frames /\ Tail(p) \in Seq(Frames)
         /\ <<>> \o p = p /\ p \o <<>> = p
  <1>1. <<>> \o p = p /\ p \o <<>> = p
    OBVIOUS
  <1>2. \A m \in Frames : Append(p, m) = p \o <<m>>
    BY AppendIsConcat
  <1>3. ASSUME p # <<>> PROVE p = <<Head(p)>> \o Tail(p) /\ Head(p) \in Frames
       /\ Tail(p) \in Seq(Frames)
    <2> DEFINE h == <<Head(p)>>
               l == Tail(p)
    <2>1. /\ Head(p) \in Frames /\ l \in Seq(Frames) /\ Len(l) = Len(p) - 1 /\ Len(p) \in Nat
               /\ Len(p) # 0
          /\ \A i \in 1..Len(l) : l[i] = p[i + 1]
      BY <1>3
    <2>2. h \in Seq(Frames) /\ Len(h) = 1 /\ h[1] = p[1]
      BY <1>3, <2>1
    <2> HIDE DEF h, l
    <2>0. /\ h \o l \in Seq(Frames) /\ Len(h \o l) = Len(h) + Len(l)
          /\ \A i \in 1..(Len(h) + Len(l))
               : (h \o l)[i] = IF i <= Len(h) THEN h[i] ELSE l[i - Len(h)]
      BY <2>1, <2>2, TwoQueues, Zenon
    <2>3. h \o l \in Seq(Frames) /\ Len(h \o l) = Len(p)
      BY <2>0, <2>1, <2>2
    <2>4. ASSUME NEW i \in 1..Len(p) PROVE (h \o l)[i] = p[i]
      <3>1. (h \o l)[i] = IF i <= 1 THEN h[i] ELSE l[i - 1]
        BY <2>0, <2>1, <2>2
      <3>2. CASE i = 1
        BY <2>2, <3>1, <3>2
      <3>3. CASE i # 1
        <4>1. i - 1 \in 1..Len(l) /\ (i - 1) + 1 = i /\ ~(i <= 1)
          BY <2>1, <3>3
        <4>2. l[i - 1] = p[(i - 1) + 1]
          BY <2>1, <4>1
        <4> QED BY <3>1, <4>1, <4>2
      <3> QED BY <3>2, <3>3
    <2>5. h \o l = p
      BY <2>3, <2>4, SeqEqual
    <2> QED BY <2>1, <2>5 DEF h, l
  <1> QED BY <1>1, <1>2, <1>3

LEMMA RangeSmall == Range(<<>>) = {} /\ \A m : Range(<<m>>) = {m}
  BY DEF Range

(* For channel c the two queues are the same. *)
Alike(c, q, r) ==
  /\ DataFrames(c, r) = DataFrames(c, q) /\ Opens(c, r) = Opens(c, q)
  /\ Charges(c, r) = Charges(c, q) /\ Updates(c, r) = Updates(c, q)
  /\ \A a \in Nat : /\ Numbered(c, r, a) <=> Numbered(c, q, a)
                    /\ OpenFirst(c, r, a) <=> OpenFirst(c, q, a)
                    /\ \A n : EndsLast(c, r, a, n) <=> EndsLast(c, q, a, n)
  /\ \A m \in Frames : m.c = c => (m \in Range(r) <=> m \in Range(q))

LEMMA AlikeMiddle ==
  ASSUME NEW c, NEW p \in Seq(Frames), NEW q \in Seq(Frames), NEW m \in Frames, m.c # c
  PROVE  Alike(c, p \o q, (p \o <<m>>) \o q) /\ Alike(c, (p \o <<m>>) \o q, p \o q)
  <1> DEFINE r == p \o <<m>>
  <1>1. r \in Seq(Frames) /\ <<m>> \in Seq(Frames)
    OBVIOUS
  <1>2. ~IsData(m, c) /\ ~IsOpen(m, c) /\ ~Ends(m, c)
    BY DEF IsData, IsOpen, Ends
  <1>3. /\ DataFrames(c, <<m>>) = 0 /\ Opens(c, <<m>>) = 0 /\ Charges(c, <<m>>) = 0
             /\ Updates(c, <<m>>) = 0
        /\ \A a \in Nat : Numbered(c, <<m>>, a) /\ OpenFirst(c, <<m>>, a) /\ \A n
             : EndsLast(c, <<m>>, a, n)
    BY <1>2, CountsSmall, RunsSmall
  <1>4. /\ DataFrames(c, p) \in Nat /\ Opens(c, p) \in Nat
        /\ Charges(c, p) \in Nat /\ Updates(c, p) \in Nat
        /\ DataFrames(c, r) = DataFrames(c, p) /\ Opens(c, r) = Opens(c, p)
        /\ Charges(c, r) = Charges(c, p) /\ Updates(c, r) = Updates(c, p)
    <2>1. /\ DataFrames(c, r) = DataFrames(c, p) + 0 /\ Opens(c, r) = Opens(c, p) + 0
          /\ Charges(c, r) = Charges(c, p) + 0 /\ Updates(c, r) = Updates(c, p) + 0
      <3>1. /\ DataFrames(c, r) = DataFrames(c, p) + DataFrames(c, <<m>>)
            /\ Opens(c, r) = Opens(c, p) + Opens(c, <<m>>)
            /\ Charges(c, r) = Charges(c, p) + Charges(c, <<m>>)
            /\ Updates(c, r) = Updates(c, p) + Updates(c, <<m>>)
        BY <1>1, CountsConcat
      <3> QED BY <1>3, <3>1, Zenon
    <2>2. /\ DataFrames(c, p) \in Nat /\ Opens(c, p) \in Nat
          /\ Charges(c, p) \in Nat /\ Updates(c, p) \in Nat
      BY CountsConcat
    <2> HIDE DEF r
    <2> QED BY <2>1, <2>2
  <1>5. ASSUME NEW a \in Nat
        PROVE  /\ Numbered(c, r, a) <=> Numbered(c, p, a)
               /\ OpenFirst(c, r, a) <=> OpenFirst(c, p, a)
               /\ \A n : EndsLast(c, r, a, n) <=> EndsLast(c, p, a, n)
    <2>1. a + DataFrames(c, p) \in Nat /\ a + Opens(c, p) \in Nat
      BY <1>4
    <2> QED BY <1>1, <1>3, <2>1, RunsConcat
  <1>6. Range(r) = Range(p) \cup {m}
    BY <1>1, RangeConcat, RangeSmall, ZenonT(30)
  <1> HIDE DEF r
  <1>7. /\ DataFrames(c, r \o q) = DataFrames(c, p \o q) /\ Opens(c, r \o q) = Opens(c, p \o q)
        /\ Charges(c, r \o q) = Charges(c, p \o q) /\ Updates(c, r \o q) = Updates(c, p \o q)
    BY <1>1, <1>4, CountsConcat
  <1>8. \A a \in Nat : /\ Numbered(c, r \o q, a) <=> Numbered(c, p \o q, a)
                       /\ OpenFirst(c, r \o q, a) <=> OpenFirst(c, p \o q, a)
                       /\ \A n : EndsLast(c, r \o q, a, n) <=> EndsLast(c, p \o q, a, n)
    <2> TAKE a \in Nat
    <2>1. /\ Numbered(c, r \o q, a) <=> Numbered(c, r, a) /\ Numbered(c, q, a + DataFrames(c, r))
          /\ \A n : EndsLast(c, r \o q, a, n) <=> EndsLast(c, r, a, n)
               /\ EndsLast(c, q, a + DataFrames(c, r), n)
          /\ OpenFirst(c, r \o q, a) <=> OpenFirst(c, r, a) /\ OpenFirst(c, q, a + Opens(c, r))
      BY <1>1, RunsConcat
    <2>2. /\ Numbered(c, p \o q, a) <=> Numbered(c, p, a) /\ Numbered(c, q, a + DataFrames(c, p))
          /\ \A n : EndsLast(c, p \o q, a, n) <=> EndsLast(c, p, a, n)
               /\ EndsLast(c, q, a + DataFrames(c, p), n)
          /\ OpenFirst(c, p \o q, a) <=> OpenFirst(c, p, a) /\ OpenFirst(c, q, a + Opens(c, p))
      BY RunsConcat
    <2> QED BY <1>4, <1>5, <2>1, <2>2, Zenon
  <1>9. \A x \in Frames : x.c = c => (x \in Range(r \o q) <=> x \in Range(p \o q))
    BY <1>1, <1>6, RangeConcat
  <1> QED BY <1>7, <1>8, <1>9, Zenon DEF Alike, r

LEMMA AlikeEnds ==
  ASSUME NEW c, NEW q \in Seq(Frames), NEW m \in Frames, m.c # c
  PROVE  Alike(c, q, q \o <<m>>) /\ Alike(c, <<m>> \o q, q) /\ Alike(c, q, q)
  <1>1. /\ q \o <<>> = q /\ (q \o <<m>>) \o <<>> = q \o <<m>>
        /\ <<>> \o q = q /\ (<<>> \o <<m>>) \o q = <<m>> \o q
    OBVIOUS
  <1>2. <<>> \in Seq(Frames)
    OBVIOUS
  <1>3. Alike(c, q \o <<>>, (q \o <<m>>) \o <<>>) /\ Alike(c, (<<>> \o <<m>>) \o q, <<>> \o q)
    BY <1>2, AlikeMiddle
  <1>4. Alike(c, q, q)
    BY DEF Alike
  <1> QED BY <1>1, <1>3, <1>4

LEMMA AlikeSame == ASSUME NEW c, NEW q PROVE Alike(c, q, q)
  BY DEF Alike

LEMMA GotNat ==
  ASSUME NEW c, NEW t \in Tasks
  PROVE  Got(c, t) \in Nat /\ Holds(t) \in Seq(Frames) /\ t.written \in Nat
  <1>1. t.written \in Nat /\ t.chunk \in Seq(Frames) /\ t.pend \in Seq(Frames)
       /\ t.inbound \in Seq(Frames)
    BY DEF Tasks
  <1>2. Holds(t) \in Seq(Frames)
    BY <1>1 DEF Holds
  <1>3. DataFrames(c, Holds(t)) \in Nat
    BY <1>2, CountsConcat
  <1> QED BY <1>1, <1>2, <1>3 DEF Got

LEMMA DirectionAlike ==
  ASSUME NEW s, NEW c, NEW t \in Tasks, NEW r \in Tasks, NEW q \in Seq(Frames),
       NEW q2 \in Seq(Frames),
         NEW k \in Seq(Frames), NEW k2 \in Seq(Frames), NEW gone, NEW hears, NEW admits, NEW a,
         Alike(c, q, q2), Alike(c, k, k2),
         Direction(s, c, t, r, q, k, gone, hears, admits, a)
  PROVE  Direction(s, c, t, r, q2, k2, gone, hears, admits, a)
  <1>1. Range(q) \subseteq Frames /\ Range(q2) \subseteq Frames /\ Range(k) \subseteq Frames
       /\ Range(k2) \subseteq Frames
    BY RangeConcat
  <1>2. Named(c, t, q2) /\ Named(c, t, k2)
    BY <1>1, Zenon DEF Direction, Named, Alike
  <1>3. Finals(c, t, r, q2)
    BY <1>1, Zenon DEF Direction, Finals, Alike, Ends
  <1>4. hears => Carried(c, t, r, q2, gone)
    BY GotNat, Zenon DEF Direction, Carried, Alike
  <1>5. admits => Covered(s, c, t, r, q2, a)
    BY Zenon DEF Direction, Covered, Alike
  <1> QED BY <1>2, <1>3, <1>4, <1>5, Zenon DEF Direction

LEMMA OpeningAlike ==
  ASSUME NEW c, NEW t, NEW r, NEW q, NEW q2, NEW gone, NEW lost, Alike(c, q, q2),
         Opening(c, t, r, q, gone, lost)
  PROVE  Opening(c, t, r, q2, gone, lost)
  <1>1. Opens(c, q2) = Opens(c, q)
    BY Zenon DEF Alike
  <1>2. OpenFirst(c, q2, IF r.phase = "none" THEN 0 ELSE 1)
       <=> OpenFirst(c, q, IF r.phase = "none" THEN 0 ELSE 1)
    <2>1. (IF r.phase = "none" THEN 0 ELSE 1) \in Nat
      OBVIOUS
    <2> QED BY <2>1, Zenon DEF Alike
  <1> QED BY <1>1, <1>2, Zenon DEF Opening

(* A step that changes nothing of channel c. *)
LEMMA OtherChannel ==
  ASSUME TypeOK, TypeOK', NEW c \in Channels, Channel(c), tunnel' = tunnel,
         \A s \in Sides : /\ ep'[s][c] = ep[s][c]
                          /\ c \in entries'[s] => c \in entries[s]
                          /\ Alike(c, Stream(s), Stream(s)') /\ Alike(c, Ctrl(s), Ctrl(s)')
  PROVE  Channel(c)'
  <1> DEFINE t(s) == ep[s][c]
             a(s) == Updates(c, Stream(Peer(s))) + Updates(c, Ctrl(Peer(s)))
  <1>0. /\ \A s \in Sides : Peer(s) \in Sides /\ t(s) \in Tasks /\ Stream(s) \in Seq(Frames)
             /\ Ctrl(s) \in Seq(Frames)
        /\ \A s \in Sides : Stream(s)' \in Seq(Frames) /\ Ctrl(s)' \in Seq(Frames)
    BY DEF TypeOK, Sides, Peer, Stream, Ctrl
  <1>1. \A s \in Sides : Sane(s, c, ep[s][c])' /\ (c \in entries[s] => ep[s][c].phase # "none")'
    BY Zenon DEF Channel
  <1>2. \A s \in Sides : /\ Gone(s)' <=> Gone(s)
                         /\ (Hears(s, c)' => Hears(s, c)) /\ (Admits(s, c)' => Admits(s, c))
    BY DEF Gone, Hears, Admits, Over, RxOpen
  <1>3. \A s \in Sides : Updates(c, Stream(s))' = Updates(c, Stream(s))
       /\ Updates(c, Ctrl(s))' = Updates(c, Ctrl(s))
    BY Zenon DEF Alike
  <1>4. ASSUME NEW s \in Sides
        PROVE  Direction(s, c, ep[s][c], ep[Peer(s)][c], Stream(s), Ctrl(s), Gone(s),
                 Hears(Peer(s), c), Admits(Peer(s), c),
                 Updates(c, Stream(Peer(s))) + Updates(c, Ctrl(Peer(s))))'
    <2>1. Direction(s, c, t(s), t(Peer(s)), Stream(s), Ctrl(s), Gone(s), Hears(Peer(s), c), Admits(Peer(s), c), a(s))
      BY Zenon DEF Channel
    <2>2. Direction(s, c, t(s), t(Peer(s)), Stream(s)', Ctrl(s)', Gone(s), Hears(Peer(s), c), Admits(Peer(s), c), a(s))
      <3> HIDE DEF t, a
      <3> QED BY <1>0, <2>1, DirectionAlike, Zenon
    <2>3. (Hears(Peer(s), c)' => Hears(Peer(s), c)) /\ (Admits(Peer(s), c)' => Admits(Peer(s), c))
      BY <1>0, <1>2, Zenon
    <2>4. Direction(s, c, t(s), t(Peer(s)), Stream(s)', Ctrl(s)', Gone(s), Hears(Peer(s), c)', Admits(Peer(s), c)', a(s))
      <3> HIDE DEF t, a
      <3> QED BY <2>2, <2>3 DEF Direction
    <2>5. a(s) = Updates(c, Stream(Peer(s)))' + Updates(c, Ctrl(Peer(s)))'
      BY <1>0, <1>3, Zenon
    <2>6. t(s) = ep'[s][c] /\ t(Peer(s)) = ep'[Peer(s)][c] /\ Gone(s)' = Gone(s)
      BY <1>0 DEF Gone
    <2> HIDE DEF t, a
    <2>7. Peer(s)' = Peer(s)
      BY DEF Peer
    <2> QED BY <2>4, <2>5, <2>6, <2>7
  <1>5. Opening(c, ep["ctl"][c], ep["tgt"][c], Stream("ctl"), Gone("ctl"), Gone("tgt"))'
    <2>1. "ctl" \in Sides /\ "tgt" \in Sides
      BY DEF Sides
    <2>2. Opening(c, ep["ctl"][c], ep["tgt"][c], Stream("ctl")', Gone("ctl"), Gone("tgt"))
      BY <2>1, OpeningAlike, Zenon DEF Channel
    <2>3. ep'["ctl"][c] = ep["ctl"][c] /\ ep'["tgt"][c] = ep["tgt"][c]
         /\ Gone("ctl")' = Gone("ctl") /\ Gone("tgt")' = Gone("tgt")
      BY <2>1 DEF Gone
    <2> QED BY <2>2, <2>3
  <1> QED BY <1>1, <1>4, <1>5, Zenon DEF Channel

-----------------------------------------------------------------------------
(* The turns of a direction from task t to task r. *)

LEMMA SpendsNat ==
  ASSUME NEW s \in Sides, NEW c, NEW t \in Tasks, NEW r \in Tasks
  PROVE  Spends(s, c, t, r) \in Nat /\ Admitted(s, r) \in Nat
  <1>1. /\ t.credit \in Nat /\ t.allow \in Nat /\ r.remaining \in Nat /\ t.frame \in Seq(Frames)
    BY WindowAssumption DEF Tasks
  <1>2. Charges(c, t.frame) \in Nat
    BY <1>1, CountsConcat
  <1>3. Start(s) \in Nat /\ Lift(s, t, r) \in Nat
    BY WindowAssumption DEF Start, Lift
  <1> QED BY <1>1, <1>2, <1>3 DEF Spends, Admitted

\* The sender goes on from t to t2.
Goes(s, c, t, t2, r, gone) ==
  /\ Begun(t) => Begun(t2)
  /\ t.granted => t2.granted
  /\ t.phase \in Final => t2.phase \in Final /\ t2.sent = t.sent
  /\ gone \/ t2.sent + DataFrames(c, t.frame) = t.sent + DataFrames(c, t2.frame)

LEMMA NoEnds ==
  ASSUME NEW c, NEW q \in Seq(Frames), \A m \in Range(q) : ~Ends(m, c)
  PROVE  \A a, n : EndsLast(c, q, a, n)
  BY DEF EndsLast, Range

LEMMA HoldsRange ==
  ASSUME NEW c, NEW r \in Tasks, Buffers(c, r), NEW m \in Range(Holds(r)), Ends(m, c)
  PROVE  m \in Range(r.inbound)
  <1>1. r.chunk \in Seq(Frames) /\ r.pend \in Seq(Frames) /\ r.inbound \in Seq(Frames)
    BY DEF Tasks
  <1>2. r.chunk \o r.pend \in Seq(Frames)
    BY <1>1
  <1>3. m \in Range(r.chunk) \/ m \in Range(r.pend) \/ m \in Range(r.inbound)
    BY <1>1, <1>2, RangeConcat DEF Holds
  <1>4. m \notin Range(r.chunk)
    <2>1. \A x : IsData(x, c) => ~Ends(x, c)
      BY DEF IsData, Ends
    <2>2. r.chunk = <<>> \/ \E x : r.chunk = <<x>> /\ IsData(x, c)
      BY DEF Buffers, Payload
    <2> QED BY <2>1, <2>2, RangeSmall
  <1>5. m \notin Range(r.pend)
    BY DEF Buffers, Payload, IsData, Ends
  <1> QED BY <1>3, <1>4, <1>5

LEMMA SenderGoes ==
  ASSUME NEW s \in Sides, NEW c, NEW t \in Tasks, NEW t2 \in Tasks, NEW r \in Tasks,
         NEW q \in Seq(Frames), NEW k, NEW gone, NEW hears, NEW admits, NEW a \in Nat,
              NEW a2 \in Nat,
         Direction(s, c, t, r, q, k, gone, hears, admits, a), Buffers(c, r),
         Goes(s, c, t, t2, r, gone),
         Spends(s, c, t2, r) + a2 <= Spends(s, c, t, r) + a
  PROVE  Direction(s, c, t2, r, q, k, gone, hears, admits, a2)
  <1>1. Named(c, t2, q) /\ Named(c, t2, k)
    BY DEF Direction, Named, Goes
  <1>2. Finals(c, t2, r, q)
    BY DEF Direction, Finals, Goes
  <1>3. Held(c, t2, r) /\ (hears => EndsLast(c, q, Got(c, r), t2.sent))
    <2>1. CASE t.phase \in Final
      <3>1. t2.sent = t.sent
        BY <2>1 DEF Goes
      <3> QED BY <3>1 DEF Direction, Held, Carried
    <2>2. CASE t.phase \notin Final
      <3>1. r.downEnd # "PeerClosed" /\ \A m \in Range(q) \cup Range(r.inbound) : ~Ends(m, c)
        BY <2>2 DEF Direction, Finals
      <3>2. \A m \in Range(Holds(r)) : ~Ends(m, c)
        BY <3>1, HoldsRange
      <3>3. \A b, n : EndsLast(c, q, b, n)
        BY <3>1, NoEnds
      <3>4. \A b, n : EndsLast(c, Holds(r), b, n)
        BY <3>2, GotNat, NoEnds
      <3> QED BY <3>1, <3>3, <3>4, Zenon DEF Direction, Held
    <2> QED BY <2>1, <2>2
  <1>4. hears => Carried(c, t2, r, q, gone)
    <2> HAVE hears
    <2>1. Carried(c, t, r, q, gone)
      BY DEF Direction
    <2>2. /\ Got(c, r) \in Nat /\ DataFrames(c, q) \in Nat /\ t.sent \in Nat /\ t2.sent \in Nat
          /\ DataFrames(c, t.frame) \in Nat /\ DataFrames(c, t2.frame) \in Nat
      <3>1. t.frame \in Seq(Frames) /\ t2.frame \in Seq(Frames) /\ t.sent \in Nat /\ t2.sent \in Nat
        BY DEF Tasks
      <3> QED BY <3>1, GotNat, CountsConcat
    <2>3. gone \/ Got(c, r) + DataFrames(c, q) + DataFrames(c, t2.frame) = t2.sent
      BY <2>1, <2>2 DEF Carried, Goes
    <2> QED BY <1>3, <2>1, <2>3 DEF Carried
  <1>5. admits => Covered(s, c, t2, r, q, a2)
    <2>1. Spends(s, c, t, r) \in Nat /\ Spends(s, c, t2, r) \in Nat /\ Admitted(s, r) \in Nat
         /\ Charges(c, q) \in Nat
      BY SpendsNat, CountsConcat
    <2> QED BY <2>1 DEF Direction, Covered
  <1> QED BY <1>1, <1>2, <1>3, <1>4, <1>5 DEF Direction

\* The sender puts frame m on the stream.
Puts(s, c, t, t2, m) ==
  /\ m \in Frames /\ m.c = c /\ t2.sent = t.sent
  /\ Begun(t2) /\ (t.granted => t2.granted)
  /\ t.phase \in Final => t2.phase \in Final
  /\ m.kind = "data" => m.len \in 1..MAX_FRAME /\ m.seq = t.sent
  /\ m.kind \in {"open", "opened"} => m.len = CHANNEL_WINDOW
  /\ m.kind = "opened" => t2.granted
  /\ Ends(m, c) => t2.phase \in Final
  /\ IF m.kind = "data" THEN t.frame = <<m>> /\ t2.frame = <<>>
                        ELSE t2.frame = t.frame /\ (Ends(m, c) => t.frame = <<>>)

LEMMA SenderPuts ==
  ASSUME NEW s \in Sides, NEW c, NEW t \in Tasks, NEW t2 \in Tasks, NEW r \in Tasks,
         NEW q \in Seq(Frames), NEW k, NEW hears, NEW admits, NEW a \in Nat, NEW m,
         Direction(s, c, t, r, q, k, FALSE, hears, admits, a), Buffers(c, r),
         Puts(s, c, t, t2, m),
         Spends(s, c, t2, r) + Charges(c, <<m>>) <= Spends(s, c, t, r)
  PROVE  Direction(s, c, t2, r, q \o <<m>>, k, FALSE, hears, admits, a)
  <1> DEFINE g == Got(c, r)
             q2 == q \o <<m>>
  <1>0. /\ m \in Frames /\ <<m>> \in Seq(Frames) /\ q2 \in Seq(Frames)
        /\ Range(q2) = Range(q) \cup {m}
    <2>1. m \in Frames
      BY DEF Puts
    <2>2. <<m>> \in Seq(Frames) /\ q2 \in Seq(Frames)
      BY <2>1
    <2> QED BY <2>1, <2>2, RangeConcat, RangeSmall
  <1>a. /\ g \in Nat /\ DataFrames(c, q) \in Nat /\ t.sent \in Nat /\ t2.sent = t.sent
        /\ DataFrames(c, t.frame) \in Nat
    <2>1. t.frame \in Seq(Frames) /\ t.sent \in Nat
      BY DEF Tasks
    <2> QED BY <2>1, GotNat, CountsConcat DEF Puts
  <1>b. DataFrames(c, q2) = DataFrames(c, q) + DataFrames(c, <<m>>)
       /\ Charges(c, q2) = Charges(c, q) + Charges(c, <<m>>)
    BY <1>0, CountsConcat
  <1>c. /\ Numbered(c, q2, g) <=> Numbered(c, q, g) /\ Numbered(c, <<m>>, g + DataFrames(c, q))
        /\ EndsLast(c, q2, g, t.sent) <=> EndsLast(c, q, g, t.sent)
             /\ EndsLast(c, <<m>>, g + DataFrames(c, q), t.sent)
    BY <1>0, <1>a, RunsConcat
  <1>d. /\ Numbered(c, <<m>>, g + DataFrames(c, q))
             <=> (IsData(m, c) => m.seq = g + DataFrames(c, q) + 1)
        /\ EndsLast(c, <<m>>, g + DataFrames(c, q), t.sent)
             <=> (Ends(m, c) => g + DataFrames(c, q) = t.sent)
    <2>1. g + DataFrames(c, q) \in Nat
      BY <1>a
    <2> QED BY <1>0, <2>1, RunsSmall
  <1> HIDE DEF g, q2
  <1>1. Named(c, t2, q2) /\ Named(c, t2, k)
    BY <1>0 DEF Direction, Named, Puts
  <1>2. Finals(c, t2, r, q2)
    BY <1>0 DEF Direction, Finals, Puts
  <1>3. Held(c, t2, r)
    BY <1>a DEF Direction, Held
  <1>4. hears => Carried(c, t2, r, q2, FALSE)
    <2> HAVE hears
    <2>1. Numbered(c, q, g) /\ EndsLast(c, q, g, t.sent)
         /\ g + DataFrames(c, q) + DataFrames(c, t.frame) = t.sent
      BY DEF Direction, Carried, g
    <2>2. /\ DataFrames(c, <<>>) = 0
          /\ DataFrames(c, <<m>>) = IF m.kind = "data" THEN 1 ELSE 0
          /\ IsData(m, c) => m.kind = "data"
          /\ Ends(m, c) => m.kind # "data"
      BY <1>0, CountsSmall DEF IsData, Ends, Puts
    <2>3. CASE m.kind = "data"
      <3>1. t.frame = <<m>> /\ t2.frame = <<>> /\ m.seq = t.sent
        BY <2>3 DEF Puts
      <3>2. DataFrames(c, t.frame) = 1 /\ DataFrames(c, t2.frame) = 0
        BY <2>2, <2>3, <3>1
      <3> QED BY <1>a, <1>b, <1>c, <1>d, <2>1, <2>2, <2>3, <3>1, <3>2 DEF Carried, g
    <2>4. CASE m.kind # "data"
      <3>1. t2.frame = t.frame /\ (Ends(m, c) => t.frame = <<>>)
        BY <2>4 DEF Puts
      <3> QED BY <1>a, <1>b, <1>c, <1>d, <2>1, <2>2, <2>4, <3>1 DEF Carried, g
    <2> QED BY <2>3, <2>4
  <1>5. admits => Covered(s, c, t2, r, q2, a)
    <2>1. Spends(s, c, t, r) \in Nat /\ Spends(s, c, t2, r) \in Nat /\ Admitted(s, r) \in Nat
          /\ Charges(c, q) \in Nat /\ Charges(c, <<m>>) \in Nat
      BY <1>0, SpendsNat, CountsConcat
    <2> QED BY <1>b, <2>1 DEF Direction, Covered
  <1> QED BY <1>1, <1>2, <1>3, <1>4, <1>5 DEF Direction, q2

\* The receiver goes on from r to r2, having read the frames `read` (none or
\* one) off the stream.
Hearkens(c, t, r2) ==
  /\ Held(c, t, r2)
  /\ (\E m \in Range(r2.inbound) : Ends(m, c)) \/ r2.downEnd = "PeerClosed" => t.phase \in Final

LEMMA ReceiverReads ==
  ASSUME NEW s \in Sides, NEW c, NEW t \in Tasks, NEW r \in Tasks, NEW r2 \in Tasks,
         NEW read \in Seq(Frames), NEW q \in Seq(Frames), NEW k, NEW gone,
         NEW hears, NEW admits, NEW hears2, NEW admits2, NEW a \in Nat, NEW a2 \in Nat,
         Direction(s, c, t, r, read \o q, k, gone, hears, admits, a),
         Hearkens(c, t, r2),
         hears2 => hears /\ Got(c, r2) = Got(c, r) + DataFrames(c, read),
         admits2 => /\ admits
                    /\ Spends(s, c, t, r2) + a2 + Admitted(s, r)
                         <= Spends(s, c, t, r) + a + Admitted(s, r2) + Charges(c, read)
  PROVE  Direction(s, c, t, r2, q, k, gone, hears2, admits2, a2)
  <1> DEFINE all == read \o q
             g == Got(c, r)
             d == DataFrames(c, read)
  <1>0. all \in Seq(Frames) /\ Range(all) = Range(read) \cup Range(q)
    BY RangeConcat
  <1>a. g \in Nat /\ d \in Nat /\ DataFrames(c, q) \in Nat
       /\ DataFrames(c, all) = d + DataFrames(c, q)
    BY GotNat, CountsConcat
  <1>b. /\ Numbered(c, all, g) <=> Numbered(c, read, g) /\ Numbered(c, q, g + d)
        /\ EndsLast(c, all, g, t.sent) <=> EndsLast(c, read, g, t.sent)
             /\ EndsLast(c, q, g + d, t.sent)
    BY <1>a, RunsConcat
  <1>c. Direction(s, c, t, r, all, k, gone, hears, admits, a)
    OBVIOUS
  <1>d. DataFrames(c, t.frame) \in Nat
    <2>1. t.frame \in Seq(Frames)
      BY DEF Tasks
    <2> QED BY <2>1, CountsConcat
  <1>e. Charges(c, all) = Charges(c, read) + Charges(c, q) /\ Charges(c, read) \in Nat
       /\ Charges(c, q) \in Nat
    BY CountsConcat
  <1>1. hears2 => Carried(c, t, r2, q, gone)
    <2> HAVE hears2
    <2>1. Carried(c, t, r, all, gone) /\ Got(c, r2) = g + d
      BY <1>c DEF Direction
    <2> HIDE DEF g, d, all
    <2>2. Numbered(c, q, g + d) /\ EndsLast(c, q, g + d, t.sent)
      BY <1>b, <2>1 DEF Carried, g
    <2>3. gone \/ g + DataFrames(c, all) + DataFrames(c, t.frame) = t.sent
      BY <2>1 DEF Carried, g
    <2>4. gone \/ g + d + DataFrames(c, q) + DataFrames(c, t.frame) = t.sent
      BY <1>a, <1>d, <2>3
    <2> QED BY <2>1, <2>2, <2>4 DEF Carried
  <1>2. admits2 => Covered(s, c, t, r2, q, a2)
    <2> HAVE admits2
    <2>1. Covered(s, c, t, r, all, a)
      BY <1>c DEF Direction
    <2>2. /\ Spends(s, c, t, r) \in Nat /\ Spends(s, c, t, r2) \in Nat
          /\ Admitted(s, r) \in Nat /\ Admitted(s, r2) \in Nat
      BY SpendsNat
    <2>3. Spends(s, c, t, r2) + a2 + Admitted(s, r)
                         <= Spends(s, c, t, r) + a + Admitted(s, r2) + Charges(c, read)
      OBVIOUS
    <2> HIDE DEF all
    <2> QED BY <1>e, <2>1, <2>2, <2>3, SMTT(30) DEF Covered
  <1> HIDE DEF all, g, d
  <1>3. Named(c, t, q) /\ Named(c, t, k)
    BY <1>0, <1>c DEF Direction, Named
  <1>4. Finals(c, t, r2, q)
    BY <1>0, <1>c DEF Direction, Finals, Hearkens
  <1>5. Held(c, t, r2)
    BY DEF Hearkens
  <1> QED BY <1>1, <1>2, <1>3, <1>4, <1>5 DEF Direction

\* The controller's task goes on, putting frames `put` (none or one) on the
\* stream; the controlled side's goes on from r to r2.
LEMMA OpeningGoes ==
  ASSUME NEW c, NEW t \in Tasks, NEW t2 \in Tasks, NEW r \in Tasks, NEW r2 \in Tasks,
         NEW q \in Seq(Frames), NEW gone, NEW lost, Opening(c, t, r, q, gone, lost),
         Begun(t) => Begun(t2), t2.phase = "relay" => t.phase = "relay",
         r2.phase = "none" <=> r.phase = "none"
  PROVE  Opening(c, t2, r2, q, gone, lost)
  <1>1. OpenFirst(c, q, IF r2.phase = "none" THEN 0 ELSE 1)
       <=> OpenFirst(c, q, IF r.phase = "none" THEN 0 ELSE 1)
    BY Zenon
  <1> QED BY <1>1 DEF Opening

LEMMA OpeningPuts ==
  ASSUME NEW c, NEW t \in Tasks, NEW t2 \in Tasks, NEW r \in Tasks, NEW m \in Frames,
         NEW q \in Seq(Frames), NEW lost, Opening(c, t, r, q, FALSE, lost),
         Begun(t2), m.c = c,
         m.kind = "open" => t.phase = "opening",
         m.kind # "open" => Begun(t) /\ (t2.phase = "relay" => t.phase = "relay"),
         m.kind = "data" => t.phase = "relay"
  PROVE  Opening(c, t2, r, q \o <<m>>, FALSE, lost)
  <1> DEFINE b == IF r.phase = "none" THEN 0 ELSE 1
             q2 == q \o <<m>>
  <1>1. b \in Nat /\ <<m>> \in Seq(Frames) /\ Opens(c, q) \in Nat
    BY CountsConcat
  <1>2. Opens(c, q2) = Opens(c, q) + (IF m.kind = "open" THEN 1 ELSE 0)
    <2>1. Opens(c, q2) = Opens(c, q) + Opens(c, <<m>>)
      BY <1>1, CountsConcat
    <2>2. Opens(c, <<m>>) = IF m.kind = "open" THEN 1 ELSE 0
      BY CountsSmall DEF IsOpen
    <2> QED BY <2>1, <2>2
  <1>3. OpenFirst(c, q2, b) <=> OpenFirst(c, q, b) /\ (m.kind = "data" => b + Opens(c, q) >= 1)
    <2>1. OpenFirst(c, q2, b) <=> OpenFirst(c, q, b) /\ OpenFirst(c, <<m>>, b + Opens(c, q))
      BY <1>1, RunsConcat
    <2>2. b + Opens(c, q) \in Nat
      BY <1>1
    <2>3. OpenFirst(c, <<m>>, b + Opens(c, q)) <=> (m.kind = "data" => b + Opens(c, q) >= 1)
      <3> HIDE DEF b
      <3> QED BY <2>2, RunsSmall DEF IsData
    <2> QED BY <2>1, <2>3
  <1>4. /\ r.phase # "none" => Begun(t)
        /\ Opens(c, q) <= 1
        /\ r.phase # "none" \/ ~Begun(t) => Opens(c, q) = 0
        /\ r.phase = "none" /\ t.phase = "relay" /\ ~lost => Opens(c, q) = 1
        /\ lost \/ OpenFirst(c, q, b)
    BY DEF Opening
  <1>5. lost \/ OpenFirst(c, q2, b)
    BY <1>1, <1>3, <1>4
  <1>6. CASE m.kind = "open"
    <2>1. ~Begun(t)
      BY <1>6 DEF Begun
    <2> HIDE DEF q2
    <2> QED BY <1>1, <1>2, <1>4, <1>5, <1>6, <2>1 DEF Opening, b, q2
  <1>7. CASE m.kind # "open"
    <2>1. Opens(c, q2) = Opens(c, q)
      BY <1>1, <1>2, <1>7
    <2> HIDE DEF q2
    <2> QED BY <1>1, <1>4, <1>5, <1>7, <2>1 DEF Opening, b, q2
  <1> QED BY <1>6, <1>7

\* The controlled side reads a frame other than `open`.
LEMMA OpeningReads ==
  ASSUME NEW c, NEW t, NEW r \in Tasks, NEW r2 \in Tasks, NEW m \in Frames,
         NEW q \in Seq(Frames), NEW gone, NEW lost, Opening(c, t, r, <<m>> \o q, gone, lost),
         m.kind # "open", r2.phase = "none" <=> r.phase = "none"
  PROVE  Opening(c, t, r2, q, gone, lost)
  <1> DEFINE b == IF r.phase = "none" THEN 0 ELSE 1
             all == <<m>> \o q
  <1>1. b \in Nat /\ <<m>> \in Seq(Frames) /\ Opens(c, q) \in Nat
    BY CountsConcat
  <1>2. Opens(c, <<m>>) = 0
    BY CountsSmall DEF IsOpen
  <1>3. Opens(c, all) = Opens(c, q)
    <2>1. Opens(c, all) = Opens(c, <<m>>) + Opens(c, q)
      BY <1>1, CountsConcat
    <2> QED BY <1>1, <1>2, <2>1
  <1>4. OpenFirst(c, all, b) => OpenFirst(c, q, b)
    <2>1. OpenFirst(c, all, b) => OpenFirst(c, q, b + Opens(c, <<m>>))
      BY <1>1, RunsConcat
    <2>2. b + Opens(c, <<m>>) = b
      BY <1>1, <1>2
    <2> QED BY <2>1, <2>2
  <1>5. Opening(c, t, r, all, gone, lost)
    OBVIOUS
  <1>6. b = IF r2.phase = "none" THEN 0 ELSE 1
    OBVIOUS
  <1> HIDE DEF all
  <1> QED BY <1>3, <1>4, <1>5, <1>6 DEF Opening

LEMMA Others ==
  ASSUME NEW s \in Sides
  PROVE  Peer(s) \in Sides /\ Peer(s) # s /\ Peer(Peer(s)) = s /\ Sides = {s, Peer(s)}
  BY DEF Sides, Peer

(* The parts of Channel(c), of which side s takes a step. *)
LEMMA ChannelParts ==
  ASSUME TypeOK, NEW s \in Sides, NEW c \in Channels
  PROVE  /\ ep[s][c] \in Tasks /\ ep[Peer(s)][c] \in Tasks
         /\ Stream(s) \in Seq(Frames) /\ Ctrl(s) \in Seq(Frames)
         /\ Stream(Peer(s)) \in Seq(Frames) /\ Ctrl(Peer(s)) \in Seq(Frames)
         /\ Updates(c, Stream(s)) \in Nat /\ Updates(c, Ctrl(s)) \in Nat
         /\ Updates(c, Stream(Peer(s))) \in Nat /\ Updates(c, Ctrl(Peer(s))) \in Nat
  <1>1. \A x \in Sides : ep[x][c] \in Tasks /\ Stream(x) \in Seq(Frames) /\ Ctrl(x) \in Seq(Frames)
    BY DEF TypeOK, Stream, Ctrl
  <1>2. \A x \in Sides : Updates(c, Stream(x)) \in Nat /\ Updates(c, Ctrl(x)) \in Nat
    BY <1>1, CountsConcat
  <1> QED BY <1>1, <1>2, Others

-----------------------------------------------------------------------------
(* Steps of a task. *)

Announces(s, c) == Updates(c, Stream(s)) + Updates(c, Ctrl(s))

\* Task t of channel c at side s, with r at the other, goes on as t2.
Turns(s, c, t, t2, r) ==
  /\ Sane(s, c, t2) /\ t2.phase # "none" /\ Hearkens(c, r, t2)
  /\ t.down = "ended" => t2.down = "ended"
  /\ t2.down # "ended" => Got(c, t2) = Got(c, t)

\* Of the channels' map only that of a new task grows.
Enters(s, c, t) ==
  \A x \in Sides, d \in Channels :
    d \in entries'[x] => d \in entries[x] \/ (x = s /\ d = c /\ t.phase = "none")

LEMMA TurnKeeps ==
  ASSUME TypeOK, TypeOK', NEW s \in Sides, NEW c \in Channels, NEW t2 \in Tasks,
         \A d \in Channels : Channel(d),
         ep' = [ep EXCEPT ![s][c] = t2], tunnel' = tunnel,
         Stream(Peer(s))' = Stream(Peer(s)), Ctrl(Peer(s))' = Ctrl(Peer(s)),
         \A d \in Channels : d # c => Alike(d, Stream(s), Stream(s)')
              /\ Alike(d, Ctrl(s), Ctrl(s)'),
         Enters(s, c, ep[s][c]), Turns(s, c, ep[s][c], t2, ep[Peer(s)][c]),
         Direction(s, c, t2, ep[Peer(s)][c], Stream(s)', Ctrl(s)', Gone(s),
                   Hears(Peer(s), c), Admits(Peer(s), c), Announces(Peer(s), c)),
         Spends(Peer(s), c, ep[Peer(s)][c], t2) + Announces(s, c)' + Admitted(Peer(s), ep[s][c])
           <= Spends(Peer(s), c, ep[Peer(s)][c], ep[s][c]) + Announces(s, c) + Admitted(Peer(s), t2),
         Opening(c, ep["ctl"][c], ep["tgt"][c], Stream("ctl"), Gone("ctl"), Gone("tgt"))'
  PROVE  \A d \in Channels : Channel(d)'
  <1> DEFINE p == Peer(s)
             t == ep[s][c]
             r == ep[p][c]
  <1>0. p \in Sides /\ p # s /\ Peer(p) = s /\ Sides = {s, p}
    BY Others
  <1>1. /\ ep'[s][c] = t2 /\ ep'[p] = ep[p]
        /\ \A d \in Channels : d # c => ep'[s][d] = ep[s][d]
    BY <1>0 DEF TypeOK
  <1>2. /\ t \in Tasks /\ r \in Tasks /\ Stream(p) \in Seq(Frames)
             /\ Stream(s)' \in Seq(Frames) /\ Ctrl(s)' \in Seq(Frames)
        /\ Announces(s, c) \in Nat /\ Announces(s, c)' \in Nat
    <2>1. /\ t \in Tasks /\ r \in Tasks /\ Stream(p) \in Seq(Frames)
          /\ Updates(c, Stream(s)) \in Nat /\ Updates(c, Ctrl(s)) \in Nat
      BY ChannelParts
    <2>2. Stream(s)' \in Seq(Frames) /\ Ctrl(s)' \in Seq(Frames)
      BY DEF TypeOK, Stream, Ctrl
    <2>3. Updates(c, Stream(s)') \in Nat /\ Updates(c, Ctrl(s)') \in Nat
      BY <2>2, CountsConcat
    <2>4. Announces(s, c) \in Nat
      BY <2>1 DEF Announces
    <2>5. Announces(s, c)' \in Nat
      BY <2>3 DEF Announces
    <2> QED BY <2>1, <2>2, <2>4, <2>5
  <1>3. ASSUME NEW d \in Channels, d # c PROVE Channel(d)'
    <2>1. \A x \in Sides : Alike(d, Stream(x), Stream(x)') /\ Alike(d, Ctrl(x), Ctrl(x)')
      BY <1>0, <1>3, AlikeSame
    <2>2. \A x \in Sides : ep'[x][d] = ep[x][d] /\ (d \in entries'[x] => d \in entries[x])
      BY <1>0, <1>1, <1>3 DEF Enters
    <2> QED BY <2>1, <2>2, OtherChannel
  <1>4. Channel(c)'
    <2>0. Channel(c)
      OBVIOUS
    <2>1. t2.phase # "none"
      BY DEF Turns
    <2>2. Gone(s)' = Gone(s) /\ Gone(p)' = Gone(p)
      BY DEF Gone
    <2>3. (Hears(p, c)' => Hears(p, c)) /\ (Admits(p, c)' => Admits(p, c))
      <3>1. c \in entries'[p] => c \in entries[p]
        BY <1>0 DEF Enters
      <3> QED BY <1>1, <2>2, <3>1 DEF Hears, Admits, Over, RxOpen
    <2>4. /\ Hears(s, c)' => Hears(s, c) /\ t2.down # "ended"
          /\ Admits(s, c)' => Admits(s, c)
      <3>1. c \in entries'[s] => c \in entries[s] \/ t.phase = "none"
        BY DEF Enters
      <3>2. t.down = "ended" => t2.down = "ended"
        BY DEF Turns
      <3> QED BY <1>1, <2>1, <2>2, <3>1, <3>2 DEF Hears, Admits, Over, RxOpen
    <2>5. Sane(p, c, r)
         /\ Direction(p, c, r, t, Stream(p), Ctrl(p), Gone(p), Hears(s, c), Admits(s, c), Announces(s, c))
      BY <1>0, <2>0 DEF Channel, Announces
    <2>6. Direction(p, c, r, t2, Stream(p), Ctrl(p), Gone(p), Hears(s, c)', Admits(s, c)', Announces(s, c)')
      <3> DEFINE e == <<>>
      <3>1. e \in Seq(Frames) /\ e \o Stream(p) = Stream(p) /\ DataFrames(c, e) = 0
           /\ Charges(c, e) = 0
        BY <1>2, CountsSmall
      <3> HIDE DEF e
      <3>2. Hears(s, c)' => Hears(s, c) /\ Got(c, t2) = Got(c, t) + DataFrames(c, e)
        BY <1>2, <2>4, <3>1, GotNat DEF Turns
      <3>3. Admits(s, c)' => /\ Admits(s, c)
                             /\ Spends(p, c, r, t2) + Announces(s, c)' + Admitted(p, t)
                                 <= Spends(p, c, r, t) + Announces(s, c) + Admitted(p, t2) + Charges(c, e)
        <4>1. Spends(p, c, r, t2) + Announces(s, c)' + Admitted(p, t)
                                 <= Spends(p, c, r, t) + Announces(s, c) + Admitted(p, t2)
          OBVIOUS
        <4>2. Spends(p, c, r, t) \in Nat /\ Spends(p, c, r, t2) \in Nat
             /\ Admitted(p, t) \in Nat /\ Admitted(p, t2) \in Nat
          BY <1>0, <1>2, SpendsNat
        <4> QED BY <1>2, <2>4, <3>1, <4>1, <4>2
      <3>4. Hearkens(c, r, t2)
        BY DEF Turns
      <3>5. Direction(p, c, r, t, e \o Stream(p), Ctrl(p), Gone(p), Hears(s, c), Admits(s, c), Announces(s, c))
        BY <2>5, <3>1
      <3> HIDE DEF t, r, p
      <3> QED BY <1>0, <1>2, <3>1, <3>2, <3>3, <3>4, <3>5, ReceiverReads
    <2>7. Direction(s, c, t2, r, Stream(s)', Ctrl(s)', Gone(s), Hears(p, c)', Admits(p, c)', Announces(p, c))
      BY <2>3 DEF Direction
    <2>8. Announces(p, c)' = Announces(p, c)
      BY DEF Announces
    <2>9. \A x \in Sides :
            Direction(x, c, ep[x][c], ep[Peer(x)][c], Stream(x), Ctrl(x), Gone(x),
                      Hears(Peer(x), c), Admits(Peer(x), c), Announces(Peer(x), c))'
      <3>1. Direction(s, c, ep[s][c], ep[p][c], Stream(s), Ctrl(s), Gone(s), Hears(p, c), Admits(p, c), Announces(p, c))'
        BY <1>1, <2>2, <2>7, <2>8
      <3>2. Direction(p, c, ep[p][c], ep[s][c], Stream(p), Ctrl(p), Gone(p), Hears(s, c), Admits(s, c), Announces(s, c))'
        BY <1>1, <2>2, <2>6
      <3> QED BY <1>0, <3>1, <3>2
    <2>10. \A x \in Sides : Sane(x, c, ep[x][c])' /\ (c \in entries[x] => ep[x][c].phase # "none")'
      <3>1. Sane(s, c, t2)
        BY DEF Turns
      <3>2. c \in entries'[p] => r.phase # "none"
        BY <1>0, <2>0 DEF Enters, Channel
      <3> QED BY <1>0, <1>1, <2>1, <2>5, <3>1, <3>2
    <2> QED BY <2>9, <2>10 DEF Channel, Announces
  <1> QED BY <1>3, <1>4

LEMMA TypeKeeps ==
  ASSUME TypeOK, NEW s \in Sides, NEW c \in Channels, NEW t2 \in Tasks,
         ep' = [ep EXCEPT ![s][c] = t2], entries' \in [Sides -> SUBSET Channels],
         wire' \in [Sides -> Seq(Frames)], ctrlQ' \in Seq(Frames),
         dataQ' \in [Sides -> Seq(Frames)], Len(dataQ'["ctl"]) <= DATA_QUEUE_FRAMES,
         tunnel' = tunnel
  PROVE  TypeOK'
  <1>1. ep' \in [Sides -> [Channels -> Tasks]]
    BY DEF TypeOK
  <1> QED BY <1>1 DEF TypeOK

\* The task's turn leaves its window's worth to the other side's.
Leaves(s, c, t, t2, r, more) ==
  Spends(Peer(s), c, r, t2) + more + Admitted(Peer(s), t)
    <= Spends(Peer(s), c, r, t) + Admitted(Peer(s), t2)

LEMMA OpeningKeeps ==
  ASSUME TypeOK, NEW s \in Sides, NEW c \in Channels, NEW t2 \in Tasks, Channel(c),
         ep' = [ep EXCEPT ![s][c] = t2], tunnel' = tunnel,
         Stream("ctl")' = Stream("ctl"), Begun(ep[s][c]) => Begun(t2),
         s = "ctl" => (t2.phase = "relay" => ep[s][c].phase = "relay"),
         s = "tgt" => (t2.phase = "none" <=> ep[s][c].phase = "none")
  PROVE  Opening(c, ep["ctl"][c], ep["tgt"][c], Stream("ctl"), Gone("ctl"), Gone("tgt"))'
  <1>1. Opening(c, ep["ctl"][c], ep["tgt"][c], Stream("ctl"), Gone("ctl"), Gone("tgt"))
    BY DEF Channel
  <1>2. /\ Gone("ctl")' = Gone("ctl") /\ Gone("tgt")' = Gone("tgt")
        /\ ep["ctl"][c] \in Tasks /\ ep["tgt"][c] \in Tasks /\ Stream("ctl") \in Seq(Frames)
    BY DEF Gone, TypeOK, Sides, Stream
  <1>3. CASE s = "ctl"
    <2>1. ep'["ctl"][c] = t2 /\ ep'["tgt"][c] = ep["tgt"][c]
      BY <1>3 DEF TypeOK, Sides
    <2>2. Opening(c, t2, ep["tgt"][c], Stream("ctl"), Gone("ctl"), Gone("tgt"))
      BY <1>1, <1>2, <1>3, OpeningGoes
    <2> QED BY <1>2, <2>1, <2>2
  <1>4. CASE s = "tgt"
    <2>1. ep'["tgt"][c] = t2 /\ ep'["ctl"][c] = ep["ctl"][c]
      BY <1>4 DEF TypeOK, Sides
    <2>2. Opening(c, ep["ctl"][c], t2, Stream("ctl"), Gone("ctl"), Gone("tgt"))
      BY <1>1, <1>2, <1>4, OpeningGoes
    <2> QED BY <1>2, <2>1, <2>2
  <1> QED BY <1>3, <1>4 DEF Sides

LEMMA QuietKeeps ==
  ASSUME MuxInv, NEW s \in Sides, NEW c \in Channels, NEW t2 \in Tasks,
         ep' = [ep EXCEPT ![s][c] = t2], UNCHANGED <<dataQ, ctrlQ, wire, tunnel>>,
         entries' \in [Sides -> SUBSET Channels], Enters(s, c, ep[s][c]),
         Turns(s, c, ep[s][c], t2, ep[Peer(s)][c]),
         Goes(s, c, ep[s][c], t2, ep[Peer(s)][c], Gone(s)),
         Spends(s, c, t2, ep[Peer(s)][c]) <= Spends(s, c, ep[s][c], ep[Peer(s)][c]),
         Leaves(s, c, ep[s][c], t2, ep[Peer(s)][c], 0),
         s = "ctl" => (t2.phase = "relay" => ep[s][c].phase = "relay"),
         s = "tgt" => ep[s][c].phase # "none"
  PROVE  MuxInv'
  <1> DEFINE p == Peer(s)
             t == ep[s][c]
             r == ep[p][c]
  <1>0. TypeOK /\ Channel(c) /\ \A d \in Channels : Channel(d)
    BY DEF MuxInv
  <1>1. TypeOK'
    BY <1>0, TypeKeeps DEF TypeOK
  <1>2. \A x \in Sides : Stream(x)' = Stream(x) /\ Ctrl(x)' = Ctrl(x)
       /\ Announces(x, c)' = Announces(x, c)
    BY DEF Stream, Ctrl, Announces
  <1>3. p \in Sides /\ p # s /\ Peer(p) = s
    BY Others
  <1>4. /\ t \in Tasks /\ r \in Tasks /\ Stream(s) \in Seq(Frames)
        /\ Announces(p, c) \in Nat /\ Announces(s, c) \in Nat
    BY <1>0, ChannelParts DEF Announces
  <1>5. Direction(s, c, t2, r, Stream(s), Ctrl(s), Gone(s), Hears(p, c), Admits(p, c), Announces(p, c))
    <2>1. Direction(s, c, t, r, Stream(s), Ctrl(s), Gone(s), Hears(p, c), Admits(p, c), Announces(p, c))
      BY <1>0 DEF Channel, Announces
    <2>2. Buffers(c, r)
      BY <1>0, <1>3 DEF Channel, Sane
    <2>3. Spends(s, c, t2, r) + Announces(p, c) <= Spends(s, c, t, r) + Announces(p, c)
      <3>1. Spends(s, c, t2, r) \in Nat /\ Spends(s, c, t, r) \in Nat
        BY <1>4, SpendsNat
      <3> QED BY <1>4, <3>1
    <2> QED BY <1>4, <2>1, <2>2, <2>3, SenderGoes
  <1>6. Spends(p, c, r, t2) + Announces(s, c)' + Admitted(p, t) <= Spends(p, c, r, t) + Announces(s, c) + Admitted(p, t2)
    <2>1. Spends(p, c, r, t2) + 0 + Admitted(p, t) <= Spends(p, c, r, t) + Admitted(p, t2)
      BY DEF Leaves
    <2>2. Spends(p, c, r, t) \in Nat /\ Spends(p, c, r, t2) \in Nat /\ Admitted(p, t) \in Nat
         /\ Admitted(p, t2) \in Nat
      BY <1>3, <1>4, SpendsNat
    <2> QED BY <1>2, <1>4, <2>1, <2>2
  <1>7. Opening(c, ep["ctl"][c], ep["tgt"][c], Stream("ctl"), Gone("ctl"), Gone("tgt"))'
    <2>1. t2.phase # "none" /\ (Begun(t) => Begun(t2)) /\ Stream("ctl")' = Stream("ctl")
      BY <1>2 DEF Turns, Goes, Sides
    <2> QED BY <1>0, <2>1, OpeningKeeps
  <1>8. \A d \in Channels : d # c => Alike(d, Stream(s), Stream(s)') /\ Alike(d, Ctrl(s), Ctrl(s)')
    BY <1>2, AlikeSame
  <1>9. \A d \in Channels : Channel(d)'
    BY <1>0, <1>1, <1>2, <1>3, <1>5, <1>6, <1>7, <1>8, TurnKeeps
  <1>10. \A m \in Range(ctrlQ') : m.kind = "update"
    BY DEF MuxInv
  <1> QED BY <1>1, <1>9, <1>10 DEF MuxInv

\* The task puts frame m on the ordered queue.
LEMMA PutKeeps ==
  ASSUME MuxInv, NEW s \in Sides, NEW c \in Channels, NEW t2 \in Tasks, NEW m,
         ep' = [ep EXCEPT ![s][c] = t2], UNCHANGED <<entries, ctrlQ, wire, tunnel>>,
         ~Gone(s), Room(s), send_ordered(s, m),
         Turns(s, c, ep[s][c], t2, ep[Peer(s)][c]),
         Puts(s, c, ep[s][c], t2, m),
         Spends(s, c, t2, ep[Peer(s)][c]) + Charges(c, <<m>>) <= Spends(s, c, ep[s][c], ep[Peer(s)][c]),
         Leaves(s, c, ep[s][c], t2, ep[Peer(s)][c], Updates(c, <<m>>)),
         s = "ctl" => IF m.kind = "open" THEN ep[s][c].phase = "opening"
                      ELSE /\ Begun(ep[s][c])
                           /\ (t2.phase = "relay" \/ m.kind = "data") => ep[s][c].phase = "relay",
         s = "tgt" => ep[s][c].phase # "none" /\ Begun(ep[s][c])
  PROVE  MuxInv'
  <1> DEFINE p == Peer(s)
             t == ep[s][c]
             r == ep[p][c]
  <1>0. TypeOK /\ Channel(c) /\ \A d \in Channels : Channel(d)
    BY DEF MuxInv
  <1>a. m \in Frames /\ m.c = c /\ <<m>> \in Seq(Frames)
    <2>1. m \in Frames /\ m.c = c
      BY DEF Puts
    <2> QED BY <2>1
  <1>b. p \in Sides /\ p # s /\ Peer(p) = s
    BY Others
  <1>c. /\ dataQ' \in [Sides -> Seq(Frames)] /\ dataQ'[s] = Append(dataQ[s], m)
             /\ dataQ'[p] = dataQ[p]
    BY <1>0, <1>a, <1>b DEF TypeOK, send_ordered
  <1>1. TypeOK'
    <2>1. Len(dataQ'["ctl"]) <= DATA_QUEUE_FRAMES
      <3>1. dataQ["ctl"] \in Seq(Frames) /\ Len(dataQ["ctl"]) <= DATA_QUEUE_FRAMES
           /\ DATA_QUEUE_FRAMES \in Nat
        BY <1>0 DEF TypeOK, Sides, MuxInv, MuxAssumption
      <3>2. CASE s = "ctl"
        <4>1. Len(dataQ["ctl"]) < DATA_QUEUE_FRAMES
          BY <3>2 DEF Room
        <4> QED BY <1>a, <1>c, <3>1, <3>2, <4>1
      <3>3. CASE s # "ctl"
        <4>1. p = "ctl"
          BY <3>3 DEF Peer
        <4> QED BY <1>c, <3>1, <4>1
      <3> QED BY <3>2, <3>3
    <2> QED BY <1>0, <1>c, <2>1, TypeKeeps DEF TypeOK
  <1>2. /\ Stream(s)' = Stream(s) \o <<m>> /\ Ctrl(s)' = Ctrl(s)
        /\ Stream(p)' = Stream(p) /\ Ctrl(p)' = Ctrl(p)
    <2>1. wire[s] \in Seq(Frames) /\ dataQ[s] \in Seq(Frames)
      BY <1>0 DEF TypeOK
    <2>2. wire[s] \o Append(dataQ[s], m) = (wire[s] \o dataQ[s]) \o <<m>>
      <3>1. Append(dataQ[s], m) = dataQ[s] \o <<m>>
        BY <1>a, <2>1, QueueLaws
      <3>2. wire[s] \o (dataQ[s] \o <<m>>) = (wire[s] \o dataQ[s]) \o <<m>>
        BY <1>a, <2>1, ThreeQueues, Zenon
      <3> QED BY <3>1, <3>2
    <2> QED BY <1>c, <2>2 DEF Stream, Ctrl
  <1>4. /\ t \in Tasks /\ r \in Tasks /\ Stream(s) \in Seq(Frames)
             /\ Stream(p) \in Seq(Frames) /\ Ctrl(s) \in Seq(Frames)
        /\ Announces(p, c) \in Nat /\ Announces(s, c) \in Nat /\ Updates(c, <<m>>) \in Nat
    <2>1. Updates(c, <<m>>) \in Nat
      BY <1>a, CountsConcat
    <2> QED BY <1>0, <2>1, ChannelParts DEF Announces
  <1>5. Direction(s, c, t2, r, Stream(s)', Ctrl(s)', Gone(s), Hears(p, c), Admits(p, c), Announces(p, c))
    <2>1. Direction(s, c, t, r, Stream(s), Ctrl(s), Gone(s), Hears(p, c), Admits(p, c), Announces(p, c))
      BY <1>0 DEF Channel, Announces
    <2>2. Buffers(c, r)
      BY <1>0, <1>b DEF Channel, Sane
    <2>3. Gone(s) = FALSE
      BY DEF Gone
    <2>4. Direction(s, c, t2, r, Stream(s) \o <<m>>, Ctrl(s), FALSE, Hears(p, c), Admits(p, c), Announces(p, c))
      BY <1>4, <2>1, <2>2, <2>3, SenderPuts
    <2> QED BY <1>2, <2>3, <2>4
  <1>6. Spends(p, c, r, t2) + Announces(s, c)' + Admitted(p, t) <= Spends(p, c, r, t) + Announces(s, c) + Admitted(p, t2)
    <2>1. Spends(p, c, r, t2) + Updates(c, <<m>>) + Admitted(p, t) <= Spends(p, c, r, t) + Admitted(p, t2)
      BY DEF Leaves
    <2>2. Spends(p, c, r, t) \in Nat /\ Spends(p, c, r, t2) \in Nat /\ Admitted(p, t) \in Nat
         /\ Admitted(p, t2) \in Nat
      BY <1>b, <1>4, SpendsNat
    <2>3. Updates(c, Stream(s) \o <<m>>) = Updates(c, Stream(s)) + Updates(c, <<m>>)
         /\ Updates(c, Stream(s)) \in Nat
      BY <1>a, <1>4, CountsConcat
    <2>4. Updates(c, Ctrl(s)) \in Nat
      BY <1>4, CountsConcat
    <2>5. Announces(s, c)' = Announces(s, c) + Updates(c, <<m>>)
      BY <1>2, <1>4, <2>3, <2>4 DEF Announces
    <2> QED BY <1>4, <2>1, <2>2, <2>5
  <1>7. Opening(c, ep["ctl"][c], ep["tgt"][c], Stream("ctl"), Gone("ctl"), Gone("tgt"))'
    <2>1. t2.phase # "none" /\ Begun(t2)
      BY DEF Turns, Puts
    <2>2. CASE s = "ctl"
      <3>1. ep'["ctl"][c] = t2 /\ ep'["tgt"][c] = ep["tgt"][c] /\ p = "tgt"
        BY <1>0, <2>2 DEF TypeOK, Sides, Peer
      <3>2. Opening(c, t, r, Stream("ctl"), FALSE, Gone("tgt"))
        BY <1>0, <2>2, <3>1 DEF Channel, Gone
      <3>3. Opening(c, t2, r, Stream("ctl") \o <<m>>, FALSE, Gone("tgt"))
        BY <1>a, <1>4, <2>1, <2>2, <3>2, OpeningPuts
      <3>4. Gone("ctl")' = FALSE /\ Gone("tgt")' = Gone("tgt")
        BY <2>2 DEF Gone
      <3> QED BY <1>2, <2>2, <3>1, <3>3, <3>4
    <2>3. CASE s = "tgt"
      <3>1. Stream("ctl")' = Stream("ctl")
        BY <1>2, <2>3 DEF Peer
      <3> QED BY <1>0, <2>1, <2>3, <3>1, OpeningKeeps
    <2> QED BY <2>2, <2>3 DEF Sides
  <1>8. \A d \in Channels : d # c => Alike(d, Stream(s), Stream(s)') /\ Alike(d, Ctrl(s), Ctrl(s)')
    BY <1>a, <1>2, <1>4, AlikeSame, AlikeEnds
  <1>d. Enters(s, c, t)
    BY DEF Enters
  <1>9. \A d \in Channels : Channel(d)'
    BY <1>0, <1>1, <1>2, <1>b, <1>5, <1>6, <1>7, <1>8, <1>d, TurnKeeps
  <1>10. \A x \in Range(ctrlQ') : x.kind = "update"
    BY DEF MuxInv
  <1> QED BY <1>1, <1>9, <1>10 DEF MuxInv

\* The controller's task puts an update on the control queue.
LEMMA NoteKeeps ==
  ASSUME MuxInv, NEW c \in Channels, NEW t2 \in Tasks, NEW m \in Frames,
         ep' = [ep EXCEPT !["ctl"][c] = t2], UNCHANGED <<entries, dataQ, wire, tunnel>>,
         ctrlQ' = Append(ctrlQ, m), m.kind = "update", m.c = c,
         Turns("ctl", c, ep["ctl"][c], t2, ep["tgt"][c]),
         Goes("ctl", c, ep["ctl"][c], t2, ep["tgt"][c], Gone("ctl")),
         Begun(ep["ctl"][c]), t2.phase = "relay" => ep["ctl"][c].phase = "relay",
         Spends("ctl", c, t2, ep["tgt"][c]) <= Spends("ctl", c, ep["ctl"][c], ep["tgt"][c]),
         Leaves("ctl", c, ep["ctl"][c], t2, ep["tgt"][c], m.len)
  PROVE  MuxInv'
  <1> DEFINE s == "ctl"
             p == "tgt"
             t == ep[s][c]
             r == ep[p][c]
  <1>0. TypeOK /\ Channel(c) /\ \A d \in Channels : Channel(d)
    BY DEF MuxInv
  <1>a. /\ s \in Sides /\ p \in Sides /\ Peer(s) = p /\ Peer(p) = s
        /\ <<m>> \in Seq(Frames) /\ ctrlQ \in Seq(Frames)
    BY <1>0 DEF Sides, Peer, TypeOK
  <1>c. ctrlQ' = ctrlQ \o <<m>> /\ ctrlQ' \in Seq(Frames) /\ Range(ctrlQ') = Range(ctrlQ) \cup {m}
    <2>1. ctrlQ' = ctrlQ \o <<m>> /\ ctrlQ' \in Seq(Frames)
      BY <1>a, AppendIsConcat
    <2> QED BY <1>a, <2>1, RangeConcat, RangeSmall
  <1>1. TypeOK'
    BY <1>0, <1>a, <1>c, TypeKeeps DEF TypeOK
  <1>2. /\ Stream(s)' = Stream(s) /\ Ctrl(s)' = Ctrl(s) \o <<m>>
        /\ Stream(p)' = Stream(p) /\ Ctrl(p)' = Ctrl(p)
    BY <1>c DEF Stream, Ctrl
  <1>4. /\ t \in Tasks /\ r \in Tasks /\ Stream(s) \in Seq(Frames) /\ Ctrl(s) \in Seq(Frames)
        /\ Announces(p, c) \in Nat /\ Announces(s, c) \in Nat /\ m.len \in Nat
        /\ Updates(c, Stream(s)) \in Nat /\ Updates(c, Ctrl(s)) \in Nat
    <2>1. m.len \in Nat
      BY WindowAssumption DEF Frames
    <2> QED BY <1>0, <1>a, <2>1, ChannelParts DEF Announces
  <1> HIDE DEF s, p
  <1>5. Direction(s, c, t2, r, Stream(s)', Ctrl(s)', Gone(s), Hears(p, c), Admits(p, c), Announces(p, c))
    <2>1. Direction(s, c, t, r, Stream(s), Ctrl(s), Gone(s), Hears(p, c), Admits(p, c), Announces(p, c))
      BY <1>0, <1>a DEF Channel, Announces
    <2>2. Buffers(c, r)
      BY <1>0, <1>a DEF Channel, Sane
    <2>3. Spends(s, c, t2, r) + Announces(p, c) <= Spends(s, c, t, r) + Announces(p, c)
      <3>1. Spends(s, c, t2, r) \in Nat /\ Spends(s, c, t, r) \in Nat
        BY <1>a, <1>4, SpendsNat
      <3>2. Spends(s, c, t2, r) <= Spends(s, c, t, r)
        BY DEF s, p
      <3> QED BY <1>4, <3>1, <3>2
    <2>4. Goes(s, c, t, t2, r, Gone(s))
      BY DEF s, p
    <2>5. Direction(s, c, t2, r, Stream(s), Ctrl(s), Gone(s), Hears(p, c), Admits(p, c), Announces(p, c))
      BY <1>a, <1>4, <2>1, <2>2, <2>3, <2>4, SenderGoes
    <2>6. Named(c, t2, Ctrl(s)')
      <3>1. Range(Ctrl(s)') = Range(Ctrl(s)) \cup {m}
        BY <1>c DEF Ctrl, s
      <3>2. Begun(t2)
        BY DEF Goes, s, p
      <3> QED BY <2>5, <3>1, <3>2 DEF Direction, Named
    <2> QED BY <1>2, <2>5, <2>6 DEF Direction
  <1>6. Spends(p, c, r, t2) + Announces(s, c)' + Admitted(p, t) <= Spends(p, c, r, t) + Announces(s, c) + Admitted(p, t2)
    <2>1. Spends(p, c, r, t2) + m.len + Admitted(p, t) <= Spends(p, c, r, t) + Admitted(p, t2)
      BY <1>a DEF Leaves, s, p
    <2>2. Spends(p, c, r, t) \in Nat /\ Spends(p, c, r, t2) \in Nat /\ Admitted(p, t) \in Nat
         /\ Admitted(p, t2) \in Nat
      BY <1>a, <1>4, SpendsNat
    <2>3. Updates(c, Ctrl(s) \o <<m>>) = Updates(c, Ctrl(s)) + Updates(c, <<m>>)
      BY <1>a, <1>4, CountsConcat
    <2>4. Updates(c, <<m>>) = m.len
      BY CountsSmall
    <2>5. Announces(s, c)' = Announces(s, c) + m.len
      BY <1>2, <1>4, <2>3, <2>4 DEF Announces
    <2> QED BY <1>4, <2>1, <2>2, <2>5, SMTT(30)
  <1>7. Opening(c, ep["ctl"][c], ep["tgt"][c], Stream("ctl"), Gone("ctl"), Gone("tgt"))'
    <2>1. t2.phase # "none" /\ (Begun(t) => Begun(t2)) /\ Stream("ctl")' = Stream("ctl")
      BY <1>2 DEF Turns, Goes, s, p
    <2>2. s = "ctl" /\ s # "tgt"
      BY DEF s
    <2> QED BY <1>0, <1>a, <2>1, <2>2, OpeningKeeps
  <1>8. \A d \in Channels : d # c => Alike(d, Stream(s), Stream(s)') /\ Alike(d, Ctrl(s), Ctrl(s)')
    BY <1>a, <1>2, <1>4, AlikeSame, AlikeEnds
  <1>d. Enters(s, c, t)
    BY DEF Enters
  <1>e. Turns(s, c, t, t2, r) /\ ep' = [ep EXCEPT ![s][c] = t2]
    BY DEF s, p
  <1>9. \A d \in Channels : Channel(d)'
    BY <1>0, <1>1, <1>2, <1>a, <1>5, <1>6, <1>7, <1>8, <1>d, <1>e, TurnKeeps
  <1>10. \A x \in Range(ctrlQ') : x.kind = "update"
    BY <1>c DEF MuxInv
  <1> QED BY <1>1, <1>9, <1>10 DEF MuxInv

-----------------------------------------------------------------------------
(* The sender's half of a task: what it does leaves the receiver's alone. *)

\* Only the sender's fields of t have changed.
SendsOnly(t, t2) ==
  t2 = [t EXCEPT !.up = t2.up, !.upEnd = t2.upEnd, !.allow = t2.allow, !.frame = t2.frame,
                 !.sent = t2.sent, !.credit = t2.credit]

LEMMA SameFields ==
  ASSUME NEW t \in Tasks, NEW t2 \in Tasks, SendsOnly(t, t2)
  PROVE  /\ t2.phase = t.phase /\ t2.cancel = t.cancel
         /\ t2.down = t.down /\ t2.downEnd = t.downEnd /\ t2.chunk = t.chunk /\ t2.pend = t.pend
         /\ t2.inbound = t.inbound /\ t2.remaining = t.remaining /\ t2.drained = t.drained
         /\ t2.granted = t.granted /\ t2.opened = t.opened /\ t2.written = t.written
              /\ t2.overran = t.overran
  BY ZenonT(30) DEF SendsOnly, Tasks

LEMMA SendsOnlyTurns ==
  ASSUME MuxInv, NEW s \in Sides, NEW c \in Channels, NEW t2 \in Tasks,
         SendsOnly(ep[s][c], t2), Relays(t2), Buffers(c, t2), ep[s][c].phase # "none"
  PROVE  /\ Turns(s, c, ep[s][c], t2, ep[Peer(s)][c])
         /\ Leaves(s, c, ep[s][c], t2, ep[Peer(s)][c], 0)
  <1> DEFINE t == ep[s][c]
             r == ep[Peer(s)][c]
  <1>1. /\ t \in Tasks /\ r \in Tasks /\ Channel(c)
    BY ChannelParts DEF MuxInv
  <1>2. /\ t2.phase = t.phase /\ t2.down = t.down /\ t2.downEnd = t.downEnd /\ Holds(t2) = Holds(t)
        /\ t2.inbound = t.inbound /\ t2.remaining = t.remaining /\ t2.drained = t.drained
        /\ t2.granted = t.granted /\ t2.written = t.written
    BY <1>1, SameFields DEF Holds
  <1>3. Sane(s, c, t2)
    BY <1>1, <1>2 DEF Sane, Windows, Window, Channel
  <1>4. Hearkens(c, r, t2)
    <2>1. Held(c, r, t) /\ Finals(c, r, t, Stream(Peer(s)))
      BY <1>1, Others DEF Channel, Direction
    <2> QED BY <1>2, <2>1 DEF Hearkens, Held, Finals
  <1>5. Leaves(s, c, t, t2, r, 0)
    <2>1. Spends(Peer(s), c, r, t2) = Spends(Peer(s), c, r, t)
         /\ Admitted(Peer(s), t2) = Admitted(Peer(s), t)
      BY <1>2 DEF Spends, Admitted, Lift
    <2>2. Spends(Peer(s), c, r, t) \in Nat /\ Admitted(Peer(s), t) \in Nat
      BY <1>1, Others, SpendsNat
    <2> QED BY <2>1, <2>2 DEF Leaves
  <1> QED BY <1>2, <1>3, <1>4, <1>5 DEF Turns, Got

LEMMA SenderKeeps ==
  ASSUME MuxInv, NEW s \in Sides, NEW c \in Channels, NEW t2 \in Tasks,
         ep' = [ep EXCEPT ![s][c] = t2], UNCHANGED <<entries, dataQ, ctrlQ, wire, tunnel>>,
         SendsOnly(ep[s][c], t2), Relays(t2), Buffers(c, t2), ep[s][c].phase # "none",
         ep[s][c].phase \in Final => t2.sent = ep[s][c].sent,
         Gone(s) \/ t2.sent + DataFrames(c, ep[s][c].frame) = ep[s][c].sent + DataFrames(c, t2.frame),
         t2.credit + t2.allow + Charges(c, t2.frame)
           <= ep[s][c].credit + ep[s][c].allow + Charges(c, ep[s][c].frame)
  PROVE  MuxInv'
  <1> DEFINE t == ep[s][c]
             r == ep[Peer(s)][c]
  <1>1. t \in Tasks /\ r \in Tasks /\ TypeOK
    BY ChannelParts DEF MuxInv
  <1>2. t2.phase = t.phase /\ t2.granted = t.granted /\ t2.opened = t.opened
    BY <1>1, SameFields
  <1>3. Goes(s, c, t, t2, r, Gone(s))
    BY <1>2 DEF Goes, Begun
  <1>4. Spends(s, c, t2, r) <= Spends(s, c, t, r)
    <2>1. t.frame \in Seq(Frames) /\ t2.frame \in Seq(Frames)
      BY <1>1 DEF Tasks
    <2>2. Charges(c, t.frame) \in Nat /\ Charges(c, t2.frame) \in Nat
      BY <2>1, CountsConcat
    <2>3. t.credit \in Nat /\ t2.credit \in Nat /\ t.allow \in Nat /\ t2.allow \in Nat
      BY <1>1, WindowAssumption, SMTT(30) DEF Tasks
    <2>4. Lift(s, t2, r) = Lift(s, t, r) /\ Lift(s, t, r) \in Nat
      BY <1>2, WindowAssumption DEF Lift
    <2> QED BY <1>2, <2>2, <2>3, <2>4 DEF Spends
  <1>5. Enters(s, c, t) /\ entries' \in [Sides -> SUBSET Channels]
    BY <1>1 DEF Enters, TypeOK
  <1> QED BY <1>2, <1>3, <1>4, <1>5, SendsOnlyTurns, QuietKeeps

LEMMA TaskTypes ==
  ASSUME NEW t \in Tasks
  PROVE  /\ t.credit \in 0..MAX_SEND_CREDIT /\ t.credit \in Nat /\ t.allow \in 0..MAX_FRAME
              /\ t.allow \in Nat
         /\ t.remaining \in 0..U32_MAX /\ t.remaining \in Nat /\ t.drained \in 0..U32_MAX
              /\ t.drained \in Nat
         /\ t.sent \in 0..MaxFrames /\ t.sent \in Nat /\ t.written \in 0..MaxFrames
              /\ t.written \in Nat
         /\ t.frame \in Seq(Frames) /\ t.chunk \in Seq(Frames) /\ t.pend \in Seq(Frames)
              /\ t.inbound \in Seq(Frames)
         /\ t.granted \in BOOLEAN /\ t.opened \in BOOLEAN
         /\ <<>> \in Seq(Frames)
  <1>1. /\ t.credit \in 0..MAX_SEND_CREDIT /\ t.allow \in 0..MAX_FRAME
        /\ t.remaining \in 0..U32_MAX /\ t.drained \in 0..U32_MAX
        /\ t.sent \in 0..MaxFrames /\ t.written \in 0..MaxFrames
        /\ t.frame \in Seq(Frames) /\ t.chunk \in Seq(Frames) /\ t.pend \in Seq(Frames)
             /\ t.inbound \in Seq(Frames)
        /\ t.granted \in BOOLEAN /\ t.opened \in BOOLEAN
    BY DEF Tasks
  <1>2. <<>> \in Seq(Frames)
    OBVIOUS
  <1> QED BY <1>1, <1>2, WindowAssumption

LEMMA EndUpFields ==
  ASSUME NEW t \in Tasks, NEW n \in 0..MAX_SEND_CREDIT, NEW why \in {"LocalEof", "Cancelled", "TunnelGone"}
  PROVE  LET t2 == EndUp([t EXCEPT !.credit = n], why) IN
         /\ t2 \in Tasks /\ SendsOnly(t, t2)
         /\ t2.up = "ended" /\ t2.allow = 0 /\ t2.frame = <<>> /\ t2.sent = t.sent /\ t2.credit = n
  <1> DEFINE t1 == [t EXCEPT !.credit = n]
             t2 == [t1 EXCEPT !.up = "ended", !.upEnd = why, !.allow = 0, !.frame = <<>>]
  <1>0. 0 \in 0..MAX_FRAME /\ <<>> \in Seq(Frames)
    BY WindowAssumption
  <1>1. t1 \in Tasks
    BY DEF Tasks
  <1>2. t2 \in Tasks
    <2> HIDE DEF t1
    <2> QED BY <1>0, <1>1 DEF Tasks
  <1>3. t2.up = "ended" /\ t2.allow = 0 /\ t2.frame = <<>> /\ t2.sent = t.sent
       /\ t2.credit = n /\ SendsOnly(t, t2)
    BY DEF Tasks, SendsOnly
  <1> QED BY <1>2, <1>3 DEF EndUp

LEMMA TaskFacts ==
  ASSUME MuxInv, NEW s \in Sides, NEW c \in Channels
  PROVE  /\ ep[s][c] \in Tasks /\ Relays(ep[s][c]) /\ Buffers(c, ep[s][c])
              /\ Windows(s, c, ep[s][c])
         /\ ep[s][c].phase = "none" => ep[s][c] = NoTask
         /\ ep \in [Sides -> [Channels -> Tasks]]
  <1>1. ep[s][c] \in Tasks /\ Channel(c) /\ TypeOK
    BY ChannelParts DEF MuxInv
  <1> QED BY <1>1 DEF Channel, Sane, Relays, TypeOK

LEMMA UpTakeKeeps ==
  ASSUME MuxInv, NEW s \in Sides, NEW c \in Channels, UpTake(s, c)
  PROVE  MuxInv'
  <1> DEFINE t == ep[s][c]
             n == taken(t.credit)
             t2 == [t EXCEPT !.up = "read", !.allow = n, !.credit = @ - n]
  <1>1. t \in Tasks /\ Relays(t) /\ Buffers(c, t) /\ (t.phase = "none" => t = NoTask)
       /\ ep \in [Sides -> [Channels -> Tasks]]
    BY TaskFacts
  <1>2. t.up = "take" /\ t.credit >= MIN_FRAME_CHARGE
    BY DEF UpTake
  <1>3. n \in Nat /\ MIN_FRAME_CHARGE <= n /\ n <= MAX_FRAME /\ n <= t.credit
       /\ t.credit \in 0..MAX_SEND_CREDIT /\ n <= MAX_SEND_CREDIT
    <2>1. t.credit \in 0..MAX_SEND_CREDIT
      BY <1>1 DEF Tasks
    <2> QED BY <1>2, <2>1, WindowAssumption DEF taken, AtMost
  <1> HIDE DEF n
  <1>4. t2 \in Tasks
    <2>1. t.credit - n \in 0..MAX_SEND_CREDIT /\ n \in 0..MAX_FRAME
      BY <1>3, WindowAssumption
    <2> QED BY <1>1, <2>1 DEF Tasks
  <1>5. ep' = [ep EXCEPT ![s][c] = t2]
    BY <1>1 DEF UpTake, n
  <1>6. SendsOnly(t, t2) /\ t2.frame = t.frame /\ t2.sent = t.sent
       /\ t2.credit + t2.allow = t.credit + t.allow
    <2>1. t.allow = 0
      BY <1>1, <1>2 DEF Relays
    <2>2. t2.frame = t.frame /\ t2.sent = t.sent /\ t2.allow = n /\ t2.credit = t.credit - n
      BY <1>1 DEF Tasks
    <2>3. SendsOnly(t, t2)
      BY <1>1 DEF SendsOnly, Tasks
    <2>4. t.credit - n + n = t.credit + 0
      BY <1>3
    <2> QED BY <2>1, <2>2, <2>3, <2>4
  <1>7. t.phase # "none"
    BY <1>1, <1>2 DEF NoTask
  <1>8. Relays(t2)
    BY <1>1, <1>2, <1>3, <1>7 DEF Relays, Tasks
  <1>9. Buffers(c, t2)
    BY <1>1, <1>2 DEF Buffers, Tasks
  <1>10. UNCHANGED <<entries, dataQ, ctrlQ, wire, tunnel>>
    BY DEF UpTake
  <1>11. /\ t2.sent + DataFrames(c, t.frame) = t.sent + DataFrames(c, t2.frame)
         /\ t2.credit + t2.allow + Charges(c, t2.frame) <= t.credit + t.allow + Charges(c, t.frame)
    <2>1. t.frame \in Seq(Frames) /\ t.credit \in Nat /\ t.allow \in Nat
      BY <1>1, WindowAssumption DEF Tasks
    <2>2. Charges(c, t.frame) \in Nat
      BY <2>1, CountsConcat
    <2> HIDE DEF t2
    <2> QED BY <1>6, <2>1, <2>2
  <1> HIDE DEF t2
  <1> QED BY <1>4, <1>5, <1>6, <1>7, <1>8, <1>9, <1>10, <1>11, SenderKeeps

LEMMA CreditFacts ==
  ASSUME NEW credit \in 0..MAX_SEND_CREDIT, NEW n \in Nat
  PROVE  add_credit(credit, n) \in 0..MAX_SEND_CREDIT /\ add_credit(credit, n) <= credit + n
  BY WindowAssumption DEF add_credit, saturating_add, AtMost

LEMMA RefundFacts ==
  ASSUME NEW allow \in Nat, NEW got \in Nat
  PROVE  /\ refund(allow, got) \in Nat /\ refund(allow, got) <= allow /\ charge(got) \in Nat
         /\ got # 0 /\ got <= allow /\ MIN_FRAME_CHARGE <= allow
              => refund(allow, got) + charge(got) = allow
  BY WindowAssumption DEF refund, charge, AtLeast

LEMMA UpReadKeeps ==
  ASSUME MuxInv, NEW s \in Sides, NEW c \in Channels, NEW got \in Lens, UpRead(s, c, got)
  PROVE  MuxInv'
  <1> DEFINE t == ep[s][c]
             m == Frame("data", c, got, t.sent + 1)
             n == add_credit(t.credit, refund(t.allow, got))
             t2 == [t EXCEPT !.up = "send", !.allow = 0, !.sent = t.sent + 1, !.credit = n, !.frame = <<m>>]
  <1>1. t \in Tasks /\ Relays(t) /\ Buffers(c, t) /\ (t.phase = "none" => t = NoTask)
       /\ ep \in [Sides -> [Channels -> Tasks]]
    BY TaskFacts
  <1>2. /\ t.up = "read" /\ got <= t.allow /\ t.sent < MaxFrames
        /\ ep' = [ep EXCEPT ![s][c] = t2] /\ UNCHANGED <<entries, dataQ, ctrlQ, wire, tunnel>>
    BY DEF UpRead
  <1>3. /\ t.credit \in 0..MAX_SEND_CREDIT /\ t.allow \in Nat /\ t.sent \in 0..MaxFrames
             /\ t.frame = <<>>
        /\ MIN_FRAME_CHARGE <= t.allow /\ t.allow <= MAX_SEND_CREDIT
        /\ got \in 1..MAX_FRAME /\ got \in Nat /\ got # 0 /\ MaxFrames \in Nat
    <2>1. got \in 1..MAX_FRAME /\ MaxFrames \in Nat
      BY DEF MuxInv, MuxAssumption
    <2>2. t.frame = <<>> /\ MIN_FRAME_CHARGE <= t.allow /\ t.allow <= MAX_SEND_CREDIT
      BY <1>1, <1>2 DEF Relays, Buffers
    <2>3. got \in Nat /\ got # 0
      BY <2>1, WindowAssumption
    <2> QED BY <1>1, <2>1, <2>2, <2>3, TaskTypes
  <1>4. m \in Frames /\ Payload(m, c) /\ m.seq = t.sent + 1 /\ t.sent + 1 \in 0..MaxFrames
       /\ m.len = got
    <2>1. got \in 0..U32_MAX /\ t.sent + 1 \in 0..MaxFrames
      <3>1. t.sent + 1 \in 0..MaxFrames
        BY <1>2, <1>3
      <3>2. got <= MAX_SEND_CREDIT /\ MAX_SEND_CREDIT <= U32_MAX /\ U32_MAX \in Nat
           /\ MAX_SEND_CREDIT \in Nat
        BY <1>2, <1>3, WindowAssumption
      <3> QED BY <1>3, <3>1, <3>2
    <2> QED BY <1>3, <2>1 DEF Frame, Frames, Payload, IsData
  <1>5. n \in 0..MAX_SEND_CREDIT /\ n + charge(got) <= t.credit + t.allow /\ charge(got) \in Nat
    <2>1. refund(t.allow, got) \in Nat /\ charge(got) \in Nat
         /\ refund(t.allow, got) + charge(got) = t.allow
      BY <1>2, <1>3, RefundFacts
    <2>2. n \in 0..MAX_SEND_CREDIT /\ n <= t.credit + refund(t.allow, got)
      BY <1>3, <2>1, CreditFacts
    <2> HIDE DEF n
    <2>3. t.credit \in Nat /\ t.allow \in Nat /\ n \in Nat
      BY <1>3, <2>2, WindowAssumption
    <2> QED BY <2>1, <2>2, <2>3
  <1> HIDE DEF m, n
  <1>6. t2 \in Tasks
    <2>1. <<m>> \in Seq(Frames) /\ 0 \in 0..MAX_FRAME
      BY <1>4, WindowAssumption
    <2> QED BY <1>1, <1>4, <1>5, <2>1 DEF Tasks
  <1>7. t2.frame = <<m>> /\ t2.sent = t.sent + 1 /\ t2.credit = n /\ t2.allow = 0 /\ t2.up = "send"
    BY <1>1 DEF Tasks
  <1>8. SendsOnly(t, t2)
    BY <1>1, ZenonT(30) DEF SendsOnly, Tasks
  <1>9. t.phase # "none" /\ t.phase \notin Final
    BY <1>1, <1>2 DEF NoTask, Relays, Final
  <1>10. Relays(t2)
    BY <1>1, <1>2, <1>9 DEF Relays, Tasks
  <1>11. Buffers(c, t2)
    BY <1>1, <1>4 DEF Buffers, Tasks
  <1> HIDE DEF t2
  <1>12. /\ t2.sent + DataFrames(c, t.frame) = t.sent + DataFrames(c, t2.frame)
         /\ t2.credit + t2.allow + Charges(c, t2.frame) <= t.credit + t.allow + Charges(c, t.frame)
    <2>1. /\ DataFrames(c, t.frame) = 0 /\ DataFrames(c, t2.frame) = 1
          /\ Charges(c, t.frame) = 0 /\ Charges(c, t2.frame) = charge(got)
      BY <1>3, <1>4, <1>7, CountsSmall DEF Payload
    <2> QED BY <1>3, <1>5, <1>7, <2>1
  <1> QED BY <1>2, <1>6, <1>8, <1>9, <1>10, <1>11, <1>12, SenderKeeps

\* The sender's half ends: by itself, or cancelled.
LEMMA EndUpKeeps ==
  ASSUME MuxInv, NEW s \in Sides, NEW c \in Channels,
         NEW n \in 0..MAX_SEND_CREDIT, NEW why \in {"LocalEof", "Cancelled", "TunnelGone"},
         ep[s][c].up \in {"take", "read", "send"}, ep[s][c].up # "send" \/ Gone(s),
         n <= ep[s][c].credit + ep[s][c].allow,
         ep' = [ep EXCEPT ![s][c] = EndUp([ep[s][c] EXCEPT !.credit = n], why)],
         UNCHANGED <<entries, dataQ, ctrlQ, wire, tunnel>>
  PROVE  MuxInv'
  <1> DEFINE t == ep[s][c]
             t2 == EndUp([t EXCEPT !.credit = n], why)
  <1>1. t \in Tasks /\ Relays(t) /\ Buffers(c, t) /\ (t.phase = "none" => t = NoTask)
    BY TaskFacts
  <1>2. /\ t2 \in Tasks /\ SendsOnly(t, t2)
        /\ t2.up = "ended" /\ t2.allow = 0 /\ t2.frame = <<>> /\ t2.sent = t.sent /\ t2.credit = n
    BY <1>1, EndUpFields
  <1>a. ep' = [ep EXCEPT ![s][c] = t2]
    OBVIOUS
  <1> HIDE DEF t2
  <1>b. /\ t2.phase = t.phase /\ t2.down = t.down /\ t2.downEnd = t.downEnd /\ t2.chunk = t.chunk
        /\ t2.pend = t.pend /\ t2.inbound = t.inbound /\ t2.overran = t.overran
    BY <1>1, <1>2, SameFields
  <1>3. t.phase # "none"
    BY <1>1 DEF NoTask
  <1>4. Relays(t2)
    BY <1>1, <1>2, <1>3, <1>b DEF Relays
  <1>5. Buffers(c, t2)
    BY <1>1, <1>2, <1>b DEF Buffers
  <1>6. /\ t.frame \in Seq(Frames) /\ t.credit \in Nat /\ t.allow \in Nat /\ t.sent \in Nat
             /\ n \in Nat
        /\ t.up # "send" => t.frame = <<>>
    BY <1>1, TaskTypes DEF Buffers
  <1>7. /\ Gone(s) \/ t2.sent + DataFrames(c, t.frame) = t.sent + DataFrames(c, t2.frame)
        /\ t2.credit + t2.allow + Charges(c, t2.frame) <= t.credit + t.allow + Charges(c, t.frame)
    <2>1. Charges(c, t.frame) \in Nat /\ Charges(c, <<>>) = 0 /\ DataFrames(c, <<>>) = 0
      BY <1>6, CountsConcat, CountsSmall
    <2>2. n + 0 + 0 <= t.credit + t.allow + Charges(c, t.frame)
      BY <1>6, <2>1
    <2> QED BY <1>2, <1>6, <2>1, <2>2
  <1> QED BY <1>2, <1>3, <1>4, <1>5, <1>7, <1>a, SenderKeeps

LEMMA UpEofKeeps ==
  ASSUME MuxInv, NEW s \in Sides, NEW c \in Channels, UpEof(s, c)
  PROVE  MuxInv'
  <1> DEFINE t == ep[s][c]
             n == add_credit(t.credit, refund(t.allow, 0))
  <1>1. t \in Tasks /\ t.credit \in 0..MAX_SEND_CREDIT /\ t.credit \in Nat /\ t.allow \in Nat
    BY TaskFacts, TaskTypes
  <1>2. /\ t.up = "read" /\ ep' = [ep EXCEPT ![s][c] = EndUp([t EXCEPT !.credit = n], "LocalEof")]
        /\ UNCHANGED <<entries, dataQ, ctrlQ, wire, tunnel>>
    BY DEF UpEof
  <1>3. refund(t.allow, 0) \in Nat /\ refund(t.allow, 0) <= t.allow
    BY <1>1, RefundFacts
  <1>4. n \in 0..MAX_SEND_CREDIT /\ n <= t.credit + refund(t.allow, 0)
    BY <1>1, <1>3, CreditFacts
  <1> HIDE DEF n
  <1>5. n <= t.credit + t.allow
    BY <1>1, <1>3, <1>4
  <1> QED BY <1>2, <1>4, <1>5, EndUpKeeps

LEMMA UpCancelKeeps ==
  ASSUME MuxInv, NEW s \in Sides, NEW c \in Channels, UpCancel(s, c)
  PROVE  MuxInv'
  <1> DEFINE t == ep[s][c]
             n == add_credit(t.credit, t.allow)
  <1>1. t \in Tasks /\ t.credit \in 0..MAX_SEND_CREDIT /\ t.allow \in Nat
    BY TaskFacts, TaskTypes
  <1>2. /\ t.up \in {"take", "read"}
             /\ ep' = [ep EXCEPT ![s][c] = EndUp([t EXCEPT !.credit = n], "Cancelled")]
        /\ UNCHANGED <<entries, dataQ, ctrlQ, wire, tunnel>>
    BY DEF UpCancel
  <1>3. n \in 0..MAX_SEND_CREDIT /\ n <= t.credit + t.allow
    BY <1>1, CreditFacts
  <1> HIDE DEF n
  <1> QED BY <1>2, <1>3, EndUpKeeps

LEMMA UpSendKeeps ==
  ASSUME MuxInv, NEW s \in Sides, NEW c \in Channels, UpSend(s, c)
  PROVE  MuxInv'
  <1> DEFINE t == ep[s][c]
             r == ep[Peer(s)][c]
  <1>1. /\ t \in Tasks /\ Relays(t) /\ Buffers(c, t) /\ (t.phase = "none" => t = NoTask)
        /\ r \in Tasks
    BY TaskFacts, Others
  <1>2. t.up = "send" /\ UNCHANGED <<entries, ctrlQ, wire, tunnel>>
    BY DEF UpSend
  <1>3. CASE Gone(s)
    <2>1. [t EXCEPT !.credit = t.credit] = t
      BY <1>1 DEF Tasks
    <2>2. ep' = [ep EXCEPT ![s][c] = EndUp([t EXCEPT !.credit = t.credit], "TunnelGone")]
         /\ UNCHANGED dataQ
      BY <1>3, <2>1 DEF UpSend, SendOrFail
    <2>3. t.credit \in 0..MAX_SEND_CREDIT /\ t.credit <= t.credit + t.allow
      BY <1>1, TaskTypes
    <2> QED BY <1>2, <1>3, <2>2, <2>3, EndUpKeeps
  <1>4. CASE ~Gone(s)
    <2> DEFINE t2 == [t EXCEPT !.up = "take", !.frame = <<>>]
    <2>1. PICK m \in Frames : t.frame = <<m>> /\ Payload(m, c) /\ m.seq = t.sent
      BY <1>1, <1>2 DEF Buffers
    <2>2. ep' = [ep EXCEPT ![s][c] = t2] /\ Room(s) /\ send_ordered(s, m)
      BY <1>4, <2>1 DEF UpSend, SendOrFail
    <2>3. t2 \in Tasks
      <3>1. <<>> \in Seq(Frames)
        OBVIOUS
      <3> QED BY <1>1, <3>1 DEF Tasks
    <2>4. t2.frame = <<>> /\ t2.sent = t.sent /\ t2.phase = t.phase /\ t2.granted = t.granted
         /\ SendsOnly(t, t2)
          /\ t2.credit = t.credit /\ t2.allow = t.allow /\ t2.opened = t.opened
      BY <1>1 DEF Tasks, SendsOnly
    <2>5. t.phase = "relay"
      BY <1>1, <1>2 DEF NoTask, Relays, Tasks
    <2>6. Relays(t2)
      BY <1>1, <1>2, <2>5 DEF Relays, Tasks
    <2>7. Buffers(c, t2)
      BY <1>1 DEF Buffers, Tasks
    <2> HIDE DEF t2
    <2>8. Puts(s, c, t, t2, m)
      BY <2>1, <2>4, <2>5 DEF Puts, Payload, IsData, Ends, Begun, Final
    <2>9. Spends(s, c, t2, r) + Charges(c, <<m>>) <= Spends(s, c, t, r)
      <3>1. Charges(c, <<>>) = 0 /\ Charges(c, <<m>>) \in Nat
        <4>1. <<m>> \in Seq(Frames)
          OBVIOUS
        <4> QED BY <4>1, CountsConcat, CountsSmall
      <3>2. Lift(s, t2, r) = Lift(s, t, r) /\ Lift(s, t, r) \in Nat
        BY <2>4, WindowAssumption DEF Lift
      <3>3. t.credit \in Nat /\ t.allow \in Nat
        BY <1>1, TaskTypes
      <3> QED BY <2>1, <2>4, <2>5, <3>1, <3>2, <3>3 DEF Spends
    <2>10. Turns(s, c, t, t2, r) /\ Leaves(s, c, t, t2, r, 0)
      BY <2>3, <2>4, <2>5, <2>6, <2>7, SendsOnlyTurns
    <2>11. Updates(c, <<m>>) = 0 /\ m.kind = "data"
      BY <2>1, CountsSmall DEF Payload, IsData
    <2> QED BY <1>2, <1>4, <2>2, <2>3, <2>5, <2>8, <2>9, <2>10, <2>11, PutKeeps DEF Begun
  <1> QED BY <1>3, <1>4

-----------------------------------------------------------------------------
(* The receiver's half of a task. *)

\* Only the receiver's fields of t have changed.
ReceivesOnly(t, t2) ==
  t2 = [t EXCEPT !.down = t2.down, !.downEnd = t2.downEnd, !.chunk = t2.chunk, !.pend = t2.pend,
                 !.inbound = t2.inbound, !.remaining = t2.remaining, !.drained = t2.drained,
                 !.written = t2.written]

LEMMA OtherFields ==
  ASSUME NEW t \in Tasks, NEW t2 \in Tasks, ReceivesOnly(t, t2)
  PROVE  /\ t2.phase = t.phase /\ t2.cancel = t.cancel /\ t2.up = t.up /\ t2.upEnd = t.upEnd
         /\ t2.allow = t.allow /\ t2.frame = t.frame /\ t2.credit = t.credit /\ t2.sent = t.sent
         /\ t2.granted = t.granted /\ t2.opened = t.opened /\ t2.overran = t.overran
  BY ZenonT(30) DEF ReceivesOnly, Tasks

\* What the receiver's half may do to its fields.
Drains(c, t, t2, r) ==
  /\ Hearkens(c, r, t2)
  /\ t.down = "ended" => t2.down = "ended"
  /\ t2.down # "ended" => Got(c, t2) = Got(c, t)
  /\ t2.remaining + Charges(c, Holds(t2)) + t2.drained <= t.remaining + Charges(c, Holds(t)) + t.drained

LEMMA ReceivesOnlyTurns ==
  ASSUME MuxInv, NEW s \in Sides, NEW c \in Channels, NEW t2 \in Tasks,
         ReceivesOnly(ep[s][c], t2), Relays(t2), Buffers(c, t2), ep[s][c].phase # "none",
         Drains(c, ep[s][c], t2, ep[Peer(s)][c])
  PROVE  /\ Turns(s, c, ep[s][c], t2, ep[Peer(s)][c])
         /\ Goes(s, c, ep[s][c], t2, ep[Peer(s)][c], Gone(s))
         /\ Spends(s, c, t2, ep[Peer(s)][c]) = Spends(s, c, ep[s][c], ep[Peer(s)][c])
         /\ \A n \in Nat : t2.remaining >= ep[s][c].remaining + n
              => Leaves(s, c, ep[s][c], t2, ep[Peer(s)][c], n)
  <1> DEFINE t == ep[s][c]
             r == ep[Peer(s)][c]
  <1>1. t \in Tasks /\ r \in Tasks /\ Windows(s, c, t)
    BY TaskFacts, Others
  <1>2. /\ t2.phase = t.phase /\ t2.allow = t.allow /\ t2.frame = t.frame /\ t2.credit = t.credit
        /\ t2.sent = t.sent /\ t2.granted = t.granted /\ t2.opened = t.opened
    BY <1>1, OtherFields
  <1>3. Windows(s, c, t2)
    <2>1. /\ t.remaining \in Nat /\ t.drained \in Nat /\ t2.remaining \in Nat /\ t2.drained \in Nat
          /\ Charges(c, Holds(t)) \in Nat /\ Charges(c, Holds(t2)) \in Nat
      BY <1>1, TaskTypes, GotNat, CountsConcat
    <2>2. Window(s, t2) = Window(s, t) /\ Window(s, t) \in Nat
      BY <1>2, WindowAssumption DEF Window
    <2>3. t2.remaining + Charges(c, Holds(t2)) + t2.drained <= Window(s, t2)
      BY <1>1, <2>1, <2>2 DEF Windows, Drains
    <2> QED BY <1>1, <1>2, <2>3 DEF Windows
  <1>4. Turns(s, c, t, t2, r)
    BY <1>2, <1>3 DEF Turns, Sane, Drains
  <1>5. Goes(s, c, t, t2, r, Gone(s))
    BY <1>2 DEF Goes, Begun
  <1>6. Spends(s, c, t2, r) = Spends(s, c, t, r)
    BY <1>2 DEF Spends, Lift
  <1>7. ASSUME NEW n \in Nat, t2.remaining >= t.remaining + n PROVE Leaves(s, c, t, t2, r, n)
    <2>1. Spends(Peer(s), c, r, t2) = Spends(Peer(s), c, r, t)
      BY <1>2 DEF Spends, Lift
    <2>2. Spends(Peer(s), c, r, t) \in Nat
      BY <1>1, Others, SpendsNat
    <2>3. Admitted(Peer(s), t) = t.remaining /\ Admitted(Peer(s), t2) = t2.remaining
      BY <1>2 DEF Admitted
    <2>4. t.remaining \in Nat /\ t2.remaining \in Nat
      BY <1>1, TaskTypes
    <2> QED BY <1>7, <2>1, <2>2, <2>3, <2>4 DEF Leaves
  <1> QED BY <1>4, <1>5, <1>6, <1>7

LEMMA ReceiverKeeps ==
  ASSUME MuxInv, NEW s \in Sides, NEW c \in Channels, NEW t2 \in Tasks,
         ep' = [ep EXCEPT ![s][c] = t2], UNCHANGED <<entries, dataQ, ctrlQ, wire, tunnel>>,
         ReceivesOnly(ep[s][c], t2), Relays(t2), Buffers(c, t2), ep[s][c].phase # "none",
         Drains(c, ep[s][c], t2, ep[Peer(s)][c]), t2.remaining >= ep[s][c].remaining
  PROVE  MuxInv'
  <1> DEFINE t == ep[s][c]
             r == ep[Peer(s)][c]
  <1>1. t \in Tasks /\ r \in Tasks /\ TypeOK
    BY TaskFacts, Others DEF MuxInv
  <1>2. Enters(s, c, t) /\ entries' \in [Sides -> SUBSET Channels]
    BY <1>1 DEF Enters, TypeOK
  <1>3. /\ Turns(s, c, t, t2, r) /\ Goes(s, c, t, t2, r, Gone(s))
             /\ Spends(s, c, t2, r) = Spends(s, c, t, r)
        /\ Leaves(s, c, t, t2, r, 0)
    <2>1. t2.remaining >= t.remaining + 0 /\ 0 \in Nat
      BY <1>1, TaskTypes
    <2> QED BY <2>1, ReceivesOnlyTurns
  <1>4. t2.phase = t.phase /\ Spends(s, c, t, r) \in Nat
    BY <1>1, OtherFields, SpendsNat
  <1>5. Spends(s, c, t2, r) <= Spends(s, c, t, r)
    BY <1>3, <1>4
  <1> QED BY <1>2, <1>3, <1>4, <1>5, QuietKeeps

LEMMA EndDownFields ==
  ASSUME NEW t \in Tasks, NEW why \in {"LocalEof", "PeerClosed", "Violation", "Cancelled", "TunnelGone"}
  PROVE  LET t2 == EndDown(t, why) IN
         /\ t2 \in Tasks /\ ReceivesOnly(t, t2)
         /\ t2.down = "ended" /\ t2.downEnd = why /\ t2.chunk = <<>> /\ t2.pend = <<>>
              /\ t2.inbound = <<>>
         /\ t2.remaining = t.remaining /\ t2.drained = t.drained /\ t2.written = t.written
  <1> DEFINE t2 == [t EXCEPT !.down = "ended", !.downEnd = why, !.chunk = <<>>, !.pend = <<>>, !.inbound = <<>>]
  <1>0. <<>> \in Seq(Frames)
    OBVIOUS
  <1>2. t2 \in Tasks
    BY <1>0, ZenonT(30) DEF Tasks
  <1>3. /\ t2.down = "ended" /\ t2.downEnd = why /\ t2.chunk = <<>> /\ t2.pend = <<>>
             /\ t2.inbound = <<>>
        /\ t2.remaining = t.remaining /\ t2.drained = t.drained /\ t2.written = t.written
        /\ ReceivesOnly(t, t2)
    BY ZenonT(30) DEF Tasks, ReceivesOnly
  <1> QED BY <1>2, <1>3 DEF EndDown

\* The receiver's half ends.
LEMMA EndDownKeeps ==
  ASSUME MuxInv, NEW s \in Sides, NEW c \in Channels,
         NEW why \in {"LocalEof", "PeerClosed", "Violation", "Cancelled", "TunnelGone"},
         ep[s][c].down \in {"recv", "write"},
         why = "PeerClosed" => /\ ep[s][c].written = ep[Peer(s)][c].sent
                               /\ ep[Peer(s)][c].phase \in Final,
         ep' = [ep EXCEPT ![s][c] = EndDown(ep[s][c], why)],
         UNCHANGED <<entries, dataQ, ctrlQ, wire, tunnel>>
  PROVE  MuxInv'
  <1> DEFINE t == ep[s][c]
             r == ep[Peer(s)][c]
             t2 == EndDown(t, why)
  <1>1. t \in Tasks /\ Relays(t) /\ Buffers(c, t) /\ (t.phase = "none" => t = NoTask)
    BY TaskFacts
  <1>2. /\ t2 \in Tasks /\ ReceivesOnly(t, t2)
        /\ t2.down = "ended" /\ t2.downEnd = why /\ t2.chunk = <<>> /\ t2.pend = <<>>
             /\ t2.inbound = <<>>
        /\ t2.remaining = t.remaining /\ t2.drained = t.drained /\ t2.written = t.written
    BY <1>1, EndDownFields
  <1>a. ep' = [ep EXCEPT ![s][c] = t2]
    OBVIOUS
  <1> HIDE DEF t2
  <1>b. /\ t2.phase = t.phase /\ t2.up = t.up /\ t2.allow = t.allow /\ t2.frame = t.frame
             /\ t2.sent = t.sent
        /\ t2.overran = t.overran
    BY <1>1, <1>2, OtherFields
  <1>3. t.phase # "none" /\ t.phase \notin {"opening", "connecting", "granted"}
    BY <1>1 DEF NoTask, Relays
  <1>4. Relays(t2)
    BY <1>1, <1>2, <1>3, <1>b DEF Relays
  <1>5. Buffers(c, t2)
    BY <1>1, <1>2, <1>b, RangeSmall DEF Buffers
  <1>6. Drains(c, t, t2, r)
    <2>1. Hearkens(c, r, t2)
      BY <1>2, RangeSmall DEF Hearkens, Held
    <2>2. Holds(t2) = <<>>
      BY <1>2 DEF Holds
    <2>3. Charges(c, <<>>) = 0 /\ Charges(c, Holds(t)) \in Nat /\ t.remaining \in Nat
         /\ t.drained \in Nat
      BY <1>1, TaskTypes, GotNat, CountsConcat, CountsSmall
    <2>4. t.remaining + 0 + t.drained <= t.remaining + Charges(c, Holds(t)) + t.drained
      BY <2>3
    <2> QED BY <1>2, <2>1, <2>2, <2>3, <2>4 DEF Drains
  <1>7. t2.remaining >= t.remaining
    BY <1>1, <1>2, TaskTypes
  <1> QED BY <1>2, <1>3, <1>4, <1>5, <1>6, <1>7, <1>a, ReceiverKeeps

LEMMA DownGoneKeeps ==
  ASSUME MuxInv, NEW s \in Sides, NEW c \in Channels, DownGone(s, c)
  PROVE  MuxInv'
  BY EndDownKeeps DEF DownGone

LEMMA DownWriteFailsKeeps ==
  ASSUME MuxInv, NEW s \in Sides, NEW c \in Channels, DownWriteFails(s, c)
  PROVE  MuxInv'
  <1>1. ep' = [ep EXCEPT ![s][c] = EndDown(ep[s][c], "LocalEof")]
    BY TaskFacts DEF DownWriteFails
  <1> QED BY <1>1, EndDownKeeps DEF DownWriteFails

LEMMA DownCancelKeeps ==
  ASSUME MuxInv, NEW s \in Sides, NEW c \in Channels, DownCancel(s, c)
  PROVE  MuxInv'
  BY EndDownKeeps DEF DownCancel

LEMMA HeldFacts ==
  ASSUME MuxInv, NEW s \in Sides, NEW c \in Channels
  PROVE  /\ Held(c, ep[Peer(s)][c], ep[s][c]) /\ Hearkens(c, ep[Peer(s)][c], ep[s][c])
         /\ ep[Peer(s)][c] \in Tasks
  <1>1. Channel(c) /\ Peer(s) \in Sides /\ Peer(Peer(s)) = s
    BY Others DEF MuxInv
  <1>2. Held(c, ep[Peer(s)][c], ep[s][c]) /\ Finals(c, ep[Peer(s)][c], ep[s][c], Stream(Peer(s)))
    BY <1>1 DEF Channel, Direction
  <1> QED BY <1>1, <1>2, TaskFacts DEF Hearkens, Finals

\* A frame goes from one of the task's buffers to the next.
LEMMA MovesKeeps ==
  ASSUME MuxInv, NEW s \in Sides, NEW c \in Channels, NEW t2 \in Tasks,
         ep' = [ep EXCEPT ![s][c] = t2], UNCHANGED <<entries, dataQ, ctrlQ, wire, tunnel>>,
         ReceivesOnly(ep[s][c], t2), Relays(t2), Buffers(c, t2), ep[s][c].phase # "none",
         Holds(t2) = Holds(ep[s][c]), ep[s][c].down # "ended", t2.down # "ended",
         t2.downEnd = ep[s][c].downEnd,
         t2.written = ep[s][c].written, t2.remaining = ep[s][c].remaining,
              t2.drained = ep[s][c].drained,
         Range(t2.inbound) \subseteq Range(ep[s][c].inbound)
  PROVE  MuxInv'
  <1> DEFINE t == ep[s][c]
             r == ep[Peer(s)][c]
  <1>1. t \in Tasks /\ r \in Tasks /\ Hearkens(c, r, t)
    BY TaskFacts, HeldFacts
  <1>2. Hearkens(c, r, t2)
    BY <1>1 DEF Hearkens, Held
  <1>3. t.remaining \in Nat /\ t.drained \in Nat /\ Charges(c, Holds(t)) \in Nat
    BY <1>1, TaskTypes, GotNat, CountsConcat
  <1>4. Drains(c, t, t2, r) /\ t2.remaining >= t.remaining
    BY <1>2, <1>3 DEF Drains, Got
  <1> QED BY <1>4, ReceiverKeeps

LEMMA DownNextKeeps ==
  ASSUME MuxInv, NEW s \in Sides, NEW c \in Channels, DownNext(s, c)
  PROVE  MuxInv'
  <1> DEFINE t == ep[s][c]
             r == ep[Peer(s)][c]
  <1>1. t \in Tasks /\ Relays(t) /\ Buffers(c, t) /\ (t.phase = "none" => t = NoTask)
    BY TaskFacts
  <1>2. t.down = "recv" /\ UNCHANGED <<entries, dataQ, ctrlQ, wire, tunnel>>
    BY DEF DownNext
  <1>3. t.chunk = <<>> /\ t.pend \in Seq(Frames) /\ t.inbound \in Seq(Frames)
    BY <1>1, <1>2, TaskTypes DEF Buffers
  <1>4. t.phase # "none" /\ t.phase \notin {"opening", "connecting", "granted"}
    BY <1>1, <1>2 DEF NoTask, Relays
  <1>5. ASSUME NEW m \in Frames, NEW pend \in Seq(Frames), NEW inbound \in Seq(Frames),
       Payload(m, c),
               ep' = [ep EXCEPT ![s][c] = [t EXCEPT !.pend = pend, !.inbound = inbound, !.down = "write", !.chunk = <<m>>]],
               (<<m>> \o pend) \o inbound = Holds(t),
               Range(pend) \subseteq Range(t.pend), Range(inbound) \subseteq Range(t.inbound)
        PROVE  MuxInv'
    <2> DEFINE t2 == [t EXCEPT !.pend = pend, !.inbound = inbound, !.down = "write", !.chunk = <<m>>]
    <2>1. t2 \in Tasks
      <3>1. <<m>> \in Seq(Frames)
        OBVIOUS
      <3> QED BY <1>1, <3>1 DEF Tasks
    <2>2. /\ ReceivesOnly(t, t2) /\ t2.down = "write" /\ t2.pend = pend
               /\ t2.inbound = inbound /\ t2.chunk = <<m>>
          /\ t2.downEnd = t.downEnd /\ t2.written = t.written /\ t2.remaining = t.remaining
               /\ t2.drained = t.drained
      BY <1>1, ZenonT(30) DEF ReceivesOnly, Tasks
    <2>3. ep' = [ep EXCEPT ![s][c] = t2]
      BY <1>5
    <2> HIDE DEF t2
    <2>4. /\ t2.phase = t.phase /\ t2.up = t.up /\ t2.allow = t.allow /\ t2.frame = t.frame
               /\ t2.sent = t.sent
          /\ t2.overran = t.overran
      BY <1>1, <2>1, <2>2, OtherFields
    <2>5. Relays(t2)
      BY <1>1, <1>2, <1>4, <2>2, <2>4 DEF Relays
    <2>6. Buffers(c, t2)
      BY <1>1, <1>5, <2>2, <2>4 DEF Buffers
    <2>7. Holds(t2) = Holds(t)
      BY <1>5, <2>2 DEF Holds
    <2> QED BY <1>2, <1>4, <1>5, <2>1, <2>2, <2>3, <2>5, <2>6, <2>7, MovesKeeps
  <1>6. CASE t.pend # <<>>
    <2> DEFINE m == Head(t.pend)
               h == Tail(t.pend)
    <2>1. t.pend = <<m>> \o h /\ m \in Frames /\ h \in Seq(Frames) /\ <<m>> \in Seq(Frames)
      BY <1>3, <1>6, QueueLaws
    <2>2. Range(t.pend) = Range(h) \cup {m}
      <3> HIDE DEF m, h
      <3> QED BY <2>1, RangeConcat, RangeSmall, ZenonT(30)
    <2>3. Payload(m, c) /\ m.kind = "data"
      BY <1>1, <2>2 DEF Buffers, Payload, IsData
    <2>4. ep' = [ep EXCEPT ![s][c] = [t EXCEPT !.pend = h, !.inbound = t.inbound, !.down = "write", !.chunk = <<m>>]]
      <3>1. ep' = [ep EXCEPT ![s][c] = Received([t EXCEPT !.pend = h], m)]
        BY <1>6 DEF DownNext
      <3>2. Received([t EXCEPT !.pend = h], m) = [[t EXCEPT !.pend = h] EXCEPT !.down = "write", !.chunk = <<m>>]
        BY <2>3 DEF Received
      <3>3. [[t EXCEPT !.pend = h] EXCEPT !.down = "write", !.chunk = <<m>>]
              = [t EXCEPT !.pend = h, !.inbound = t.inbound, !.down = "write", !.chunk = <<m>>]
        BY <1>1 DEF Tasks
      <3> QED BY <3>1, <3>2, <3>3
    <2>5. (<<m>> \o h) \o t.inbound = Holds(t)
      BY <1>3, <2>1, QueueLaws DEF Holds
    <2> HIDE DEF m, h
    <2> QED BY <1>3, <1>5, <2>1, <2>2, <2>3, <2>4, <2>5
  <1>7. CASE t.pend = <<>>
    <2> DEFINE m == Head(t.inbound)
               h == Tail(t.inbound)
    <2>0. t.inbound # <<>> /\ ep' = [ep EXCEPT ![s][c] = Received([t EXCEPT !.inbound = h], m)]
      BY <1>7 DEF DownNext
    <2>1. t.inbound = <<m>> \o h /\ m \in Frames /\ h \in Seq(Frames) /\ <<m>> \in Seq(Frames)
      BY <1>3, <2>0, QueueLaws
    <2>2. Range(t.inbound) = Range(h) \cup {m}
      <3> HIDE DEF m, h
      <3> QED BY <2>1, RangeConcat, RangeSmall, ZenonT(30)
    <2>3. Payload(m, c) \/ (m.kind = "close" /\ m.c = c)
      BY <1>1, <2>2 DEF Buffers
    <2>a. Holds(t) = t.inbound
      BY <1>3, <1>7, QueueLaws DEF Holds
    <2> HIDE DEF m, h
    <2>4. CASE Payload(m, c)
      <3>1. Received([t EXCEPT !.inbound = h], m) = [[t EXCEPT !.inbound = h] EXCEPT !.down = "write", !.chunk = <<m>>]
        BY <2>4 DEF Received, Payload, IsData
      <3>2. [[t EXCEPT !.inbound = h] EXCEPT !.down = "write", !.chunk = <<m>>]
              = [t EXCEPT !.pend = t.pend, !.inbound = h, !.down = "write", !.chunk = <<m>>]
        BY <1>1 DEF Tasks
      <3>3. (<<m>> \o t.pend) \o h = Holds(t)
        <4>1. <<m>> \o <<>> = <<m>>
          BY <2>1, QueueLaws
        <4> QED BY <1>7, <2>1, <2>a, <4>1
      <3> QED BY <1>3, <1>5, <2>0, <2>1, <2>2, <2>4, <3>1, <3>2, <3>3
    <2>5. CASE m.kind = "close" /\ m.c = c
      <3>1. Received([t EXCEPT !.inbound = h], m) = EndDown([t EXCEPT !.inbound = h], "PeerClosed")
        BY <2>5 DEF Received
      <3>2. EndDown([t EXCEPT !.inbound = h], "PeerClosed") = EndDown(t, "PeerClosed")
        BY <1>1 DEF EndDown, Tasks
      <3>3. Hearkens(c, r, t) /\ r \in Tasks
        BY HeldFacts
      <3>4. Ends(m, c)
        BY <2>5 DEF Ends
      <3>5. r.phase \in Final
        BY <2>2, <3>3, <3>4 DEF Hearkens
      <3>6. t.written = r.sent
        <4>1. EndsLast(c, <<m>> \o h, t.written, r.sent)
          BY <1>2, <2>1, <2>a, <3>3 DEF Hearkens, Held
        <4>2. t.written \in Nat
          BY <1>1, TaskTypes
        <4>3. EndsLast(c, <<m>>, t.written, r.sent)
          BY <2>1, <4>1, <4>2, RunsConcat
        <4>4. \A n : EndsLast(c, <<m>>, t.written, n) <=> (Ends(m, c) => t.written = n)
          BY <2>1, <4>2, RunsSmall
        <4> QED BY <3>4, <4>3, <4>4, Zenon
      <3> QED BY <1>2, <2>0, <3>1, <3>2, <3>5, <3>6, EndDownKeeps
    <2> QED BY <2>3, <2>4, <2>5
  <1> QED BY <1>6, <1>7

-----------------------------------------------------------------------------
(* The receiving half of a relay, the life of a task and what it sends. *)

LEMMA DrainFacts ==
  ASSUME NEW remaining \in Nat, NEW drained \in Nat, NEW len \in Nat, NEW rest \in Nat,
         remaining + (charge(len) + rest) + drained <= U32_MAX
  PROVE  /\ drained_update(drained, len) \in 0..U32_MAX /\ drained_left(drained, len) \in 0..U32_MAX
         /\ saturating_add(remaining, drained_update(drained, len)) = remaining + drained_update(drained, len)
         /\ remaining + drained_update(drained, len) \in 0..U32_MAX
         /\ drained_update(drained, len) + drained_left(drained, len) = drained + charge(len)
  <1>1. charge(len) \in Nat /\ charge(len) >= 1
    BY WindowAssumption DEF charge, AtLeast
  <1>2. saturating_add(drained, charge(len)) = drained + charge(len)
    BY <1>1, WindowAssumption DEF saturating_add, AtMost
  <1>3. CASE drained + charge(len) < UPDATE_THRESHOLD
    <2>1. drained_update(drained, len) = 0 /\ drained_left(drained, len) = drained + charge(len)
      BY <1>2, <1>3 DEF drained_update, drained_left
    <2> QED BY <1>1, <2>1, WindowAssumption DEF saturating_add, AtMost
  <1>4. CASE ~(drained + charge(len) < UPDATE_THRESHOLD)
    <2>1. drained_update(drained, len) = drained + charge(len)
      BY <1>2, <1>4 DEF drained_update
    <2>2. drained_left(drained, len) = 0
      BY <1>1, <2>1 DEF drained_left
    <2> QED BY <1>1, <2>1, <2>2, WindowAssumption DEF saturating_add, AtMost
  <1> QED BY <1>3, <1>4

LEMMA DownWriteKeeps ==
  ASSUME MuxInv, NEW s \in Sides, NEW c \in Channels, DownWrite(s, c)
  PROVE  MuxInv'
  <1> DEFINE t == ep[s][c]
             r == ep[Peer(s)][c]
  <1>1. t \in Tasks /\ Relays(t) /\ Buffers(c, t) /\ Windows(s, c, t)
       /\ (t.phase = "none" => t = NoTask)
    BY TaskFacts
  <1>2. t.down = "write" /\ UNCHANGED <<entries, wire, tunnel>>
    BY DEF DownWrite
  <1>3. PICK m \in Frames : t.chunk = <<m>> /\ Payload(m, c)
    BY <1>1, <1>2 DEF Buffers
  <1> DEFINE add == drained_update(t.drained, m.len)
             left == drained_left(t.drained, m.len)
             n == saturating_add(t.remaining, add)
             t2 == [t EXCEPT !.down = "recv", !.chunk = <<>>, !.written = m.seq,
                             !.drained = left, !.remaining = n]
             rest == t.pend \o t.inbound
  <1>4. Head(t.chunk) = m
    BY <1>3
  <1>5. /\ ep' = [ep EXCEPT ![s][c] = IF add > 0 /\ Gone(s) THEN EndDown(t2, "TunnelGone") ELSE t2]
        /\ IF add > 0 /\ ~Gone(s) THEN send_control(s, Frame("update", c, add, 0))
                                  ELSE UNCHANGED <<dataQ, ctrlQ>>
    BY <1>4 DEF DownWrite
  <1>6. /\ t.phase # "none" /\ t.phase \notin {"opening", "connecting", "granted"}
             /\ t.downEnd = "none"
        /\ Begun(t)
    BY <1>1, <1>2 DEF NoTask, Relays, Begun
  <1>7. /\ t.pend \in Seq(Frames) /\ t.inbound \in Seq(Frames) /\ <<m>> \in Seq(Frames)
             /\ rest \in Seq(Frames)
        /\ Holds(t) = <<m>> \o rest
    <2>1. t.pend \in Seq(Frames) /\ t.inbound \in Seq(Frames) /\ <<m>> \in Seq(Frames)
      BY <1>1, TaskTypes
    <2>2. (<<m>> \o t.pend) \o t.inbound = <<m>> \o rest
      BY <2>1, ThreeQueues, Zenon
    <2>3. rest \in Seq(Frames)
      BY <2>1, TwoQueues, Zenon
    <2>4. Holds(t) = <<m>> \o rest
      BY <1>3, <2>2, Zenon DEF Holds
    <2> HIDE DEF rest
    <2> QED BY <2>1, <2>3, <2>4, Zenon
  <1>8. /\ DataFrames(c, Holds(t)) = 1 + DataFrames(c, rest) /\ DataFrames(c, rest) \in Nat
        /\ Charges(c, Holds(t)) = charge(m.len) + Charges(c, rest) /\ Charges(c, rest) \in Nat
    <2>1. DataFrames(c, <<m>>) = 1 /\ Charges(c, <<m>>) = charge(m.len)
      BY <1>3, CountsSmall DEF Payload
    <2> HIDE DEF rest
    <2>2. /\ DataFrames(c, <<m>> \o rest) = DataFrames(c, <<m>>) + DataFrames(c, rest)
               /\ DataFrames(c, rest) \in Nat
          /\ Charges(c, <<m>> \o rest) = Charges(c, <<m>>) + Charges(c, rest)
               /\ Charges(c, rest) \in Nat
      BY <1>7, CountsConcat
    <2> QED BY <1>7, <2>1, <2>2
  <1>9. /\ t.remaining \in Nat /\ t.drained \in Nat /\ t.written \in Nat /\ m.len \in Nat
             /\ m.seq \in 0..MaxFrames
        /\ charge(m.len) \in Nat
    <2>1. m.len \in 0..U32_MAX /\ m.seq \in 0..MaxFrames
      BY DEF Frames
    <2>2. m.len \in Nat
      BY <2>1
    <2>3. charge(m.len) \in Nat
      BY <2>2, WindowAssumption DEF charge, AtLeast
    <2> QED BY <1>1, <2>1, <2>2, <2>3, TaskTypes
  <1>10. /\ add \in 0..U32_MAX /\ left \in 0..U32_MAX /\ n = t.remaining + add /\ n \in 0..U32_MAX
         /\ add + left = t.drained + charge(m.len)
    <2>1. t.remaining + (charge(m.len) + Charges(c, rest)) + t.drained <= U32_MAX
      <3>1. t.remaining + Charges(c, Holds(t)) + t.drained <= Window(s, t)
        BY <1>1, <1>6 DEF Windows
      <3>2. Window(s, t) \in Nat /\ Window(s, t) <= U32_MAX /\ U32_MAX \in Nat
        BY WindowAssumption DEF Window
      <3> HIDE DEF rest
      <3> QED BY <1>8, <1>9, <3>1, <3>2
    <2> HIDE DEF rest
    <2>2. Charges(c, rest) \in Nat
      BY <1>8
    <2>3. /\ drained_update(t.drained, m.len) \in 0..U32_MAX
               /\ drained_left(t.drained, m.len) \in 0..U32_MAX
          /\ saturating_add(t.remaining, drained_update(t.drained, m.len)) = t.remaining + drained_update(t.drained, m.len)
          /\ t.remaining + drained_update(t.drained, m.len) \in 0..U32_MAX
          /\ drained_update(t.drained, m.len) + drained_left(t.drained, m.len) = t.drained + charge(m.len)
      <3> DEFINE was == t.remaining
                 due == t.drained
                 len == m.len
                 more == Charges(c, rest)
      <3>1. /\ was \in Nat /\ due \in Nat /\ len \in Nat /\ more \in Nat
            /\ was + (charge(len) + more) + due <= U32_MAX
        BY <1>9, <2>1, <2>2
      <3> HIDE DEF was, due, len, more
      <3>2. /\ drained_update(due, len) \in 0..U32_MAX /\ drained_left(due, len) \in 0..U32_MAX
            /\ saturating_add(was, drained_update(due, len)) = was + drained_update(due, len)
            /\ was + drained_update(due, len) \in 0..U32_MAX
            /\ drained_update(due, len) + drained_left(due, len) = due + charge(len)
        BY <3>1, DrainFacts
      <3> QED BY <3>2 DEF was, due, len
    <2> QED BY <2>3, Zenon
  <1> HIDE DEF add, left, n
  <1>11. t2 \in Tasks
    <2>1. <<>> \in Seq(Frames)
      OBVIOUS
    <2> QED BY <1>1, <1>9, <1>10, <2>1 DEF Tasks
  <1>12. /\ ReceivesOnly(t, t2) /\ t2.down = "recv" /\ t2.chunk = <<>> /\ t2.pend = t.pend
              /\ t2.inbound = t.inbound
         /\ t2.downEnd = t.downEnd /\ t2.written = m.seq /\ t2.remaining = n /\ t2.drained = left
    <2>1. /\ t2.down = "recv" /\ t2.chunk = <<>> /\ t2.pend = t.pend /\ t2.inbound = t.inbound
          /\ t2.downEnd = t.downEnd /\ t2.written = m.seq /\ t2.remaining = n /\ t2.drained = left
      BY <1>1 DEF Tasks
    <2>2. [t EXCEPT !.down = "recv", !.downEnd = t.downEnd, !.chunk = <<>>, !.pend = t.pend,
                    !.inbound = t.inbound, !.remaining = n, !.drained = left,
                         !.written = m.seq] = t2
      BY <1>1 DEF Tasks
    <2> HIDE DEF t2
    <2> QED BY <2>1, <2>2, Zenon DEF ReceivesOnly
  <1>a. /\ t2.remaining = t.remaining + add /\ t2.drained = left /\ add \in Nat /\ left \in Nat
        /\ add + left = t.drained + charge(m.len)
        /\ Charges(c, Holds(t)) = charge(m.len) + Charges(c, rest) /\ Charges(c, rest) \in Nat
        /\ t.remaining \in Nat /\ t.drained \in Nat /\ charge(m.len) \in Nat
    BY <1>8, <1>9, <1>10, <1>12
  <1>13. EndDown(t2, "TunnelGone") = EndDown([t EXCEPT !.written = m.seq, !.drained = left, !.remaining = n], "TunnelGone")
    BY <1>1 DEF EndDown, Tasks
  <1> HIDE DEF t2
  <1>14. /\ t2.phase = t.phase /\ t2.up = t.up /\ t2.allow = t.allow /\ t2.frame = t.frame
              /\ t2.sent = t.sent
         /\ t2.overran = t.overran
    BY <1>1, <1>11, <1>12, OtherFields
  <1>15. Relays(t2) /\ Buffers(c, t2)
    <2>1. Relays(t2)
      BY <1>1, <1>2, <1>6, <1>12, <1>14 DEF Relays
    <2>2. Buffers(c, t2)
      BY <1>1, <1>2, <1>12, <1>14 DEF Buffers
    <2> QED BY <2>1, <2>2
  <1>16. Holds(t2) = rest
    <2>1. <<>> \o t.pend = t.pend
      BY <1>7, QueueLaws
    <2> QED BY <1>12, <2>1 DEF Holds
  <1> HIDE DEF rest
  <1>17. /\ m.seq = t.written + 1 /\ Numbered(c, rest, m.seq) /\ r \in Tasks
         /\ EndsLast(c, rest, m.seq, r.sent)
         /\ (\E x \in Range(t2.inbound) : Ends(x, c)) \/ t2.downEnd = "PeerClosed"
              => r.phase \in Final
    <2>1. r \in Tasks /\ Numbered(c, <<m>> \o rest, t.written)
         /\ EndsLast(c, <<m>> \o rest, t.written, r.sent)
          /\ ((\E x \in Range(t.inbound) : Ends(x, c)) \/ t.downEnd = "PeerClosed" => r.phase \in Final)
      BY <1>2, <1>7, HeldFacts DEF Hearkens, Held
    <2>2. DataFrames(c, <<m>>) = 1 /\ IsData(m, c)
      BY <1>3, CountsSmall DEF Payload
    <2>3. /\ Numbered(c, <<m>>, t.written) /\ Numbered(c, rest, t.written + 1)
          /\ EndsLast(c, rest, t.written + 1, r.sent)
      BY <1>7, <1>9, <2>1, <2>2, RunsConcat
    <2>4. m.seq = t.written + 1
      BY <1>9, <2>2, <2>3, RunsSmall, ZenonT(30)
    <2> QED BY <1>12, <2>1, <2>3, <2>4
  <1>18. Drains(c, t, t2, r)
    <2>1. Hearkens(c, r, t2)
      BY <1>6, <1>12, <1>16, <1>17 DEF Hearkens, Held
    <2>2. Got(c, t2) = Got(c, t)
      <3>1. (t.written + 1) + DataFrames(c, rest) = t.written + (1 + DataFrames(c, rest))
        BY <1>8, <1>9
      <3>2. t2.written = t.written + 1 /\ DataFrames(c, Holds(t)) = 1 + DataFrames(c, rest)
        BY <1>8, <1>12, <1>17
      <3> QED BY <1>16, <3>1, <3>2, Zenon DEF Got
    <2>3. t2.remaining + Charges(c, Holds(t2)) + t2.drained <= t.remaining + Charges(c, Holds(t)) + t.drained
      BY <1>16, <1>a
    <2> QED BY <1>2, <2>1, <2>2, <2>3 DEF Drains
  <1>19. t2.remaining >= t.remaining
    BY <1>9, <1>10, <1>12
  <1>20. CASE add = 0
    <2>1. ep' = [ep EXCEPT ![s][c] = t2] /\ UNCHANGED <<dataQ, ctrlQ>>
      BY <1>5, <1>20
    <2> QED BY <1>2, <1>6, <1>11, <1>12, <1>15, <1>18, <1>19, <2>1, ReceiverKeeps
  <1>21. CASE add # 0 /\ Gone(s)
    <2> DEFINE t3 == EndDown(t2, "TunnelGone")
    <2>1. ep' = [ep EXCEPT ![s][c] = t3] /\ UNCHANGED <<dataQ, ctrlQ>>
      <3>1. add > 0
        BY <1>21, <1>a
      <3> HIDE DEF t3
      <3> QED BY <1>5, <1>21, <3>1, Zenon DEF t3
    <2>2. /\ t3 \in Tasks
          /\ t3.down = "ended" /\ t3.downEnd = "TunnelGone" /\ t3.chunk = <<>>
               /\ t3.pend = <<>> /\ t3.inbound = <<>>
          /\ t3.remaining = t2.remaining /\ t3.drained = t2.drained /\ t3.written = t2.written
      BY <1>11, EndDownFields
    <2>3. ReceivesOnly(t, t3)
      <3> DEFINE t4 == [t EXCEPT !.down = "ended", !.downEnd = "TunnelGone", !.chunk = <<>>, !.pend = <<>>,
                                 !.inbound = <<>>, !.remaining = n, !.drained = left,
                                      !.written = m.seq]
      <3>1. EndDown([t EXCEPT !.written = m.seq, !.drained = left, !.remaining = n], "TunnelGone") = t4
        BY <1>1 DEF EndDown, Tasks
      <3>2. t3 = t4
        BY <1>13, <3>1
      <3>3. t3.remaining = n /\ t3.drained = left /\ t3.written = m.seq
        BY <1>12, <2>2
      <3> HIDE DEF t3
      <3> QED BY <2>2, <3>2, <3>3, Zenon DEF ReceivesOnly
    <2> HIDE DEF t3
    <2>4. /\ t3.phase = t.phase /\ t3.up = t.up /\ t3.allow = t.allow /\ t3.frame = t.frame
               /\ t3.sent = t.sent
          /\ t3.overran = t.overran
      BY <1>1, <2>2, <2>3, OtherFields
    <2>5. Relays(t3)
      BY <1>1, <1>2, <1>6, <2>2, <2>4 DEF Relays
    <2>6. Buffers(c, t3)
      BY <1>1, <2>2, <2>4, RangeSmall DEF Buffers
    <2>7. Drains(c, t, t3, r)
      <3>1. Hearkens(c, r, t3)
        BY <2>2, RangeSmall DEF Hearkens, Held
      <3>2. Holds(t3) = <<>> /\ Charges(c, <<>>) = 0
        BY <2>2, CountsSmall DEF Holds
      <3>3. t3.remaining + Charges(c, Holds(t3)) + t3.drained <= t.remaining + Charges(c, Holds(t)) + t.drained
        BY <1>a, <2>2, <3>2, SMTT(30)
      <3> QED BY <2>2, <3>1, <3>3 DEF Drains
    <2>8. t3.remaining >= t.remaining
      BY <1>19, <2>2
    <2> QED BY <1>2, <1>6, <2>1, <2>2, <2>3, <2>5, <2>6, <2>7, <2>8, ReceiverKeeps
  <1>22. CASE add # 0 /\ ~Gone(s)
    <2> DEFINE u == Frame("update", c, add, 0)
    <2>1. ep' = [ep EXCEPT ![s][c] = t2] /\ send_control(s, u)
      BY <1>5, <1>10, <1>22
    <2>2. u \in Frames /\ u.kind = "update" /\ u.c = c /\ u.len = add
      <3>1. 0 \in 0..MaxFrames
        BY DEF MuxInv, MuxAssumption
      <3> QED BY <1>10, <3>1 DEF Frame, Frames
    <2> HIDE DEF u
    <2>3. /\ Turns(s, c, t, t2, r) /\ Goes(s, c, t, t2, r, Gone(s))
               /\ Spends(s, c, t2, r) = Spends(s, c, t, r)
          /\ Leaves(s, c, t, t2, r, add)
      <3>1. t2.remaining >= t.remaining + add /\ add \in Nat
        BY <1>9, <1>10, <1>12
      <3> QED BY <1>6, <1>11, <1>12, <1>15, <1>18, <3>1, ReceivesOnlyTurns
    <2>4. /\ Spends(s, c, t, r) \in Nat /\ Charges(c, <<u>>) = 0 /\ Updates(c, <<u>>) = add
               /\ ~IsData(u, c) /\ ~Ends(u, c)
      BY <1>1, <1>17, <2>2, SpendsNat, CountsSmall DEF IsData, Ends
    <2>5. t2.granted = t.granted
      BY <1>1, <1>11, <1>12, OtherFields
    <2>6. CASE s = "ctl"
      <3>1. ctrlQ' = Append(ctrlQ, u) /\ UNCHANGED dataQ
        BY <2>1, <2>6 DEF send_control
      <3>2. Spends(s, c, t2, r) <= Spends(s, c, t, r)
        BY <2>3, <2>4
      <3>3. r = ep["tgt"][c] /\ t = ep["ctl"][c]
        BY <2>6 DEF Peer
      <3>4. /\ ep' = [ep EXCEPT !["ctl"][c] = t2] /\ UNCHANGED <<entries, dataQ, wire, tunnel>>
            /\ (t2.phase = "relay" => ep["ctl"][c].phase = "relay") /\ Begun(ep["ctl"][c])
        BY <1>2, <1>6, <1>14, <2>1, <2>6, <3>1
      <3>5. /\ Turns("ctl", c, ep["ctl"][c], t2, ep["tgt"][c])
            /\ Goes("ctl", c, ep["ctl"][c], t2, ep["tgt"][c], Gone("ctl"))
            /\ Spends("ctl", c, t2, ep["tgt"][c]) <= Spends("ctl", c, ep["ctl"][c], ep["tgt"][c])
            /\ Leaves("ctl", c, ep["ctl"][c], t2, ep["tgt"][c], u.len)
        BY <2>2, <2>3, <2>6, <3>2, <3>3
      <3> HIDE DEF t, r
      <3> QED BY <1>11, <2>2, <3>1, <3>4, <3>5, NoteKeeps
    <2>7. CASE s = "tgt"
      <3>1. send_ordered(s, u) /\ UNCHANGED ctrlQ /\ Room(s)
        BY <2>1, <2>7 DEF send_control, Room
      <3>2. Spends(s, c, t2, r) + Charges(c, <<u>>) <= Spends(s, c, t, r)
        BY <2>3, <2>4
      <3>3. Puts(s, c, t, t2, u)
        BY <1>6, <1>14, <2>2, <2>4, <2>5 DEF Puts, Begun
      <3>4. Leaves(s, c, t, t2, r, Updates(c, <<u>>))
        BY <2>3, <2>4
      <3> QED BY <1>2, <1>6, <1>11, <1>22, <2>1, <2>3, <2>7, <3>1, <3>2, <3>3, <3>4, PutKeeps
    <2> QED BY <2>6, <2>7 DEF Sides
  <1> QED BY <1>20, <1>21, <1>22

-----------------------------------------------------------------------------
(* The steps of run_channel and run_controlled_channel themselves. *)

\* Only the phase, or the cancel, of t has changed.
Phased(t, ph, b) == [t EXCEPT !.phase = ph, !.cancel = b]

LEMMA PhaseFields ==
  ASSUME NEW t \in Tasks, NEW ph \in {"relay", "closing", "leaving"}, NEW b \in BOOLEAN, NEW t2,
         t2 = Phased(t, ph, b)
  PROVE  /\ t2 \in Tasks /\ t2.phase = ph /\ t2.up = t.up /\ t2.upEnd = t.upEnd
         /\ t2.down = t.down /\ t2.downEnd = t.downEnd /\ t2.chunk = t.chunk /\ t2.pend = t.pend
         /\ t2.inbound = t.inbound /\ t2.remaining = t.remaining /\ t2.drained = t.drained
         /\ t2.allow = t.allow /\ t2.frame = t.frame /\ t2.credit = t.credit /\ t2.sent = t.sent
         /\ t2.granted = t.granted /\ t2.opened = t.opened /\ t2.overran = t.overran
              /\ t2.written = t.written
  BY DEF Phased, Tasks

LEMMA PhaseTurns ==
  ASSUME MuxInv, NEW s \in Sides, NEW c \in Channels,
         NEW ph \in {"relay", "closing", "leaving"}, NEW b \in BOOLEAN,
         ep[s][c].phase # "none", ph = "relay" => ep[s][c].phase = "relay",
         ph # "relay" => ep[s][c].up \in {"idle", "ended"},
         ep[s][c].phase \in Final => ph = "leaving",
         NEW t2, t2 = Phased(ep[s][c], ph, b)
  PROVE  /\ t2 \in Tasks /\ t2.phase = ph
         /\ t2.sent = ep[s][c].sent /\ t2.frame = ep[s][c].frame /\ t2.granted = ep[s][c].granted
         /\ Turns(s, c, ep[s][c], t2, ep[Peer(s)][c])
         /\ Goes(s, c, ep[s][c], t2, ep[Peer(s)][c], Gone(s))
         /\ Spends(s, c, t2, ep[Peer(s)][c]) = Spends(s, c, ep[s][c], ep[Peer(s)][c])
         /\ Leaves(s, c, ep[s][c], t2, ep[Peer(s)][c], 0)
  <1> DEFINE t == ep[s][c]
             r == ep[Peer(s)][c]
  <1>1. t \in Tasks /\ Relays(t) /\ Buffers(c, t) /\ Windows(s, c, t)
    BY TaskFacts
  <1>2. Hearkens(c, r, t) /\ r \in Tasks
    BY HeldFacts
  <1>3. /\ t2 \in Tasks /\ t2.phase = ph /\ t2.up = t.up /\ t2.upEnd = t.upEnd
        /\ t2.down = t.down /\ t2.downEnd = t.downEnd /\ t2.chunk = t.chunk /\ t2.pend = t.pend
        /\ t2.inbound = t.inbound /\ t2.remaining = t.remaining /\ t2.drained = t.drained
        /\ t2.allow = t.allow /\ t2.frame = t.frame /\ t2.credit = t.credit /\ t2.sent = t.sent
        /\ t2.granted = t.granted /\ t2.opened = t.opened /\ t2.overran = t.overran
             /\ t2.written = t.written
    <2>1. t2 = Phased(t, ph, b)
      OBVIOUS
    <2>2. \A x \in Tasks : LET y == Phased(x, ph, b) IN
            /\ y \in Tasks /\ y.phase = ph /\ y.up = x.up /\ y.upEnd = x.upEnd
            /\ y.down = x.down /\ y.downEnd = x.downEnd /\ y.chunk = x.chunk /\ y.pend = x.pend
            /\ y.inbound = x.inbound /\ y.remaining = x.remaining /\ y.drained = x.drained
            /\ y.allow = x.allow /\ y.frame = x.frame /\ y.credit = x.credit /\ y.sent = x.sent
            /\ y.granted = x.granted /\ y.opened = x.opened /\ y.overran = x.overran
                 /\ y.written = x.written
      BY PhaseFields, SMTT(30)
    <2> QED BY <1>1, <2>1, <2>2
  <1>4. Holds(t2) = Holds(t)
    BY <1>3 DEF Holds
  <1>5. Sane(s, c, t2)
    <2>1. Relays(t2)
      BY <1>1, <1>3 DEF Relays
    <2>2. Buffers(c, t2)
      BY <1>1, <1>3 DEF Buffers
    <2>3. Windows(s, c, t2)
      BY <1>1, <1>3, <1>4 DEF Windows, Window
    <2> QED BY <2>1, <2>2, <2>3 DEF Sane
  <1>6. Hearkens(c, r, t2)
    BY <1>2, <1>3, <1>4 DEF Hearkens, Held
  <1>7. Turns(s, c, t, t2, r)
    BY <1>3, <1>4, <1>5, <1>6 DEF Turns, Got
  <1>8. Goes(s, c, t, t2, r, Gone(s))
    BY <1>3 DEF Goes, Begun, Final
  <1>9. Spends(s, c, t2, r) = Spends(s, c, t, r)
    BY <1>3 DEF Spends, Lift
  <1>10. Leaves(s, c, t, t2, r, 0)
    <2>1. Spends(Peer(s), c, r, t2) = Spends(Peer(s), c, r, t)
         /\ Admitted(Peer(s), t2) = Admitted(Peer(s), t)
      BY <1>3 DEF Spends, Admitted, Lift
    <2>2. Spends(Peer(s), c, r, t) \in Nat /\ Admitted(Peer(s), t) \in Nat
      BY <1>1, <1>2, Others, SpendsNat
    <2> QED BY <2>1, <2>2 DEF Leaves
  <1> QED BY <1>3, <1>7, <1>8, <1>9, <1>10

LEMMA PhaseKeeps ==
  ASSUME MuxInv, NEW s \in Sides, NEW c \in Channels,
         NEW ph \in {"relay", "closing", "leaving"}, NEW b \in BOOLEAN,
         ep[s][c].phase # "none", ph = "relay" => ep[s][c].phase = "relay",
         ph # "relay" => ep[s][c].up \in {"idle", "ended"},
         ep[s][c].phase \in Final => ph = "leaving",
         ep' = [ep EXCEPT ![s][c] = Phased(ep[s][c], ph, b)],
         UNCHANGED <<entries, dataQ, ctrlQ, wire, tunnel>>
  PROVE  MuxInv'
  <1> DEFINE t == ep[s][c]
             r == ep[Peer(s)][c]
             t2 == Phased(t, ph, b)
  <1>1. /\ t2 \in Tasks /\ t2.phase = ph /\ Turns(s, c, t, t2, r) /\ Goes(s, c, t, t2, r, Gone(s))
        /\ Spends(s, c, t2, r) = Spends(s, c, t, r) /\ Leaves(s, c, t, t2, r, 0)
    <2>1. t2 = Phased(t, ph, b)
      OBVIOUS
    <2> HIDE DEF t2
    <2> QED BY <2>1, PhaseTurns
  <1>2. ep' = [ep EXCEPT ![s][c] = t2]
    OBVIOUS
  <1> HIDE DEF t2
  <1>3. Spends(s, c, t2, r) <= Spends(s, c, t, r)
    <2>1. Spends(s, c, t, r) \in Nat
      BY TaskFacts, Others, SpendsNat
    <2> QED BY <1>1, <2>1
  <1>4. Enters(s, c, t) /\ entries' \in [Sides -> SUBSET Channels]
    BY DEF Enters, TypeOK, MuxInv
  <1> QED BY <1>1, <1>2, <1>3, <1>4, QuietKeeps

\* The task leaves, having told the peer.
LEMMA PartingKeeps ==
  ASSUME MuxInv, NEW s \in Sides, NEW c \in Channels, NEW kind \in {"close", "refused"},
         ep[s][c].phase \in {"connecting", "closing"}, ~Gone(s),
         SendOrFail(s, Frame(kind, c, 0, 0)),
         ep' = [ep EXCEPT ![s][c] = Phased(ep[s][c], "leaving", ep[s][c].cancel)],
         UNCHANGED <<entries, ctrlQ, wire, tunnel>>
  PROVE  MuxInv'
  <1> DEFINE t == ep[s][c]
             r == ep[Peer(s)][c]
             t2 == Phased(t, "leaving", t.cancel)
             m == Frame(kind, c, 0, 0)
  <1>1. t \in Tasks /\ r \in Tasks /\ Relays(t) /\ Buffers(c, t) /\ t.cancel \in BOOLEAN
    <2>1. t \in Tasks /\ Relays(t) /\ Buffers(c, t) /\ r \in Tasks
      BY TaskFacts, HeldFacts
    <2>2. t.cancel \in BOOLEAN
      BY <2>1 DEF Tasks
    <2> QED BY <2>1, <2>2
  <1>2. t.up \in {"idle", "ended"} /\ t.frame = <<>>
    BY <1>1 DEF Relays, Buffers
  <1>3. /\ t2 \in Tasks /\ t2.phase = "leaving" /\ t2.sent = t.sent /\ t2.frame = t.frame
             /\ t2.granted = t.granted
        /\ Turns(s, c, t, t2, r)
        /\ Spends(s, c, t2, r) = Spends(s, c, t, r) /\ Leaves(s, c, t, t2, r, 0)
    <2>1. t2 = Phased(t, "leaving", t.cancel)
      OBVIOUS
    <2> HIDE DEF t2
    <2> QED BY <1>1, <1>2, <2>1, PhaseTurns DEF Final
  <1>4. m \in Frames /\ m.kind = kind /\ m.c = c /\ m.len = 0
    <2>1. 0 \in 0..MaxFrames /\ 0 \in 0..U32_MAX
      BY WindowAssumption DEF MuxInv, MuxAssumption
    <2> QED BY <2>1 DEF Frame, Frames
  <1>5. Room(s) /\ send_ordered(s, m) /\ ep' = [ep EXCEPT ![s][c] = t2]
    BY DEF SendOrFail
  <1> HIDE DEF t2, m
  <1>6. Puts(s, c, t, t2, m)
    BY <1>2, <1>3, <1>4 DEF Puts, Begun, Final, Ends
  <1>7. Charges(c, <<m>>) = 0 /\ Updates(c, <<m>>) = 0
    BY <1>4, CountsSmall DEF IsData
  <1>8. Spends(s, c, t2, r) + Charges(c, <<m>>) <= Spends(s, c, t, r)
    <2>1. Spends(s, c, t, r) \in Nat
      BY <1>1, SpendsNat
    <2> QED BY <1>3, <1>7, <2>1
  <1>9. /\ Begun(t) /\ t.phase # "none" /\ m.kind # "open" /\ m.kind # "data"
        /\ Leaves(s, c, t, t2, r, Updates(c, <<m>>))
    BY <1>3, <1>4, <1>7 DEF Begun
  <1> QED BY <1>3, <1>5, <1>6, <1>8, <1>9, PutKeeps

LEMMA CancelKeeps ==
  ASSUME MuxInv, NEW s \in Sides, NEW c \in Channels, Cancel(s, c)
  PROVE  MuxInv'
  <1> DEFINE t == ep[s][c]
  <1>1. t \in Tasks /\ ep \in [Sides -> [Channels -> Tasks]]
    BY TaskFacts
  <1>2. t.phase = "relay" /\ UNCHANGED <<entries, dataQ, ctrlQ, wire, tunnel>>
    BY DEF Cancel
  <1>3. ep' = [ep EXCEPT ![s][c] = [t EXCEPT !.cancel = TRUE]]
    BY <1>1 DEF Cancel
  <1>4. [t EXCEPT !.cancel = TRUE] = Phased(t, "relay", TRUE)
    BY <1>1, <1>2 DEF Tasks, Phased
  <1> QED BY <1>2, <1>3, <1>4, PhaseKeeps DEF Final

LEMMA PhaseOnly ==
  ASSUME NEW t \in Tasks, NEW ph
  PROVE  /\ [t EXCEPT !.phase = ph] = Phased(t, ph, t.cancel)
         /\ t.cancel \in BOOLEAN
  BY DEF Tasks, Phased

LEMMA FinishKeeps ==
  ASSUME MuxInv, NEW s \in Sides, NEW c \in Channels, Finish(s, c)
  PROVE  MuxInv'
  <1> DEFINE t == ep[s][c]
             ph == IF Closes(t) THEN "closing" ELSE "leaving"
  <1>1. t \in Tasks /\ ep \in [Sides -> [Channels -> Tasks]]
    BY TaskFacts
  <1>2. t.phase = "relay" /\ t.up = "ended" /\ UNCHANGED <<entries, dataQ, ctrlQ, wire, tunnel>>
    BY DEF Finish
  <1>3. ep' = [ep EXCEPT ![s][c] = [t EXCEPT !.phase = ph]]
    BY <1>1 DEF Finish
  <1>4. ph \in {"closing", "leaving"}
    OBVIOUS
  <1> HIDE DEF ph
  <1>5. ep' = [ep EXCEPT ![s][c] = Phased(t, ph, t.cancel)] /\ t.cancel \in BOOLEAN
    BY <1>1, <1>3, PhaseOnly
  <1> QED BY <1>2, <1>4, <1>5, PhaseKeeps DEF Final

\* A step to "leaving", with a last frame to the peer or without.
LEMMA LeavingKeeps ==
  ASSUME MuxInv, NEW s \in Sides, NEW c \in Channels,
         ep[s][c].phase \in {"opening", "connecting", "granted", "closing"},
         ep' = [ep EXCEPT ![s][c].phase = "leaving"],
         UNCHANGED <<entries, ctrlQ, wire, tunnel>>,
         \/ UNCHANGED dataQ
         \/ /\ ~Gone(s) /\ ep[s][c].phase \in {"connecting", "closing"}
            /\ \E kind \in {"close", "refused"} : SendOrFail(s, Frame(kind, c, 0, 0))
  PROVE  MuxInv'
  <1> DEFINE t == ep[s][c]
  <1>1. t \in Tasks /\ ep \in [Sides -> [Channels -> Tasks]] /\ Relays(t)
    BY TaskFacts
  <1>2. t.up \in {"idle", "ended"}
    BY <1>1 DEF Relays
  <1>3. ep' = [ep EXCEPT ![s][c] = [t EXCEPT !.phase = "leaving"]]
    BY <1>1
  <1>4. ep' = [ep EXCEPT ![s][c] = Phased(t, "leaving", t.cancel)] /\ t.cancel \in BOOLEAN
    BY <1>1, <1>3, PhaseOnly
  <1>5. CASE UNCHANGED dataQ
    <2>1. "leaving" \in {"relay", "closing", "leaving"} /\ t.phase # "none"
         /\ UNCHANGED <<entries, dataQ, ctrlQ, wire, tunnel>>
      BY <1>5
    <2> QED BY <1>2, <1>4, <2>1, PhaseKeeps
  <1>6. CASE /\ ~Gone(s) /\ ep[s][c].phase \in {"connecting", "closing"}
             /\ \E kind \in {"close", "refused"} : SendOrFail(s, Frame(kind, c, 0, 0))
    BY <1>4, <1>6, PartingKeeps
  <1> QED BY <1>5, <1>6

LEMMA SendCloseKeeps ==
  ASSUME MuxInv, NEW s \in Sides, NEW c \in Channels, SendClose(s, c)
  PROVE  MuxInv'
  BY LeavingKeeps DEF SendClose, SendOrFail

LEMMA ConnectingGoneKeeps ==
  ASSUME MuxInv, NEW c \in Channels, ConnectingGone(c)
  PROVE  MuxInv'
  BY LeavingKeeps DEF ConnectingGone, Sides

LEMMA ConnectFailsKeeps ==
  ASSUME MuxInv, NEW c \in Channels, ConnectFails(c)
  PROVE  MuxInv'
  BY LeavingKeeps DEF ConnectFails, ConnectArm, SendOrFail, Sides

\* The relays start, and the peer is told of it.
LEMMA RelayingKeeps ==
  ASSUME MuxInv, NEW s \in Sides, NEW c \in Channels, NEW kind \in {"open", "opened"},
         IF kind = "open" THEN s = "ctl" /\ ep[s][c].phase = "opening"
                          ELSE s = "tgt" /\ ep[s][c].phase = "granted",
         ~Gone(s), SendOrFail(s, Frame(kind, c, CHANNEL_WINDOW, 0)),
         ep' = [ep EXCEPT ![s][c] = Relaying(ep[s][c])],
         UNCHANGED <<entries, ctrlQ, wire, tunnel>>
  PROVE  MuxInv'
  <1> DEFINE t == ep[s][c]
             r == ep[Peer(s)][c]
             t2 == Relaying(t)
             m == Frame(kind, c, CHANNEL_WINDOW, 0)
  <1>1. t \in Tasks /\ Relays(t) /\ Buffers(c, t) /\ Windows(s, c, t)
    BY TaskFacts
  <1>2. Hearkens(c, r, t) /\ r \in Tasks
    BY HeldFacts
  <1>3. t.up = "idle" /\ t.down = "idle" /\ t.frame = <<>> /\ t.chunk = <<>> /\ t.allow = 0
       /\ t.downEnd = "none"
    BY <1>1 DEF Relays, Buffers
  <1>4. /\ t2 \in Tasks /\ t2.phase = "relay" /\ t2.up = "take" /\ t2.down = "recv"
        /\ t2.downEnd = t.downEnd /\ t2.chunk = t.chunk /\ t2.pend = t.pend
        /\ t2.inbound = t.inbound /\ t2.remaining = t.remaining /\ t2.drained = t.drained
        /\ t2.allow = t.allow /\ t2.frame = t.frame /\ t2.credit = t.credit /\ t2.sent = t.sent
        /\ t2.granted = t.granted /\ t2.opened = t.opened /\ t2.overran = t.overran
             /\ t2.written = t.written
    BY <1>1, ZenonT(30) DEF Relaying, Tasks
  <1>5. m \in Frames /\ m.kind = kind /\ m.c = c /\ m.len = CHANNEL_WINDOW
    <2>1. 0 \in 0..MaxFrames /\ CHANNEL_WINDOW \in 0..U32_MAX
      BY WindowAssumption DEF MuxInv, MuxAssumption
    <2> QED BY <2>1 DEF Frame, Frames
  <1>6. Room(s) /\ send_ordered(s, m) /\ ep' = [ep EXCEPT ![s][c] = t2]
    BY DEF SendOrFail
  <1> HIDE DEF t2, m
  <1>7. Holds(t2) = Holds(t)
    BY <1>4 DEF Holds
  <1>8. Sane(s, c, t2)
    <2>1. Relays(t2)
      BY <1>1, <1>3, <1>4 DEF Relays
    <2>2. Buffers(c, t2)
      BY <1>1, <1>3, <1>4 DEF Buffers
    <2>3. Windows(s, c, t2)
      BY <1>1, <1>4, <1>7 DEF Windows, Window
    <2> QED BY <2>1, <2>2, <2>3 DEF Sane
  <1>9. Turns(s, c, t, t2, r)
    <2>1. Hearkens(c, r, t2)
      BY <1>2, <1>3, <1>4, <1>7 DEF Hearkens, Held
    <2> QED BY <1>3, <1>4, <1>7, <1>8, <2>1 DEF Turns, Got
  <1>10. t.phase # "none" /\ (kind = "opened" => t.granted /\ Begun(t))
    BY <1>1 DEF Windows, Begun
  <1>11. Puts(s, c, t, t2, m)
    BY <1>3, <1>4, <1>5, <1>10 DEF Puts, Begun, Final, Ends
  <1>12. Charges(c, <<m>>) = 0 /\ Updates(c, <<m>>) = 0
    BY <1>5, CountsSmall DEF IsData
  <1>13. Spends(s, c, t2, r) + Charges(c, <<m>>) <= Spends(s, c, t, r)
    <2>1. Spends(s, c, t2, r) = Spends(s, c, t, r)
      BY <1>4, <1>10 DEF Spends, Lift
    <2>2. Spends(s, c, t, r) \in Nat
      BY <1>1, <1>2, SpendsNat
    <2> QED BY <1>12, <2>1, <2>2
  <1>14. Leaves(s, c, t, t2, r, Updates(c, <<m>>))
    <2>1. Spends(Peer(s), c, r, t2) = Spends(Peer(s), c, r, t)
         /\ Admitted(Peer(s), t2) = Admitted(Peer(s), t)
      BY <1>4, <1>10 DEF Spends, Admitted, Lift
    <2>2. Spends(Peer(s), c, r, t) \in Nat /\ Admitted(Peer(s), t) \in Nat
      BY <1>1, <1>2, Others, SpendsNat
    <2> QED BY <1>12, <2>1, <2>2 DEF Leaves
  <1> QED BY <1>4, <1>5, <1>6, <1>9, <1>10, <1>11, <1>13, <1>14, PutKeeps

LEMMA SendOpenKeeps ==
  ASSUME MuxInv, NEW c \in Channels, SendOpen(c)
  PROVE  MuxInv'
  <1>0. "ctl" \in Sides /\ ep \in [Sides -> [Channels -> Tasks]]
    BY TaskFacts DEF Sides
  <1>1. ep["ctl"][c].phase = "opening" /\ UNCHANGED <<entries, ctrlQ, wire, tunnel>>
    BY DEF SendOpen
  <1>2. CASE Gone("ctl")
    <2>1. ep' = [ep EXCEPT !["ctl"][c].phase = "leaving"] /\ UNCHANGED dataQ
      BY <1>0, <1>2 DEF SendOpen, SendOrFail
    <2> QED BY <1>0, <1>1, <2>1, LeavingKeeps
  <1>3. CASE ~Gone("ctl")
    <2>1. ep' = [ep EXCEPT !["ctl"][c] = Relaying(ep["ctl"][c])]
         /\ SendOrFail("ctl", Frame("open", c, CHANNEL_WINDOW, 0))
      BY <1>0, <1>3 DEF SendOpen
    <2> QED BY <1>0, <1>1, <1>3, <2>1, RelayingKeeps
  <1> QED BY <1>2, <1>3

LEMMA SendOpenedKeeps ==
  ASSUME MuxInv, NEW c \in Channels, SendOpened(c)
  PROVE  MuxInv'
  <1>0. "tgt" \in Sides /\ ep \in [Sides -> [Channels -> Tasks]]
    BY TaskFacts DEF Sides
  <1>1. ep["tgt"][c].phase = "granted" /\ UNCHANGED <<entries, ctrlQ, wire, tunnel>>
    BY DEF SendOpened
  <1>2. CASE Gone("tgt")
    <2>1. ep' = [ep EXCEPT !["tgt"][c].phase = "leaving"] /\ UNCHANGED dataQ
      BY <1>0, <1>2 DEF SendOpened, SendOrFail
    <2> QED BY <1>0, <1>1, <2>1, LeavingKeeps
  <1>3. CASE ~Gone("tgt")
    <2>1. ep' = [ep EXCEPT !["tgt"][c] = Relaying(ep["tgt"][c])]
         /\ SendOrFail("tgt", Frame("opened", c, CHANNEL_WINDOW, 0))
      BY <1>0, <1>3 DEF SendOpened
    <2> QED BY <1>0, <1>1, <1>3, <2>1, RelayingKeeps
  <1> QED BY <1>2, <1>3

LEMMA ExitKeeps ==
  ASSUME MuxInv, NEW s \in Sides, NEW c \in Channels, Exit(s, c)
  PROVE  MuxInv'
  <1> DEFINE t == ep[s][c]
             r == ep[Peer(s)][c]
             t2 == [EndDown(t, t.downEnd) EXCEPT !.phase = "done", !.up = "ended"]
  <1>1. t \in Tasks /\ Relays(t) /\ Buffers(c, t) /\ Windows(s, c, t)
       /\ ep \in [Sides -> [Channels -> Tasks]]
    BY TaskFacts
  <1>2. Hearkens(c, r, t) /\ r \in Tasks
    BY HeldFacts
  <1>3. t.phase = "leaving" /\ UNCHANGED <<dataQ, ctrlQ, wire, tunnel>>
       /\ ep' = [ep EXCEPT ![s][c] = t2]
    BY <1>1 DEF Exit
  <1>4. t.up \in {"idle", "ended"} /\ t.frame = <<>> /\ t.allow = 0
    BY <1>1, <1>3 DEF Relays, Buffers
  <1>5. /\ t2 \in Tasks /\ t2.phase = "done" /\ t2.up = "ended" /\ t2.down = "ended"
        /\ t2.downEnd = t.downEnd /\ t2.chunk = <<>> /\ t2.pend = <<>>
        /\ t2.inbound = <<>> /\ t2.remaining = t.remaining /\ t2.drained = t.drained
        /\ t2.allow = t.allow /\ t2.frame = t.frame /\ t2.credit = t.credit /\ t2.sent = t.sent
        /\ t2.granted = t.granted /\ t2.opened = t.opened /\ t2.overran = t.overran
             /\ t2.written = t.written
    <2>1. <<>> \in Seq(Frames)
      OBVIOUS
    <2> QED BY <1>1, <2>1, ZenonT(30) DEF EndDown, Tasks
  <1>6. entries' \in [Sides -> SUBSET Channels] /\ Enters(s, c, t)
    <2>1. entries \in [Sides -> SUBSET Channels]
      BY DEF MuxInv, TypeOK
    <2> QED BY <2>1 DEF Exit, Enters
  <1> HIDE DEF t2
  <1>7. Holds(t2) = <<>> /\ Charges(c, <<>>) = 0
    BY <1>5, CountsSmall DEF Holds
  <1>8. Sane(s, c, t2)
    <2>1. Relays(t2)
      BY <1>1, <1>4, <1>5 DEF Relays
    <2>2. Buffers(c, t2)
      BY <1>4, <1>5, RangeSmall DEF Buffers
    <2>3. Windows(s, c, t2)
      <3>1. t.remaining \in Nat /\ t.drained \in Nat /\ Charges(c, Holds(t)) \in Nat
        BY <1>1, TaskTypes, GotNat, CountsConcat
      <3>2. Window(s, t2) = Window(s, t) /\ Window(s, t) \in Nat
        BY <1>5, WindowAssumption DEF Window
      <3>3. t.remaining + Charges(c, Holds(t)) + t.drained <= Window(s, t)
        BY <1>1, <1>3 DEF Windows
      <3>4. t2.remaining + Charges(c, Holds(t2)) + t2.drained <= Window(s, t2)
        BY <1>5, <1>7, <3>1, <3>2, <3>3
      <3> QED BY <1>1, <1>3, <1>5, <3>4 DEF Windows
    <2> QED BY <2>1, <2>2, <2>3 DEF Sane
  <1>9. Turns(s, c, t, t2, r)
    <2>1. Hearkens(c, r, t2)
      BY <1>2, <1>5, RangeSmall DEF Hearkens, Held
    <2> QED BY <1>5, <1>8, <2>1 DEF Turns
  <1>10. Goes(s, c, t, t2, r, Gone(s))
    BY <1>5 DEF Goes, Begun, Final
  <1>11. Spends(s, c, t2, r) <= Spends(s, c, t, r)
    <2>1. Spends(s, c, t2, r) = Spends(s, c, t, r)
      BY <1>3, <1>5 DEF Spends, Lift
    <2>2. Spends(s, c, t, r) \in Nat
      BY <1>1, <1>2, SpendsNat
    <2> QED BY <2>1, <2>2
  <1>12. Leaves(s, c, t, t2, r, 0)
    <2>1. Spends(Peer(s), c, r, t2) = Spends(Peer(s), c, r, t)
         /\ Admitted(Peer(s), t2) = Admitted(Peer(s), t)
      BY <1>3, <1>5 DEF Spends, Admitted, Lift
    <2>2. Spends(Peer(s), c, r, t) \in Nat /\ Admitted(Peer(s), t) \in Nat
      BY <1>1, <1>2, Others, SpendsNat
    <2> QED BY <2>1, <2>2 DEF Leaves
  <1> QED BY <1>3, <1>5, <1>6, <1>9, <1>10, <1>11, <1>12, QuietKeeps

\* A task's fields when it begins.
LEMMA NewTaskFields ==
  ASSUME MuxAssumption, NEW ph \in {"opening", "connecting"},
         NEW initial \in Nat, NEW window \in 0..U32_MAX, NEW t2, t2 = NewTask(ph, initial, window)
  PROVE  /\ t2 \in Tasks /\ t2.phase = ph /\ t2.up = "idle" /\ t2.down = "idle"
              /\ t2.downEnd = "none"
         /\ t2.chunk = <<>> /\ t2.pend = <<>> /\ t2.inbound = <<>> /\ t2.frame = <<>>
              /\ t2.allow = 0
         /\ t2.remaining = effective_window(window) /\ t2.drained = 0
              /\ t2.credit = new_credit(initial)
         /\ t2.sent = 0 /\ t2.written = 0 /\ ~t2.granted /\ ~t2.opened /\ ~t2.overran
  <1>1. /\ 0 \in 0..MAX_FRAME /\ 0 \in 0..U32_MAX /\ 0 \in 0..MaxFrames /\ <<>> \in Seq(Frames)
        /\ new_credit(initial) \in 0..MAX_SEND_CREDIT /\ effective_window(window) \in 0..U32_MAX
    BY WindowAssumption DEF MuxAssumption, new_credit, effective_window, AtMost, AtLeast
  <1> QED BY <1>1 DEF NewTask, NoTask, Tasks

\* Its invariant, with nothing received yet.
LEMMA NewTaskSane ==
  ASSUME MuxAssumption, NEW s \in Sides, NEW c, NEW t2 \in Tasks,
         t2.phase \in {"opening", "connecting"}, t2.up = "idle", t2.down = "idle",
              t2.downEnd = "none",
         t2.chunk = <<>>, t2.pend = <<>>, t2.inbound = <<>>, t2.frame = <<>>, t2.allow = 0,
         t2.drained = 0, t2.sent = 0, t2.written = 0, ~t2.granted, ~t2.opened, ~t2.overran,
         t2.remaining <= IF s = "tgt" THEN INITIAL_WINDOW ELSE CHANNEL_WINDOW
  PROVE  /\ Sane(s, c, t2) /\ Holds(t2) = <<>> /\ Got(c, t2) = 0
         /\ \A r : Hearkens(c, r, t2)
  <1>1. Holds(t2) = <<>> /\ Charges(c, <<>>) = 0 /\ DataFrames(c, <<>>) = 0
    BY CountsSmall DEF Holds
  <1>2. Relays(t2)
    BY DEF Relays
  <1>3. Buffers(c, t2)
    BY RangeSmall DEF Buffers
  <1>4. Windows(s, c, t2)
    <2>1. t2.remaining \in Nat
      BY TaskTypes
    <2>2. t2.remaining + Charges(c, Holds(t2)) + t2.drained <= Window(s, t2)
      BY <1>1, <2>1, WindowAssumption DEF Window
    <2> QED BY <2>2 DEF Windows
  <1>5. ASSUME NEW r PROVE Hearkens(c, r, t2)
    <2>1. 0 \in Nat
      OBVIOUS
    <2>2. Numbered(c, <<>>, 0) /\ \A n : EndsLast(c, <<>>, 0, n)
      BY <2>1, RunsSmall, Zenon
    <2>3. Held(c, r, t2)
      BY <1>1, <2>2 DEF Held
    <2> QED BY <2>3, RangeSmall DEF Hearkens
  <1> QED BY <1>1, <1>2, <1>3, <1>4, <1>5 DEF Sane, Got

LEMMA OpenKeeps ==
  ASSUME MuxInv, NEW c \in Channels, Open(c)
  PROVE  MuxInv'
  <1> DEFINE s == "ctl"
             t == ep[s][c]
             r == ep[Peer(s)][c]
             t2 == NewTask("opening", INITIAL_WINDOW, CHANNEL_WINDOW)
  <1>0. s \in Sides /\ MuxAssumption /\ TypeOK /\ Peer(s) = "tgt"
    BY DEF MuxInv, Sides, Peer
  <1>1. t \in Tasks /\ r \in Tasks /\ ep \in [Sides -> [Channels -> Tasks]]
    BY <1>0, TaskFacts, Others
  <1>2. /\ t = NoTask /\ ep' = [ep EXCEPT ![s][c] = t2]
             /\ entries' = [entries EXCEPT ![s] = @ \cup {c}]
        /\ UNCHANGED <<dataQ, ctrlQ, wire, tunnel>>
    BY DEF Open
  <1>3. /\ t2 \in Tasks /\ t2.phase = "opening" /\ t2.up = "idle" /\ t2.down = "idle"
             /\ t2.downEnd = "none"
        /\ t2.chunk = <<>> /\ t2.pend = <<>> /\ t2.inbound = <<>> /\ t2.frame = <<>> /\ t2.allow = 0
        /\ t2.remaining = CHANNEL_WINDOW /\ t2.drained = 0 /\ t2.credit = INITIAL_WINDOW
        /\ t2.sent = 0 /\ t2.written = 0 /\ ~t2.granted /\ ~t2.opened /\ ~t2.overran
    <2>1. INITIAL_WINDOW \in Nat /\ CHANNEL_WINDOW \in 0..U32_MAX
      BY WindowAssumption
    <2>2. effective_window(CHANNEL_WINDOW) = CHANNEL_WINDOW
         /\ new_credit(INITIAL_WINDOW) = INITIAL_WINDOW
      BY WindowAssumption DEF effective_window, new_credit, AtLeast, AtMost
    <2>3. t2 = NewTask("opening", INITIAL_WINDOW, CHANNEL_WINDOW)
      OBVIOUS
    <2> HIDE DEF t2
    <2> QED BY <1>0, <2>1, <2>2, <2>3, NewTaskFields
  <1>4. /\ t.phase = "none" /\ t.down = "idle" /\ t.sent = 0 /\ t.written = 0
             /\ Holds(t) = <<>> /\ ~t.granted /\ ~t.opened
        /\ t.allow = 0 /\ t.frame = <<>>
    BY <1>2 DEF NoTask, Holds
  <1> HIDE DEF t2
  <1>5. Sane(s, c, t2) /\ Holds(t2) = <<>> /\ Hearkens(c, r, t2)
    <2>1. t2.remaining <= IF s = "tgt" THEN INITIAL_WINDOW ELSE CHANNEL_WINDOW
      BY <1>3, WindowAssumption
    <2> HIDE DEF s
    <2> QED BY <1>0, <1>3, <2>1, NewTaskSane
  <1>6. entries' \in [Sides -> SUBSET Channels] /\ Enters(s, c, t)
    <2>1. entries \in [Sides -> SUBSET Channels]
      BY <1>0 DEF TypeOK
    <2> QED BY <1>0, <1>2, <1>4, <2>1 DEF Enters
  <1>7. Turns(s, c, t, t2, r)
    BY <1>3, <1>4, <1>5 DEF Turns, Got
  <1>8. Goes(s, c, t, t2, r, Gone(s))
    BY <1>3, <1>4 DEF Goes, Begun, Final
  <1>9. Spends(s, c, t2, r) <= Spends(s, c, t, r)
    <2>1. Spends(s, c, t2, r) = Spends(s, c, t, r)
      BY <1>3, <1>4 DEF Spends, Lift, Start
    <2>2. Spends(s, c, t, r) \in Nat
      BY <1>0, <1>1, SpendsNat
    <2> QED BY <2>1, <2>2
  <1>10. Leaves(s, c, t, t2, r, 0)
    <2>1. Spends(Peer(s), c, r, t2) = Spends(Peer(s), c, r, t)
         /\ Admitted(Peer(s), t2) = Admitted(Peer(s), t)
      BY <1>0, <1>3, <1>4 DEF Spends, Admitted, Lift, Start
    <2>2. Spends(Peer(s), c, r, t) \in Nat /\ Admitted(Peer(s), t) \in Nat
      BY <1>0, <1>1, Others, SpendsNat
    <2> QED BY <2>1, <2>2 DEF Leaves
  <1>11. t2.phase # "relay" /\ s # "tgt"
    BY <1>3
  <1> HIDE DEF s
  <1> QED BY <1>0, <1>2, <1>3, <1>6, <1>7, <1>8, <1>9, <1>10, <1>11, QuietKeeps

\* The window's grant: the controlled side's window grows by as much as the
\* controller will raise its credit when it hears of it.
LEMMA ConnectedKeeps ==
  ASSUME MuxInv, NEW c \in Channels, Connected(c)
  PROVE  MuxInv'
  <1> DEFINE s == "tgt"
             t == ep[s][c]
             r == ep[Peer(s)][c]
             n == saturating_add(t.remaining, CHANNEL_WINDOW - INITIAL_WINDOW)
             t2 == [t EXCEPT !.phase = "granted", !.granted = TRUE, !.remaining = n]
  <1>0. s \in Sides /\ MuxAssumption /\ TypeOK /\ Peer(s) = "ctl"
    BY DEF MuxInv, Sides, Peer
  <1>1. t \in Tasks /\ Relays(t) /\ Buffers(c, t) /\ Windows(s, c, t)
       /\ ep \in [Sides -> [Channels -> Tasks]]
    BY <1>0, TaskFacts
  <1>2. Hearkens(c, r, t) /\ r \in Tasks
    BY <1>0, HeldFacts
  <1>3. /\ t.phase = "connecting" /\ ep' = [ep EXCEPT ![s][c] = t2]
        /\ UNCHANGED <<entries, dataQ, ctrlQ, wire, tunnel>>
    BY <1>1 DEF Connected, ConnectArm
  <1>4. ~t.granted /\ t.remaining + Charges(c, Holds(t)) + t.drained <= INITIAL_WINDOW
    BY <1>1, <1>3 DEF Windows, Window
  <1>5. /\ t.remaining \in Nat /\ t.drained \in Nat /\ Charges(c, Holds(t)) \in Nat
    BY <1>1, TaskTypes, GotNat, CountsConcat
  <1>6. n = t.remaining + (CHANNEL_WINDOW - INITIAL_WINDOW) /\ n \in 0..U32_MAX
    BY <1>4, <1>5, WindowAssumption DEF saturating_add, AtMost
  <1> HIDE DEF n
  <1>7. /\ t2 \in Tasks /\ t2.phase = "granted" /\ t2.up = t.up /\ t2.down = t.down
        /\ t2.downEnd = t.downEnd /\ t2.chunk = t.chunk /\ t2.pend = t.pend
        /\ t2.inbound = t.inbound /\ t2.remaining = n /\ t2.drained = t.drained
        /\ t2.allow = t.allow /\ t2.frame = t.frame /\ t2.credit = t.credit /\ t2.sent = t.sent
        /\ t2.granted = TRUE /\ t2.opened = t.opened /\ t2.overran = t.overran
             /\ t2.written = t.written
    BY <1>1, <1>6 DEF Tasks
  <1> HIDE DEF t2
  <1>8. Holds(t2) = Holds(t)
    BY <1>7 DEF Holds
  <1>9. Sane(s, c, t2)
    <2>1. Relays(t2)
      BY <1>1, <1>3, <1>7 DEF Relays
    <2>2. Buffers(c, t2)
      BY <1>1, <1>7 DEF Buffers
    <2>3. Windows(s, c, t2)
      <3>1. Window(s, t2) = CHANNEL_WINDOW
        BY <1>7 DEF Window
      <3>2. t2.remaining + Charges(c, Holds(t2)) + t2.drained <= Window(s, t2)
        BY <1>4, <1>5, <1>6, <1>7, <1>8, <3>1, WindowAssumption
      <3> QED BY <1>7, <3>2 DEF Windows
    <2> QED BY <2>1, <2>2, <2>3 DEF Sane
  <1>10. Turns(s, c, t, t2, r)
    <2>1. Hearkens(c, r, t2)
      BY <1>2, <1>7, <1>8 DEF Hearkens, Held
    <2> QED BY <1>7, <1>8, <1>9, <2>1 DEF Turns, Got
  <1>11. Goes(s, c, t, t2, r, Gone(s))
    BY <1>3, <1>7 DEF Goes, Begun, Final
  <1>12. Spends(s, c, t2, r) <= Spends(s, c, t, r)
    <2>1. Spends(s, c, t2, r) = Spends(s, c, t, r)
      BY <1>3, <1>7 DEF Spends, Lift
    <2>2. Spends(s, c, t, r) \in Nat
      BY <1>0, <1>1, <1>2, SpendsNat
    <2> QED BY <2>1, <2>2
  <1>13. Leaves(s, c, t, t2, r, 0)
    <2> DEFINE d == CHANNEL_WINDOW - INITIAL_WINDOW
    <2>1. d \in Nat
      BY WindowAssumption
    <2> HIDE DEF d
    <2>2. Lift("ctl", r, t) = 0 /\ Lift("ctl", r, t2) \in 0..d
      BY <1>4, <1>7, <2>1 DEF Lift, d
    <2>3. Admitted("ctl", t) = t.remaining /\ Admitted("ctl", t2) = t.remaining + d
      BY <1>3, <1>6, <1>7 DEF Admitted, d
    <2>4. PICK x \in Nat : /\ Spends("ctl", c, r, t) = x + Lift("ctl", r, t)
                           /\ Spends("ctl", c, r, t2) = x + Lift("ctl", r, t2)
      <3> DEFINE x == (IF r.phase = "none" THEN Start("ctl") ELSE r.credit) + r.allow + Charges(c, r.frame)
      <3>1. x \in Nat
        <4>1. r.credit \in Nat /\ r.allow \in Nat /\ r.frame \in Seq(Frames)
          BY <1>2, TaskTypes
        <4>2. Charges(c, r.frame) \in Nat /\ Start("ctl") \in Nat
          BY <4>1, CountsConcat, WindowAssumption DEF Start
        <4> QED BY <4>1, <4>2
      <3>2. Spends("ctl", c, r, t) = x + Lift("ctl", r, t)
           /\ Spends("ctl", c, r, t2) = x + Lift("ctl", r, t2)
        BY DEF Spends
      <3> HIDE DEF x
      <3> QED BY <3>1, <3>2
    <2> QED BY <1>0, <1>5, <2>1, <2>2, <2>3, <2>4 DEF Leaves
  <1>14. entries' \in [Sides -> SUBSET Channels] /\ Enters(s, c, t)
    BY <1>0, <1>3 DEF Enters, TypeOK
  <1>15. t.phase # "none" /\ s # "ctl"
    BY <1>3
  <1> HIDE DEF s
  <1> QED BY <1>0, <1>3, <1>7, <1>10, <1>11, <1>12, <1>13, <1>14, <1>15, QuietKeeps

LEMMA ConnectingRecvKeeps ==
  ASSUME MuxInv, NEW c \in Channels, ConnectingRecv(c)
  PROVE  MuxInv'
  <1> DEFINE s == "tgt"
             t == ep[s][c]
             r == ep[Peer(s)][c]
             m == Head(t.inbound)
             h == Tail(t.inbound)
             t1 == [t EXCEPT !.inbound = h]
  <1>0. s \in Sides /\ MuxAssumption /\ TypeOK /\ Peer(s) = "ctl"
    BY DEF MuxInv, Sides, Peer
  <1>1. t \in Tasks /\ Relays(t) /\ Buffers(c, t) /\ Windows(s, c, t)
    BY <1>0, TaskFacts
  <1>2. Hearkens(c, r, t) /\ r \in Tasks
    BY <1>0, HeldFacts
  <1>3. t.phase = "connecting" /\ t.inbound # <<>>
       /\ UNCHANGED <<entries, dataQ, ctrlQ, wire, tunnel>>
    BY DEF ConnectingRecv
  <1>4. ep' = [ep EXCEPT ![s][c] =
       CASE m.kind = "data" /\ pending_fits(Charges(c, t.pend), m.len)
              -> [t1 EXCEPT !.pend = Append(@, m)]
         [] m.kind = "data" /\ ~pending_fits(Charges(c, t.pend), m.len)
              -> [t1 EXCEPT !.phase = "closing", !.overran = TRUE]
         [] m.kind = "close" -> [t1 EXCEPT !.phase = "leaving"]
         [] m.kind = "violation" -> [t1 EXCEPT !.phase = "closing"]]
    BY DEF ConnectingRecv
  <1>5. /\ t.up = "idle" /\ t.down = "idle" /\ t.frame = <<>> /\ t.chunk = <<>> /\ t.allow = 0
             /\ t.downEnd = "none"
        /\ t.pend \in Seq(Frames) /\ t.inbound \in Seq(Frames) /\ t.written \in Nat
        /\ t.remaining \in Nat /\ t.drained \in Nat
    BY <1>1, <1>3, TaskTypes DEF Relays, Buffers
  <1>6. t.inbound = <<m>> \o h /\ m \in Frames /\ h \in Seq(Frames) /\ <<m>> \in Seq(Frames)
    BY <1>3, <1>5, QueueLaws
  <1>a. [t1 EXCEPT !.pend = Append(@, m)] = [t EXCEPT !.pend = Append(t.pend, m), !.inbound = h]
    BY <1>1 DEF Tasks
  <1>b. [t1 EXCEPT !.phase = "leaving"] = [t EXCEPT !.phase = "leaving", !.inbound = h]
    BY <1>1 DEF Tasks
  <1> HIDE DEF m, h, t1
  <1>7. Range(t.inbound) = Range(h) \cup {m}
    BY <1>6, RangeConcat, RangeSmall, ZenonT(30)
  <1>8. Payload(m, c) \/ (m.kind = "close" /\ m.c = c)
    BY <1>1, <1>7 DEF Buffers
  <1>9. Holds(t) = (t.pend \o <<m>>) \o h /\ t.pend \o <<m>> \in Seq(Frames)
    <2>1. Holds(t) = t.pend \o (<<m>> \o h)
      <3>1. <<>> \o t.pend = t.pend
        BY <1>5, QueueLaws
      <3> QED BY <1>5, <1>6, <3>1 DEF Holds
    <2>2. (t.pend \o <<m>>) \o h = t.pend \o (<<m>> \o h)
      BY <1>5, <1>6, ThreeQueues, Zenon
    <2>3. t.pend \o <<m>> \in Seq(Frames)
      BY <1>5, <1>6, TwoQueues, Zenon
    <2> QED BY <2>1, <2>2, <2>3
  <1>10. /\ Charges(c, Holds(t)) = Charges(c, t.pend) + Charges(c, <<m>>) + Charges(c, h)
         /\ Charges(c, t.pend) \in Nat /\ Charges(c, <<m>>) \in Nat /\ Charges(c, h) \in Nat
         /\ DataFrames(c, Holds(t)) = DataFrames(c, t.pend) + DataFrames(c, <<m>>) + DataFrames(c, h)
         /\ DataFrames(c, t.pend) \in Nat /\ DataFrames(c, h) \in Nat
    <2> DEFINE p == t.pend \o <<m>>
    <2>1. p \in Seq(Frames) /\ Holds(t) = p \o h
      BY <1>9
    <2>2. /\ Charges(c, p) = Charges(c, t.pend) + Charges(c, <<m>>) /\ Charges(c, t.pend) \in Nat
          /\ DataFrames(c, p) = DataFrames(c, t.pend) + DataFrames(c, <<m>>)
               /\ DataFrames(c, t.pend) \in Nat
      BY <1>5, <1>6, CountsConcat
    <2>3. Charges(c, <<m>>) \in Nat /\ Charges(c, h) \in Nat /\ DataFrames(c, h) \in Nat
      BY <1>6, CountsConcat
    <2> HIDE DEF p
    <2>4. Charges(c, p \o h) = Charges(c, p) + Charges(c, h)
         /\ DataFrames(c, p \o h) = DataFrames(c, p) + DataFrames(c, h)
      BY <1>6, <2>1, CountsConcat
    <2> QED BY <2>1, <2>2, <2>3, <2>4
  <1>11. t.remaining + Charges(c, Holds(t)) + t.drained <= INITIAL_WINDOW
    BY <1>1, <1>3 DEF Windows, Window
  <1>12. CASE Payload(m, c)
    <2> DEFINE t2 == [t EXCEPT !.pend = Append(t.pend, m), !.inbound = h]
    <2>1. m.kind = "data" /\ m.len \in Nat /\ charge(m.len) \in Nat
         /\ Charges(c, <<m>>) = charge(m.len)
      <3>1. m.kind = "data" /\ m.len \in Nat /\ IsData(m, c)
        BY <1>12, WindowAssumption DEF Payload, IsData
      <3>2. charge(m.len) \in Nat
        BY <3>1, WindowAssumption DEF charge, AtLeast
      <3> QED BY <1>6, <3>1, <3>2, CountsSmall
    <2>2. pending_fits(Charges(c, t.pend), m.len)
      BY <1>5, <1>10, <1>11, <2>1, WindowAssumption, SMTT(30) DEF pending_fits
    <2>3. ep' = [ep EXCEPT ![s][c] = t2]
      BY <1>4, <1>a, <2>1, <2>2
    <2>4. Append(t.pend, m) = t.pend \o <<m>>
      BY <1>5, <1>6, QueueLaws
    <2>5. /\ t2 \in Tasks /\ ReceivesOnly(t, t2) /\ t2.pend = t.pend \o <<m>> /\ t2.inbound = h
          /\ t2.chunk = t.chunk /\ t2.down = t.down /\ t2.downEnd = t.downEnd
          /\ t2.written = t.written /\ t2.remaining = t.remaining /\ t2.drained = t.drained
      <3>1. t2 = [t EXCEPT !.pend = t.pend \o <<m>>, !.inbound = h]
        BY <2>4
      <3>2. t2 \in Tasks
        BY <1>1, <1>6, <1>9, <3>1 DEF Tasks
      <3>3. /\ t2.pend = t.pend \o <<m>> /\ t2.inbound = h
            /\ t2.chunk = t.chunk /\ t2.down = t.down /\ t2.downEnd = t.downEnd
            /\ t2.written = t.written /\ t2.remaining = t.remaining /\ t2.drained = t.drained
        BY <1>1, <2>4 DEF Tasks
      <3>4. ReceivesOnly(t, t2)
        BY <1>1, ZenonT(30) DEF ReceivesOnly, Tasks
      <3> QED BY <3>2, <3>3, <3>4
    <2> HIDE DEF t2
    <2>6. /\ t2.phase = t.phase /\ t2.up = t.up /\ t2.allow = t.allow /\ t2.frame = t.frame
               /\ t2.sent = t.sent
          /\ t2.overran = t.overran
      BY <1>1, <2>5, OtherFields
    <2>7. Holds(t2) = Holds(t)
      <3>1. <<>> \o (t.pend \o <<m>>) = t.pend \o <<m>>
        BY <1>9, QueueLaws
      <3> QED BY <1>5, <1>9, <2>5, <3>1 DEF Holds
    <2>8. Relays(t2)
      BY <1>1, <1>3, <2>5, <2>6 DEF Relays
    <2>9. Buffers(c, t2)
      <3>1. Range(t2.pend) = Range(t.pend) \cup {m}
        BY <1>5, <1>6, <2>5, RangeConcat, RangeSmall
      <3> QED BY <1>1, <1>5, <1>7, <1>12, <2>5, <2>6, <3>1 DEF Buffers
    <2> HIDE DEF s
    <2> QED BY <1>0, <1>3, <1>5, <1>7, <2>3, <2>5, <2>7, <2>8, <2>9, MovesKeeps
  <1>13. CASE m.kind = "close" /\ m.c = c
    <2> DEFINE t2 == [t EXCEPT !.phase = "leaving", !.inbound = h]
    <2>1. ep' = [ep EXCEPT ![s][c] = t2]
      BY <1>4, <1>13, <1>b
    <2>2. /\ t2 \in Tasks /\ t2.phase = "leaving" /\ t2.up = t.up /\ t2.down = t.down
          /\ t2.downEnd = t.downEnd /\ t2.chunk = t.chunk /\ t2.pend = t.pend
          /\ t2.inbound = h /\ t2.remaining = t.remaining /\ t2.drained = t.drained
          /\ t2.allow = t.allow /\ t2.frame = t.frame /\ t2.credit = t.credit /\ t2.sent = t.sent
          /\ t2.granted = t.granted /\ t2.opened = t.opened /\ t2.overran = t.overran
               /\ t2.written = t.written
      BY <1>1, <1>6 DEF Tasks
    <2> HIDE DEF t2
    <2>3. Holds(t2) = t.pend \o h
      <3>1. <<>> \o t.pend = t.pend
        BY <1>5, QueueLaws
      <3> QED BY <1>5, <2>2, <3>1 DEF Holds
    <2>4. /\ DataFrames(c, <<m>>) = 0 /\ Charges(c, <<m>>) = 0
      BY <1>6, <1>13, CountsSmall DEF IsData
    <2>5. /\ DataFrames(c, Holds(t2)) = DataFrames(c, Holds(t))
               /\ Charges(c, Holds(t2)) = Charges(c, Holds(t))
      <3>1. /\ DataFrames(c, Holds(t2)) = DataFrames(c, t.pend) + DataFrames(c, h)
            /\ Charges(c, Holds(t2)) = Charges(c, t.pend) + Charges(c, h)
        BY <1>5, <1>6, <2>3, CountsConcat
      <3> QED BY <1>10, <2>4, <3>1
    <2>6. Hearkens(c, r, t2)
      <3> DEFINE w == t.written
                 d == DataFrames(c, t.pend)
      <3>1. Numbered(c, (t.pend \o <<m>>) \o h, w) /\ EndsLast(c, (t.pend \o <<m>>) \o h, w, r.sent)
        BY <1>2, <1>5, <1>9 DEF Hearkens, Held
      <3>2. DataFrames(c, t.pend \o <<m>>) = d /\ w + d \in Nat
        <4>1. DataFrames(c, t.pend \o <<m>>) = d + DataFrames(c, <<m>>)
          BY <1>5, <1>6, CountsConcat
        <4> QED BY <1>5, <1>10, <2>4, <4>1
      <3>3. /\ Numbered(c, t.pend \o <<m>>, w) /\ Numbered(c, h, w + d)
            /\ EndsLast(c, t.pend \o <<m>>, w, r.sent) /\ EndsLast(c, h, w + d, r.sent)
        BY <1>5, <1>6, <1>9, <3>1, <3>2, RunsConcat
      <3>4. Numbered(c, t.pend, w) /\ EndsLast(c, t.pend, w, r.sent)
        BY <1>5, <1>6, <3>3, RunsConcat
      <3>5. Numbered(c, t.pend \o h, w) /\ EndsLast(c, t.pend \o h, w, r.sent)
        BY <1>5, <1>6, <3>3, <3>4, RunsConcat
      <3>6. Held(c, r, t2)
        BY <1>5, <2>2, <2>3, <3>5 DEF Held
      <3>7. (\E x \in Range(t2.inbound) : Ends(x, c)) \/ t2.downEnd = "PeerClosed"
           => r.phase \in Final
        BY <1>2, <1>7, <2>2 DEF Hearkens
      <3> QED BY <3>6, <3>7 DEF Hearkens
    <2>7. Sane(s, c, t2)
      <3>1. Relays(t2)
        BY <1>1, <1>3, <1>5, <2>2 DEF Relays
      <3>2. Buffers(c, t2)
        BY <1>1, <1>5, <1>7, <2>2 DEF Buffers
      <3>3. Windows(s, c, t2)
        BY <1>1, <1>3, <2>2, <2>5 DEF Windows, Window
      <3> QED BY <3>1, <3>2, <3>3 DEF Sane
    <2>8. Turns(s, c, t, t2, r)
      BY <1>5, <2>2, <2>5, <2>6, <2>7 DEF Turns, Got
    <2>9. Goes(s, c, t, t2, r, Gone(s))
      BY <1>3, <2>2 DEF Goes, Begun, Final
    <2>10. Spends(s, c, t2, r) <= Spends(s, c, t, r)
      <3>1. Spends(s, c, t2, r) = Spends(s, c, t, r)
        BY <1>3, <2>2 DEF Spends, Lift
      <3>2. Spends(s, c, t, r) \in Nat
        BY <1>0, <1>1, <1>2, SpendsNat
      <3> QED BY <3>1, <3>2
    <2>11. Leaves(s, c, t, t2, r, 0)
      <3>1. Spends(Peer(s), c, r, t2) = Spends(Peer(s), c, r, t)
           /\ Admitted(Peer(s), t2) = Admitted(Peer(s), t)
        BY <1>3, <2>2 DEF Spends, Admitted, Lift
      <3>2. Spends(Peer(s), c, r, t) \in Nat /\ Admitted(Peer(s), t) \in Nat
        BY <1>0, <1>1, <1>2, Others, SpendsNat
      <3> QED BY <3>1, <3>2 DEF Leaves
    <2>12. entries' \in [Sides -> SUBSET Channels] /\ Enters(s, c, t) /\ t.phase # "none"
         /\ s # "ctl"
      BY <1>0, <1>3 DEF Enters, TypeOK
    <2> HIDE DEF s
    <2> QED BY <1>0, <1>3, <2>1, <2>2, <2>8, <2>9, <2>10, <2>11, <2>12, QuietKeeps
  <1> QED BY <1>8, <1>12, <1>13

-----------------------------------------------------------------------------
(* The steps of a loop that touch no task: frames go from the queues to the
   stream, or are lost with an end of it.                                  *)

\* The stream loses frames: all those that nobody will read, or the last of
\* those that nobody will follow.
Shrinks(c, q, q2, gone, lost) ==
  /\ Range(q2) \subseteq Range(q) /\ Opens(c, q2) <= Opens(c, q) /\ Updates(c, q2) <= Updates(c, q)
  /\ q2 = q \/ lost \/ (gone /\ \E rest \in Seq(Frames) : q = q2 \o rest)

LEMMA DirectionShrinks ==
  ASSUME NEW s \in Sides, NEW c, NEW t \in Tasks, NEW r \in Tasks, NEW q \in Seq(Frames),
       NEW q2 \in Seq(Frames),
         NEW k, NEW k2, NEW gone, NEW gone2, NEW hears, NEW hears2, NEW admits, NEW admits2,
         NEW a \in Nat, NEW a2 \in Nat, NEW lost,
         Direction(s, c, t, r, q, k, gone, hears, admits, a), Shrinks(c, q, q2, gone2, lost),
         Range(k2) \subseteq Range(k), gone => gone2, lost => ~hears2 /\ ~admits2,
         hears2 => hears, admits2 => admits, a2 <= a
  PROVE  Direction(s, c, t, r, q2, k2, gone2, hears2, admits2, a2)
  <1>1. Range(q2) \subseteq Range(q)
    BY DEF Shrinks
  <1>2. Named(c, t, q2) /\ Named(c, t, k2)
    BY <1>1 DEF Direction, Named
  <1>3. Finals(c, t, r, q2) /\ Held(c, t, r)
    BY <1>1 DEF Direction, Finals
  <1>4. Got(c, r) \in Nat
    BY GotNat
  <1>5. CASE q2 = q
    <2>1. hears2 => Carried(c, t, r, q2, gone2)
      BY <1>5 DEF Direction, Carried
    <2>2. admits2 => Covered(s, c, t, r, q2, a2)
      <3>1. Spends(s, c, t, r) \in Nat /\ Admitted(s, r) \in Nat /\ Charges(c, q) \in Nat
        BY SpendsNat, CountsConcat
      <3> QED BY <1>5, <3>1 DEF Direction, Covered
    <2> QED BY <1>2, <1>3, <2>1, <2>2 DEF Direction
  <1>6. CASE lost
    BY <1>2, <1>3, <1>6 DEF Direction
  <1>7. CASE gone2 /\ \E rest \in Seq(Frames) : q = q2 \o rest
    <2>1. PICK rest \in Seq(Frames) : q = q2 \o rest
      BY <1>7
    <2>2. hears2 => Carried(c, t, r, q2, gone2)
      <3> HAVE hears2
      <3>1. Numbered(c, q2 \o rest, Got(c, r)) /\ EndsLast(c, q2 \o rest, Got(c, r), t.sent)
        BY <2>1 DEF Direction, Carried
      <3>2. Numbered(c, q2, Got(c, r)) /\ EndsLast(c, q2, Got(c, r), t.sent)
        BY <1>4, <3>1, RunsConcat
      <3> QED BY <1>7, <3>2 DEF Carried
    <2>3. admits2 => Covered(s, c, t, r, q2, a2)
      <3>1. Spends(s, c, t, r) \in Nat /\ Admitted(s, r) \in Nat
        BY SpendsNat
      <3>2. Charges(c, q) = Charges(c, q2) + Charges(c, rest) /\ Charges(c, q2) \in Nat
           /\ Charges(c, rest) \in Nat
        BY <2>1, CountsConcat
      <3> QED BY <3>1, <3>2 DEF Direction, Covered
    <2> QED BY <1>2, <1>3, <2>2, <2>3 DEF Direction
  <1> QED BY <1>5, <1>6, <1>7 DEF Shrinks

LEMMA OpeningShrinks ==
  ASSUME NEW c, NEW t, NEW r, NEW q \in Seq(Frames), NEW q2 \in Seq(Frames),
         NEW gone, NEW gone2, NEW lost, NEW lost2,
         Opening(c, t, r, q, gone, lost), Shrinks(c, q, q2, gone2, lost2), gone => gone2, lost
              => lost2
  PROVE  Opening(c, t, r, q2, gone2, lost2)
  <1> DEFINE b == IF r.phase = "none" THEN 0 ELSE 1
  <1>1. Opens(c, q2) <= Opens(c, q) /\ Opens(c, q) \in Nat /\ Opens(c, q2) \in Nat
    BY CountsConcat DEF Shrinks
  <1>2. b \in Nat
    OBVIOUS
  <1>3. /\ r.phase # "none" => Begun(t)
        /\ Opens(c, q) <= 1
        /\ r.phase # "none" \/ ~Begun(t) => Opens(c, q) = 0
        /\ r.phase = "none" /\ t.phase = "relay" /\ ~gone /\ ~lost => Opens(c, q) = 1
        /\ lost \/ OpenFirst(c, q, b)
    BY DEF Opening
  <1>4. lost2 \/ OpenFirst(c, q2, b)
    <2>1. CASE q2 = q
      BY <1>3, <2>1
    <2>2. CASE \E rest \in Seq(Frames) : q = q2 \o rest
      <3>1. PICK rest \in Seq(Frames) : q = q2 \o rest
        BY <2>2
      <3>2. OpenFirst(c, q2 \o rest, b) => OpenFirst(c, q2, b)
        BY <1>2, RunsConcat
      <3> QED BY <1>3, <3>1, <3>2
    <2> QED BY <2>1, <2>2 DEF Shrinks
  <1>5. r.phase = "none" /\ t.phase = "relay" /\ ~gone2 /\ ~lost2 => Opens(c, q2) = 1
    BY <1>3 DEF Shrinks
  <1> HIDE DEF b
  <1>6. OpenFirst(c, q2, IF r.phase = "none" THEN 0 ELSE 1) <=> OpenFirst(c, q2, b)
    BY DEF b
  <1> QED BY <1>1, <1>3, <1>4, <1>5, <1>6 DEF Opening

LEMMA ShrinkKeeps ==
  ASSUME MuxInv, TypeOK', ep' = ep, Range(ctrlQ') \subseteq Range(ctrlQ),
         \A s \in Sides, c \in Channels :
           /\ entries'[s] \subseteq entries[s]
           /\ Gone(s) => Gone(s)'
           /\ Shrinks(c, Stream(s), Stream(s)', Gone(s)', Gone(Peer(s))')
           /\ Range(Ctrl(s)') \subseteq Range(Ctrl(s))
                /\ Updates(c, Ctrl(s)') <= Updates(c, Ctrl(s))
  PROVE  MuxInv'
  <1>0. TypeOK /\ MuxAssumption
    BY DEF MuxInv
  <1>1. ASSUME NEW c \in Channels PROVE Channel(c)'
    <2>0. Channel(c)
      BY DEF MuxInv
    <2>1. \A s \in Sides : Sane(s, c, ep[s][c])' /\ (c \in entries[s] => ep[s][c].phase # "none")'
      BY <2>0 DEF Channel
    <2>2. \A s \in Sides : /\ (Hears(s, c)' => Hears(s, c)) /\ (Admits(s, c)' => Admits(s, c))
                           /\ (Gone(s)' => ~Hears(s, c)' /\ ~Admits(s, c)')
      BY DEF Hears, Admits, Over, RxOpen
    <2>3. \A s \in Sides : Announces(s, c) \in Nat /\ Announces(s, c)' \in Nat
         /\ Announces(s, c)' <= Announces(s, c)
      <3> TAKE s \in Sides
      <3>1. Updates(c, Stream(s)) \in Nat /\ Updates(c, Ctrl(s)) \in Nat
        BY <1>0, ChannelParts
      <3>2. Stream(s)' \in Seq(Frames) /\ Ctrl(s)' \in Seq(Frames)
        BY DEF TypeOK, Stream, Ctrl
      <3>3. Updates(c, Stream(s)') \in Nat /\ Updates(c, Ctrl(s)') \in Nat
        BY <3>2, CountsConcat
      <3>4. Updates(c, Stream(s)') <= Updates(c, Stream(s))
           /\ Updates(c, Ctrl(s)') <= Updates(c, Ctrl(s))
        BY DEF Shrinks
      <3> QED BY <3>1, <3>3, <3>4 DEF Announces
    <2>4. ASSUME NEW s \in Sides
          PROVE  Direction(s, c, ep[s][c], ep[Peer(s)][c], Stream(s), Ctrl(s), Gone(s),
                           Hears(Peer(s), c), Admits(Peer(s), c), Announces(Peer(s), c))'
      <3> DEFINE p == Peer(s)
                 t == ep[s][c]
                 r == ep[p][c]
      <3>1. p \in Sides /\ t \in Tasks /\ r \in Tasks /\ Stream(s) \in Seq(Frames)
        BY <1>0, Others, ChannelParts
      <3>2. Direction(s, c, t, r, Stream(s), Ctrl(s), Gone(s), Hears(p, c), Admits(p, c), Announces(p, c))
        BY <2>0 DEF Channel, Announces
      <3>3. Stream(s)' \in Seq(Frames)
        BY DEF TypeOK, Stream
      <3> HIDE DEF p, t, r
      <3>4. Direction(s, c, t, r, Stream(s)', Ctrl(s)', Gone(s)', Hears(p, c)', Admits(p, c)', Announces(p, c)')
        <4>1. /\ Shrinks(c, Stream(s), Stream(s)', Gone(s)', Gone(p)')
                   /\ Range(Ctrl(s)') \subseteq Range(Ctrl(s))
              /\ Gone(s) => Gone(s)'
          BY DEF p
        <4>2. /\ (Hears(p, c)' => Hears(p, c)) /\ (Admits(p, c)' => Admits(p, c))
              /\ (Gone(p)' => ~Hears(p, c)' /\ ~Admits(p, c)')
          BY <2>2, <3>1
        <4>3. Announces(p, c) \in Nat /\ Announces(p, c)' \in Nat
             /\ Announces(p, c)' <= Announces(p, c)
          BY <2>3, <3>1
        <4> QED BY <3>1, <3>2, <3>3, <4>1, <4>2, <4>3, DirectionShrinks
      <3> QED BY <3>4 DEF p, t, r
    <2>5. Opening(c, ep["ctl"][c], ep["tgt"][c], Stream("ctl"), Gone("ctl"), Gone("tgt"))'
      <3>1. "ctl" \in Sides /\ "tgt" \in Sides /\ Peer("ctl") = "tgt"
        BY DEF Sides, Peer
      <3>2. Opening(c, ep["ctl"][c], ep["tgt"][c], Stream("ctl"), Gone("ctl"), Gone("tgt"))
        BY <2>0 DEF Channel
      <3>3. Shrinks(c, Stream("ctl"), Stream("ctl")', Gone("ctl")', Gone("tgt")')
            /\ (Gone("ctl") => Gone("ctl")') /\ (Gone("tgt") => Gone("tgt")')
        BY <3>1
      <3>4. Stream("ctl") \in Seq(Frames) /\ Stream("ctl")' \in Seq(Frames)
        BY <1>0, <3>1 DEF TypeOK, Stream
      <3>5. Opening(c, ep["ctl"][c], ep["tgt"][c], Stream("ctl")', Gone("ctl")', Gone("tgt")')
        BY <3>2, <3>3, <3>4, OpeningShrinks
      <3> QED BY <3>5
    <2> QED BY <2>1, <2>4, <2>5 DEF Channel, Announces
  <1>2. \A m \in Range(ctrlQ') : m.kind = "update"
    BY DEF MuxInv
  <1> QED BY <1>0, <1>1, <1>2 DEF MuxInv

LEMMA ShrinksSame == ASSUME NEW c, NEW q \in Seq(Frames), NEW gone, NEW lost
     PROVE Shrinks(c, q, q, gone, lost)
  <1>1. Opens(c, q) \in Nat /\ Updates(c, q) \in Nat
    BY CountsConcat
  <1> QED BY <1>1 DEF Shrinks

LEMMA ShrinksEnds ==
  ASSUME NEW c, NEW p \in Seq(Frames), NEW q \in Seq(Frames), NEW gone, NEW lost
  PROVE  /\ gone => Shrinks(c, p \o q, p, gone, lost)
         /\ lost => Shrinks(c, p \o q, q, gone, lost)
         /\ lost => \A m \in Frames : Shrinks(c, (p \o <<m>>) \o q, p \o q, gone, lost)
  <1>1. /\ Range(p \o q) = Range(p) \cup Range(q)
        /\ Opens(c, p \o q) = Opens(c, p) + Opens(c, q)
             /\ Updates(c, p \o q) = Updates(c, p) + Updates(c, q)
        /\ Opens(c, p) \in Nat /\ Opens(c, q) \in Nat /\ Updates(c, p) \in Nat
             /\ Updates(c, q) \in Nat
    BY RangeConcat, CountsConcat
  <1>2. gone => Shrinks(c, p \o q, p, gone, lost)
    <2>1. \E rest \in Seq(Frames) : p \o q = p \o rest
      OBVIOUS
    <2>2. /\ Range(p) \subseteq Range(p \o q) /\ Opens(c, p) <= Opens(c, p \o q)
          /\ Updates(c, p) <= Updates(c, p \o q)
      BY <1>1
    <2> QED BY <2>1, <2>2, Zenon DEF Shrinks
  <1>3. lost => Shrinks(c, p \o q, q, gone, lost)
    BY <1>1 DEF Shrinks
  <1>4. ASSUME NEW m \in Frames, lost PROVE Shrinks(c, (p \o <<m>>) \o q, p \o q, gone, lost)
    <2> DEFINE r == p \o <<m>>
    <2>0. <<m>> \in Seq(Frames) /\ r \in Seq(Frames)
      OBVIOUS
    <2>1. /\ Range(r) = Range(p) \cup Range(<<m>>)
          /\ Opens(c, r) = Opens(c, p) + Opens(c, <<m>>)
               /\ Updates(c, r) = Updates(c, p) + Updates(c, <<m>>)
          /\ Opens(c, <<m>>) \in Nat /\ Updates(c, <<m>>) \in Nat
      BY <2>0, RangeConcat, CountsConcat
    <2> HIDE DEF r
    <2>2. /\ Range(r \o q) = Range(r) \cup Range(q)
          /\ Opens(c, r \o q) = Opens(c, r) + Opens(c, q)
               /\ Updates(c, r \o q) = Updates(c, r) + Updates(c, q)
      BY <2>0, RangeConcat, CountsConcat
    <2>3. Shrinks(c, r \o q, p \o q, gone, lost)
      BY <1>1, <1>4, <2>1, <2>2 DEF Shrinks
    <2> QED BY <2>3 DEF r
  <1> QED BY <1>2, <1>3, <1>4

\* The parts of the state's type.
LEMMA MuxTypes ==
  ASSUME MuxInv, NEW s \in Sides
  PROVE  /\ wire \in [Sides -> Seq(Frames)] /\ dataQ \in [Sides -> Seq(Frames)]
              /\ ctrlQ \in Seq(Frames)
         /\ wire[s] \in Seq(Frames) /\ dataQ[s] \in Seq(Frames) /\ Stream(s) \in Seq(Frames)
              /\ Ctrl(s) \in Seq(Frames)
         /\ dataQ["ctl"] \in Seq(Frames) /\ Len(dataQ["ctl"]) <= DATA_QUEUE_FRAMES
         /\ entries \in [Sides -> SUBSET Channels]
              /\ tunnel \in [Sides -> {"up", "cleared", "torn", "gone"}]
         /\ ep \in [Sides -> [Channels -> Tasks]] /\ DATA_QUEUE_FRAMES \in Nat
  BY DEF MuxInv, TypeOK, Stream, Ctrl, Sides, MuxAssumption

LEMMA CtrlShrinks ==
  ASSUME MuxInv, NEW s \in Sides, NEW c
  PROVE  Updates(c, Ctrl(s)) \in Nat /\ Updates(c, Ctrl(s)) <= Updates(c, Ctrl(s))
       /\ Updates(c, <<>>) <= Updates(c, Ctrl(s))
  <1>1. Updates(c, Ctrl(s)) \in Nat /\ Updates(c, <<>>) = 0
    BY MuxTypes, CountsConcat, CountsSmall
  <1> QED BY <1>1

LEMMA LoopBreaksKeeps ==
  ASSUME MuxInv, NEW s \in Sides, LoopBreaks(s) \/ RaiseTeardown(s)
  PROVE  MuxInv'
  <1>1. UNCHANGED <<ep, dataQ, ctrlQ, wire>>
    BY DEF LoopBreaks, RaiseTeardown
  <1>2. TypeOK'
    BY <1>1 DEF LoopBreaks, RaiseTeardown, MuxInv, TypeOK
  <1>3. \A x \in Sides : entries'[x] \subseteq entries[x] /\ (Gone(x) => Gone(x)')
    BY DEF LoopBreaks, RaiseTeardown, MuxInv, TypeOK, Gone
  <1>4. \A x \in Sides : Stream(x)' = Stream(x) /\ Ctrl(x)' = Ctrl(x)
    BY <1>1 DEF Stream, Ctrl
  <1>5. \A x \in Sides, c \in Channels :
          /\ Shrinks(c, Stream(x), Stream(x)', Gone(x)', Gone(Peer(x))')
          /\ Updates(c, Ctrl(x)') <= Updates(c, Ctrl(x))
    BY <1>4, MuxTypes, ShrinksSame, CtrlShrinks
  <1> QED BY <1>1, <1>2, <1>3, <1>4, <1>5, ShrinkKeeps

LEMMA LoopReturnsKeeps ==
  ASSUME MuxInv, NEW s \in Sides, LoopReturns(s)
  PROVE  MuxInv'
  <1> DEFINE p == Peer(s)
  <1>0. p \in Sides /\ p # s /\ Peer(p) = s /\ Sides = {s, p}
    BY Others
  <1>1. /\ wire \in [Sides -> Seq(Frames)] /\ dataQ \in [Sides -> Seq(Frames)]
             /\ ctrlQ \in Seq(Frames)
        /\ tunnel \in [Sides -> {"up", "cleared", "torn", "gone"}] /\ <<>> \in Seq(Frames)
    BY MuxTypes
  <1>2. /\ UNCHANGED <<ep, entries>> /\ tunnel'[s] = "gone" /\ tunnel'[p] = tunnel[p]
        /\ dataQ'[s] = <<>> /\ dataQ'[p] = dataQ[p] /\ wire'[s] = wire[s] /\ wire'[p] = <<>>
        /\ ctrlQ' = IF s = "ctl" THEN <<>> ELSE ctrlQ
    BY <1>0, <1>1 DEF LoopReturns
  <1>3. TypeOK'
    <2>1. dataQ'["ctl"] = <<>> \/ dataQ'["ctl"] = dataQ["ctl"]
      BY <1>0, <1>2 DEF Sides
    <2>2. Len(dataQ'["ctl"]) <= DATA_QUEUE_FRAMES
      BY <2>1, MuxTypes
    <2>3. /\ dataQ' \in [Sides -> Seq(Frames)] /\ wire' \in [Sides -> Seq(Frames)]
               /\ ctrlQ' \in Seq(Frames)
          /\ tunnel' \in [Sides -> {"up", "cleared", "torn", "gone"}]
      BY <1>1 DEF LoopReturns
    <2> QED BY <1>2, <2>2, <2>3 DEF TypeOK, MuxInv
  <1>4. wire[s] \in Seq(Frames) /\ dataQ[s] \in Seq(Frames) /\ wire[p] \in Seq(Frames)
       /\ dataQ[p] \in Seq(Frames)
    BY <1>0, <1>1
  <1>5. Stream(s)' = wire[s] /\ Stream(p)' = dataQ[p]
    BY <1>2, <1>4, QueueLaws DEF Stream
  <1>6. Gone(s)'
    BY <1>2 DEF Gone
  <1>7. ASSUME NEW c \in Channels
        PROVE  \A x \in Sides : Shrinks(c, Stream(x), Stream(x)', Gone(x)', Gone(Peer(x))')
    <2>1. Shrinks(c, wire[s] \o dataQ[s], wire[s], Gone(s)', Gone(p)')
      BY <1>4, <1>6, ShrinksEnds
    <2>2. Shrinks(c, wire[p] \o dataQ[p], dataQ[p], Gone(p)', Gone(s)')
      BY <1>4, <1>6, ShrinksEnds
    <2> QED BY <1>0, <1>5, <2>1, <2>2 DEF Stream
  <1>8. \A x \in Sides, c \in Channels :
          Range(Ctrl(x)') \subseteq Range(Ctrl(x)) /\ Updates(c, Ctrl(x)') <= Updates(c, Ctrl(x))
    <2> TAKE x \in Sides, c \in Channels
    <2>1. Ctrl(x)' = Ctrl(x) \/ Ctrl(x)' = <<>>
      BY <1>2 DEF Ctrl
    <2> QED BY <2>1, RangeSmall, CtrlShrinks
  <1>9. Range(ctrlQ') \subseteq Range(ctrlQ)
    BY <1>2, RangeSmall
  <1>10. \A x \in Sides : entries'[x] \subseteq entries[x] /\ (Gone(x) => Gone(x)')
    BY <1>0, <1>2 DEF Gone
  <1> QED BY <1>2, <1>3, <1>7, <1>8, <1>9, <1>10, ShrinkKeeps

LEMMA LoopDataKeeps ==
  ASSUME MuxInv, NEW s \in Sides, LoopData(s)
  PROVE  MuxInv'
  <1> DEFINE p == Peer(s)
             m == Head(dataQ[s])
             h == Tail(dataQ[s])
  <1>0. p \in Sides /\ p # s /\ Peer(p) = s /\ Sides = {s, p}
    BY Others
  <1>1. /\ wire \in [Sides -> Seq(Frames)] /\ dataQ \in [Sides -> Seq(Frames)]
        /\ wire[s] \in Seq(Frames) /\ dataQ[s] \in Seq(Frames) /\ Stream(p) \in Seq(Frames)
             /\ Stream(s) \in Seq(Frames)
    BY <1>0, MuxTypes
  <1>2. dataQ[s] # <<>> /\ UNCHANGED <<ep, entries, ctrlQ, tunnel>>
       /\ dataQ' = [dataQ EXCEPT ![s] = h]
        /\ wire' = IF Gone(p) THEN wire ELSE [wire EXCEPT ![s] = Append(wire[s], m)]
    BY <1>1 DEF LoopData, Transmit
  <1>3. /\ dataQ[s] = <<m>> \o h /\ m \in Frames /\ h \in Seq(Frames) /\ <<m>> \in Seq(Frames)
        /\ Append(wire[s], m) = wire[s] \o <<m>> /\ wire[s] \o <<m>> \in Seq(Frames)
    <2>1. dataQ[s] = <<m>> \o h /\ m \in Frames /\ h \in Seq(Frames) /\ <<m>> \in Seq(Frames)
      BY <1>1, <1>2, QueueLaws
    <2> HIDE DEF m, h
    <2> QED BY <1>1, <2>1, QueueLaws, TwoQueues
  <1>a. Len(h) = Len(dataQ[s]) - 1
    BY <1>1, <1>2
  <1> HIDE DEF m, h
  <1>4. TypeOK'
    <2>1. dataQ' \in [Sides -> Seq(Frames)] /\ wire' \in [Sides -> Seq(Frames)]
      BY <1>1, <1>2, <1>3
    <2>2. (dataQ'["ctl"] = h /\ s = "ctl") \/ dataQ'["ctl"] = dataQ["ctl"]
      BY <1>0, <1>1, <1>2 DEF Sides
    <2>3. Len(dataQ'["ctl"]) <= DATA_QUEUE_FRAMES
      <3>1. Len(dataQ["ctl"]) <= DATA_QUEUE_FRAMES /\ Len(dataQ["ctl"]) \in Nat
           /\ DATA_QUEUE_FRAMES \in Nat
        BY MuxTypes
      <3> QED BY <1>a, <2>2, <3>1
    <2> QED BY <1>2, <2>1, <2>3 DEF TypeOK, MuxInv
  <1>5. Stream(p)' = Stream(p) /\ \A x \in Sides : Ctrl(x)' = Ctrl(x)
    BY <1>0, <1>1, <1>2 DEF Stream, Ctrl
  <1>6. Stream(s) = (wire[s] \o <<m>>) \o h
    <2>1. (wire[s] \o <<m>>) \o h = wire[s] \o (<<m>> \o h)
      BY <1>1, <1>3, ThreeQueues, ZenonT(30)
    <2> QED BY <1>3, <2>1, Zenon DEF Stream
  <1>7. ASSUME NEW c \in Channels PROVE Shrinks(c, Stream(s), Stream(s)', Gone(s)', Gone(p)')
    <2>1. CASE Gone(p)
      <3>1. Stream(s)' = wire[s] \o h /\ Gone(p)'
        BY <1>1, <1>2, <2>1 DEF Stream, Gone
      <3> QED BY <1>1, <1>3, <1>6, <3>1, ShrinksEnds
    <2>2. CASE ~Gone(p)
      <3>1. Stream(s)' = (wire[s] \o <<m>>) \o h
        BY <1>1, <1>2, <1>3, <2>2 DEF Stream
      <3>2. Stream(s)' = Stream(s)
        BY <1>6, <3>1
      <3> QED BY <1>1, <3>2, ShrinksSame
    <2> QED BY <2>1, <2>2
  <1>8. \A x \in Sides, c \in Channels :
          /\ Shrinks(c, Stream(x), Stream(x)', Gone(x)', Gone(Peer(x))')
          /\ Updates(c, Ctrl(x)') <= Updates(c, Ctrl(x))
    <2>1. \A c \in Channels : Shrinks(c, Stream(p), Stream(p)', Gone(p)', Gone(s)')
      BY <1>1, <1>5, ShrinksSame
    <2>2. \A x \in Sides, c \in Channels : Updates(c, Ctrl(x)') <= Updates(c, Ctrl(x))
      BY <1>5, CtrlShrinks
    <2> QED BY <1>0, <1>7, <2>1, <2>2
  <1>9. \A x \in Sides : entries'[x] \subseteq entries[x] /\ (Gone(x) => Gone(x)')
    BY <1>2 DEF Gone
  <1> QED BY <1>2, <1>4, <1>5, <1>8, <1>9, ShrinkKeeps

\* An update among the frames of a queue: only its amount tells.
Updated(c, q, q2, m) ==
  /\ DataFrames(c, q2) = DataFrames(c, q) /\ Opens(c, q2) = Opens(c, q)
  /\ Charges(c, q2) = Charges(c, q) /\ Updates(c, q2) = Updates(c, q) + m.len
  /\ \A a \in Nat : /\ Numbered(c, q2, a) <=> Numbered(c, q, a)
                    /\ OpenFirst(c, q2, a) <=> OpenFirst(c, q, a)
                    /\ \A n : EndsLast(c, q2, a, n) <=> EndsLast(c, q, a, n)
  /\ Range(q2) = Range(q) \cup {m}

LEMMA UpdateMiddle ==
  ASSUME NEW c, NEW p \in Seq(Frames), NEW q \in Seq(Frames), NEW m \in Frames,
       m.kind = "update", m.c = c
  PROVE  Updated(c, p \o q, (p \o <<m>>) \o q, m)
  <1> DEFINE r == p \o <<m>>
  <1>1. r \in Seq(Frames) /\ <<m>> \in Seq(Frames)
    OBVIOUS
  <1>2. ~IsData(m, c) /\ ~IsOpen(m, c) /\ ~Ends(m, c)
    BY DEF IsData, IsOpen, Ends
  <1>3. /\ DataFrames(c, <<m>>) = 0 /\ Opens(c, <<m>>) = 0 /\ Charges(c, <<m>>) = 0
             /\ Updates(c, <<m>>) = m.len
        /\ \A a \in Nat : Numbered(c, <<m>>, a) /\ OpenFirst(c, <<m>>, a) /\ \A n
             : EndsLast(c, <<m>>, a, n)
    BY <1>2, CountsSmall, RunsSmall
  <1>a. m.len \in Nat
    BY DEF Frames
  <1>4. /\ DataFrames(c, p) \in Nat /\ Opens(c, p) \in Nat
        /\ Charges(c, p) \in Nat /\ Updates(c, p) \in Nat
        /\ DataFrames(c, r) = DataFrames(c, p) /\ Opens(c, r) = Opens(c, p)
        /\ Charges(c, r) = Charges(c, p) /\ Updates(c, r) = Updates(c, p) + m.len
    <2>1. /\ DataFrames(c, r) = DataFrames(c, p) + 0 /\ Opens(c, r) = Opens(c, p) + 0
          /\ Charges(c, r) = Charges(c, p) + 0 /\ Updates(c, r) = Updates(c, p) + m.len
      <3>1. /\ DataFrames(c, r) = DataFrames(c, p) + DataFrames(c, <<m>>)
            /\ Opens(c, r) = Opens(c, p) + Opens(c, <<m>>)
            /\ Charges(c, r) = Charges(c, p) + Charges(c, <<m>>)
            /\ Updates(c, r) = Updates(c, p) + Updates(c, <<m>>)
        BY <1>1, CountsConcat
      <3> QED BY <1>3, <3>1, Zenon
    <2>2. /\ DataFrames(c, p) \in Nat /\ Opens(c, p) \in Nat
          /\ Charges(c, p) \in Nat /\ Updates(c, p) \in Nat
      BY CountsConcat
    <2> HIDE DEF r
    <2> QED BY <2>1, <2>2
  <1>5. ASSUME NEW a \in Nat
        PROVE  /\ Numbered(c, r, a) <=> Numbered(c, p, a)
               /\ OpenFirst(c, r, a) <=> OpenFirst(c, p, a)
               /\ \A n : EndsLast(c, r, a, n) <=> EndsLast(c, p, a, n)
    <2>1. a + DataFrames(c, p) \in Nat /\ a + Opens(c, p) \in Nat
      BY <1>4
    <2> QED BY <1>1, <1>3, <2>1, RunsConcat
  <1>6. Range(r) = Range(p) \cup {m}
    BY <1>1, RangeConcat, RangeSmall, ZenonT(30)
  <1> HIDE DEF r
  <1>7. /\ DataFrames(c, r \o q) = DataFrames(c, p \o q) /\ Opens(c, r \o q) = Opens(c, p \o q)
        /\ Charges(c, r \o q) = Charges(c, p \o q)
    BY <1>1, <1>4, CountsConcat
  <1>b. Updates(c, r \o q) = Updates(c, p \o q) + m.len
    <2>1. /\ Updates(c, r \o q) = Updates(c, r) + Updates(c, q)
               /\ Updates(c, p \o q) = Updates(c, p) + Updates(c, q)
          /\ Updates(c, q) \in Nat
      BY <1>1, CountsConcat
    <2> QED BY <1>4, <1>a, <2>1
  <1>8. \A a \in Nat : /\ Numbered(c, r \o q, a) <=> Numbered(c, p \o q, a)
                       /\ OpenFirst(c, r \o q, a) <=> OpenFirst(c, p \o q, a)
                       /\ \A n : EndsLast(c, r \o q, a, n) <=> EndsLast(c, p \o q, a, n)
    <2> TAKE a \in Nat
    <2>1. /\ Numbered(c, r \o q, a) <=> Numbered(c, r, a) /\ Numbered(c, q, a + DataFrames(c, r))
          /\ \A n : EndsLast(c, r \o q, a, n) <=> EndsLast(c, r, a, n)
               /\ EndsLast(c, q, a + DataFrames(c, r), n)
          /\ OpenFirst(c, r \o q, a) <=> OpenFirst(c, r, a) /\ OpenFirst(c, q, a + Opens(c, r))
      BY <1>1, RunsConcat
    <2>2. /\ Numbered(c, p \o q, a) <=> Numbered(c, p, a) /\ Numbered(c, q, a + DataFrames(c, p))
          /\ \A n : EndsLast(c, p \o q, a, n) <=> EndsLast(c, p, a, n)
               /\ EndsLast(c, q, a + DataFrames(c, p), n)
          /\ OpenFirst(c, p \o q, a) <=> OpenFirst(c, p, a) /\ OpenFirst(c, q, a + Opens(c, p))
      BY RunsConcat
    <2> QED BY <1>4, <1>5, <2>1, <2>2, Zenon
  <1>9. Range(r \o q) = Range(p \o q) \cup {m}
    BY <1>1, <1>6, RangeConcat
  <1> QED BY <1>7, <1>8, <1>9, <1>b, Zenon DEF r, Updated

LEMMA LoopControlKeeps ==
  ASSUME MuxInv, LoopControl
  PROVE  MuxInv'
  <1> DEFINE m == Head(ctrlQ)
             h == Tail(ctrlQ)
  <1>0. "ctl" \in Sides /\ "tgt" \in Sides /\ Peer("ctl") = "tgt" /\ Peer("tgt") = "ctl"
       /\ Sides = {"ctl", "tgt"}
        /\ TypeOK /\ MuxAssumption
    BY DEF Sides, Peer, MuxInv
  <1>1. /\ wire \in [Sides -> Seq(Frames)] /\ ctrlQ \in Seq(Frames)
        /\ wire["ctl"] \in Seq(Frames) /\ dataQ["ctl"] \in Seq(Frames)
             /\ Stream("ctl") \in Seq(Frames) /\ Stream("tgt") \in Seq(Frames)
    BY <1>0, MuxTypes
  <1>2. ctrlQ # <<>> /\ UNCHANGED <<ep, entries, dataQ, tunnel>> /\ ctrlQ' = h
        /\ wire' = IF Gone("tgt") THEN wire ELSE [wire EXCEPT !["ctl"] = Append(wire["ctl"], m)]
    BY <1>0, <1>1 DEF LoopControl, Transmit
  <1>3. /\ ctrlQ = <<m>> \o h /\ m \in Frames /\ h \in Seq(Frames) /\ <<m>> \in Seq(Frames)
        /\ Append(wire["ctl"], m) = wire["ctl"] \o <<m>> /\ wire["ctl"] \o <<m>> \in Seq(Frames)
    <2>1. ctrlQ = <<m>> \o h /\ m \in Frames /\ h \in Seq(Frames) /\ <<m>> \in Seq(Frames)
      BY <1>1, <1>2, QueueLaws
    <2> HIDE DEF m, h
    <2> QED BY <1>1, <2>1, QueueLaws, TwoQueues
  <1> HIDE DEF m, h
  <1>4. Range(ctrlQ) = Range(h) \cup {m} /\ m.kind = "update"
    <2>1. Range(ctrlQ) = Range(h) \cup {m}
      <3>0. h \in Seq(Frames) /\ <<m>> \in Seq(Frames) /\ ctrlQ = <<m>> \o h
        BY <1>3
      <3>1. Range(<<m>> \o h) = Range(<<m>>) \cup Range(h)
        BY <3>0, RangeConcat
      <3>2. Range(<<m>>) = {m}
        BY RangeSmall
      <3> QED BY <3>0, <3>1, <3>2, Zenon
    <2> QED BY <2>1 DEF MuxInv
  <1>5. TypeOK'
    <2>1. wire' \in [Sides -> Seq(Frames)] /\ ctrlQ' \in Seq(Frames)
      BY <1>1, <1>2, <1>3
    <2> QED BY <1>2, <2>1 DEF TypeOK, MuxInv
  <1>6. /\ Stream("tgt")' = Stream("tgt") /\ Ctrl("tgt")' = Ctrl("tgt")
        /\ Ctrl("ctl") = <<m>> \o h /\ Ctrl("ctl")' = h /\ Ctrl("tgt") = <<>>
    BY <1>0, <1>1, <1>2, <1>3 DEF Stream, Ctrl
  <1>7. \A c \in Channels : /\ Updates(c, <<m>> \o h) = Updates(c, <<m>>) + Updates(c, h)
                            /\ Updates(c, <<m>>) \in Nat /\ Updates(c, h) \in Nat
    BY <1>3, CountsConcat
  <1>8. CASE Gone("tgt")
    <2>1. Stream("ctl")' = Stream("ctl")
      BY <1>2, <1>8 DEF Stream
    <2>2. \A x \in Sides, c \in Channels : Shrinks(c, Stream(x), Stream(x)', Gone(x)', Gone(Peer(x))')
      BY <1>0, <1>1, <1>6, <2>1, ShrinksSame
    <2>3. \A x \in Sides, c \in Channels :
            Range(Ctrl(x)') \subseteq Range(Ctrl(x)) /\ Updates(c, Ctrl(x)') <= Updates(c, Ctrl(x))
      <3>1. \A c \in Channels : Updates(c, h) <= Updates(c, <<m>> \o h)
        BY <1>7
      <3>2. Range(h) \subseteq Range(<<m>> \o h)
        BY <1>3, <1>4
      <3>3. \A c \in Channels : Updates(c, Ctrl("tgt")) <= Updates(c, Ctrl("tgt"))
        BY <1>0, CtrlShrinks
      <3> QED BY <1>0, <1>6, <3>1, <3>2, <3>3
    <2>4. \A x \in Sides : entries'[x] \subseteq entries[x] /\ (Gone(x) => Gone(x)')
      BY <1>2 DEF Gone
    <2> QED BY <1>2, <1>4, <1>5, <2>2, <2>3, <2>4, ShrinkKeeps
  <1>9. CASE ~Gone("tgt")
    <2> DEFINE q == Stream("ctl")
               q2 == (wire["ctl"] \o <<m>>) \o dataQ["ctl"]
    <2>1. Stream("ctl")' = q2 /\ q = wire["ctl"] \o dataQ["ctl"] /\ q2 \in Seq(Frames)
      <3>1. Stream("ctl")' = q2 /\ q = wire["ctl"] \o dataQ["ctl"]
        BY <1>0, <1>1, <1>2, <1>3, <1>9 DEF Stream
      <3> QED BY <1>1, <1>3, <3>1, TwoQueues
    <2>2. ASSUME NEW d \in Channels, d # m.c PROVE Channel(d)'
      <3>1. Alike(d, q, q2) /\ Alike(d, Ctrl("ctl"), Ctrl("ctl")')
        <4>1. Alike(d, wire["ctl"] \o dataQ["ctl"], q2)
          BY <1>1, <1>3, <2>2, AlikeMiddle
        <4>2. Alike(d, <<m>> \o h, h)
          BY <1>3, <2>2, AlikeEnds
        <4> QED BY <1>6, <2>1, <4>1, <4>2
      <3>2. \A x \in Sides : Alike(d, Stream(x), Stream(x)') /\ Alike(d, Ctrl(x), Ctrl(x)')
        BY <1>0, <1>6, <2>1, <3>1, AlikeSame
      <3>3. Channel(d) /\ \A x \in Sides : ep'[x][d] = ep[x][d]
           /\ (d \in entries'[x] => d \in entries[x])
        BY <1>2 DEF MuxInv
      <3> QED BY <1>0, <1>2, <1>5, <3>2, <3>3, OtherChannel
    <2>3. ASSUME NEW c \in Channels, c = m.c PROVE Channel(c)'
      <3> DEFINE t == ep["ctl"][c]
                 r == ep["tgt"][c]
      <3>0. Channel(c) /\ t \in Tasks /\ r \in Tasks
        BY <1>0, TaskFacts DEF MuxInv
      <3>1. /\ DataFrames(c, q2) = DataFrames(c, q) /\ Opens(c, q2) = Opens(c, q)
            /\ Charges(c, q2) = Charges(c, q) /\ Updates(c, q2) = Updates(c, q) + m.len
            /\ \A a \in Nat : /\ Numbered(c, q2, a) <=> Numbered(c, q, a)
                              /\ OpenFirst(c, q2, a) <=> OpenFirst(c, q, a)
                              /\ \A n : EndsLast(c, q2, a, n) <=> EndsLast(c, q, a, n)
            /\ Range(q2) = Range(q) \cup {m}
        <4>1. /\ wire["ctl"] \in Seq(Frames) /\ dataQ["ctl"] \in Seq(Frames) /\ m \in Frames
              /\ m.kind = "update" /\ m.c = c /\ q = wire["ctl"] \o dataQ["ctl"]
              /\ q2 = (wire["ctl"] \o <<m>>) \o dataQ["ctl"]
          BY <1>1, <1>3, <1>4, <2>1, <2>3
        <4> DEFINE w == wire["ctl"]
                   d == dataQ["ctl"]
        <4>2. w \in Seq(Frames) /\ d \in Seq(Frames) /\ q = w \o d /\ q2 = (w \o <<m>>) \o d
          BY <4>1
        <4> HIDE DEF q, q2, w, d
        <4>3. Updated(c, w \o d, (w \o <<m>>) \o d, m)
          BY <4>1, <4>2, UpdateMiddle, Zenon
        <4>4. Updated(c, q, q2, m)
          BY <4>2, <4>3, Zenon
        <4> QED BY <4>4, Zenon DEF Updated
      <3> HIDE DEF q, q2
      <3>2. /\ Gone("ctl")' = Gone("ctl") /\ Gone("tgt")' = Gone("tgt")
            /\ Hears("ctl", c)' = Hears("ctl", c) /\ Hears("tgt", c)' = Hears("tgt", c)
            /\ Admits("ctl", c)' = Admits("ctl", c) /\ Admits("tgt", c)' = Admits("tgt", c)
        BY <1>2 DEF Gone, Hears, Admits, Over, RxOpen
      <3>3. Announces("tgt", c)' = Announces("tgt", c)
        BY <1>6 DEF Announces
      <3>4. Announces("ctl", c)' = Announces("ctl", c)
        <4>1. Updates(c, <<m>>) = m.len
          BY <1>3, <1>4, <2>3, CountsSmall
        <4>2. Updates(c, q) \in Nat /\ m.len \in Nat
          BY <1>0, <1>3, <1>7, <4>1, ChannelParts DEF q
        <4>3. Announces("ctl", c) = Updates(c, q) + Updates(c, <<m>> \o h)
          BY <1>6 DEF Announces, q
        <4>4. Announces("ctl", c)' = Updates(c, q2) + Updates(c, h)
          BY <1>6, <2>1 DEF Announces
        <4> QED BY <1>7, <3>1, <4>1, <4>2, <4>3, <4>4
      <3>5. Direction("ctl", c, t, r, q, Ctrl("ctl"), Gone("ctl"), Hears("tgt", c), Admits("tgt", c), Announces("tgt", c))
        BY <1>0, <3>0 DEF Channel, Announces, q
      <3>6. Direction("ctl", c, t, r, q2, h, Gone("ctl"), Hears("tgt", c), Admits("tgt", c), Announces("tgt", c))
        <4>1. Named(c, t, q) /\ Named(c, t, <<m>> \o h) /\ Range(<<m>> \o h) = Range(h) \cup {m}
          BY <1>3, <1>4, <1>6, <3>5 DEF Direction
        <4>2. Named(c, t, q2) /\ Named(c, t, h)
          BY <3>1, <4>1 DEF Named
        <4>3. ~Ends(m, c)
          BY <1>4 DEF Ends
        <4>4. Finals(c, t, r, q2) /\ Held(c, t, r)
          BY <3>1, <3>5, <4>3 DEF Direction, Finals
        <4>5. Hears("tgt", c) => Carried(c, t, r, q2, Gone("ctl"))
          <5>1. Got(c, r) \in Nat
            BY <3>0, GotNat
          <5> QED BY <3>1, <3>5, <5>1 DEF Direction, Carried
        <4>6. Admits("tgt", c) => Covered("ctl", c, t, r, q2, Announces("tgt", c))
          BY <3>1, <3>5 DEF Direction, Covered
        <4> QED BY <4>2, <4>4, <4>5, <4>6 DEF Direction
      <3>7. Direction("tgt", c, r, t, Stream("tgt"), Ctrl("tgt"), Gone("tgt"), Hears("ctl", c), Admits("ctl", c), Announces("ctl", c))
        BY <1>0, <3>0 DEF Channel, Announces
      <3>8. \A x \in Sides :
              Direction(x, c, ep[x][c], ep[Peer(x)][c], Stream(x), Ctrl(x), Gone(x),
                        Hears(Peer(x), c), Admits(Peer(x), c), Announces(Peer(x), c))'
        <4>1. Direction("ctl", c, ep["ctl"][c], ep["tgt"][c], Stream("ctl"), Ctrl("ctl"), Gone("ctl"),
                        Hears("tgt", c), Admits("tgt", c), Announces("tgt", c))'
          BY <1>2, <1>6, <2>1, <3>2, <3>3, <3>6
        <4>2. Direction("tgt", c, ep["tgt"][c], ep["ctl"][c], Stream("tgt"), Ctrl("tgt"), Gone("tgt"),
                        Hears("ctl", c), Admits("ctl", c), Announces("ctl", c))'
          BY <1>2, <1>6, <3>2, <3>4, <3>7
        <4> QED BY <1>0, <4>1, <4>2
      <3>9. Opening(c, ep["ctl"][c], ep["tgt"][c], Stream("ctl"), Gone("ctl"), Gone("tgt"))'
        <4>1. Opening(c, t, r, q, Gone("ctl"), Gone("tgt"))
          BY <3>0 DEF Channel, q
        <4>2. OpenFirst(c, q2, IF r.phase = "none" THEN 0 ELSE 1)
             <=> OpenFirst(c, q, IF r.phase = "none" THEN 0 ELSE 1)
          <5>1. (IF r.phase = "none" THEN 0 ELSE 1) \in Nat
            OBVIOUS
          <5> QED BY <3>1, <5>1, Zenon
        <4>3. Opening(c, t, r, q2, Gone("ctl"), Gone("tgt"))
          BY <3>1, <4>1, <4>2, Zenon DEF Opening
        <4> QED BY <1>2, <2>1, <3>2, <4>3
      <3>10. \A x \in Sides : Sane(x, c, ep[x][c])'
           /\ (c \in entries[x] => ep[x][c].phase # "none")'
        BY <1>2, <3>0 DEF Channel
      <3> QED BY <3>8, <3>9, <3>10 DEF Channel, Announces
    <2>4. \A x \in Range(ctrlQ') : x.kind = "update"
      BY <1>2, <1>4 DEF MuxInv
    <2> QED BY <1>0, <1>5, <2>2, <2>3, <2>4 DEF MuxInv
  <1> QED BY <1>8, <1>9

-----------------------------------------------------------------------------
(* What a loop does with a frame of the stream. *)

LEMMA ReadTurn ==
  ASSUME TypeOK, TypeOK', NEW s \in Sides, NEW c \in Channels, NEW t2 \in Tasks,
         \A d \in Channels : Channel(d),
         ep' = [ep EXCEPT ![s][c] = t2], tunnel' = tunnel, ctrlQ' = ctrlQ,
         \A d \in Channels, x \in Sides : d # c => Alike(d, Stream(x), Stream(x)'),
         \A d \in Channels, x \in Sides : d \in entries'[x] => d \in entries[x] \/ (x = s /\ d = c),
         Sane(s, c, t2), c \in entries'[s] => t2.phase # "none",
         Direction(s, c, t2, ep[Peer(s)][c], Stream(s)', Ctrl(s), Gone(s),
                   Hears(Peer(s), c), Admits(Peer(s), c), Announces(Peer(s), c)'),
         Direction(Peer(s), c, ep[Peer(s)][c], t2, Stream(Peer(s))', Ctrl(Peer(s)), Gone(Peer(s)),
                   Hears(s, c)', Admits(s, c)', Announces(s, c)'),
         Opening(c, ep["ctl"][c], ep["tgt"][c], Stream("ctl"), Gone("ctl"), Gone("tgt"))'
  PROVE  \A d \in Channels : Channel(d)'
  <1> DEFINE p == Peer(s)
             r == ep[p][c]
  <1>0. p \in Sides /\ p # s /\ Peer(p) = s /\ Sides = {s, p}
    BY Others
  <1>1. /\ ep'[s][c] = t2 /\ ep'[p] = ep[p]
        /\ \A d \in Channels : d # c => ep'[s][d] = ep[s][d]
    BY <1>0 DEF TypeOK
  <1>2. \A x \in Sides : Ctrl(x)' = Ctrl(x) /\ Gone(x)' = Gone(x)
    BY DEF Ctrl, Gone
  <1>3. ASSUME NEW d \in Channels, d # c PROVE Channel(d)'
    <2>1. \A x \in Sides : Alike(d, Stream(x), Stream(x)') /\ Alike(d, Ctrl(x), Ctrl(x)')
      BY <1>2, <1>3, AlikeSame
    <2>2. \A x \in Sides : ep'[x][d] = ep[x][d] /\ (d \in entries'[x] => d \in entries[x])
      BY <1>0, <1>1, <1>3
    <2> QED BY <2>1, <2>2, OtherChannel
  <1>4. Channel(c)'
    <2>0. Channel(c)
      OBVIOUS
    <2>1. (Hears(p, c)' => Hears(p, c)) /\ (Admits(p, c)' => Admits(p, c))
      <3>1. c \in entries'[p] => c \in entries[p]
        BY <1>0
      <3> QED BY <1>0, <1>1, <1>2, <3>1 DEF Hears, Admits, Over, RxOpen
    <2>2. Direction(s, c, t2, r, Stream(s)', Ctrl(s), Gone(s), Hears(p, c)', Admits(p, c)', Announces(p, c)')
      BY <2>1 DEF Direction
    <2>3. \A x \in Sides :
            Direction(x, c, ep[x][c], ep[Peer(x)][c], Stream(x), Ctrl(x), Gone(x),
                      Hears(Peer(x), c), Admits(Peer(x), c), Announces(Peer(x), c))'
      <3>1. Direction(s, c, ep[s][c], ep[p][c], Stream(s), Ctrl(s), Gone(s), Hears(p, c), Admits(p, c), Announces(p, c))'
        BY <1>1, <1>2, <2>2
      <3>2. Direction(p, c, ep[p][c], ep[s][c], Stream(p), Ctrl(p), Gone(p), Hears(s, c), Admits(s, c), Announces(s, c))'
        BY <1>0, <1>1, <1>2
      <3> QED BY <1>0, <3>1, <3>2
    <2>4. \A x \in Sides : Sane(x, c, ep[x][c])' /\ (c \in entries[x] => ep[x][c].phase # "none")'
      <3>1. Sane(p, c, r) /\ (c \in entries[p] => r.phase # "none")
        BY <1>0, <2>0 DEF Channel
      <3>2. c \in entries'[p] => c \in entries[p]
        BY <1>0
      <3> QED BY <1>0, <1>1, <3>1, <3>2
    <2> QED BY <2>3, <2>4 DEF Channel, Announces
  <1> QED BY <1>3, <1>4

\* The stream after its first frame has been read.
LEMMA ReadStream ==
  ASSUME MuxInv, NEW s \in Sides, NEW kind, NEW m, Reads(s, m, kind), UNCHANGED <<ctrlQ, tunnel>>
  PROVE  /\ m \in Frames /\ m.kind = kind /\ m.c \in Channels /\ m.len \in Nat
         /\ wire' \in [Sides -> Seq(Frames)]
         /\ <<m>> \in Seq(Frames) /\ Tail(wire[Peer(s)]) \o dataQ[Peer(s)] \in Seq(Frames)
         /\ Stream(Peer(s)) = <<m>> \o (Tail(wire[Peer(s)]) \o dataQ[Peer(s)])
         /\ wire'[Peer(s)] = Tail(wire[Peer(s)]) /\ wire'[s] = wire[s]
         /\ ~Gone(s)
  <1> DEFINE p == Peer(s)
             h == Tail(wire[p])
  <1>0. p \in Sides /\ p # s
    BY Others
  <1>1. /\ wire \in [Sides -> Seq(Frames)] /\ wire[p] \in Seq(Frames) /\ dataQ[p] \in Seq(Frames)
    BY <1>0, MuxTypes
  <1>2. wire[p] # <<>> /\ m = Head(wire[p]) /\ m.kind = kind /\ wire' = [wire EXCEPT ![p] = h]
       /\ tunnel[s] = "up"
    BY <1>1 DEF Reads
  <1>3. wire[p] = <<m>> \o h /\ m \in Frames /\ h \in Seq(Frames)
    BY <1>1, <1>2, QueueLaws
  <1>4. <<m>> \in Seq(Frames) /\ m.c \in Channels /\ m.len \in Nat
    BY <1>3 DEF Frames
  <1> HIDE DEF h
  <1>5. h \o dataQ[p] \in Seq(Frames) /\ (<<m>> \o h) \o dataQ[p] = <<m>> \o (h \o dataQ[p])
    <2>1. h \o dataQ[p] \in Seq(Frames)
      BY <1>1, <1>3, TwoQueues
    <2> QED BY <1>1, <1>3, <1>4, <2>1, ThreeQueues, Zenon
  <1>6. wire' \in [Sides -> Seq(Frames)] /\ wire'[p] = h /\ wire'[s] = wire[s]
    BY <1>0, <1>1, <1>2, <1>3
  <1>7. ~Gone(s)
    BY <1>2 DEF Gone
  <1>8. Stream(p) = <<m>> \o (h \o dataQ[p])
    BY <1>3, <1>5, Zenon DEF Stream
  <1> QED BY <1>2, <1>3, <1>4, <1>5, <1>6, <1>7, <1>8 DEF h


\* Task t, with r at the other side, is left as t2 by frame m.
Takes(s, c, t, t2, r, m) ==
  /\ Sane(s, c, t2) /\ Hearkens(c, r, t2)
  /\ t2.phase = t.phase /\ t2.down = t.down /\ t2.granted = t.granted
  /\ t2.sent = t.sent /\ t2.frame = t.frame
  /\ Spends(s, c, t2, r) <= Spends(s, c, t, r) + Updates(c, <<m>>)

LEMMA ReadKeeps ==
  ASSUME MuxInv, NEW s \in Sides, NEW kind, kind # "open", NEW m, Reads(s, m, kind),
         NEW c \in Channels, m.c = c, NEW t2 \in Tasks,
         ep' = [ep EXCEPT ![s][c] = t2], UNCHANGED <<dataQ, ctrlQ, tunnel>>,
         entries' \in [Sides -> SUBSET Channels], \A x \in Sides : entries'[x] \subseteq entries[x],
         Takes(s, c, ep[s][c], t2, ep[Peer(s)][c], m),
         Hears(s, c)' => Got(c, t2) = Got(c, ep[s][c]) + DataFrames(c, <<m>>),
         Admits(s, c)' => Admitted(Peer(s), ep[s][c]) <= Admitted(Peer(s), t2) + Charges(c, <<m>>)
  PROVE  MuxInv'
  <1> DEFINE p == Peer(s)
             t == ep[s][c]
             r == ep[p][c]
             q == Tail(wire[p]) \o dataQ[p]
  <1>0. p \in Sides /\ p # s /\ Peer(p) = s /\ Sides = {s, p} /\ TypeOK /\ MuxAssumption
    BY Others DEF MuxInv
  <1>1. /\ m \in Frames /\ m.kind = kind /\ wire' \in [Sides -> Seq(Frames)]
        /\ <<m>> \in Seq(Frames) /\ q \in Seq(Frames) /\ Stream(p) = <<m>> \o q
        /\ wire'[p] = Tail(wire[p]) /\ wire'[s] = wire[s] /\ ~Gone(s)
    BY ReadStream
  <1>2. Stream(p)' = q /\ Stream(s)' = Stream(s) /\ (\A x \in Sides : Ctrl(x)' = Ctrl(x))
    BY <1>1 DEF Stream, Ctrl
  <1> HIDE DEF q
  <1>3. TypeOK'
    BY <1>0, <1>1, MuxTypes, TypeKeeps
  <1>4. t \in Tasks /\ r \in Tasks /\ Stream(s) \in Seq(Frames) /\ Channel(c)
        /\ Updates(c, Stream(s)) \in Nat /\ (\A x \in Sides : Updates(c, Ctrl(x)) \in Nat)
    BY <1>0, ChannelParts DEF MuxInv
  <1>5. /\ Updates(c, <<m>> \o q) = Updates(c, <<m>>) + Updates(c, q)
        /\ Updates(c, <<m>>) \in Nat /\ Updates(c, q) \in Nat
    BY <1>1, CountsConcat
  <1>6. \A d \in Channels, x \in Sides : d # c => Alike(d, Stream(x), Stream(x)')
    <2>1. ASSUME NEW d \in Channels, d # c PROVE Alike(d, <<m>> \o q, q)
      BY <1>1, <2>1, AlikeEnds
    <2> QED BY <1>0, <1>1, <1>2, <2>1, AlikeSame
  <1>7. /\ Announces(p, c) = Updates(c, <<m>>) + Announces(p, c)'
             /\ Announces(s, c)' = Announces(s, c)
        /\ Announces(p, c) \in Nat /\ Announces(p, c)' \in Nat /\ Announces(s, c) \in Nat
    <2>1. Announces(p, c) = Updates(c, <<m>> \o q) + Updates(c, Ctrl(p))
      BY <1>1 DEF Announces
    <2>2. Announces(p, c)' = Updates(c, q) + Updates(c, Ctrl(p))
      BY <1>0, <1>2 DEF Announces
    <2>3. Announces(s, c)' = Announces(s, c) /\ Announces(s, c) \in Nat
      BY <1>2, <1>4 DEF Announces
    <2>4. Updates(c, Ctrl(p)) \in Nat
      BY <1>0, <1>4
    <2> QED BY <1>5, <2>1, <2>2, <2>3, <2>4
  <1>8. Direction(s, c, t2, r, Stream(s), Ctrl(s), Gone(s), Hears(p, c), Admits(p, c), Announces(p, c)')
    <2>1. Direction(s, c, t, r, Stream(s), Ctrl(s), Gone(s), Hears(p, c), Admits(p, c), Announces(p, c))
          /\ Buffers(c, r)
      BY <1>0, <1>4 DEF Channel, Announces, Sane
    <2>2. Goes(s, c, t, t2, r, Gone(s))
      BY DEF Goes, Takes, Begun
    <2>3. Spends(s, c, t2, r) + Announces(p, c)' <= Spends(s, c, t, r) + Announces(p, c)
      <3>1. Spends(s, c, t2, r) <= Spends(s, c, t, r) + Updates(c, <<m>>)
        BY DEF Takes
      <3>2. Spends(s, c, t2, r) \in Nat /\ Spends(s, c, t, r) \in Nat
        BY <1>4, SpendsNat
      <3> HIDE DEF t, r, p
      <3> QED BY <1>5, <1>7, <3>1, <3>2
    <2> HIDE DEF t, r, p
    <2> QED BY <1>4, <1>7, <2>1, <2>2, <2>3, SenderGoes
  <1>9. Direction(p, c, r, t2, q, Ctrl(p), Gone(p), Hears(s, c)', Admits(s, c)', Announces(s, c))
    <2>1. Direction(p, c, r, t, <<m>> \o q, Ctrl(p), Gone(p), Hears(s, c), Admits(s, c), Announces(s, c))
      BY <1>0, <1>1, <1>4 DEF Channel, Announces
    <2>2. Hearkens(c, r, t2) /\ t2.phase = t.phase /\ t2.down = t.down /\ t2.granted = t.granted
      BY DEF Takes
    <2>3. ep'[s][c] = t2 /\ (c \in entries'[s] => c \in entries[s]) /\ Gone(s)' = Gone(s)
      BY <1>0 DEF TypeOK, Gone
    <2>4. (Hears(s, c)' => Hears(s, c)) /\ (Admits(s, c)' => Admits(s, c))
      BY <2>2, <2>3 DEF Hears, Admits, Over, RxOpen
    <2>5. Spends(p, c, r, t2) = Spends(p, c, r, t)
      BY <2>2 DEF Spends, Lift
    <2>6. Spends(p, c, r, t) \in Nat /\ Admitted(p, t) \in Nat /\ Admitted(p, t2) \in Nat
         /\ Charges(c, <<m>>) \in Nat
      BY <1>0, <1>1, <1>4, SpendsNat, CountsConcat
    <2>7. Admits(s, c)' => Admitted(p, t) <= Admitted(p, t2) + Charges(c, <<m>>)
      OBVIOUS
    <2>8. Hears(s, c)' => Hears(s, c) /\ Got(c, t2) = Got(c, t) + DataFrames(c, <<m>>)
      BY <2>4
    <2> HIDE DEF t, r, p
    <2>9. Admits(s, c)' => /\ Admits(s, c)
                           /\ Spends(p, c, r, t2) + Announces(s, c) + Admitted(p, t)
                               <= Spends(p, c, r, t) + Announces(s, c) + Admitted(p, t2) + Charges(c, <<m>>)
      BY <1>7, <2>4, <2>5, <2>6, <2>7
    <2> QED BY <1>0, <1>1, <1>4, <1>7, <2>1, <2>2, <2>8, <2>9, ReceiverReads
  <1>10. Opening(c, ep["ctl"][c], ep["tgt"][c], Stream("ctl"), Gone("ctl"), Gone("tgt"))'
    <2>0. Opening(c, ep["ctl"][c], ep["tgt"][c], Stream("ctl"), Gone("ctl"), Gone("tgt"))
      BY <1>4 DEF Channel
    <2>1. ep'[s][c] = t2 /\ ep'[p] = ep[p] /\ Gone("ctl")' = Gone("ctl")
         /\ Gone("tgt")' = Gone("tgt")
      BY <1>0 DEF TypeOK, Gone
    <2>2. t2.phase = t.phase
      BY DEF Takes
    <2>3. CASE s = "ctl"
      <3>1. p = "tgt"
        BY <2>3 DEF Peer
      <3>2. Opening(c, t2, r, Stream("ctl"), Gone("ctl"), Gone("tgt"))
        <4>1. Opening(c, t, r, Stream("ctl"), Gone("ctl"), Gone("tgt"))
          BY <2>0, <2>3, <3>1
        <4>2. Begun(t) => Begun(t2)
          BY <2>2 DEF Begun
        <4>3. Stream("ctl") \in Seq(Frames)
          BY <1>4, <2>3
        <4> HIDE DEF t, r
        <4> QED BY <1>4, <2>2, <4>1, <4>2, <4>3, OpeningGoes
      <3> QED BY <1>2, <2>1, <2>3, <3>1, <3>2
    <2>4. CASE s = "tgt"
      <3>1. p = "ctl"
        BY <2>4 DEF Peer
      <3>2. Opening(c, r, t2, q, Gone("ctl"), Gone("tgt"))
        <4>1. Opening(c, r, t, <<m>> \o q, Gone("ctl"), Gone("tgt"))
          BY <1>1, <2>0, <2>4, <3>1
        <4> HIDE DEF t, r
        <4> QED BY <1>1, <1>4, <2>2, <4>1, OpeningReads
      <3> QED BY <1>2, <2>1, <2>4, <3>1, <3>2
    <2> QED BY <2>3, <2>4 DEF Sides
  <1>11. \A d \in Channels, x \in Sides : d \in entries'[x] => d \in entries[x] \/ (x = s /\ d = c)
    OBVIOUS
  <1>12. Sane(s, c, t2) /\ (c \in entries'[s] => t2.phase # "none")
    BY <1>4 DEF Takes, Channel
  <1>13. \A d \in Channels : Channel(d)
    BY DEF MuxInv
  <1>14. Direction(s, c, t2, r, Stream(s)', Ctrl(s), Gone(s), Hears(p, c), Admits(p, c), Announces(p, c)')
    BY <1>2, <1>8
  <1>15. Direction(p, c, r, t2, Stream(p)', Ctrl(p), Gone(p), Hears(s, c)', Admits(s, c)', Announces(s, c)')
    BY <1>2, <1>7, <1>9
  <1>16. \A d \in Channels : Channel(d)'
    BY <1>0, <1>3, <1>6, <1>10, <1>11, <1>12, <1>13, <1>14, <1>15, ReadTurn
  <1>17. \A x \in Range(ctrlQ') : x.kind = "update"
    BY DEF MuxInv
  <1> QED BY <1>0, <1>3, <1>16, <1>17 DEF MuxInv


\* What a frame can leave of a task: its credit, its window and its queue.
Marked(t, n, b, k, i) == [t EXCEPT !.credit = n, !.opened = b, !.remaining = k, !.inbound = i]

LEMMA MarkedFields ==
  ASSUME NEW t \in Tasks, NEW n \in 0..MAX_SEND_CREDIT, NEW b \in BOOLEAN, NEW k \in 0..U32_MAX,
         NEW i \in Seq(Frames), NEW t2, t2 = Marked(t, n, b, k, i)
  PROVE  /\ t2 \in Tasks /\ t2.phase = t.phase /\ t2.up = t.up /\ t2.upEnd = t.upEnd
         /\ t2.down = t.down /\ t2.downEnd = t.downEnd /\ t2.chunk = t.chunk /\ t2.pend = t.pend
         /\ t2.inbound = i /\ t2.remaining = k /\ t2.drained = t.drained
         /\ t2.allow = t.allow /\ t2.frame = t.frame /\ t2.credit = n /\ t2.sent = t.sent
         /\ t2.granted = t.granted /\ t2.opened = b /\ t2.overran = t.overran
              /\ t2.written = t.written
  BY DEF Marked, Tasks

LEMMA SameTakes ==
  ASSUME MuxInv, NEW s \in Sides, NEW c \in Channels, NEW m \in Frames
  PROVE  Takes(s, c, ep[s][c], ep[s][c], ep[Peer(s)][c], m)
  <1>1. Sane(s, c, ep[s][c]) /\ ep[s][c] \in Tasks
    BY TaskFacts DEF Sane
  <1>2. Hearkens(c, ep[Peer(s)][c], ep[s][c]) /\ ep[Peer(s)][c] \in Tasks
    BY HeldFacts
  <1>3. <<m>> \in Seq(Frames)
    OBVIOUS
  <1>4. Spends(s, c, ep[s][c], ep[Peer(s)][c]) \in Nat /\ Updates(c, <<m>>) \in Nat
    BY <1>1, <1>2, <1>3, SpendsNat, CountsConcat
  <1> QED BY <1>1, <1>2, <1>4 DEF Takes

LEMMA MarkTakes ==
  ASSUME MuxInv, NEW s \in Sides, NEW c \in Channels, NEW m,
         NEW n \in 0..MAX_SEND_CREDIT, NEW b \in BOOLEAN, NEW k \in 0..U32_MAX,
              k <= ep[s][c].remaining,
         ep[s][c].phase # "none", NEW t2, t2 = Marked(ep[s][c], n, b, k, ep[s][c].inbound),
         Spends(s, c, t2, ep[Peer(s)][c]) <= Spends(s, c, ep[s][c], ep[Peer(s)][c]) + Updates(c, <<m>>)
  PROVE  /\ t2 \in Tasks /\ t2.remaining = k /\ Got(c, t2) = Got(c, ep[s][c])
         /\ Takes(s, c, ep[s][c], t2, ep[Peer(s)][c], m)
  <1> DEFINE t == ep[s][c]
             r == ep[Peer(s)][c]
  <1>1. t \in Tasks /\ Relays(t) /\ Buffers(c, t) /\ Windows(s, c, t)
    BY TaskFacts
  <1>2. Hearkens(c, r, t) /\ r \in Tasks
    BY HeldFacts
  <1>3. /\ t2 \in Tasks /\ t2.phase = t.phase /\ t2.up = t.up /\ t2.upEnd = t.upEnd
        /\ t2.down = t.down /\ t2.downEnd = t.downEnd /\ t2.chunk = t.chunk /\ t2.pend = t.pend
        /\ t2.inbound = t.inbound /\ t2.remaining = k /\ t2.drained = t.drained
        /\ t2.allow = t.allow /\ t2.frame = t.frame /\ t2.credit = n /\ t2.sent = t.sent
        /\ t2.granted = t.granted /\ t2.opened = b /\ t2.overran = t.overran
             /\ t2.written = t.written
    <2>1. t2 = Marked(t, n, b, k, t.inbound) /\ t.inbound \in Seq(Frames)
      BY <1>1, TaskTypes
    <2> HIDE DEF t
    <2> QED BY <1>1, <2>1, MarkedFields
  <1>4. Holds(t2) = Holds(t)
    BY <1>3 DEF Holds
  <1>5. Sane(s, c, t2)
    <2>1. Relays(t2)
      BY <1>1, <1>3 DEF Relays
    <2>2. Buffers(c, t2)
      BY <1>1, <1>3 DEF Buffers
    <2>3. Windows(s, c, t2)
      <3>1. Charges(c, Holds(t)) \in Nat
        BY <1>1, GotNat, CountsConcat
      <3>2. t.remaining \in Nat /\ t.drained \in Nat /\ k \in Nat /\ k <= t.remaining
        BY <1>1, TaskTypes
      <3>3. Window(s, t2) = Window(s, t) /\ Window(s, t) \in Nat
        BY <1>3, WindowAssumption DEF Window
      <3>4. t.remaining + Charges(c, Holds(t)) + t.drained <= Window(s, t)
        BY <1>1 DEF Windows
      <3>5. k + Charges(c, Holds(t)) + t.drained <= Window(s, t)
        <4> HIDE DEF t
        <4> QED BY <3>1, <3>2, <3>3, <3>4
      <3> QED BY <1>1, <1>3, <1>4, <3>3, <3>5 DEF Windows
    <2> QED BY <2>1, <2>2, <2>3 DEF Sane
  <1>6. Hearkens(c, r, t2)
    BY <1>2, <1>3, <1>4 DEF Hearkens, Held
  <1> QED BY <1>3, <1>4, <1>5, <1>6 DEF Takes, Got

\* What is known of a frame when it is read, with c its channel's id.
Arrives(s, m, c, t, r) ==
  /\ m \in Frames /\ m.c = c /\ c \in Channels /\ m.len \in Nat /\ <<m>> \in Seq(Frames)
  /\ t \in Tasks /\ r \in Tasks /\ Begun(r) /\ ~Gone(s)
  /\ m.kind = "data" => m.len \in 1..MAX_FRAME
  /\ m.kind \in {"open", "opened"} => m.len = CHANNEL_WINDOW
  /\ m.kind = "opened" => r.granted
  /\ Ends(m, c) => r.phase \in Final
  /\ Hears(s, c) => (IsData(m, c) => m.seq = Got(c, t) + 1) /\ (Ends(m, c) => Got(c, t) = r.sent)
  /\ Admits(s, c) => (IsData(m, c) => charge(m.len) <= Admitted(Peer(s), t))

LEMMA ReadArrives ==
  ASSUME MuxInv, NEW s \in Sides, NEW kind, NEW m, Reads(s, m, kind), UNCHANGED <<ctrlQ, tunnel>>
  PROVE  Arrives(s, m, m.c, ep[s][m.c], ep[Peer(s)][m.c]) /\ m.kind = kind
  <1> DEFINE p == Peer(s)
             c == m.c
             t == ep[s][c]
             r == ep[p][c]
             q == Tail(wire[p]) \o dataQ[p]
  <1>0. p \in Sides /\ Peer(p) = s
    BY Others
  <1>1. /\ m \in Frames /\ m.kind = kind /\ c \in Channels /\ m.len \in Nat
        /\ <<m>> \in Seq(Frames) /\ q \in Seq(Frames) /\ Stream(p) = <<m>> \o q /\ ~Gone(s)
    BY ReadStream
  <1> HIDE DEF q
  <1>2. t \in Tasks /\ r \in Tasks
    BY <1>1, TaskFacts, HeldFacts
  <1>3. Direction(p, c, r, t, <<m>> \o q, Ctrl(p), Gone(p), Hears(s, c), Admits(s, c), Announces(s, c))
    BY <1>0, <1>1 DEF MuxInv, Channel, Announces
  <1>4. m \in Range(<<m>> \o q)
    <2>1. Range(<<m>> \o q) = Range(<<m>>) \cup Range(q)
      BY <1>1, RangeConcat
    <2>2. Range(<<m>>) = {m}
      BY RangeSmall
    <2> QED BY <2>1, <2>2
  <1>5. /\ Begun(r) /\ (m.kind = "data" => m.len \in 1..MAX_FRAME)
        /\ (m.kind \in {"open", "opened"} => m.len = CHANNEL_WINDOW)
             /\ (m.kind = "opened" => r.granted)
    BY <1>3, <1>4 DEF Direction, Named
  <1>6. Ends(m, c) => r.phase \in Final
    BY <1>3, <1>4 DEF Direction, Finals
  <1>7. ASSUME Hears(s, c)
        PROVE  (IsData(m, c) => m.seq = Got(c, t) + 1) /\ (Ends(m, c) => Got(c, t) = r.sent)
    <2>1. Got(c, t) \in Nat
      BY <1>2, GotNat
    <2>2. Numbered(c, <<m>> \o q, Got(c, t)) /\ EndsLast(c, <<m>> \o q, Got(c, t), r.sent)
      BY <1>3, <1>7 DEF Direction, Carried
    <2>3. Numbered(c, <<m>>, Got(c, t)) /\ EndsLast(c, <<m>>, Got(c, t), r.sent)
      BY <1>1, <2>1, <2>2, RunsConcat
    <2> DEFINE g == Got(c, t)
               n == r.sent
    <2> HIDE DEF c, g, n
    <2>4. (Numbered(c, <<m>>, g) <=> (IsData(m, c) => m.seq = g + 1))
         /\ (EndsLast(c, <<m>>, g, n) <=> (Ends(m, c) => g = n))
      <3>1. m \in Frames /\ g \in Nat
        BY <1>1, <2>1 DEF g
      <3> QED BY <3>1, RunsSmall
    <2> QED BY <2>3, <2>4 DEF g, n
  <1>8. ASSUME Admits(s, c), IsData(m, c)
        PROVE  charge(m.len) <= Admitted(p, t)
    <2>1. Spends(p, c, r, t) + Charges(c, <<m>> \o q) + Announces(s, c) <= Admitted(p, t)
      BY <1>3, <1>8 DEF Direction, Covered
    <2>2. /\ Charges(c, <<m>> \o q) = Charges(c, <<m>>) + Charges(c, q)
          /\ Charges(c, <<m>>) \in Nat /\ Charges(c, q) \in Nat
      BY <1>1, CountsConcat
    <2>3. Charges(c, <<m>>) = charge(m.len)
      BY <1>1, <1>8, CountsSmall
    <2>4. Spends(p, c, r, t) \in Nat /\ Admitted(p, t) \in Nat
      BY <1>0, <1>2, SpendsNat
    <2>5. Announces(s, c) \in Nat
      BY <1>1, ChannelParts DEF Announces, MuxInv
    <2> HIDE DEF t, r, c, p
    <2> QED BY <2>1, <2>2, <2>3, <2>4, <2>5
  <1>9. ASSUME NEW x, x = c PROVE Arrives(s, m, x, ep[s][x], ep[p][x])
    BY <1>1, <1>2, <1>5, <1>6, <1>7, <1>8, <1>9 DEF Arrives
  <1> QED BY <1>1, <1>9

\* A frame without data.
LEMMA WordKeeps ==
  ASSUME MuxInv, NEW s \in Sides, NEW kind, kind \notin {"open", "data"}, NEW m, Reads(s, m, kind),
         NEW c \in Channels, m.c = c, NEW t2 \in Tasks, ep' = [ep EXCEPT ![s][c] = t2],
         UNCHANGED <<entries, dataQ, ctrlQ, tunnel>>,
         Takes(s, c, ep[s][c], t2, ep[Peer(s)][c], m),
         Got(c, t2) = Got(c, ep[s][c]), t2.remaining = ep[s][c].remaining
  PROVE  MuxInv'
  <1> DEFINE t == ep[s][c]
  <1>1. m \in Frames /\ t \in Tasks /\ m.kind = kind
    BY ReadArrives DEF Arrives
  <1>2. entries' \in [Sides -> SUBSET Channels] /\ \A x \in Sides : entries'[x] \subseteq entries[x]
    BY MuxTypes
  <1>3. DataFrames(c, <<m>>) = 0 /\ Charges(c, <<m>>) = 0
    BY <1>1, CountsSmall DEF IsData
  <1>4. Got(c, t2) = Got(c, t) + DataFrames(c, <<m>>)
    BY <1>1, <1>3, GotNat
  <1>5. Admitted(Peer(s), t) <= Admitted(Peer(s), t2) + Charges(c, <<m>>)
    <2>1. Admitted(Peer(s), t2) = Admitted(Peer(s), t)
      BY DEF Takes, Admitted
    <2>2. Admitted(Peer(s), t) \in Nat
      BY <1>1, Others, SpendsNat
    <2> QED BY <1>3, <2>1, <2>2
  <1> QED BY <1>2, <1>4, <1>5, ReadKeeps

\* The credit that a frame brings, and no more.
LEMMA CreditKeeps ==
  ASSUME MuxInv, NEW s \in Sides, NEW kind, kind \notin {"open", "data"}, NEW m, Reads(s, m, kind),
         NEW c \in Channels, m.c = c, NEW n \in 0..MAX_SEND_CREDIT, NEW b \in BOOLEAN,
         ep' = [ep EXCEPT ![s][c] = [ep[s][c] EXCEPT !.credit = n, !.opened = b]],
         UNCHANGED <<entries, dataQ, ctrlQ, tunnel>>, c \in entries[s],
         n + Lift(s, [ep[s][c] EXCEPT !.credit = n, !.opened = b], ep[Peer(s)][c])
           <= ep[s][c].credit + Updates(c, <<m>>) + Lift(s, ep[s][c], ep[Peer(s)][c])
  PROVE  MuxInv'
  <1> DEFINE t == ep[s][c]
             r == ep[Peer(s)][c]
             t2 == Marked(t, n, b, t.remaining, t.inbound)
  <1>1. t \in Tasks /\ r \in Tasks /\ <<m>> \in Seq(Frames)
    BY ReadArrives DEF Arrives
  <1>2. t.phase # "none"
    BY DEF MuxInv, Channel
  <1>3. t2 = [t EXCEPT !.credit = n, !.opened = b]
    BY <1>1 DEF Marked, Tasks
  <1>4. ep' = [ep EXCEPT ![s][c] = t2]
    BY <1>3
  <1>5. t.remaining \in 0..U32_MAX /\ t.remaining <= t.remaining /\ t.inbound \in Seq(Frames)
    BY <1>1, TaskTypes
  <1>6. t2.phase = t.phase /\ t2.allow = t.allow /\ t2.frame = t.frame /\ t2.credit = n
       /\ t2.opened = b
    BY <1>1, <1>5, MarkedFields
  <1>7. n + Lift(s, t2, r) <= t.credit + Updates(c, <<m>>) + Lift(s, t, r)
    BY <1>3
  <1> HIDE DEF t2
  <1>8. Spends(s, c, t2, r) <= Spends(s, c, t, r) + Updates(c, <<m>>)
    <2>1. Spends(s, c, t2, r) = n + t.allow + Charges(c, t.frame) + Lift(s, t2, r)
      BY <1>2, <1>6 DEF Spends
    <2>2. Spends(s, c, t, r) = t.credit + t.allow + Charges(c, t.frame) + Lift(s, t, r)
      BY <1>2 DEF Spends
    <2>3. t.credit \in Nat /\ t.allow \in Nat /\ Charges(c, t.frame) \in Nat
         /\ Lift(s, t, r) \in Nat
          /\ Lift(s, t2, r) \in Nat /\ Updates(c, <<m>>) \in Nat /\ n \in Nat
      <3>1. t.credit \in Nat /\ t.allow \in Nat /\ t.frame \in Seq(Frames) /\ n \in Nat
        BY <1>1, TaskTypes
      <3>2. Charges(c, t.frame) \in Nat /\ Updates(c, <<m>>) \in Nat
        BY <1>1, <3>1, CountsConcat
      <3>3. Lift(s, t, r) \in Nat /\ Lift(s, t2, r) \in Nat
        BY WindowAssumption DEF Lift
      <3> QED BY <3>1, <3>2, <3>3
    <2> HIDE DEF t, r
    <2> QED BY <1>7, <2>1, <2>2, <2>3
  <1>9. /\ t2 \in Tasks /\ t2.remaining = t.remaining /\ Got(c, t2) = Got(c, t)
        /\ Takes(s, c, t, t2, r, m)
    <2>1. t2 = Marked(ep[s][c], n, b, t.remaining, ep[s][c].inbound)
      BY DEF t2
    <2> QED BY <1>2, <1>5, <1>8, <2>1, MarkTakes
  <1>10. /\ t2 \in Tasks /\ ep' = [ep EXCEPT ![s][c] = t2]
              /\ Takes(s, c, ep[s][c], t2, ep[Peer(s)][c], m)
         /\ Got(c, t2) = Got(c, ep[s][c]) /\ t2.remaining = ep[s][c].remaining
    BY <1>4, <1>9
  <1>11. UNCHANGED <<entries, dataQ, ctrlQ, tunnel>> /\ kind \notin {"open", "data"}
       /\ Reads(s, m, kind) /\ m.c = c
    OBVIOUS
  <1> QED BY <1>10, <1>11, WordKeeps, ZenonT(30)

\* A frame that nobody minds.
LEMMA IgnoreKeeps ==
  ASSUME MuxInv, NEW s \in Sides, NEW kind, kind \notin {"open", "data"}, NEW m, Reads(s, m, kind),
         UNCHANGED <<ep, entries, dataQ, ctrlQ, tunnel>>
  PROVE  MuxInv'
  <1> DEFINE c == m.c
  <1>1. m \in Frames /\ c \in Channels /\ ep[s][c] \in Tasks
    BY ReadArrives DEF Arrives
  <1>2. ep' = [ep EXCEPT ![s][c] = ep[s][c]]
    BY <1>1, MuxTypes
  <1>3. Takes(s, c, ep[s][c], ep[s][c], ep[Peer(s)][c], m)
    BY <1>1, SameTakes
  <1>4. m.c = c
    OBVIOUS
  <1> HIDE DEF c
  <1> QED BY <1>1, <1>2, <1>3, <1>4, WordKeeps, ZenonT(30)

LEMMA OnWindowUpdateKeeps ==
  ASSUME MuxInv, NEW s \in Sides, OnWindowUpdate(s)
  PROVE  MuxInv'
  <1>1. PICK m \in Range(wire[Peer(s)]) :
          /\ Reads(s, m, "update")
          /\ ep' = IF m.c \in entries[s]
                   THEN [ep EXCEPT ![s][m.c].credit = add_credit(@, m.len)] ELSE ep
          /\ UNCHANGED <<entries, dataQ, ctrlQ, tunnel>>
    BY Zenon DEF OnWindowUpdate
  <1> DEFINE c == m.c
             t == ep[s][c]
             r == ep[Peer(s)][c]
  <1>2. Reads(s, m, "update") /\ UNCHANGED <<entries, dataQ, ctrlQ, tunnel>>
       /\ "update" \notin {"open", "data"}
    BY <1>1
  <1>3. /\ m \in Frames /\ m.kind = "update" /\ c \in Channels /\ m.len \in Nat
             /\ <<m>> \in Seq(Frames)
        /\ t \in Tasks /\ r \in Tasks
    BY <1>2, ReadArrives DEF Arrives
  <1>4. CASE c \notin entries[s]
    BY <1>1, <1>2, <1>4, IgnoreKeeps
  <1>5. CASE c \in entries[s]
    <2> DEFINE n == add_credit(t.credit, m.len)
               b == t.opened
    <2>1. n \in 0..MAX_SEND_CREDIT /\ n <= t.credit + m.len /\ b \in BOOLEAN
      BY <1>3, TaskTypes, CreditFacts
    <2>2. [t EXCEPT !.credit = n] = [t EXCEPT !.credit = n, !.opened = b]
      BY <1>3 DEF Tasks
    <2>3. ep' = [ep EXCEPT ![s][c] = [t EXCEPT !.credit = n]]
      BY <1>1, <1>5
    <2>4. ep' = [ep EXCEPT ![s][c] = [t EXCEPT !.credit = n, !.opened = b]]
      BY <2>2, <2>3, Zenon
    <2>5. Lift(s, [t EXCEPT !.credit = n, !.opened = b], r) = Lift(s, t, r) /\ Lift(s, t, r) \in Nat
      BY <1>3, <2>1, WindowAssumption DEF Lift, Tasks
    <2>6. Updates(c, <<m>>) = m.len /\ t.credit \in Nat
      BY <1>3, CountsSmall, TaskTypes
    <2>7. n + Lift(s, [t EXCEPT !.credit = n, !.opened = b], r) <= t.credit + Updates(c, <<m>>) + Lift(s, t, r)
      <3> HIDE DEF n, t, r, b, c
      <3> QED BY <1>3, <2>1, <2>5, <2>6
    <2>8. m.c = c
      OBVIOUS
    <2> HIDE DEF n, b, c
    <2> QED BY <1>2, <1>3, <1>5, <2>1, <2>4, <2>7, <2>8, CreditKeeps
  <1> QED BY <1>4, <1>5

LEMMA OnOpenedKeeps ==
  ASSUME MuxInv, OnOpened
  PROVE  MuxInv'
  <1> DEFINE s == "ctl"
  <1>0. s \in Sides /\ Peer(s) = "tgt" /\ s = "ctl"
    BY DEF Sides, Peer
  <1>1. PICK m \in Range(wire["tgt"]) :
          /\ Reads(s, m, "opened")
          /\ ep' = IF m.c \in entries[s] /\ ~ep[s][m.c].opened
                   THEN [ep EXCEPT ![s][m.c].opened = TRUE,
                                   ![s][m.c].credit = add_credit(@, raised(m.len))]
                   ELSE ep
          /\ UNCHANGED <<entries, dataQ, ctrlQ, tunnel>>
    BY Zenon DEF OnOpened
  <1> HIDE DEF s
  <1> DEFINE c == m.c
             t == ep[s][c]
             r == ep[Peer(s)][c]
  <1>2. Reads(s, m, "opened") /\ UNCHANGED <<entries, dataQ, ctrlQ, tunnel>>
       /\ "opened" \notin {"open", "data"}
    BY <1>1
  <1>3. /\ m \in Frames /\ m.kind = "opened" /\ c \in Channels /\ m.len \in Nat
             /\ <<m>> \in Seq(Frames)
        /\ t \in Tasks /\ r \in Tasks /\ r.granted /\ m.len = CHANNEL_WINDOW
             /\ ep \in [Sides -> [Channels -> Tasks]]
    BY <1>0, <1>2, ReadArrives, MuxTypes DEF Arrives
  <1>4. CASE ~(c \in entries[s] /\ ~t.opened)
    BY <1>0, <1>1, <1>2, <1>4, IgnoreKeeps
  <1>5. CASE c \in entries[s] /\ ~t.opened
    <2> DEFINE up == raised(m.len)
               n == add_credit(t.credit, up)
    <2>0. up = CHANNEL_WINDOW - INITIAL_WINDOW /\ up \in Nat
      BY <1>3, WindowAssumption DEF raised, effective_window, AtLeast
    <2>1. n \in 0..MAX_SEND_CREDIT /\ n <= t.credit + up /\ n \in Nat
      <3> HIDE DEF up
      <3> QED BY <1>3, <2>0, TaskTypes, CreditFacts
    <2> HIDE DEF up
    <2>2. ep' = [ep EXCEPT ![s][c] = [t EXCEPT !.credit = n, !.opened = TRUE]]
      <3>1. ep' = [ep EXCEPT ![s][c].opened = TRUE, ![s][c].credit = n]
        <4>1. [ep EXCEPT ![s][c].opened = TRUE][s][c].credit = t.credit
          BY <1>0, <1>3 DEF Tasks
        <4> QED BY <1>1, <1>5, <4>1 DEF up
      <3>2. [t EXCEPT !.opened = TRUE, !.credit = n] = [t EXCEPT !.credit = n, !.opened = TRUE]
        BY <1>3, <2>1 DEF Tasks
      <3>3. [ep EXCEPT ![s][c].opened = TRUE, ![s][c].credit = n]
              = [ep EXCEPT ![s][c] = [t EXCEPT !.opened = TRUE, !.credit = n]]
        <4> HIDE DEF n
        <4> QED BY <1>0, <1>3
      <3> QED BY <3>1, <3>2, <3>3, Zenon
    <2>3. Lift(s, [t EXCEPT !.credit = n, !.opened = TRUE], r) = 0
      <3> HIDE DEF n
      <3> QED BY <1>3, <2>1 DEF Lift, Tasks
    <2>4. Lift(s, t, r) = up
      BY <1>0, <1>3, <1>5, <2>0 DEF Lift
    <2>5. Updates(c, <<m>>) = 0 /\ t.credit \in Nat
      BY <1>3, CountsSmall, TaskTypes
    <2>6. n + Lift(s, [t EXCEPT !.credit = n, !.opened = TRUE], r) <= t.credit + Updates(c, <<m>>) + Lift(s, t, r)
      <3> HIDE DEF n, t, r, c
      <3> QED BY <2>0, <2>1, <2>3, <2>4, <2>5
    <2>7. m.c = c /\ TRUE \in BOOLEAN /\ c \in entries[s]
      BY <1>5
    <2> HIDE DEF n, c
    <2> QED BY <1>0, <1>2, <1>3, <2>1, <2>2, <2>6, <2>7, CreditKeeps
  <1> QED BY <1>4, <1>5


\* Frame x is the next that the task waits for; it leaves k of its window.
Fits(c, t, r, x, k) ==
  \/ Payload(x, c) /\ x.seq = Got(c, t) + 1 /\ k + charge(x.len) <= t.remaining
  \/ /\ x.kind = "close" /\ x.c = c /\ k = t.remaining
     /\ Got(c, t) = r.sent /\ r.phase \in Final

\* It is left for the task to take from its queue.
LEMMA AppendTakes ==
  ASSUME MuxInv, NEW s \in Sides, NEW c \in Channels, NEW x \in Frames,
         NEW k \in 0..U32_MAX, ep[s][c].phase # "none", ep[s][c].down # "ended",
         NEW t2, t2 = Marked(ep[s][c], ep[s][c].credit, ep[s][c].opened, k, Append(ep[s][c].inbound, x)),
         Fits(c, ep[s][c], ep[Peer(s)][c], x, k)
  PROVE  /\ t2 \in Tasks /\ t2.remaining = k /\ Got(c, t2) = Got(c, ep[s][c]) + DataFrames(c, <<x>>)
         /\ \A m \in Frames : Takes(s, c, ep[s][c], t2, ep[Peer(s)][c], m)
  <1> DEFINE t == ep[s][c]
             r == ep[Peer(s)][c]
             i == Append(t.inbound, x)
  <1>1. t \in Tasks /\ Relays(t) /\ Buffers(c, t) /\ Windows(s, c, t)
    BY TaskFacts
  <1>2. Hearkens(c, r, t) /\ r \in Tasks
    BY HeldFacts
  <1>a. /\ t.inbound \in Seq(Frames) /\ t.chunk \in Seq(Frames) /\ t.pend \in Seq(Frames)
             /\ <<x>> \in Seq(Frames)
        /\ t.credit \in 0..MAX_SEND_CREDIT /\ t.opened \in BOOLEAN
    BY <1>1, TaskTypes
  <1>b. i = t.inbound \o <<x>> /\ i \in Seq(Frames)
    <2> DEFINE j == t.inbound
    <2>1. j \in Seq(Frames) /\ x \in Frames /\ i = Append(j, x)
      BY <1>a
    <2> HIDE DEF j
    <2>2. Append(j, x) = j \o <<x>>
      BY <2>1, QueueLaws
    <2> QED BY <2>1, <2>2 DEF j
  <1>c. Range(i) = Range(t.inbound) \cup {x}
    <2>1. Range(t.inbound \o <<x>>) = Range(t.inbound) \cup Range(<<x>>)
      BY <1>a, RangeConcat
    <2>2. Range(<<x>>) = {x}
      BY RangeSmall
    <2> QED BY <1>b, <2>1, <2>2, Zenon
  <1> HIDE DEF i
  <1>3. /\ t2 \in Tasks /\ t2.phase = t.phase /\ t2.up = t.up /\ t2.upEnd = t.upEnd
        /\ t2.down = t.down /\ t2.downEnd = t.downEnd /\ t2.chunk = t.chunk /\ t2.pend = t.pend
        /\ t2.inbound = i /\ t2.remaining = k /\ t2.drained = t.drained
        /\ t2.allow = t.allow /\ t2.frame = t.frame /\ t2.credit = t.credit /\ t2.sent = t.sent
        /\ t2.granted = t.granted /\ t2.opened = t.opened /\ t2.overran = t.overran
             /\ t2.written = t.written
    <2>1. t2 = Marked(t, t.credit, t.opened, k, i)
      BY DEF i
    <2> DEFINE n == t.credit
               b == t.opened
    <2>2. t \in Tasks /\ n \in 0..MAX_SEND_CREDIT /\ b \in BOOLEAN /\ i \in Seq(Frames)
         /\ t2 = Marked(t, n, b, k, i)
      BY <1>1, <1>a, <1>b, <2>1
    <2> HIDE DEF t, n, b
    <2>3. /\ t2 \in Tasks /\ t2.phase = t.phase /\ t2.up = t.up /\ t2.upEnd = t.upEnd
          /\ t2.down = t.down /\ t2.downEnd = t.downEnd /\ t2.chunk = t.chunk /\ t2.pend = t.pend
          /\ t2.inbound = i /\ t2.remaining = k /\ t2.drained = t.drained
          /\ t2.allow = t.allow /\ t2.frame = t.frame /\ t2.credit = n /\ t2.sent = t.sent
          /\ t2.granted = t.granted /\ t2.opened = b /\ t2.overran = t.overran
               /\ t2.written = t.written
      BY <2>2, MarkedFields
    <2> QED BY <2>3 DEF n, b
  <1>4. Holds(t2) = Holds(t) \o <<x>> /\ Holds(t) \in Seq(Frames)
    <2> DEFINE h == t.chunk \o t.pend
    <2>1. h \in Seq(Frames) /\ Holds(t) = h \o t.inbound /\ Holds(t2) = h \o (t.inbound \o <<x>>)
      BY <1>3, <1>a, <1>b, TwoQueues DEF Holds
    <2> HIDE DEF h
    <2>2. (h \o t.inbound) \o <<x>> = h \o (t.inbound \o <<x>>) /\ h \o t.inbound \in Seq(Frames)
      BY <1>a, <2>1, TwoQueues, ThreeQueues
    <2> QED BY <2>1, <2>2, Zenon
  <1>5. /\ DataFrames(c, Holds(t2)) = DataFrames(c, Holds(t)) + DataFrames(c, <<x>>)
        /\ Charges(c, Holds(t2)) = Charges(c, Holds(t)) + Charges(c, <<x>>)
        /\ DataFrames(c, Holds(t)) \in Nat /\ Charges(c, Holds(t)) \in Nat
        /\ DataFrames(c, <<x>>) \in Nat /\ Charges(c, <<x>>) \in Nat
    <2>1. DataFrames(c, Holds(t) \o <<x>>) = DataFrames(c, Holds(t)) + DataFrames(c, <<x>>)
          /\ Charges(c, Holds(t) \o <<x>>) = Charges(c, Holds(t)) + Charges(c, <<x>>)
          /\ DataFrames(c, Holds(t)) \in Nat /\ Charges(c, Holds(t)) \in Nat
      BY <1>4, <1>a, CountsConcat
    <2>2. DataFrames(c, <<x>>) \in Nat /\ Charges(c, <<x>>) \in Nat
      BY <1>a, CountsConcat
    <2> QED BY <1>4, <2>1, <2>2
  <1>6. t.written \in Nat /\ t.remaining \in Nat /\ t.drained \in Nat /\ k \in Nat
    BY <1>1, TaskTypes
  <1>7. Got(c, t2) = Got(c, t) + DataFrames(c, <<x>>)
       /\ Got(c, t) = t.written + DataFrames(c, Holds(t)) /\ Got(c, t) \in Nat
    BY <1>3, <1>5, <1>6, SMTT(30) DEF Got
  <1>8. /\ Payload(x, c) \/ (x.kind = "close" /\ x.c = c)
        /\ Ends(x, c) => Got(c, t) = r.sent /\ r.phase \in Final
        /\ IsData(x, c) => x.seq = Got(c, t) + 1
    BY DEF Fits, Payload, IsData, Ends
  <1>9. Relays(t2)
    BY <1>1, <1>3 DEF Relays
  <1>10. Buffers(c, t2)
    BY <1>1, <1>3, <1>8, <1>c DEF Buffers
  <1>11. Windows(s, c, t2)
    <2>1. Window(s, t2) = Window(s, t) /\ Window(s, t) \in Nat
      BY <1>3, WindowAssumption DEF Window
    <2>2. t.remaining + Charges(c, Holds(t)) + t.drained <= Window(s, t)
      BY <1>1 DEF Windows
    <2>3. k + Charges(c, <<x>>) <= t.remaining
      <3>1. Charges(c, <<x>>) = IF IsData(x, c) THEN charge(x.len) ELSE 0
        BY CountsSmall
      <3>2. IF IsData(x, c) THEN k + charge(x.len) <= t.remaining ELSE k = t.remaining
        BY DEF Fits, Payload, IsData
      <3> QED BY <1>6, <3>1, <3>2
    <2>4. k + Charges(c, Holds(t2)) + t.drained <= Window(s, t)
      <3> HIDE DEF t
      <3> QED BY <1>5, <1>6, <2>1, <2>2, <2>3
    <2> QED BY <1>1, <1>3, <2>1, <2>4 DEF Windows
  <1>12. Hearkens(c, r, t2)
    <2>1. Held(c, r, t) /\ t.downEnd = "none"
      BY <1>1, <1>2 DEF Hearkens, Relays
    <2>2. Numbered(c, Holds(t), t.written) /\ EndsLast(c, Holds(t), t.written, r.sent)
      BY <2>1 DEF Held
    <2> DEFINE g == Got(c, t)
               n == r.sent
               h == Holds(t)
               w == t.written
    <2> HIDE DEF g, n, h, w
    <2>3. Numbered(c, <<x>>, g) /\ EndsLast(c, <<x>>, g, n)
      <3>1. g \in Nat
        BY <1>7 DEF g
      <3>2. (Numbered(c, <<x>>, g) <=> (IsData(x, c) => x.seq = g + 1))
           /\ (EndsLast(c, <<x>>, g, n) <=> (Ends(x, c) => g = n))
        BY <3>1, RunsSmall
      <3> QED BY <1>8, <3>2 DEF g, n
    <2>4. Numbered(c, h \o <<x>>, w) /\ EndsLast(c, h \o <<x>>, w, n)
      <3>1. h \in Seq(Frames) /\ w \in Nat /\ g = w + DataFrames(c, h)
        BY <1>4, <1>6, <1>7 DEF h, w, g
      <3>2. /\ Numbered(c, h \o <<x>>, w) <=> Numbered(c, h, w)
                 /\ Numbered(c, <<x>>, w + DataFrames(c, h))
            /\ EndsLast(c, h \o <<x>>, w, n) <=> EndsLast(c, h, w, n)
                 /\ EndsLast(c, <<x>>, w + DataFrames(c, h), n)
        BY <1>a, <3>1, RunsConcat
      <3>3. Numbered(c, h, w) /\ EndsLast(c, h, w, n)
        BY <2>2 DEF h, w, n
      <3> QED BY <2>3, <3>1, <3>2, <3>3, Zenon
    <2>5. Held(c, r, t2)
      BY <1>3, <1>4, <2>1, <2>4 DEF Held, h, w, n
    <2>6. (\E y \in Range(t2.inbound) : Ends(y, c)) => r.phase \in Final
      BY <1>2, <1>3, <1>8, <1>c DEF Hearkens
    <2> QED BY <1>3, <2>1, <2>5, <2>6 DEF Hearkens
  <1>13. ASSUME NEW m \in Frames PROVE Spends(s, c, t2, r) <= Spends(s, c, t, r) + Updates(c, <<m>>)
    <2>1. Spends(s, c, t2, r) = Spends(s, c, t, r)
      BY <1>3 DEF Spends, Lift
    <2>2. Spends(s, c, t, r) \in Nat
      BY <1>1, <1>2, SpendsNat
    <2>3. <<m>> \in Seq(Frames)
      OBVIOUS
    <2>4. Updates(c, <<m>>) \in Nat
      BY <2>3, CountsConcat
    <2> QED BY <2>1, <2>2, <2>4
  <1> QED BY <1>3, <1>7, <1>9, <1>10, <1>11, <1>12, <1>13 DEF Takes, Sane


\* Data never comes before the task that it is for.
LEMMA DataHasTask ==
  ASSUME MuxInv, NEW s \in Sides, NEW m, Reads(s, m, "data"), UNCHANGED <<ctrlQ, tunnel>>
  PROVE  ep[s][m.c].phase # "none"
  <1> DEFINE c == m.c
             p == Peer(s)
             q == Tail(wire[p]) \o dataQ[p]
  <1>1. c \in Channels /\ m \in Frames /\ m.kind = "data" /\ Begun(ep[p][c]) /\ ~Gone(s)
    BY ReadArrives DEF Arrives
  <1>2. Opening(c, ep["ctl"][c], ep["tgt"][c], Stream("ctl"), Gone("ctl"), Gone("tgt"))
    BY <1>1 DEF MuxInv, Channel
  <1>3. CASE s = "ctl"
    <2>1. p = "tgt"
      BY <1>3 DEF Peer
    <2>2. ep["tgt"][c].phase # "none"
      BY <1>1, <2>1 DEF Begun
    <2>3. Begun(ep["ctl"][c])
      BY <1>2, <2>2 DEF Opening
    <2> QED BY <1>3, <2>3 DEF Begun
  <1>4. CASE s = "tgt"
    <2>1. p = "ctl"
      BY <1>4 DEF Peer
    <2>2. <<m>> \in Seq(Frames) /\ q \in Seq(Frames) /\ Stream("ctl") = <<m>> \o q
      BY <2>1, ReadStream
    <2> HIDE DEF q, c
    <2>3. ep["tgt"][c].phase = "none" => OpenFirst(c, <<m>> \o q, 0)
      BY <1>1, <1>2, <1>4, <2>2 DEF Opening
    <2>4. OpenFirst(c, <<m>> \o q, 0) => OpenFirst(c, <<m>>, 0)
      BY <2>2, RunsConcat
    <2>5. ~OpenFirst(c, <<m>>, 0)
      <3>1. IsData(m, c) /\ 0 \in Nat
        BY <1>1 DEF IsData, c
      <3>2. OpenFirst(c, <<m>>, 0) <=> (IsData(m, c) => 0 >= 1)
        BY <1>1, <3>1, RunsSmall
      <3> QED BY <3>1, <3>2
    <2> QED BY <1>4, <2>3, <2>4, <2>5 DEF c
  <1> QED BY <1>3, <1>4 DEF Sides

LEMMA OnDataKeeps ==
  ASSUME MuxInv, NEW s \in Sides, OnData(s)
  PROVE  MuxInv'
  <1>1. PICK m \in Range(wire[Peer(s)]) :
          LET c == m.c
              accepted == accepts(ep[s][c].remaining, m.len)
          IN
          /\ Reads(s, m, "data")
          /\ IF c \notin entries[s] THEN UNCHANGED <<ep, entries>>
             ELSE IF accepted /\ RxOpen(s, c)
             THEN /\ ep' = [ep EXCEPT ![s][c].remaining = @ - charge(m.len),
                                      ![s][c].inbound = Append(@, m)]
                  /\ UNCHANGED entries
             ELSE IF accepted
             THEN /\ ep' = [ep EXCEPT ![s][c].remaining = @ - charge(m.len)]
                  /\ entries' = [entries EXCEPT ![s] = @ \ {c}]
             ELSE /\ ep' = [ep EXCEPT ![s][c].overran = TRUE,
                        ![s][c].inbound = IF RxOpen(s, c) THEN Append(@, Violation(c)) ELSE @]
                  /\ entries' = [entries EXCEPT ![s] = @ \ {c}]
          /\ UNCHANGED <<dataQ, ctrlQ, tunnel>>
    BY Zenon DEF OnData
  <1> DEFINE c == m.c
             t == ep[s][c]
             r == ep[Peer(s)][c]
             k == t.remaining - charge(m.len)
  <1>2. Reads(s, m, "data") /\ UNCHANGED <<dataQ, ctrlQ, tunnel>> /\ "data" # "open"
    BY <1>1
  <1>3. Arrives(s, m, c, t, r) /\ m.kind = "data"
    BY <1>2, ReadArrives
  <1>4. /\ m \in Frames /\ c \in Channels /\ t \in Tasks /\ r \in Tasks /\ m.c = c /\ ~Gone(s)
        /\ m.len \in 1..MAX_FRAME /\ IsData(m, c) /\ Payload(m, c)
    BY <1>3 DEF Arrives, IsData, Payload
  <1>5. t.phase # "none"
    BY <1>2, DataHasTask
  <1>6. entries \in [Sides -> SUBSET Channels] /\ ep \in [Sides -> [Channels -> Tasks]]
    BY MuxTypes
  <1>7. DataFrames(c, <<m>>) = 1 /\ Charges(c, <<m>>) = charge(m.len) /\ charge(m.len) \in Nat
    <2>1. DataFrames(c, <<m>>) = 1 /\ Charges(c, <<m>>) = charge(m.len)
      BY <1>4, CountsSmall
    <2>2. <<m>> \in Seq(Frames)
      BY <1>4
    <2> QED BY <2>1, <2>2, CountsConcat
  \* The frame leaves t2, and the rest follows.
  <1>8. ASSUME NEW t2 \in Tasks, ep' = [ep EXCEPT ![s][c] = t2], Takes(s, c, t, t2, r, m),
               entries' \in [Sides -> SUBSET Channels],
                    \A x \in Sides : entries'[x] \subseteq entries[x],
               c \in entries'[s] => /\ Got(c, t2) = Got(c, t) + 1
                                    /\ t.remaining <= t2.remaining + charge(m.len)
        PROVE  MuxInv'
    <2>1. ep'[s][c] = t2 /\ t2.phase # "none"
      BY <1>4, <1>5, <1>6, <1>8 DEF Takes
    <2>2. (Hears(s, c)' => c \in entries'[s]) /\ (Admits(s, c)' => c \in entries'[s])
      BY <2>1 DEF Hears, Admits, Over
    <2>3. Admitted(Peer(s), t) = t.remaining /\ Admitted(Peer(s), t2) = t2.remaining
      BY <1>5, <2>1 DEF Admitted
    <2>4. /\ Hears(s, c)' => Got(c, t2) = Got(c, t) + DataFrames(c, <<m>>)
          /\ Admits(s, c)' => Admitted(Peer(s), t) <= Admitted(Peer(s), t2) + Charges(c, <<m>>)
      BY <1>7, <1>8, <2>2, <2>3
    <2> HIDE DEF c
    <2> QED BY <1>2, <1>4, <1>8, <2>4, ReadKeeps
  <1>9. CASE c \notin entries[s]
    <2>1. ep' = [ep EXCEPT ![s][c] = t] /\ entries' = entries
      BY <1>1, <1>6, <1>9
    <2>2. Takes(s, c, t, t, r, m)
      BY <1>4, SameTakes
    <2> QED BY <1>4, <1>6, <1>8, <1>9, <2>1, <2>2
  <1>10. CASE c \in entries[s]
    <2>1. Admits(s, c) /\ Admitted(Peer(s), t) = t.remaining
      BY <1>4, <1>5, <1>10 DEF Admits, Admitted
    <2>2. charge(m.len) <= t.remaining /\ accepts(t.remaining, m.len)
      BY <1>3, <1>4, <2>1 DEF Arrives, accepts
    <2>3. /\ t.remaining \in 0..U32_MAX /\ t.inbound \in Seq(Frames)
               /\ t.credit \in 0..MAX_SEND_CREDIT
          /\ t.opened \in BOOLEAN /\ U32_MAX \in Nat
      BY <1>4, TaskTypes, WindowAssumption
    <2>4. k \in 0..U32_MAX /\ k + charge(m.len) = t.remaining /\ k <= t.remaining
      <3> HIDE DEF t
      <3> QED BY <1>7, <2>2, <2>3
    <2>5. CASE RxOpen(s, c)
      <3> DEFINE t2 == Marked(t, t.credit, t.opened, k, Append(t.inbound, m))
      <3>1. ep' = [ep EXCEPT ![s][c].remaining = @ - charge(m.len), ![s][c].inbound = Append(@, m)]
            /\ entries' = entries
        BY <1>1, <1>10, <2>2, <2>5
      <3>2. ep' = [ep EXCEPT ![s][c] = t2]
        <4>1. t2 = [t EXCEPT !.remaining = k, !.inbound = Append(t.inbound, m)]
          BY <1>4 DEF Marked, Tasks
        <4>2. ep' = [ep EXCEPT ![s][c] = [t EXCEPT !.remaining = k, !.inbound = Append(t.inbound, m)]]
          BY <1>4, <1>6, <3>1 DEF Tasks
        <4> QED BY <4>1, <4>2, Zenon
      <3>3. t.down # "ended" /\ Hears(s, c)
        BY <1>4, <1>10, <2>5 DEF RxOpen, Hears, Over
      <3>4. m.seq = Got(c, t) + 1 /\ k + charge(m.len) <= t.remaining
        BY <1>3, <1>4, <2>3, <2>4, <3>3 DEF Arrives
      <3> HIDE DEF k
      <3>5. /\ t2 \in Tasks /\ t2.remaining = k /\ Got(c, t2) = Got(c, t) + DataFrames(c, <<m>>)
            /\ Takes(s, c, t, t2, r, m)
        <4> HIDE DEF t2, c
        <4>1. t2 = Marked(ep[s][c], ep[s][c].credit, ep[s][c].opened, k, Append(ep[s][c].inbound, m))
          BY DEF t2
        <4>2. Fits(c, ep[s][c], ep[Peer(s)][c], m, k)
          BY <1>4, <3>4 DEF Fits
        <4> QED BY <1>4, <1>5, <2>4, <3>3, <4>1, <4>2, AppendTakes
      <3> HIDE DEF t2
      <3>6. t.remaining <= t2.remaining + charge(m.len) /\ Got(c, t2) = Got(c, t) + 1
        BY <1>7, <2>3, <2>4, <3>5
      <3> QED BY <1>6, <1>8, <3>1, <3>2, <3>5, <3>6
    <2>6. CASE ~RxOpen(s, c)
      <3> DEFINE t2 == Marked(t, t.credit, t.opened, k, t.inbound)
      <3>1. ep' = [ep EXCEPT ![s][c].remaining = @ - charge(m.len)]
            /\ entries' = [entries EXCEPT ![s] = @ \ {c}]
        BY <1>1, <1>10, <2>2, <2>6
      <3>2. ep' = [ep EXCEPT ![s][c] = t2]
        <4>1. t2 = [t EXCEPT !.remaining = k]
          BY <1>4 DEF Marked, Tasks
        <4> QED BY <3>1, <4>1
      <3>3. /\ entries' \in [Sides -> SUBSET Channels]
                 /\ (\A x \in Sides : entries'[x] \subseteq entries[x])
            /\ c \notin entries'[s]
        BY <1>6, <3>1
      <3> HIDE DEF k
      <3>4. t2.phase = t.phase /\ t2.allow = t.allow /\ t2.frame = t.frame
           /\ t2.credit = t.credit /\ t2.opened = t.opened
        BY <1>4, <2>3, <2>4, MarkedFields
      <3> HIDE DEF t2
      <3>5. Spends(s, c, t2, r) <= Spends(s, c, t, r) + Updates(c, <<m>>)
        <4>1. Spends(s, c, t2, r) = Spends(s, c, t, r)
          BY <3>4 DEF Spends, Lift
        <4>2. Spends(s, c, t, r) \in Nat
          BY <1>4, SpendsNat
        <4>3. <<m>> \in Seq(Frames)
          BY <1>4
        <4>4. Updates(c, <<m>>) \in Nat
          BY <4>3, CountsConcat
        <4> QED BY <4>1, <4>2, <4>4
      <3>6. t2 \in Tasks /\ Takes(s, c, t, t2, r, m)
        <4> HIDE DEF c
        <4>1. t2 = Marked(ep[s][c], ep[s][c].credit, ep[s][c].opened, k, ep[s][c].inbound)
          BY DEF t2
        <4> QED BY <1>4, <1>5, <2>3, <2>4, <3>5, <4>1, MarkTakes
      <3> QED BY <1>8, <3>2, <3>3, <3>6
    <2> QED BY <2>5, <2>6
  <1> QED BY <1>9, <1>10


LEMMA CloseTakes ==
  ASSUME MuxInv, NEW s \in Sides, NEW c \in Channels, NEW x \in Frames, x.kind = "close", x.c = c,
         ep[s][c].phase # "none", ep[s][c].down # "ended",
         Got(c, ep[s][c]) = ep[Peer(s)][c].sent, ep[Peer(s)][c].phase \in Final,
         NEW t2, t2 = [ep[s][c] EXCEPT !.inbound = Append(ep[s][c].inbound, x)]
  PROVE  t2 \in Tasks /\ \A m \in Frames : Takes(s, c, ep[s][c], t2, ep[Peer(s)][c], m)
  <1> DEFINE t == ep[s][c]
             k == t.remaining
  <1>1. t \in Tasks
    BY TaskFacts
  <1>2. k \in 0..U32_MAX
    BY <1>1, TaskTypes
  <1>3. t2 = Marked(t, t.credit, t.opened, k, Append(t.inbound, x))
    BY <1>1 DEF Marked, Tasks
  <1>4. Fits(c, t, ep[Peer(s)][c], x, k)
    BY DEF Fits
  <1> HIDE DEF k
  <1> QED BY <1>2, <1>3, <1>4, AppendTakes

\* The channel is over, and its task is told so if it listens.
LEMMA DropKeeps ==
  ASSUME MuxInv, NEW s \in Sides, NEW kind \in {"close", "refused"}, NEW m, Reads(s, m, kind),
         NEW x \in Frames, x.kind = "close", x.c = m.c, DropEntry(s, m.c, x),
         UNCHANGED <<dataQ, ctrlQ, tunnel>>
  PROVE  MuxInv'
  <1> DEFINE c == m.c
             t == ep[s][c]
             r == ep[Peer(s)][c]
  <1>1. Arrives(s, m, c, t, r) /\ m.kind = kind /\ kind # "open" /\ kind # "data"
    BY ReadArrives
  <1>2. /\ m \in Frames /\ c \in Channels /\ t \in Tasks /\ r \in Tasks /\ m.c = c /\ ~Gone(s)
        /\ Ends(m, c) /\ r.phase \in Final
    BY <1>1 DEF Arrives, Ends
  <1>3. entries \in [Sides -> SUBSET Channels] /\ ep \in [Sides -> [Channels -> Tasks]]
    BY MuxTypes
  <1>4. DataFrames(c, <<m>>) = 0 /\ Charges(c, <<m>>) = 0
    BY <1>1, <1>2, CountsSmall DEF IsData
  <1>5. /\ entries' = [entries EXCEPT ![s] = @ \ {c}]
        /\ ep' = IF c \in entries[s] /\ RxOpen(s, c)
                 THEN [ep EXCEPT ![s][c].inbound = Append(@, x)] ELSE ep
    BY DEF DropEntry
  <1>6. /\ entries' \in [Sides -> SUBSET Channels]
             /\ (\A y \in Sides : entries'[y] \subseteq entries[y])
        /\ c \notin entries'[s]
    BY <1>3, <1>5
  <1>7. CASE c \in entries[s] /\ RxOpen(s, c)
    <2> DEFINE t2 == Marked(t, t.credit, t.opened, t.remaining, Append(t.inbound, x))
    <2>1. t.phase # "none" /\ t.down # "ended"
      BY <1>2, <1>7 DEF RxOpen, MuxInv, Channel
    <2>2. Hears(s, c)
      BY <1>2, <1>7, <2>1 DEF Hears, Over
    <2>3. Got(c, t) = r.sent
      BY <1>1, <1>2, <2>2 DEF Arrives
    <2>4. t2 = [t EXCEPT !.inbound = Append(t.inbound, x)]
      BY <1>2 DEF Marked, Tasks
    <2>5. ep' = [ep EXCEPT ![s][c] = t2]
      BY <1>5, <1>7, <2>4
    <2>6. t.remaining \in 0..U32_MAX
      BY <1>2, TaskTypes
    <2>7. t2 \in Tasks /\ Takes(s, c, t, t2, r, m)
      <3>0. x.c = c
        OBVIOUS
      <3>1. t2 = [ep[s][c] EXCEPT !.inbound = Append(ep[s][c].inbound, x)]
        BY <2>4
      <3>2. ep[s][c].phase # "none" /\ ep[s][c].down # "ended"
           /\ Got(c, ep[s][c]) = ep[Peer(s)][c].sent
        BY <2>1, <2>3
      <3> HIDE DEF t2, c
      <3> QED BY <1>2, <3>0, <3>1, <3>2, CloseTakes
    <2> HIDE DEF t2
    <2>8. ep'[s][c] = t2 /\ t2.phase # "none"
      BY <1>2, <1>3, <2>1, <2>5, <2>7 DEF Takes
    <2>9. ~Hears(s, c)' /\ ~Admits(s, c)'
      BY <1>6, <2>8 DEF Hears, Admits, Over
    <2> HIDE DEF c
    <2> QED BY <1>1, <1>2, <1>6, <2>5, <2>7, <2>9, ReadKeeps
  <1>8. CASE ~(c \in entries[s] /\ RxOpen(s, c))
    <2>1. ep' = [ep EXCEPT ![s][c] = t]
      BY <1>3, <1>5, <1>8
    <2>2. Takes(s, c, t, t, r, m)
      BY <1>2, SameTakes
    <2>3. Got(c, t) = Got(c, t) + DataFrames(c, <<m>>)
      BY <1>2, <1>4, GotNat
    <2>4. Admitted(Peer(s), t) \in Nat
      BY <1>2, Others, SpendsNat
    <2>5. Admitted(Peer(s), t) <= Admitted(Peer(s), t) + Charges(c, <<m>>)
      BY <1>4, <2>4
    <2> HIDE DEF c
    <2> QED BY <1>1, <1>2, <1>6, <2>1, <2>2, <2>3, <2>5, ReadKeeps
  <1> QED BY <1>7, <1>8

LEMMA OnCloseKeeps ==
  ASSUME MuxInv, NEW s \in Sides, OnClose(s)
  PROVE  MuxInv'
  <1>1. PICK m \in Range(wire[Peer(s)]) :
          Reads(s, m, "close") /\ DropEntry(s, m.c, m) /\ UNCHANGED <<dataQ, ctrlQ, tunnel>>
    BY Zenon DEF OnClose
  <1>2. m \in Frames /\ m.kind = "close"
    BY <1>1, ReadStream, ZenonT(30)
  <1> QED BY <1>1, <1>2, DropKeeps

LEMMA OnRefusedKeeps ==
  ASSUME MuxInv, OnRefused
  PROVE  MuxInv'
  <1> DEFINE s == "ctl"
  <1>1. s \in Sides
    BY DEF Sides
  <1>2. PICK m \in Range(wire["tgt"]) :
          /\ Reads(s, m, "refused") /\ DropEntry(s, m.c, Frame("close", m.c, 0, 0))
          /\ UNCHANGED <<dataQ, ctrlQ, tunnel>>
    BY Zenon DEF OnRefused
  <1> DEFINE x == Frame("close", m.c, 0, 0)
  <1> HIDE DEF s
  <1>3. m.c \in Channels
    BY <1>1, <1>2, ReadStream
  <1>4. x \in Frames /\ x.kind = "close" /\ x.c = m.c
    BY <1>3, WindowAssumption DEF Frame, Frames, MuxInv, MuxAssumption
  <1>5. DropEntry(s, m.c, x)
    BY <1>2
  <1> HIDE DEF x
  <1> QED BY <1>1, <1>2, <1>4, <1>5, DropKeeps

-----------------------------------------------------------------------------
(* The controlled side meets an `open`. *)

LEMMA OpenFacts ==
  ASSUME MuxInv, NEW m, Reads("tgt", m, "open"), UNCHANGED <<ctrlQ, tunnel>>,
         NEW c, c = m.c, NEW q, q = Tail(wire["ctl"]) \o dataQ["ctl"]
  PROVE  /\ m \in Frames /\ c \in Channels /\ m.len = CHANNEL_WINDOW /\ ~Gone("tgt")
         /\ ep["tgt"][c] = NoTask /\ c \notin entries["tgt"] /\ ep["ctl"][c] \in Tasks
              /\ NoTask \in Tasks
         /\ q \in Seq(Frames) /\ <<m>> \in Seq(Frames) /\ Stream("ctl") = <<m>> \o q
         /\ wire' \in [Sides -> Seq(Frames)] /\ wire'["ctl"] = Tail(wire["ctl"])
              /\ wire'["tgt"] = wire["tgt"]
         /\ DataFrames(c, <<m>>) = 0 /\ Charges(c, <<m>>) = 0 /\ Updates(c, <<m>>) = 0
         /\ \A t2 : t2.phase # "none" => Opening(c, ep["ctl"][c], t2, q, Gone("ctl"), Gone("tgt"))
  <1> DEFINE t == ep["tgt"][c]
             r == ep["ctl"][c]
  <1>0. "tgt" \in Sides /\ Peer("tgt") = "ctl"
    BY DEF Sides, Peer
  <1>1. Arrives("tgt", m, c, t, r) /\ m.kind = "open"
    BY <1>0, ReadArrives
  <1>2. /\ m \in Frames /\ c \in Channels /\ m.len = CHANNEL_WINDOW /\ ~Gone("tgt")
        /\ t \in Tasks /\ r \in Tasks /\ Begun(r) /\ <<m>> \in Seq(Frames)
    BY <1>1 DEF Arrives
  <1>3. /\ q \in Seq(Frames) /\ Stream("ctl") = <<m>> \o q
        /\ wire' \in [Sides -> Seq(Frames)] /\ wire'["ctl"] = Tail(wire["ctl"])
             /\ wire'["tgt"] = wire["tgt"]
    BY <1>0, ReadStream, ZenonT(30)
  <1>4. IsOpen(m, c) /\ ~IsData(m, c)
    BY <1>1, <1>2 DEF IsOpen, IsData
  <1>5. DataFrames(c, <<m>>) = 0 /\ Charges(c, <<m>>) = 0 /\ Updates(c, <<m>>) = 0
       /\ Opens(c, <<m>>) = 1
    BY <1>1, <1>2, <1>4, CountsSmall
  <1>6. Opening(c, r, t, <<m>> \o q, Gone("ctl"), Gone("tgt"))
    BY <1>2, <1>3 DEF MuxInv, Channel
  <1>7. Opens(c, <<m>> \o q) = 1 + Opens(c, q) /\ Opens(c, q) \in Nat
    <2>1. Opens(c, <<m>> \o q) = Opens(c, <<m>>) + Opens(c, q) /\ Opens(c, q) \in Nat
      BY <1>2, <1>3, CountsConcat
    <2> QED BY <1>5, <2>1
  <1>8. Opens(c, q) = 0 /\ t.phase = "none"
    BY <1>6, <1>7 DEF Opening
  <1>9. OpenFirst(c, q, 1)
    <2>1. OpenFirst(c, <<m>> \o q, 0)
      BY <1>2, <1>6, <1>8 DEF Opening
    <2>2. OpenFirst(c, <<m>> \o q, 0) <=> OpenFirst(c, <<m>>, 0)
         /\ OpenFirst(c, q, 0 + Opens(c, <<m>>))
      BY <1>2, <1>3, RunsConcat, ZenonT(30)
    <2>3. 0 + Opens(c, <<m>>) = 1
      BY <1>5
    <2> QED BY <2>1, <2>2, <2>3, Zenon
  <1>10. \A t2 : t2.phase # "none" => Opening(c, r, t2, q, Gone("ctl"), Gone("tgt"))
    <2> TAKE t2
    <2> HAVE t2.phase # "none"
    <2>1. OpenFirst(c, q, IF t2.phase = "none" THEN 0 ELSE 1)
      BY <1>9
    <2>2. Opens(c, q) <= 1
      BY <1>8
    <2> QED BY <1>2, <1>8, <2>1, <2>2, Zenon DEF Opening
  <1>11. t = NoTask /\ NoTask \in Tasks
    <2>1. t = NoTask
      BY <1>0, <1>2, <1>8, TaskFacts
    <2> QED BY <1>2, <2>1
  <1>12. c \notin entries["tgt"]
    BY <1>0, <1>2, <1>8 DEF MuxInv, Channel
  <1> QED BY <1>2, <1>3, <1>5, <1>10, <1>11, <1>12

\* The new channel's task is t2.
Seats(c, t2) ==
  /\ t2 \in Tasks /\ t2.phase # "none" /\ ep' = [ep EXCEPT !["tgt"][c] = t2]
  /\ dataQ' \in [Sides -> Seq(Frames)] /\ dataQ'["ctl"] = dataQ["ctl"]
  /\ entries' \in [Sides -> SUBSET Channels]
  /\ \A d \in Channels, x \in Sides : d \in entries'[x] => d \in entries[x] \/ (x = "tgt" /\ d = c)
  /\ \A d \in Channels : d # c => Alike(d, Stream("tgt"), Stream("tgt")')
  /\ Sane("tgt", c, t2) /\ Hearkens(c, ep["ctl"][c], t2)
  /\ c \in entries'["tgt"] => /\ Got(c, t2) = 0 /\ t2.remaining = INITIAL_WINDOW /\ ~t2.granted
                              /\ Announces("tgt", c)' = Announces("tgt", c)
  /\ Direction("tgt", c, t2, ep["ctl"][c], Stream("tgt")', Ctrl("tgt"), Gone("tgt"),
               Hears("ctl", c), Admits("ctl", c), Announces("ctl", c))

LEMMA OpenTurn ==
  ASSUME MuxInv, NEW m, Reads("tgt", m, "open"), UNCHANGED <<ctrlQ, tunnel>>,
         NEW c, c = m.c, NEW t2, Seats(c, t2)
  PROVE  MuxInv'
  <1> USE DEF Seats
  <1> DEFINE s == "tgt"
             p == "ctl"
             r == ep[p][c]
             t == ep[s][c]
             q == Tail(wire[p]) \o dataQ[p]
  <1>0. s \in Sides /\ p \in Sides /\ p # s /\ Peer(s) = p /\ Peer(p) = s /\ Sides = {s, p}
       /\ s = "tgt" /\ p = "ctl"
        /\ TypeOK /\ MuxAssumption
    BY DEF Sides, Peer, MuxInv
  <1>1. /\ m \in Frames /\ c \in Channels /\ ~Gone(s) /\ t = NoTask /\ c \notin entries[s]
             /\ r \in Tasks /\ NoTask \in Tasks
        /\ q \in Seq(Frames) /\ <<m>> \in Seq(Frames) /\ Stream(p) = <<m>> \o q
        /\ wire' \in [Sides -> Seq(Frames)] /\ wire'[p] = Tail(wire[p]) /\ wire'[s] = wire[s]
        /\ DataFrames(c, <<m>>) = 0 /\ Charges(c, <<m>>) = 0 /\ Updates(c, <<m>>) = 0
    BY OpenFacts
  <1>2. Opening(c, r, t2, q, Gone(p), Gone(s))
    BY OpenFacts
  <1>3. Stream(p)' = q
    BY <1>1 DEF Stream
  <1> HIDE DEF q
  <1>4. TypeOK'
    BY <1>0, <1>1, MuxTypes, TypeKeeps
  <1>5. \A d \in Channels, x \in Sides : d # c => Alike(d, Stream(x), Stream(x)')
    <2>1. ASSUME NEW d \in Channels, d # c PROVE Alike(d, <<m>> \o q, q)
      BY <1>1, <2>1, AlikeEnds
    <2> QED BY <1>0, <1>1, <1>3, <2>1
  <1>6. Announces(p, c)' = Announces(p, c)
    <2>1. Updates(c, <<m>> \o q) = Updates(c, <<m>>) + Updates(c, q) /\ Updates(c, q) \in Nat
      BY <1>1, CountsConcat
    <2>2. Updates(c, <<m>> \o q) = Updates(c, q)
      BY <1>1, <2>1
    <2>3. Ctrl(p)' = Ctrl(p)
      BY DEF Ctrl
    <2> QED BY <1>1, <1>3, <2>2, <2>3 DEF Announces
  <1>7. Direction(p, c, r, t2, q, Ctrl(p), Gone(p), Hears(s, c)', Admits(s, c)', Announces(s, c)')
    <2>1. Direction(p, c, r, t, <<m>> \o q, Ctrl(p), Gone(p), Hears(s, c), Admits(s, c), Announces(s, c))
      BY <1>0, <1>1 DEF MuxInv, Channel, Announces
    <2>2. ep'[s][c] = t2
      BY <1>0, <1>1 DEF TypeOK
    <2>3. (Hears(s, c)' => c \in entries'[s]) /\ (Admits(s, c)' => c \in entries'[s])
      BY <2>2 DEF Hears, Admits, Over
    <2>4. Hears(s, c) /\ Admits(s, c) /\ t.phase = "none" /\ ~t.granted /\ t.written = 0
      BY <1>1 DEF Hears, Admits, Over, NoTask
    <2>5. Got(c, t) = 0
      <3>1. Holds(t) = <<>>
        BY <1>1 DEF NoTask, Holds
      <3>2. DataFrames(c, <<>>) = 0
        BY CountsSmall
      <3> QED BY <2>4, <3>1, <3>2 DEF Got
    <2>6. Announces(s, c) \in Nat /\ Announces(s, c)' \in Nat
      <3>1. Announces(s, c) \in Nat
        BY <1>0, <1>1, ChannelParts DEF Announces
      <3>2. Stream(s)' \in Seq(Frames) /\ Ctrl(s)' \in Seq(Frames)
        BY <1>0, <1>4 DEF TypeOK, Stream, Ctrl
      <3>3. Updates(c, Stream(s)') \in Nat /\ Updates(c, Ctrl(s)') \in Nat
        BY <3>2, CountsConcat
      <3> QED BY <3>1, <3>3 DEF Announces
    <2>7. c \in entries'[s] => Spends(p, c, r, t2) = Spends(p, c, r, t)
      BY <2>4 DEF Spends, Lift
    <2>8. c \in entries'[s] => Admitted(p, t2) = Admitted(p, t)
      BY <1>0, <2>4 DEF Admitted, Start
    <2>9. Spends(p, c, r, t) \in Nat /\ Admitted(p, t) \in Nat
      BY <1>0, <1>1, SpendsNat
    <2>10. Hears(s, c)' => Hears(s, c) /\ Got(c, t2) = Got(c, t) + DataFrames(c, <<m>>)
      BY <1>1, <2>3, <2>4, <2>5
    <2>11. Admits(s, c)' => /\ Admits(s, c)
                            /\ Spends(p, c, r, t2) + Announces(s, c)' + Admitted(p, t)
                                <= Spends(p, c, r, t) + Announces(s, c) + Admitted(p, t2) + Charges(c, <<m>>)
      <3> SUFFICES ASSUME c \in entries'[s]
                   PROVE  Spends(p, c, r, t2) + Announces(s, c)' + Admitted(p, t)
                            <= Spends(p, c, r, t) + Announces(s, c) + Admitted(p, t2) + Charges(c, <<m>>)
        BY <2>3, <2>4
      <3>1. Announces(s, c)' = Announces(s, c)
        OBVIOUS
      <3> HIDE DEF t, r, s, p
      <3> QED BY <1>1, <2>6, <2>7, <2>8, <2>9, <3>1
    <2>12. Hearkens(c, r, t2) /\ t \in Tasks
      BY <1>1
    <2> HIDE DEF t, r, s, p
    <2> QED BY <1>0, <1>1, <2>1, <2>6, <2>10, <2>11, <2>12, ReceiverReads
  <1>8. Opening(c, ep["ctl"][c], ep["tgt"][c], Stream("ctl"), Gone("ctl"), Gone("tgt"))'
    <2>1. ep'[s][c] = t2 /\ ep'[p][c] = r /\ Gone(s)' = Gone(s) /\ Gone(p)' = Gone(p)
      BY <1>0, <1>1 DEF TypeOK, Gone
    <2> QED BY <1>2, <1>3, <2>1
  <1>9. \A d \in Channels : Channel(d)
    BY DEF MuxInv
  <1>10. Direction(s, c, t2, r, Stream(s)', Ctrl(s), Gone(s), Hears(p, c), Admits(p, c), Announces(p, c)')
    BY <1>6
  <1>11. Direction(p, c, r, t2, Stream(p)', Ctrl(p), Gone(p), Hears(s, c)', Admits(s, c)', Announces(s, c)')
    BY <1>3, <1>7
  <1>12. \A d \in Channels : Channel(d)'
    <2>1. \A d \in Channels, x \in Sides : d \in entries'[x] => d \in entries[x] \/ (x = s /\ d = c)
      OBVIOUS
    <2>2. ep' = [ep EXCEPT ![s][c] = t2] /\ Sane(s, c, t2) /\ tunnel' = tunnel /\ ctrlQ' = ctrlQ
      OBVIOUS
    <2> HIDE DEF s, p
    <2>3. /\ Direction(s, c, t2, ep[Peer(s)][c], Stream(s)', Ctrl(s), Gone(s),
                       Hears(Peer(s), c), Admits(Peer(s), c), Announces(Peer(s), c)')
          /\ Direction(Peer(s), c, ep[Peer(s)][c], t2, Stream(Peer(s))', Ctrl(Peer(s)), Gone(Peer(s)),
                       Hears(s, c)', Admits(s, c)', Announces(s, c)')
      BY <1>0, <1>10, <1>11
    <2>4. c \in Channels /\ s \in Sides /\ TypeOK
      BY <1>0, <1>1
    <2> QED BY <1>4, <1>5, <1>8, <1>9, <2>1, <2>2, <2>3, <2>4, ReadTurn
  <1>13. \A x \in Range(ctrlQ') : x.kind = "update"
    BY DEF MuxInv
  <1> QED BY <1>0, <1>4, <1>12, <1>13 DEF MuxInv


LEMMA AdmitKeeps ==
  ASSUME MuxInv, NEW m, Reads("tgt", m, "open"), NEW c, c = m.c, NEW live \in SUBSET entries["tgt"],
         entries' = [entries EXCEPT !["tgt"] = live \cup {c}],
         ep' = [ep EXCEPT !["tgt"][c] = NewTask("connecting", effective_window(m.len), INITIAL_WINDOW)],
         UNCHANGED <<dataQ, ctrlQ, tunnel>>
  PROVE  MuxInv'
  <1> DEFINE s == "tgt"
             p == "ctl"
             r == ep[p][c]
             t == ep[s][c]
             q == Tail(wire[p]) \o dataQ[p]
             t2 == NewTask("connecting", effective_window(m.len), INITIAL_WINDOW)
  <1>0. s \in Sides /\ p \in Sides /\ Peer(s) = p /\ Peer(p) = s /\ s = "tgt" /\ p = "ctl"
        /\ TypeOK /\ MuxAssumption
    BY DEF Sides, Peer, MuxInv
  <1>1. /\ c \in Channels /\ t = NoTask /\ r \in Tasks /\ NoTask \in Tasks /\ m.len = CHANNEL_WINDOW
        /\ wire'[s] = wire[s]
    BY OpenFacts
  <1>2. /\ effective_window(m.len) = CHANNEL_WINDOW /\ CHANNEL_WINDOW \in Nat
        /\ INITIAL_WINDOW \in 0..U32_MAX /\ effective_window(INITIAL_WINDOW) = INITIAL_WINDOW
        /\ new_credit(CHANNEL_WINDOW) = CHANNEL_WINDOW /\ INITIAL_WINDOW \in Nat
    BY <1>1, WindowAssumption DEF effective_window, new_credit, AtLeast, AtMost
  <1>3. /\ t2 \in Tasks /\ t2.phase = "connecting" /\ t2.up = "idle" /\ t2.down = "idle"
             /\ t2.downEnd = "none"
        /\ t2.chunk = <<>> /\ t2.pend = <<>> /\ t2.inbound = <<>> /\ t2.frame = <<>> /\ t2.allow = 0
        /\ t2.remaining = INITIAL_WINDOW /\ t2.drained = 0 /\ t2.credit = CHANNEL_WINDOW
        /\ t2.sent = 0 /\ t2.written = 0 /\ ~t2.granted /\ ~t2.opened /\ ~t2.overran
    <2>1. t2 = NewTask("connecting", CHANNEL_WINDOW, INITIAL_WINDOW)
      BY <1>2
    <2> HIDE DEF t2
    <2> QED BY <1>0, <1>2, <2>1, NewTaskFields
  <1>4. ep' = [ep EXCEPT ![s][c] = t2]
    OBVIOUS
  <1> HIDE DEF t2
  <1>5. Sane(s, c, t2) /\ Got(c, t2) = 0 /\ Hearkens(c, r, t2)
    <2>1. t2.remaining <= IF s = "tgt" THEN INITIAL_WINDOW ELSE CHANNEL_WINDOW
      BY <1>2, <1>3
    <2>2. t2.phase \in {"opening", "connecting"}
      BY <1>3
    <2> HIDE DEF s
    <2> QED BY <1>0, <1>3, <2>1, <2>2, NewTaskSane
  <1>6. Stream(s)' = Stream(s) /\ Ctrl(s)' = Ctrl(s)
    BY <1>1 DEF Stream, Ctrl
  <1>7. Announces(s, c)' = Announces(s, c)
    BY <1>6 DEF Announces
  <1>8. Direction(s, c, t2, r, Stream(s), Ctrl(s), Gone(s), Hears(p, c), Admits(p, c), Announces(p, c))
    <2>1. Direction(s, c, t, r, Stream(s), Ctrl(s), Gone(s), Hears(p, c), Admits(p, c), Announces(p, c))
          /\ Buffers(c, r)
      BY <1>0, <1>1 DEF MuxInv, Channel, Announces, Sane
    <2>2. t.phase = "none" /\ ~t.granted /\ t.sent = 0 /\ t.frame = <<>> /\ t.allow = 0 /\ ~t.opened
      BY <1>1 DEF NoTask
    <2>3. Goes(s, c, t, t2, r, Gone(s))
      BY <1>3, <2>2 DEF Goes, Begun, Final
    <2>4. Spends(s, c, t2, r) = Spends(s, c, t, r)
      BY <1>3, <2>2 DEF Spends, Lift, Start
    <2>5. Spends(s, c, t, r) \in Nat
      BY <1>0, <1>1, SpendsNat
    <2>6. Announces(p, c) \in Nat /\ Stream(s) \in Seq(Frames)
      BY <1>0, <1>1, ChannelParts DEF Announces
    <2>7. Spends(s, c, t2, r) + Announces(p, c) <= Spends(s, c, t, r) + Announces(p, c)
      <3> HIDE DEF s, p, t, r
      <3> QED BY <2>4, <2>5, <2>6
    <2>8. t \in Tasks
      BY <1>1
    <2> HIDE DEF s, p, t, r
    <2> QED BY <1>0, <1>1, <1>3, <2>1, <2>3, <2>6, <2>7, <2>8, SenderGoes
  <1>9. /\ entries' \in [Sides -> SUBSET Channels]
        /\ \A d \in Channels, x \in Sides : d \in entries'[x] => d \in entries[x]
             \/ (x = "tgt" /\ d = c)
    BY <1>0, <1>1 DEF TypeOK
  <1>10. dataQ' \in [Sides -> Seq(Frames)] /\ dataQ'["ctl"] = dataQ["ctl"]
    BY <1>0 DEF TypeOK
  <1>11. \A d \in Channels : d # c => Alike(d, Stream("tgt"), Stream("tgt")')
    BY <1>6, AlikeSame
  <1>12. Direction("tgt", c, t2, ep["ctl"][c], Stream("tgt")', Ctrl("tgt"), Gone("tgt"),
                   Hears("ctl", c), Admits("ctl", c), Announces("ctl", c))
    BY <1>6, <1>8
  <1>13. /\ t2 \in Tasks /\ t2.phase # "none" /\ ep' = [ep EXCEPT !["tgt"][c] = t2]
         /\ Sane("tgt", c, t2) /\ Hearkens(c, ep["ctl"][c], t2) /\ Got(c, t2) = 0
              /\ t2.remaining = INITIAL_WINDOW
         /\ ~t2.granted /\ Announces("tgt", c)' = Announces("tgt", c)
    BY <1>3, <1>4, <1>5, <1>7
  <1>14. /\ c \in entries'["tgt"] => /\ Got(c, t2) = 0 /\ t2.remaining = INITIAL_WINDOW /\ ~t2.granted
                                      /\ Announces("tgt", c)' = Announces("tgt", c)
         /\ Reads("tgt", m, "open") /\ c = m.c /\ UNCHANGED <<ctrlQ, tunnel>>
    BY <1>13
  <1>15. Seats(c, t2)
    BY <1>9, <1>10, <1>11, <1>12, <1>13, Zenon DEF Seats
  <1> QED BY <1>14, <1>15, OpenTurn

LEMMA RefuseKeeps ==
  ASSUME MuxInv, NEW m, Reads("tgt", m, "open"), NEW c, c = m.c, NEW live \in SUBSET entries["tgt"],
         entries' = [entries EXCEPT !["tgt"] = live],
         ep' = [ep EXCEPT !["tgt"][c].phase = "done", !["tgt"][c].down = "ended"],
         send_ordered("tgt", Frame("refused", c, 0, 0)), UNCHANGED <<ctrlQ, tunnel>>
  PROVE  MuxInv'
  <1> DEFINE s == "tgt"
             p == "ctl"
             r == ep[p][c]
             t == ep[s][c]
             t2 == [NoTask EXCEPT !.phase = "done", !.down = "ended"]
             f == Frame("refused", c, 0, 0)
  <1>0. s \in Sides /\ p \in Sides /\ p # s /\ Peer(s) = p /\ Peer(p) = s /\ s = "tgt" /\ p = "ctl"
        /\ TypeOK /\ MuxAssumption
    BY DEF Sides, Peer, MuxInv
  <1>1. /\ c \in Channels /\ t = NoTask /\ r \in Tasks /\ NoTask \in Tasks /\ ~Gone(s)
             /\ c \notin entries[s]
        /\ wire'[s] = wire[s]
    BY OpenFacts
  <1>2. /\ t2 \in Tasks /\ t2.phase = "done" /\ t2.up = "idle" /\ t2.down = "ended"
             /\ t2.downEnd = "none"
        /\ t2.chunk = <<>> /\ t2.pend = <<>> /\ t2.inbound = <<>> /\ t2.frame = <<>> /\ t2.allow = 0
        /\ t2.remaining = 0 /\ t2.drained = 0 /\ t2.credit = 0
        /\ t2.sent = 0 /\ t2.written = 0 /\ ~t2.granted /\ ~t2.opened /\ ~t2.overran
    <2>0. ASSUME NEW z \in Tasks PROVE [z EXCEPT !.phase = "done", !.down = "ended"] \in Tasks
      BY DEF Tasks
    <2>1. t2 \in Tasks
      BY <1>1, <2>0
    <2> QED BY <2>1 DEF NoTask
  <1>3. ep' = [ep EXCEPT ![s][c] = t2]
    <2>1. ep \in [Sides -> [Channels -> Tasks]]
      BY <1>0 DEF TypeOK
    <2>2. ep' = [ep EXCEPT ![s][c] = [t EXCEPT !.phase = "done", !.down = "ended"]]
      BY <1>0, <1>1, <2>1
    <2> QED BY <1>1, <2>2
  <1> HIDE DEF t2
  <1>4. Holds(t2) = <<>> /\ Charges(c, <<>>) = 0
    BY <1>2, CountsSmall DEF Holds
  <1>5. Sane(s, c, t2)
    <2>1. Relays(t2)
      BY <1>2 DEF Relays
    <2>2. Buffers(c, t2)
      BY <1>2, RangeSmall DEF Buffers
    <2>3. Windows(s, c, t2)
      BY <1>2, <1>4, WindowAssumption DEF Windows, Window
    <2> QED BY <2>1, <2>2, <2>3 DEF Sane
  <1>6. Hearkens(c, r, t2)
    BY <1>2, RangeSmall DEF Hearkens, Held
  <1>7. /\ f \in Frames /\ f.c = c /\ f.kind = "refused" /\ ~IsData(f, c) /\ Ends(f, c)
             /\ <<f>> \in Seq(Frames)
    BY <1>0, <1>1, WindowAssumption DEF Frame, Frames, IsData, Ends, MuxAssumption
  <1>8. dataQ' = [dataQ EXCEPT ![s] = Append(@, f)]
    BY DEF send_ordered
  <1> HIDE DEF f
  <1>9. /\ dataQ' \in [Sides -> Seq(Frames)] /\ dataQ'["ctl"] = dataQ["ctl"]
             /\ dataQ'[s] = Append(dataQ[s], f)
        /\ dataQ[s] \in Seq(Frames) /\ wire[s] \in Seq(Frames)
    <2>1. dataQ \in [Sides -> Seq(Frames)] /\ wire[s] \in Seq(Frames) /\ dataQ[s] \in Seq(Frames)
      BY <1>0 DEF TypeOK
    <2>2. Append(dataQ[s], f) \in Seq(Frames)
      BY <1>7, <2>1
    <2> QED BY <1>0, <1>8, <2>1, <2>2
  <1>10. Stream(s)' = Stream(s) \o <<f>> /\ Stream(s) \in Seq(Frames)
    <2>1. Append(dataQ[s], f) = dataQ[s] \o <<f>>
      BY <1>7, <1>9, QueueLaws
    <2>2. (wire[s] \o dataQ[s]) \o <<f>> = wire[s] \o (dataQ[s] \o <<f>>)
         /\ wire[s] \o dataQ[s] \in Seq(Frames)
      BY <1>7, <1>9, TwoQueues, ThreeQueues
    <2> QED BY <1>1, <1>9, <2>1, <2>2 DEF Stream
  <1>11. Direction(s, c, t2, r, Stream(s) \o <<f>>, Ctrl(s), FALSE, Hears(p, c), Admits(p, c), Announces(p, c))
    <2>1. Direction(s, c, t, r, Stream(s), Ctrl(s), FALSE, Hears(p, c), Admits(p, c), Announces(p, c))
          /\ Buffers(c, r)
      <3>1. Direction(s, c, t, r, Stream(s), Ctrl(s), Gone(s), Hears(p, c), Admits(p, c), Announces(p, c))
            /\ Buffers(c, r)
        BY <1>0, <1>1 DEF MuxInv, Channel, Announces, Sane
      <3> QED BY <1>1, <3>1 DEF Direction, Carried
    <2>2. t.phase = "none" /\ ~t.granted /\ t.sent = 0 /\ t.frame = <<>> /\ t.allow = 0
         /\ ~t.opened /\ t \in Tasks
      BY <1>1 DEF NoTask
    <2>3. Puts(s, c, t, t2, f)
      BY <1>2, <1>7, <2>2 DEF Puts, Begun, Final
    <2>4. Spends(s, c, t2, r) + Charges(c, <<f>>) <= Spends(s, c, t, r)
      <3>1. Charges(c, <<f>>) = 0 /\ Charges(c, <<>>) = 0
        BY <1>7, CountsSmall
      <3>2. Lift(s, t2, r) = 0 /\ Lift(s, t, r) = 0
        BY DEF Lift
      <3>3. Spends(s, c, t2, r) = 0
        BY <1>2, <3>1, <3>2 DEF Spends
      <3>4. Spends(s, c, t, r) \in Nat
        BY <1>0, <1>1, <2>2, SpendsNat
      <3> HIDE DEF s, p, t, r
      <3> QED BY <3>1, <3>3, <3>4
    <2>5. Announces(p, c) \in Nat
      BY <1>0, <1>1, ChannelParts DEF Announces
    <2> HIDE DEF s, p, t, r
    <2> QED BY <1>0, <1>1, <1>2, <1>10, <2>1, <2>2, <2>3, <2>4, <2>5, SenderPuts
  <1>12. Direction("tgt", c, t2, ep["ctl"][c], Stream("tgt")', Ctrl("tgt"), Gone("tgt"),
                   Hears("ctl", c), Admits("ctl", c), Announces("ctl", c))
    <2>1. Direction(s, c, t2, r, Stream(s) \o <<f>>, Ctrl(s), Gone(s), Hears(p, c), Admits(p, c), Announces(p, c))
      BY <1>1, <1>11 DEF Direction, Carried
    <2> QED BY <1>10, <2>1
  <1>13. /\ entries' \in [Sides -> SUBSET Channels] /\ c \notin entries'["tgt"]
         /\ \A d \in Channels, x \in Sides : d \in entries'[x] => d \in entries[x]
              \/ (x = "tgt" /\ d = c)
    BY <1>0, <1>1 DEF TypeOK
  <1>14. ASSUME NEW d \in Channels, d # c PROVE Alike(d, Stream("tgt"), Stream("tgt")')
    BY <1>7, <1>10, <1>14, AlikeEnds
  <1>15. t2 \in Tasks /\ t2.phase # "none" /\ ep' = [ep EXCEPT !["tgt"][c] = t2]
         /\ Sane("tgt", c, t2) /\ Hearkens(c, ep["ctl"][c], t2)
    BY <1>2, <1>3, <1>5, <1>6
  <1>16. /\ c \in entries'["tgt"] => /\ Got(c, t2) = 0 /\ t2.remaining = INITIAL_WINDOW /\ ~t2.granted
                                      /\ Announces("tgt", c)' = Announces("tgt", c)
         /\ Reads("tgt", m, "open") /\ c = m.c /\ UNCHANGED <<ctrlQ, tunnel>>
    BY <1>13
  <1>17. \A d \in Channels : d # c => Alike(d, Stream("tgt"), Stream("tgt")')
    BY <1>14
  <1>18. Seats(c, t2)
    BY <1>9, <1>12, <1>13, <1>15, <1>16, <1>17, Zenon DEF Seats
  <1> QED BY <1>16, <1>18, OpenTurn

LEMMA OnOpenKeeps ==
  ASSUME MuxInv, NEW permitted \in BOOLEAN, OnOpen(permitted)
  PROVE  MuxInv'
  <1> DEFINE live == {d \in entries["tgt"] : RxOpen("tgt", d)}
             admit == permitted /\ Cardinality(live) < MAX_CHANNELS
  <1>1. PICK m \in Range(wire["ctl"]) :
          /\ Reads("tgt", m, "open")
          /\ IF admit /\ m.c \in live
             THEN entries' = [entries EXCEPT !["tgt"] = live] /\ UNCHANGED <<ep, dataQ>>
             ELSE IF admit
             THEN /\ entries' = [entries EXCEPT !["tgt"] = live \cup {m.c}]
                  /\ ep' = [ep EXCEPT !["tgt"][m.c] =
                              NewTask("connecting", effective_window(m.len), INITIAL_WINDOW)]
                  /\ UNCHANGED dataQ
             ELSE /\ entries' = [entries EXCEPT !["tgt"] = live]
                  /\ send_ordered("tgt", Frame("refused", m.c, 0, 0))
                  /\ ep' = [ep EXCEPT !["tgt"][m.c].phase = "done", !["tgt"][m.c].down = "ended"]
          /\ UNCHANGED <<ctrlQ, tunnel>>
    BY Zenon DEF OnOpen
  <1> DEFINE c == m.c
  <1>2. live \in SUBSET entries["tgt"]
    OBVIOUS
  <1>3. c \notin live
    <2>1. c \notin entries["tgt"]
      BY <1>1, OpenFacts
    <2> QED BY <2>1
  <1>4. c = m.c
    OBVIOUS
  <1> HIDE DEF live
  <1>5. CASE admit
    <2>1. /\ entries' = [entries EXCEPT !["tgt"] = live \cup {c}]
               /\ UNCHANGED <<dataQ, ctrlQ, tunnel>>
          /\ ep' = [ep EXCEPT !["tgt"][c] = NewTask("connecting", effective_window(m.len), INITIAL_WINDOW)]
          /\ Reads("tgt", m, "open")
      BY <1>1, <1>3, <1>5
    <2> HIDE DEF c
    <2> QED BY <1>2, <1>4, <2>1, AdmitKeeps
  <1>6. CASE ~admit
    <2>1. /\ entries' = [entries EXCEPT !["tgt"] = live] /\ UNCHANGED <<ctrlQ, tunnel>>
          /\ send_ordered("tgt", Frame("refused", c, 0, 0))
          /\ ep' = [ep EXCEPT !["tgt"][c].phase = "done", !["tgt"][c].down = "ended"]
          /\ Reads("tgt", m, "open")
      BY <1>1, <1>6
    <2> HIDE DEF c
    <2> QED BY <1>2, <1>4, <2>1, RefuseKeeps
  <1> QED BY <1>5, <1>6

-----------------------------------------------------------------------------
(* The invariant holds at first and is kept. *)

LEMMA NoTaskFacts ==
  ASSUME MuxAssumption, NEW c
  PROVE  /\ NoTask \in Tasks /\ Holds(NoTask) = <<>> /\ Got(c, NoTask) = 0
         /\ \A s \in Sides : Sane(s, c, NoTask) /\ Spends(s, c, NoTask, NoTask) = Start(s)
  <1>1. NoTask \in Tasks
    <2>1. <<>> \in Seq(Frames)
      OBVIOUS
    <2>2. 0 \in 0..MAX_FRAME /\ 0 \in 0..MAX_SEND_CREDIT /\ 0 \in 0..U32_MAX /\ 0 \in 0..MaxFrames
      BY WindowAssumption DEF MuxAssumption
    <2> QED BY <2>1, <2>2 DEF NoTask, Tasks
  <1>2. Holds(NoTask) = <<>>
    BY DEF NoTask, Holds
  <1>3. DataFrames(c, <<>>) = 0 /\ Charges(c, <<>>) = 0
    BY CountsSmall
  <1>4. Got(c, NoTask) = 0
    BY <1>2, <1>3 DEF Got, NoTask
  <1>5. ASSUME NEW s \in Sides PROVE Sane(s, c, NoTask) /\ Spends(s, c, NoTask, NoTask) = Start(s)
    <2>1. Relays(NoTask)
      BY DEF Relays, NoTask
    <2>2. Buffers(c, NoTask)
      BY RangeSmall DEF Buffers, NoTask
    <2>3. Windows(s, c, NoTask)
      BY DEF Windows, NoTask
    <2>4. Start(s) \in Nat
      BY WindowAssumption DEF Start
    <2>5. NoTask.phase = "none" /\ NoTask.allow = 0 /\ NoTask.frame = <<>> /\ ~NoTask.granted
      BY DEF NoTask
    <2>6. Lift(s, NoTask, NoTask) = 0
      BY <2>5 DEF Lift
    <2>7. Spends(s, c, NoTask, NoTask) = Start(s) + 0 + 0 + 0
      BY <1>3, <2>5, <2>6 DEF Spends
    <2> QED BY <2>1, <2>2, <2>3, <2>4, <2>7 DEF Sane
  <1> QED BY <1>1, <1>2, <1>4, <1>5

LEMMA InitKeeps ==
  ASSUME MuxAssumption, Init
  PROVE  MuxInv
  <1>1. NoTask \in Tasks /\ <<>> \in Seq(Frames) /\ Len(<<>>) = 0
    BY NoTaskFacts
  <1>2. TypeOK
    <2>1. DATA_QUEUE_FRAMES \in Nat /\ "ctl" \in Sides
      BY DEF MuxAssumption, Sides
    <2> QED BY <1>1, <2>1 DEF Init, TypeOK
  <1>3. Range(ctrlQ) = {}
    BY RangeSmall DEF Init
  <1>4. ASSUME NEW c \in Channels PROVE Channel(c)
    <2>1. \A s \in Sides : /\ ep[s][c] = NoTask /\ ep[Peer(s)][c] = NoTask /\ Stream(s) = <<>> /\ Ctrl(s) = <<>>
                           /\ c \notin entries[s]
      <3> TAKE s \in Sides
      <3>1. Peer(s) \in Sides
        BY Others
      <3>2. <<>> \o <<>> = <<>>
        BY <1>1, QueueLaws
      <3> QED BY <3>1, <3>2 DEF Init, Stream, Ctrl
    <2>2. /\ DataFrames(c, <<>>) = 0 /\ Opens(c, <<>>) = 0 /\ Charges(c, <<>>) = 0
               /\ Updates(c, <<>>) = 0
          /\ Numbered(c, <<>>, 0) /\ OpenFirst(c, <<>>, 0) /\ \A n : EndsLast(c, <<>>, 0, n)
      BY CountsSmall, RunsSmall
    <2>3. ASSUME NEW s \in Sides, NEW gone, NEW hears, NEW admits
          PROVE  Direction(s, c, NoTask, NoTask, <<>>, <<>>, gone, hears, admits, 0)
      <3>1. /\ NoTask.downEnd = "none" /\ NoTask.inbound = <<>> /\ NoTask.written = 0
                 /\ NoTask.sent = 0
            /\ NoTask.frame = <<>> /\ NoTask.phase = "none"
        BY DEF NoTask
      <3>2. Named(c, NoTask, <<>>) /\ Finals(c, NoTask, NoTask, <<>>)
        BY <3>1, RangeSmall DEF Named, Finals
      <3>3. Holds(NoTask) = <<>> /\ Got(c, NoTask) = 0 /\ Spends(s, c, NoTask, NoTask) = Start(s)
        BY NoTaskFacts
      <3>4. Held(c, NoTask, NoTask)
        BY <2>2, <3>1, <3>3 DEF Held
      <3>5. Carried(c, NoTask, NoTask, <<>>, gone)
        BY <2>2, <3>1, <3>3 DEF Carried
      <3>6. Covered(s, c, NoTask, NoTask, <<>>, 0)
        <4>1. Start(s) \in Nat
          BY WindowAssumption DEF Start
        <4> QED BY <2>2, <3>1, <3>3, <4>1 DEF Covered, Admitted
      <3> QED BY <3>2, <3>4, <3>5, <3>6 DEF Direction
    <2>4. \A s \in Sides : Announces(s, c) = 0
      BY <2>1, <2>2 DEF Announces
    <2>5. \A s \in Sides :
            Direction(s, c, ep[s][c], ep[Peer(s)][c], Stream(s), Ctrl(s), Gone(s),
                      Hears(Peer(s), c), Admits(Peer(s), c), Announces(Peer(s), c))
      <3> TAKE s \in Sides
      <3>1. Announces(Peer(s), c) = 0
        BY <2>4, Others
      <3> QED BY <2>1, <2>3, <3>1
    <2>6. Opening(c, NoTask, NoTask, <<>>, Gone("ctl"), Gone("tgt"))
      <3>1. NoTask.phase = "none"
        BY DEF NoTask
      <3> QED BY <2>2, <3>1 DEF Opening, Begun
    <2>7. Opening(c, ep["ctl"][c], ep["tgt"][c], Stream("ctl"), Gone("ctl"), Gone("tgt"))
      <3>1. "ctl" \in Sides /\ "tgt" \in Sides
        BY DEF Sides
      <3> QED BY <2>1, <2>6, <3>1
    <2>8. \A s \in Sides : Sane(s, c, ep[s][c]) /\ (c \in entries[s] => ep[s][c].phase # "none")
      BY <2>1, NoTaskFacts
    <2> QED BY <2>5, <2>7, <2>8 DEF Channel, Announces
  <1> QED BY <1>2, <1>3, <1>4 DEF MuxInv

LEMMA TaskStepKeeps ==
  ASSUME MuxInv, NEW s \in Sides, NEW c \in Channels, TaskStep(s, c)
  PROVE  MuxInv'
  <1>1. CASE UpTake(s, c) \/ UpSend(s, c) \/ UpCancel(s, c)
    BY <1>1, UpTakeKeeps, UpSendKeeps, UpCancelKeeps
  <1>2. CASE DownNext(s, c) \/ DownGone(s, c) \/ DownCancel(s, c)
    BY <1>2, DownNextKeeps, DownGoneKeeps, DownCancelKeeps
  <1>3. CASE Cancel(s, c) \/ Finish(s, c) \/ SendClose(s, c) \/ Exit(s, c)
    BY <1>3, CancelKeeps, FinishKeeps, SendCloseKeeps, ExitKeeps
  <1>4. CASE SendOpen(c)
    BY <1>4, SendOpenKeeps
  <1>5. CASE ConnectingRecv(c) \/ ConnectingGone(c) \/ SendOpened(c)
    BY <1>5, ConnectingRecvKeeps, ConnectingGoneKeeps, SendOpenedKeeps
  <1> QED BY <1>1, <1>2, <1>3, <1>4, <1>5 DEF TaskStep

LEMMA SocketStepKeeps ==
  ASSUME MuxInv, NEW s \in Sides, NEW c \in Channels, SocketStep(s, c)
  PROVE  MuxInv'
  <1>1. CASE \E got \in Lens : UpRead(s, c, got)
    BY <1>1, UpReadKeeps
  <1>2. CASE UpEof(s, c) \/ DownWrite(s, c) \/ DownWriteFails(s, c)
    BY <1>2, UpEofKeeps, DownWriteKeeps, DownWriteFailsKeeps
  <1>3. CASE Connected(c) \/ ConnectFails(c)
    BY <1>3, ConnectedKeeps, ConnectFailsKeeps
  <1> QED BY <1>1, <1>2, <1>3 DEF SocketStep

LEMMA ReadStepKeeps ==
  ASSUME MuxInv, NEW s \in Sides, ReadStep(s)
  PROVE  MuxInv'
  <1>1. CASE OnOpened \/ OnRefused
    BY <1>1, OnOpenedKeeps, OnRefusedKeeps
  <1>2. CASE \E permitted \in BOOLEAN : OnOpen(permitted)
    BY <1>2, OnOpenKeeps
  <1>3. CASE OnData(s) \/ OnClose(s) \/ OnWindowUpdate(s)
    BY <1>3, OnDataKeeps, OnCloseKeeps, OnWindowUpdateKeeps
  <1> QED BY <1>1, <1>2, <1>3 DEF ReadStep

LEMMA NextKeeps == MuxInv /\ [Next]_vars => MuxInv'
  <1> SUFFICES ASSUME MuxInv, [Next]_vars PROVE MuxInv'
    OBVIOUS
  <1>1. ASSUME NEW s \in Sides, NEW c \in Channels, TaskStep(s, c) \/ SocketStep(s, c) PROVE MuxInv'
    BY <1>1, TaskStepKeeps, SocketStepKeeps
  <1>2. ASSUME NEW c \in Channels, Open(c) PROVE MuxInv'
    BY <1>2, OpenKeeps
  <1>3. ASSUME NEW s \in Sides, LoopData(s) \/ ReadStep(s) \/ LoopBreaks(s) \/ CloseStep(s)
       PROVE MuxInv'
    BY <1>3, LoopDataKeeps, ReadStepKeeps, LoopBreaksKeeps, LoopReturnsKeeps DEF CloseStep
  <1>4. CASE LoopControl
    BY <1>4, LoopControlKeeps
  <1>5. CASE UNCHANGED vars
    <2>1. UNCHANGED <<ep, entries, dataQ, ctrlQ, wire, tunnel>>
      BY <1>5 DEF vars
    <2>2. TypeOK'
      BY <2>1 DEF MuxInv, TypeOK
    <2>3. \A s \in Sides : Stream(s)' = Stream(s) /\ Ctrl(s)' = Ctrl(s)
         /\ entries'[s] \subseteq entries[s] /\ (Gone(s) => Gone(s)')
      BY <2>1 DEF Stream, Ctrl, Gone
    <2>4. \A s \in Sides, c \in Channels : /\ Shrinks(c, Stream(s), Stream(s)', Gone(s)', Gone(Peer(s))')
                                           /\ Updates(c, Ctrl(s)') <= Updates(c, Ctrl(s))
      BY <2>3, MuxTypes, ShrinksSame, CtrlShrinks
    <2> QED BY <2>1, <2>2, <2>3, <2>4, ShrinkKeeps
  <1> QED BY <1>1, <1>2, <1>3, <1>4, <1>5 DEF Next

-----------------------------------------------------------------------------
(* What it says. *)

LEMMA InvInOrder == ASSUME MuxInv PROVE InOrder
  <1> SUFFICES ASSUME NEW s \in Sides, NEW c \in Channels, ~Dead(c)
               PROVE  LET pipe == Waiting(s, c) \o Underway(s, c)
                          from == ep[Peer(s)][c].written
                      IN  Numbered(c, pipe, from) /\ from + DataFrames(c, pipe) = ep[s][c].sent
    BY Zenon DEF InOrder
  <1> DEFINE p == Peer(s)
             t == ep[s][c]
             r == ep[p][c]
             h == Holds(r)
             q == Stream(s)
             f == t.frame
             w == r.written
             g == Got(c, r)
  <1>0. p \in Sides /\ Peer(p) = s
    BY Others
  <1>1. t \in Tasks /\ r \in Tasks /\ Relays(r) /\ Buffers(c, t) /\ (r.phase = "none" => r = NoTask)
    BY <1>0, TaskFacts
  <1>2. Hears(p, c) /\ ~Gone(s) /\ ~Over(p, c)
    BY <1>0 DEF Dead, Hears, Gone
  <1>3. r.down # "ended"
    BY <1>1, <1>2 DEF Over, RxOpen, NoTask
  <1>4. Held(c, t, r) /\ Carried(c, t, r, q, FALSE)
    <2>1. Held(c, t, r) /\ Carried(c, t, r, q, Gone(s))
      BY <1>2 DEF MuxInv, Channel, Direction
    <2> QED BY <1>2, <2>1 DEF Carried
  <1>5. /\ Numbered(c, h, w) /\ Numbered(c, q, g)
             /\ g + DataFrames(c, q) + DataFrames(c, f) = t.sent
    BY <1>3, <1>4 DEF Held, Carried
  <1>6. h \in Seq(Frames) /\ q \in Seq(Frames) /\ f \in Seq(Frames) /\ w \in Nat /\ g \in Nat
       /\ g = w + DataFrames(c, h)
    <2>1. h \in Seq(Frames) /\ w \in Nat /\ g \in Nat
      BY <1>1, GotNat
    <2>2. q \in Seq(Frames) /\ f \in Seq(Frames)
      BY <1>1, MuxTypes, TaskTypes
    <2> QED BY <2>1, <2>2 DEF Got
  <1>7. Waiting(s, c) \o Underway(s, c) = h \o (q \o f)
    BY Zenon DEF Waiting, Underway, Holds, Stream
  <1>8. f = <<>> \/ \E m \in Frames : f = <<m>> /\ IsData(m, c) /\ m.seq = t.sent
    BY <1>1 DEF Buffers, Payload
  <1>9. t.sent \in Nat
    BY <1>1, TaskTypes
  <1> DEFINE n == t.sent
  <1>a. f = <<>> \/ \E m \in Frames : f = <<m>> /\ IsData(m, c) /\ m.seq = n
    BY <1>8
  <1>b. g + DataFrames(c, q) + DataFrames(c, f) = n /\ n \in Nat
    BY <1>5, <1>9
  <1> HIDE DEF h, q, f, w, g, n, t, r
  <1>10. DataFrames(c, h) \in Nat /\ DataFrames(c, q) \in Nat /\ DataFrames(c, f) \in Nat
    BY <1>6, CountsConcat
  <1>11. Numbered(c, f, g + DataFrames(c, q))
    <2> DEFINE a == g + DataFrames(c, q)
    <2>0. a \in Nat /\ a + DataFrames(c, f) = n
      BY <1>6, <1>10, <1>b
    <2> HIDE DEF a
    <2>1. CASE f = <<>>
      BY <2>0, <2>1, RunsSmall DEF a
    <2>2. CASE \E m \in Frames : f = <<m>> /\ IsData(m, c) /\ m.seq = n
      <3>1. PICK m \in Frames : f = <<m>> /\ IsData(m, c) /\ m.seq = n
        BY <2>2
      <3>2. DataFrames(c, <<m>>) = 1
        BY <3>1, CountsSmall
      <3>3. m.seq = a + 1
        BY <2>0, <3>1, <3>2
      <3>4. Numbered(c, <<m>>, a)
        BY <2>0, <3>3, RunsSmall
      <3> QED BY <3>1, <3>4 DEF a
    <2> QED BY <1>a, <2>1, <2>2
  <1>12. q \o f \in Seq(Frames) /\ DataFrames(c, q \o f) = DataFrames(c, q) + DataFrames(c, f)
         /\ Numbered(c, q \o f, g)
    <2>1. q \o f \in Seq(Frames)
      BY <1>6, TwoQueues
    <2>2. DataFrames(c, q \o f) = DataFrames(c, q) + DataFrames(c, f)
      BY <1>6, CountsConcat
    <2>3. Numbered(c, q \o f, g) <=> Numbered(c, q, g) /\ Numbered(c, f, g + DataFrames(c, q))
      BY <1>6, RunsConcat
    <2> QED BY <1>5, <1>11, <2>1, <2>2, <2>3 DEF q, g
  <1>13. Numbered(c, h \o (q \o f), w)
       /\ DataFrames(c, h \o (q \o f)) = DataFrames(c, h) + DataFrames(c, q \o f)
    <2> DEFINE k == q \o f
    <2>0. k \in Seq(Frames) /\ Numbered(c, k, g)
      BY <1>12
    <2> HIDE DEF k
    <2>1. DataFrames(c, h \o k) = DataFrames(c, h) + DataFrames(c, k)
      BY <1>6, <2>0, CountsConcat
    <2>2. Numbered(c, h \o k, w) <=> Numbered(c, h, w) /\ Numbered(c, k, w + DataFrames(c, h))
      BY <1>6, <2>0, RunsConcat
    <2>3. Numbered(c, h, w)
      BY <1>5
    <2> QED BY <1>6, <2>0, <2>1, <2>2, <2>3 DEF k
  <1>14. w + DataFrames(c, h \o (q \o f)) = n
    BY <1>6, <1>10, <1>12, <1>13, <1>b
  <1>15. Numbered(c, Waiting(s, c) \o Underway(s, c), w)
       /\ w + DataFrames(c, Waiting(s, c) \o Underway(s, c)) = n
    BY <1>7, <1>13, <1>14
  <1> QED BY <1>15 DEF w, n, r, t

LEMMA InvDelivered == ASSUME MuxInv PROVE Delivered /\ NeverOverran
  <1>1. CloseAfterLastData
    BY HeldFacts DEF CloseAfterLastData, Held
  <1>2. NeverOverran
    BY TaskFacts DEF NeverOverran, Relays
  <1>3. TypeOK /\ InOrder
    BY InvInOrder DEF MuxInv
  <1> QED BY <1>1, <1>2, <1>3 DEF Delivered

\* For any number of channels, any queue, windows and frame sizes: nothing that
\* relay_socket_to_tunnel has sent is lost, duplicated or reordered before
\* relay_tunnel_to_socket writes it out at the other end, through FrameSink's
\* two queues, the connect-time buffer of run_controlled_channel and on_frame,
\* while the channel lives; and a relay that ends on the peer's `close` has
\* written all the peer ever sent.
THEOREM DeliveredTheorem == MuxAssumption => (Spec => []Delivered)
  <1> SUFFICES ASSUME MuxAssumption PROVE Spec => []Delivered
    OBVIOUS
  <1>1. Init => MuxInv
    BY InitKeeps
  <1>2. MuxInv /\ [Next]_vars => MuxInv'
    BY NextKeeps
  <1>3. MuxInv => Delivered
    BY InvDelivered
  <1> QED BY <1>1, <1>2, <1>3, PTL DEF Spec

\* Between two correct ends the branches for a peer that overran are never
\* taken, whatever updates are on their way on the control queue that
\* overtakes data: RecvWindow::accept admits every frame, pending_fits every
\* frame that comes while the controlled side connects, and the window is
\* granted before `opened` tells the controller of it.
THEOREM OverrunTheorem == MuxAssumption => (Spec => []NeverOverran)
  <1> SUFFICES ASSUME MuxAssumption PROVE Spec => []NeverOverran
    OBVIOUS
  <1>1. Init => MuxInv
    BY InitKeeps
  <1>2. MuxInv /\ [Next]_vars => MuxInv'
    BY NextKeeps
  <1>3. MuxInv => NeverOverran
    BY InvDelivered
  <1> QED BY <1>1, <1>2, <1>3, PTL DEF Spec
=============================================================================
