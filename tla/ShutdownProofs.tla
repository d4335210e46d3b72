---------------------------- MODULE ShutdownProofs ----------------------------
(***************************************************************************)
(* Proofs about Shutdown and the Publisher in it, for channels and batches *)
(* of any size, any number of retries and faults, and any finite sets of   *)
(* goroutines that send: nobody sends on the closed channel, every trade   *)
(* that is read is accounted for, however early Redis trims the stream, and *)
(* the stream is in order for who reads it all and skips what it saw.      *)
(***************************************************************************)
EXTENDS Shutdown, SumTheorems, FiniteSetTheorems, SequenceTheorems, TLAPS

(* The trades that publishLoop is over with: they are numbered 1 to Done,   *)
(* the batch's follow, and then those in the channel.                       *)
Done == sent - Len(tradeCh) - Len(batch)

NumberInv ==
  /\ Done \in Nat
  /\ \A i \in DOMAIN batch : batch[i] = Done + i
  /\ \A i \in DOMAIN tradeCh : tradeCh[i] = Done + Len(batch) + i

Flushing == at \in {"flush", "exec"}

LoopInv ==
  /\ Flushing => retried <= Retries
  /\ at = "stopped" => batch = <<>>

(* s holds no trade beyond m. *)
Below(s, m) == \A i \in DOMAIN s : s[i] <= m

(* Beyond b, what s holds comes after everything before it.                 *)
Gapless(s, b) ==
  \A i \in DOMAIN s : \A t \in Nat : b < t /\ t < s[i] => \E h \in 1..(i - 1) : s[h] = t

(* FirstSeenInOrder, of any sequence. *)
SeenBefore(s) ==
  \A i, j \in DOMAIN s : i < j /\ s[j] < s[i] => \E h \in 1..(i - 1) : s[h] = s[j]

(* No entry of s comes before one that is d trades older.                   *)
Near(s, d) == \A i, j \in DOMAIN s : i < j => s[i] - s[j] < d

PlacesOf(s, t) == {i \in DOMAIN s : s[i] = t}

(* Each trade is in s once per fault at most, those up to b once more.      *)
Repeats(s, b, n) ==
  \A t \in Nat : Cardinality(PlacesOf(s, t)) <= (IF t <= b THEN 1 + n ELSE n)

(* The stream when the loop is over with b trades and may have added some   *)
(* of the next m.                                                           *)
Written(b, m) ==
  /\ Below(stream, b + m) /\ Near(stream, BatchSize)
  /\ refused \/ (Gapless(stream, b) /\ SeenBefore(stream))
  /\ trimmed = 0 \/ Len(stream) - trimmed >= MaxLen

StreamInv ==
  /\ Written(Done, IF Flushing THEN Len(batch) ELSE 0)
  /\ Repeats(stream, Done, faults)
  /\ \A t \in 1..Done : t \in ToSet(stream) \cup lost

PublisherInv == PublisherTypeOK /\ NumberInv /\ LoopInv /\ StreamInv

(* What main waited for has ended. *)
WaitInv ==
  /\ main \in {"gateway", "close", "stopped"} => Ended(AlgoSenders)
  /\ main \in {"close", "stopped"} => Ended(GatewaySenders)

IInv == PublisherInv /\ TypeOK /\ WaitInv

-----------------------------------------------------------------------------
(* A pipeline that writes a part of the batch to the stream *)

(* The numbers are natural, and so are the constants. *)
LEMMA Constants ==
  /\ MaxTrades \in Nat /\ Retries \in Nat /\ MaxFaults \in Nat
  /\ ChSize \in Nat /\ ChSize > 0 /\ BatchSize \in Nat /\ BatchSize > 0
  /\ MaxLen \in Nat /\ MaxLen > 0
  /\ Trades \subseteq Nat /\ \A t \in Trades : t > 0
BY PublisherAssumption DEF Trades

(* A sequence over a set is one over every larger set. *)
LEMMA SeqGrows ==
  ASSUME NEW S, NEW T, S \subseteq T, NEW s \in Seq(S)
  PROVE  s \in Seq(T) /\ Len(s) \in Nat /\ DOMAIN s = 1..Len(s)
OBVIOUS

(* The places of a sequence that hold a trade are finitely many.            *)
LEMMA PlacesFinite ==
  ASSUME NEW s \in Seq(Nat), NEW t
  PROVE  IsFiniteSet(PlacesOf(s, t)) /\ Cardinality(PlacesOf(s, t)) \in Nat
<1>1. PlacesOf(s, t) \in SUBSET (1..Len(s)) /\ Len(s) \in Nat
  BY DEF PlacesOf
<1>2. IsFiniteSet(1..Len(s))
  BY <1>1, FS_Interval
<1>3. IsFiniteSet(PlacesOf(s, t))
  BY <1>1, <1>2, FS_Subset
<1>4. QED
  BY <1>3, FS_CardinalityType

(* The elements of p, after those of s. *)
LEMMA Appended ==
  ASSUME NEW s \in Seq(Nat), NEW p \in Seq(Nat)
  PROVE  LET w == s \o p
             k == Len(p)
         IN  /\ w \in Seq(Nat) /\ Len(w) = Len(s) + k /\ DOMAIN w = 1..(Len(s) + k)
             /\ \A i \in 1..Len(s) : w[i] = s[i]
             /\ \A i \in 1..k : w[Len(s) + i] = p[i]
             /\ \A i \in DOMAIN w : \/ i \in 1..Len(s) /\ w[i] = s[i]
                                    \/ i > Len(s) /\ i - Len(s) \in 1..k /\ w[i] = p[i - Len(s)]
<1> DEFINE w == s \o p
           k == Len(p)
<1>1. w \in Seq(Nat) /\ Len(w) = Len(s) + k /\ Len(s) \in Nat /\ k \in Nat
  BY ConcatProperties
<1>2. DOMAIN w = 1..(Len(s) + k)
  BY <1>1
<1>3. \A i \in 1..(Len(s) + k) : w[i] = IF i <= Len(s) THEN s[i] ELSE p[i - Len(s)]
  OBVIOUS
<1> HIDE DEF w, k
<1>4. \A i \in 1..Len(s) : w[i] = s[i]
  BY <1>1, <1>3
<1>5. \A i \in 1..k : w[Len(s) + i] = p[i]
  <2>1. ASSUME NEW i \in 1..k PROVE w[Len(s) + i] = p[i]
    <3>1. Len(s) + i \in 1..(Len(s) + k) /\ ~(Len(s) + i <= Len(s)) /\ (Len(s) + i) - Len(s) = i
      BY <1>1
    <3>2. QED
      BY <1>3, <3>1
  <2>2. QED
    BY <2>1
<1>6. ASSUME NEW i \in DOMAIN w
      PROVE  \/ i \in 1..Len(s) /\ w[i] = s[i]
             \/ i > Len(s) /\ i - Len(s) \in 1..k /\ w[i] = p[i - Len(s)]
  <2>1. i \in 1..(Len(s) + k) /\ i \in Nat
    BY <1>1, <1>2
  <2>2. CASE i <= Len(s)
    BY <1>1, <1>4, <2>1, <2>2
  <2>3. CASE ~(i <= Len(s))
    <3>1. i > Len(s) /\ i - Len(s) \in 1..k
      BY <1>1, <2>1, <2>3
    <3>2. QED
      BY <1>3, <2>1, <2>3, <3>1
  <2>4. QED
    BY <2>2, <2>3
<1>7. QED
  BY <1>1, <1>2, <1>4, <1>5, <1>6 DEF w, k

(* Some of the trades b + 1 to b + Len(u), in their order. *)
LEMMA PartFacts ==
  ASSUME NEW b \in Nat, NEW S \in SUBSET Nat, NEW u \in Seq(S), NEW p \in Parts(u),
         \A i \in DOMAIN u : u[i] = b + i
  PROVE  /\ p \in Seq(S) /\ Len(p) \in Nat
         /\ \A i \in 1..Len(p) : b < p[i] /\ p[i] <= b + Len(u)
         /\ \A i, j \in 1..Len(p) : i < j => p[i] < p[j]
         /\ IsPrefix(p, u) => \A i \in 1..Len(p) : p[i] = b + i
<1>1. PICK n \in 0..Len(u) : \E f \in [1..n -> DOMAIN u] : Increasing(f) /\ p = [i \in 1..n |-> u[f[i]]]
  BY DEF Parts
<1>2. PICK f \in [1..n -> DOMAIN u] : Increasing(f) /\ p = [i \in 1..n |-> u[f[i]]]
  BY <1>1
<1>3. Len(u) \in Nat /\ DOMAIN u = 1..Len(u) /\ n \in Nat /\ \A i \in DOMAIN u : u[i] \in S
  OBVIOUS
<1>4. p \in Seq(S) /\ Len(p) = n /\ DOMAIN p = 1..n
  BY <1>2, <1>3
<1>5. \A i \in 1..n : f[i] \in 1..Len(u) /\ p[i] = b + f[i]
  BY <1>2, <1>3
<1>6. \A i \in 1..n : b < p[i] /\ p[i] <= b + Len(u)
  BY <1>3, <1>5
<1>7. \A i, j \in 1..n : i < j => p[i] < p[j]
  <2>1. \A i, j \in 1..n : i < j => f[i] < f[j]
    BY <1>2 DEF Increasing
  <2>2. QED
    BY <1>3, <1>5, <2>1
<1>8. ASSUME IsPrefix(p, u), NEW i \in 1..n PROVE p[i] = b + i
  <2>1. n <= Len(u) /\ p = SubSeq(u, 1, n)
    <3>1. n <= Len(u) /\ SubSeq(p, 1, n) = SubSeq(u, 1, n)
      BY <1>4, <1>8 DEF IsPrefix
    <3>2. SubSeq(p, 1, n) = p
      BY <1>4, SubSeqFull
    <3>3. QED
      BY <3>1, <3>2
  <2>2. SubSeq(u, 1, n)[i] = u[i] /\ i \in DOMAIN u
    BY <1>3, <2>1
  <2>3. p[i] = u[i]
    BY <2>1, <2>2
  <2>4. QED
    BY <2>2, <2>3
<1>9. QED
  BY <1>3, <1>4, <1>6, <1>7, <1>8

(* The loop is over with b trades; of the next m, a part p is added to the  *)
(* stream.  No trade is added too late, and each is repeated once at most.  *)
LEMMA PartAdded ==
  ASSUME NEW b \in Nat, NEW m \in Nat, NEW n \in Nat, NEW d \in Nat, m <= d, d > 0,
         NEW s \in Seq(Nat), NEW p \in Seq(Nat),
         \A i \in 1..Len(p) : b < p[i] /\ p[i] <= b + m,
         \A i, j \in 1..Len(p) : i < j => p[i] < p[j],
         Below(s, b + m), Near(s, d), Repeats(s, b, n)
  PROVE  LET w == s \o p
         IN  /\ Below(w, b + m) /\ Near(w, d)
             /\ \A t \in Nat : Cardinality(PlacesOf(w, t)) <= 1 + n
<1> DEFINE w == s \o p
           k == Len(p)
<1>1. /\ w \in Seq(Nat) /\ DOMAIN w = 1..(Len(s) + k)
      /\ \A i \in DOMAIN w : \/ i \in 1..Len(s) /\ w[i] = s[i]
                             \/ i > Len(s) /\ i - Len(s) \in 1..k /\ w[i] = p[i - Len(s)]
  BY Appended
<1>2. /\ Len(s) \in Nat /\ DOMAIN s = 1..Len(s) /\ k \in Nat
      /\ \A i \in 1..Len(s) : s[i] \in Nat
      /\ \A i \in 1..k : p[i] \in Nat /\ b < p[i] /\ p[i] <= b + m
  OBVIOUS
<1> HIDE DEF w, k
<1>3. \A i \in DOMAIN w : w[i] \in Nat /\ w[i] <= b + m
  BY <1>1, <1>2 DEF Below
<1>4. Near(w, d)
  <2>1. ASSUME NEW i \in DOMAIN w, NEW j \in DOMAIN w, i < j PROVE w[i] - w[j] < d
    <3>1. CASE j \in 1..Len(s) /\ w[j] = s[j]
      <4>1. i \in 1..Len(s)
        BY <1>1, <1>2, <2>1, <3>1
      <4>2. w[i] = s[i]
        BY <1>1, <1>2, <4>1
      <4>3. s[i] - s[j] < d
        BY <1>2, <2>1, <3>1, <4>1 DEF Near
      <4>4. QED
        BY <3>1, <4>2, <4>3
    <3>2. CASE j > Len(s) /\ j - Len(s) \in 1..k /\ w[j] = p[j - Len(s)]
      <4>1. b < w[j] /\ w[j] \in Nat /\ w[i] \in Nat /\ w[i] <= b + m
        BY <1>2, <1>3, <3>2
      <4>2. QED
        BY <4>1
    <3>3. QED
      BY <1>1, <3>1, <3>2
  <2>2. QED
    BY <2>1 DEF Near
<1>5. ASSUME NEW t \in Nat PROVE Cardinality(PlacesOf(w, t)) <= 1 + n
  <2> DEFINE P == PlacesOf(s, t)
             Q == PlacesOf(w, t)
             x == CHOOSE x \in DOMAIN w : x > Len(s) /\ w[x] = t
  <2>1. /\ IsFiniteSet(P) /\ Cardinality(P) \in Nat
        /\ IsFiniteSet(Q) /\ Cardinality(Q) \in Nat
    BY <1>1, PlacesFinite
  <2>2. Cardinality(P) <= (IF t <= b THEN 1 + n ELSE n)
    BY DEF Repeats
  <2>3. t <= b => Q \subseteq P
    <3>1. ASSUME t <= b, NEW i \in DOMAIN w, w[i] = t PROVE i \in DOMAIN s /\ s[i] = t
      <4>1. ~(i > Len(s) /\ i - Len(s) \in 1..k /\ w[i] = p[i - Len(s)])
        BY <1>2, <3>1
      <4>2. i \in 1..Len(s) /\ w[i] = s[i]
        BY <1>1, <4>1
      <4>3. QED
        BY <1>2, <3>1, <4>2
    <3>2. QED
      BY <3>1 DEF PlacesOf
  <2>4. Q \subseteq P \cup {x}
    <3>1. ASSUME NEW i \in DOMAIN w, w[i] = t PROVE i \in P \cup {x}
      <4>1. CASE i \in 1..Len(s) /\ w[i] = s[i]
        BY <1>2, <3>1, <4>1 DEF PlacesOf
      <4>2. CASE i > Len(s) /\ i - Len(s) \in 1..k /\ w[i] = p[i - Len(s)]
        <5>1. x \in DOMAIN w /\ x > Len(s) /\ w[x] = t
          BY <3>1, <4>2
        <5> HIDE DEF x
        <5>2. x - Len(s) \in 1..k /\ w[x] = p[x - Len(s)] /\ x \in Nat /\ i \in Nat
          <6>1. x \in Nat /\ i \in Nat /\ x \notin 1..Len(s)
            BY <1>1, <1>2, <3>1, <5>1
          <6>2. QED
            BY <1>1, <5>1, <6>1
        <5>3. ~(i - Len(s) < x - Len(s)) /\ ~(x - Len(s) < i - Len(s))
          <6>1. p[x - Len(s)] = t /\ p[i - Len(s)] = t
            BY <3>1, <4>2, <5>1, <5>2
          <6>2. ASSUME NEW g \in 1..k, NEW h \in 1..k, p[g] = t, p[h] = t PROVE ~(g < h)
            BY <6>2 DEF k
          <6>3. QED
            BY <4>2, <5>2, <6>1, <6>2
        <5>4. i = x
          BY <1>2, <5>2, <5>3
        <5>5. QED
          BY <5>4
      <4>3. QED
        BY <1>1, <3>1, <4>1, <4>2
    <3>2. QED
      BY <3>1 DEF PlacesOf
  <2>5. /\ IsFiniteSet(P \cup {x}) /\ Cardinality(P \cup {x}) \in Nat
        /\ Cardinality(P \cup {x}) <= Cardinality(P) + 1
    <3> HIDE DEF P, x
    <3>1. /\ IsFiniteSet(P \cup {x})
          /\ Cardinality(P \cup {x}) = Cardinality(P) \/ Cardinality(P \cup {x}) = Cardinality(P) + 1
      BY <2>1, FS_AddElement
    <3>2. QED
      BY <2>1, <3>1
  <2> HIDE DEF P, Q, x
  <2>6. CASE t <= b
    <3>1. Cardinality(Q) <= Cardinality(P)
      BY <2>1, <2>3, <2>6, FS_Subset
    <3>2. QED
      BY <2>1, <2>2, <2>6, <3>1 DEF Q
  <2>7. CASE ~(t <= b)
    <3>1. Cardinality(Q) <= Cardinality(P \cup {x})
      BY <2>4, <2>5, FS_Subset
    <3>2. QED
      BY <2>1, <2>2, <2>5, <2>7, <3>1 DEF Q
  <2>8. QED
    BY <2>6, <2>7
<1>6. QED
  BY <1>3, <1>4, <1>5 DEF w, Below

(* A part that is a prefix, as when a connection breaks, breaks no order.   *)
LEMMA PrefixAdded ==
  ASSUME NEW b \in Nat, NEW s \in Seq(Nat), NEW p \in Seq(Nat),
         \A i \in 1..Len(p) : p[i] = b + i,
         Gapless(s, b), SeenBefore(s)
  PROVE  Gapless(s \o p, b) /\ SeenBefore(s \o p)
<1> DEFINE w == s \o p
           k == Len(p)
<1>1. /\ w \in Seq(Nat) /\ Len(w) = Len(s) + k /\ DOMAIN w = 1..(Len(s) + k)
      /\ \A i \in 1..Len(s) : w[i] = s[i]
      /\ \A i \in 1..k : w[Len(s) + i] = p[i]
      /\ \A i \in DOMAIN w : \/ i \in 1..Len(s) /\ w[i] = s[i]
                             \/ i > Len(s) /\ i - Len(s) \in 1..k /\ w[i] = p[i - Len(s)]
  BY Appended
<1>2. /\ Len(s) \in Nat /\ DOMAIN s = 1..Len(s) /\ k \in Nat
      /\ \A i \in 1..Len(s) : s[i] \in Nat
      /\ \A i \in 1..k : p[i] = b + i
  OBVIOUS
<1> HIDE DEF w, k
<1>3. \A i \in DOMAIN w :
        \/ i \in 1..Len(s) /\ w[i] = s[i]
        \/ i > Len(s) /\ i - Len(s) \in 1..k /\ w[i] = b + (i - Len(s))
  <2>1. ASSUME NEW j \in 1..k PROVE p[j] = b + j
    BY <1>2
  <2>2. QED
    BY <1>1, <2>1
<1>4. \A t \in 1..k : Len(s) + t \in DOMAIN w /\ w[Len(s) + t] = b + t
  <2>1. ASSUME NEW t \in 1..k PROVE Len(s) + t \in DOMAIN w
    BY <1>1, <1>2
  <2>2. ASSUME NEW t \in 1..k PROVE w[Len(s) + t] = b + t
    <3>1. w[Len(s) + t] = p[t]
      BY <1>1
    <3>2. p[t] = b + t
      BY <1>2
    <3>3. QED
      BY <3>1, <3>2
  <2>3. QED
    BY <2>1, <2>2
<1>5. Gapless(w, b)
  <2>1. ASSUME NEW i \in DOMAIN w, NEW t \in Nat, b < t, t < w[i]
        PROVE  \E h \in 1..(i - 1) : w[h] = t
    <3>1. CASE i \in 1..Len(s) /\ w[i] = s[i]
      <4>1. PICK h \in 1..(i - 1) : s[h] = t
        BY <1>2, <2>1, <3>1 DEF Gapless
      <4>2. h \in 1..Len(s)
        BY <1>2, <3>1
      <4>3. QED
        BY <1>1, <4>1, <4>2
    <3>2. CASE i > Len(s) /\ i - Len(s) \in 1..k /\ w[i] = b + (i - Len(s))
      <4> DEFINE m == i - Len(s)
                 d == t - b
      <4>1. /\ m \in 1..k /\ w[i] = b + m /\ d \in Int /\ 0 < d /\ d < m
            /\ i = Len(s) + m /\ t = b + d
        <5>1. i \in Int /\ b \in Int /\ t \in Int /\ Len(s) \in Int
          BY <1>1, <1>2
        <5>2. m \in 1..k /\ w[i] = b + m /\ m \in Int /\ t < b + m /\ b < t
          BY <2>1, <3>2, <5>1
        <5> HIDE DEF m
        <5>3. 0 < d /\ d < m /\ d \in Int /\ t = b + d
          BY <5>1, <5>2
        <5>4. i = Len(s) + m
          BY <5>1 DEF m
        <5>5. QED
          BY <5>2, <5>3, <5>4
      <4> HIDE DEF m, d
      <4>2. d \in 1..k /\ Len(s) + d \in 1..(i - 1)
        BY <1>2, <4>1
      <4>3. w[Len(s) + d] = b + d
        BY <1>4, <4>2
      <4>4. QED
        BY <4>1, <4>2, <4>3
    <3>3. QED
      BY <1>3, <3>1, <3>2
  <2>2. QED
    BY <2>1 DEF Gapless
<1>6. SeenBefore(w)
  <2>1. ASSUME NEW i \in DOMAIN w, NEW j \in DOMAIN w, i < j, w[j] < w[i]
        PROVE  \E h \in 1..(i - 1) : w[h] = w[j]
    <3>1. CASE j \in 1..Len(s)
      <4>1. i \in 1..Len(s) /\ w[i] = s[i] /\ w[j] = s[j]
        <5>1. i \in Nat /\ i >= 1 /\ j \in Nat /\ j <= Len(s) /\ Len(s) \in Nat
          BY <1>1, <1>2, <3>1
        <5>2. i \in 1..Len(s)
          BY <2>1, <5>1
        <5>3. QED
          BY <1>1, <3>1, <5>2
      <4>2. PICK h \in 1..(i - 1) : s[h] = s[j]
        BY <1>2, <2>1, <3>1, <4>1 DEF SeenBefore
      <4>3. h \in 1..Len(s)
        BY <1>2, <4>1
      <4>4. QED
        BY <1>1, <4>1, <4>2, <4>3
    <3>2. CASE j > Len(s) /\ j - Len(s) \in 1..k /\ w[j] = b + (j - Len(s))
      <4>1. w[j] \in Nat /\ b < w[j]
        BY <1>2, <3>2
      <4>2. QED
        BY <1>5, <2>1, <4>1 DEF Gapless
    <3>3. QED
      BY <1>3, <3>1, <3>2
  <2>2. QED
    BY <2>1 DEF SeenBefore
<1>7. QED
  BY <1>5, <1>6 DEF w

-----------------------------------------------------------------------------
(* The steps of the publisher *)

(* What the types say of the sequences. *)
LEMMA Sequences ==
  ASSUME PublisherTypeOK
  PROVE  /\ tradeCh \in Seq(Nat) /\ Len(tradeCh) \in Nat /\ DOMAIN tradeCh = 1..Len(tradeCh)
         /\ batch \in Seq(Nat) /\ Len(batch) \in Nat /\ DOMAIN batch = 1..Len(batch)
         /\ stream \in Seq(Nat) /\ Len(stream) \in Nat /\ DOMAIN stream = 1..Len(stream)
         /\ sent \in Nat /\ faults \in Nat /\ Done \in Int
<1>1. \A s \in Seq(Trades) : s \in Seq(Nat) /\ Len(s) \in Nat /\ DOMAIN s = 1..Len(s)
  BY Constants, SeqGrows
<1>2. tradeCh \in Seq(Trades) /\ batch \in Seq(Trades) /\ stream \in Seq(Trades)
  BY DEF PublisherTypeOK
<1>3. sent \in Nat /\ faults \in Nat
  BY Constants DEF PublisherTypeOK
<1>4. Done \in Int
  BY <1>1, <1>2, <1>3 DEF Done
<1>5. QED
  BY <1>1, <1>2, <1>3, <1>4

(* A flush may begin at any time. *)
LEMMA WrittenMore ==
  ASSUME PublisherTypeOK, NEW b \in Nat, NEW m \in Nat, Written(b, 0)
  PROVE  Written(b, m)
<1>1. Below(stream, b) /\ \A i \in DOMAIN stream : stream[i] \in Nat
  BY Sequences DEF Written
<1>2. Below(stream, b + m)
  BY <1>1 DEF Below
<1>3. QED
  BY <1>2 DEF Written

(* A trade enters the channel behind those that are in it.                  *)
LEMMA SendStep ==
  ASSUME PublisherInv, Send
  PROVE  PublisherInv'
<1>1. /\ sent < MaxTrades /\ Len(tradeCh) < ChSize /\ sent' = sent + 1
      /\ tradeCh' = Append(tradeCh, sent + 1)
      /\ UNCHANGED <<closed, ctxDone, at, leaving, batch, retried, stream, trimmed, refused, lost,
                     faults>>
  BY DEF Send, EnvironmentFrame
<1>2. /\ PublisherTypeOK /\ tradeCh \in Seq(Trades) /\ Len(tradeCh) \in Nat /\ Len(batch) \in Nat
      /\ sent \in Nat /\ Done \in Nat /\ MaxTrades \in Nat /\ ChSize \in Nat
  BY Sequences, Constants DEF PublisherInv, NumberInv, PublisherTypeOK
<1>3. sent + 1 \in Trades /\ sent + 1 \in 0..MaxTrades
  BY <1>1, <1>2 DEF Trades
<1>4. /\ tradeCh' \in Seq(Trades) /\ Len(tradeCh') = Len(tradeCh) + 1
      /\ DOMAIN tradeCh' = 1..(Len(tradeCh) + 1)
      /\ \A i \in 1..Len(tradeCh) : tradeCh'[i] = tradeCh[i]
      /\ tradeCh'[Len(tradeCh) + 1] = sent + 1
  BY <1>1, <1>2, <1>3
<1>5. PublisherTypeOK'
  BY <1>1, <1>2, <1>3, <1>4 DEF PublisherTypeOK
<1>6. Done' = Done /\ sent + 1 = Done + Len(batch) + (Len(tradeCh) + 1)
  BY <1>1, <1>2, <1>4 DEF Done
<1>7. NumberInv'
  <2>1. ASSUME NEW i \in DOMAIN tradeCh' PROVE tradeCh'[i] = Done + Len(batch) + i
    <3>1. CASE i \in 1..Len(tradeCh)
      BY <1>2, <1>4, <3>1, Sequences DEF PublisherInv, NumberInv
    <3>2. CASE i = Len(tradeCh) + 1
      BY <1>4, <1>6, <3>2
    <3>3. QED
      BY <1>2, <1>4, <3>1, <3>2
  <2>2. QED
    BY <1>1, <1>2, <1>6, <2>1 DEF PublisherInv, NumberInv
<1>8. LoopInv' /\ StreamInv'
  BY <1>1, <1>6 DEF PublisherInv, LoopInv, StreamInv, Written, Flushing
<1>9. QED
  BY <1>5, <1>7, <1>8 DEF PublisherInv

(* A step that only closes the channel or cancels the context.              *)
LEMMA FlagStep ==
  ASSUME PublisherInv, closed' \in BOOLEAN, ctxDone' \in BOOLEAN,
         UNCHANGED <<sent, tradeCh, at, leaving, batch, retried, stream, trimmed, refused, lost,
                     faults>>
  PROVE  PublisherInv'
<1>1. Done' = Done
  BY DEF Done
<1>2. QED
  BY <1>1 DEF PublisherInv, PublisherTypeOK, NumberInv, LoopInv, StreamInv, Written, Flushing

(* The head of the channel is the next of the batch. *)
LEMMA ReceiveStep ==
  ASSUME PublisherInv, Receive, LoopFrame
  PROVE  PublisherInv'
<1>1. /\ at = "select" /\ tradeCh # <<>> /\ tradeCh' = Tail(tradeCh)
      /\ batch' = Append(batch, Head(tradeCh))
      /\ UNCHANGED <<stream, trimmed, refused, lost, faults, sent, closed, ctxDone>>
  BY DEF Receive, LoopFrame
<1>2. /\ PublisherTypeOK /\ tradeCh \in Seq(Trades) /\ batch \in Seq(Trades)
      /\ Len(tradeCh) \in Nat /\ Len(batch) \in Nat /\ Len(tradeCh) > 0
      /\ Len(tradeCh) <= ChSize /\ Len(batch) < BatchSize
      /\ DOMAIN tradeCh = 1..Len(tradeCh) /\ DOMAIN batch = 1..Len(batch)
      /\ sent \in Nat /\ Done \in Nat /\ BatchSize \in Nat /\ ChSize \in Nat /\ Retries \in Nat
  BY <1>1, Sequences, Constants DEF PublisherInv, NumberInv, PublisherTypeOK
<1>3. /\ Head(tradeCh) = tradeCh[1] /\ tradeCh[1] \in Trades /\ tradeCh[1] = Done + Len(batch) + 1
      /\ Tail(tradeCh) \in Seq(Trades) /\ Len(Tail(tradeCh)) = Len(tradeCh) - 1
      /\ \A i \in 1..(Len(tradeCh) - 1) : Tail(tradeCh)[i] = tradeCh[i + 1]
  <2>1. Head(tradeCh) = tradeCh[1] /\ 1 \in DOMAIN tradeCh
    BY <1>1, <1>2
  <2>2. tradeCh[1] \in Trades
    BY <1>2, <2>1
  <2>3. tradeCh[1] = Done + Len(batch) + 1
    BY <2>1 DEF PublisherInv, NumberInv
  <2>4. /\ Tail(tradeCh) \in Seq(Trades) /\ Len(Tail(tradeCh)) = Len(tradeCh) - 1
        /\ \A i \in 1..(Len(tradeCh) - 1) : Tail(tradeCh)[i] = tradeCh[i + 1]
    BY <1>1, <1>2, HeadTailProperties
  <2>5. QED
    BY <2>1, <2>2, <2>3, <2>4
<1>4. /\ batch' \in Seq(Trades) /\ Len(batch') = Len(batch) + 1 /\ Len(batch') <= BatchSize
      /\ DOMAIN batch' = 1..(Len(batch) + 1)
      /\ \A i \in 1..Len(batch) : batch'[i] = batch[i]
      /\ batch'[Len(batch) + 1] = tradeCh[1]
  BY <1>1, <1>2, <1>3
<1>5. /\ tradeCh' \in Seq(Trades) /\ Len(tradeCh') = Len(tradeCh) - 1
      /\ DOMAIN tradeCh' = 1..(Len(tradeCh) - 1)
      /\ \A i \in 1..(Len(tradeCh) - 1) : tradeCh'[i] = tradeCh[i + 1]
  BY <1>1, <1>2, <1>3
<1>6. \/ Len(batch') = BatchSize /\ at' = "flush" /\ leaving' = FALSE /\ retried' = 0
      \/ Len(batch') < BatchSize /\ UNCHANGED <<at, leaving, retried>>
  <2>1. BatchFull' <=> Len(batch') >= BatchSize
    BY DEF BatchFull
  <2>2. IF BatchFull' THEN Flush(FALSE) ELSE UNCHANGED <<at, leaving, retried>>
    BY DEF Receive
  <2>3. QED
    BY <1>2, <1>4, <2>1, <2>2 DEF Flush
<1>7. PublisherTypeOK'
  <2>1. /\ tradeCh' \in Seq(Trades) /\ Len(tradeCh') <= ChSize
        /\ batch' \in Seq(Trades) /\ Len(batch') <= BatchSize
    BY <1>2, <1>4, <1>5
  <2>2. leaving' \in BOOLEAN /\ at' \in {"select", "flush", "exec", "stopped"}
    BY <1>1, <1>2, <1>6 DEF PublisherTypeOK
  <2>3. retried' \in 0..(Retries + 1)
    <3>1. retried \in 0..(Retries + 1)
      BY <1>2 DEF PublisherTypeOK
    <3>2. 0 \in 0..(Retries + 1)
      BY Constants
    <3>3. QED
      BY <1>6, <3>1, <3>2
  <2>4. /\ at' \in {"flush", "exec"} /\ ~leaving' => Len(batch') = BatchSize
        /\ at' = "select" => Len(batch') < BatchSize
    BY <1>1, <1>6
  <2>5. QED
    BY <1>1, <1>2, <2>1, <2>2, <2>3, <2>4 DEF PublisherTypeOK
<1>8. Done' = Done
  BY <1>1, <1>2, <1>4, <1>5 DEF Done
<1>9. NumberInv'
  <2>1. ASSUME NEW i \in DOMAIN batch' PROVE batch'[i] = Done + i
    <3>1. CASE i \in 1..Len(batch)
      BY <1>2, <1>4, <3>1 DEF PublisherInv, NumberInv
    <3>2. CASE i = Len(batch) + 1
      BY <1>2, <1>3, <1>4, <3>2
    <3>3. QED
      BY <1>2, <1>4, <3>1, <3>2
  <2>2. ASSUME NEW i \in DOMAIN tradeCh' PROVE tradeCh'[i] = Done + Len(batch') + i
    <3>1. i \in 1..(Len(tradeCh) - 1) /\ i + 1 \in DOMAIN tradeCh /\ tradeCh'[i] = tradeCh[i + 1]
      BY <1>2, <1>5
    <3>2. tradeCh[i + 1] = Done + Len(batch) + (i + 1)
      BY <3>1 DEF PublisherInv, NumberInv
    <3>3. QED
      BY <1>2, <1>4, <3>1, <3>2
  <2>3. QED
    BY <1>2, <1>8, <2>1, <2>2 DEF NumberInv
<1>10. LoopInv'
  BY <1>1, <1>2, <1>6 DEF LoopInv, Flushing
<1>11. StreamInv'
  <2>1. Written(Done, 0)
    BY <1>1 DEF PublisherInv, StreamInv, Flushing
  <2>2. Written(Done, Len(batch'))
    BY <1>2, <1>4, <2>1, WrittenMore
  <2>3. Written(Done, IF Flushing' THEN Len(batch') ELSE 0)
    BY <2>1, <2>2
  <2>4. Written(Done, IF Flushing THEN Len(batch) ELSE 0)'
    BY <1>1, <1>8, <2>3 DEF Written
  <2>5. QED
    BY <1>1, <1>8, <2>4 DEF PublisherInv, StreamInv
<1>12. QED
  BY <1>7, <1>9, <1>10, <1>11 DEF PublisherInv

(* The loop flushes what it has for the last time, or stops. *)
LEMMA LeaveStep ==
  ASSUME PublisherInv, Leave, LoopFrame
  PROVE  PublisherInv'
<1>1. /\ at = "select"
      /\ UNCHANGED <<tradeCh, batch, stream, trimmed, refused, lost, faults, sent, closed, ctxDone>>
      /\ PublisherTypeOK
  BY DEF Leave, LoopFrame, PublisherInv
<1>2. \/ batch # <<>> /\ at' = "flush" /\ leaving' = TRUE /\ retried' = 0
      \/ batch = <<>> /\ at' = "stopped" /\ UNCHANGED <<leaving, retried>>
  BY DEF Leave, Flush
<1>3. Done' = Done /\ Len(batch) \in Nat /\ Done \in Nat
  BY <1>1, Sequences DEF Done, PublisherInv, NumberInv
<1>4. PublisherTypeOK'
  <2>1. /\ leaving' \in BOOLEAN /\ at' \in {"select", "flush", "exec", "stopped"}
        /\ at' \in {"flush", "exec"} => leaving'
        /\ at' # "select"
    BY <1>1, <1>2 DEF PublisherTypeOK
  <2>2. retried' \in 0..(Retries + 1)
    <3>1. retried \in 0..(Retries + 1) /\ 0 \in 0..(Retries + 1)
      BY <1>1, Constants DEF PublisherTypeOK
    <3>2. QED
      BY <1>2, <3>1
  <2>3. QED
    BY <1>1, <2>1, <2>2 DEF PublisherTypeOK
<1>5. NumberInv' /\ LoopInv'
  BY <1>1, <1>2, <1>3, Constants DEF PublisherInv, NumberInv, LoopInv, Flushing
<1>6. Written(Done, 0) /\ Written(Done, Len(batch))
  <2>1. Written(Done, 0)
    BY <1>1 DEF PublisherInv, StreamInv, Flushing
  <2>2. QED
    BY <1>1, <1>3, <2>1, WrittenMore
<1>7. StreamInv'
  <2>1. Written(Done, IF Flushing' THEN Len(batch) ELSE 0)
    BY <1>6
  <2>2. Written(Done, IF Flushing THEN Len(batch) ELSE 0)'
    BY <1>1, <1>3, <2>1 DEF Written
  <2>3. QED
    BY <1>1, <1>3, <2>2 DEF PublisherInv, StreamInv
<1>8. QED
  BY <1>4, <1>5, <1>7 DEF PublisherInv

(* A flush ends when its batch is in the stream or given up: the loop is    *)
(* over with it.                                                            *)
LEMMA FlushEndsStep ==
  ASSUME PublisherInv, Flushing, FlushEnds, UNCHANGED <<sent, closed, ctxDone, tradeCh, leaving>>,
         retried' \in 0..(Retries + 1), stream' \in Seq(Trades), lost' \subseteq Trades,
         faults' \in 0..MaxFaults,
         trimmed' \in 0..Len(stream'), refused' \in BOOLEAN,
         NEW b \in Nat, b = Done, NEW m \in Nat, m = Len(batch), Written(b, m)',
         \A t \in Nat : Cardinality(PlacesOf(stream', t)) <= 1 + faults',
         \A t \in 1..(b + m) : t \in ToSet(stream') \cup lost'
  PROVE  PublisherInv'
<1>1. /\ PublisherTypeOK /\ Len(tradeCh) \in Nat /\ sent \in Nat
      /\ BatchSize \in Nat /\ BatchSize > 0 /\ faults' \in Nat
  BY Sequences, Constants DEF PublisherInv
<1>2. /\ batch' = <<>> /\ Len(batch') = 0 /\ DOMAIN batch' = {} /\ batch' \in Seq(Trades)
      /\ at' \in {"stopped", "select"}
  BY DEF FlushEnds
<1>3. PublisherTypeOK'
  <2>1. /\ sent' \in 0..MaxTrades /\ tradeCh' \in Seq(Trades) /\ Len(tradeCh') <= ChSize
        /\ closed' \in BOOLEAN /\ ctxDone' \in BOOLEAN /\ leaving' \in BOOLEAN
    BY <1>1 DEF PublisherTypeOK
  <2>2. Len(batch') <= BatchSize /\ Len(batch') < BatchSize
    BY <1>1, <1>2
  <2>3. at' \in {"select", "flush", "exec", "stopped"} /\ at' \notin {"flush", "exec"}
    BY <1>2
  <2>4. QED
    BY <1>2, <2>1, <2>2, <2>3 DEF PublisherTypeOK
<1>4. Done' = b + m /\ Done' \in Nat
  BY <1>1, <1>2 DEF Done
<1>5. NumberInv'
  BY <1>1, <1>2, <1>4 DEF PublisherInv, NumberInv
<1>6. LoopInv'
  BY <1>2 DEF LoopInv, Flushing
<1>7. StreamInv'
  <2>1. Below(stream', Done') /\ ~Flushing'
    BY <1>2, <1>4 DEF Flushing, Written
  <2>2. stream' \in Seq(Nat) /\ DOMAIN stream' = 1..Len(stream') /\ Len(stream') \in Nat
    BY Constants, SeqGrows
  <2>3. \A i \in DOMAIN stream' : stream'[i] \in Nat /\ stream'[i] <= Done'
    BY <2>1, <2>2 DEF Below
  <2>4. Gapless(stream', Done')
    BY <1>4, <2>3 DEF Gapless
  <2>5. Repeats(stream', Done', faults')
    <3>1. ASSUME NEW t \in Nat, ~(t <= Done')
          PROVE  Cardinality(PlacesOf(stream', t)) <= faults'
      <4>1. PlacesOf(stream', t) = {}
        BY <1>4, <2>3, <3>1 DEF PlacesOf
      <4>2. Cardinality(PlacesOf(stream', t)) = 0
        BY <4>1, FS_EmptySet
      <4>3. QED
        BY <1>1, <4>2
    <3>2. QED
      BY <3>1 DEF Repeats
  <2>6. Below(stream', Done' + 0)
    BY <1>4, <2>1
  <2>7. Written(Done, 0)'
    BY <2>4, <2>6 DEF Written
  <2>8. QED
    BY <1>4, <2>1, <2>5, <2>7 DEF StreamInv
<1>8. QED
  BY <1>3, <1>5, <1>6, <1>7 DEF PublisherInv

(* A pipeline that failed is tried again, or its batch is given up.         *)
LEMMA FailedStep ==
  ASSUME PublisherInv, Flushing, Failed, UNCHANGED <<sent, closed, ctxDone, leaving>>,
         stream' \in Seq(Trades), faults' \in 0..MaxFaults,
         trimmed' \in 0..Len(stream'), refused' \in BOOLEAN,
         NEW b \in Nat, b = Done, NEW m \in Nat, m = Len(batch), Written(b, m)',
         Repeats(stream', b, faults'),
         \A t \in 1..b : t \in ToSet(stream') \cup lost
  PROVE  PublisherInv'
<1>1. /\ PublisherTypeOK /\ Len(batch) \in Nat /\ batch \in Seq(Trades) /\ faults' \in Nat
      /\ retried \in Nat /\ retried <= Retries /\ Retries \in Nat
      /\ DOMAIN batch = 1..Len(batch)
  BY Sequences, Constants DEF PublisherInv, PublisherTypeOK, LoopInv
<1>2. retried' = retried + 1
  BY DEF Failed
<1>3. CASE retried < Retries
  <2>1. at' = "flush" /\ UNCHANGED <<tradeCh, batch, lost>>
    BY <1>3 DEF Failed
  <2>2. PublisherTypeOK'
    BY <1>1, <1>2, <1>3, <2>1 DEF PublisherTypeOK, Flushing
  <2>3. Done' = b
    BY <2>1 DEF Done
  <2>4. NumberInv' /\ LoopInv'
    BY <1>1, <1>2, <1>3, <2>1, <2>3 DEF PublisherInv, NumberInv, LoopInv, Flushing
  <2>5. Flushing' /\ Len(batch') = m
    BY <2>1 DEF Flushing
  <2>6. StreamInv'
    BY <2>1, <2>3, <2>5 DEF StreamInv
  <2>7. QED
    BY <2>2, <2>4, <2>6 DEF PublisherInv
<1>4. CASE ~(retried < Retries)
  <2>1. FlushEnds /\ lost' = lost \cup ToSet(batch) /\ UNCHANGED tradeCh
    BY <1>4 DEF Failed, GiveUp
  <2>2. retried' \in 0..(Retries + 1)
    BY <1>1, <1>2
  <2>3. \A i \in 1..Len(batch) : batch[i] \in Trades /\ batch[i] = b + i /\ batch[i] \in ToSet(batch)
    <3>1. \A i \in 1..Len(batch) : batch[i] \in Trades
      BY <1>1
    <3>2. \A i \in 1..Len(batch) : batch[i] = b + i
      BY <1>1 DEF PublisherInv, NumberInv
    <3>3. \A i \in 1..Len(batch) : batch[i] \in ToSet(batch)
      BY <1>1 DEF ToSet
    <3>4. QED
      BY <3>1, <3>2, <3>3
  <2>4. lost' \subseteq Trades
    BY <1>1, <2>1, <2>3 DEF PublisherTypeOK, ToSet
  <2>5. \A t \in Nat : Cardinality(PlacesOf(stream', t)) <= 1 + faults'
    <3>1. stream' \in Seq(Nat)
      BY Constants, SeqGrows
    <3>2. \A t \in Nat : Cardinality(PlacesOf(stream', t)) \in Nat
      BY <3>1, PlacesFinite
    <3>3. QED
      BY <1>1, <3>2 DEF Repeats
  <2>6. ASSUME NEW t \in 1..(b + m) PROVE t \in ToSet(stream') \cup lost'
    <3>1. CASE t <= b
      BY <1>1, <2>1, <3>1
    <3>2. CASE t > b
      <4>1. t - b \in 1..Len(batch) /\ b + (t - b) = t
        BY <1>1, <3>2
      <4>2. t \in ToSet(batch)
        BY <2>3, <4>1
      <4>3. QED
        BY <2>1, <4>2
    <3>3. QED
      BY <3>1, <3>2
  <2>7. QED
    BY <2>1, <2>2, <2>4, <2>5, <2>6, FlushEndsStep
<1>5. QED
  BY <1>3, <1>4

(* What a pipeline adds of the batch. *)
LEMMA WriteFacts ==
  ASSUME PublisherInv, Flushing, NEW part \in Parts(batch), Add(part),
         refused' = (refused \/ ~IsPrefix(part, batch)), NEW b \in Nat, b = Done,
         NEW m \in Nat, m = Len(batch)
  PROVE  /\ stream' \in Seq(Trades) /\ trimmed' \in 0..Len(stream') /\ refused' \in BOOLEAN
         /\ Written(b, m)'
         /\ \A t \in Nat : Cardinality(PlacesOf(stream', t)) <= 1 + faults
         /\ Repeats(stream', b, faults + 1)
         /\ \A t \in ToSet(stream) : t \in ToSet(stream')
         /\ \A i \in 1..Len(part) : part[i] \in ToSet(stream')
<1>1. /\ PublisherTypeOK /\ stream \in Seq(Nat) /\ batch \in Seq(Nat) /\ faults \in Nat
      /\ DOMAIN stream = 1..Len(stream) /\ Len(stream) \in Nat
      /\ stream \in Seq(Trades) /\ batch \in Seq(Trades)
      /\ m <= BatchSize /\ BatchSize \in Nat /\ BatchSize > 0 /\ MaxLen \in Nat /\ MaxLen > 0
      /\ Trades \in SUBSET Nat
  BY Sequences, Constants DEF PublisherInv, PublisherTypeOK
<1>2. /\ \A i \in DOMAIN batch : batch[i] = b + i
      /\ Written(b, m) /\ Repeats(stream, b, faults)
  BY DEF PublisherInv, NumberInv, StreamInv
<1>3. /\ part \in Seq(Trades) /\ part \in Seq(Nat) /\ Len(part) \in Nat
      /\ \A i \in 1..Len(part) : b < part[i] /\ part[i] <= b + m
      /\ \A i, j \in 1..Len(part) : i < j => part[i] < part[j]
      /\ IsPrefix(part, batch) => \A i \in 1..Len(part) : part[i] = b + i
  <2>1. /\ part \in Seq(Trades) /\ Len(part) \in Nat
        /\ \A i \in 1..Len(part) : b < part[i] /\ part[i] <= b + Len(batch)
        /\ \A i, j \in 1..Len(part) : i < j => part[i] < part[j]
        /\ IsPrefix(part, batch) => \A i \in 1..Len(part) : part[i] = b + i
    BY <1>1, <1>2, PartFacts
  <2>2. part \in Seq(Nat)
    BY <1>1, <2>1, SeqGrows
  <2>3. QED
    BY <2>1, <2>2
<1>4. stream' = stream \o part
  BY DEF Add
<1>5. /\ stream' \in Seq(Trades) /\ stream' \in Seq(Nat) /\ Len(stream') = Len(stream) + Len(part)
      /\ DOMAIN stream' = 1..(Len(stream) + Len(part))
      /\ \A i \in 1..Len(stream) : stream'[i] = stream[i]
      /\ \A i \in 1..Len(part) : stream'[Len(stream) + i] = part[i]
  <2>1. stream' \in Seq(Trades)
    BY <1>1, <1>3, <1>4, ConcatProperties
  <2>2. QED
    BY <1>1, <1>3, <1>4, <2>1, Appended
<1>6. trimmed' \in 0..Len(stream') /\ (trimmed' = 0 \/ Len(stream') - trimmed' >= MaxLen)
  <2>1. PICK n \in Nat : n = Len(stream') /\ n = Len(stream) + Len(part)
    BY <1>1, <1>3, <1>5
  <2>2. trimmed \in 0..Len(stream) /\ (trimmed = 0 \/ Len(stream) - trimmed >= MaxLen)
    BY <1>1, <1>2 DEF PublisherTypeOK, Written
  <2>3. trimmed' \in {trimmed} \cup (trimmed..(n - MaxLen))
    BY <2>1 DEF Add
  <2>4. CASE trimmed' = trimmed
    <3>1. trimmed \in 0..n /\ (trimmed = 0 \/ n - trimmed >= MaxLen)
      BY <1>1, <1>3, <2>1, <2>2
    <3>2. QED
      BY <2>1, <2>4, <3>1
  <2>5. CASE trimmed' \in trimmed..(n - MaxLen)
    <3>1. PICK k \in trimmed..(n - MaxLen) : k = trimmed'
      BY <2>5
    <3>2. k \in 0..n /\ n - k >= MaxLen
      BY <1>1, <2>1, <2>2, <3>1
    <3>3. QED
      BY <2>1, <3>1, <3>2
  <2>6. QED
    BY <2>3, <2>4, <2>5
<1>7. refused \in BOOLEAN /\ refused' \in BOOLEAN
  <2>1. refused \in BOOLEAN
    BY <1>1 DEF PublisherTypeOK
  <2>2. QED
    BY <2>1
<1>8. /\ Below(stream', b + m) /\ Near(stream', BatchSize)
      /\ \A t \in Nat : Cardinality(PlacesOf(stream', t)) <= 1 + faults
  <2>1. Below(stream, b + m) /\ Near(stream, BatchSize)
    BY <1>2 DEF Written
  <2>2. QED
    BY <1>1, <1>2, <1>3, <1>4, <2>1, PartAdded
<1>9. refused' \/ (Gapless(stream', b) /\ SeenBefore(stream'))
  <2>1. CASE refused'
    BY <2>1
  <2>2. CASE ~refused'
    <3>1. ~refused /\ IsPrefix(part, batch)
      BY <1>7, <2>2
    <3>2. Gapless(stream, b) /\ SeenBefore(stream)
      BY <1>2, <3>1 DEF Written
    <3>3. QED
      BY <1>1, <1>3, <1>4, <3>1, <3>2, PrefixAdded
  <2>3. QED
    BY <2>1, <2>2
<1>10. Written(b, m)'
  BY <1>6, <1>8, <1>9 DEF Written
<1>11. Repeats(stream', b, faults + 1)
  <2>1. \A t \in Nat : Cardinality(PlacesOf(stream', t)) \in Nat
    BY <1>5, PlacesFinite
  <2>2. ASSUME NEW t \in Nat
        PROVE  Cardinality(PlacesOf(stream', t)) <= IF t <= b THEN 1 + (faults + 1) ELSE faults + 1
    <3>1. Cardinality(PlacesOf(stream', t)) \in Nat /\ Cardinality(PlacesOf(stream', t)) <= 1 + faults
      BY <1>8, <2>1
    <3>2. QED
      BY <1>1, <3>1
  <2>3. QED
    BY <2>2 DEF Repeats
<1>12. \A t \in ToSet(stream) : t \in ToSet(stream')
  <2>1. \A i \in 1..Len(stream) : i \in DOMAIN stream' /\ stream'[i] = stream[i]
    BY <1>1, <1>3, <1>5
  <2>2. QED
    BY <1>1, <2>1 DEF ToSet
<1>13. \A i \in 1..Len(part) : part[i] \in ToSet(stream')
  <2>1. \A i \in 1..Len(part) : Len(stream) + i \in DOMAIN stream'
    BY <1>1, <1>3, <1>5
  <2>2. QED
    BY <1>5, <2>1 DEF ToSet
<1>14. QED
  BY <1>5, <1>6, <1>7, <1>8, <1>10, <1>11, <1>12, <1>13

(* The whole batch is a part of it. *)
LEMMA BatchIsPart ==
  ASSUME PublisherTypeOK
  PROVE  batch \in Parts(batch) /\ IsPrefix(batch, batch)
<1> DEFINE k == Len(batch)
           f == [i \in 1..k |-> i]
<1>1. k \in Nat /\ DOMAIN batch = 1..k /\ batch \in Seq(Nat)
  BY Sequences
<1>2. f \in [1..k -> DOMAIN batch] /\ Increasing(f)
  BY <1>1 DEF Increasing
<1>3. batch = [i \in 1..k |-> batch[f[i]]]
  BY <1>1
<1>4. k \in 0..Len(batch)
  BY <1>1
<1> HIDE DEF f, k
<1>5. batch \in Parts(batch)
  BY <1>2, <1>3, <1>4 DEF Parts
<1>6. IsPrefix(batch, batch)
  BY <1>1 DEF IsPrefix
<1>7. QED
  BY <1>5, <1>6

(* Exec does not get a connection once the context is done. *)
LEMMA ConnectStep ==
  ASSUME PublisherInv, Connect, LoopFrame
  PROVE  PublisherInv'
<1>1. /\ at = "flush" /\ Flushing /\ PublisherTypeOK
      /\ UNCHANGED <<leaving, stream, trimmed, refused, faults, sent, closed, ctxDone>>
  BY DEF Connect, LoopFrame, Flushing, PublisherInv
<1>2. CASE ctxDone
  <2>1. Failed
    BY <1>2 DEF Connect
  <2>2. PICK b \in Nat : b = Done
    BY DEF PublisherInv, NumberInv
  <2>3. PICK m \in Nat : m = Len(batch)
    BY <1>1, Sequences
  <2>4. /\ stream' \in Seq(Trades) /\ faults' \in 0..MaxFaults
        /\ trimmed' \in 0..Len(stream') /\ refused' \in BOOLEAN
    BY <1>1 DEF PublisherTypeOK
  <2>5. Written(b, m) /\ Repeats(stream, b, faults) /\ \A t \in 1..b : t \in ToSet(stream) \cup lost
    BY <1>1, <2>2, <2>3 DEF PublisherInv, StreamInv
  <2>6. /\ Written(b, m)' /\ Repeats(stream', b, faults')
        /\ \A t \in 1..b : t \in ToSet(stream') \cup lost
    BY <1>1, <2>5 DEF Written
  <2>7. QED
    BY <1>1, <2>1, <2>2, <2>3, <2>4, <2>6, FailedStep
<1>3. CASE ~ctxDone
  <2>1. at' = "exec" /\ UNCHANGED <<tradeCh, batch, retried, lost>>
    BY <1>3 DEF Connect
  <2>2. Done' = Done
    BY <1>1, <2>1 DEF Done
  <2>3. PublisherTypeOK'
    BY <1>1, <2>1 DEF PublisherTypeOK
  <2>4. NumberInv' /\ LoopInv'
    BY <1>1, <2>1, <2>2 DEF PublisherInv, NumberInv, LoopInv, Flushing
  <2>5. StreamInv'
    BY <1>1, <2>1, <2>2 DEF PublisherInv, StreamInv, Written, Flushing
  <2>6. QED
    BY <2>3, <2>4, <2>5 DEF PublisherInv
<1>4. QED
  BY <1>2, <1>3

(* The whole batch is in the stream. *)
LEMMA PipelineSucceedsStep ==
  ASSUME PublisherInv, PipelineSucceeds, LoopFrame
  PROVE  PublisherInv'
<1>1. /\ Flushing /\ Add(batch) /\ FlushEnds /\ PublisherTypeOK
      /\ UNCHANGED <<tradeCh, leaving, retried, refused, lost, faults, sent, closed, ctxDone>>
  BY DEF PipelineSucceeds, LoopFrame, Flushing, PublisherInv
<1>2. PICK b \in Nat : b = Done
  BY DEF PublisherInv, NumberInv
<1>3. PICK m \in Nat : m = Len(batch) /\ DOMAIN batch = 1..m
  BY <1>1, Sequences
<1>4. batch \in Parts(batch) /\ refused' = (refused \/ ~IsPrefix(batch, batch))
  <2>1. refused \in BOOLEAN /\ refused' = refused
    BY <1>1 DEF PublisherTypeOK
  <2>2. QED
    BY <1>1, <2>1, BatchIsPart
<1>5. /\ stream' \in Seq(Trades) /\ trimmed' \in 0..Len(stream') /\ refused' \in BOOLEAN
      /\ Written(b, m)'
      /\ \A t \in Nat : Cardinality(PlacesOf(stream', t)) <= 1 + faults
      /\ \A t \in ToSet(stream) : t \in ToSet(stream')
      /\ \A i \in 1..Len(batch) : batch[i] \in ToSet(stream')
  BY <1>1, <1>2, <1>3, <1>4, WriteFacts
<1>6. ASSUME NEW t \in 1..(b + m) PROVE t \in ToSet(stream') \cup lost'
  <2>1. CASE t <= b
    <3>1. t \in 1..Done
      BY <1>2, <1>3, <2>1
    <3>2. t \in ToSet(stream) \cup lost
      BY <3>1 DEF PublisherInv, StreamInv
    <3>3. QED
      BY <1>1, <1>5, <3>2
  <2>2. CASE t > b
    <3>1. t - b \in 1..Len(batch) /\ b + (t - b) = t
      BY <1>3, <2>2
    <3>2. batch[t - b] = t
      BY <1>2, <1>3, <3>1 DEF PublisherInv, NumberInv
    <3>3. QED
      BY <1>5, <3>1, <3>2
  <2>3. QED
    BY <2>1, <2>2
<1>7. retried' \in 0..(Retries + 1) /\ lost' \subseteq Trades /\ faults' \in 0..MaxFaults
  BY <1>1 DEF PublisherTypeOK
<1>8. QED
  BY <1>1, <1>2, <1>3, <1>5, <1>6, <1>7, FlushEndsStep

(* A pipeline fails when a part of the batch is added. *)
LEMMA WritePartStep ==
  ASSUME PublisherInv, WritePart, LoopFrame, UNCHANGED leaving,
         Failed \/ UNCHANGED <<tradeCh, at, leaving, batch, retried, lost>>
  PROVE  PublisherInv'
<1>1. PICK part \in Parts(batch) : Add(part) /\ refused' = (refused \/ ~IsPrefix(part, batch))
  BY DEF WritePart
<1>2. /\ Flushing /\ faults' = faults + 1 /\ faults < MaxFaults /\ PublisherTypeOK
      /\ UNCHANGED <<sent, closed, ctxDone>>
  BY DEF WritePart, LoopFrame, Flushing, PublisherInv
<1>3. PICK b \in Nat : b = Done
  BY DEF PublisherInv, NumberInv
<1>4. PICK m \in Nat : m = Len(batch)
  BY <1>2, Sequences
<1>5. /\ stream' \in Seq(Trades) /\ trimmed' \in 0..Len(stream') /\ refused' \in BOOLEAN
      /\ Written(b, m)'
      /\ Repeats(stream', b, faults')
      /\ \A t \in ToSet(stream) : t \in ToSet(stream')
      /\ faults' \in 0..MaxFaults
  <2>1. faults' \in 0..MaxFaults
    BY <1>2, Sequences, Constants
  <2>2. QED
    BY <1>1, <1>2, <1>3, <1>4, <2>1, WriteFacts
<1>6. \A t \in 1..b : t \in ToSet(stream') \cup lost
  BY <1>3, <1>5 DEF PublisherInv, StreamInv
<1>7. CASE Failed
  BY <1>2, <1>3, <1>4, <1>5, <1>6, <1>7, FailedStep
<1>8. CASE UNCHANGED <<tradeCh, at, leaving, batch, retried, lost>>
  <2>1. Done' = b
    BY <1>2, <1>3, <1>8 DEF Done
  <2>2. PublisherTypeOK'
    BY <1>2, <1>5, <1>8 DEF PublisherTypeOK
  <2>3. NumberInv' /\ LoopInv'
    BY <1>3, <1>8, <2>1 DEF PublisherInv, NumberInv, LoopInv, Flushing
  <2>4. Flushing' /\ Len(batch') = m
    BY <1>2, <1>4, <1>8 DEF Flushing
  <2>5. StreamInv'
    BY <1>5, <1>6, <1>8, <2>1, <2>4 DEF StreamInv
  <2>6. QED
    BY <2>2, <2>3, <2>5 DEF PublisherInv
<1>9. QED
  BY <1>7, <1>8

(* Every step of publishLoop keeps the invariant. *)
LEMMA PublishLoopStep ==
  ASSUME PublisherInv, PublishLoop
  PROVE  PublisherInv'
BY ReceiveStep, LeaveStep, ConnectStep, PipelineSucceedsStep, WritePartStep
   DEF PublishLoop, PipelineFails, ClientRetries

-----------------------------------------------------------------------------
(* The steps of the program *)

(* The program starts with an empty channel, batch and stream. *)
LEMMA InitInv ==
  ASSUME Init
  PROVE  IInv
<1>1. /\ PublisherInit /\ sender = [s \in Senders |-> "idle"] /\ main = "running"
  BY DEF Init
<1>2. PublisherTypeOK
  <2>1. /\ sent = 0 /\ tradeCh = <<>> /\ batch = <<>> /\ stream = <<>> /\ retried = 0
        /\ faults = 0 /\ lost = {} /\ at = "select" /\ trimmed = 0 /\ refused \in BOOLEAN
        /\ closed \in BOOLEAN /\ ctxDone \in BOOLEAN /\ leaving \in BOOLEAN
    BY <1>1 DEF PublisherInit
  <2>2. 0 \in 0..MaxTrades /\ 0 \in 0..(Retries + 1) /\ 0 \in 0..MaxFaults
    BY Constants
  <2>3. <<>> \in Seq(Trades) /\ Len(<<>>) = 0 /\ 0 \in 0..Len(<<>>) /\ 0 <= ChSize /\ 0 < BatchSize /\ 0 <= BatchSize
    BY Constants
  <2>4. QED
    BY <2>1, <2>2, <2>3 DEF PublisherTypeOK
<1>3. Done = 0
  <2>1. sent = 0 /\ tradeCh = <<>> /\ batch = <<>>
    BY <1>1 DEF PublisherInit
  <2>2. sent = 0 /\ Len(tradeCh) = 0 /\ Len(batch) = 0
    BY <2>1, EmptySeq
  <2>3. QED
    BY <2>2 DEF Done
<1>4. NumberInv /\ LoopInv
  BY <1>1, <1>3 DEF PublisherInit, NumberInv, LoopInv, Flushing
<1>5. DOMAIN stream = {}
  BY <1>1 DEF PublisherInit
<1>6. Written(Done, 0)
  <2>1. Below(stream, Done + 0) /\ Gapless(stream, Done) /\ SeenBefore(stream) /\ Near(stream, BatchSize)
    BY <1>5 DEF Below, Gapless, SeenBefore, Near
  <2>2. QED
    BY <1>1, <2>1 DEF PublisherInit, Written
<1>7. Repeats(stream, Done, faults)
  <2>1. \A t \in Nat : PlacesOf(stream, t) = {}
    BY <1>5 DEF PlacesOf
  <2>2. faults = 0 /\ Cardinality({}) = 0
    BY <1>1, FS_EmptySet DEF PublisherInit
  <2>3. QED
    BY <2>1, <2>2 DEF Repeats
<1>8. StreamInv
  BY <1>1, <1>3, <1>6, <1>7 DEF PublisherInit, StreamInv, Flushing
<1>9. TypeOK /\ WaitInv
  BY <1>1, <1>2 DEF PublisherInit, TypeOK, WaitInv
<1>10. QED
  BY <1>2, <1>4, <1>8, <1>9 DEF IInv, PublisherInv

(* Every step keeps the invariant: a goroutine that has ended does not      *)
(* begin again, and main waits for both kinds before it closes the channel. *)
LEMMA NextInv ==
  ASSUME IInv, [Next]_vars
  PROVE  IInv'
<1>1. /\ PublisherInv /\ TypeOK /\ WaitInv /\ PublisherTypeOK
      /\ closed \in BOOLEAN /\ ctxDone \in BOOLEAN
  BY DEF IInv, PublisherInv, PublisherTypeOK
<1>2. PublisherInv'
  <2>1. CASE UNCHANGED publisherVars
    BY <1>1, <2>1, FlagStep DEF publisherVars
  <2>2. CASE CancelContext \/ CloseChannel
    BY <1>1, <2>2, FlagStep DEF CancelContext, CloseChannel, EnvironmentFrame
  <2>3. CASE Send \/ PublishLoop
    BY <1>1, <2>3, SendStep, PublishLoopStep
  <2>4. UNCHANGED publisherVars \/ CancelContext \/ CloseChannel \/ Send \/ PublishLoop
    BY DEF Next, vars, Main, Signal, StopHTTP, StopAlgo, StopGateway, CloseTradeCh, Publish,
           Submit, SendTrade, End
  <2>5. QED
    BY <2>1, <2>2, <2>3, <2>4
<1>3. PublisherTypeOK'
  BY <1>2 DEF PublisherInv
<1>4. CASE UNCHANGED <<sender, main, ctxDone, closed>>
  BY <1>1, <1>2, <1>3, <1>4 DEF IInv, TypeOK, WaitInv, Ended
<1>5. CASE Main
  <2>1. UNCHANGED sender
    BY <1>5 DEF Main, Signal, StopHTTP, StopAlgo, StopGateway, CloseTradeCh
  <2>2. \/ main = "running" /\ main' = "http" /\ ctxDone' /\ UNCHANGED closed
        \/ main = "http" /\ main' = "algo" /\ UNCHANGED <<ctxDone, closed>>
        \/ main = "algo" /\ main' = "gateway" /\ UNCHANGED <<ctxDone, closed>> /\ Ended(AlgoSenders)
        \/ main = "gateway" /\ main' = "close" /\ UNCHANGED <<ctxDone, closed>>
           /\ Ended(GatewaySenders)
        \/ main = "close" /\ main' = "stopped" /\ UNCHANGED ctxDone /\ closed'
    BY <1>5 DEF Main, Signal, StopHTTP, StopAlgo, StopGateway, CloseTradeCh, CancelContext,
                CloseChannel, publisherVars
  <2>3. TypeOK'
    BY <1>1, <1>3, <2>1, <2>2 DEF TypeOK
  <2>4. WaitInv'
    BY <1>1, <2>1, <2>2 DEF WaitInv, Ended
  <2>5. QED
    BY <1>2, <2>3, <2>4 DEF IInv
<1>6. ASSUME NEW s \in Senders, Submit(s) \/ SendTrade(s) \/ End(s)
      PROVE  IInv'
  <2>1. PICK what \in {"idle", "sending", "ended"} : sender' = [sender EXCEPT ![s] = what]
    BY <1>6 DEF Submit, SendTrade, End, Becomes
  <2>2. sender[s] # "ended" /\ UNCHANGED <<main, ctxDone, closed>>
    BY <1>6 DEF Submit, SendTrade, End, Becomes, publisherVars, Send
  <2>3. TypeOK'
    BY <1>1, <1>3, <2>1, <2>2 DEF TypeOK
  <2>4. \A r \in Senders : sender[r] = "ended" => sender'[r] = "ended"
    BY <1>1, <2>1, <2>2 DEF TypeOK
  <2>5. WaitInv'
    BY <1>1, <2>2, <2>4 DEF WaitInv, Ended, Senders
  <2>6. QED
    BY <1>2, <2>3, <2>5 DEF IInv
<1>7. CASE Publish
  BY <1>4, <1>7 DEF Publish, PublishLoop, LoopFrame
<1>8. CASE UNCHANGED vars
  BY <1>4, <1>8 DEF vars, publisherVars
<1>9. QED
  BY <1>5, <1>6, <1>7, <1>8 DEF Next

(* IInv holds in every state of every behaviour. *)
THEOREM Inductive == Spec => []IInv
<1>1. Init => IInv
  BY InitInv
<1>2. IInv /\ [Next]_vars => IInv'
  BY NextInv
<1>3. QED
  BY <1>1, <1>2, PTL DEF Spec

-----------------------------------------------------------------------------
(* What follows from it *)

(* The types; a batch that is flushed is full, unless it is the last one,   *)
(* the pipeline is not tried more often than Retries allows, and main is    *)
(* where the context and the channel say it is.                             *)
THEOREM TypeCorrect == Spec => []TypeOK
BY Inductive, PTL DEF IInv

(* Nobody sends on the closed trade channel: main closes it (main.go) after *)
(* it waited for every goroutine that may be inside an order book.          *)
THEOREM NoneSendsOnClosed == Spec => []NoSendOnClosed
<1>1. IInv => NoSendOnClosed
  BY DEF IInv, TypeOK, WaitInv, NoSendOnClosed, Ended, Senders
<1>2. QED
  BY <1>1, Inductive, PTL

(* Every trade that publishLoop read is in its batch, or logged as given    *)
(* up, or added to the stream; and it is missing from the stream only when  *)
(* MaxLen newer entries are there.  It is added once, and once more per     *)
(* fault at most (retryFlush writes whole batches again).                   *)
THEOREM TradesAccountedFor == Spec => []EachAccountedFor
<1>1. ASSUME IInv PROVE EachAccountedFor
  <2>1. /\ PublisherTypeOK /\ NumberInv /\ StreamInv /\ LoopInv
        /\ Len(tradeCh) \in Nat /\ Len(batch) \in Nat /\ DOMAIN batch = 1..Len(batch)
        /\ stream \in Seq(Nat) /\ Len(stream) \in Nat /\ sent \in Nat /\ faults \in Nat
        /\ Done \in Nat /\ sent - Len(tradeCh) = Done + Len(batch)
    <3>1. PublisherTypeOK /\ NumberInv /\ StreamInv /\ LoopInv
      BY <1>1 DEF IInv, PublisherInv
    <3>2. Done \in Nat
      BY <3>1 DEF NumberInv
    <3>3. sent - Len(tradeCh) = Done + Len(batch)
      BY <3>1, Sequences DEF Done
    <3>4. QED
      BY <3>1, <3>2, <3>3, Sequences
  <2>2. Remaining = stream \/ Len(Remaining) >= MaxLen
    <3>1. /\ trimmed \in 0..Len(stream) /\ MaxLen \in Nat
          /\ trimmed = 0 \/ Len(stream) - trimmed >= MaxLen
      BY <2>1, Constants DEF PublisherTypeOK, StreamInv, Written
    <3>2. CASE trimmed = 0
      BY <2>1, <3>2, SubSeqFull DEF Remaining
    <3>3. CASE Len(stream) - trimmed >= MaxLen
      <4>1. Len(Remaining) = Len(stream) - trimmed
        BY <2>1, <3>1 DEF Remaining
      <4>2. QED
        BY <3>3, <4>1
    <3>4. QED
      BY <3>1, <3>2, <3>3
  <2>3. ASSUME NEW t \in 1..(sent - Len(tradeCh))
        PROVE  \/ t \in ToSet(batch) /\ at # "stopped"
               \/ t \in lost \cup ToSet(Remaining)
               \/ t \in ToSet(stream) /\ Len(Remaining) >= MaxLen
    <3>1. CASE t <= Done
      <4>1. t \in ToSet(stream) \cup lost
        BY <2>1, <3>1 DEF StreamInv
      <4>2. QED
        BY <2>2, <4>1
    <3>2. CASE Done < t
      <4>1. t - Done \in DOMAIN batch /\ Done + (t - Done) = t
        BY <2>1, <3>2
      <4>2. batch[t - Done] = t
        BY <2>1, <4>1 DEF NumberInv
      <4>3. t \in ToSet(batch)
        BY <4>1, <4>2 DEF ToSet
      <4>4. at # "stopped"
        BY <2>1, <4>1, EmptySeq DEF LoopInv
      <4>5. QED
        BY <4>3, <4>4
    <3>3. QED
      BY <2>1, <3>1, <3>2
  <2>4. ASSUME NEW t \in ToSet(stream)
        PROVE  Cardinality({i \in DOMAIN stream : stream[i] = t}) <= 1 + faults
    <3>1. t \in Nat
      BY <2>1 DEF ToSet
    <3>2. Cardinality(PlacesOf(stream, t)) \in Nat
      BY <2>1, PlacesFinite
    <3>3. Cardinality(PlacesOf(stream, t)) <= 1 + faults
      BY <2>1, <3>1, <3>2 DEF StreamInv, Repeats
    <3>4. QED
      BY <3>3 DEF PlacesOf
  <2>5. QED
    BY <2>3, <2>4 DEF EachAccountedFor
<1>2. QED
  BY <1>1, Inductive, PTL

(* Whoever reads all of the stream and skips what it saw before reads the   *)
(* trades in order, whatever prefixes of batches broken connections left in *)
(* it; and no trade comes after one that was made a batch later, whatever   *)
(* commands were refused.                                                   *)
THEOREM StreamInOrder == Spec => []FirstSeenInOrder
<1>1. ASSUME IInv PROVE FirstSeenInOrder
  <2>1. Near(stream, BatchSize) /\ (refused \/ SeenBefore(stream))
    BY <1>1 DEF IInv, PublisherInv, StreamInv, Written
  <2>2. QED
    BY <2>1 DEF Near, SeenBefore, FirstSeenInOrder
<1>2. QED
  BY <1>1, Inductive, PTL

-----------------------------------------------------------------------------
(* How long the shutdown takes *)

(* The steps of a flush that is never tried again by the client itself: a   *)
(* connection and a pipeline, each time.                                    *)
FlushCost == 2 * Retries + 2

FlushLeft ==
  CASE at = "flush" -> FlushCost - 2 * retried
    [] at = "exec"  -> FlushCost - 2 * retried - 1
    [] OTHER        -> 0

(* Before it returns, publishLoop may have one flush more than full batches *)
(* give it.                                                                 *)
LoopLeft ==
  IF at = "stopped" THEN 0
  ELSE IF leaving THEN FlushLeft ELSE FlushLeft + FlushCost + 1

(* A trade that is received may make a flush necessary; one that is sent    *)
(* will be received; a goroutine ends once.                                 *)
SenderLeft ==
  [s \in Senders |-> CASE sender[s] = "sending" -> FlushCost + 3
                       [] sender[s] = "idle"    -> 1
                       [] OTHER                 -> 0]

MainLeft ==
  CASE main = "running" -> 5
    [] main = "http"    -> 4
    [] main = "algo"    -> 3
    [] main = "gateway" -> 2
    [] main = "close"   -> 1
    [] OTHER            -> 0

(* The steps that the whole program has left. *)
StepsLeft ==
  (FlushCost + 1) * Len(tradeCh) + LoopLeft + SumFunctionOnSet(SenderLeft, Senders) + MainLeft

(* An order that trades adds a fixed number of steps, a pipeline that the   *)
(* Redis client repeats adds none, and every other step takes one off.      *)
StepsBounded ==
  [][ \/ ClientRetries /\ StepsLeft' = StepsLeft
      \/ (\E s \in Senders : Submit(s)) /\ StepsLeft' = StepsLeft + FlushCost + 2
      \/ StepsLeft' < StepsLeft ]_vars

(* Nothing can be done any more but to submit orders: a guard of every      *)
(* action that the program takes by itself fails.                           *)
NothingToDo ==
  /\ at = "stopped" \/ (at = "select" /\ tradeCh = <<>> /\ ~ctxDone /\ ~closed)
  /\ \A s \in Senders :
       /\ sender[s] = "sending" => closed \/ sent >= MaxTrades \/ Len(tradeCh) >= ChSize
       /\ sender[s] = "idle" => IF s \in AlgoSenders THEN main \in {"running", "http"} ELSE ~ctxDone
  /\ main \notin {"running", "http"}
  /\ main = "algo" => ~Ended(AlgoSenders)
  /\ main = "gateway" => ~Ended(GatewaySenders)
  /\ main = "close" => ~ctxDone \/ closed

(* Then the program has stopped, or the trade channel is full, nobody will  *)
(* receive, and whoever holds a book's mutex waits for room.                *)
StuckOnlyWhenFull ==
  NothingToDo =>
    \/ main = "stopped" /\ at = "stopped" /\ Ended(Senders)
    \/ /\ Len(tradeCh) = ChSize /\ at = "stopped"
       /\ \E s \in Senders : sender[s] = "sending"

(* What this needs beyond IInv: publishLoop leaves when it is told to, and  *)
(* the bound of the trades counts those that are on their way.              *)
Sending == {s \in Senders : sender[s] = "sending"}

BoundInv ==
  /\ at = "select" => ~leaving
  /\ sent + Cardinality(Sending) <= MaxTrades

(* The goroutines are finitely many. *)
LEMMA SendersFinite ==
  /\ IsFiniteSet(Senders) /\ IsFiniteSet(Sending)
  /\ Cardinality(Sending) \in Nat
<1>1. IsFiniteSet(Senders)
  BY ShutdownAssumption, FS_Union DEF Senders
<1>2. IsFiniteSet(Sending)
  BY <1>1, FS_Subset DEF Sending
<1>3. QED
  BY <1>1, <1>2, FS_CardinalityType

(* A step of publishLoop leaves its place and the flag as BoundInv says.    *)
LEMMA LeavingStep ==
  ASSUME TypeOK, BoundInv, PublishLoop
  PROVE  (at' = "select" => ~leaving') /\ UNCHANGED sent
<1>1. at = "select" => ~leaving
  BY DEF BoundInv
<1>2. leaving \in BOOLEAN
  BY DEF TypeOK, PublisherTypeOK
<1>3. UNCHANGED sent
  BY DEF PublishLoop, LoopFrame
<1>4. CASE Receive
  BY <1>1, <1>3, <1>4 DEF Receive, Flush
<1>5. CASE Leave
  BY <1>1, <1>3, <1>5 DEF Leave, Flush
<1>6. CASE Connect
  BY <1>2, <1>3, <1>6 DEF Connect, Failed, GiveUp, FlushEnds
<1>7. CASE PipelineSucceeds
  BY <1>2, <1>3, <1>7 DEF PipelineSucceeds, FlushEnds
<1>8. CASE PipelineFails
  BY <1>2, <1>3, <1>8 DEF PipelineFails, Failed, GiveUp, FlushEnds
<1>9. CASE ClientRetries
  BY <1>3, <1>9 DEF ClientRetries, WritePart
<1>10. QED
  BY <1>3, <1>4, <1>5, <1>6, <1>7, <1>8, <1>9 DEF PublishLoop

(* Every step keeps it. *)
LEMMA BoundStep ==
  ASSUME IInv, BoundInv, [Next]_vars
  PROVE  BoundInv'
<1>1. /\ TypeOK /\ sent \in Nat /\ MaxTrades \in Nat
      /\ at = "select" => ~leaving
      /\ sent + Cardinality(Sending) <= MaxTrades
  BY Constants DEF IInv, TypeOK, PublisherTypeOK, BoundInv
<1>2. CASE Main
  <2>1. UNCHANGED <<sent, sender, at, leaving>>
    BY <1>2 DEF Main, Signal, StopHTTP, StopAlgo, StopGateway, CloseTradeCh, CancelContext,
                CloseChannel, EnvironmentFrame, publisherVars
  <2>2. QED
    BY <1>1, <2>1 DEF BoundInv, Sending
<1>3. CASE Publish
  <2>1. (at' = "select" => ~leaving') /\ UNCHANGED <<sent, sender>>
    BY <1>1, <1>3, LeavingStep DEF Publish
  <2>2. QED
    BY <1>1, <2>1 DEF BoundInv, Sending
<1>4. ASSUME NEW s \in Senders, Submit(s) PROVE BoundInv'
  <2>1. /\ sent + Cardinality(Sending) < MaxTrades /\ s \notin Sending
        /\ UNCHANGED <<sent, at, leaving>>
    BY <1>4 DEF Submit, Sending, publisherVars
  <2>2. Sending' = Sending \cup {s}
    BY <1>1, <1>4 DEF Submit, Becomes, Sending, TypeOK
  <2>3. Cardinality(Sending') = Cardinality(Sending) + 1
    BY <2>1, <2>2, SendersFinite, FS_AddElement
  <2>4. sent' + Cardinality(Sending') <= MaxTrades
    BY <1>1, <2>1, <2>3, SendersFinite
  <2>5. QED
    BY <1>1, <2>1, <2>4 DEF BoundInv
<1>5. ASSUME NEW s \in Senders, SendTrade(s) PROVE BoundInv'
  <2>1. /\ s \in Sending /\ sent' = sent + 1 /\ UNCHANGED <<at, leaving>>
    BY <1>5 DEF SendTrade, Send, Sending, EnvironmentFrame
  <2>2. Sending' = Sending \ {s}
    BY <1>1, <1>5 DEF SendTrade, Becomes, Sending, TypeOK
  <2>3. Cardinality(Sending') = Cardinality(Sending) - 1
    BY <2>1, <2>2, SendersFinite, FS_RemoveElement
  <2>4. sent' + Cardinality(Sending') <= MaxTrades
    BY <1>1, <2>1, <2>3, SendersFinite
  <2>5. QED
    BY <1>1, <2>1, <2>4 DEF BoundInv
<1>6. ASSUME NEW s \in Senders, End(s) PROVE BoundInv'
  <2>1. Sending' = Sending /\ UNCHANGED <<sent, at, leaving>>
    BY <1>1, <1>6 DEF End, Becomes, Sending, TypeOK, publisherVars
  <2>2. QED
    BY <1>1, <2>1 DEF BoundInv
<1>7. CASE UNCHANGED vars
  BY <1>1, <1>7 DEF vars, publisherVars, BoundInv, Sending
<1>8. QED
  BY <1>2, <1>3, <1>4, <1>5, <1>6, <1>7 DEF Next

(* It holds in every state of every behaviour. *)
LEMMA Bounded == Spec => []BoundInv
<1>1. Init => BoundInv
  <2> SUFFICES ASSUME Init PROVE BoundInv
    OBVIOUS
  <2>1. Sending = {}
    BY DEF Init, Sending
  <2>2. Cardinality(Sending) = 0
    BY <2>1, FS_EmptySet
  <2>3. QED
    BY <2>2, Constants DEF Init, PublisherInit, BoundInv
<1>2. IInv /\ BoundInv /\ [Next]_vars => BoundInv'
  BY BoundStep
<1>3. QED
  BY <1>1, <1>2, Inductive, PTL DEF Spec

(* What the measure is made of is natural. *)
LEMMA LeftTypes ==
  ASSUME IInv
  PROVE  /\ FlushCost \in Nat /\ FlushCost = 2 * Retries + 2 /\ retried \in Nat
         /\ FlushLeft \in Nat /\ FlushLeft <= FlushCost /\ (Flushing => FlushLeft > 0)
         /\ LoopLeft \in Nat /\ MainLeft \in Nat /\ Len(tradeCh) \in Nat
         /\ \A s \in Senders : SenderLeft[s] \in Nat
         /\ SumFunctionOnSet(SenderLeft, Senders) \in Nat
         /\ StepsLeft \in Nat
<1>1. /\ TypeOK /\ PublisherTypeOK /\ LoopInv /\ Retries \in Nat /\ Len(tradeCh) \in Nat
      /\ leaving \in BOOLEAN
  BY Sequences, Constants DEF IInv, TypeOK, PublisherInv, PublisherTypeOK
<1>2. FlushCost \in Nat /\ FlushCost = 2 * Retries + 2
  BY <1>1 DEF FlushCost
<1>3. retried \in Nat /\ (Flushing => retried <= Retries)
  BY <1>1 DEF PublisherTypeOK, LoopInv
<1>4. FlushLeft \in Nat /\ FlushLeft <= FlushCost /\ (Flushing => FlushLeft > 0)
  <2>1. CASE at = "flush"
    <3>1. retried <= Retries /\ FlushLeft = FlushCost - 2 * retried
      BY <1>3, <2>1 DEF FlushLeft, Flushing
    <3>2. QED
      BY <1>1, <1>2, <1>3, <3>1
  <2>2. CASE at = "exec"
    <3>1. retried <= Retries /\ FlushLeft = FlushCost - 2 * retried - 1
      BY <1>3, <2>2 DEF FlushLeft, Flushing
    <3>2. QED
      BY <1>1, <1>2, <1>3, <3>1
  <2>3. CASE ~Flushing
    BY <1>2, <2>3 DEF FlushLeft, Flushing
  <2>4. QED
    BY <2>1, <2>2, <2>3 DEF Flushing
<1>5. LoopLeft \in Nat
  BY <1>2, <1>4 DEF LoopLeft
<1>6. MainLeft \in Nat
  BY DEF MainLeft
<1>7. \A s \in Senders : SenderLeft[s] \in Nat
  BY <1>2 DEF SenderLeft
<1>8. SumFunctionOnSet(SenderLeft, Senders) \in Nat
  BY <1>7, SendersFinite, SumOfPart
<1>9. (FlushCost + 1) * Len(tradeCh) \in Nat
  BY <1>1, <1>2
<1>10. StepsLeft \in Nat
  BY <1>5, <1>6, <1>8, <1>9 DEF StepsLeft
<1>11. QED
  BY <1>1, <1>2, <1>3, <1>4, <1>5, <1>6, <1>7, <1>8, <1>10

(* One goroutine's part of the sum. *)
LEMMA SenderChange ==
  ASSUME TypeOK, NEW s \in Senders, NEW what \in {"idle", "sending", "ended"},
         sender' = [sender EXCEPT ![s] = what],
         \A r \in Senders : SenderLeft[r] \in Nat
  PROVE  SumFunctionOnSet(SenderLeft', Senders)
           = SumFunctionOnSet(SenderLeft, Senders) - SenderLeft[s] + SenderLeft'[s]
<1>1. \A r \in Senders \ {s} : SenderLeft'[r] = SenderLeft[r]
  BY DEF SenderLeft, TypeOK
<1>2. \A r \in Senders : SenderLeft'[r] \in Int
  <2>1. FlushCost + 3 \in Int
    BY Constants DEF FlushCost
  <2>2. QED
    BY <2>1 DEF SenderLeft
<1>3. \A r \in Senders : SenderLeft[r] \in Int
  OBVIOUS
<1>4. QED
  BY <1>1, <1>2, <1>3, SendersFinite, SumChange

(* The steps of a flush take off what they should. *)
LEMMA FlushSteps ==
  ASSUME IInv, BoundInv, Connect \/ PipelineSucceeds \/ PipelineFails
  PROVE  LoopLeft' < LoopLeft
<1>1. /\ leaving \in BOOLEAN /\ UNCHANGED leaving
  BY DEF IInv, TypeOK, PublisherTypeOK, Connect, PipelineSucceeds, PipelineFails
<1>2. /\ FlushCost \in Nat /\ FlushCost' = FlushCost /\ FlushCost = 2 * Retries + 2
      /\ retried \in Nat /\ Retries \in Nat
      /\ FlushLeft \in Nat /\ (Flushing => FlushLeft > 0 /\ retried <= Retries)
  BY LeftTypes, Constants DEF IInv, PublisherInv, LoopInv, FlushCost
<1>3. Flushing
  BY DEF Connect, PipelineSucceeds, PipelineFails, WritePart, Flushing
<1>4. LoopLeft = IF leaving THEN FlushLeft ELSE FlushLeft + FlushCost + 1
  BY <1>3 DEF LoopLeft, Flushing
<1>5. CASE FlushEnds
  <2>1. CASE leaving
    <3>1. LoopLeft' = 0
      BY <1>5, <2>1 DEF FlushEnds, LoopLeft
    <3>2. QED
      BY <1>2, <1>3, <1>4, <2>1, <3>1
  <2>2. CASE ~leaving
    <3>1. at' = "select" /\ FlushLeft' = 0
      BY <1>5, <2>2 DEF FlushEnds, FlushLeft
    <3>2. LoopLeft' = FlushCost + 1
      BY <1>1, <1>2, <2>2, <3>1 DEF LoopLeft
    <3>3. QED
      BY <1>2, <1>3, <1>4, <2>2, <3>2
  <2>3. QED
    BY <2>1, <2>2
<1>6. CASE at' \in {"flush", "exec"} /\ FlushLeft' < FlushLeft
  <2>1. LoopLeft' = IF leaving THEN FlushLeft' ELSE FlushLeft' + FlushCost + 1
    BY <1>1, <1>2, <1>6 DEF LoopLeft
  <2>2. FlushLeft' \in Int
    <3>1. retried' \in Int
      BY <1>2 DEF Connect, PipelineSucceeds, PipelineFails, Failed
    <3>2. QED
      BY <1>2, <3>1 DEF FlushLeft
  <2>3. CASE leaving
    <3>1. LoopLeft = FlushLeft /\ LoopLeft' = FlushLeft'
      BY <1>4, <2>1, <2>3
    <3>2. QED
      BY <1>6, <3>1
  <2>4. CASE ~leaving
    <3>1. PICK n \in Int : n = FlushLeft'
      BY <2>2
    <3>2. LoopLeft = FlushLeft + FlushCost + 1 /\ LoopLeft' = n + FlushCost + 1
      BY <1>4, <2>1, <2>4, <3>1
    <3>3. n < FlushLeft
      BY <1>6, <3>1
    <3>4. QED
      BY <1>2, <3>2, <3>3
  <2>5. QED
    BY <2>3, <2>4
<1>7. FlushEnds \/ (at' \in {"flush", "exec"} /\ FlushLeft' < FlushLeft)
  <2>1. CASE PipelineSucceeds
    BY <2>1 DEF PipelineSucceeds
  <2>2. CASE Connect /\ ~ctxDone
    <3>1. at = "flush" /\ at' = "exec" /\ UNCHANGED retried
      BY <2>2 DEF Connect
    <3>2. QED
      BY <1>2, <3>1 DEF FlushLeft
  <2>3. CASE Failed
    <3>1. CASE retried < Retries
      <4>1. at' = "flush" /\ retried' = retried + 1
        BY <2>3, <3>1 DEF Failed
      <4>2. FlushLeft' = FlushCost - 2 * (retried + 1)
        BY <1>2, <4>1 DEF FlushLeft
      <4>3. FlushLeft >= FlushCost - 2 * retried - 1
        BY <1>2, <1>3 DEF FlushLeft, Flushing
      <4>4. QED
        BY <1>2, <4>1, <4>2, <4>3
    <3>2. CASE ~(retried < Retries)
      BY <2>3, <3>2 DEF Failed, GiveUp
    <3>3. QED
      BY <3>1, <3>2
  <2>4. QED
    BY <2>1, <2>2, <2>3 DEF Connect, PipelineFails
<1>8. QED
  BY <1>5, <1>6, <1>7

(* So do all the steps of publishLoop, but for the client's own repetition. *)
LEMMA LoopSteps ==
  ASSUME IInv, BoundInv, PublishLoop
  PROVE  LET n == (FlushCost + 1) * Len(tradeCh) + LoopLeft
         IN  (ClientRetries /\ n' = n) \/ n' < n
<1> DEFINE n == (FlushCost + 1) * Len(tradeCh) + LoopLeft
<1>1. /\ TypeOK /\ PublisherTypeOK /\ (at = "select" => ~leaving)
  BY DEF IInv, PublisherInv, BoundInv
<1>2. /\ FlushCost \in Nat /\ FlushCost' = FlushCost /\ FlushCost = 2 * Retries + 2
      /\ Len(tradeCh) \in Nat /\ LoopLeft \in Nat /\ Retries \in Nat
  BY LeftTypes, Constants DEF FlushCost
<1>3. (FlushCost + 1) * Len(tradeCh) \in Nat
  BY <1>2
<1>4. at = "select" => LoopLeft = FlushCost + 1
  <2>1. at = "select" => FlushLeft = 0
    BY DEF FlushLeft
  <2>2. QED
    BY <1>1, <1>2, <2>1 DEF LoopLeft
<1>5. CASE Receive
  <2>1. at = "select" /\ ~leaving /\ Len(tradeCh') = Len(tradeCh) - 1
    BY <1>1, <1>5, Sequences DEF Receive
  <2>2. LoopLeft' \in Int /\ LoopLeft' <= 2 * FlushCost + 1
    <3>1. CASE Flush(FALSE)
      <4>1. at' = "flush" /\ ~leaving' /\ retried' = 0
        BY <3>1 DEF Flush
      <4>2. FlushLeft' = FlushCost
        BY <1>2, <4>1 DEF FlushLeft
      <4>3. LoopLeft' = FlushCost + FlushCost + 1
        BY <1>2, <4>1, <4>2 DEF LoopLeft
      <4>4. QED
        BY <1>2, <4>3
    <3>2. CASE UNCHANGED <<at, leaving, retried>>
      <4>1. LoopLeft' = LoopLeft
        BY <3>2 DEF LoopLeft, FlushLeft, FlushCost
      <4>2. QED
        BY <1>2, <1>4, <2>1, <4>1
    <3>3. QED
      BY <1>5, <3>1, <3>2 DEF Receive
  <2>3. (FlushCost + 1) * (Len(tradeCh) - 1) = (FlushCost + 1) * Len(tradeCh) - (FlushCost + 1)
    BY <1>2
  <2>4. n' = (FlushCost + 1) * (Len(tradeCh) - 1) + LoopLeft'
    BY <1>2, <2>1
  <2>5. n' < n
    BY <1>2, <1>3, <1>4, <2>1, <2>2, <2>3, <2>4
  <2>6. QED
    BY <2>5
<1>6. CASE Leave
  <2>1. at = "select" /\ UNCHANGED tradeCh
    BY <1>6 DEF Leave
  <2>2. LoopLeft' \in Int /\ LoopLeft' <= FlushCost
    <3>1. CASE Flush(TRUE)
      <4>1. at' = "flush" /\ leaving' /\ retried' = 0
        BY <3>1 DEF Flush
      <4>2. FlushLeft' = FlushCost
        BY <1>2, <4>1 DEF FlushLeft
      <4>3. LoopLeft' = FlushCost
        BY <4>1, <4>2 DEF LoopLeft
      <4>4. QED
        BY <1>2, <4>3
    <3>2. CASE at' = "stopped"
      BY <1>2, <3>2 DEF LoopLeft
    <3>3. QED
      BY <1>6, <3>1, <3>2 DEF Leave
  <2>3. n' = (FlushCost + 1) * Len(tradeCh) + LoopLeft'
    BY <1>2, <2>1
  <2>4. n' < n
    BY <1>2, <1>3, <1>4, <2>1, <2>2, <2>3
  <2>5. QED
    BY <2>4
<1>7. CASE Connect \/ PipelineSucceeds \/ PipelineFails
  <2>1. LoopLeft' < LoopLeft /\ UNCHANGED tradeCh
    BY <1>7, FlushSteps DEF Connect, PipelineSucceeds, PipelineFails, Failed, GiveUp
  <2>2. LoopLeft' \in Int
    <3>1. retried' \in Int
      BY <1>7, LeftTypes DEF Connect, PipelineSucceeds, PipelineFails, Failed
    <3>2. FlushLeft' \in Int
      BY <1>2, <3>1 DEF FlushLeft
    <3>3. QED
      BY <1>2, <3>2 DEF LoopLeft
  <2>3. n' = (FlushCost + 1) * Len(tradeCh) + LoopLeft'
    BY <1>2, <2>1
  <2>4. n' < n
    BY <1>2, <1>3, <2>1, <2>2, <2>3
  <2>5. QED
    BY <2>4
<1>8. CASE ClientRetries
  <2>1. UNCHANGED <<tradeCh, at, leaving, retried>>
    BY <1>8 DEF ClientRetries
  <2>2. n' = n
    BY <2>1 DEF LoopLeft, FlushLeft, FlushCost
  <2>3. QED
    BY <1>8, <2>2
<1>9. QED
  BY <1>5, <1>6, <1>7, <1>8 DEF PublishLoop

(* Each step of the program changes the measure as StepsBounded says.       *)
LEMMA MeasureStep ==
  ASSUME IInv, BoundInv, Next
  PROVE  \/ ClientRetries /\ StepsLeft' = StepsLeft
         \/ (\E s \in Senders : Submit(s)) /\ StepsLeft' = StepsLeft + FlushCost + 2
         \/ StepsLeft' < StepsLeft
<1> DEFINE c == (FlushCost + 1) * Len(tradeCh)
           sum == SumFunctionOnSet(SenderLeft, Senders)
<1>1. /\ TypeOK /\ FlushCost \in Nat /\ FlushCost' = FlushCost /\ Len(tradeCh) \in Nat
      /\ LoopLeft \in Nat /\ MainLeft \in Nat /\ sum \in Nat
      /\ \A s \in Senders : SenderLeft[s] \in Nat
  BY LeftTypes DEF IInv, FlushCost
<1>2. c \in Nat
  BY <1>1
<1>3. StepsLeft = c + LoopLeft + sum + MainLeft /\ StepsLeft' = c' + LoopLeft' + sum' + MainLeft'
  BY DEF StepsLeft
<1>4. UNCHANGED <<at, leaving, retried>> => LoopLeft' = LoopLeft
  BY DEF LoopLeft, FlushLeft, FlushCost
<1>5. UNCHANGED sender => sum' = sum
  BY DEF SenderLeft, FlushCost
<1>6. UNCHANGED main => MainLeft' = MainLeft
  BY DEF MainLeft
<1>7. UNCHANGED tradeCh => c' = c
  BY <1>1
<1> HIDE DEF c, sum
<1>8. CASE Main
  <2>1. UNCHANGED <<tradeCh, at, leaving, retried, sender>>
    BY <1>8 DEF Main, Signal, StopHTTP, StopAlgo, StopGateway, CloseTradeCh, CancelContext,
                CloseChannel, EnvironmentFrame, publisherVars
  <2>2. MainLeft' \in Int /\ MainLeft' < MainLeft
    BY <1>8 DEF Main, Signal, StopHTTP, StopAlgo, StopGateway, CloseTradeCh, MainLeft
  <2>3. c' = c /\ LoopLeft' = LoopLeft /\ sum' = sum
    BY <1>4, <1>5, <1>7, <2>1
  <2>4. PICK n \in Int : n = MainLeft'
    BY <2>2
  <2>5. StepsLeft' = c + LoopLeft + sum + n /\ n < MainLeft
    BY <1>3, <2>2, <2>3, <2>4
  <2>6. StepsLeft' < StepsLeft
    BY <1>1, <1>2, <1>3, <2>5
  <2>7. QED
    BY <2>6
<1>9. CASE Publish
  <2>1. PublishLoop /\ sum' = sum /\ MainLeft' = MainLeft
    BY <1>5, <1>6, <1>9 DEF Publish
  <2>2. (ClientRetries /\ c' + LoopLeft' = c + LoopLeft) \/ c' + LoopLeft' < c + LoopLeft
    BY <2>1, LoopSteps DEF c
  <2>3. c' \in Int /\ LoopLeft' \in Int
    <3>1. IInv'
      BY <1>9, NextInv DEF Next
    <3>2. (Len(tradeCh) \in Nat /\ LoopLeft \in Nat)'
      BY <3>1, LeftTypes, PTL
    <3>3. QED
      BY <1>1, <3>2 DEF c
  <2>4. CASE ClientRetries /\ c' + LoopLeft' = c + LoopLeft
    <3>1. StepsLeft' = StepsLeft
      BY <1>1, <1>2, <1>3, <2>1, <2>3, <2>4
    <3>2. QED
      BY <2>4, <3>1
  <2>5. CASE c' + LoopLeft' < c + LoopLeft
    <3>1. PICK k \in Int, n \in Int : k = c' /\ n = LoopLeft'
      BY <2>3
    <3>2. StepsLeft' = k + n + sum + MainLeft
      BY <1>3, <2>1, <3>1
    <3>3. k + n < c + LoopLeft
      BY <2>5, <3>1
    <3>4. (k + n) + (sum + MainLeft) < (c + LoopLeft) + (sum + MainLeft)
      <4>1. k + n \in Int /\ c + LoopLeft \in Int /\ sum + MainLeft \in Int
        BY <1>1, <1>2, <3>1
      <4>2. QED
        BY <3>3, <4>1
    <3>5. StepsLeft' < StepsLeft
      <4>1. StepsLeft = (c + LoopLeft) + (sum + MainLeft)
        BY <1>1, <1>2, <1>3
      <4>2. StepsLeft' = (k + n) + (sum + MainLeft)
        BY <1>1, <1>2, <3>1, <3>2
      <4>3. QED
        BY <3>4, <4>1, <4>2
    <3>6. QED
      BY <3>5
  <2>6. QED
    BY <2>2, <2>4, <2>5
<1>10. ASSUME NEW s \in Senders, Submit(s)
       PROVE  StepsLeft' = StepsLeft + FlushCost + 2
  <2>1. sender[s] = "idle" /\ sender' = [sender EXCEPT ![s] = "sending"]
        /\ UNCHANGED <<tradeCh, at, leaving, retried, main>>
    BY <1>10 DEF Submit, Becomes, publisherVars
  <2>2. SenderLeft[s] = 1 /\ SenderLeft'[s] = FlushCost + 3
    BY <1>1, <2>1 DEF SenderLeft, TypeOK
  <2>3. sum' = sum - SenderLeft[s] + SenderLeft'[s]
    BY <1>1, <2>1, SenderChange DEF sum
  <2>4. sum' = sum + FlushCost + 2
    BY <1>1, <2>2, <2>3
  <2>5. c' = c /\ LoopLeft' = LoopLeft /\ MainLeft' = MainLeft
    BY <1>4, <1>6, <1>7, <2>1
  <2>6. QED
    BY <1>1, <1>2, <1>3, <2>4, <2>5
<1>11. ASSUME NEW s \in Senders, SendTrade(s)
       PROVE  StepsLeft' < StepsLeft
  <2>1. sender[s] = "sending" /\ sender' = [sender EXCEPT ![s] = "idle"]
        /\ UNCHANGED <<at, leaving, retried, main>> /\ tradeCh' = Append(tradeCh, sent')
    BY <1>11 DEF SendTrade, Send, Becomes, EnvironmentFrame
  <2>2. SenderLeft[s] = FlushCost + 3 /\ SenderLeft'[s] = 1
    BY <1>1, <2>1 DEF SenderLeft, TypeOK
  <2>3. sum' = sum - SenderLeft[s] + SenderLeft'[s]
    BY <1>1, <2>1, SenderChange DEF sum
  <2>4. Len(tradeCh') = Len(tradeCh) + 1
    BY <1>1, <2>1, Sequences DEF IInv, PublisherInv
  <2>5. c' = c + FlushCost + 1
    <3>1. (FlushCost + 1) * (Len(tradeCh) + 1) = (FlushCost + 1) * Len(tradeCh) + FlushCost + 1
      BY <1>1
    <3>2. QED
      BY <1>1, <2>4, <3>1 DEF c
  <2>6. QED
    BY <1>1, <1>2, <1>3, <1>4, <1>6, <2>1, <2>2, <2>3, <2>5
<1>12. ASSUME NEW s \in Senders, End(s)
       PROVE  StepsLeft' < StepsLeft
  <2>1. sender[s] = "idle" /\ sender' = [sender EXCEPT ![s] = "ended"]
        /\ UNCHANGED <<tradeCh, at, leaving, retried, main>>
    BY <1>12 DEF End, Becomes, publisherVars
  <2>2. SenderLeft[s] = 1 /\ SenderLeft'[s] = 0
    BY <1>1, <2>1 DEF SenderLeft, TypeOK
  <2>3. sum' = sum - SenderLeft[s] + SenderLeft'[s]
    BY <1>1, <2>1, SenderChange DEF sum
  <2>4. QED
    BY <1>1, <1>2, <1>3, <1>4, <1>6, <1>7, <2>1, <2>2, <2>3
<1>13. QED
  BY <1>8, <1>9, <1>10, <1>11, <1>12 DEF Next

(* The program makes finitely many steps for the orders submitted to it and *)
(* the faults of Redis: no retry of retryFlush, no wait of main's and no    *)
(* batch goes round for ever.                                               *)
THEOREM ShutdownBounded == Spec => [](StepsLeft \in Nat) /\ StepsBounded
<1>1. IInv => StepsLeft \in Nat
  BY LeftTypes
<1>2. IInv /\ BoundInv /\ [Next]_vars =>
        [ \/ ClientRetries /\ StepsLeft' = StepsLeft
          \/ (\E s \in Senders : Submit(s)) /\ StepsLeft' = StepsLeft + FlushCost + 2
          \/ StepsLeft' < StepsLeft ]_vars
  BY MeasureStep
<1>3. QED
  BY <1>1, <1>2, Inductive, Bounded, PTL DEF Spec, StepsBounded

(* And when it makes no more after the signal, either it has stopped or the *)
(* trade channel is full, without a publisher, and a goroutine is inside a  *)
(* book: this is the one way in which the stop of main.go can hang.         *)
THEOREM HangIsFullChannel == Spec => []StuckOnlyWhenFull
<1>1. ASSUME IInv, BoundInv, NothingToDo PROVE StuckOnlyWhenFull
  <2>1. /\ TypeOK /\ WaitInv /\ sent \in Nat /\ Len(tradeCh) \in Nat /\ ChSize \in Nat
        /\ MaxTrades \in Nat /\ Len(tradeCh) <= ChSize
        /\ \A s \in Senders : sender[s] \in {"idle", "sending", "ended"}
        /\ main \in {"algo", "gateway", "close", "stopped"} /\ ctxDone
        /\ closed <=> main = "stopped"
    BY <1>1, Constants, Sequences
    DEF IInv, TypeOK, PublisherInv, PublisherTypeOK, NothingToDo
  <2>2. at = "stopped"
    BY <1>1, <2>1 DEF NothingToDo
  <2>3. \A s \in Senders : sender[s] # "idle"
    BY <1>1, <2>1 DEF NothingToDo
  <2>4. ASSUME NEW s \in Senders, sender[s] = "sending", ~closed PROVE Len(tradeCh) = ChSize
    <3>1. s \in Sending
      BY <2>4 DEF Sending
    <3>2. Cardinality(Sending) # 0
      BY <3>1, SendersFinite, FS_EmptySet
    <3>3. sent < MaxTrades
      BY <1>1, <2>1, <3>2, SendersFinite DEF BoundInv
    <3>4. Len(tradeCh) >= ChSize
      BY <1>1, <2>1, <2>4, <3>3 DEF NothingToDo
    <3>5. QED
      BY <2>1, <3>4
  <2>5. CASE main = "stopped"
    BY <2>1, <2>2, <2>5 DEF StuckOnlyWhenFull, WaitInv, Ended, Senders
  <2>6. CASE main # "stopped"
    <3>1. \E s \in Senders : sender[s] # "ended"
      BY <1>1, <2>1, <2>6 DEF NothingToDo, Ended, Senders
    <3>2. PICK s \in Senders : sender[s] = "sending"
      BY <2>1, <2>3, <3>1
    <3>3. Len(tradeCh) = ChSize
      BY <2>1, <2>4, <2>6, <3>2
    <3>4. QED
      BY <2>2, <3>2, <3>3 DEF StuckOnlyWhenFull
  <2>7. QED
    BY <2>5, <2>6
<1>2. IInv /\ BoundInv => StuckOnlyWhenFull
  BY <1>1 DEF StuckOnlyWhenFull
<1>3. QED
  BY <1>2, Inductive, Bounded, PTL
=============================================================================
