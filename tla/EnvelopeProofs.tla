--------------------------- MODULE EnvelopeProofs ---------------------------
(***************************************************************************)
(* Proofs about the envelope of DsoSnapshot, for any number of probes and  *)
(* levels, any limits and block size, and any number of captures and       *)
(* packets: it stays in its arrays, and it is the envelope of the samples. *)
(* The levels are recursive functions; what holds of every level is shown  *)
(* by induction from level 0 up.                                           *)
(***************************************************************************)
EXTENDS DsoSnapshotProofs

(* The levels are the numbers up to the last one. *)
LEMMA StepsAreNumbers ==
    /\ ScaleStepCount - 1 \in Nat /\ Steps = 0..(ScaleStepCount - 1)
    /\ 0 \in Steps /\ Steps \subseteq Nat
    /\ \A l \in Steps : l # 0 => l - 1 \in Steps
BY SnapshotAssumption DEF Steps

(* What holds of level 0, and of each level if it holds of the one below,
   holds of all. *)
LEMMA EveryLevel ==
    ASSUME NEW S, 0 \in S, \A l \in Steps : l # 0 /\ l - 1 \in S => l \in S
    PROVE  Steps \subseteq S
<1> DEFINE m == ScaleStepCount - 1
<1>1. m \in Nat /\ Steps = 0..m
  BY StepsAreNumbers
<1> HIDE DEF m
<1>2. \A l \in 1..m : l \in Steps /\ l # 0
  BY <1>1
<1>3. \A l \in 1..m : l - 1 \in S => l \in S
  BY <1>2
<1>4. 0..m \subseteq S
  BY <1>1, <1>3, InductionUpTo
<1> QED
  BY <1>1, <1>4

----------------------------------------------------------------------------
(* The recursions have solutions, so that their values are what they say. *)

(* The scales: the block size for level 0, and times it for each level more. *)
LEMMA ScaleValues ==
    /\ Scale \in [Steps -> Nat \ {0}]
    /\ \A l \in Steps : Scale[l] = EnvelopeScaleFactor * (IF l = 0 THEN 1 ELSE Scale[l - 1])
<1> DEFINE V == Nat \ {0}
           next == [k \in Nat |-> [v \in V |-> EnvelopeScaleFactor * v]]
           m == ScaleStepCount - 1
           Is(f) == f = [l \in Steps |-> EnvelopeScaleFactor * (IF l = 0 THEN 1 ELSE f[l - 1])]
<1>1. /\ EnvelopeScaleFactor \in V /\ next \in [Nat -> [V -> V]]
      /\ \A k \in Nat : \A v \in V : next[k][v] = EnvelopeScaleFactor * v
      /\ EnvelopeScaleFactor * 1 = EnvelopeScaleFactor
  BY SnapshotAssumption
<1>2. m \in Nat /\ Steps = 0..m
  BY StepsAreNumbers
<1> HIDE DEF V, next, m
<1>3. PICK g \in [0..m -> V] : Solves(g, m, EnvelopeScaleFactor, next)
  BY <1>1, <1>2, RecursionSolved
<1>4. ASSUME NEW l \in Steps
      PROVE  g[l] = EnvelopeScaleFactor * (IF l = 0 THEN 1 ELSE g[l - 1])
  <2>1. l # 0 => g[l - 1] \in V
    BY <1>2, <1>3, StepsAreNumbers
  <2>2. g[l] = IF l = 0 THEN EnvelopeScaleFactor ELSE next[l][g[l - 1]]
    BY <1>2, <1>3 DEF Solves
  <2>3. l # 0 => next[l][g[l - 1]] = EnvelopeScaleFactor * g[l - 1]
    BY <1>1, <2>1, StepsAreNumbers
  <2> QED
    BY <1>1, <2>2, <2>3
<1>5. Is(g)
  BY <1>2, <1>3, <1>4
<1>6. Scale = CHOOSE f : Is(f)
  BY DEF Scale
<1> HIDE DEF Is
<1>7. Is(Scale)
  BY <1>5, <1>6
<1> USE DEF Is
<1>8. DOMAIN Scale = Steps
      /\ \A l \in Steps : Scale[l] = EnvelopeScaleFactor * (IF l = 0 THEN 1 ELSE Scale[l - 1])
  BY <1>7
<1>9. Steps \subseteq {l \in Steps : Scale[l] \in V}
  <2>1. Scale[0] \in V
    BY <1>1, <1>8, StepsAreNumbers
  <2>2. ASSUME NEW l \in Steps, l # 0, Scale[l - 1] \in V PROVE Scale[l] \in V
    <3>1. Scale[l] = EnvelopeScaleFactor * Scale[l - 1]
      BY <1>8, <2>2
    <3> QED
      BY <1>1, <2>2, <3>1, ProductPositive DEF V
  <2> DEFINE S == {l \in Steps : Scale[l] \in V}
  <2>3. 0 \in S /\ \A l \in Steps : l # 0 /\ l - 1 \in S => l \in S
    BY <2>1, <2>2, StepsAreNumbers
  <2> HIDE DEF S
  <2>4. Steps \subseteq S
    BY <2>3, EveryLevel
  <2> QED
    BY <2>4 DEF S
<1>10. Scale = [l \in Steps |-> Scale[l]]
  BY <1>7
<1> QED
  BY <1>8, <1>9, <1>10 DEF V

(* The lengths that first_payload() allocates. *)
LEMMA LevelSizeValues ==
    ASSUME NEW total \in Nat
    PROVE  LET size == LevelSize(total)
           IN  /\ size \in [Steps -> Nat]
               /\ \A l \in Steps :
                    size[l] = RoundUp((IF l = 0 THEN total ELSE size[l - 1])
                                         \div EnvelopeScaleFactor)
<1> DEFINE next == [k \in Nat |-> [v \in Nat |-> RoundUp(v \div EnvelopeScaleFactor)]]
           m == ScaleStepCount - 1
           size == LevelSize(total)
           Is(f) == f = [l \in Steps |-> RoundUp((IF l = 0 THEN total ELSE f[l - 1])
                                                    \div EnvelopeScaleFactor)]
<1>1. ASSUME NEW v \in Nat PROVE RoundUp(v \div EnvelopeScaleFactor) \in Nat
  <2>1. v \div EnvelopeScaleFactor \in Nat
    BY SnapshotAssumption, DivMod
  <2> DEFINE q == (v \div EnvelopeScaleFactor) + EnvelopeDataUnit - 1
  <2>2. q \in Nat
    BY <2>1, SnapshotAssumption
  <2> HIDE DEF q
  <2>3. q \div EnvelopeDataUnit \in Nat
    BY <2>2, SnapshotAssumption, DivMod
  <2>4. (q \div EnvelopeDataUnit) * EnvelopeDataUnit \in Nat
    BY <2>3, SnapshotAssumption
  <2> QED
    BY <2>4 DEF q, RoundUp
<1>2. /\ next \in [Nat -> [Nat -> Nat]]
      /\ \A k \in Nat : \A v \in Nat : next[k][v] = RoundUp(v \div EnvelopeScaleFactor)
  BY <1>1
<1>3. m \in Nat /\ Steps = 0..m
  BY StepsAreNumbers
<1> DEFINE first == RoundUp(total \div EnvelopeScaleFactor)
<1>4. first \in Nat
  BY <1>1
<1> HIDE DEF next, m, first
<1>5. PICK g \in [0..m -> Nat] : Solves(g, m, first, next)
  BY <1>2, <1>3, <1>4, RecursionSolved
<1>6. ASSUME NEW l \in Steps
      PROVE  g[l] = RoundUp((IF l = 0 THEN total ELSE g[l - 1]) \div EnvelopeScaleFactor)
  <2>1. l # 0 => g[l - 1] \in Nat
    BY <1>3, <1>5, StepsAreNumbers
  <2>2. g[l] = IF l = 0 THEN first ELSE next[l][g[l - 1]]
    BY <1>3, <1>5 DEF Solves
  <2>3. l # 0 => next[l][g[l - 1]] = RoundUp(g[l - 1] \div EnvelopeScaleFactor)
    BY <1>2, <2>1, StepsAreNumbers
  <2> QED
    BY <2>2, <2>3 DEF first
<1>7. Is(g)
  BY <1>3, <1>5, <1>6
<1>8. size = CHOOSE f : Is(f)
  BY DEF LevelSize
<1> HIDE DEF Is, size
<1>9. Is(size)
  BY <1>7, <1>8
<1> USE DEF Is
<1>10. size = [l \in Steps |-> size[l]]
       /\ \A l \in Steps : size[l] = RoundUp((IF l = 0 THEN total ELSE size[l - 1])
                                                \div EnvelopeScaleFactor)
  BY <1>9
<1>11. Steps \subseteq {l \in Steps : size[l] \in Nat}
  <2> DEFINE S == {l \in Steps : size[l] \in Nat}
  <2>1. size[0] \in Nat
    BY <1>1, <1>10, StepsAreNumbers
  <2>2. ASSUME NEW l \in Steps, l # 0, size[l - 1] \in Nat PROVE size[l] \in Nat
    BY <1>1, <1>10, <2>2
  <2>3. 0 \in S /\ \A l \in Steps : l # 0 /\ l - 1 \in S => l \in S
    BY <2>1, <2>2, StepsAreNumbers
  <2> HIDE DEF S
  <2>4. Steps \subseteq S
    BY <2>3, EveryLevel
  <2> QED
    BY <2>4 DEF S
<1> QED
  BY <1>10, <1>11 DEF size

(* The levels of a channel after an update. *)
LEMMA UpdatedValues ==
    ASSUME NEW s, NEW i, NEW header
    PROVE  LET level == Updated(s, i, header)
           IN  /\ DOMAIN level = Steps
               /\ \A l \in Steps :
                    level[l] = UpdatedLevel(s, i, header, l, IF l = 0 THEN NoLevel ELSE level[l - 1])
<1> DEFINE next(l, below) == UpdatedLevel(s, i, header, l, below)
           m == ScaleStepCount - 1
           level == Updated(s, i, header)
           Is(f, n) == f = [l \in 0..n |-> next(l, IF l = 0 THEN NoLevel ELSE f[l - 1])]
           S == {n \in Nat : \E f : Is(f, n)}
<1>1. m \in Nat /\ Steps = 0..m
  BY StepsAreNumbers
<1> HIDE DEF m, next
<1>2. 0 \in S
  <2> DEFINE f == [l \in 0..0 |-> next(l, NoLevel)]
  <2>1. Is(f, 0)
    OBVIOUS
  <2> HIDE DEF Is, f
  <2> QED
    BY <2>1
<1>3. ASSUME NEW n \in Nat, n \in S PROVE n + 1 \in S
  <2>1. PICK f : Is(f, n)
    BY <1>3
  <2> DEFINE g == [l \in 0..(n + 1) |-> IF l = n + 1 THEN next(n + 1, f[n]) ELSE f[l]]
  <2>2. \A l \in 0..(n + 1) : l = n + 1 \/ l \in 0..n
    OBVIOUS
  <2>3. n + 1 \in 0..(n + 1) /\ n \in 0..n /\ \A l \in 0..n : l \in 0..(n + 1) /\ l # n + 1
    OBVIOUS
  <2>4. g[n + 1] = next(n + 1, f[n]) /\ \A l \in 0..n : g[l] = f[l]
    BY <2>3
  <2>5. ASSUME NEW l \in 0..(n + 1)
        PROVE  g[l] = next(l, IF l = 0 THEN NoLevel ELSE g[l - 1])
    <3>1. CASE l = n + 1
      <4>1. l - 1 = n /\ l # 0
        BY <3>1
      <4> HIDE DEF g
      <4> QED
        BY <3>1, <4>1, <2>3, <2>4
    <3>2. CASE l \in 0..n
      <4>1. f[l] = next(l, IF l = 0 THEN NoLevel ELSE f[l - 1])
        BY <2>1, <3>2
      <4>2. l # 0 => l - 1 \in 0..n
        BY <3>2
      <4> HIDE DEF g
      <4> QED
        BY <2>4, <3>2, <4>1, <4>2
    <3> QED
      BY <2>2, <3>1, <3>2
  <2>6. Is(g, n + 1)
    BY <2>5
  <2> HIDE DEF Is, g
  <2>7. n + 1 \in Nat
    OBVIOUS
  <2> QED
    BY <2>6, <2>7
<1> HIDE DEF S
<1>4. m \in S
  BY <1>1, <1>2, <1>3, Induction
<1>5. level = CHOOSE f : Is(f, m)
  BY <1>1 DEF Updated, next
<1> HIDE DEF Is, level
<1>6. Is(level, m)
  BY <1>4, <1>5 DEF S
<1>7. DOMAIN level = Steps
      /\ \A l \in Steps : level[l] = next(l, IF l = 0 THEN NoLevel ELSE level[l - 1])
  BY <1>1, <1>6 DEF Is
<1> QED
  BY <1>7 DEF level, next

----------------------------------------------------------------------------
(* One level, and its update. *)

LevelFields == {"length", "size", "samples"}

(* A level has no samples but in its array. *)
LevelShape(v) ==
    /\ DOMAIN v = LevelFields /\ v.length \in Nat /\ v.size \in Nat
    /\ DOMAIN v.samples \subseteq 0..(v.size - 1)

EnvelopeShape(s) ==
    /\ DOMAIN s.envelope_levels = Probes
    /\ \A i \in Probes : /\ DOMAIN s.envelope_levels[i] = Steps
                         /\ \A l \in Steps : LevelShape(s.envelope_levels[i][l])

(* What the k-th sample of a level is computed from. *)
NewSample(s, i, l, below, k) ==
    IF l = 0 THEN Bytes(s, i, Block(k))
    ELSE UNION {below.samples[j] : j \in Block(k) \cap DOMAIN below.samples}

(* What an update makes of the members of a level. *)
LEMMA UpdatedFields ==
    ASSUME NEW s, NEW i, NEW header, NEW l, NEW below,
           DOMAIN s.envelope_levels[i][l] = LevelFields
    PROVE  LET v == UpdatedLevel(s, i, header, l, below)
               old == s.envelope_levels[i][l]
               len == (IF l = 0 THEN s.sample_count ELSE below.length) \div EnvelopeScaleFactor
               new == Kept(old.length, len, l = 0 /\ header)..(len - 1)
           IN  /\ DOMAIN v = LevelFields /\ v.length = len /\ v.size = old.size
               /\ DOMAIN v.samples = DOMAIN old.samples \cup new
               /\ \A k \in DOMAIN v.samples :
                     v.samples[k] = IF k \in new THEN NewSample(s, i, l, below, k)
                                                ELSE old.samples[k]
<1> DEFINE old == s.envelope_levels[i][l]
           len == (IF l = 0 THEN s.sample_count ELSE below.length) \div EnvelopeScaleFactor
           new == Kept(old.length, len, l = 0 /\ header)..(len - 1)
           samples == [k \in DOMAIN old.samples \cup new |->
                         IF k \in new THEN NewSample(s, i, l, below, k) ELSE old.samples[k]]
           v == UpdatedLevel(s, i, header, l, below)
<1>1. v = [old EXCEPT !.length = len, !.samples = samples]
  BY DEF UpdatedLevel, NewSample
<1>2. /\ DOMAIN samples = DOMAIN old.samples \cup new
      /\ \A k \in DOMAIN samples :
            samples[k] = IF k \in new THEN NewSample(s, i, l, below, k) ELSE old.samples[k]
  <2> HIDE DEF new, old
  <2> QED
    OBVIOUS
<1> HIDE DEF samples, len, v, old
<1>3. DOMAIN v = LevelFields /\ v.length = len /\ v.size = old.size /\ v.samples = samples
  BY <1>1 DEF LevelFields, old
<1> QED
  BY <1>2, <1>3 DEF v, len, old

(* Level by level, the length after an update is the number of whole blocks of
   the samples counted, the rest of the samples being too few for one more. *)
LEMMA UpdatedLengths ==
    ASSUME NEW s, NEW i, NEW header, s.sample_count \in Nat,
           \A l \in Steps : DOMAIN s.envelope_levels[i][l] = LevelFields
    PROVE  \A l \in Steps : /\ Updated(s, i, header)[l].length = s.sample_count \div Scale[l]
                            /\ s.sample_count \div Scale[l] \in Nat
<1> DEFINE level == Updated(s, i, header)
           n == s.sample_count
           S == {l \in Steps : level[l].length = n \div Scale[l] /\ n \div Scale[l] \in Nat}
<1>1. \A l \in Steps :
         level[l] = UpdatedLevel(s, i, header, l, IF l = 0 THEN NoLevel ELSE level[l - 1])
  BY UpdatedValues
<1> HIDE DEF level
<1>2. \A l \in Steps :
         level[l].length = (IF l = 0 THEN n ELSE level[l - 1].length) \div EnvelopeScaleFactor
  BY <1>1, UpdatedFields
<1>3. \A l \in Steps : Scale[l] \in Nat \ {0} /\ n \div Scale[l] \in Nat
  BY ScaleValues, DivMod
<1>4. 0 \in S
  <2>1. Scale[0] = EnvelopeScaleFactor
    BY ScaleValues, StepsAreNumbers, SnapshotAssumption
  <2> QED
    BY <1>2, <1>3, <2>1, StepsAreNumbers
<1>5. ASSUME NEW l \in Steps, l # 0, l - 1 \in S PROVE l \in S
  <2>1. Scale[l] = EnvelopeScaleFactor * Scale[l - 1] /\ l - 1 \in Steps
    BY <1>5, ScaleValues, StepsAreNumbers
  <2>2. level[l].length = (n \div Scale[l - 1]) \div EnvelopeScaleFactor
    BY <1>2, <1>5
  <2>3. (n \div Scale[l - 1]) \div EnvelopeScaleFactor = n \div (EnvelopeScaleFactor * Scale[l - 1])
    BY <1>3, <2>1, DivDiv, SnapshotAssumption
  <2> QED
    BY <1>3, <2>1, <2>2, <2>3
<1> HIDE DEF S
<1>6. Steps \subseteq S
  BY <1>4, <1>5, EveryLevel
<1> QED
  BY <1>6 DEF S, level

(* Rounding up gives no less. *)
LEMMA RoundUpBound ==
    ASSUME NEW n \in Nat
    PROVE  RoundUp(n) \in Nat /\ n <= RoundUp(n)
<1> DEFINE u == EnvelopeDataUnit
           a == n + u - 1
           q == a \div u
           r == a % u
<1>1. u \in Nat \ {0} /\ a \in Nat
  BY SnapshotAssumption
<1>2. q \in Nat /\ r \in Nat /\ r < u /\ a = q * u + r
  BY <1>1, DivMod
<1>3. q * u \in Nat
  BY <1>1, <1>2
<1>4. RoundUp(n) = q * u
  BY DEF RoundUp
<1> HIDE DEF q, r
<1>5. n <= q * u
  BY <1>1, <1>2, <1>3
<1> QED
  BY <1>3, <1>4, <1>5

(* The array allocated for a level has room for the whole blocks of as many
   samples as the buffer was allocated for. *)
LEMMA LengthsFit ==
    ASSUME NEW total \in Nat, NEW n \in Nat, n <= total
    PROVE  \A l \in Steps : n \div Scale[l] <= LevelSize(total)[l]
<1> DEFINE size == LevelSize(total)
           S == {l \in Steps : n \div Scale[l] <= size[l]}
           f == EnvelopeScaleFactor
<1>1. size \in [Steps -> Nat]
      /\ \A l \in Steps : size[l] = RoundUp((IF l = 0 THEN total ELSE size[l - 1]) \div f)
  BY LevelSizeValues
<1> HIDE DEF size
<1>2. f \in Nat \ {0}
  BY SnapshotAssumption
<1>3. ASSUME NEW a \in Nat, NEW b \in Nat, a <= b PROVE a \div f <= RoundUp(b \div f)
  <2>1. a \div f \in Nat /\ b \div f \in Nat /\ a \div f <= b \div f
    BY <1>2, <1>3, DivMod, DivMonotone
  <2>2. b \div f <= RoundUp(b \div f) /\ RoundUp(b \div f) \in Nat
    BY <2>1, RoundUpBound
  <2> QED
    BY <2>1, <2>2
<1>4. 0 \in S
  <2>1. Scale[0] = f
    BY ScaleValues, StepsAreNumbers, SnapshotAssumption
  <2>2. size[0] = RoundUp(total \div f)
    BY <1>1, StepsAreNumbers
  <2> QED
    BY <1>3, <2>1, <2>2, StepsAreNumbers
<1>5. ASSUME NEW l \in Steps, l # 0, l - 1 \in S PROVE l \in S
  <2>1. /\ Scale[l] = f * Scale[l - 1] /\ l - 1 \in Steps
        /\ size[l] = RoundUp(size[l - 1] \div f) /\ size[l - 1] \in Nat
    BY <1>1, <1>5, ScaleValues, StepsAreNumbers
  <2>2. Scale[l - 1] \in Nat \ {0} /\ n \div Scale[l - 1] \in Nat
    BY <2>1, ScaleValues, DivMod
  <2>3. (n \div Scale[l - 1]) \div f = n \div (f * Scale[l - 1])
    BY <1>2, <2>2, DivDiv
  <2>4. (n \div Scale[l - 1]) \div f <= RoundUp(size[l - 1] \div f)
    BY <1>3, <1>5, <2>1, <2>2
  <2> QED
    BY <2>1, <2>3, <2>4
<1> HIDE DEF S
<1>6. Steps \subseteq S
  BY <1>4, <1>5, EveryLevel
<1> QED
  BY <1>6 DEF S, size

----------------------------------------------------------------------------
(* Where the samples counted have room in every level, updating the envelope
   keeps it in its arrays, which stay as they are. *)
LEMMA EnvelopeUpdated ==
    ASSUME NEW s, NEW header, DOMAIN s = Members, EnvelopeShape(s),
           s.sample_count \in Nat,
           \A i \in Probes, l \in Steps :
              i < s.channel_num => s.sample_count \div Scale[l] <= s.envelope_levels[i][l].size
    PROVE  LET e == append_payload_to_envelope_levels(s, header)
           IN  /\ EnvelopeShape(e)
               /\ \A i \in Probes, l \in Steps :
                     e.envelope_levels[i][l].size = s.envelope_levels[i][l].size
               /\ e.fault \in {"overrun", s.fault}
<1> DEFINE len == s.sample_count \div EnvelopeScaleFactor
           levels == [i \in Probes |-> IF i < s.channel_num THEN Updated(s, i, header)
                                                            ELSE s.envelope_levels[i]]
           e == append_payload_to_envelope_levels(s, header)
           Kept0(v) == EnvelopeShape(v) /\ \A i \in Probes, l \in Steps :
                          v.envelope_levels[i][l].size = s.envelope_levels[i][l].size
<1>1. 0 \in Probes /\ 0 \in Steps
  BY StepsAreNumbers, SnapshotAssumption DEF Probes
<1>2. CASE len = 0
  <2>1. e = [s EXCEPT !.envelope_levels[0][0].length = 0]
    BY <1>2 DEF append_payload_to_envelope_levels
  <2> HIDE DEF e
  <2>2. e.fault = s.fault
    BY <2>1 DEF Members
  <2>3. e.envelope_levels = [s.envelope_levels EXCEPT ![0][0].length = 0]
    BY <2>1 DEF Members
  <2>4. ASSUME NEW i \in Probes, NEW l \in Steps
        PROVE  /\ DOMAIN e.envelope_levels = Probes /\ DOMAIN e.envelope_levels[i] = Steps
               /\ LevelShape(e.envelope_levels[i][l])
               /\ e.envelope_levels[i][l].size = s.envelope_levels[i][l].size
    BY <1>1, <2>3 DEF EnvelopeShape, LevelShape, LevelFields
  <2>5. Kept0(e)
    BY <1>1, <2>4 DEF EnvelopeShape
  <2> QED
    BY <2>2, <2>5 DEF e
<1>3. CASE len # 0
  <2>1. ASSUME NEW i \in Probes, i < s.channel_num
        PROVE  /\ DOMAIN Updated(s, i, header) = Steps
               /\ \A l \in Steps : /\ LevelShape(Updated(s, i, header)[l])
                                   /\ Updated(s, i, header)[l].size = s.envelope_levels[i][l].size
    <3> DEFINE level == Updated(s, i, header)
    <3>1. /\ DOMAIN level = Steps
          /\ \A l \in Steps : level[l] =
                UpdatedLevel(s, i, header, l, IF l = 0 THEN NoLevel ELSE level[l - 1])
      BY UpdatedValues
    <3>2. \A l \in Steps : LevelShape(s.envelope_levels[i][l])
      BY DEF EnvelopeShape
    <3>3. \A l \in Steps : level[l].length = s.sample_count \div Scale[l]
                           /\ s.sample_count \div Scale[l] \in Nat
      BY <3>2, UpdatedLengths DEF LevelShape
    <3> HIDE DEF level
    <3>4. ASSUME NEW l \in Steps
          PROVE  LevelShape(level[l]) /\ level[l].size = s.envelope_levels[i][l].size
      <4> DEFINE old == s.envelope_levels[i][l]
                 kept == Kept(old.length, level[l].length, l = 0 /\ header)
      <4>1. LevelShape(old) /\ level[l].length \in Nat /\ level[l].length <= old.size
        BY <2>1, <3>2, <3>3
      <4>2. /\ DOMAIN level[l] = LevelFields /\ level[l].size = old.size
            /\ DOMAIN level[l].samples = DOMAIN old.samples \cup (kept..(level[l].length - 1))
        <5> DEFINE below == IF l = 0 THEN NoLevel ELSE level[l - 1]
        <5>1. level[l] = UpdatedLevel(s, i, header, l, below)
          BY <3>1
        <5>2. DOMAIN old = LevelFields
          BY <4>1 DEF LevelShape
        <5> HIDE DEF below
        <5> QED
          BY <5>1, <5>2, UpdatedFields
      <4>3. kept \in Nat
        BY <4>1 DEF Kept, LevelShape
      <4> HIDE DEF kept, old
      <4>4. DOMAIN level[l].samples \subseteq 0..(old.size - 1)
        BY <4>1, <4>2, <4>3 DEF LevelShape
      <4>5. LevelShape(level[l]) /\ level[l].size = old.size
        BY <4>1, <4>2, <4>4 DEF LevelShape
      <4> QED
        BY <4>5 DEF old
    <3> QED
      BY <3>1, <3>4 DEF level
  <2>2. ASSUME NEW i \in Probes
        PROVE  /\ DOMAIN levels[i] = Steps
               /\ \A l \in Steps : /\ LevelShape(levels[i][l])
                                   /\ levels[i][l].size = s.envelope_levels[i][l].size
    BY <2>1 DEF EnvelopeShape
  <2>3. DOMAIN levels = Probes
    OBVIOUS
  <2> HIDE DEF levels
  <2>4. \A i \in Probes, l \in Steps :
           DOMAIN levels[i][l].samples \subseteq 0..(levels[i][l].size - 1)
    BY <2>2 DEF LevelShape
  <2>5. \E b \in BOOLEAN :
           e = [s EXCEPT !.envelope_levels = levels, !.envelope_done = TRUE,
                         !.fault = IF b THEN "overrun" ELSE s.fault]
    BY <1>3, <2>4 DEF append_payload_to_envelope_levels, levels
  <2> HIDE DEF e
  <2>6. e.envelope_levels = levels /\ e.fault \in {"overrun", s.fault}
    BY <2>5 DEF Members
  <2>7. Kept0(e)
    BY <2>2, <2>3, <2>6 DEF EnvelopeShape
  <2> QED
    BY <2>6, <2>7 DEF e
<1> QED
  BY <1>2, <1>3

----------------------------------------------------------------------------
(* Except where they are about to be replaced, the arrays have the sizes for
   the samples that the buffer has room for. *)
ArraysInv ==
    snap.data_size # 0 /\ feeder.at \notin {"malloc", "malloc_envelope"} =>
       \A i \in Probes, l \in Steps : i < snap.channel_num =>
          snap.envelope_levels[i][l].size = LevelSize(snap.total_sample_count)[l]

EnvelopeInv == EnvelopeShape(snap) /\ ArraysInv /\ EnvelopeFits

(* No samples are no whole blocks. *)
LEMMA NoBlocks == \A l \in Steps : 0 \div Scale[l] = 0
<1> TAKE l \in Steps
<1>1. Scale[l] \in Nat \ {0}
  BY ScaleValues
<1> DEFINE b == Scale[l]
<1>2. b \in Nat \ {0} /\ 0 = 0 * b + 0 /\ 0 < b
  BY <1>1
<1> HIDE DEF b
<1>3. 0 \div b = 0
  BY <1>2, QuotientUnique
<1> QED
  BY <1>3 DEF b

(* The samples counted have room in every level, at every step. *)
LEMMA RoomForSamples ==
    ASSUME SampleInv, EnvelopeInv
    PROVE  \A i \in Probes, l \in Steps : i < snap.channel_num =>
              snap.sample_count \div Scale[l] <= snap.envelope_levels[i][l].size
<1> TAKE i \in Probes, l \in Steps
<1> SUFFICES ASSUME i < snap.channel_num
             PROVE  snap.sample_count \div Scale[l] <= snap.envelope_levels[i][l].size
  OBVIOUS
<1>1. CASE snap.sample_count = 0
  <2>1. snap.envelope_levels[i][l].size \in Nat
    BY DEF EnvelopeInv, EnvelopeShape, LevelShape
  <2> QED
    BY <1>1, <2>1, NoBlocks
<1>2. CASE snap.sample_count # 0
  <2>1. snap.data_size # 0 /\ feeder.at \notin {"malloc", "malloc_envelope"}
    BY <1>2 DEF SampleInv, BufferInv, CaptureInv
  <2>2. snap.envelope_levels[i][l].size = LevelSize(snap.total_sample_count)[l]
    BY <2>1 DEF EnvelopeInv, ArraysInv
  <2>3. snap.sample_count \in Nat /\ snap.total_sample_count \in Nat
        /\ snap.sample_count <= snap.total_sample_count
    BY DEF SampleInv, MembersInv, BufferInv
  <2> QED
    BY <2>2, <2>3, LengthsFit
<1> QED
  BY <1>1, <1>2

(* And so have those counted after a packet. *)
LEMMA RoomForPacket ==
    ASSUME SampleInv, EnvelopeInv, feeder.at = "append", snap.data_size # 0
    PROVE  LET stored == append_data(snap, feeder.n)
           IN  /\ DOMAIN stored = Members /\ stored.sample_count \in Nat
               /\ stored.envelope_levels = snap.envelope_levels /\ stored.fault = snap.fault
               /\ EnvelopeShape(stored)
               /\ \A i \in Probes, l \in Steps : i < stored.channel_num =>
                     stored.sample_count \div Scale[l] <= stored.envelope_levels[i][l].size
<1> DEFINE stored == append_data(snap, feeder.n)
<1>1. /\ DOMAIN stored = Members /\ stored.sample_count \in Nat
      /\ stored.channel_num = snap.channel_num
      /\ stored.total_sample_count = snap.total_sample_count
      /\ stored.sample_count <= stored.total_sample_count
  BY PacketFits DEF MembersInv
<1>2. stored.envelope_levels = snap.envelope_levels /\ stored.fault = snap.fault
  <2> DEFINE start == IF snap.instant THEN snap.sample_count ELSE 0
             written == (start * snap.channel_num)..
                          (start * snap.channel_num + feeder.n * snap.channel_num - 1)
             filled == [p \in DOMAIN snap.data \cup written |->
                          IF p \in written THEN packets + 1 ELSE snap.data[p]]
  <2>1. stored = [snap EXCEPT !.data = filled, !.sample_count = start + feeder.n]
    BY PacketStored
  <2>2. DOMAIN snap = Members
    BY DEF SampleInv, MembersInv
  <2> HIDE DEF stored, filled, start
  <2> QED
    BY <2>1, <2>2 DEF Members
<1> HIDE DEF stored
<1>3. EnvelopeShape(stored)
  BY <1>2 DEF EnvelopeInv, EnvelopeShape
<1>4. snap.total_sample_count \in Nat
  BY DEF SampleInv, MembersInv
<1>5. ASSUME NEW i \in Probes, NEW l \in Steps, i < stored.channel_num
      PROVE  stored.sample_count \div Scale[l] <= stored.envelope_levels[i][l].size
  <2>1. stored.envelope_levels[i][l].size = LevelSize(snap.total_sample_count)[l]
    BY <1>1, <1>2, <1>5 DEF EnvelopeInv, ArraysInv
  <2> QED
    BY <1>1, <1>4, <2>1, LengthsFit
<1> QED
  BY <1>1, <1>2, <1>3, <1>5 DEF stored

(* A snapshot starts without an envelope. *)
LEMMA NoLevelShape ==
    /\ LevelShape(NoLevel)
    /\ \A n \in Nat : LevelShape([NoLevel EXCEPT !.size = n])
                      /\ [NoLevel EXCEPT !.size = n].size = n
                      /\ [NoLevel EXCEPT !.size = n].length = 0
BY DEF LevelShape, LevelFields, NoLevel, NothingYet

(* There is no envelope at the start. *)
LEMMA EnvelopeInit == Init => EnvelopeInv
<1> SUFFICES ASSUME Init PROVE EnvelopeInv
  OBVIOUS
<1>1. snap.envelope_levels = NoLevels /\ snap.fault = "none" /\ snap.data_size = 0
  BY DEF Init, NewSnapshot
<1> QED
  BY <1>1, NoLevelShape DEF EnvelopeInv, EnvelopeShape, ArraysInv, EnvelopeFits, NoLevels

(* init() and free_envelop() keep the shape of the envelope. *)
LEMMA ShapeKept ==
    ASSUME NEW s, DOMAIN s = Members, EnvelopeShape(s)
    PROVE  /\ EnvelopeShape(init(s)) /\ EnvelopeShape(free_envelop(s))
           /\ DOMAIN init(s) = Members /\ DOMAIN free_envelop(s) = Members
           /\ \A i \in Probes, l \in Steps :
                /\ init(s).envelope_levels[i][l].size = s.envelope_levels[i][l].size
                /\ i < s.channel_num => init(s).envelope_levels[i][l].length = 0
<1> DEFINE levels == [i \in Probes |-> [l \in Steps |->
                        IF i < s.channel_num
                          THEN [s.envelope_levels[i][l] EXCEPT !.length = 0]
                          ELSE s.envelope_levels[i][l]]]
<1>1. /\ DOMAIN init(s) = Members /\ init(s).envelope_levels = levels
      /\ DOMAIN free_envelop(s) = Members /\ free_envelop(s).envelope_levels = NoLevels
  BY DEF init, free_envelop, Members
<1>2. EnvelopeShape(free_envelop(s))
  BY <1>1, NoLevelShape DEF EnvelopeShape, NoLevels
<1>3. ASSUME NEW i \in Probes, NEW l \in Steps
      PROVE  /\ LevelShape(levels[i][l])
             /\ levels[i][l].size = s.envelope_levels[i][l].size
             /\ i < s.channel_num => levels[i][l].length = 0
  <2>1. LevelShape(s.envelope_levels[i][l])
    BY DEF EnvelopeShape
  <2> QED
    BY <2>1 DEF LevelShape, LevelFields
<1>4. DOMAIN levels = Probes /\ \A i \in Probes : DOMAIN levels[i] = Steps
  OBVIOUS
<1> HIDE DEF levels
<1> QED
  BY <1>1, <1>2, <1>3, <1>4 DEF EnvelopeShape

(* A packet that is stored leaves the sizes as they are, also if it fails. *)
LEMMA PacketKeepsShape ==
    ASSUME SampleInv, feeder.at = "append"
    PROVE  LET stored == append_data(snap, feeder.n)
               summed == IF snap.envelope_en
                           THEN append_payload_to_envelope_levels(stored, feeder.toggled)
                           ELSE stored
               last == IF feeder.n = 0 THEN snap
                       ELSE IF stored.fault # "none" THEN stored ELSE summed
           IN  /\ last.data_size = snap.data_size /\ last.channel_num = snap.channel_num
               /\ last.total_sample_count = snap.total_sample_count
               /\ last.instant = snap.instant
<1> DEFINE stored == append_data(snap, feeder.n)
           summed == IF snap.envelope_en
                       THEN append_payload_to_envelope_levels(stored, feeder.toggled)
                       ELSE stored
           Same(s) == /\ s.data_size = snap.data_size /\ s.channel_num = snap.channel_num
                      /\ s.total_sample_count = snap.total_sample_count
                      /\ s.instant = snap.instant
<1>1. Same(stored) /\ MembersInv(stored) /\ stored.fault # "overrun"
      /\ stored.sample_count * stored.channel_num <= stored.data_size
  BY PacketFits, StoredInBuffer
<1> HIDE DEF stored
<1>2. Same(summed)
  BY <1>1, EnvelopeKeepsSamples
<1>3. Same(snap)
  OBVIOUS
<1> HIDE DEF Same, summed
<1>4. Same(IF feeder.n = 0 THEN snap ELSE IF stored.fault # "none" THEN stored ELSE summed)
  BY <1>1, <1>2, <1>3
<1> QED
  BY <1>4 DEF Same, summed, stored

(* Steps that leave the envelope, its buffer and their sizes as they are. *)
LEMMA EnvelopeUntouched ==
    ASSUME EnvelopeInv, KeepsShape, snap'.envelope_levels = snap.envelope_levels,
           snap'.fault = snap.fault,
           feeder'.at \notin {"malloc", "malloc_envelope"} =>
              feeder.at \notin {"malloc", "malloc_envelope"}
    PROVE  EnvelopeInv'
BY DEF EnvelopeInv, EnvelopeShape, ArraysInv, EnvelopeFits, KeepsShape

(* However the two threads replace, empty and fill the snapshot, the envelope
   stays in its arrays. *)
LEMMA EnvelopeNext == SampleInv /\ EnvelopeInv /\ [Next]_vars => EnvelopeInv'
<1> SUFFICES ASSUME SampleInv, EnvelopeInv, [Next]_vars PROVE EnvelopeInv'
  OBVIOUS
<1>0. /\ FeederInv /\ CaptureInv /\ DOMAIN snap = Members
      /\ EnvelopeShape(snap) /\ ArraysInv /\ snap.fault # "envelope_overrun"
      /\ snap.total_sample_count \in Nat
  BY DEF SampleInv, MembersInv, EnvelopeInv, EnvelopeFits
<1>1. ASSUME NEW c \in Configs, StartCapture(c) PROVE EnvelopeInv'
  <2>1. snap' = init(snap) /\ feeder' = feeder
    BY <1>1 DEF StartCapture
  <2>2. /\ snap'.data_size = snap.data_size /\ snap'.channel_num = snap.channel_num
        /\ snap'.total_sample_count = snap.total_sample_count /\ snap'.fault = snap.fault
    BY <1>0, <2>1 DEF init, Members
  <2> QED
    BY <1>0, <2>1, <2>2, ShapeKept DEF EnvelopeInv, EnvelopeShape, ArraysInv, EnvelopeFits
<1>2. ASSUME EndCapture PROVE EnvelopeInv'
  <2>1. /\ KeepsShape /\ snap'.envelope_levels = snap.envelope_levels
        /\ snap'.fault = snap.fault /\ feeder' = feeder
    BY <1>0, <1>2 DEF EndCapture, KeepsShape, Members
  <2> QED
    BY <2>1, EnvelopeUntouched
<1>3. ASSUME Clear PROVE EnvelopeInv'
  <2> DEFINE f == free_data(snap)
  <2>1. /\ DOMAIN f = Members /\ f.envelope_levels = snap.envelope_levels
        /\ f.fault = snap.fault /\ f.data_size = 0
    BY <1>0 DEF free_data, Members
  <2>2. snap' = init(free_envelop(f)) /\ feeder' = feeder
    BY <1>3 DEF Clear, clear
  <2> HIDE DEF f
  <2>3. EnvelopeShape(f)
    BY <1>0, <2>1 DEF EnvelopeShape
  <2>4. EnvelopeShape(free_envelop(f)) /\ DOMAIN free_envelop(f) = Members
    BY <2>1, <2>3, ShapeKept
  <2>5. EnvelopeShape(init(free_envelop(f)))
    BY <2>4, ShapeKept
  <2>6. snap'.fault = snap.fault /\ snap'.data_size = 0
    BY <2>1, <2>2 DEF init, free_envelop, Members
  <2> QED
    BY <1>0, <2>2, <2>5, <2>6 DEF EnvelopeInv, EnvelopeShape, ArraysInv, EnvelopeFits
<1>4. ASSUME NEW enable \in BOOLEAN, EnableEnvelope(enable) PROVE EnvelopeInv'
  <2> DEFINE e == IF ~snap.envelope_done /\ enable
                    THEN append_payload_to_envelope_levels(snap, TRUE) ELSE snap
  <2>1. MembersInv(snap) /\ snap.fault # "overrun" /\ snap.sample_count \in Nat
        /\ snap.sample_count * snap.channel_num <= snap.data_size
    BY CountedInBuffer DEF SampleInv, SamplesFit, MembersInv
  <2>2. /\ DOMAIN e = Members /\ e.fault # "overrun"
        /\ e.data_size = snap.data_size /\ e.channel_num = snap.channel_num
        /\ e.total_sample_count = snap.total_sample_count
    BY <2>1, EnvelopeKeepsSamples DEF MembersInv
  <2>3. /\ EnvelopeShape(e) /\ e.fault \in {"overrun", snap.fault}
        /\ \A i \in Probes, l \in Steps :
              e.envelope_levels[i][l].size = snap.envelope_levels[i][l].size
    BY <1>0, <2>1, RoomForSamples, EnvelopeUpdated
  <2>4. snap' = [e EXCEPT !.envelope_en = enable] /\ feeder' = feeder
    BY <1>4 DEF EnableEnvelope
  <2> HIDE DEF e
  <2>5. /\ snap'.envelope_levels = e.envelope_levels /\ snap'.fault = e.fault
        /\ snap'.data_size = snap.data_size /\ snap'.channel_num = snap.channel_num
        /\ snap'.total_sample_count = snap.total_sample_count
    BY <2>2, <2>4 DEF Members
  <2> QED
    BY <1>0, <2>2, <2>3, <2>4, <2>5 DEF EnvelopeInv, EnvelopeShape, ArraysInv, EnvelopeFits
<1>5. ASSUME NEW n \in 0..config.limit, NEW toggled \in BOOLEAN, FeedDso(n, toggled)
      PROVE  EnvelopeInv'
  BY <1>5, EnvelopeUntouched DEF FeedDso, Idle, KeepsShape
<1>6. ASSUME FirstPayload PROVE EnvelopeInv'
  <2>1. /\ feeder.at = "first"
        /\ feeder' = [feeder EXCEPT !.at = IF Realloc THEN "malloc" ELSE "append"]
        /\ snap'.envelope_levels = snap.envelope_levels /\ snap'.fault = snap.fault
        /\ snap'.data_size = snap.data_size /\ snap'.total_sample_count = config.limit
        /\ snap'.channel_num = Cardinality(config.ch_enable)
    BY <1>0, <1>6 DEF FirstPayload, Goto, Members
  <2>2. Realloc => feeder'.at = "malloc"
    BY <1>0, <2>1 DEF FeederInv
  <2>3. ~Realloc => /\ config.limit = snap.total_sample_count
                    /\ Cardinality(config.ch_enable) = snap.channel_num
    BY DEF Realloc
  <2> QED
    BY <1>0, <2>1, <2>2, <2>3 DEF EnvelopeInv, EnvelopeShape, ArraysInv, EnvelopeFits
<1>7. ASSUME AllocateData \/ AllocateDataFails PROVE EnvelopeInv'
  <2>1. LET f == free_data(snap)
        IN  /\ DOMAIN f = Members /\ f.envelope_levels = snap.envelope_levels
            /\ f.fault = snap.fault /\ f.data_size = 0
    BY <1>0 DEF free_data, Members
  <2>2. /\ snap'.envelope_levels = snap.envelope_levels /\ snap'.fault = snap.fault
        /\ AllocateData => feeder'.at = "malloc_envelope"
        /\ AllocateDataFails => snap'.data_size = 0
    BY <1>0, <1>7, <2>1 DEF AllocateData, AllocateDataFails, Goto, Members, FeederInv
  <2> QED
    BY <1>0, <1>7, <2>2 DEF EnvelopeInv, EnvelopeShape, ArraysInv, EnvelopeFits
<1>8. ASSUME AllocateEnvelope PROVE EnvelopeInv'
  <2> DEFINE size == LevelSize(snap.total_sample_count)
             levels == [i \in Probes |-> [l \in Steps |->
                          IF i < snap.channel_num THEN [NoLevel EXCEPT !.size = size[l]]
                                                  ELSE NoLevel]]
  <2>1. \A l \in Steps : size[l] \in Nat
    BY <1>0, LevelSizeValues
  <2>2. /\ snap'.envelope_levels = levels /\ snap'.fault = snap.fault
        /\ snap'.channel_num = snap.channel_num
        /\ snap'.total_sample_count = snap.total_sample_count
    BY <1>0, <1>8 DEF AllocateEnvelope, Members
  <2> HIDE DEF size
  <2>3. DOMAIN levels = Probes
        /\ \A i \in Probes : /\ DOMAIN levels[i] = Steps
                             /\ \A l \in Steps : /\ LevelShape(levels[i][l])
                                                 /\ i < snap.channel_num => levels[i][l].size = size[l]
    BY <2>1, NoLevelShape
  <2> HIDE DEF levels
  <2> QED
    BY <1>0, <2>2, <2>3 DEF EnvelopeInv, EnvelopeShape, ArraysInv, EnvelopeFits, size
<1>9. ASSUME AllocateEnvelopeFails PROVE EnvelopeInv'
  <2> DEFINE f == free_data(snap)
  <2>1. /\ DOMAIN f = Members /\ f.envelope_levels = snap.envelope_levels
        /\ f.fault = snap.fault /\ f.data_size = 0
    BY <1>0 DEF free_data, Members
  <2>2. snap' = [free_envelop(f) EXCEPT !.memory_failed = TRUE]
    BY <1>9 DEF AllocateEnvelopeFails
  <2> HIDE DEF f
  <2>3. EnvelopeShape(f)
    BY <1>0, <2>1 DEF EnvelopeShape
  <2>4. EnvelopeShape(free_envelop(f)) /\ DOMAIN free_envelop(f) = Members
        /\ free_envelop(f).fault = snap.fault /\ free_envelop(f).data_size = 0
    BY <2>1, <2>3, ShapeKept DEF free_envelop, Members
  <2>5. /\ snap'.envelope_levels = free_envelop(f).envelope_levels
        /\ snap'.fault = snap.fault /\ snap'.data_size = 0
    BY <2>2, <2>4 DEF Members
  <2> QED
    BY <1>0, <2>4, <2>5 DEF EnvelopeInv, EnvelopeShape, ArraysInv, EnvelopeFits
<1>10. ASSUME AppendPayload PROVE EnvelopeInv'
  <2> DEFINE stored == append_data(snap, feeder.n)
             summed == IF snap.envelope_en
                         THEN append_payload_to_envelope_levels(stored, feeder.toggled)
                         ELSE stored
             last == IF feeder.n = 0 THEN snap
                     ELSE IF stored.fault # "none" THEN stored ELSE summed
  <2>1. /\ feeder.at = "append" /\ snap' = [last EXCEPT !.last_ended = FALSE] /\ Alive
    BY <1>10 DEF AppendPayload
  <2> DEFINE Fine(s) ==
               /\ DOMAIN s = Members /\ EnvelopeShape(s) /\ s.fault # "envelope_overrun"
               /\ \A i \in Probes, l \in Steps :
                     s.envelope_levels[i][l].size = snap.envelope_levels[i][l].size
  <2>2. Fine(snap)
    BY <1>0
  <2>3. snap.data_size # 0 => Fine(stored) /\ Fine(summed)
    <3> SUFFICES ASSUME snap.data_size # 0 PROVE Fine(stored) /\ Fine(summed)
      OBVIOUS
    <3>1. /\ DOMAIN stored = Members /\ stored.sample_count \in Nat
          /\ stored.envelope_levels = snap.envelope_levels /\ stored.fault = snap.fault
          /\ EnvelopeShape(stored)
          /\ \A i \in Probes, l \in Steps : i < stored.channel_num =>
                stored.sample_count \div Scale[l] <= stored.envelope_levels[i][l].size
      BY <2>1, RoomForPacket
    <3>2. /\ MembersInv(stored) /\ stored.fault # "overrun"
          /\ stored.sample_count * stored.channel_num <= stored.data_size
      BY <2>1, PacketFits, StoredInBuffer
    <3> HIDE DEF stored
    <3>3. DOMAIN summed = Members
      BY <3>1, <3>2, EnvelopeKeepsSamples DEF MembersInv
    <3>4. /\ EnvelopeShape(summed) /\ summed.fault \in {"overrun", stored.fault}
          /\ \A i \in Probes, l \in Steps :
                summed.envelope_levels[i][l].size = stored.envelope_levels[i][l].size
      BY <3>1, EnvelopeUpdated
    <3> QED
      BY <1>0, <3>1, <3>3, <3>4
  <2>4. snap.data_size = 0 => stored = [snap EXCEPT !.fault = "null_data"]
    BY DEF append_data
  <2>5. snap.data_size = 0 => Fine(last)
    <3>1. snap.data_size = 0 => Fine([snap EXCEPT !.fault = "null_data"])
                                /\ [snap EXCEPT !.fault = "null_data"].fault = "null_data"
      BY <1>0 DEF Members, EnvelopeShape
    <3> HIDE DEF Fine, summed, stored
    <3> QED
      BY <2>2, <2>4, <3>1
  <2>6. Fine(last)
    <3> HIDE DEF Fine, summed, stored
    <3> QED
      BY <2>2, <2>3, <2>5
  <2> HIDE DEF last
  <2>7. /\ snap'.envelope_levels = last.envelope_levels /\ snap'.fault = last.fault
    BY <2>1, <2>6 DEF Members
  <2>8. KeepsShape
    <3>1. /\ last.data_size = snap.data_size /\ last.channel_num = snap.channel_num
          /\ last.total_sample_count = snap.total_sample_count /\ last.instant = snap.instant
      BY <2>1, PacketKeepsShape DEF last
    <3> QED
      BY <2>1, <2>6, <3>1 DEF Members, KeepsShape
  <2> QED
    BY <1>0, <2>1, <2>6, <2>7, <2>8
       DEF EnvelopeInv, EnvelopeShape, ArraysInv, EnvelopeFits, KeepsShape
<1>11. CASE UNCHANGED vars
  BY <1>11, EnvelopeUntouched DEF vars, KeepsShape
<1> QED
  BY <1>1, <1>2, <1>3, <1>4, <1>5, <1>6, <1>7, <1>8, <1>9, <1>10, <1>11 DEF Next

(* However captures of different limits, channels and modes, failed allocations,
   clears and switches of the envelope follow each other: no envelope sample is
   written outside its array, though the arrays are sized from the limit of one
   capture and filled from the lengths of another's packets. *)
THEOREM SnapshotEnvelopeFits == Spec => []EnvelopeFits
<1>1. Spec => []EnvelopeInv
  BY EnvelopeInit, EnvelopeNext, SnapshotInvariant, PTL DEF Spec
<1>2. EnvelopeInv => EnvelopeFits
  BY DEF EnvelopeInv
<1> QED
  BY <1>1, <1>2, PTL

----------------------------------------------------------------------------
(* What is left of the types. *)

Faults == {"none", "null_data", "overrun", "envelope_overrun"}

BoundsInv ==
    /\ DOMAIN snap.data \subseteq 0..(snap.data_size - 1)
    /\ snap.channel_num <= ProbeCount /\ snap.total_sample_count \in Limits \cup {1}
    /\ snap.fault \in Faults /\ steady \in BOOLEAN
    /\ packets <= MaxPackets /\ (feeder.at # "idle" => packets < MaxPackets)

(* The channels of a packet are at most the probes. *)
LEMMA ChannelsAreProbes ==
    ASSUME NEW c \in Configs
    PROVE  Cardinality(c.ch_enable) <= ProbeCount
<1> DEFINE last == ProbeCount - 1
<1>1. 0 \in Int /\ last \in Int /\ 0 <= last /\ Probes = 0..last /\ last - 0 + 1 = ProbeCount
  BY SnapshotAssumption DEF Probes
<1> HIDE DEF last
<1>2. IsFiniteSet(Probes) /\ Cardinality(Probes) = ProbeCount
  BY <1>1, FS_Interval
<1>3. c.ch_enable \in SUBSET Probes
  BY DEF Configs
<1> QED
  BY <1>2, <1>3, FS_Subset

(* The bounds hold at the start. *)
LEMMA BoundsInit == Init => BoundsInv
<1> SUFFICES ASSUME Init PROVE BoundsInv
  OBVIOUS
<1>1. /\ snap.data = NothingYet /\ snap.data_size = 0 /\ snap.channel_num = 1
      /\ snap.total_sample_count = 1 /\ snap.fault = "none"
  BY DEF Init, NewSnapshot
<1> QED
  BY <1>1, SnapshotAssumption DEF Init, BoundsInv, Faults, NothingYet, Idle

(* Every step keeps the bounds. *)
LEMMA BoundsNext ==
    SampleInv /\ HeldInv /\ EnvelopeInv /\ BoundsInv /\ [Next]_vars => BoundsInv'
<1> SUFFICES ASSUME SampleInv, HeldInv, EnvelopeInv, BoundsInv, [Next]_vars PROVE BoundsInv'
  OBVIOUS
<1> DEFINE Bounded(s) ==
             /\ DOMAIN s.data \subseteq 0..(s.data_size - 1)
             /\ s.channel_num <= ProbeCount /\ s.total_sample_count \in Limits \cup {1}
             /\ s.fault \in Faults
<1>0. /\ FeederInv /\ CaptureInv /\ MembersInv(snap) /\ DOMAIN snap = Members
      /\ EnvelopeShape(snap) /\ Bounded(snap) /\ steady \in BOOLEAN /\ packets \in Nat
      /\ packets <= MaxPackets /\ (feeder.at # "idle" => packets < MaxPackets)
  BY DEF SampleInv, MembersInv, EnvelopeInv, BoundsInv, HeldInv
<1> HIDE DEF Bounded
<1>a. ASSUME Bounded(snap)', feeder' = feeder, packets' = packets, steady' \in BOOLEAN
      PROVE  BoundsInv'
  BY <1>0, <1>a DEF BoundsInv, Bounded
<1>b. ASSUME NEW s, DOMAIN s = Members, Bounded(s)
      PROVE  LET f == free_data(s)
             IN  DOMAIN f = Members /\ Bounded(f) /\ DOMAIN f.data = {}
  BY <1>b DEF free_data, Members, Bounded, NothingYet
<1>1. ASSUME NEW c \in Configs, StartCapture(c) PROVE BoundsInv'
  <2>1. snap' = init(snap) /\ feeder' = feeder /\ packets' = packets /\ steady' = TRUE
    BY <1>1 DEF StartCapture
  <2>2. Bounded(init(snap))
    BY <1>0 DEF init, Members, Bounded
  <2> QED
    BY <1>a, <2>1, <2>2 DEF Bounded
<1>2. ASSUME EndCapture PROVE BoundsInv'
  <2>1. feeder' = feeder /\ packets' = packets /\ steady' = steady
    BY <1>2 DEF EndCapture
  <2>2. Bounded(snap)'
    BY <1>0, <1>2 DEF EndCapture, Members, Bounded
  <2> QED
    BY <1>0, <1>a, <2>1, <2>2
<1>3. ASSUME Clear PROVE BoundsInv'
  <2>1. snap' = clear(snap) /\ feeder' = feeder /\ packets' = packets /\ steady' = steady
    BY <1>3 DEF Clear, captureVars
  <2> DEFINE f == free_data(snap)
  <2>2. DOMAIN f = Members /\ Bounded(f)
    BY <1>0, <1>b
  <2>3. clear(snap) = init(free_envelop(f))
    BY DEF clear
  <2> HIDE DEF f
  <2>4. Bounded(clear(snap))
    BY <2>2, <2>3 DEF init, free_envelop, Members, Bounded
  <2> QED
    BY <1>0, <1>a, <2>1, <2>4 DEF Bounded
<1>4. ASSUME NEW enable \in BOOLEAN, EnableEnvelope(enable) PROVE BoundsInv'
  <2> DEFINE e == IF ~snap.envelope_done /\ enable
                    THEN append_payload_to_envelope_levels(snap, TRUE) ELSE snap
  <2>1. snap.fault # "overrun" /\ snap.sample_count \in Nat
        /\ snap.sample_count * snap.channel_num <= snap.data_size
    BY <1>0, CountedInBuffer DEF SampleInv, SamplesFit, MembersInv
  <2>2. /\ DOMAIN e = Members /\ e.data = snap.data
        /\ e.data_size = snap.data_size /\ e.channel_num = snap.channel_num
        /\ e.total_sample_count = snap.total_sample_count
    BY <1>0, <2>1, EnvelopeKeepsSamples DEF MembersInv
  <2>3. e.fault \in {"overrun", snap.fault}
    BY <1>0, <2>1, RoomForSamples, EnvelopeUpdated
  <2>4. snap' = [e EXCEPT !.envelope_en = enable] /\ feeder' = feeder
        /\ packets' = packets /\ steady' = steady
    BY <1>4 DEF EnableEnvelope, captureVars
  <2> HIDE DEF e
  <2>5. Bounded(snap)'
    BY <1>0, <2>2, <2>3, <2>4 DEF Members, Bounded, Faults
  <2> QED
    BY <1>0, <1>a, <2>4, <2>5
<1>5. ASSUME NEW n \in 0..config.limit, NEW toggled \in BOOLEAN, FeedDso(n, toggled)
      PROVE  BoundsInv'
  BY <1>0, <1>5 DEF FeedDso, captureVars, BoundsInv, Bounded
<1>6. ASSUME FirstPayload PROVE BoundsInv'
  <2>1. /\ feeder.at = "first" /\ packets' = packets /\ steady' = steady
        /\ snap'.data = snap.data /\ snap'.data_size = snap.data_size
        /\ snap'.fault = snap.fault /\ snap'.total_sample_count = config.limit
        /\ snap'.channel_num = Cardinality(config.ch_enable)
    BY <1>0, <1>6 DEF FirstPayload, captureVars, Members
  <2>2. config.limit \in Limits /\ Cardinality(config.ch_enable) <= ProbeCount
    BY <1>0, PacketChannels, ChannelsAreProbes DEF FeederInv
  <2> QED
    BY <1>0, <2>1, <2>2 DEF BoundsInv, Bounded
<1>7. ASSUME AllocateData \/ AllocateDataFails \/ AllocateEnvelopeFails PROVE BoundsInv'
  <2>1. feeder.at # "idle" /\ packets' = packets /\ steady' = steady
    BY <1>7 DEF AllocateData, AllocateDataFails, AllocateEnvelopeFails, captureVars
  <2> DEFINE f == free_data(snap)
  <2>2. DOMAIN f = Members /\ Bounded(f) /\ DOMAIN f.data = {}
    BY <1>0, <1>b
  <2> HIDE DEF f
  <2>3. \E size, capacity, levels, failed :
           snap' = [f EXCEPT !.data_size = size, !.capacity = capacity,
                             !.envelope_levels = levels, !.memory_failed = failed]
    <3>1. CASE AllocateData
      <4>1. snap' = [f EXCEPT !.data_size = NewSize]
        BY <3>1 DEF AllocateData, f
      <4>2. snap' = [f EXCEPT !.data_size = NewSize, !.capacity = f.capacity,
                              !.envelope_levels = f.envelope_levels,
                              !.memory_failed = f.memory_failed]
        BY <2>2, <4>1 DEF Members
      <4> QED
        BY <4>2
    <3>2. CASE AllocateDataFails
      <4>1. snap' = [f EXCEPT !.capacity = NewSize]
        BY <3>2 DEF AllocateDataFails, f
      <4>2. snap' = [f EXCEPT !.data_size = f.data_size, !.capacity = NewSize,
                              !.envelope_levels = f.envelope_levels,
                              !.memory_failed = f.memory_failed]
        BY <2>2, <4>1 DEF Members
      <4> QED
        BY <4>2
    <3>3. CASE AllocateEnvelopeFails
      <4>1. snap' = [free_envelop(f) EXCEPT !.memory_failed = TRUE]
        BY <3>3 DEF AllocateEnvelopeFails, f
      <4>2. snap' = [f EXCEPT !.data_size = f.data_size, !.capacity = f.capacity,
                              !.envelope_levels = NoLevels, !.memory_failed = TRUE]
        BY <2>2, <4>1 DEF free_envelop, Members
      <4> QED
        BY <4>2
    <3> QED
      BY <1>7, <3>1, <3>2, <3>3
  <2>4. Bounded(snap)'
    BY <2>2, <2>3 DEF Members, Bounded
  <2> QED
    BY <1>0, <2>1, <2>4 DEF BoundsInv, Bounded
<1>8. ASSUME AllocateEnvelope PROVE BoundsInv'
  <2>1. feeder.at # "idle" /\ packets' = packets /\ steady' = steady
    BY <1>8 DEF AllocateEnvelope, captureVars
  <2>2. /\ snap'.data = snap.data /\ snap'.data_size = snap.data_size
        /\ snap'.fault = snap.fault /\ snap'.channel_num = snap.channel_num
        /\ snap'.total_sample_count = snap.total_sample_count
    BY <1>0, <1>8 DEF AllocateEnvelope, Members
  <2> QED
    BY <1>0, <2>1, <2>2 DEF BoundsInv, Bounded
<1>9. ASSUME AppendPayload PROVE BoundsInv'
  <2> DEFINE n == feeder.n
             stored == append_data(snap, n)
             summed == IF snap.envelope_en
                         THEN append_payload_to_envelope_levels(stored, feeder.toggled)
                         ELSE stored
             last == IF n = 0 THEN snap
                     ELSE IF stored.fault # "none" THEN stored ELSE summed
  <2>1. /\ feeder.at = "append" /\ snap' = [last EXCEPT !.last_ended = FALSE]
        /\ feeder'.at = "idle" /\ packets' = packets + 1
    BY <1>9 DEF AppendPayload, Idle
  <2>2. steady' \in BOOLEAN
    BY <1>0, <1>9 DEF AppendPayload
  <2>3. packets' <= MaxPackets
    BY <1>0, <2>1, SnapshotAssumption
  <2>4. snap.data_size # 0 => /\ DOMAIN stored = Members /\ Bounded(stored)
                              /\ DOMAIN summed = Members /\ Bounded(summed)
    <3> SUFFICES ASSUME snap.data_size # 0
                 PROVE  /\ DOMAIN stored = Members /\ Bounded(stored)
                        /\ DOMAIN summed = Members /\ Bounded(summed)
      OBVIOUS
    <3> DEFINE c == snap.channel_num
               start == IF snap.instant THEN snap.sample_count ELSE 0
               written == (start * c)..(start * c + n * c - 1)
               filled == [p \in DOMAIN snap.data \cup written |->
                            IF p \in written THEN packets + 1 ELSE snap.data[p]]
    <3>1. /\ n \in Nat /\ c \in Nat \ {0} /\ start \in Nat
          /\ stored = [snap EXCEPT !.data = filled, !.sample_count = start + n]
      BY <2>1, PacketStored
    <3>2. /\ MembersInv(stored) /\ stored.fault # "overrun"
          /\ stored.data_size = snap.data_size /\ stored.channel_num = c
          /\ stored.total_sample_count = snap.total_sample_count
          /\ stored.sample_count * stored.channel_num <= stored.data_size
      BY <2>1, PacketFits, StoredInBuffer
    <3>3. DOMAIN filled = DOMAIN snap.data \cup written
      OBVIOUS
    <3>4. written \subseteq 0..(snap.data_size - 1)
      <4>1. start * c + n * c = (start + n) * c /\ start * c \in Nat /\ n * c \in Nat
        BY <3>1
      <4> HIDE DEF filled, stored, start
      <4>2. stored.sample_count = start + n
        BY <1>0, <3>1 DEF Members
      <4> DEFINE a == start * c
                 b == n * c
      <4>3. a \in Nat /\ b \in Nat /\ a + b <= snap.data_size /\ snap.data_size \in Nat
            /\ written = a..(a + b - 1)
        BY <1>0, <3>2, <4>1, <4>2 DEF MembersInv
      <4> HIDE DEF a, b, written
      <4> QED
        BY <4>3
    <3> HIDE DEF filled, written, start
    <3>5. DOMAIN stored = Members /\ stored.data = filled /\ stored.fault = snap.fault
      <4> HIDE DEF stored
      <4> QED
        BY <1>0, <3>1 DEF Members
    <3>6. Bounded(stored)
      <4> HIDE DEF stored
      <4> QED
        BY <1>0, <3>2, <3>3, <3>4, <3>5 DEF Bounded
    <3>7. /\ EnvelopeShape(stored) /\ stored.sample_count \in Nat
          /\ \A i \in Probes, l \in Steps : i < stored.channel_num =>
                stored.sample_count \div Scale[l] <= stored.envelope_levels[i][l].size
      BY <2>1, RoomForPacket
    <3> HIDE DEF stored
    <3>8. /\ DOMAIN summed = Members /\ summed.data = stored.data
          /\ summed.data_size = stored.data_size /\ summed.channel_num = stored.channel_num
          /\ summed.total_sample_count = stored.total_sample_count
      BY <3>2, <3>5, EnvelopeKeepsSamples DEF MembersInv
    <3>9. summed.fault \in {"overrun", stored.fault}
      BY <3>5, <3>7, EnvelopeUpdated
    <3> HIDE DEF summed
    <3>10. Bounded(summed)
      BY <3>6, <3>8, <3>9 DEF Bounded, Faults
    <3> QED
      BY <3>5, <3>6, <3>8, <3>10
  <2>5. snap.data_size = 0 =>
           stored = [snap EXCEPT !.fault = "null_data"]
           /\ stored.fault # "none" /\ DOMAIN stored = Members /\ Bounded(stored)
    <3> HIDE DEF Bounded
    <3>1. snap.data_size = 0 => stored = [snap EXCEPT !.fault = "null_data"]
      BY DEF append_data
    <3>2. /\ Bounded([snap EXCEPT !.fault = "null_data"])
          /\ DOMAIN [snap EXCEPT !.fault = "null_data"] = Members
          /\ [snap EXCEPT !.fault = "null_data"].fault = "null_data"
      BY <1>0 DEF Members, Bounded, Faults
    <3> HIDE DEF stored
    <3> QED
      BY <3>1, <3>2
  <2>6. DOMAIN last = Members /\ Bounded(last)
    <3> HIDE DEF summed, stored
    <3> QED
      BY <1>0, <2>4, <2>5
  <2> HIDE DEF last
  <2>7. Bounded(snap)'
    BY <2>1, <2>6 DEF Members, Bounded
  <2> QED
    BY <2>1, <2>2, <2>3, <2>7 DEF BoundsInv, Bounded
<1>10. CASE UNCHANGED vars
  BY <1>10 DEF vars, BoundsInv
<1> QED
  BY <1>1, <1>2, <1>3, <1>4, <1>5, <1>6, <1>7, <1>8, <1>9, <1>10 DEF Next

(* The snapshot's types: in particular, what is stored is within the buffer,
   and the samples counted within the limit of the capture they are of. *)
THEOREM SnapshotTypeOK == Spec => []TypeOK
<1>1. Spec => [](SampleInv /\ HeldInv /\ EnvelopeInv /\ BoundsInv)
  BY SampleInit, SampleNext, HeldInit, HeldNext, EnvelopeInit, EnvelopeNext,
     BoundsInit, BoundsNext, PTL DEF Spec
<1>2. ASSUME SampleInv, HeldInv, EnvelopeInv, BoundsInv PROVE TypeOK
  <2>1. snap.channel_num \in Nat \ {0} /\ snap.sample_count \in Nat
        /\ snap.total_sample_count \in Nat /\ snap.sample_count <= snap.total_sample_count
    BY <1>2 DEF SampleInv, MembersInv, BufferInv
  <2>2. snap.channel_num \in 1..ProbeCount
    BY <1>2, <2>1, SnapshotAssumption DEF BoundsInv
  <2>3. snap.sample_count \in 0..snap.total_sample_count
    BY <2>1
  <2>4. \A i \in Probes, l \in Steps : snap.envelope_levels[i][l].length \in Nat
    BY <1>2 DEF EnvelopeInv, EnvelopeShape, LevelShape
  <2> QED
    BY <1>2, <2>2, <2>3, <2>4 DEF TypeOK, SampleInv, FeederInv, HeldInv, BoundsInv, Faults
<1> QED
  BY <1>1, <1>2, PTL

----------------------------------------------------------------------------
(* What the levels show. The k-th sample of level l stands for the bytes of as
   many samples as the level's scale; v shows the first n if it has them so. *)
SampleAt(s, i, l, k) == Bytes(s, i, (k * Scale[l])..((k + 1) * Scale[l] - 1))

Shows(v, s, i, l, n) ==
    \A k \in 0..(n - 1) : k \in DOMAIN v.samples /\ v.samples[k] = SampleAt(s, i, l, k)

(* Positions in blocks of f blocks of z are those of a block of f * z. *)
LEMMA BlocksInBlock ==
    ASSUME NEW k \in Nat, NEW f \in Nat \ {0}, NEW z \in Nat \ {0}, NEW p
    PROVE  p \in (k * (f * z))..((k + 1) * (f * z) - 1)
             <=> \E j \in (k * f)..((k + 1) * f - 1) : p \in (j * z)..((j + 1) * z - 1)
<1>1. k * (f * z) = (k * f) * z /\ (k + 1) * (f * z) = ((k + 1) * f) * z
  OBVIOUS
<1> DEFINE a == k * f
           b == (k + 1) * f
<1>2. a \in Nat /\ b \in Nat
  OBVIOUS
<1> HIDE DEF a, b
<1>3. ASSUME p \in (a * z)..(b * z - 1)
      PROVE  \E j \in a..(b - 1) : p \in (j * z)..((j + 1) * z - 1)
  <2>1. a * z \in Nat /\ b * z \in Nat /\ p \in Nat /\ a * z <= p /\ p < b * z
    BY <1>2, <1>3
  <2> DEFINE j == p \div z
             r == p % z
  <2>2. j \in Nat /\ r \in Nat /\ r < z /\ p = j * z + r
    BY <2>1, DivMod
  <2> HIDE DEF j, r
  <2>3. j * z \in Nat /\ (j + 1) * z = j * z + z
    BY <2>2
  <2>4. ~(j < a)
    <3>1. j < a => j * z + z <= a * z
      BY <1>2, <2>2, CancelFactor
    <3> QED
      BY <2>1, <2>2, <2>3, <3>1
  <2>5. ~(b <= j)
    <3>1. b <= j => b * z <= j * z
      BY <1>2, <2>2, CancelFactor
    <3> QED
      BY <2>1, <2>2, <2>3, <3>1
  <2>6. j \in a..(b - 1)
    BY <1>2, <2>2, <2>4, <2>5
  <2>7. p \in (j * z)..((j + 1) * z - 1)
    BY <2>1, <2>2, <2>3
  <2> QED
    BY <2>6, <2>7
<1>4. ASSUME NEW j \in a..(b - 1), p \in (j * z)..((j + 1) * z - 1)
      PROVE  p \in (a * z)..(b * z - 1)
  <2>1. j \in Nat /\ a <= j /\ j + 1 <= b
    BY <1>2
  <2>2. a * z <= j * z /\ a * z \in Nat /\ j * z \in Nat
    BY <1>2, <2>1, CancelFactor
  <2> DEFINE i == j + 1
  <2>3. i \in Nat /\ i <= b
    BY <2>1
  <2> HIDE DEF i
  <2>4. i * z <= b * z /\ i * z \in Nat /\ b * z \in Nat
    BY <1>2, <2>3, CancelFactor
  <2>5. p \in (j * z)..(i * z - 1)
    BY <1>4 DEF i
  <2> QED
    BY <2>2, <2>4, <2>5
<1> QED
  BY <1>1, <1>3, <1>4 DEF a, b

(* So a sample stands for what the block of samples below it stand for. *)
LEMMA SampleOfSamples ==
    ASSUME NEW s, NEW i, NEW l \in Steps, l # 0, NEW k \in Nat
    PROVE  UNION {SampleAt(s, i, l - 1, j) : j \in Block(k)} = SampleAt(s, i, l, k)
<1> DEFINE f == EnvelopeScaleFactor
           z == Scale[l - 1]
<1>1. Scale[l] = f * z /\ z \in Nat \ {0} /\ f \in Nat \ {0}
  BY ScaleValues, StepsAreNumbers, SnapshotAssumption
<1>2. Block(k) = (k * f)..((k + 1) * f - 1)
  BY DEF Block
<1> HIDE DEF f, z
<1>3. \A p : p \in (k * (f * z))..((k + 1) * (f * z) - 1)
               <=> \E j \in Block(k) : p \in (j * z)..((j + 1) * z - 1)
  BY <1>1, <1>2, BlocksInBlock
<1>4. \A j : SampleAt(s, i, l - 1, j)
               = {Byte(s, p * s.channel_num + i) : p \in (j * z)..((j + 1) * z - 1)}
  BY DEF SampleAt, Bytes, z
<1>5. SampleAt(s, i, l, k)
        = {Byte(s, p * s.channel_num + i) : p \in (k * (f * z))..((k + 1) * (f * z) - 1)}
  BY <1>1 DEF SampleAt, Bytes
<1> QED
  BY <1>3, <1>4, <1>5

(* Dividing by a level's scale is dividing what is below it by a block. *)
LEMMA ScaledCounts ==
    ASSUME NEW n \in Nat
    PROVE  \A l \in Steps :
              /\ n \div Scale[l] \in Nat
              /\ n \div Scale[l] = (IF l = 0 THEN n ELSE n \div Scale[l - 1])
                                      \div EnvelopeScaleFactor
<1>1. \A l \in Steps : Scale[l] \in Nat \ {0} /\ n \div Scale[l] \in Nat
  BY ScaleValues, DivMod
<1>2. Scale[0] = EnvelopeScaleFactor
  BY ScaleValues, StepsAreNumbers, SnapshotAssumption
<1>3. ASSUME NEW l \in Steps, l # 0
      PROVE  n \div Scale[l] = (n \div Scale[l - 1]) \div EnvelopeScaleFactor
  <2>1. Scale[l] = EnvelopeScaleFactor * Scale[l - 1] /\ Scale[l - 1] \in Nat \ {0}
    BY <1>1, <1>3, ScaleValues, StepsAreNumbers
  <2> QED
    BY <2>1, DivDiv, SnapshotAssumption
<1> QED
  BY <1>1, <1>2, <1>3

(* A level can be updated if it is empty, if it is as long as it will be, and
   is computed anew, or if what it has is right. *)
Updatable(s, i, l) ==
    LET old == s.envelope_levels[i][l]
    IN  old.length \in {0, s.sample_count \div Scale[l]} \/ Shows(old, s, i, l, old.length)

(* After its update a channel's levels show the samples counted. *)
LEMMA UpdatedShows ==
    ASSUME NEW s, NEW i, NEW header, s.sample_count \in Nat,
           \A l \in Steps : LevelShape(s.envelope_levels[i][l]) /\ Updatable(s, i, l)
    PROVE  \A l \in Steps :
              Shows(Updated(s, i, header)[l], s, i, l, s.sample_count \div Scale[l])
<1> DEFINE level == Updated(s, i, header)
           n == s.sample_count
           f == EnvelopeScaleFactor
           S == {l \in Steps : Shows(level[l], s, i, l, n \div Scale[l])}
<1>1. \A l \in Steps : DOMAIN s.envelope_levels[i][l] = LevelFields
  BY DEF LevelShape
<1>2. \A l \in Steps : level[l].length = n \div Scale[l] /\ n \div Scale[l] \in Nat
  BY <1>1, UpdatedLengths
<1>3. \A l \in Steps :
         level[l] = UpdatedLevel(s, i, header, l, IF l = 0 THEN NoLevel ELSE level[l - 1])
  BY UpdatedValues
<1>4. f \in Nat \ {0}
  BY SnapshotAssumption
<1> HIDE DEF level, f
<1>5. ASSUME NEW l \in Steps, NEW below, below = IF l = 0 THEN NoLevel ELSE level[l - 1],
             NEW k \in 0..(n \div Scale[l] - 1),
             l = 0 => Bytes(s, i, Block(k)) = SampleAt(s, i, l, k),
             l # 0 => UNION {below.samples[j] : j \in Block(k) \cap DOMAIN below.samples}
                         = SampleAt(s, i, l, k)
      PROVE  k \in DOMAIN level[l].samples /\ level[l].samples[k] = SampleAt(s, i, l, k)
  <2> DEFINE v == level[l]
             old == s.envelope_levels[i][l]
             len == (IF l = 0 THEN s.sample_count ELSE below.length) \div EnvelopeScaleFactor
             new == Kept(old.length, len, l = 0 /\ header)..(len - 1)
             sample == NewSample(s, i, l, below, k)
  <2>1. v = UpdatedLevel(s, i, header, l, below) /\ DOMAIN old = LevelFields
    BY <1>1, <1>3, <1>5
  <2>2. /\ v.length = len /\ DOMAIN v.samples = DOMAIN old.samples \cup new
        /\ k \in DOMAIN v.samples =>
             v.samples[k] = IF k \in new THEN sample ELSE old.samples[k]
    BY <2>1, UpdatedFields
  <2>3. sample = SampleAt(s, i, l, k)
    BY <1>5 DEF NewSample
  <2>4. len = n \div Scale[l] /\ len \in Nat /\ k \in 0..(len - 1)
    BY <1>2, <2>2
  <2> HIDE DEF v, sample, len
  <2>5. k \notin new => k \in DOMAIN old.samples /\ old.samples[k] = SampleAt(s, i, l, k)
    <3> SUFFICES ASSUME k \notin new
                 PROVE  k \in DOMAIN old.samples /\ old.samples[k] = SampleAt(s, i, l, k)
      OBVIOUS
    <3>1. old.length \in Nat /\ Updatable(s, i, l)
      BY DEF LevelShape
    <3> DEFINE kept == Kept(old.length, len, l = 0 /\ header)
    <3>2. k \notin kept..(len - 1)
      OBVIOUS
    <3>3. kept \in {0, old.length} /\ (len = old.length => kept = 0)
      BY DEF Kept
    <3> HIDE DEF kept, old
    <3>4. k < kept
      BY <2>4, <3>1, <3>2, <3>3
    <3>5. kept = old.length /\ old.length # 0 /\ old.length # len /\ k \in 0..(old.length - 1)
      BY <2>4, <3>1, <3>3, <3>4
    <3>6. Shows(old, s, i, l, old.length)
      BY <2>4, <3>1, <3>5 DEF Updatable, old
    <3> QED
      BY <3>5, <3>6 DEF Shows
  <2> HIDE DEF new, old
  <2> QED
    BY <2>2, <2>3, <2>5 DEF v
<1>6. 0 \in S
  <2>1. Scale[0] = f
    BY ScaleValues, StepsAreNumbers, SnapshotAssumption DEF f
  <2>2. \A k : Bytes(s, i, Block(k)) = SampleAt(s, i, 0, k)
    BY <2>1 DEF Block, SampleAt, f
  <2>3. \A k \in 0..(n \div Scale[0] - 1) :
           k \in DOMAIN level[0].samples /\ level[0].samples[k] = SampleAt(s, i, 0, k)
    BY <1>5, <2>2, StepsAreNumbers
  <2> QED
    BY <2>3, StepsAreNumbers DEF Shows
<1>7. ASSUME NEW l \in Steps, l # 0, l - 1 \in S PROVE l \in S
  <2> DEFINE below == level[l - 1]
             m == n \div Scale[l - 1]
  <2>1. l - 1 \in Steps /\ m \in Nat /\ n \div Scale[l] = m \div f
    BY <1>7, StepsAreNumbers, ScaledCounts DEF f
  <2>2. \A j \in 0..(m - 1) :
           j \in DOMAIN below.samples /\ below.samples[j] = SampleAt(s, i, l - 1, j)
    BY <1>7 DEF Shows
  <2>3. ASSUME NEW k \in 0..(n \div Scale[l] - 1)
        PROVE  k \in DOMAIN level[l].samples /\ level[l].samples[k] = SampleAt(s, i, l, k)
    <3> HIDE DEF below, m
    <3>1. k \in Nat /\ k + 1 <= m \div f /\ m \div f \in Nat
      BY <1>2, <2>1, <2>3
    <3>2. (k + 1) * f <= (m \div f) * f /\ (m \div f) * f <= m
      <4>1. (m \div f) * f <= m
        BY <1>4, <2>1, WholeBlocks
      <4> DEFINE a == k + 1
                 b == m \div f
      <4>2. a \in Nat /\ b \in Nat /\ a <= b
        BY <3>1
      <4> HIDE DEF a, b
      <4>3. a * f <= b * f
        BY <1>4, <4>2, CancelFactor
      <4> QED
        BY <4>1, <4>3 DEF a, b
    <3>3. Block(k) \subseteq 0..(m - 1)
      <4>1. k * f \in Nat /\ (k + 1) * f \in Nat /\ (k + 1) * f <= m
        <5>1. (m \div f) * f \in Nat
          BY <1>4, <3>1
        <5> QED
          BY <1>4, <2>1, <3>1, <3>2, <5>1
      <4> DEFINE a == k * f
                 b == (k + 1) * f
      <4>2. Block(k) = a..(b - 1)
        BY DEF Block, f
      <4>3. a \in Nat /\ b \in Nat /\ b <= m
        BY <4>1
      <4> HIDE DEF a, b
      <4> QED
        BY <2>1, <4>2, <4>3
    <3>4. \A j \in Block(k) :
             j \in DOMAIN below.samples /\ below.samples[j] = SampleAt(s, i, l - 1, j)
      BY <2>2, <3>3
    <3>5. {below.samples[j] : j \in Block(k) \cap DOMAIN below.samples}
            = {SampleAt(s, i, l - 1, j) : j \in Block(k)}
      BY <3>4
    <3>6. UNION {below.samples[j] : j \in Block(k) \cap DOMAIN below.samples}
            = SampleAt(s, i, l, k)
      BY <1>7, <3>1, <3>5, SampleOfSamples
    <3>7. below = IF l = 0 THEN NoLevel ELSE level[l - 1]
      BY <1>7 DEF below
    <3> QED
      BY <1>5, <1>7, <3>6, <3>7
  <2> QED
    BY <2>3 DEF Shows
<1> HIDE DEF S
<1>8. Steps \subseteq S
  BY <1>6, <1>7, EveryLevel
<1> QED
  BY <1>8 DEF S, level

----------------------------------------------------------------------------
(* While a capture runs whose data the envelope can follow, a level of it is
   right as far as it goes, in an instant capture, whose samples stay where
   they are; in a repetitive one, whose every packet replaces them, it is empty
   or as long as it is going to be. *)
LevelHeld(s, i, l) ==
    LET v == s.envelope_levels[i][l]
        count == s.sample_count \div Scale[l]
    IN  IF config.instant THEN v.length <= count /\ Shows(v, s, i, l, v.length)
                          ELSE v.length \in {0, count}

AllHeld(s) == \A i \in Probes, l \in Steps : i < s.channel_num => LevelHeld(s, i, l)

LevelsInv ==
    Alive /\ capturing /\ snap.data_size # 0 /\ (config.instant \/ steady)
      /\ feeder.at \notin {"malloc", "malloc_envelope"} => AllHeld(snap)

(* Snapshots with the same samples have the same bytes. *)
LEMMA SameSamples ==
    ASSUME NEW s, NEW t, t.data = s.data, t.channel_num = s.channel_num
    PROVE  /\ \A i, l, k : SampleAt(t, i, l, k) = SampleAt(s, i, l, k)
           /\ \A v, i, l, n : Shows(v, t, i, l, n) <=> Shows(v, s, i, l, n)
BY DEF SampleAt, Bytes, Byte, Shows

(* An empty level is held. *)
LEMMA EmptyIsHeld ==
    ASSUME NEW s, NEW i, NEW l \in Steps, s.sample_count \in Nat,
           s.envelope_levels[i][l].length = 0
    PROVE  LevelHeld(s, i, l)
<1>1. s.sample_count \div Scale[l] \in Nat
  BY ScaledCounts
<1>2. \A v : Shows(v, s, i, l, 0)
  BY DEF Shows
<1> QED
  BY <1>1, <1>2 DEF LevelHeld

(* A level that is held can be updated. *)
LEMMA HeldIsUpdatable ==
    ASSUME NEW s, NEW i, NEW l, LevelHeld(s, i, l)
    PROVE  Updatable(s, i, l)
BY DEF LevelHeld, Updatable

(* After an update of the envelope every level is held, and what readers get of
   it is the envelope of the samples counted. *)
LEMMA UpdateFollowsData ==
    ASSUME NEW s, NEW header, DOMAIN s = Members, EnvelopeShape(s),
           s.sample_count \in Nat, s.channel_num \in Nat, s.channel_num <= ProbeCount,
           AllHeld(s)
    PROVE  LET e == append_payload_to_envelope_levels(s, header)
           IN  AllHeld(e) /\ \A l \in Steps : LevelFollowsData(e, l)
<1> DEFINE n == s.sample_count
           c == s.channel_num
           len == n \div EnvelopeScaleFactor
           levels == [i \in Probes |-> IF i < c THEN Updated(s, i, header)
                                                ELSE s.envelope_levels[i]]
           e == append_payload_to_envelope_levels(s, header)
<1>1. \A l \in Steps : n \div Scale[l] \in Nat
  BY ScaledCounts
<1>2. \A i \in 0..(c - 1) : i \in Probes /\ i < c
  BY SnapshotAssumption DEF Probes
<1>3. 0 \in Probes /\ 0 \in Steps
  BY StepsAreNumbers, SnapshotAssumption DEF Probes
<1>4. CASE len = 0
  <2>1. e = [s EXCEPT !.envelope_levels[0][0].length = 0]
    BY <1>4 DEF append_payload_to_envelope_levels
  <2> HIDE DEF e
  <2>2. /\ e.data = s.data /\ e.channel_num = c /\ e.sample_count = n
        /\ e.envelope_levels = [s.envelope_levels EXCEPT ![0][0].length = 0]
    BY <2>1 DEF Members
  <2>3. \A l \in Steps : n \div Scale[l] = 0
    <3> DEFINE S == {l \in Steps : n \div Scale[l] = 0}
    <3>1. \A l \in Steps : n \div Scale[l] = (IF l = 0 THEN n ELSE n \div Scale[l - 1])
                                                \div EnvelopeScaleFactor
      BY ScaledCounts
    <3>2. 0 \in S
      BY <1>3, <1>4, <3>1
    <3>3. 0 \div EnvelopeScaleFactor = 0
      <4> DEFINE b == EnvelopeScaleFactor
      <4>1. b \in Nat \ {0} /\ 0 = 0 * b + 0 /\ 0 < b
        BY SnapshotAssumption
      <4> HIDE DEF b
      <4>2. 0 \div b = 0
        BY <4>1, QuotientUnique
      <4> QED
        BY <4>2 DEF b
    <3>4. \A l \in Steps : l # 0 /\ l - 1 \in S => l \in S
      BY <3>1, <3>3
    <3> HIDE DEF S
    <3>5. Steps \subseteq S
      BY <3>2, <3>4, EveryLevel
    <3> QED
      BY <3>5 DEF S
  <2>4. ASSUME NEW i \in Probes, NEW l \in Steps, i < c
        PROVE  e.envelope_levels[i][l].length = 0
    <3>1. LevelHeld(s, i, l) /\ s.envelope_levels[i][l].length \in Nat
      BY <2>4 DEF AllHeld, EnvelopeShape, LevelShape
    <3>2. s.envelope_levels[i][l].length = 0
      BY <2>3, <3>1 DEF LevelHeld
    <3>3. DOMAIN s.envelope_levels = Probes /\ DOMAIN s.envelope_levels[0] = Steps
          /\ DOMAIN s.envelope_levels[0][0] = LevelFields
      BY <1>3 DEF EnvelopeShape, LevelShape
    <3> QED
      BY <1>3, <2>2, <3>2, <3>3 DEF LevelFields
  <2>5. AllHeld(e)
    BY <2>2, <2>4, EmptyIsHeld DEF AllHeld
  <2>6. ASSUME NEW l \in Steps PROVE LevelFollowsData(e, l)
    <3>1. 0..(e.sample_count \div Scale[l] - 1) = {}
      BY <2>2, <2>3
    <3>2. \A i \in 0..(c - 1) : get_envelope_section(e, e.sample_count, i, l) = NothingYet
      BY <1>2, <2>4 DEF get_envelope_section
    <3> QED
      BY <2>2, <3>1, <3>2 DEF LevelFollowsData, NothingYet
  <2> QED
    BY <2>5, <2>6 DEF e
<1>5. CASE len # 0
  <2>1. \E fault : e = [s EXCEPT !.envelope_levels = levels, !.envelope_done = TRUE,
                                 !.fault = fault]
    BY <1>5 DEF append_payload_to_envelope_levels
  <2> HIDE DEF e, levels
  <2>2. /\ e.data = s.data /\ e.channel_num = c /\ e.sample_count = n
        /\ e.envelope_levels = levels /\ e.envelope_done
    BY <2>1 DEF Members
  <2>3. ASSUME NEW i \in Probes, NEW l \in Steps, i < c
        PROVE  LET v == e.envelope_levels[i][l]
               IN  v.length = n \div Scale[l] /\ Shows(v, e, i, l, n \div Scale[l])
    <3>1. \A k \in Steps : LevelShape(s.envelope_levels[i][k]) /\ Updatable(s, i, k)
      BY <2>3, HeldIsUpdatable DEF AllHeld, EnvelopeShape
    <3>2. e.envelope_levels[i] = Updated(s, i, header)
      BY <2>2, <2>3 DEF levels
    <3>3. Updated(s, i, header)[l].length = n \div Scale[l]
      BY <3>1, UpdatedLengths DEF LevelShape
    <3>4. Shows(Updated(s, i, header)[l], s, i, l, n \div Scale[l])
      BY <3>1, UpdatedShows
    <3> QED
      BY <2>2, <3>2, <3>3, <3>4, SameSamples
  <2>4. AllHeld(e)
    <3> SUFFICES ASSUME NEW i \in Probes, NEW l \in Steps, i < c PROVE LevelHeld(e, i, l)
      BY <2>2 DEF AllHeld
    <3> QED
      BY <1>1, <2>2, <2>3 DEF LevelHeld
  <2>5. ASSUME NEW l \in Steps PROVE LevelFollowsData(e, l)
    <3> DEFINE m == n \div Scale[l]
    <3>1. m \in Nat
      BY <1>1
    <3>2. ASSUME NEW i \in 0..(c - 1)
          PROVE  get_envelope_section(e, n, i, l) = [k \in 0..(m - 1) |-> SampleAt(e, i, l, k)]
      <4> DEFINE v == e.envelope_levels[i][l]
      <4>1. v.length = m /\ Shows(v, e, i, l, m)
        BY <1>2, <2>3
      <4>2. CASE m = 0
        <5>1. 0..(m - 1) = {}
          BY <4>2
        <5> HIDE DEF m, v
        <5>2. get_envelope_section(e, n, i, l) = NothingYet
          BY <4>1, <4>2 DEF get_envelope_section, v
        <5> QED
          BY <5>1, <5>2 DEF NothingYet
      <4>3. CASE m # 0
        <5>1. get_envelope_section(e, n, i, l)
                = [k \in 0..(m - 1) |-> IF k \in DOMAIN v.samples THEN v.samples[k] ELSE {}]
          BY <2>2, <4>1, <4>3 DEF get_envelope_section
        <5>2. \A k \in 0..(m - 1) :
                 (IF k \in DOMAIN v.samples THEN v.samples[k] ELSE {}) = SampleAt(e, i, l, k)
          BY <4>1 DEF Shows
        <5> HIDE DEF m, v
        <5> QED
          BY <5>1, <5>2
      <4> QED
        BY <4>2, <4>3
    <3>3. \A i : [k \in 0..(m - 1) |-> SampleAt(e, i, l, k)]
                   = [k \in 0..(m - 1) |-> Bytes(e, i, (k * Scale[l])..((k + 1) * Scale[l] - 1))]
      BY DEF SampleAt
    <3> QED
      BY <2>2, <3>2, <3>3 DEF LevelFollowsData
  <2> QED
    BY <2>4, <2>5 DEF e
<1> QED
  BY <1>4, <1>5

(* A packet behind the samples counted leaves theirs as they are. *)
LEMMA PacketKeepsSamples ==
    ASSUME SampleInv, feeder.at = "append", snap.data_size # 0, snap.instant,
           NEW i \in Nat, i < snap.channel_num,
           NEW l \in Steps, NEW k \in 0..(snap.sample_count \div Scale[l] - 1)
    PROVE  SampleAt(append_data(snap, feeder.n), i, l, k) = SampleAt(snap, i, l, k)
<1> DEFINE n == feeder.n
           c == snap.channel_num
           count == snap.sample_count
           written == (count * c)..(count * c + n * c - 1)
           filled == [p \in DOMAIN snap.data \cup written |->
                        IF p \in written THEN packets + 1 ELSE snap.data[p]]
           stored == append_data(snap, n)
           z == Scale[l]
<1>1. n \in Nat /\ c \in Nat \ {0} /\ count \in Nat
      /\ stored = [snap EXCEPT !.data = filled, !.sample_count = count + n]
  BY PacketStored
<1>2. DOMAIN snap = Members
  BY DEF SampleInv, MembersInv
<1> HIDE DEF filled, stored, written
<1>3. stored.data = filled /\ stored.channel_num = c
  BY <1>1, <1>2 DEF Members
<1>4. ASSUME NEW q \in Nat, q < count * c PROVE Byte(stored, q) = Byte(snap, q)
  <2> DEFINE a == count * c
             b == n * c
  <2>1. a \in Nat /\ b \in Nat /\ q < a
    BY <1>1, <1>4
  <2>2. written = a..(a + b - 1)
    BY DEF written
  <2> HIDE DEF a, b
  <2>3. q \notin written
    BY <2>1, <2>2
  <2>4. (q \in DOMAIN filled <=> q \in DOMAIN snap.data)
        /\ (q \in DOMAIN filled => filled[q] = snap.data[q])
    BY <2>3 DEF filled
  <2> QED
    BY <1>3, <2>4 DEF Byte
<1>5. z \in Nat \ {0} /\ (count \div z) * z <= count /\ count \div z \in Nat
  BY <1>1, ScaleValues, WholeBlocks
<1> HIDE DEF z, count, c
<1>6. k \in Nat /\ k * z \in Nat /\ (k + 1) * z <= count /\ (k + 1) * z \in Nat
  <2> DEFINE a == k + 1
             b == count \div z
  <2>1. k \in Nat /\ a \in Nat /\ b \in Nat /\ a <= b
    BY <1>5 DEF count, z
  <2> HIDE DEF a, b
  <2>2. a * z <= b * z /\ a * z \in Nat /\ b * z \in Nat
    BY <1>5, <2>1, CancelFactor
  <2>3. a * z <= count
    BY <1>1, <1>5, <2>2 DEF b
  <2> QED
    BY <1>5, <2>1, <2>2, <2>3 DEF a
<1>7. ASSUME NEW p \in (k * z)..((k + 1) * z - 1)
      PROVE  Byte(stored, p * c + i) = Byte(snap, p * c + i)
  <2>1. p \in Nat /\ p + 1 <= count
    BY <1>1, <1>6
  <2>2. p * c + 1 * c <= count * c /\ p * c \in Nat /\ count * c \in Nat
    BY <1>1, <2>1, InterleavedFit
  <2>3. p * c + i \in Nat /\ p * c + i < count * c
    BY <1>1, <2>2 DEF c
  <2> QED
    BY <1>4, <2>3
<1> QED
  BY <1>3, <1>7 DEF SampleAt, Bytes, stored, z, c

(* A packet that is stored leaves the levels held, those of a repetitive
   capture because the packet is as long as the one before. *)
LEMMA PacketKeepsLevels ==
    ASSUME SampleInv, HeldInv, EnvelopeInv, LevelsInv, feeder.at = "append", Alive,
           snap.data_size # 0, config.instant \/ (steady /\ received \in {0, feeder.n})
    PROVE  AllHeld(append_data(snap, feeder.n))
<1> DEFINE n == feeder.n
           count == snap.sample_count
           stored == append_data(snap, n)
<1>1. /\ capturing /\ snap.instant = config.instant
      /\ received = count /\ count \in Nat /\ n \in Nat /\ snap.channel_num \in Nat
  BY DEF SampleInv, CaptureInv, HeldInv, MembersInv, FeederInv
<1>2. AllHeld(snap)
  BY <1>1 DEF LevelsInv
<1>3. /\ stored.channel_num = snap.channel_num
      /\ stored.sample_count = IF config.instant THEN count + n ELSE n
      /\ stored.envelope_levels = snap.envelope_levels
  BY <1>1, PacketHeld, RoomForPacket
<1>4. EnvelopeShape(snap)
  BY DEF EnvelopeInv
<1> SUFFICES ASSUME NEW i \in Probes, NEW l \in Steps, i < snap.channel_num
             PROVE  LevelHeld(stored, i, l)
  <2> HIDE DEF stored
  <2>1. AllHeld(stored)
    BY <1>3 DEF AllHeld
  <2> QED
    BY <2>1 DEF stored
<1> HIDE DEF stored
<1> DEFINE v == snap.envelope_levels[i][l]
<1>5. v.length \in Nat /\ LevelHeld(snap, i, l) /\ i \in Nat
  BY <1>2, <1>4 DEF AllHeld, EnvelopeShape, LevelShape, Probes
<1>6. CASE config.instant
  <2>1. v.length <= count \div Scale[l] /\ Shows(v, snap, i, l, v.length)
    BY <1>5, <1>6 DEF LevelHeld
  <2>2. /\ count \div Scale[l] \in Nat /\ (count + n) \div Scale[l] \in Nat
        /\ count \div Scale[l] <= (count + n) \div Scale[l]
    <3>1. count + n \in Nat /\ count <= count + n /\ Scale[l] \in Nat \ {0}
      BY <1>1, ScaleValues
    <3> QED
      BY <1>1, <3>1, DivMonotone, ScaledCounts
  <2> HIDE DEF v
  <2>3. ASSUME NEW k \in 0..(v.length - 1)
        PROVE  SampleAt(stored, i, l, k) = SampleAt(snap, i, l, k)
    <3>1. k \in 0..(count \div Scale[l] - 1)
      BY <1>5, <2>1, <2>2
    <3> QED
      BY <1>1, <1>5, <1>6, <3>1, PacketKeepsSamples DEF stored
  <2>4. Shows(v, stored, i, l, v.length)
    BY <2>1, <2>3 DEF Shows
  <2>5. v.length <= (count + n) \div Scale[l]
    BY <1>5, <2>1, <2>2
  <2> QED
    BY <1>3, <1>6, <2>4, <2>5 DEF LevelHeld, v
<1>7. CASE ~config.instant
  <2>1. v.length \in {0, count \div Scale[l]}
    BY <1>5, <1>7 DEF LevelHeld
  <2>2. count \in {0, n}
    BY <1>1, <1>7
  <2>3. v.length \in {0, n \div Scale[l]}
    BY <2>1, <2>2, NoBlocks
  <2> QED
    BY <1>3, <1>7, <2>3 DEF LevelHeld
<1> QED
  BY <1>6, <1>7

(* What storing a packet, and updating the envelope with it, comes to. *)
LEMMA StoredFollowsData ==
    ASSUME SampleInv, HeldInv, EnvelopeInv, BoundsInv, LevelsInv, AppendPayload,
           feeder.n # 0, Alive', config.instant \/ steady'
    PROVE  AllHeld(snap)' /\ (snap.envelope_en => \A l \in Steps : LevelFollowsData(snap, l)')
<1> DEFINE n == feeder.n
           stored == append_data(snap, n)
           summed == append_payload_to_envelope_levels(stored, feeder.toggled)
           last == IF stored.fault # "none" THEN stored
                   ELSE IF snap.envelope_en THEN summed ELSE stored
           Follows(s) == AllHeld(s) /\ (snap.envelope_en => \A l \in Steps : LevelFollowsData(s, l))
<1>1. /\ feeder.at = "append" /\ Alive /\ config' = config
      /\ snap' = [last EXCEPT !.last_ended = FALSE]
  BY DEF AppendPayload
<1>2. config.instant \/ (steady /\ received \in {0, n})
  BY DEF AppendPayload
<1>3. DOMAIN snap = Members
  BY DEF SampleInv, MembersInv
<1>4. MembersInv(stored) /\ stored.fault # "overrun"
      /\ stored.sample_count * stored.channel_num <= stored.data_size
      /\ stored.channel_num = snap.channel_num
  BY <1>1, PacketFits, StoredInBuffer
<1>5. DOMAIN stored = Members /\ DOMAIN summed = Members
  <2> HIDE DEF stored
  <2> QED
    BY <1>4, EnvelopeKeepsSamples DEF MembersInv
<1>6. stored.fault = "none"
  <2>1. last.fault = "none" /\ DOMAIN last = Members
    <3>1. DOMAIN last = Members
      BY <1>5
    <3> HIDE DEF last
    <3> QED
      BY <1>1, <3>1 DEF Alive, Members
  <2> QED
    BY <2>1
<1>7. snap.data_size # 0
  BY <1>3, <1>6 DEF append_data, Members
<1>8. AllHeld(stored)
  BY <1>1, <1>2, <1>7, PacketKeepsLevels
<1>9. EnvelopeShape(stored) /\ stored.sample_count \in Nat
      /\ stored.channel_num \in Nat /\ stored.channel_num <= ProbeCount
  BY <1>1, <1>4, <1>7, RoomForPacket DEF BoundsInv, MembersInv
<1> HIDE DEF stored
<1>10. AllHeld(summed) /\ \A l \in Steps : LevelFollowsData(summed, l)
  BY <1>5, <1>8, <1>9, UpdateFollowsData
<1> HIDE DEF summed
<1>11. Follows(last)
  BY <1>6, <1>8, <1>10
<1>12. DOMAIN last = Members
  BY <1>5
<1> HIDE DEF last
<1>13. /\ snap'.data = last.data /\ snap'.channel_num = last.channel_num
       /\ snap'.sample_count = last.sample_count
       /\ snap'.envelope_levels = last.envelope_levels
       /\ snap'.envelope_done = last.envelope_done
  BY <1>1, <1>12 DEF Members
<1>14. AllHeld(snap)'
  <2>1. AllHeld(last)
    BY <1>11
  <2> QED
    BY <1>1, <1>13, <2>1 DEF AllHeld, LevelHeld, Shows, SampleAt, Bytes, Byte
<1>15. ASSUME NEW l \in Steps, LevelFollowsData(last, l) PROVE LevelFollowsData(snap, l)'
  BY <1>13, <1>15 DEF LevelFollowsData, get_envelope_section, Bytes, Byte
<1> QED
  BY <1>11, <1>14, <1>15

(* No capture runs at the start. *)
LEMMA LevelsInit == Init => LevelsInv
BY DEF Init, LevelsInv

(* Whatever the two threads do, the levels of a running capture stay held. *)
LEMMA LevelsNext ==
    SampleInv /\ HeldInv /\ EnvelopeInv /\ BoundsInv /\ LevelsInv /\ [Next]_vars => LevelsInv'
<1> SUFFICES ASSUME SampleInv, HeldInv, EnvelopeInv, BoundsInv, LevelsInv, [Next]_vars
             PROVE  LevelsInv'
  OBVIOUS
<1>0. /\ FeederInv /\ CaptureInv /\ DOMAIN snap = Members /\ EnvelopeShape(snap)
      /\ snap.sample_count \in Nat /\ snap.channel_num \in Nat
      /\ snap.channel_num <= ProbeCount
  BY DEF SampleInv, MembersInv, EnvelopeInv, BoundsInv
<1>1. ASSUME NEW c \in Configs, StartCapture(c) PROVE LevelsInv'
  <2>1. /\ snap' = init(snap) /\ snap'.channel_num = snap.channel_num
        /\ snap'.sample_count = 0
    BY <1>0, <1>1 DEF StartCapture, init, Members
  <2>2. \A i \in Probes, l \in Steps :
           i < snap.channel_num => snap'.envelope_levels[i][l].length = 0
    BY <1>0, <2>1, ShapeKept
  <2>3. ASSUME NEW i \in Probes, NEW l \in Steps, i < snap.channel_num
        PROVE  LevelHeld(snap, i, l)'
    <3>1. snap'.sample_count \div Scale[l] = 0
      BY <2>1, NoBlocks
    <3>2. snap'.envelope_levels[i][l].length = 0
      BY <2>2, <2>3
    <3> QED
      BY <3>1, <3>2 DEF LevelHeld, Shows
  <2> QED
    BY <2>1, <2>3 DEF LevelsInv, AllHeld
<1>2. ASSUME EndCapture \/ Clear PROVE LevelsInv'
  BY <1>2 DEF EndCapture, Clear, captureVars, LevelsInv
<1>3. ASSUME NEW enable \in BOOLEAN, EnableEnvelope(enable) PROVE LevelsInv'
  <2> SUFFICES ASSUME Alive', capturing', snap'.data_size # 0,
                      feeder'.at \notin {"malloc", "malloc_envelope"},
                      config'.instant \/ steady'
               PROVE  AllHeld(snap)'
    BY DEF LevelsInv
  <2> DEFINE u == append_payload_to_envelope_levels(snap, TRUE)
             e == IF ~snap.envelope_done /\ enable THEN u ELSE snap
  <2>1. /\ Alive /\ UNCHANGED captureVars /\ feeder' = feeder
        /\ snap' = [e EXCEPT !.envelope_en = enable]
    BY <1>3 DEF EnableEnvelope
  <2>2. MembersInv(snap) /\ snap.fault # "overrun" /\ snap.sample_count \in Nat
        /\ snap.sample_count * snap.channel_num <= snap.data_size
    BY CountedInBuffer DEF SampleInv, SamplesFit, MembersInv
  <2>3. DOMAIN e = Members /\ e.data_size = snap.data_size
    BY <2>2, EnvelopeKeepsSamples DEF MembersInv
  <2>4. snap'.data_size = snap.data_size
    <3> HIDE DEF e
    <3> QED
      BY <2>1, <2>3 DEF Members
  <2>5. AllHeld(snap)
    BY <2>1, <2>4 DEF LevelsInv, captureVars
  <2>6. AllHeld(u)
    BY <1>0, <2>5, UpdateFollowsData
  <2> HIDE DEF u
  <2>7. AllHeld(e)
    BY <2>5, <2>6
  <2> HIDE DEF e
  <2>8. /\ snap'.data = e.data /\ snap'.channel_num = e.channel_num
        /\ snap'.sample_count = e.sample_count /\ snap'.envelope_levels = e.envelope_levels
    BY <2>1, <2>3 DEF Members
  <2> QED
    BY <2>1, <2>7, <2>8 DEF AllHeld, LevelHeld, Shows, SampleAt, Bytes, Byte, captureVars
<1>4. ASSUME NEW n \in 0..config.limit, NEW toggled \in BOOLEAN, FeedDso(n, toggled)
      PROVE  LevelsInv'
  <2>1. snap' = snap /\ UNCHANGED captureVars /\ feeder.at = "idle"
    BY <1>4 DEF FeedDso, Idle
  <2> QED
    BY <2>1 DEF LevelsInv, AllHeld, LevelHeld, Shows, SampleAt, Bytes, Byte, Alive, captureVars
<1>5. ASSUME FirstPayload PROVE LevelsInv'
  <2> SUFFICES ASSUME Alive', capturing', snap'.data_size # 0,
                      feeder'.at \notin {"malloc", "malloc_envelope"},
                      config'.instant \/ steady'
               PROVE  AllHeld(snap)'
    BY DEF LevelsInv
  <2>1. /\ feeder.at = "first" /\ Alive /\ UNCHANGED captureVars
        /\ feeder' = [feeder EXCEPT !.at = IF Realloc THEN "malloc" ELSE "append"]
        /\ snap'.data = snap.data /\ snap'.data_size = snap.data_size
        /\ snap'.sample_count = snap.sample_count
        /\ snap'.envelope_levels = snap.envelope_levels
        /\ snap'.channel_num = Cardinality(config.ch_enable)
    BY <1>0, <1>5 DEF FirstPayload, Goto, Members
  <2>2. ~Realloc
    BY <1>0, <2>1 DEF FeederInv
  <2>3. snap'.channel_num = snap.channel_num
    BY <2>1, <2>2 DEF Realloc
  <2>4. AllHeld(snap)
    BY <2>1 DEF LevelsInv, captureVars
  <2> QED
    BY <2>1, <2>3, <2>4 DEF AllHeld, LevelHeld, Shows, SampleAt, Bytes, Byte, captureVars
<1>6. ASSUME AllocateData \/ AllocateDataFails \/ AllocateEnvelopeFails PROVE LevelsInv'
  <2>1. LET f == free_data(snap)
        IN  DOMAIN f = Members /\ f.data_size = 0
    BY <1>0 DEF free_data, Members
  <2>2. AllocateData => feeder'.at = "malloc_envelope"
    BY <1>0 DEF AllocateData, Goto, FeederInv
  <2>3. AllocateDataFails => snap'.data_size = 0
    BY <2>1 DEF AllocateDataFails, Members
  <2>4. AllocateEnvelopeFails => snap'.data_size = 0
    BY <2>1 DEF AllocateEnvelopeFails, free_envelop, Members
  <2> QED
    BY <1>6, <2>2, <2>3, <2>4 DEF LevelsInv
<1>7. ASSUME AllocateEnvelope PROVE LevelsInv'
  <2> DEFINE size == LevelSize(snap.total_sample_count)
             levels == [i \in Probes |-> [l \in Steps |->
                          IF i < snap.channel_num THEN [NoLevel EXCEPT !.size = size[l]]
                                                  ELSE NoLevel]]
  <2>1. /\ snap'.envelope_levels = levels /\ snap'.channel_num = snap.channel_num
        /\ snap'.sample_count = 0
    BY <1>0, <1>7 DEF AllocateEnvelope, Members, CaptureInv, SampleInv
  <2> HIDE DEF size
  <2>2. \A i \in Probes, l \in Steps : levels[i][l].length = 0
    BY DEF NoLevel
  <2> HIDE DEF levels
  <2>3. \A i \in Probes, l \in Steps : LevelHeld(snap, i, l)'
    <3>1. \A l \in Steps : snap'.sample_count \div Scale[l] = 0
      BY <2>1, NoBlocks
    <3> QED
      BY <2>1, <2>2, <3>1 DEF LevelHeld, Shows
  <2> QED
    BY <2>3 DEF LevelsInv, AllHeld
<1>8. ASSUME AppendPayload PROVE LevelsInv'
  <2> SUFFICES ASSUME Alive', config'.instant \/ steady', snap'.data_size # 0,
                      capturing'
               PROVE  AllHeld(snap)'
    BY DEF LevelsInv
  <2>1. CASE feeder.n # 0
    <3>1. config' = config
      BY <1>8 DEF AppendPayload
    <3> QED
      BY <1>8, <2>1, <3>1, StoredFollowsData
  <2>2. CASE feeder.n = 0
    <3>1. /\ feeder.at = "append" /\ Alive /\ config' = config /\ capturing' = capturing
          /\ steady' = steady /\ snap' = [snap EXCEPT !.last_ended = FALSE]
      BY <1>8, <2>2 DEF AppendPayload
    <3>2. /\ snap'.data = snap.data /\ snap'.data_size = snap.data_size
          /\ snap'.channel_num = snap.channel_num
          /\ snap'.sample_count = snap.sample_count
          /\ snap'.envelope_levels = snap.envelope_levels
      BY <1>0, <3>1 DEF Members
    <3>3. AllHeld(snap)
      BY <3>1, <3>2 DEF LevelsInv
    <3> QED
      BY <3>1, <3>2, <3>3 DEF AllHeld, LevelHeld, Shows, SampleAt, Bytes, Byte
  <2> QED
    BY <2>1, <2>2
<1>9. CASE UNCHANGED vars
  BY <1>9 DEF vars, LevelsInv, AllHeld, LevelHeld, Shows, SampleAt, Bytes, Byte, Alive
<1> QED
  BY <1>1, <1>2, <1>3, <1>4, <1>5, <1>6, <1>7, <1>8, <1>9 DEF Next

(* After a packet is stored with the envelope on, every level shows the data as
   it is now, whatever captures, failures, clears and switches of the envelope
   went before: in an instant capture always, and in a repetitive one whose
   frames have been of one length. *)
THEOREM SnapshotEnvelopeFollows == Spec => EnvelopeFollowsData
<1>1. Spec => [](SampleInv /\ HeldInv /\ EnvelopeInv /\ BoundsInv /\ LevelsInv)
  BY SampleInit, SampleNext, HeldInit, HeldNext, EnvelopeInit, EnvelopeNext,
     BoundsInit, BoundsNext, LevelsInit, LevelsNext, PTL DEF Spec
<1>2. ASSUME SampleInv, HeldInv, EnvelopeInv, BoundsInv, LevelsInv, [Next]_vars
      PROVE  [Stored /\ Alive' /\ (config.instant \/ steady') =>
                \A l \in Steps : LevelFollowsData(snap, l)']_vars
  <2> SUFFICES ASSUME Stored, Alive', config.instant \/ steady'
               PROVE  \A l \in Steps : LevelFollowsData(snap, l)'
    OBVIOUS
  <2>1. feeder.at = "append" /\ feeder'.at = "idle" /\ feeder.n # 0 /\ snap.envelope_en
    BY DEF Stored, Idle
  <2>2. AppendPayload
    <3>1. feeder' # feeder /\ feeder # Idle
      BY <2>1 DEF Idle
    <3>2. /\ \A c \in Configs : ~StartCapture(c)
          /\ ~EndCapture /\ ~Clear /\ \A enable \in BOOLEAN : ~EnableEnvelope(enable)
      BY <3>1 DEF StartCapture, EndCapture, Clear, EnableEnvelope
    <3>3. \A n \in 0..config.limit, toggled \in BOOLEAN : ~FeedDso(n, toggled)
      BY <3>1 DEF FeedDso
    <3>4. ~FirstPayload
      BY <2>1 DEF FirstPayload
    <3>5. ~AllocateData /\ ~AllocateDataFails
      BY <2>1 DEF AllocateData, AllocateDataFails
    <3>6. ~AllocateEnvelope /\ ~AllocateEnvelopeFails
      BY <2>1 DEF AllocateEnvelope, AllocateEnvelopeFails
    <3> QED
      BY <1>2, <3>1, <3>2, <3>3, <3>4, <3>5, <3>6 DEF Next, vars
  <2> QED
    BY <1>2, <2>1, <2>2, StoredFollowsData
<1> QED
  BY <1>1, <1>2, PTL DEF Spec, EnvelopeFollowsData
=============================================================================
