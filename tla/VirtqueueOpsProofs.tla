-------------------------- MODULE VirtqueueOpsProofs --------------------------
(***************************************************************************)
(* Facts about the operators of VirtqueueOps, for every ring size N and    *)
(* every index modulus that is a multiple of N and at least 2 * N:         *)
(* arithmetic of the free-running indices, the window of unread entries    *)
(* under the writes of the two ends of a ring, and counting.               *)
(***************************************************************************)
EXTENDS VirtqueueOps, Sequences, FiniteSets, FiniteSetTheorems, TLAPS

-----------------------------------------------------------------------------
(* Arithmetic of the indices *)

(* Division with remainder. *)
LEMMA DivMod ==
    ASSUME NEW n \in Nat \ {0}, NEW a \in Int
    PROVE  /\ a \div n \in Int
           /\ a % n \in 0..(n - 1)
           /\ a = n * (a \div n) + (a % n)
  OBVIOUS

(* The remainder is unique. *)
LEMMA ModUnique ==
    ASSUME NEW n \in Nat \ {0}, NEW q \in Int, NEW r \in 0..(n - 1)
    PROVE  (n * q + r) % n = r
  OBVIOUS

(* Reducing modulo a multiple of n first does not change the value modulo n: *)
(* the slot of an index is the slot of its 16-bit value.                     *)
LEMMA ModMod ==
    ASSUME NEW n \in Nat \ {0}, NEW m \in Nat \ {0}, m % n = 0, NEW a \in Int
    PROVE  (a % m) % n = a % n
  <1> DEFINE k == m \div n
             q == a \div m
             s == a % m
             p == s \div n
             t == s % n
  <1>1. k \in Int /\ q \in Int /\ s \in Int /\ p \in Int /\ t \in 0..(n - 1)
    BY DivMod
  <1>2. m = n * k
    BY DivMod
  <1>3. a = m * q + s
    BY DivMod
  <1>4. s = n * p + t
    BY DivMod, <1>1
  <1> HIDE DEF k, q, s, p, t
  <1>5. a = n * (k * q + p) + t /\ k * q + p \in Int
    BY <1>1, <1>2, <1>3, <1>4
  <1>6. a % n = t
    BY <1>1, <1>5, ModUnique
  <1> QED
    BY <1>6 DEF s, t

(* Fewer than n consecutive indices occupy different slots. *)
LEMMA SlotsDiffer ==
    ASSUME NEW n \in Nat \ {0}, NEW a \in Int, NEW b \in Int, a < b, b < a + n
    PROVE  a % n # b % n
  <1> SUFFICES ASSUME a % n = b % n PROVE FALSE
    OBVIOUS
  <1> DEFINE p == a \div n
             q == b \div n
  <1>1. /\ p \in Int /\ q \in Int /\ a % n \in Int
        /\ a = n * p + (a % n) /\ b = n * q + (b % n)
    BY DivMod
  <1> HIDE DEF p, q
  <1>2. n * (q - p) = b - a
    BY <1>1
  <1>3. CASE q - p <= 0
    BY <1>1, <1>2, <1>3
  <1>4. CASE q - p >= 1
    <2>1. n * (q - p) >= n
      BY <1>1, <1>4
    <2> QED
      BY <2>1, <1>2
  <1> QED
    BY <1>1, <1>3, <1>4

(* What the definitions on indices come to, without remainders. *)
LEMMA IndexFacts ==
    ASSUME NEW from \in Idx, NEW to \in Idx
    PROVE  /\ IncIdx(to) = IF to = IdxMod - 1 THEN 0 ELSE to + 1
           /\ IncIdx(to) \in Idx
           /\ Distance(from, to) = IF from <= to THEN to - from ELSE to - from + IdxMod
           /\ Distance(from, to) \in 0..(IdxMod - 1)
           /\ from # to <=> Distance(from, to) >= 1
           /\ SlotOf(to) \in Slot
  <1>1. IdxMod \in Nat \ {0} /\ N \in Nat \ {0}
    BY SizeAssumption
  <1>2. IncIdx(to) = IF to = IdxMod - 1 THEN 0 ELSE to + 1
    BY <1>1 DEF IncIdx, Idx
  <1>3. Distance(from, to) = IF from <= to THEN to - from ELSE to - from + IdxMod
    BY <1>1 DEF Distance, Idx
  <1>4. SlotOf(to) \in Slot
    BY <1>1 DEF SlotOf, Slot, Idx
  <1> QED
    BY <1>1, <1>2, <1>3, <1>4 DEF Idx

(* The slot of the published index is the one that follows the window. *)
LEMMA SlotAfterWindow ==
    ASSUME NEW from \in Idx, NEW to \in Idx
    PROVE  SlotOf(to) = SlotOf(from + Distance(from, to))
  <1>1. IdxMod \in Nat \ {0} /\ N \in Nat \ {0} /\ IdxMod % N = 0
    BY SizeAssumption
  <1>2. from + Distance(from, to) \in Int
    BY IndexFacts DEF Idx
  <1>3. (from + Distance(from, to)) % IdxMod = to
    <2>0. Distance(from, to) = IF from <= to THEN to - from ELSE to - from + IdxMod
      BY IndexFacts
    <2>1. \/ from + Distance(from, to) = to
          \/ from + Distance(from, to) = to + IdxMod
      BY <1>1, <2>0 DEF Idx
    <2>2. to % IdxMod = to /\ (to + IdxMod) % IdxMod = to
      BY <1>1 DEF Idx
    <2> QED
      BY <2>1, <2>2
  <1> QED
    BY <1>1, <1>2, <1>3, ModMod DEF SlotOf

(* Slots seen from the next index. *)
LEMMA SlotAfterInc ==
    ASSUME NEW from \in Idx, NEW i \in Nat
    PROVE  SlotOf(IncIdx(from) + i) = SlotOf(from + (i + 1))
  <1>1. IdxMod \in Nat \ {0} /\ N \in Nat \ {0} /\ IdxMod % N = 0
    BY SizeAssumption
  <1>2. CASE from # IdxMod - 1
    BY <1>2, IndexFacts DEF Idx
  <1>3. CASE from = IdxMod - 1
    <2> DEFINE k == IdxMod \div N
               p == i \div N
               t == i % N
    <2>1. /\ k \in Int /\ p \in Int /\ t \in 0..(N - 1)
          /\ IdxMod = N * k /\ i = N * p + t
      BY <1>1, DivMod
    <2>2. IncIdx(from) + i = i
      BY <1>3, IndexFacts
    <2>3. from + (i + 1) = IdxMod + i
      BY <1>1, <1>3
    <2> HIDE DEF k, p, t
    <2>4. IdxMod + i = N * (k + p) + t /\ k + p \in Int
      BY <1>1, <2>1
    <2>5. (IdxMod + i) % N = t
      BY <1>1, <2>1, <2>4, ModUnique
    <2> QED
      BY <2>2, <2>3, <2>5 DEF SlotOf, t
  <1> QED
    BY <1>2, <1>3

-----------------------------------------------------------------------------
(* Windows *)

(* A window is a sequence of descriptors. *)
LEMMA WindowType ==
    ASSUME NEW ring \in [Slot -> Desc], NEW from \in Idx, NEW to \in Idx
    PROVE  /\ Window(ring, from, to) \in Seq(Desc)
           /\ Len(Window(ring, from, to)) = Distance(from, to)
           /\ DOMAIN Window(ring, from, to) = 1..Distance(from, to)
           /\ \A i \in 1..Distance(from, to) :
                /\ SlotOf(from + (i - 1)) \in Slot
                /\ Window(ring, from, to)[i] = ring[SlotOf(from + (i - 1))]
  <1>1. Distance(from, to) \in Nat
    BY IndexFacts
  <1>2. \A i \in 1..Distance(from, to) : SlotOf(from + (i - 1)) \in Slot
    BY <1>1, SizeAssumption DEF SlotOf, Slot, Idx
  <1>3. Window(ring, from, to) \in [1..Distance(from, to) -> Desc]
    BY <1>2 DEF Window
  <1> QED
    BY <1>1, <1>2, <1>3 DEF Window

(* Writing the slot of the published index leaves the unread entries alone, *)
(* as long as the ring is not full.                                         *)
LEMMA WindowWrite ==
    ASSUME NEW ring \in [Slot -> Desc], NEW from \in Idx, NEW to \in Idx,
           NEW d \in Desc, Distance(from, to) < N
    PROVE  Window([ring EXCEPT ![SlotOf(to)] = d], from, to) = Window(ring, from, to)
  <1> DEFINE D == Distance(from, to)
  <1>1. D \in Nat /\ N \in Nat \ {0} /\ from \in Int
    BY IndexFacts, SizeAssumption DEF Idx
  <1>2. ASSUME NEW i \in 1..D
        PROVE  SlotOf(from + (i - 1)) # SlotOf(to)
    <2>1. SlotOf(to) = (from + D) % N
      BY SlotAfterWindow DEF SlotOf
    <2> HIDE DEF D
    <2>2. /\ from + (i - 1) \in Int /\ from + D \in Int
          /\ from + (i - 1) < from + D
          /\ from + D < (from + (i - 1)) + N
      BY <1>1 DEF D
    <2> QED
      BY <1>1, <2>1, <2>2, SlotsDiffer DEF SlotOf
  <1>3. \A i \in 1..D : SlotOf(from + (i - 1)) \in Slot
    BY WindowType
  <1> QED
    BY <1>2, <1>3 DEF Window

(* Publishing appends the entry in the slot of the published index. *)
LEMMA WindowPublish ==
    ASSUME NEW ring \in [Slot -> Desc], NEW from \in Idx, NEW to \in Idx,
           Distance(from, to) < N
    PROVE  Window(ring, from, IncIdx(to)) = Append(Window(ring, from, to), ring[SlotOf(to)])
  <1> DEFINE D == Distance(from, to)
             W == Window(ring, from, to)
             V == Window(ring, from, IncIdx(to))
  <1>1. IncIdx(to) \in Idx /\ SlotOf(to) \in Slot /\ D \in Nat
    BY IndexFacts
  <1>2. Distance(from, IncIdx(to)) = D + 1
    <2>1. IdxMod \in Nat /\ N \in Nat \ {0} /\ IdxMod >= 2 * N
      BY SizeAssumption
    <2>2. D = IF from <= to THEN to - from ELSE to - from + IdxMod
      BY IndexFacts
    <2>3. IncIdx(to) = IF to = IdxMod - 1 THEN 0 ELSE to + 1
      BY IndexFacts
    <2>4. Distance(from, IncIdx(to)) =
            IF from <= IncIdx(to) THEN IncIdx(to) - from ELSE IncIdx(to) - from + IdxMod
      BY <1>1, IndexFacts
    <2> QED
      BY <2>1, <2>2, <2>3, <2>4 DEF Idx
  <1>3. SlotOf(to) = SlotOf(from + D)
    BY SlotAfterWindow
  <1>4. /\ W \in Seq(Desc) /\ Len(W) = D
        /\ \A i \in 1..D : W[i] = ring[SlotOf(from + (i - 1))]
    BY WindowType
  <1>5. /\ V \in Seq(Desc) /\ Len(V) = D + 1
        /\ \A i \in 1..(D + 1) : V[i] = ring[SlotOf(from + (i - 1))]
    <2>1. /\ V \in Seq(Desc) /\ Len(V) = Distance(from, IncIdx(to))
          /\ \A i \in 1..Distance(from, IncIdx(to)) : V[i] = ring[SlotOf(from + (i - 1))]
      BY <1>1, WindowType
    <2> QED
      BY <2>1, <1>2
  <1>6. V[D + 1] = ring[SlotOf(to)]
    <2>1. D + 1 \in 1..(D + 1) /\ (D + 1) - 1 = D
      BY <1>1
    <2> QED
      BY <2>1, <1>3, <1>5
  <1> HIDE DEF D, W, V
  <1>7. ring[SlotOf(to)] \in Desc
    BY <1>1
  <1> QED
    BY <1>1, <1>4, <1>5, <1>6, <1>7 DEF D, W, V

(* Consuming removes the head, which is the entry the consumer reads. *)
LEMMA WindowConsume ==
    ASSUME NEW ring \in [Slot -> Desc], NEW from \in Idx, NEW to \in Idx, from # to
    PROVE  /\ Window(ring, from, to) # << >>
           /\ Head(Window(ring, from, to)) = ring[SlotOf(from)]
           /\ Window(ring, IncIdx(from), to) = Tail(Window(ring, from, to))
  <1> DEFINE D == Distance(from, to)
             W == Window(ring, from, to)
             V == Window(ring, IncIdx(from), to)
  <1>1. IncIdx(from) \in Idx /\ D \in Nat /\ D >= 1 /\ from \in Int
    BY IndexFacts DEF Idx
  <1>2. Distance(IncIdx(from), to) = D - 1
    <2>1. IdxMod \in Nat /\ N \in Nat \ {0} /\ IdxMod >= 2 * N
      BY SizeAssumption
    <2>2. D = IF from <= to THEN to - from ELSE to - from + IdxMod
      BY IndexFacts
    <2>3. IncIdx(from) = IF from = IdxMod - 1 THEN 0 ELSE from + 1
      BY IndexFacts
    <2>4. Distance(IncIdx(from), to) =
            IF IncIdx(from) <= to THEN to - IncIdx(from) ELSE to - IncIdx(from) + IdxMod
      BY <1>1, IndexFacts
    <2> QED
      BY <2>1, <2>2, <2>3, <2>4 DEF Idx
  <1>3. /\ W \in Seq(Desc) /\ Len(W) = D
        /\ \A i \in 1..D : W[i] = ring[SlotOf(from + (i - 1))]
    BY WindowType
  <1>4. /\ V \in Seq(Desc) /\ Len(V) = D - 1
        /\ \A i \in 1..(D - 1) : V[i] = ring[SlotOf(IncIdx(from) + (i - 1))]
    <2>1. /\ V \in Seq(Desc) /\ Len(V) = Distance(IncIdx(from), to)
          /\ \A i \in 1..Distance(IncIdx(from), to) :
               V[i] = ring[SlotOf(IncIdx(from) + (i - 1))]
      BY <1>1, WindowType
    <2> QED
      BY <2>1, <1>2
  <1>5. ASSUME NEW i \in 1..(D - 1)
        PROVE  V[i] = W[i + 1]
    <2> HIDE DEF D, W, V
    <2>1. i - 1 \in Nat /\ i + 1 \in 1..D /\ (i - 1) + 1 = (i + 1) - 1
      BY <1>1
    <2>2. SlotOf(IncIdx(from) + (i - 1)) = SlotOf(from + ((i + 1) - 1))
      BY <2>1, SlotAfterInc
    <2> QED
      BY <2>1, <2>2, <1>3, <1>4
  <1>6. W[1] = ring[SlotOf(from)]
    <2>1. 1 \in 1..D /\ from + (1 - 1) = from
      BY <1>1
    <2> QED
      BY <2>1, <1>3
  <1> HIDE DEF D, W, V
  <1>7. W # << >> /\ Head(W) = W[1]
    BY <1>1, <1>3
  <1>8. V = Tail(W)
    <2>1. Tail(W) \in Seq(Desc) /\ Len(Tail(W)) = D - 1
      BY <1>1, <1>3, <1>7
    <2>2. \A i \in 1..(D - 1) : Tail(W)[i] = W[i + 1]
      BY <1>1, <1>3, <1>7
    <2> QED
      BY <2>1, <2>2, <1>1, <1>4, <1>5
  <1> QED
    BY <1>6, <1>7, <1>8 DEF W, V

-----------------------------------------------------------------------------
(* Entries of a ring, and counting them *)

(* A sequence of descriptors without repetition that misses one of them has *)
(* fewer than N entries.                                                    *)
LEMMA RoomForOne ==
    ASSUME NEW s \in Seq(Desc), NoRepeat(s), NEW d \in Desc, d \notin Entries(s)
    PROVE  Len(s) < N
  <1> DEFINE T == Desc \ {d}
             L == Len(s)
  <1>1. N \in Nat \ {0} /\ L \in Nat /\ DOMAIN s = 1..L
    BY SizeAssumption
  <1>2. IsFiniteSet(Desc) /\ Cardinality(Desc) = N
    <2>1. 0 \in Int /\ N - 1 \in Int /\ ~(0 > N - 1) /\ (N - 1) - 0 + 1 = N
      BY <1>1
    <2> QED
      BY <2>1, FS_Interval DEF Desc
  <1>3. IsFiniteSet(T) /\ Cardinality(T) = N - 1
    BY <1>2, FS_RemoveElement
  <1>4. IsFiniteSet(1..L) /\ Cardinality(1..L) = L
    <2>1. 1 \in Int /\ L \in Int /\ (IF 1 > L THEN 0 ELSE L - 1 + 1) = L
      BY <1>1
    <2> QED
      BY <2>1, FS_Interval
  <1>5. s \in [1..L -> T]
    BY <1>1 DEF Entries
  <1> HIDE DEF T, L
  <1>6. SUFFICES ASSUME N - 1 < L PROVE FALSE
    BY <1>1 DEF L
  <1>7. \E x, y \in 1..L : x # y /\ s[x] = s[y]
    BY <1>3, <1>4, <1>5, <1>6, FS_PigeonHole
  <1> QED
    BY <1>1, <1>7 DEF NoRepeat

(* A sequence of descriptors without repetition has at most N entries. *)
LEMMA AtMostAll ==
    ASSUME NEW s \in Seq(Desc), NoRepeat(s)
    PROVE  Len(s) <= N
  <1> DEFINE L == Len(s)
  <1>1. N \in Nat \ {0} /\ L \in Nat /\ DOMAIN s = 1..L
    BY SizeAssumption
  <1>2. IsFiniteSet(Desc) /\ Cardinality(Desc) = N
    <2>1. 0 \in Int /\ N - 1 \in Int /\ ~(0 > N - 1) /\ (N - 1) - 0 + 1 = N
      BY <1>1
    <2> QED
      BY <2>1, FS_Interval DEF Desc
  <1>3. IsFiniteSet(1..L) /\ Cardinality(1..L) = L
    <2>1. 1 \in Int /\ L \in Int /\ (IF 1 > L THEN 0 ELSE L - 1 + 1) = L
      BY <1>1
    <2> QED
      BY <2>1, FS_Interval
  <1>4. s \in [1..L -> Desc]
    BY <1>1
  <1> HIDE DEF L
  <1>5. SUFFICES ASSUME N < L PROVE FALSE
    BY <1>1 DEF L
  <1>6. \E x, y \in 1..L : x # y /\ s[x] = s[y]
    BY <1>2, <1>3, <1>4, <1>5, FS_PigeonHole
  <1> QED
    BY <1>1, <1>6 DEF NoRepeat

(* Appending an entry that was not there. *)
LEMMA AppendEntries ==
    ASSUME NEW s \in Seq(Desc), NEW d \in Desc
    PROVE  /\ Entries(Append(s, d)) = Entries(s) \union {d}
           /\ NoRepeat(s) /\ d \notin Entries(s) => NoRepeat(Append(s, d))
  <1> DEFINE a == Append(s, d)
             L == Len(s)
  <1>1. /\ L \in Nat /\ DOMAIN s = 1..L /\ DOMAIN a = 1..(L + 1)
        /\ \A i \in 1..L : a[i] = s[i]
        /\ a[L + 1] = d
    OBVIOUS
  <1> HIDE DEF a, L
  <1>2. 1..(L + 1) = (1..L) \union {L + 1}
    BY <1>1
  <1>3. Entries(a) = Entries(s) \union {d}
    BY <1>1, <1>2 DEF Entries
  <1>4. ASSUME NoRepeat(s), d \notin Entries(s) PROVE NoRepeat(a)
    BY <1>1, <1>2, <1>4 DEF NoRepeat, Entries
  <1> QED
    BY <1>3, <1>4 DEF a

(* Removing the head of a sequence without repetition. *)
LEMMA TailEntries ==
    ASSUME NEW s \in Seq(Desc), s # << >>, NoRepeat(s)
    PROVE  /\ Head(s) \in Entries(s)
           /\ Entries(Tail(s)) = Entries(s) \ {Head(s)}
           /\ NoRepeat(Tail(s))
  <1> DEFINE t == Tail(s)
             L == Len(s)
  <1>1. /\ L \in Nat /\ L >= 1 /\ DOMAIN s = 1..L /\ DOMAIN t = 1..(L - 1)
        /\ \A i \in 1..(L - 1) : t[i] = s[i + 1]
        /\ Head(s) = s[1]
    OBVIOUS
  <1> HIDE DEF t, L
  <1>2. 1 \in 1..L /\ \A i \in 1..(L - 1) : i + 1 \in 1..L /\ i + 1 # 1
    BY <1>1
  <1>3. \A j \in 1..L : j # 1 => j - 1 \in 1..(L - 1) /\ (j - 1) + 1 = j
    BY <1>1
  <1>4. Entries(t) \subseteq Entries(s) \ {s[1]}
    BY <1>1, <1>2 DEF Entries, NoRepeat
  <1>5. Entries(s) \ {s[1]} \subseteq Entries(t)
    <2> SUFFICES ASSUME NEW x \in Entries(s), x # s[1] PROVE x \in Entries(t)
      OBVIOUS
    <2>1. PICK j \in 1..L : x = s[j]
      BY <1>1 DEF Entries
    <2>2. j - 1 \in DOMAIN t /\ t[j - 1] = x
      BY <1>1, <1>3, <2>1
    <2> QED
      BY <2>2 DEF Entries
  <1>6. NoRepeat(t)
    <2> SUFFICES ASSUME NEW i \in 1..(L - 1), NEW j \in 1..(L - 1), t[i] = t[j]
                 PROVE  i = j
      BY <1>1 DEF NoRepeat
    <2>1. i + 1 = j + 1
      BY <1>1, <1>2 DEF NoRepeat
    <2> QED
      BY <2>1
  <1> QED
    BY <1>1, <1>2, <1>4, <1>5, <1>6 DEF t, Entries

-----------------------------------------------------------------------------
(* A freshly filled ring lists every descriptor in order, the other none. *)
LEMMA InitWindows ==
    ASSUME NEW ring \in [Slot -> Desc], ring = [i \in Slot |-> i], NEW zero \in [Slot -> Desc]
    PROVE  /\ Window(ring, 0, N) = [i \in 1..N |-> i - 1]
           /\ Window(zero, 0, 0) = << >>
           /\ 0 \in Idx /\ N \in Idx
  <1>1. IdxMod \in Nat \ {0} /\ N \in Nat \ {0} /\ IdxMod >= 2 * N
    BY SizeAssumption
  <1>2. 0 \in Idx /\ N \in Idx
    BY <1>1 DEF Idx
  <1>3. Distance(0, N) = N /\ Distance(0, 0) = 0
    <2>1. Distance(0, N) = IF 0 <= N THEN N - 0 ELSE N - 0 + IdxMod
      BY <1>2, IndexFacts
    <2>2. Distance(0, 0) = IF 0 <= 0 THEN 0 - 0 ELSE 0 - 0 + IdxMod
      BY <1>2, IndexFacts
    <2> QED
      BY <1>1, <2>1, <2>2
  <1>4. ASSUME NEW i \in 1..N
        PROVE  ring[SlotOf(0 + (i - 1))] = i - 1
    <2>1. i - 1 \in Slot /\ 0 + (i - 1) = i - 1
      BY <1>1 DEF Slot
    <2>2. (i - 1) % N = i - 1
      BY <1>1, <2>1 DEF Slot
    <2> QED
      BY <2>1, <2>2 DEF SlotOf
  <1>5. Window(ring, 0, N) = [i \in 1..N |-> i - 1]
    BY <1>3, <1>4 DEF Window
  <1>6. Window(zero, 0, 0) = << >>
    <2>1. Window(zero, 0, 0) \in Seq(Desc) /\ Len(Window(zero, 0, 0)) = 0
      BY <1>2, <1>3, WindowType
    <2> QED
      BY <2>1
  <1> QED
    BY <1>2, <1>5, <1>6
===============================================================================
