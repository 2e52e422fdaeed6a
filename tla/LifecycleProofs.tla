---------------------------- MODULE LifecycleProofs ----------------------------
EXTENDS Lifecycle, FiniteSetTheorems, TLAPS

(***************************************************************************)
(* Proofs about Lifecycle, for every set of targets whose records have the *)
(* types of LifecycleAssumption, any number of links and any bounds.       *)
(*                                                                         *)
(* The environment and the platform count their users.  The inductive      *)
(* invariant IInv says what the counters count: the links whose task is at *)
(* a step between the two calls that raise and lower the counter.          *)
(***************************************************************************)

-----------------------------------------------------------------------------
(* What is counted.                                                         *)

(* The elements of K whose image is in X; the links of K whose task is at a *)
(* step of X.                                                               *)
NumberIn(K, f, X) == Cardinality({m \in K : f[m] \in X})
Count(K, X)       == NumberIn(K, at, X)

On(c) == {l \in Links : Com(l) = c}
By(k) == {l \in Links : CounterOf(l) = k}

Inside        == Steps \ {"none"}
AttachedOnce  == {"register1", "attach1", "mask_r", "mask_t", "unmask_r", "unmask_t", "kick",
                  "up", "detach_t"}
AttachedTwice == {"mask_r", "mask_t", "unmask_r", "unmask_t", "kick", "up"}
                   \cup (IF switch.back < 0 THEN {} ELSE {"detach_t"})

InUse       == Count(Links, Inside)
Attached(c) == Count(On(c), AttachedOnce) + Count(On(c), AttachedTwice)
Masked(k)   == Count(By(k), Masking) + Count(By(k), {"unmask_r"})

(* What one task at step s adds to them.                                    *)
One(s, X)     == IF s \in X THEN 1 ELSE 0
Uses(s)       == One(s, Inside)
Attachment(s) == One(s, AttachedOnce) + One(s, AttachedTwice)
Depth(s)      == One(s, Masking) + One(s, {"unmask_r"})

-----------------------------------------------------------------------------
(* The inductive invariant.                                                 *)

FullType ==
    /\ TypeOK
    /\ target \in Targets
    /\ env_sema \in {-1, port.sema, port.sema + 1}

(* env_init_counter is at least the number of tasks in the library, and     *)
(* more once env_init has failed: it is not lowered then, so that nobody    *)
(* calls platform_init again.                                               *)
Users ==
    /\ env_init_counter >= InUse
    /\ failed => env_init_counter > InUse /\ ~platform_lock
    /\ env_init_counter = 0 => ~platform_lock

(* While one task is in platform_init the others are outside or wait.       *)
Booting ==
    \A l \in Links : at[l] = "boot" =>
        /\ ~platform_lock /\ ~failed /\ env_sema = port.sema
        /\ \A k \in Links \ {l} : at[k] \in {"none", "wait"}

(* The semaphore exists while there are users, and is given once the lock   *)
(* exists.                                                                  *)
Gate ==
    ~failed =>
        /\ env_init_counter > 0 => /\ env_sema >= 0
                                   /\ platform_lock \/ \E l \in Links : at[l] = "boot"
        /\ env_sema > 0 => platform_lock \/ \E l \in Links : at[l] = "boot" /\ Links = {l}
        /\ \A l \in Links : at[l] \notin {"none", "boot", "wait"} => platform_lock

(* The steps before which virtqueue q of a link is in isr_table, and those  *)
(* before which the virtqueues exist.                                       *)
Registered(q) ==
    {"attach1", "mask_r", "mask_t", "unmask_r", "unmask_t", "kick", "up"}
      \cup (IF q = 0 THEN {"attach0", "register1"} ELSE {})
      \cup (IF q = tvq THEN {"detach_t"} ELSE {})
WithVqs == {"register0", "attach0", "register1", "attach1", "mask_r", "mask_t", "unmask_r",
            "unmask_t", "kick", "up", "detach_t", "free", "halt"}

Table ==
    /\ \A v \in isr_table : \E l \in Links, q \in {0, 1} :
          v = Vq(l, q) /\ at[l] \in Registered(q) \cup {"halt"}
    /\ ~failed => \A l \in Links, q \in {0, 1} : at[l] \in Registered(q) => Vq(l, q) \in isr_table
    /\ \A l \in Links : at[l] \in WithVqs => l \in vqs
    /\ target.dev.irq.check /\ ~platform_lock => isr_table = {}

(* isr_counter counts the attached virtqueues of its doorbell, where        *)
(* platform_deinit_interrupt counts down.                                   *)
Attachments ==
    ~failed => \A c \in Coms : /\ isr_counter[c] >= Attached(c)
                               /\ switch.back < 0 => isr_counter[c] = Attached(c)

(* disable_counter counts the calls of platform_interrupt_disable that are  *)
(* not undone.                                                              *)
Masks == \A k \in Keys : disable_counter[k] = Masked(k)

(* The sources of a doorbell are on while virtqueues are attached.          *)
Together(c) == switch.on = "com" \/ (switch.on = "queue" /\ c \in switch.both)

Sources ==
    /\ \A c \in Coms : Together(c) /\ isr_counter[c] >= switch.limit
                          => <<c, 0>> \in sources /\ <<c, 1>> \in sources
    /\ ~failed /\ switch.on = "queue" =>
          \A l \in Links : Com(l) \notin switch.both =>
              /\ at[l] \in AttachedOnce \ {"detach_t"} => <<Com(l), 0>> \in sources
              /\ at[l] \in AttachedTwice => <<Com(l), 1>> \in sources

(* The line of a link that is up is on, unless another link masks it.       *)
Lines ==
    ~failed => \A l \in Links : at[l] \in {"kick", "up"} =>
        LineOf(Com(l)) \in line \/ \E k \in Links \ {l} : SharesLine(k, l) /\ at[k] \in Masking

MasterUp ==
    target.role = "master" =>
        \A l \in Links : at[l] \in {"unmask_t", "kick", "up"} => l \in link_state

(* A doorbell holds the vectors that are rung on it.                        *)
Bells == \A c \in Coms : \A v \in bell[c] : Doorbell(door, v) = c

IInv == /\ FullType /\ Users /\ Booting /\ Gate /\ Table /\ Attachments /\ Masks /\ MasterUp
        /\ Bells /\ (OwnSwitch(target) => Sources /\ Lines /\ NestedMasks)

-----------------------------------------------------------------------------
(* Operators.                                                               *)

(* The vectors of the virtqueues differ, and both are rung on the doorbell  *)
(* of the link.                                                             *)
LEMMA VectorFacts ==
    ASSUME NEW l \in Nat, NEW q \in {0, 1}
    PROVE  /\ Vq(l, q) \in Nat /\ RL_GET_LINK_ID(Vq(l, q)) = l /\ RL_GET_Q_ID(Vq(l, q)) = q
           /\ \A k \in Nat, p \in {0, 1} : Vq(k, p) = Vq(l, q) => k = l /\ p = q
           /\ RL_GET_COM_ID(Vq(l, q)) = RL_GET_COM_ID(Vq(l, 0))
  BY DEF Vq, RL_GET_VQ_ID, RL_GET_LINK_ID, RL_GET_Q_ID, RL_GET_COM_ID

(* What LifecycleAssumption says of the target.                             *)
LEMMA TargetFacts ==
    ASSUME target \in Targets
    PROVE  /\ Links \subseteq Nat /\ IsFiniteSet(Links)
           /\ Coms \subseteq Nat /\ Keys = Coms \cup {0}
           /\ \A l \in Links : Com(l) \in Coms /\ CounterOf(l) \in Keys
           /\ \A c \in Coms : LineOf(c) \in Keys
           /\ \A l \in Links, q \in {0, 1} :
                 Doorbell(door, Vq(l, q)) = Com(l) /\ Vq(l, q) \in 0..(target.dev.ids.isr_count - 1)
           /\ switch.limit \in 0..2 /\ switch.back \in {-1, 1}
           /\ port.sema \in {0, 1} /\ port.tasks \in BOOLEAN
           /\ rvq \in {0, 1} /\ tvq \in {0, 1} /\ rvq # tvq
  <1>1. /\ target.role \in {"master", "remote"}
        /\ target.links \subseteq Nat /\ IsFiniteSet(target.links)
        /\ IsPlatform(target.dev) /\ IsPort(target.port)
        /\ \A l \in target.links : Serves(target.dev, l)
    BY LifecycleAssumption
  <1>2. \A l \in Links : Com(l) \in Coms
    BY <1>1 DEF Links, Com, Coms, door, Serves, Vq
  <1>3. \A l \in Links, q \in {0, 1} : Doorbell(door, Vq(l, q)) = Com(l)
    BY <1>1, VectorFacts DEF Links, Com, Doorbell
  <1>4. ASSUME NEW l \in Links, NEW q \in {0, 1}
        PROVE  Vq(l, q) \in 0..(target.dev.ids.isr_count - 1)
    BY <1>1 DEF Links, Vq, RL_GET_VQ_ID, Serves, IsPlatform
  <1>5. \A l \in Links : CounterOf(l) \in Keys
    BY <1>2 DEF CounterOf, Keys
  <1>6. \A c \in Coms : LineOf(c) \in Keys
    BY DEF LineOf, Keys
  <1>7. rvq \in {0, 1} /\ tvq \in {0, 1} /\ rvq # tvq
    BY DEF rvq, tvq
  <1> QED
    BY <1>1, <1>2, <1>3, <1>4, <1>5, <1>6, <1>7
    DEF Links, Coms, Keys, switch, port, door, IsPlatform, IsPort

(* Nothing that depends on the target changes, because it does not.         *)
LEMMA TargetKept ==
    ASSUME target' = target
    PROVE  /\ Links' = Links /\ Coms' = Coms /\ Keys' = Keys /\ port' = port /\ mask' = mask
           /\ switch' = switch /\ boot' = boot /\ door' = door /\ rvq' = rvq /\ tvq' = tvq
           /\ \A l : Com(l)' = Com(l) /\ CounterOf(l)' = CounterOf(l)
           /\ \A c : LineOf(c)' = LineOf(c) /\ On(c)' = On(c) /\ By(c)' = By(c)
           /\ AttachedTwice' = AttachedTwice
  BY DEF Links, Coms, Keys, port, mask, switch, boot, door, rvq, tvq, Com, CounterOf, LineOf,
         On, By, AttachedTwice

(* What the steps are.                                                      *)
LEMMA StepFacts ==
    /\ Steps = {"create", "register0", "attach0", "register1", "attach1", "mask_r", "mask_t",
                "unmask_r", "none", "boot", "wait", "unmask_t", "kick", "up", "detach_t",
                "free", "deinit", "halt"}
    /\ After["create"] = "register0" /\ After["register0"] = "attach0"
    /\ After["attach0"] = "register1" /\ After["register1"] = "attach1"
    /\ After["attach1"] = "mask_r" /\ After["mask_r"] = "mask_t"
    /\ After["mask_t"] = "unmask_r" /\ After["unmask_r"] = "unmask_t"
    /\ Initialised = {"create", "register0", "attach0", "register1", "attach1", "mask_r",
                      "mask_t", "unmask_r", "unmask_t", "kick", "up", "detach_t"}
  BY DEF Steps, After, Initialised

-----------------------------------------------------------------------------
(* Counting.                                                                *)

(* The number of elements of K whose image is in X, when one image changes. *)
LEMMA OneMoves ==
    ASSUME NEW K, IsFiniteSet(K), NEW f, NEW g, NEW l \in K, NEW X,
           \A m \in K : m # l => g[m] = f[m]
    PROVE  /\ NumberIn(K, f, X) \in Nat
           /\ NumberIn(K, g, X) = NumberIn(K, f, X) - One(f[l], X) + One(g[l], X)
  <1> DEFINE F == {m \in K : f[m] \in X}
             G == {m \in K : g[m] \in X}
  <1>1. IsFiniteSet(F) /\ IsFiniteSet(G)
    BY FS_Subset
  <1>2. Cardinality(F) \in Nat /\ Cardinality(G) \in Nat
    BY <1>1, FS_CardinalityType
  <1> SUFFICES Cardinality(G) = Cardinality(F) - One(f[l], X) + One(g[l], X)
    BY <1>2 DEF NumberIn
  <1>3. CASE f[l] \in X <=> g[l] \in X
    <2>1. F = G
      BY <1>3
    <2>2. One(f[l], X) = One(g[l], X) /\ One(f[l], X) \in {0, 1}
      BY <1>3 DEF One
    <2> HIDE DEF F, G
    <2> QED
      BY <1>2, <2>1, <2>2
  <1>4. CASE f[l] \notin X /\ g[l] \in X
    <2>1. G = F \cup {l} /\ l \notin F
      BY <1>4
    <2>2. Cardinality(G) = Cardinality(F) + 1
      BY <1>1, <2>1, FS_AddElement
    <2> QED
      BY <1>2, <1>4, <2>2 DEF One
  <1>5. CASE f[l] \in X /\ g[l] \notin X
    <2>1. F = G \cup {l} /\ l \notin G
      BY <1>5
    <2>2. Cardinality(F) = Cardinality(G) + 1
      BY <1>1, <2>1, FS_AddElement
    <2> QED
      BY <1>2, <1>5, <2>2 DEF One
  <1> QED
    BY <1>3, <1>4, <1>5

(* The number of elements of K whose image is in X, when it is known.       *)
LEMMA OneCounts ==
    ASSUME NEW K, IsFiniteSet(K), NEW f, NEW X
    PROVE  LET n == NumberIn(K, f, X)
           IN  /\ n \in Nat
               /\ \A l \in K : n >= One(f[l], X)
               /\ \A l \in K : (\A m \in K : m = l) => n = One(f[l], X)
               /\ n > 0 => \E l \in K : f[l] \in X
  <1> DEFINE F == {m \in K : f[m] \in X}
  <1>1. IsFiniteSet(F) /\ Cardinality(F) \in Nat
    BY FS_Subset, FS_CardinalityType
  <1>2. F = {} => Cardinality(F) = 0
    BY FS_EmptySet
  <1>3. F # {} => Cardinality(F) > 0
    BY <1>1, FS_EmptySet
  <1>4. ASSUME NEW l \in K
        PROVE  Cardinality(F) >= One(f[l], X)
    <2>1. CASE f[l] \in X
      <3>1. F # {}
        BY <2>1
      <3> QED
        BY <1>1, <1>3, <2>1, <3>1 DEF One
    <2>2. CASE f[l] \notin X
      BY <1>1, <2>2 DEF One
    <2> QED
      BY <2>1, <2>2
  <1>5. ASSUME NEW l \in K, \A m \in K : m = l
        PROVE  Cardinality(F) = One(f[l], X)
    <2>1. CASE f[l] \in X
      <3>1. F = {l}
        BY <1>5, <2>1
      <3> QED
        BY <2>1, <3>1, FS_Singleton DEF One
    <2>2. CASE f[l] \notin X
      <3>1. F = {}
        BY <1>5, <2>2
      <3> QED
        BY <1>2, <2>2, <3>1 DEF One
    <2> QED
      BY <2>1, <2>2
  <1> QED
    BY <1>1, <1>2, <1>4, <1>5 DEF NumberIn

(* The counts in a state: what one task adds is in them.                    *)
LEMMA CountFacts ==
    ASSUME target \in Targets
    PROVE  /\ InUse \in Nat
           /\ \A l \in Links : InUse >= Uses(at[l])
           /\ \A c \in Coms : Attached(c) \in Nat
           /\ \A l \in Links : Attached(Com(l)) >= Attachment(at[l])
           /\ \A l \in Links : (\A k \in Links : Com(k) = Com(l) => k = l)
                                 => Attached(Com(l)) = Attachment(at[l])
           /\ \A k \in Keys : Masked(k) \in Nat
           /\ \A l \in Links : Masked(CounterOf(l)) >= Depth(at[l])
           /\ \A k \in Keys : Masked(k) > 0
                                 => \E l \in Links : CounterOf(l) = k /\ at[l] \in Masking
  <1>1. IsFiniteSet(Links)
    BY TargetFacts
  <1>2. /\ InUse \in Nat
        /\ \A l \in Links : InUse >= Uses(at[l])
    BY <1>1, OneCounts DEF InUse, Count, Uses
  <1>3. ASSUME NEW c
        PROVE  /\ IsFiniteSet(On(c)) /\ IsFiniteSet(By(c))
               /\ \A X : Count(On(c), X) \in Nat /\ Count(By(c), X) \in Nat
    <2>1. IsFiniteSet(On(c)) /\ IsFiniteSet(By(c))
      BY <1>1, FS_Subset DEF On, By
    <2> QED
      BY <2>1, OneCounts DEF Count
  <1>4. ASSUME NEW l \in Links
        PROVE  /\ Attached(Com(l)) >= Attachment(at[l])
               /\ Masked(CounterOf(l)) >= Depth(at[l])
    <2>1. l \in On(Com(l)) /\ l \in By(CounterOf(l))
      BY DEF On, By
    <2>2. ASSUME NEW X
          PROVE  /\ Count(On(Com(l)), X) >= One(at[l], X)
                 /\ Count(By(CounterOf(l)), X) >= One(at[l], X)
      BY <1>3, <2>1, OneCounts DEF Count
    <2>3. \A X : One(at[l], X) \in {0, 1}
      BY DEF One
    <2> QED
      BY <1>3, <2>2, <2>3 DEF Attached, Attachment, Masked, Depth
  <1>5. ASSUME NEW l \in Links, \A k \in Links : Com(k) = Com(l) => k = l
        PROVE  Attached(Com(l)) = Attachment(at[l])
    <2>1. l \in On(Com(l)) /\ \A m \in On(Com(l)) : m = l
      BY <1>5 DEF On
    <2>2. ASSUME NEW X
          PROVE  Count(On(Com(l)), X) = One(at[l], X)
      BY <1>3, <2>1, OneCounts DEF Count
    <2> QED
      BY <2>2 DEF Attached, Attachment
  <1>6. ASSUME NEW k \in Keys, Masked(k) > 0
        PROVE  \E l \in Links : CounterOf(l) = k /\ at[l] \in Masking
    <2>1. Count(By(k), Masking) > 0 \/ Count(By(k), {"unmask_r"}) > 0
      BY <1>3, <1>6 DEF Masked
    <2>2. \A X : Count(By(k), X) > 0 => \E l \in By(k) : at[l] \in X
      BY <1>3, OneCounts DEF Count
    <2> QED
      BY <2>1, <2>2 DEF By, Masking
  <1> QED
    BY <1>2, <1>3, <1>4, <1>5, <1>6 DEF Attached, Masked

(* What one task adds after a step is in the counts after it.               *)
LEMMA NextCountFacts ==
    ASSUME target \in Targets, target' = target
    PROVE  /\ \A l \in Links : InUse' >= Uses(at'[l])
           /\ \A l \in Links : Attached(Com(l))' >= Attachment(at'[l])
           /\ \A k \in Keys : Masked(k)' > 0
                                 => \E l \in Links : CounterOf(l) = k /\ at'[l] \in Masking
  <1>1. IsFiniteSet(Links) /\ Links' = Links
    BY TargetFacts, TargetKept
  <1>2. \A l \in Links : InUse' >= Uses(at'[l])
    BY <1>1, OneCounts DEF InUse, Count, Uses
  <1>3. ASSUME NEW l \in Links
        PROVE  Attached(Com(l))' >= Attachment(at'[l])
    <2> DEFINE K == On(Com(l))
    <2>1. l \in K /\ IsFiniteSet(K)
      BY <1>1, FS_Subset DEF On
    <2>2. /\ Com(l)' = Com(l) /\ On(Com(l))' = K
          /\ AttachedTwice' = AttachedTwice
      BY TargetKept DEF On
    <2>3. Attached(Com(l))' = NumberIn(K, at', AttachedOnce) + NumberIn(K, at', AttachedTwice)
      BY <2>2 DEF Attached, Count
    <2> HIDE DEF K
    <2>4. \A X : /\ NumberIn(K, at', X) \in Nat /\ NumberIn(K, at', X) >= One(at'[l], X)
                /\ One(at'[l], X) \in {0, 1}
      BY <2>1, OneCounts DEF One
    <2> QED
      BY <2>3, <2>4 DEF Attachment
  <1>4. ASSUME NEW k \in Keys, Masked(k)' > 0
        PROVE  \E l \in Links : CounterOf(l) = k /\ at'[l] \in Masking
    <2> DEFINE K == By(k)
    <2>1. IsFiniteSet(K)
      BY <1>1, FS_Subset DEF By
    <2>2. By(k)' = K
      BY TargetKept
    <2>3. Masked(k)' = NumberIn(K, at', Masking) + NumberIn(K, at', {"unmask_r"})
      BY <2>2 DEF Masked, Count
    <2> HIDE DEF K
    <2>4. ASSUME NEW X
          PROVE  /\ NumberIn(K, at', X) \in Nat
                 /\ NumberIn(K, at', X) > 0 => \E l \in K : at'[l] \in X
      BY <2>1, OneCounts
    <2>5. NumberIn(K, at', Masking) \in Nat /\ NumberIn(K, at', {"unmask_r"}) \in Nat
      BY <2>4
    <2>6. NumberIn(K, at', Masking) > 0 \/ NumberIn(K, at', {"unmask_r"}) > 0
      BY <1>4, <2>3, <2>5
    <2>7. \E l \in K : at'[l] \in Masking \/ at'[l] \in {"unmask_r"}
      BY <2>4, <2>6
    <2> QED
      BY <2>7 DEF By, K, Masking
  <1> QED
    BY <1>2, <1>3, <1>4

(* The counts when one task goes on to step s.                              *)
LEMMA CountSteps ==
    ASSUME target \in Targets, target' = target, at \in [Links -> Steps],
           NEW l \in Links, NEW s, Goto(l, s)
    PROVE  /\ InUse' = InUse - Uses(at[l]) + Uses(s)
           /\ \A c \in Coms : Attached(c)' =
                 IF c = Com(l) THEN Attached(c) - Attachment(at[l]) + Attachment(s)
                               ELSE Attached(c)
           /\ \A k \in Keys : Masked(k)' =
                 IF k = CounterOf(l) THEN Masked(k) - Depth(at[l]) + Depth(s) ELSE Masked(k)
  <1>1. IsFiniteSet(Links) /\ Links' = Links
    BY TargetFacts, TargetKept
  <1>2. at'[l] = s /\ \A m \in Links : m # l => at'[m] = at[m]
    BY DEF Goto
  <1>3. ASSUME NEW K, K \subseteq Links, NEW X
        PROVE  /\ NumberIn(K, at, X) \in Nat
               /\ NumberIn(K, at', X) =
                    IF l \in K THEN NumberIn(K, at, X) - One(at[l], X) + One(s, X)
                               ELSE NumberIn(K, at, X)
    <2>1. IsFiniteSet(K)
      BY <1>1, <1>3, FS_Subset
    <2>2. CASE l \in K
      <3>1. \A m \in K : m # l => at'[m] = at[m]
        BY <1>2, <1>3
      <3>2. ASSUME NEW f, NEW g, \A m \in K : m # l => g[m] = f[m]
            PROVE  /\ NumberIn(K, f, X) \in Nat
                   /\ NumberIn(K, g, X) = NumberIn(K, f, X) - One(f[l], X) + One(g[l], X)
        BY <2>1, <2>2, <3>2, OneMoves
      <3>3. /\ NumberIn(K, at, X) \in Nat
            /\ NumberIn(K, at', X) = NumberIn(K, at, X) - One(at[l], X) + One(at'[l], X)
        BY <3>1, <3>2
      <3> QED
        BY <1>2, <2>2, <3>3
    <2>3. CASE l \notin K
      <3>1. NumberIn(K, at', X) = NumberIn(K, at, X)
        <4>1. {m \in K : at'[m] \in X} = {m \in K : at[m] \in X}
          BY <1>2, <1>3, <2>3
        <4> QED
          BY <4>1 DEF NumberIn
      <3>2. NumberIn(K, at, X) \in Nat
        BY <2>1, OneCounts
      <3> QED
        BY <2>3, <3>1, <3>2
    <2> QED
      BY <2>2, <2>3
  <1>4. InUse' = InUse - Uses(at[l]) + Uses(s)
    BY <1>1, <1>3 DEF InUse, Count, Uses
  <1>5. ASSUME NEW c \in Coms
        PROVE  Attached(c)' =
                 IF c = Com(l) THEN Attached(c) - Attachment(at[l]) + Attachment(s)
                               ELSE Attached(c)
    <2>1. On(c)' = On(c) /\ AttachedTwice' = AttachedTwice
      BY TargetKept
    <2>2. On(c) \subseteq Links /\ (l \in On(c) <=> c = Com(l))
      BY DEF On
    <2>3. /\ Count(On(c), AttachedOnce)' = NumberIn(On(c), at', AttachedOnce)
          /\ Count(On(c), AttachedTwice)' = NumberIn(On(c), at', AttachedTwice)
      BY <2>1 DEF Count
    <2>4. Count(On(c), AttachedOnce) \in Nat /\ Count(On(c), AttachedTwice) \in Nat
      BY <1>3, <2>2 DEF Count
    <2>5. \A x, X : One(x, X) \in {0, 1}
      BY DEF One
    <2>6. ASSUME NEW X
          PROVE  NumberIn(On(c), at', X) =
                   IF c = Com(l) THEN Count(On(c), X) - One(at[l], X) + One(s, X)
                                 ELSE Count(On(c), X)
      BY <1>3, <2>2 DEF Count
    <2>7. CASE c = Com(l)
      <3>1. /\ Count(On(c), AttachedOnce)' = Count(On(c), AttachedOnce) - One(at[l], AttachedOnce) + One(s, AttachedOnce)
            /\ Count(On(c), AttachedTwice)' = Count(On(c), AttachedTwice) - One(at[l], AttachedTwice) + One(s, AttachedTwice)
        BY <2>3, <2>6, <2>7
      <3> QED
        BY <2>4, <2>5, <2>7, <3>1 DEF Attached, Attachment
    <2>8. CASE c # Com(l)
      <3>1. /\ Count(On(c), AttachedOnce)' = Count(On(c), AttachedOnce)
            /\ Count(On(c), AttachedTwice)' = Count(On(c), AttachedTwice)
        BY <2>3, <2>6, <2>8
      <3> QED
        BY <2>8, <3>1 DEF Attached, Attachment
    <2> QED
      BY <2>7, <2>8
  <1>6. ASSUME NEW k \in Keys
        PROVE  Masked(k)' =
                 IF k = CounterOf(l) THEN Masked(k) - Depth(at[l]) + Depth(s) ELSE Masked(k)
    <2>1. By(k)' = By(k)
      BY TargetKept
    <2>2. By(k) \subseteq Links /\ (l \in By(k) <=> k = CounterOf(l))
      BY DEF By
    <2>3. /\ Count(By(k), Masking)' = NumberIn(By(k), at', Masking)
          /\ Count(By(k), {"unmask_r"})' = NumberIn(By(k), at', {"unmask_r"})
      BY <2>1 DEF Count
    <2>4. Count(By(k), Masking) \in Nat /\ Count(By(k), {"unmask_r"}) \in Nat
      BY <1>3, <2>2 DEF Count
    <2>5. \A x, X : One(x, X) \in {0, 1}
      BY DEF One
    <2>6. ASSUME NEW X
          PROVE  NumberIn(By(k), at', X) =
                   IF k = CounterOf(l) THEN Count(By(k), X) - One(at[l], X) + One(s, X)
                                       ELSE Count(By(k), X)
      BY <1>3, <2>2 DEF Count
    <2>7. CASE k = CounterOf(l)
      <3>1. /\ Count(By(k), Masking)' = Count(By(k), Masking) - One(at[l], Masking) + One(s, Masking)
            /\ Count(By(k), {"unmask_r"})' = Count(By(k), {"unmask_r"}) - One(at[l], {"unmask_r"}) + One(s, {"unmask_r"})
        BY <2>3, <2>6, <2>7
      <3> QED
        BY <2>4, <2>5, <2>7, <3>1 DEF Masked, Depth
    <2>8. CASE k # CounterOf(l)
      <3>1. /\ Count(By(k), Masking)' = Count(By(k), Masking)
            /\ Count(By(k), {"unmask_r"})' = Count(By(k), {"unmask_r"})
        BY <2>3, <2>6, <2>8
      <3> QED
        BY <2>8, <3>1 DEF Masked, Depth
    <2> QED
      BY <2>7, <2>8
  <1> QED
    BY <1>4, <1>5, <1>6

(* What a task at each step adds to the counts.                             *)
LEMMA Weights ==
    ASSUME target \in Targets
    PROVE  /\ \A s \in Steps : Uses(s) = IF s = "none" THEN 0 ELSE 1
           /\ \A s \in {"none", "boot", "wait", "create", "register0", "attach0", "free",
                        "deinit", "halt"} : Attachment(s) = 0
           /\ \A s \in {"register1", "attach1"} : Attachment(s) = 1
           /\ \A s \in {"mask_r", "mask_t", "unmask_r", "unmask_t", "kick", "up"} :
                 Attachment(s) = 2
           /\ Attachment("detach_t") = IF switch.back < 0 THEN 1 ELSE 2
           /\ \A s \in Steps \ {"mask_t", "unmask_r", "unmask_t"} : Depth(s) = 0
           /\ Depth("mask_t") = 1 /\ Depth("unmask_r") = 2 /\ Depth("unmask_t") = 1
  <1>1. \A s \in Steps : Uses(s) = IF s = "none" THEN 0 ELSE 1
    BY DEF Uses, One, Inside
  <1>2. \A s : Attachment(s) = (IF s \in AttachedOnce THEN 1 ELSE 0)
                                 + (IF s \in AttachedTwice THEN 1 ELSE 0)
    BY DEF Attachment, One
  <1>3. \A s : Depth(s) = (IF s \in Masking THEN 1 ELSE 0) + (IF s = "unmask_r" THEN 1 ELSE 0)
    BY DEF Depth, One
  <1>4. switch.back < 0 \/ ~(switch.back < 0)
    OBVIOUS
  <1> QED
    BY <1>1, <1>2, <1>3, <1>4 DEF AttachedOnce, AttachedTwice, Masking

(* What OwnSwitch says of the target.                                       *)
LEMMA SwitchFacts ==
    ASSUME target \in Targets, OwnSwitch(target)
    PROVE  /\ switch.on = "line" \/ switch.off = "line" =>
                 \A b, c \in Coms : LineOf(b) = LineOf(c) => b = c
           /\ switch.on = "com" => switch.limit > 0
           /\ switch.on = "queue" =>
                 /\ switch.limit = 2 /\ switch.back = -1
                 /\ \A k, l \in Links : Com(k) = Com(l) => k = l \/ Com(l) \in switch.both
           /\ \A k, l \in Links : CounterOf(k) = CounterOf(l) => SharesLine(k, l)
           /\ mask.counter = mask.line => \A l \in Links : CounterOf(l) = LineOf(Com(l))
  <1>1. mask.counter \in {"core", "com"} /\ mask.line \in {"core", "com"}
    BY LifecycleAssumption DEF mask, IsPlatform
  <1>2. \A l : Com(l) = Doorbell(target.dev.irq.door, RL_GET_VQ_ID(l, 0))
    BY DEF Com, door, Vq
  <1>3. /\ switch.on = "line" \/ switch.off = "line" =>
              mask.line = "com" \/ \A b, c \in Coms : b = c
        /\ switch.on = "com" => switch.limit > 0
        /\ switch.on = "queue" =>
              /\ switch.limit = 2 /\ switch.back = -1
              /\ \A k, l \in Links : Com(k) = Com(l) => k = l \/ Com(l) \in switch.both
        /\ mask.counter = "core" => mask.line = "core"
    BY <1>2 DEF OwnSwitch, switch, mask, Coms, door, Links
  <1>4. \A k, l \in Links : CounterOf(k) = CounterOf(l) => SharesLine(k, l)
    BY <1>1, <1>3 DEF CounterOf, SharesLine, LineOf
  <1>5. mask.counter = mask.line => \A l \in Links : CounterOf(l) = LineOf(Com(l))
    BY <1>1 DEF CounterOf, LineOf
  <1>6. switch.on = "line" \/ switch.off = "line" =>
           \A b, c \in Coms : LineOf(b) = LineOf(c) => b = c
    BY <1>3 DEF LineOf
  <1> QED
    BY <1>3, <1>4, <1>5, <1>6

-----------------------------------------------------------------------------
(* The invariant under each action.                                         *)

(* The semaphore of env_init is created empty on every target that has more *)
(* than one link.                                                           *)
Gated == \A t \in Targets : GatedInit(t)

(* The types of the variables, as the other proofs use them.                *)
LEMMA Types ==
    ASSUME FullType
    PROVE  /\ target \in Targets
           /\ env_init_counter \in Nat
           /\ env_sema \in {-1, port.sema, port.sema + 1} /\ env_sema \in -1..2
           /\ platform_lock \in BOOLEAN /\ out \in BOOLEAN /\ failed \in BOOLEAN
           /\ isr_counter \in [Coms -> Nat] /\ disable_counter \in [Keys -> Nat]
           /\ bell \in [Coms -> SUBSET {Vq(l, q) : l \in Links, q \in {0, 1}}]
           /\ at \in [Links -> Steps]
           /\ vqs \subseteq Links /\ link_state \subseteq Links
  BY DEF FullType, TypeOK

(* One task goes on to step s: the others stay where they are, and the      *)
(* counts change by what the task adds to them.                             *)
LEMMA TaskSteps ==
    ASSUME IInv, NEW l \in Links, NEW s \in Steps, Goto(l, s), target' = target
    PROVE  /\ at' \in [Links -> Steps] /\ at'[l] = s
           /\ \A k \in Links : k # l => at'[k] = at[k]
           /\ Com(l) \in Coms /\ CounterOf(l) \in Keys
           /\ InUse \in Nat /\ InUse' = InUse - Uses(at[l]) + Uses(s)
           /\ \A c \in Coms : /\ Attached(c) \in Nat
                              /\ Attached(c)' =
                                   IF c = Com(l)
                                   THEN Attached(c) - Attachment(at[l]) + Attachment(s)
                                   ELSE Attached(c)
           /\ \A k \in Keys : /\ Masked(k) \in Nat
                              /\ Masked(k)' =
                                   IF k = CounterOf(l)
                                   THEN Masked(k) - Depth(at[l]) + Depth(s)
                                   ELSE Masked(k)
  <1>1. target \in Targets /\ at \in [Links -> Steps]
    BY Types DEF IInv
  <1>2. at' \in [Links -> Steps] /\ at'[l] = s /\ \A k \in Links : k # l => at'[k] = at[k]
    BY <1>1 DEF Goto
  <1> QED
    BY <1>1, <1>2, CountFacts, CountSteps, TargetFacts

(* A step that attaches, detaches, masks and unmasks nothing.               *)
LEMMA QuietCounts ==
    ASSUME IInv, NEW l \in Links, NEW s \in Steps, Goto(l, s), target' = target,
           UNCHANGED <<isr_counter, disable_counter>>, ~failed' => ~failed,
           Attachment(s) = Attachment(at[l]), Depth(s) = Depth(at[l]),
           Attachment(s) \in Nat, Depth(s) \in Nat
    PROVE  Attachments' /\ Masks'
  <1>1. /\ \A c \in Coms : Attached(c)' = Attached(c)
        /\ \A k \in Keys : Masked(k)' = Masked(k)
    BY TaskSteps
  <1> QED
    BY <1>1, TargetKept DEF IInv, Attachments, Masks

(* The same for the sources and the line: the task was not in a place where *)
(* others may rely on its mask, and does not come to rely on more itself.   *)
LEMMA QuietSwitches ==
    ASSUME IInv, NEW l \in Links, NEW s \in Steps, Goto(l, s), target' = target,
           UNCHANGED <<isr_counter, disable_counter, sources, line>>, ~failed' => ~failed,
           s \in AttachedOnce \ {"detach_t"} => at[l] \in AttachedOnce \ {"detach_t"},
           s \in AttachedTwice => at[l] \in AttachedTwice,
           s \in {"kick", "up"} => at[l] \in {"kick", "up"},
           at[l] \notin Masking
    PROVE  OwnSwitch(target) => Sources' /\ Lines' /\ NestedMasks'
  <1> SUFFICES ASSUME OwnSwitch(target)
               PROVE  Sources' /\ Lines' /\ NestedMasks'
    OBVIOUS
  <1>1. at'[l] = s /\ \A k \in Links : k # l => at'[k] = at[k]
    BY TaskSteps
  <1>2. Sources'
    BY <1>1, TargetKept DEF IInv, Sources, Together, AttachedOnce
  <1>3. Lines'
    BY <1>1, TargetKept DEF IInv, Lines, SharesLine
  <1>4. NestedMasks'
    BY TargetKept DEF IInv, NestedMasks
  <1> QED
    BY <1>2, <1>3, <1>4

(* The virtqueues and the mutex exist.                                      *)
LEMMA CreateInv ==
    ASSUME IInv, NEW l \in Links, Create(l)
    PROVE  IInv'
  <1> DEFINE s == "register0"
  <1>1. /\ at[l] = "create" /\ s \in Steps /\ Goto(l, s) /\ vqs' = vqs \cup {l}
        /\ UNCHANGED <<target, env_init_counter, env_sema, platform_lock, isr_table, isr_counter,
                       sources, disable_counter, line, bell, link_state, out, failed, inits,
                       rings>>
    BY StepFacts DEF Create, Follow, environment, interrupt, bounds
  <1>2. /\ target \in Targets
        /\ Uses(at[l]) = 1 /\ Uses(s) = 1
        /\ Attachment(at[l]) = 0 /\ Attachment(s) = 0 /\ Depth(at[l]) = 0 /\ Depth(s) = 0
    BY <1>1, Weights, StepFacts, Types DEF IInv
  <1>3. /\ at' \in [Links -> Steps] /\ at'[l] = s /\ \A k \in Links : k # l => at'[k] = at[k]
        /\ InUse' = InUse
    BY <1>1, <1>2, TaskSteps
  <1>4. FullType'
    BY <1>1, <1>3, TargetKept DEF IInv, FullType, TypeOK
  <1>5. Users'
    BY <1>1, <1>3 DEF IInv, Users
  <1>6. Booting'
    BY <1>1, <1>3, TargetKept DEF IInv, Booting
  <1>7. Gate'
    BY <1>1, <1>3, TargetKept DEF IInv, Gate
  <1>8. Table'
    BY <1>1, <1>3, TargetKept DEF IInv, Table, Registered, WithVqs
  <1>9. Attachments' /\ Masks'
    BY <1>1, <1>2, QuietCounts
  <1>10. MasterUp' /\ Bells'
    BY <1>1, <1>3, TargetKept DEF IInv, MasterUp, Bells
  <1>11. OwnSwitch(target) => Sources' /\ Lines' /\ NestedMasks'
    BY <1>1, QuietSwitches DEF AttachedOnce, AttachedTwice, Masking
  <1> QED
    BY <1>1, <1>4, <1>5, <1>6, <1>7, <1>8, <1>9, <1>10, <1>11 DEF IInv

(* One of them cannot be created: env_init_counter stays raised.            *)
LEMMA CreateFailsInv ==
    ASSUME IInv, NEW l \in Links, CreateFails(l)
    PROVE  IInv'
  <1> DEFINE s == "none"
  <1>1. /\ at[l] = "create" /\ s \in Steps /\ Goto(l, s)
        /\ UNCHANGED <<target, env_init_counter, env_sema, platform_lock, isr_table, isr_counter,
                       sources, disable_counter, line, bell, vqs, link_state, out, failed, inits,
                       rings>>
    BY StepFacts DEF CreateFails, environment, interrupt, bounds
  <1>2. /\ target \in Targets /\ env_init_counter \in Nat
        /\ Uses(at[l]) = 1 /\ Uses(s) = 0
        /\ Attachment(at[l]) = 0 /\ Attachment(s) = 0 /\ Depth(at[l]) = 0 /\ Depth(s) = 0
    BY <1>1, Weights, StepFacts, Types DEF IInv
  <1>3. /\ at' \in [Links -> Steps] /\ at'[l] = s /\ \A k \in Links : k # l => at'[k] = at[k]
        /\ InUse \in Nat /\ InUse' = InUse - 1
    BY <1>1, <1>2, TaskSteps
  <1>4. FullType'
    BY <1>1, <1>3, TargetKept DEF IInv, FullType, TypeOK
  <1>5. Users'
    BY <1>1, <1>2, <1>3 DEF IInv, Users
  <1>6. Booting'
    BY <1>1, <1>3, TargetKept DEF IInv, Booting
  <1>7. Gate'
    BY <1>1, <1>3, TargetKept DEF IInv, Gate
  <1>8. Table'
    BY <1>1, <1>3, TargetKept DEF IInv, Table, Registered, WithVqs
  <1>9. Attachments' /\ Masks'
    BY <1>1, <1>2, QuietCounts
  <1>10. MasterUp' /\ Bells'
    BY <1>1, <1>3, TargetKept DEF IInv, MasterUp, Bells
  <1>11. OwnSwitch(target) => Sources' /\ Lines' /\ NestedMasks'
    BY <1>1, QuietSwitches DEF AttachedOnce, AttachedTwice, Masking
  <1> QED
    BY <1>1, <1>4, <1>5, <1>6, <1>7, <1>8, <1>9, <1>10, <1>11 DEF IInv

(* A caller of env_init that waited gets the semaphore: the lock exists.    *)
LEMMA EnvInitWaitInv ==
    ASSUME IInv, NEW l \in Links, EnvInitWait(l)
    PROVE  IInv'
  <1> DEFINE s == "create"
  <1>1. /\ at[l] = "wait" /\ s \in Steps /\ Goto(l, s) /\ (env_sema > 0 \/ env_sema = -1)
        /\ UNCHANGED <<target, env_init_counter, env_sema, platform_lock, isr_table, isr_counter,
                       sources, disable_counter, line, bell, vqs, link_state, out, failed, inits,
                       rings>>
    BY StepFacts DEF EnvInitWait, environment, interrupt, bounds
  <1>2. /\ target \in Targets /\ env_init_counter \in Nat /\ env_sema \in -1..2
        /\ Uses(at[l]) = 1 /\ Uses(s) = 1
        /\ Attachment(at[l]) = 0 /\ Attachment(s) = 0 /\ Depth(at[l]) = 0 /\ Depth(s) = 0
    BY <1>1, Weights, StepFacts, Types DEF IInv
  <1>3. /\ at' \in [Links -> Steps] /\ at'[l] = s /\ \A k \in Links : k # l => at'[k] = at[k]
        /\ InUse \in Nat /\ InUse' = InUse
    BY <1>1, <1>2, TaskSteps
  <1>4. ~failed => platform_lock
    <2>1. env_init_counter > 0
      BY <1>2, <1>3, CountFacts DEF IInv, Users
    <2>2. ~failed => env_sema > 0
      BY <1>1, <1>2, <2>1 DEF IInv, Gate
    <2> QED
      BY <1>1, <2>2 DEF IInv, Gate
  <1>5. FullType'
    BY <1>1, <1>3, TargetKept DEF IInv, FullType, TypeOK
  <1>6. Users'
    BY <1>1, <1>2, <1>3 DEF IInv, Users
  <1>7. Booting'
    BY <1>1, <1>3, <1>4, TargetKept DEF IInv, Booting
  <1>8. Gate'
    BY <1>1, <1>3, <1>4, TargetKept DEF IInv, Gate
  <1>9. Table'
    BY <1>1, <1>3, TargetKept DEF IInv, Table, Registered, WithVqs
  <1>10. Attachments' /\ Masks'
    BY <1>1, <1>2, QuietCounts
  <1>11. MasterUp' /\ Bells'
    BY <1>1, <1>3, TargetKept DEF IInv, MasterUp, Bells
  <1>12. OwnSwitch(target) => Sources' /\ Lines' /\ NestedMasks'
    BY <1>1, QuietSwitches DEF AttachedOnce, AttachedTwice, Masking
  <1> QED
    BY <1>1, <1>5, <1>6, <1>7, <1>8, <1>9, <1>10, <1>11, <1>12 DEF IInv

(* The first kick of the master.                                            *)
LEMMA KickInv ==
    ASSUME IInv, NEW l \in Links, Kick(l)
    PROVE  IInv'
  <1> DEFINE s == IF platform_lock THEN "up" ELSE "halt"
  <1>1. /\ at[l] = "kick" /\ s \in Steps /\ Goto(l, s) /\ out' \in BOOLEAN
        /\ UNCHANGED <<target, env_init_counter, env_sema, platform_lock, isr_table, isr_counter,
                       sources, disable_counter, line, bell, vqs, link_state, failed, inits,
                       rings>>
    BY StepFacts DEF Kick, environment, interrupt, bounds
  <1>2. /\ target \in Targets /\ env_init_counter \in Nat
        /\ Uses(at[l]) = 1 /\ Uses(s) = 1 /\ Depth(at[l]) = 0 /\ Depth(s) = 0
    BY <1>1, Weights, StepFacts, Types DEF IInv
  <1>3. /\ at' \in [Links -> Steps] /\ at'[l] = s /\ \A k \in Links : k # l => at'[k] = at[k]
        /\ InUse \in Nat /\ InUse' = InUse
    BY <1>1, <1>2, TaskSteps
  <1>4. ~failed => platform_lock /\ s = "up"
    BY <1>1 DEF IInv, Gate
  <1>5. FullType'
    BY <1>1, <1>3, TargetKept DEF IInv, FullType, TypeOK
  <1>6. Users'
    BY <1>1, <1>2, <1>3 DEF IInv, Users
  <1>7. Booting'
    BY <1>1, <1>3, TargetKept DEF IInv, Booting
  <1>8. Gate'
    BY <1>1, <1>3, <1>4, TargetKept DEF IInv, Gate
  <1>9. Table'
    BY <1>1, <1>3, <1>4, TargetKept DEF IInv, Table, Registered, WithVqs
  <1>10. Attachments'
    <2>1. ASSUME ~failed
          PROVE  \A c \in Coms : Attached(c)' = Attached(c)
      <3>1. Attachment(at[l]) = 2 /\ Attachment(s) = 2
        BY <1>1, <1>2, <1>4, <2>1, Weights
      <3> QED
        BY <1>1, <1>2, <3>1, TaskSteps
    <2> QED
      BY <1>1, <2>1, TargetKept DEF IInv, Attachments
  <1>11. Masks'
    <2>1. \A k \in Keys : Masked(k)' = Masked(k)
      BY <1>1, <1>2, TaskSteps
    <2> QED
      BY <1>1, <2>1, TargetKept DEF IInv, Masks
  <1>12. MasterUp' /\ Bells'
    BY <1>1, <1>3, TargetKept DEF IInv, MasterUp, Bells
  <1>13. OwnSwitch(target) => Sources' /\ Lines' /\ NestedMasks'
    BY <1>1, QuietSwitches DEF AttachedOnce, AttachedTwice, Masking
  <1> QED
    BY <1>1, <1>5, <1>6, <1>7, <1>8, <1>9, <1>10, <1>11, <1>12, <1>13 DEF IInv

(* env_register_isr, unless platform_init_interrupt has returned before it. *)
LEMMA RegisterInv ==
    ASSUME IInv, NEW l \in Links, NEW q \in {0, 1}, env_register_isr(l, q)
    PROVE  IInv'
  <1> DEFINE s == IF q = 0 THEN "attach0" ELSE "attach1"
  <1>1. /\ at[l] = (IF q = 0 THEN "register0" ELSE "register1") /\ s \in Steps /\ Goto(l, s)
        /\ isr_table' = IF Returns THEN isr_table ELSE isr_table \cup {Vq(l, q)}
        /\ UNCHANGED <<target, env_init_counter, env_sema, platform_lock, isr_counter, sources,
                       disable_counter, line, bell, vqs, link_state, out, failed, inits, rings>>
    BY StepFacts DEF env_register_isr, Follow, environment, bounds
  <1>2. /\ target \in Targets /\ env_init_counter \in Nat
        /\ Uses(at[l]) = 1 /\ Uses(s) = 1 /\ Depth(at[l]) = 0 /\ Depth(s) = 0
        /\ Attachment(s) = Attachment(at[l]) /\ Attachment(s) \in Nat
    BY <1>1, Weights, StepFacts, Types DEF IInv
  <1>3. /\ at' \in [Links -> Steps] /\ at'[l] = s /\ \A k \in Links : k # l => at'[k] = at[k]
        /\ InUse \in Nat /\ InUse' = InUse
    BY <1>1, <1>2, TaskSteps
  <1>4. (~failed => platform_lock) /\ (Returns <=> target.dev.irq.check /\ ~platform_lock)
    BY <1>1 DEF IInv, Gate, Returns
  <1>5. FullType'
    <2>1. Vq(l, q) \in 0..(target.dev.ids.isr_count - 1)
      BY <1>2, TargetFacts
    <2>2. isr_table' \subseteq 0..(target.dev.ids.isr_count - 1)
      <3>1. isr_table \subseteq 0..(target.dev.ids.isr_count - 1)
        BY DEF IInv, FullType, TypeOK
      <3> QED
        BY <1>1, <2>1, <3>1
    <2> QED
      BY <1>1, <1>3, <2>2, TargetKept DEF IInv, FullType, TypeOK
  <1>6. Users'
    BY <1>1, <1>2, <1>3 DEF IInv, Users
  <1>7. Booting'
    BY <1>1, <1>3, TargetKept DEF IInv, Booting
  <1>8. Gate'
    BY <1>1, <1>3, <1>4, TargetKept DEF IInv, Gate
  <1>9. Table'
    <2>1. \A p \in {0, 1} : /\ at[l] \in Registered(p) => at'[l] \in Registered(p)
                            /\ at'[l] \in Registered(p) => p = q \/ at[l] \in Registered(p)
      BY <1>1, <1>3 DEF Registered
    <2>2. at'[l] \in Registered(q) /\ at[l] # "halt" /\ l \in vqs
      BY <1>1, <1>3 DEF Registered, IInv, Table, WithVqs
    <2>3. \A p \in {0, 1} : Registered(p)' = Registered(p)
      BY <1>1, TargetKept DEF Registered
    <2>4. \A v \in isr_table' : \E k \in Links, p \in {0, 1} :
             v = Vq(k, p) /\ at'[k] \in Registered(p) \cup {"halt"}
      BY <1>1, <1>3, <2>1, <2>2 DEF IInv, Table
    <2>5. ~failed => \A k \in Links, p \in {0, 1} :
             at'[k] \in Registered(p) => Vq(k, p) \in isr_table'
      BY <1>1, <1>3, <1>4, <2>1 DEF IInv, Table
    <2>6. target.dev.irq.check /\ ~platform_lock => isr_table' = {}
      BY <1>1, <1>4 DEF IInv, Table
    <2> QED
      BY <1>1, <1>3, <2>2, <2>3, <2>4, <2>5, <2>6, TargetKept DEF IInv, Table
  <1>10. Attachments' /\ Masks'
    BY <1>1, <1>2, QuietCounts
  <1>11. MasterUp' /\ Bells'
    BY <1>1, <1>3, TargetKept DEF IInv, MasterUp, Bells
  <1>12. OwnSwitch(target) => Sources' /\ Lines' /\ NestedMasks'
    BY <1>1, QuietSwitches DEF AttachedOnce, AttachedTwice, Masking
  <1> QED
    BY <1>1, <1>5, <1>6, <1>7, <1>8, <1>9, <1>10, <1>11, <1>12 DEF IInv

(* The virtqueues are freed: neither is in isr_table any more.              *)
LEMMA FreeInv ==
    ASSUME IInv, NEW l \in Links, Free(l)
    PROVE  IInv'
  <1> DEFINE s == "deinit"
  <1>1. /\ at[l] = "free" /\ s \in Steps /\ Goto(l, s)
        /\ link_state' = link_state \ {l} /\ vqs' = vqs \ {l}
        /\ UNCHANGED <<target, env_init_counter, env_sema, platform_lock, isr_table, isr_counter,
                       sources, disable_counter, line, bell, out, failed, inits, rings>>
    BY StepFacts DEF Free, environment, interrupt, bounds
  <1>2. /\ target \in Targets /\ env_init_counter \in Nat
        /\ Uses(at[l]) = 1 /\ Uses(s) = 1
        /\ Attachment(at[l]) = 0 /\ Attachment(s) = 0 /\ Depth(at[l]) = 0 /\ Depth(s) = 0
    BY <1>1, Weights, StepFacts, Types DEF IInv
  <1>3. /\ at' \in [Links -> Steps] /\ at'[l] = s /\ \A k \in Links : k # l => at'[k] = at[k]
        /\ InUse \in Nat /\ InUse' = InUse
    BY <1>1, <1>2, TaskSteps
  <1>4. FullType'
    BY <1>1, <1>3, TargetKept DEF IInv, FullType, TypeOK
  <1>5. Users'
    BY <1>1, <1>3 DEF IInv, Users
  <1>6. Booting'
    BY <1>1, <1>3, TargetKept DEF IInv, Booting
  <1>7. Gate'
    BY <1>1, <1>3, TargetKept DEF IInv, Gate
  <1>8. Table'
    BY <1>1, <1>3, TargetKept DEF IInv, Table, Registered, WithVqs
  <1>9. Attachments' /\ Masks'
    BY <1>1, <1>2, QuietCounts
  <1>10. MasterUp' /\ Bells'
    BY <1>1, <1>3, TargetKept DEF IInv, MasterUp, Bells
  <1>11. OwnSwitch(target) => Sources' /\ Lines' /\ NestedMasks'
    BY <1>1, QuietSwitches DEF AttachedOnce, AttachedTwice, Masking
  <1> QED
    BY <1>1, <1>4, <1>5, <1>6, <1>7, <1>8, <1>9, <1>10, <1>11 DEF IInv

(* env_deinit: when the counter reaches zero nobody else is in the library. *)
LEMMA EnvDeinitInv ==
    ASSUME IInv, NEW l \in Links, EnvDeinit(l)
    PROVE  IInv'
  <1> DEFINE s == "none"
             last == env_init_counter' <= 0
  <1>1. /\ at[l] = "deinit" /\ s \in Steps /\ Goto(l, s)
        /\ env_init_counter' = env_init_counter - 1
        /\ \/ /\ last /\ platform_lock' = FALSE /\ env_sema' = -1
              /\ isr_table' \in {isr_table, {}}
           \/ ~last /\ UNCHANGED <<isr_table, platform_lock, env_sema>>
        /\ UNCHANGED <<target, isr_counter, sources, disable_counter, line, bell, vqs,
                       link_state, out, failed, inits, rings>>
    BY StepFacts DEF EnvDeinit, Last, bounds
  <1>2. /\ target \in Targets /\ env_init_counter \in Nat
        /\ Uses(at[l]) = 1 /\ Uses(s) = 0
        /\ Attachment(at[l]) = 0 /\ Attachment(s) = 0 /\ Depth(at[l]) = 0 /\ Depth(s) = 0
    BY <1>1, Weights, StepFacts, Types DEF IInv
  <1>3. /\ at' \in [Links -> Steps] /\ at'[l] = s /\ \A k \in Links : k # l => at'[k] = at[k]
        /\ InUse \in Nat /\ InUse' = InUse - 1
    BY <1>1, <1>2, TaskSteps
  <1>4. InUse' \in Nat /\ env_init_counter' \in Nat
    <2>1. InUse >= 1
      BY <1>2, <1>3, CountFacts
    <2> QED
      BY <1>1, <1>2, <1>3, <2>1 DEF IInv, Users
  <1>5. ASSUME last
        PROVE  ~failed /\ \A k \in Links : at'[k] = "none"
    <2>1. env_init_counter' = 0 /\ InUse' = 0 /\ ~failed
      BY <1>1, <1>2, <1>3, <1>4, <1>5 DEF IInv, Users
    <2>2. \A k \in Links : InUse' >= Uses(at'[k])
      BY <1>1, <1>2, NextCountFacts
    <2> QED
      BY <1>2, <1>3, <2>1, <2>2, Weights
  <1>6. FullType'
    <2>1. /\ isr_table' \subseteq 0..(target.dev.ids.isr_count - 1)
          /\ platform_lock' \in BOOLEAN
      <3>1. isr_table \subseteq 0..(target.dev.ids.isr_count - 1) /\ platform_lock \in BOOLEAN
        BY DEF IInv, FullType, TypeOK
      <3> HIDE DEF last
      <3> QED
        BY <1>1, <3>1
    <2>2. env_sema' \in {-1, port.sema, port.sema + 1} /\ env_sema' \in -1..2
      BY <1>1, Types DEF IInv
    <2> QED
      BY <1>1, <1>3, <1>4, <2>1, <2>2, TargetKept DEF IInv, FullType, TypeOK
  <1>7. Users'
    BY <1>1, <1>2, <1>3, <1>4, <1>5 DEF IInv, Users
  <1>8. Booting'
    BY <1>1, <1>3, <1>5, TargetKept DEF IInv, Booting
  <1>9. Gate'
    BY <1>1, <1>2, <1>3, <1>4, <1>5, TargetKept DEF IInv, Gate
  <1>10. Table'
    <2>1. CASE last
      <3>1. isr_table = {}
        BY <1>1, <1>3, <1>5, <2>1 DEF IInv, Table, Registered
      <3> QED
        BY <1>1, <1>5, <2>1, <3>1, TargetKept DEF Table, Registered, WithVqs
    <2>2. CASE ~last
      BY <1>1, <1>3, <2>2, TargetKept DEF IInv, Table, Registered, WithVqs
    <2> QED
      BY <2>1, <2>2
  <1>11. Attachments' /\ Masks'
    BY <1>1, <1>2, QuietCounts
  <1>12. MasterUp' /\ Bells'
    BY <1>1, <1>3, TargetKept DEF IInv, MasterUp, Bells
  <1>13. OwnSwitch(target) => Sources' /\ Lines' /\ NestedMasks'
    BY <1>1, QuietSwitches DEF AttachedOnce, AttachedTwice, Masking
  <1> QED
    BY <1>1, <1>6, <1>7, <1>8, <1>9, <1>10, <1>11, <1>12, <1>13 DEF IInv

(* The counts stay when no task moves.                                      *)
LEMMA NobodyMoves ==
    ASSUME target' = target, at' = at
    PROVE  /\ InUse' = InUse
           /\ \A c : Attached(c)' = Attached(c) /\ Masked(c)' = Masked(c)
  BY TargetKept DEF InUse, Attached, Masked, Count

(* The first half of env_init, for the first caller and for the others.     *)
LEMMA EnvInitInv ==
    ASSUME Gated, IInv, NEW l \in Links, EnvInit(l)
    PROVE  IInv'
  <1>1. /\ at[l] = "none" /\ Turn(l)
        /\ env_init_counter' = env_init_counter + 1
        /\ inits < MaxInits /\ inits' = inits + 1
        /\ \/ /\ env_init_counter = 0
              /\ env_sema' = port.sema /\ isr_table' = {} /\ Goto(l, "boot") /\ failed' = failed
           \/ /\ env_init_counter = 0
              /\ failed' = TRUE /\ UNCHANGED <<env_sema, isr_table, at>>
           \/ /\ env_init_counter > 0 /\ Goto(l, IF port.tasks THEN "wait" ELSE "create")
              /\ UNCHANGED <<env_sema, isr_table, failed>>
        /\ UNCHANGED <<target, platform_lock, isr_counter, sources, disable_counter, line,
                       bell, vqs, link_state, out, rings>>
    BY DEF EnvInit
  <1>2. /\ target \in Targets /\ env_init_counter \in Nat /\ InUse \in Nat
        /\ port.sema \in {0, 1} /\ port.tasks \in BOOLEAN
        /\ inits' \in 0..MaxInits /\ at \in [Links -> Steps]
    BY <1>1, LifecycleAssumption, Types, CountFacts, TargetFacts DEF IInv, FullType, TypeOK
  <1>3. \A s \in {"none", "boot", "wait", "create"} :
           s \in Steps /\ Attachment(s) = 0 /\ Depth(s) = 0
           /\ Uses(s) = IF s = "none" THEN 0 ELSE 1
    BY <1>2, Weights, StepFacts
  <1>4. ASSUME env_init_counter = 0
        PROVE  /\ ~failed /\ ~platform_lock /\ InUse = 0
               /\ \A k \in Links : at[k] = "none"
    <2>1. InUse = 0 /\ ~failed /\ ~platform_lock
      BY <1>2, <1>4 DEF IInv, Users
    <2>2. \A k \in Links : InUse >= Uses(at[k])
      BY <1>2, CountFacts
    <2> QED
      BY <1>2, <2>1, <2>2, Weights
  <1>5. ASSUME env_init_counter = 0, env_sema' = port.sema, isr_table' = {}, Goto(l, "boot"),
               failed' = failed
        PROVE  IInv'
    <2>1. /\ at' \in [Links -> Steps] /\ at'[l] = "boot"
          /\ \A k \in Links : k # l => at'[k] = at[k]
          /\ InUse' = 1
      BY <1>1, <1>2, <1>3, <1>4, <1>5, TaskSteps
    <2>2. FullType'
      BY <1>1, <1>2, <1>5, <2>1, TargetKept DEF IInv, FullType, TypeOK
    <2>3. Users' /\ Booting'
      BY <1>1, <1>4, <1>5, <2>1, TargetKept DEF IInv, Users, Booting
    <2>4. Gate'
      <3>1. port.sema > 0 => Links = {l}
        BY <1>2 DEF Gated, GatedInit, port, Links
      <3> QED
        BY <1>1, <1>2, <1>4, <1>5, <2>1, <3>1, TargetKept DEF Gate
    <2>5. Table'
      BY <1>1, <1>4, <1>5, <2>1, TargetKept DEF Table, Registered, WithVqs
    <2>6. Attachments' /\ Masks'
      BY <1>1, <1>3, <1>5, QuietCounts
    <2>7. MasterUp' /\ Bells'
      BY <1>1, <2>1, TargetKept DEF IInv, MasterUp, Bells
    <2>8. OwnSwitch(target) => Sources' /\ Lines' /\ NestedMasks'
      BY <1>1, <1>3, <1>5, QuietSwitches DEF AttachedOnce, AttachedTwice, Masking
    <2> QED
      BY <1>1, <2>2, <2>3, <2>4, <2>5, <2>6, <2>7, <2>8 DEF IInv
  <1>6. ASSUME env_init_counter = 0, failed' = TRUE, UNCHANGED <<env_sema, isr_table, at>>
        PROVE  IInv'
    <2>1. InUse' = 0 /\ \A c : Attached(c)' = Attached(c) /\ Masked(c)' = Masked(c)
      BY <1>1, <1>4, <1>6, NobodyMoves
    <2>2. FullType'
      BY <1>1, <1>2, <1>6, TargetKept DEF IInv, FullType, TypeOK
    <2>3. Users' /\ Booting' /\ Gate'
      BY <1>1, <1>4, <1>6, <2>1, TargetKept DEF Users, Booting, Gate
    <2>4. Table'
      BY <1>1, <1>6, TargetKept DEF IInv, Table, Registered, WithVqs
    <2>5. Attachments' /\ Masks'
      BY <1>1, <1>6, <2>1, TargetKept DEF IInv, Attachments, Masks
    <2>6. MasterUp' /\ Bells'
      BY <1>1, <1>6, TargetKept DEF IInv, MasterUp, Bells
    <2>7. OwnSwitch(target) => Sources' /\ Lines' /\ NestedMasks'
      BY <1>1, <1>6, TargetKept DEF IInv, Sources, Together, Lines, NestedMasks
    <2> QED
      BY <1>1, <2>2, <2>3, <2>4, <2>5, <2>6, <2>7 DEF IInv
  <1>7. ASSUME env_init_counter > 0, Goto(l, IF port.tasks THEN "wait" ELSE "create"),
               UNCHANGED <<env_sema, isr_table, failed>>
        PROVE  IInv'
    <2> DEFINE s == IF port.tasks THEN "wait" ELSE "create"
    <2>1. s \in {"wait", "create"}
      OBVIOUS
    <2>2. /\ at' \in [Links -> Steps] /\ at'[l] = s
          /\ \A k \in Links : k # l => at'[k] = at[k]
          /\ InUse' = InUse + 1
      BY <1>1, <1>2, <1>3, <1>7, <2>1, TaskSteps
    <2>3. \A k \in Links : at[k] = "boot" => port.tasks
      BY <1>1 DEF Turn
    <2>4. ~failed /\ s = "create" => platform_lock
      BY <1>1, <1>2, <1>7, <2>3 DEF IInv, Gate
    <2>5. FullType'
      BY <1>1, <1>2, <1>7, <2>2, TargetKept DEF IInv, FullType, TypeOK
    <2>6. Users'
      BY <1>1, <1>2, <1>7, <2>2 DEF IInv, Users
    <2>7. Booting'
      BY <1>1, <1>7, <2>1, <2>2, <2>3, TargetKept DEF IInv, Booting
    <2>8. Gate'
      BY <1>1, <1>2, <1>7, <2>1, <2>2, <2>4, TargetKept DEF IInv, Gate
    <2>9. Table'
      BY <1>1, <1>7, <2>1, <2>2, TargetKept DEF IInv, Table, Registered, WithVqs
    <2>10. Attachments' /\ Masks'
      BY <1>1, <1>3, <1>7, <2>1, QuietCounts
    <2>11. MasterUp' /\ Bells'
      BY <1>1, <2>1, <2>2, TargetKept DEF IInv, MasterUp, Bells
    <2>12. OwnSwitch(target) => Sources' /\ Lines' /\ NestedMasks'
      BY <1>1, <1>3, <1>7, <2>1, QuietSwitches DEF AttachedOnce, AttachedTwice, Masking
    <2> QED
      BY <1>1, <2>5, <2>6, <2>7, <2>8, <2>9, <2>10, <2>11, <2>12 DEF IInv
  <1> QED
    BY <1>1, <1>5, <1>6, <1>7

(* platform_init of the first caller: nobody has masked the line.           *)
LEMMA PlatformInitInv ==
    ASSUME IInv, NEW l \in Links, platform_init(l)
    PROVE  IInv'
  <1>1. /\ at[l] = "boot" /\ line' \in {Keys, line} /\ bell' \in {[c \in Coms |-> {}], bell}
        /\ env_sema' = IF port.tasks THEN env_sema + 1 ELSE env_sema
        /\ \/ platform_lock' = TRUE /\ Goto(l, "create") /\ failed' = failed
           \/ failed' = TRUE /\ Goto(l, "none") /\ platform_lock' = platform_lock
        /\ UNCHANGED <<target, env_init_counter, isr_table, isr_counter, sources,
                       disable_counter, vqs, link_state, out, inits, rings>>
    BY DEF platform_init, bounds
  <1>2. PICK s \in {"create", "none"} :
           /\ Goto(l, s)
           /\ s = "create" => platform_lock' = TRUE /\ failed' = failed
           /\ s = "none" => failed' = TRUE /\ platform_lock' = platform_lock
    BY <1>1
  <1>3. /\ target \in Targets /\ env_init_counter \in Nat /\ port.sema \in {0, 1}
        /\ s \in Steps /\ Uses(at[l]) = 1 /\ Uses(s) = IF s = "none" THEN 0 ELSE 1
        /\ Attachment(at[l]) = 0 /\ Attachment(s) = 0 /\ Depth(at[l]) = 0 /\ Depth(s) = 0
    BY <1>1, Weights, StepFacts, Types, TargetFacts DEF IInv
  <1>4. /\ ~platform_lock /\ ~failed /\ env_sema = port.sema
        /\ \A k \in Links \ {l} : at[k] \in {"none", "wait"}
    BY <1>1 DEF IInv, Booting
  <1>5. /\ at' \in [Links -> Steps] /\ at'[l] = s /\ \A k \in Links : k # l => at'[k] = at[k]
        /\ InUse \in Nat /\ InUse' = InUse - 1 + Uses(s) /\ InUse >= 1
    BY <1>1, <1>2, <1>3, TaskSteps, CountFacts
  <1>6. \A k \in Links : at'[k] \in {"none", "wait", "create"}
    BY <1>2, <1>4, <1>5
  <1>7. FullType'
    <2>1. line' \subseteq Keys /\ bell' \in [Coms -> SUBSET {Vq(k, q) : k \in Links, q \in {0, 1}}]
      BY <1>1 DEF IInv, FullType, TypeOK
    <2>2. platform_lock' \in BOOLEAN /\ failed' \in BOOLEAN
      <3>1. platform_lock \in BOOLEAN /\ failed \in BOOLEAN
        BY Types DEF IInv
      <3> QED
        BY <1>2, <3>1
    <2>3. env_sema' \in {-1, port.sema, port.sema + 1} /\ env_sema' \in -1..2
      BY <1>1, <1>3, <1>4
    <2> QED
      BY <1>1, <1>5, <2>1, <2>2, <2>3, TargetKept DEF IInv, FullType, TypeOK
  <1>8. Users'
    BY <1>1, <1>2, <1>3, <1>4, <1>5 DEF IInv, Users
  <1>9. Booting'
    BY <1>1, <1>6, TargetKept DEF Booting
  <1>10. Gate'
    BY <1>1, <1>2, <1>3, <1>4, <1>5, <1>6, TargetKept DEF Gate
  <1>11. Table'
    <2>1. isr_table = {}
      BY <1>1, <1>4 DEF IInv, Table, Registered
    <2> QED
      BY <1>1, <1>6, <2>1, TargetKept DEF Table, Registered, WithVqs
  <1>12. Attachments' /\ Masks'
    BY <1>1, <1>2, <1>3, <1>4, QuietCounts
  <1>13. MasterUp' /\ Bells'
    BY <1>1, <1>6, TargetKept DEF IInv, MasterUp, Bells
  <1>14. ASSUME OwnSwitch(target)
         PROVE  Sources' /\ Lines' /\ NestedMasks'
    <2>1. \A k \in Keys : disable_counter'[k] = 0
      <3>1. \A k \in Keys : Masked(k) \in Nat /\ ~(Masked(k) > 0)
        BY <1>1, <1>3, <1>4, CountFacts DEF Masking
      <3> QED
        BY <1>1, <3>1 DEF IInv, Masks
    <2>2. Sources'
      BY <1>1, <1>6, <1>14, TargetKept DEF IInv, Sources, Together, AttachedOnce, AttachedTwice
    <2>3. Lines'
      BY <1>1, <1>6, TargetKept DEF Lines
    <2>4. NestedMasks'
      BY <1>1, <2>1, TargetKept DEF NestedMasks
    <2> QED
      BY <2>2, <2>3, <2>4
  <1> QED
    BY <1>1, <1>7, <1>8, <1>9, <1>10, <1>11, <1>12, <1>13, <1>14 DEF IInv

(* The second half of platform_init_interrupt: the virtqueue is counted,    *)
(* and the interrupt turned on below the limit.                             *)
LEMMA AttachInv ==
    ASSUME IInv, NEW l \in Links, NEW q \in {0, 1}, Attach(l, q)
    PROVE  IInv'
  <1> DEFINE next  == IF q = 0 THEN "register1" ELSE "mask_r"
             c     == Com(l)
             opens == isr_counter[c] < switch.limit
  <1>1. /\ at[l] = (IF q = 0 THEN "attach0" ELSE "attach1")
        /\ \/ /\ ~platform_lock /\ (Goto(l, next) \/ Goto(l, "halt"))
              /\ UNCHANGED <<isr_counter, sources, line>>
           \/ /\ platform_lock /\ Goto(l, next)
              /\ isr_counter' = [isr_counter EXCEPT ![c] = @ + 1]
              /\ sources' = IF opens THEN sources \cup SwitchedBy(switch.on, l, q) ELSE sources
              /\ line' = IF opens /\ switch.on = "line" THEN line \cup {LineOf(c)} ELSE line
        /\ UNCHANGED <<target, env_init_counter, env_sema, platform_lock, isr_table,
                       disable_counter, bell, vqs, link_state, out, failed, inits, rings>>
    BY StepFacts DEF Attach, Follow, environment, bounds, Returns, Hangs
  <1>2. PICK s \in {next, "halt"} : Goto(l, s) /\ (platform_lock => s = next)
    BY <1>1
  <1>3. (~failed <=> platform_lock) /\ target \in Targets /\ env_init_counter \in Nat
    BY <1>1, Types DEF IInv, Gate, Users
  <1>4. /\ s \in Steps /\ Uses(at[l]) = 1 /\ Uses(s) = 1 /\ Depth(at[l]) = 0 /\ Depth(s) = 0
        /\ platform_lock => Attachment(s) = Attachment(at[l]) + 1
        /\ Attachment(at[l]) \in Nat
    BY <1>1, <1>2, <1>3, Weights, StepFacts
  <1>5. /\ at' \in [Links -> Steps] /\ at'[l] = s /\ \A k \in Links : k # l => at'[k] = at[k]
        /\ InUse \in Nat /\ InUse' = InUse /\ c \in Coms
        /\ \A b \in Coms : Attached(b) \in Nat
        /\ platform_lock => \A b \in Coms : Attached(b)' = IF b = c THEN Attached(b) + 1
                                                                    ELSE Attached(b)
        /\ \A k \in Keys : Masked(k)' = Masked(k)
    BY <1>1, <1>2, <1>4, TaskSteps
  <1>6. isr_counter \in [Coms -> Nat] /\ isr_counter' \in [Coms -> Nat]
    BY <1>1, <1>5, Types DEF IInv
  <1>7. SwitchedBy(switch.on, l, q) \subseteq {c} \X {0, 1}
    BY DEF SwitchedBy
  <1>8. FullType'
    <2>1. sources' \subseteq Coms \X {0, 1} /\ line' \subseteq Keys
      <3>1. sources \subseteq Coms \X {0, 1} /\ line \subseteq Keys
        BY DEF IInv, FullType, TypeOK
      <3>2. {c} \X {0, 1} \subseteq Coms \X {0, 1} /\ LineOf(c) \in Keys
        BY <1>3, <1>5, TargetFacts
      <3> HIDE DEF c, opens
      <3> QED
        BY <1>1, <1>7, <3>1, <3>2
    <2> QED
      BY <1>1, <1>5, <1>6, <2>1, TargetKept DEF IInv, FullType, TypeOK
  <1>9. Users'
    BY <1>1, <1>5 DEF IInv, Users
  <1>10. Booting'
    BY <1>1, <1>2, <1>5, TargetKept DEF IInv, Booting
  <1>11. Gate'
    BY <1>1, <1>2, <1>3, <1>5, TargetKept DEF IInv, Gate
  <1>12. Table'
    BY <1>1, <1>2, <1>3, <1>5, TargetKept DEF IInv, Table, Registered, WithVqs
  <1>13. Attachments'
    BY <1>1, <1>3, <1>5, <1>6, TargetKept DEF IInv, Attachments
  <1>14. Masks'
    BY <1>1, <1>5, TargetKept DEF IInv, Masks
  <1>15. MasterUp' /\ Bells'
    BY <1>1, <1>2, <1>5, TargetKept DEF IInv, MasterUp, Bells
  <1>16. ASSUME OwnSwitch(target), ~platform_lock
         PROVE  Sources' /\ Lines' /\ NestedMasks'
    BY <1>1, <1>3, <1>16, TargetKept DEF IInv, Sources, Together, Lines, NestedMasks
  <1>17. ASSUME OwnSwitch(target), platform_lock
         PROVE  Sources' /\ Lines' /\ NestedMasks'
    <2>1. /\ isr_counter' = [isr_counter EXCEPT ![c] = @ + 1]
          /\ sources' = IF opens THEN sources \cup SwitchedBy(switch.on, l, q) ELSE sources
          /\ line' = IF opens /\ switch.on = "line" THEN line \cup {LineOf(c)} ELSE line
          /\ s = next /\ sources \subseteq sources' /\ line \subseteq line'
          /\ Sources /\ Lines /\ NestedMasks /\ Attachments /\ ~failed
      BY <1>1, <1>2, <1>3, <1>17 DEF IInv
    <2>2. ASSUME NEW b \in Coms, Together(b), isr_counter'[b] >= switch.limit
          PROVE  <<b, 0>> \in sources' /\ <<b, 1>> \in sources'
      <3>1. CASE b = c /\ opens
        <4>1. SwitchedBy(switch.on, l, q) = {c} \X {0, 1}
          BY <2>2, <3>1 DEF Together, SwitchedBy
        <4> QED
          BY <2>1, <3>1, <4>1
      <3>2. CASE b # c \/ ~opens
        <4>1. isr_counter[b] >= switch.limit
          BY <1>3, <1>6, <2>1, <2>2, <3>2, TargetFacts
        <4> QED
          BY <2>1, <2>2, <4>1 DEF Sources
      <3> QED
        BY <3>1, <3>2
    <2>3. ASSUME switch.on = "queue", NEW k \in Links, Com(k) \notin switch.both
          PROVE  /\ at'[k] \in AttachedOnce \ {"detach_t"} => <<Com(k), 0>> \in sources'
                 /\ at'[k] \in AttachedTwice => <<Com(k), 1>> \in sources'
      <3>1. CASE k # l
        BY <1>5, <2>1, <2>3, <3>1 DEF Sources
      <3>2. CASE k = l
        <4>1. switch.limit = 2 /\ switch.back = -1 /\ \A m \in Links : Com(m) = c => m = l
          BY <1>3, <1>17, <2>3, <3>2, SwitchFacts
        <4>2. isr_counter[c] = Attachment(at[l])
          BY <1>3, <1>5, <2>1, <4>1, CountFacts DEF Attachments
        <4>3. Attachment(at[l]) < 2
          BY <1>1, <1>3, Weights
        <4>4. <<c, q>> \in sources'
          <5>1. <<c, q>> \in SwitchedBy(switch.on, l, q)
            BY <2>3, <3>2 DEF SwitchedBy
          <5> QED
            BY <2>1, <4>1, <4>2, <4>3, <5>1
        <4>5. CASE q = 0
          BY <1>5, <2>1, <3>2, <4>4, <4>5, <4>1 DEF AttachedTwice
        <4>6. CASE q = 1
          <5>1. <<c, 0>> \in sources
            <6>1. at[l] \in AttachedOnce \ {"detach_t"}
              BY <1>1, <4>6 DEF AttachedOnce
            <6> QED
              BY <2>1, <2>3, <3>2, <6>1 DEF Sources
          <5> QED
            BY <2>1, <3>2, <4>4, <4>6, <5>1
        <4> QED
          BY <4>5, <4>6
      <3> QED
        BY <3>1, <3>2
    <2>4. Sources'
      BY <1>1, <2>2, <2>3, TargetKept DEF Sources, Together
    <2>5. Lines'
      BY <1>1, <1>5, <2>1, TargetKept DEF Lines, SharesLine, Masking
    <2>6. NestedMasks'
      <3> SUFFICES ASSUME mask.nest = "outermost", mask.counter = mask.line,
                          NEW k \in Keys, disable_counter[k] > 0, k \in line'
                   PROVE  FALSE
        BY <1>1, TargetKept DEF NestedMasks
      <3>1. opens /\ switch.on = "line" /\ k = LineOf(c)
        BY <2>1 DEF NestedMasks
      <3>2. PICK m \in Links : CounterOf(m) = k /\ at[m] \in Masking
        BY <1>3, CountFacts DEF IInv, Masks
      <3>3. Com(m) = c
        BY <1>3, <1>5, <1>17, <3>1, <3>2, SwitchFacts, TargetFacts
      <3>4. isr_counter[c] >= 2
        <4>1. Attached(Com(m)) >= Attachment(at[m]) /\ Attachment(at[m]) = 2
          BY <1>3, <3>2, CountFacts, Weights DEF Masking
        <4> QED
          BY <1>5, <1>6, <2>1, <3>3, <4>1 DEF Attachments
      <3> QED
        BY <1>3, <1>6, <1>5, <3>1, <3>4, TargetFacts
    <2> QED
      BY <2>4, <2>5, <2>6
  <1> QED
    BY <1>1, <1>8, <1>9, <1>10, <1>11, <1>12, <1>13, <1>14, <1>15, <1>16, <1>17 DEF IInv

(* platform_interrupt_disable: a line that is turned off is masked by this  *)
(* link from now on.                                                        *)
LEMMA DisableInv ==
    ASSUME IInv, NEW l \in Links, platform_interrupt_disable(l)
    PROVE  IInv'
  <1> DEFINE s == IF at[l] = "mask_r" THEN "mask_t" ELSE "unmask_r"
             k == CounterOf(l)
             n == disable_counter[k]
             x == LineOf(Com(l))
  <1>1. /\ at[l] \in {"mask_r", "mask_t"} /\ s \in Steps /\ Goto(l, s)
        /\ disable_counter' = [disable_counter EXCEPT ![k] = n + 1]
        /\ line' \in {line \cup {x}, line \ {x}, line}
        /\ mask.nest = "outermost" => line' = IF n = 0 THEN line \ {x} ELSE line
        /\ UNCHANGED <<target, env_init_counter, env_sema, platform_lock, isr_table, isr_counter,
                       sources, bell, vqs, link_state, out, failed, inits, rings>>
    BY StepFacts DEF platform_interrupt_disable, Follow, TurnsOff, Raised, environment, bounds
  <1>2. /\ target \in Targets /\ env_init_counter \in Nat /\ disable_counter \in [Keys -> Nat]
        /\ Uses(at[l]) = 1 /\ Uses(s) = 1 /\ Attachment(at[l]) = 2 /\ Attachment(s) = 2
        /\ Depth(at[l]) \in Nat /\ Depth(s) = Depth(at[l]) + 1
    BY <1>1, Weights, StepFacts, Types DEF IInv
  <1>3. /\ at' \in [Links -> Steps] /\ at'[l] = s /\ \A m \in Links : m # l => at'[m] = at[m]
        /\ InUse \in Nat /\ InUse' = InUse /\ Com(l) \in Coms /\ k \in Keys
        /\ \A c \in Coms : Attached(c)' = Attached(c)
        /\ \A j \in Keys : Masked(j)' = IF j = k THEN Masked(j) + 1 ELSE Masked(j)
    BY <1>1, <1>2, TaskSteps
  <1>4. FullType'
    <2>1. line' \subseteq Keys
      <3>1. line \subseteq Keys /\ x \in Keys
        BY <1>2, <1>3, TargetFacts DEF IInv, FullType, TypeOK
      <3> QED
        BY <1>1, <3>1
    <2>2. disable_counter' \in [Keys -> Nat]
      BY <1>1, <1>2, <1>3
    <2> QED
      BY <1>1, <1>3, <2>1, <2>2, TargetKept DEF IInv, FullType, TypeOK
  <1>5. Users'
    BY <1>1, <1>3 DEF IInv, Users
  <1>6. Booting'
    BY <1>1, <1>3, TargetKept DEF IInv, Booting
  <1>7. Gate'
    BY <1>1, <1>3, TargetKept DEF IInv, Gate
  <1>8. Table'
    BY <1>1, <1>3, TargetKept DEF IInv, Table, Registered, WithVqs
  <1>9. Attachments'
    BY <1>1, <1>3, TargetKept DEF IInv, Attachments
  <1>10. Masks'
    BY <1>1, <1>2, <1>3, TargetKept DEF IInv, Masks
  <1>11. MasterUp' /\ Bells'
    BY <1>1, <1>3, TargetKept DEF IInv, MasterUp, Bells
  <1>12. ASSUME OwnSwitch(target)
         PROVE  Sources' /\ Lines' /\ NestedMasks'
    <2>1. Sources'
      BY <1>1, <1>3, <1>12, TargetKept DEF IInv, Sources, Together, AttachedOnce, AttachedTwice
    <2>2. Lines'
      BY <1>1, <1>3, <1>12, TargetKept DEF IInv, Lines, SharesLine, Masking
    <2>3. NestedMasks'
      <3>1. mask.counter = mask.line => k = x
        BY <1>2, <1>12, SwitchFacts
      <3> QED
        BY <1>1, <1>2, <1>3, <1>12, <3>1, TargetKept DEF IInv, NestedMasks
    <2> QED
      BY <2>1, <2>2, <2>3
  <1> QED
    BY <1>1, <1>4, <1>5, <1>6, <1>7, <1>8, <1>9, <1>10, <1>11, <1>12 DEF IInv

(* platform_interrupt_enable: the line is on afterwards, or another link    *)
(* with the same counter masks it.                                          *)
LEMMA EnableInv ==
    ASSUME IInv, NEW l \in Links, platform_interrupt_enable(l)
    PROVE  IInv'
  <1> DEFINE done == IF target.role = "master" THEN "kick" ELSE "up"
             s == IF at[l] = "unmask_r" THEN "unmask_t" ELSE done
             k == CounterOf(l)
             n == disable_counter[k]
             x == LineOf(Com(l))
  <1>1. /\ at[l] \in {"unmask_r", "unmask_t"} /\ s \in Steps /\ Goto(l, s)
        /\ disable_counter' = [disable_counter EXCEPT ![k] = n - 1]
        /\ line' = IF TurnsOn(disable_counter'[k]) THEN line \cup {x} ELSE line
        /\ link_state' = IF target.role = "master" THEN link_state \cup {l} ELSE link_state
        /\ UNCHANGED <<target, env_init_counter, env_sema, platform_lock, isr_table, isr_counter,
                       sources, bell, vqs, out, failed, inits, rings>>
    BY StepFacts DEF platform_interrupt_enable, Follow, environment, bounds
  <1>2. /\ target \in Targets /\ env_init_counter \in Nat /\ disable_counter \in [Keys -> Nat]
        /\ Uses(at[l]) = 1 /\ Uses(s) = 1 /\ Attachment(at[l]) = 2 /\ Attachment(s) = 2
        /\ Depth(at[l]) \in Nat /\ Depth(at[l]) > 0 /\ Depth(s) = Depth(at[l]) - 1
    BY <1>1, Weights, StepFacts, Types DEF IInv
  <1>3. /\ at' \in [Links -> Steps] /\ at'[l] = s /\ \A m \in Links : m # l => at'[m] = at[m]
        /\ InUse \in Nat /\ InUse' = InUse /\ Com(l) \in Coms /\ k \in Keys
        /\ \A c \in Coms : Attached(c)' = Attached(c)
        /\ \A j \in Keys : /\ Masked(j) \in Nat
                           /\ Masked(j)' = IF j = k THEN Masked(j) - 1 ELSE Masked(j)
    BY <1>1, <1>2, TaskSteps
  <1>4. n \in Nat /\ n > 0 /\ disable_counter'[k] = n - 1
    <2>1. n = Masked(k) /\ Masked(k) >= Depth(at[l])
      BY <1>2, <1>3, CountFacts DEF IInv, Masks
    <2> QED
      BY <1>1, <1>2, <1>3, <2>1
  <1>5. FullType'
    <2>1. line' \subseteq Keys
      <3>1. line \subseteq Keys /\ x \in Keys
        BY <1>2, <1>3, TargetFacts DEF IInv, FullType, TypeOK
      <3> QED
        BY <1>1, <3>1
    <2>2. disable_counter' \in [Keys -> Nat]
      BY <1>1, <1>2, <1>3, <1>4
    <2>3. link_state' \subseteq Links
      BY <1>1, Types DEF IInv
    <2> QED
      BY <1>1, <1>3, <2>1, <2>2, <2>3, TargetKept DEF IInv, FullType, TypeOK
  <1>6. Users'
    BY <1>1, <1>3 DEF IInv, Users
  <1>7. Booting'
    BY <1>1, <1>3, TargetKept DEF IInv, Booting
  <1>8. Gate'
    BY <1>1, <1>3, TargetKept DEF IInv, Gate
  <1>9. Table'
    BY <1>1, <1>3, TargetKept DEF IInv, Table, Registered, WithVqs
  <1>10. Attachments'
    BY <1>1, <1>3, TargetKept DEF IInv, Attachments
  <1>11. Masks'
    BY <1>1, <1>2, <1>3, TargetKept DEF IInv, Masks
  <1>12. MasterUp' /\ Bells'
    BY <1>1, <1>3, TargetKept DEF IInv, MasterUp, Bells
  <1>13. ASSUME OwnSwitch(target)
         PROVE  Sources' /\ Lines' /\ NestedMasks'
    <2>1. Sources'
      BY <1>1, <1>3, <1>13, TargetKept DEF IInv, Sources, Together, AttachedOnce, AttachedTwice
    <2>2. x \in line' \/ \E m \in Links : SharesLine(m, l) /\ at'[m] \in Masking
      <3>1. CASE disable_counter'[k] = 0
        BY <1>1, <3>1 DEF TurnsOn
      <3>2. CASE disable_counter'[k] # 0
        <4>1. PICK j \in Keys : j = k
          BY <1>3
        <4>2. Masked(j)' > 0
          BY <1>3, <1>4, <3>2, <4>1 DEF IInv, Masks
        <4>3. PICK m \in Links : CounterOf(m) = k /\ at'[m] \in Masking
          BY <1>1, <1>2, <4>1, <4>2, NextCountFacts
        <4> QED
          BY <1>2, <1>13, <4>3, SwitchFacts
      <3> QED
        BY <3>1, <3>2
    <2>3. Lines'
      <3> SUFFICES ASSUME ~failed, NEW m \in Links, at'[m] \in {"kick", "up"},
                          LineOf(Com(m)) \notin line'
                   PROVE  \E j \in Links \ {m} : SharesLine(j, m) /\ at'[j] \in Masking
        BY <1>1, TargetKept DEF Lines, SharesLine
      <3>1. CASE LineOf(Com(m)) = x
        <4>1. PICK j \in Links : SharesLine(j, l) /\ at'[j] \in Masking
          BY <2>2, <3>1
        <4> QED
          BY <3>1, <4>1 DEF SharesLine, Masking
      <3>2. CASE LineOf(Com(m)) # x
        <4>1. m # l /\ at[m] \in {"kick", "up"} /\ LineOf(Com(m)) \notin line
          BY <1>1, <1>3, <3>2
        <4>2. PICK j \in Links \ {m} : SharesLine(j, m) /\ at[j] \in Masking
          BY <1>13, <4>1 DEF IInv, Lines
        <4>3. j # l
          BY <3>2, <4>2 DEF SharesLine
        <4> QED
          BY <1>3, <4>2, <4>3
      <3> QED
        BY <3>1, <3>2
    <2>4. NestedMasks'
      <3>1. mask.counter = mask.line => k = x
        BY <1>2, <1>13, SwitchFacts
      <3>2. mask.nest = "outermost" => (TurnsOn(disable_counter'[k]) <=> n - 1 = 0)
        BY <1>4 DEF TurnsOn
      <3> QED
        BY <1>1, <1>2, <1>3, <1>4, <1>13, <3>1, <3>2, TargetKept DEF IInv, NestedMasks
    <2> QED
      BY <2>1, <2>3, <2>4
  <1> QED
    BY <1>1, <1>5, <1>6, <1>7, <1>8, <1>9, <1>10, <1>11, <1>12, <1>13 DEF IInv

(* platform_deinit_interrupt: the virtqueue is counted off and unregistered,*)
(* and the interrupt turned off below the limit.  While another link is up  *)
(* on the doorbell the count stays at the limit.                            *)
LEMMA DetachInv ==
    ASSUME IInv, NEW l \in Links, platform_deinit_interrupt(l)
    PROVE  IInv'
  <1> DEFINE q == IF at[l] = "up" THEN rvq ELSE tvq
             next == IF at[l] = "up" THEN "detach_t" ELSE "free"
             c == Com(l)
             n == isr_counter[c]
             closes == (IF switch.back < 0 THEN n + switch.back ELSE n) < switch.limit
             x == LineOf(c)
  <1>1. /\ at[l] \in {"up", "detach_t"}
        /\ \/ /\ ~platform_lock
              /\ (target.dev.irq.check /\ Goto(l, next)) \/ Goto(l, "halt")
              /\ UNCHANGED <<isr_table, isr_counter, sources, line>>
           \/ /\ platform_lock /\ Goto(l, next)
              /\ isr_counter' = [isr_counter EXCEPT ![c] = n + switch.back]
              /\ sources' = IF closes THEN sources \ SwitchedBy(switch.off, l, q) ELSE sources
              /\ line' = IF closes /\ switch.off = "line" THEN line \ {x} ELSE line
              /\ isr_table' = isr_table \ {Vq(l, q)}
        /\ UNCHANGED <<target, env_init_counter, env_sema, platform_lock, disable_counter, bell,
                       vqs, link_state, out, failed, inits, rings>>
    BY DEF platform_deinit_interrupt, environment, bounds, Returns, Hangs, Detached, ClosesAt,
           Unregister
  <1>2. PICK s \in {next, "halt"} :
           /\ Goto(l, s) /\ (platform_lock => s = next)
           /\ ~platform_lock /\ s = next => target.dev.irq.check
    BY <1>1
  <1>3. /\ (~failed <=> platform_lock) /\ target \in Targets /\ env_init_counter \in Nat
        /\ switch.back \in {-1, 1} /\ switch.limit \in 0..2
    BY <1>1, Types, TargetFacts DEF IInv, Gate, Users
  <1>4. /\ s \in Steps /\ Uses(at[l]) = 1 /\ Uses(s) = 1 /\ Depth(at[l]) = 0 /\ Depth(s) = 0
        /\ Attachment(at[l]) \in Nat /\ Attachment(s) \in Nat /\ Attachment(at[l]) > 0
        /\ switch.back < 0 => Attachment(next) = Attachment(at[l]) - 1
        /\ switch.back > 0 => Attachment(at[l]) = 2 /\ Attachment(next) <= 2
    BY <1>1, <1>2, <1>3, Weights, StepFacts
  <1>5. /\ at' \in [Links -> Steps] /\ at'[l] = s /\ \A k \in Links : k # l => at'[k] = at[k]
        /\ InUse \in Nat /\ InUse' = InUse /\ c \in Coms
        /\ \A k \in Keys : Masked(k)' = Masked(k)
    BY <1>1, <1>2, <1>4, TaskSteps
  <1>6. \A b \in Coms : /\ Attached(b) \in Nat
                        /\ Attached(b)' = IF b = c
                                          THEN Attached(b) - Attachment(at[l]) + Attachment(s)
                                          ELSE Attached(b)
    BY <1>1, <1>2, <1>4, TaskSteps
  <1>7. /\ isr_counter \in [Coms -> Nat] /\ n \in Nat
        /\ ~failed => n >= Attached(c) /\ n >= Attachment(at[l])
    <2>1. isr_counter \in [Coms -> Nat]
      BY Types DEF IInv
    <2>2. ~failed => n >= Attached(c)
      BY <1>5 DEF IInv, Attachments
    <2>3. Attached(c) >= Attachment(at[l])
      BY <1>3, CountFacts
    <2> QED
      BY <1>4, <1>5, <1>6, <2>1, <2>2, <2>3
  <1>8. isr_counter' \in [Coms -> Nat]
    BY <1>1, <1>3, <1>4, <1>5, <1>7
  <1>9. FullType'
    <2>1. /\ isr_table' \subseteq 0..(target.dev.ids.isr_count - 1)
          /\ sources' \subseteq Coms \X {0, 1} /\ line' \subseteq Keys
      <3>1. /\ isr_table' \subseteq isr_table /\ sources' \subseteq sources
            /\ line' \subseteq line
        BY <1>1
      <3>2. /\ isr_table \subseteq 0..(target.dev.ids.isr_count - 1)
            /\ sources \subseteq Coms \X {0, 1} /\ line \subseteq Keys
        BY DEF IInv, FullType, TypeOK
      <3> QED
        BY <3>1, <3>2
    <2>2. TypeOK'
      <3>1. TypeOK
        BY DEF IInv, FullType
      <3> QED
        BY <1>1, <1>5, <1>8, <2>1, <3>1, TargetKept DEF TypeOK
    <2> QED
      BY <1>1, <2>2, TargetKept DEF IInv, FullType
  <1>10. Users'
    BY <1>1, <1>5 DEF IInv, Users
  <1>11. Booting'
    BY <1>1, <1>2, <1>5, TargetKept DEF IInv, Booting
  <1>12. Gate'
    BY <1>1, <1>2, <1>3, <1>5, TargetKept DEF IInv, Gate
  <1>13. Table'
    <2>1. \A p \in {0, 1} : Registered(p)' = Registered(p)
      BY <1>1, TargetKept DEF Registered
    <2>2. q \in {0, 1}
      BY <1>3, TargetFacts
    <2>3. \A k \in Links : at'[k] \in WithVqs => k \in vqs
      BY <1>1, <1>2, <1>5 DEF IInv, Table, WithVqs
    <2>4. target.dev.irq.check /\ ~platform_lock => isr_table' = {}
      BY <1>1 DEF IInv, Table
    <2>5. CASE ~platform_lock
      <3>1. \A v \in isr_table' : \E k \in Links, p \in {0, 1} :
               v = Vq(k, p) /\ at'[k] \in Registered(p) \cup {"halt"}
        <4>1. CASE s = "halt"
          BY <1>1, <1>5, <2>5, <4>1 DEF IInv, Table
        <4>2. CASE s = next
          BY <1>2, <2>4, <2>5, <4>2
        <4> QED
          BY <4>1, <4>2
      <3> QED
        BY <1>1, <1>3, <2>1, <2>3, <2>4, <2>5, <3>1, TargetKept DEF Table
    <2>6. CASE platform_lock
      <3>1. s = next /\ isr_table' = isr_table \ {Vq(l, q)} /\ ~failed
        BY <1>1, <1>2, <1>3, <2>6
      <3>2. \A p \in {0, 1} : next \in Registered(p) <=> at[l] \in Registered(p) /\ p # q
        BY <1>1, <1>3, TargetFacts DEF Registered
      <3>3. \A k \in Links, p \in {0, 1} : Vq(k, p) = Vq(l, q) <=> k = l /\ p = q
        BY <1>3, <2>2, VectorFacts, TargetFacts
      <3>4. \A v \in isr_table' : \E k \in Links, p \in {0, 1} :
               v = Vq(k, p) /\ at'[k] \in Registered(p) \cup {"halt"}
        <4> SUFFICES ASSUME NEW v \in isr_table'
                     PROVE  \E k \in Links, p \in {0, 1} :
                               v = Vq(k, p) /\ at'[k] \in Registered(p) \cup {"halt"}
          OBVIOUS
        <4>1. PICK k \in Links, p \in {0, 1} :
                 v = Vq(k, p) /\ at[k] \in Registered(p) \cup {"halt"}
          BY <3>1 DEF IInv, Table
        <4>2. k # l \/ p # q
          BY <3>1, <4>1
        <4>3. at'[k] \in Registered(p) \cup {"halt"}
          BY <1>1, <1>5, <3>1, <3>2, <4>1, <4>2
        <4> QED
          BY <4>1, <4>3
      <3>5. \A k \in Links, p \in {0, 1} : at'[k] \in Registered(p) => Vq(k, p) \in isr_table'
        BY <1>5, <3>1, <3>2, <3>3 DEF IInv, Table
      <3> QED
        BY <1>1, <2>1, <2>3, <2>4, <3>4, <3>5, TargetKept DEF Table
    <2> QED
      BY <2>5, <2>6
  <1>14. Attachments'
    <2> SUFFICES ASSUME ~failed, NEW b \in Coms
                 PROVE  /\ isr_counter'[b] >= Attached(b)'
                        /\ switch.back < 0 => isr_counter'[b] = Attached(b)'
      BY <1>1, TargetKept DEF Attachments
    <2>1. /\ isr_counter' = [isr_counter EXCEPT ![c] = n + switch.back] /\ s = next
          /\ isr_counter[b] >= Attached(b)
          /\ switch.back < 0 => isr_counter[b] = Attached(b)
      BY <1>1, <1>2, <1>3 DEF IInv, Attachments
    <2> QED
      BY <1>3, <1>4, <1>5, <1>6, <1>7, <2>1
  <1>15. Masks'
    BY <1>1, <1>5, TargetKept DEF IInv, Masks
  <1>16. MasterUp' /\ Bells'
    BY <1>1, <1>2, <1>5, TargetKept DEF IInv, MasterUp, Bells
  <1>17. ASSUME OwnSwitch(target), ~platform_lock
         PROVE  Sources' /\ Lines' /\ NestedMasks'
    BY <1>1, <1>3, <1>17, TargetKept DEF IInv, Sources, Together, Lines, NestedMasks
  <1>18. ASSUME OwnSwitch(target), platform_lock
         PROVE  Sources' /\ Lines' /\ NestedMasks'
    <2>1. /\ isr_counter' = [isr_counter EXCEPT ![c] = n + switch.back]
          /\ sources' = IF closes THEN sources \ SwitchedBy(switch.off, l, q) ELSE sources
          /\ line' = IF closes /\ switch.off = "line" THEN line \ {x} ELSE line
          /\ s = next /\ ~failed /\ Sources /\ Lines /\ NestedMasks
      BY <1>1, <1>2, <1>3, <1>18 DEF IInv
    <2>2. SwitchedBy(switch.off, l, q) \subseteq {c} \X {0, 1}
      BY <1>3, TargetFacts DEF SwitchedBy
    <2>3. isr_counter'[c] >= switch.limit => ~closes /\ n >= switch.limit
      BY <1>3, <1>4, <1>5, <1>7, <2>1
    <2>4. \A b \in Coms : Together(b) /\ isr_counter'[b] >= switch.limit
                            => <<b, 0>> \in sources' /\ <<b, 1>> \in sources'
      <3> SUFFICES ASSUME NEW b \in Coms, Together(b), isr_counter'[b] >= switch.limit
                   PROVE  <<b, 0>> \in sources' /\ <<b, 1>> \in sources'
        OBVIOUS
      <3>1. CASE b = c
        BY <1>7, <2>1, <2>3, <3>1 DEF Sources
      <3>2. CASE b # c
        <4>1. <<b, 0>> \in sources /\ <<b, 1>> \in sources
          BY <1>7, <2>1, <3>2 DEF Sources
        <4> QED
          BY <2>1, <2>2, <3>2, <4>1
      <3> QED
        BY <3>1, <3>2
    <2>5. ASSUME switch.on = "queue", NEW k \in Links, Com(k) \notin switch.both
          PROVE  /\ at'[k] \in AttachedOnce \ {"detach_t"} => <<Com(k), 0>> \in sources'
                 /\ at'[k] \in AttachedTwice => <<Com(k), 1>> \in sources'
      <3>1. CASE k = l
        <4>1. switch.back = -1
          BY <1>3, <1>18, <2>5, SwitchFacts
        <4> QED
          BY <1>5, <2>1, <3>1, <4>1 DEF AttachedOnce, AttachedTwice
      <3>2. CASE k # l
        <4>1. Com(k) # c
          BY <1>3, <1>18, <2>5, <3>2, SwitchFacts
        <4>2. /\ at'[k] \in AttachedOnce \ {"detach_t"} => <<Com(k), 0>> \in sources
              /\ at'[k] \in AttachedTwice => <<Com(k), 1>> \in sources
          BY <1>5, <2>1, <2>5, <3>2 DEF Sources
        <4> QED
          BY <2>1, <2>2, <4>1, <4>2
      <3> QED
        BY <3>1, <3>2
    <2>6. Sources'
      BY <1>1, <2>4, <2>5, TargetKept DEF Sources, Together
    <2>7. Lines'
      <3> SUFFICES ASSUME NEW k \in Links, at'[k] \in {"kick", "up"}
                   PROVE  \/ LineOf(Com(k)) \in line'
                          \/ \E j \in Links \ {k} : SharesLine(j, k) /\ at'[j] \in Masking
        BY <1>1, TargetKept DEF Lines, SharesLine
      <3>1. k # l /\ at[k] \in {"kick", "up"}
        BY <1>5, <2>1
      <3>2. \/ LineOf(Com(k)) \in line
            \/ \E j \in Links \ {k} : SharesLine(j, k) /\ at'[j] \in Masking
        BY <1>1, <1>5, <2>1, <3>1 DEF Lines, Masking
      <3>3. ASSUME LineOf(Com(k)) \in line, LineOf(Com(k)) \notin line'
            PROVE  FALSE
        <4>1. closes /\ switch.off = "line" /\ LineOf(Com(k)) = x
          BY <2>1, <3>3
        <4>2. Com(k) = c
          BY <1>3, <1>5, <1>18, <4>1, SwitchFacts, TargetFacts
        <4>3. PICK b \in Coms : b = c
          BY <1>5
        <4>4. Attached(b)' >= 2
          <5>1. Com(k)' = Com(k) /\ Attached(Com(k))' >= Attachment(at'[k])
            BY <1>1, <1>3, NextCountFacts, TargetKept
          <5>2. Attachment(at'[k]) = 2
            BY <1>3, Weights
          <5>3. Attached(Com(k))' = Attached(b)'
            BY <4>2, <4>3, <5>1 DEF Attached
          <5> QED
            BY <5>1, <5>2, <5>3
        <4>5. isr_counter'[b] >= Attached(b)'
          BY <1>1, <1>14, <2>1, TargetKept DEF Attachments
        <4>6. Attached(b)' \in Int /\ isr_counter'[b] \in Nat
          BY <1>4, <1>6, <1>8
        <4> QED
          BY <1>3, <2>3, <4>1, <4>3, <4>4, <4>5, <4>6
      <3> QED
        BY <3>2, <3>3
    <2>8. NestedMasks'
      BY <1>1, <2>1, TargetKept DEF NestedMasks
    <2> QED
      BY <2>6, <2>7, <2>8
  <1> QED
    BY <1>1, <1>9, <1>10, <1>11, <1>12, <1>13, <1>14, <1>15, <1>16, <1>17, <1>18 DEF IInv

(* A step in which no task moves, and which changes only the doorbells, the *)
(* links that are up and what the other core has taken.                     *)
LEMMA OutsideStepInv ==
    ASSUME IInv, FullType', Bells', link_state \subseteq link_state',
           UNCHANGED <<target, env_init_counter, env_sema, platform_lock, isr_table, isr_counter,
                       sources, disable_counter, line, at, vqs, failed>>
    PROVE  IInv'
  <1>1. InUse' = InUse /\ \A c : Attached(c)' = Attached(c) /\ Masked(c)' = Masked(c)
    BY NobodyMoves
  <1>2. Users' /\ Booting' /\ Gate'
    BY <1>1, TargetKept DEF IInv, Users, Booting, Gate
  <1>3. Table'
    BY TargetKept DEF IInv, Table, Registered
  <1>4. Attachments' /\ Masks'
    BY <1>1, TargetKept DEF IInv, Attachments, Masks
  <1>5. MasterUp'
    BY TargetKept DEF IInv, MasterUp
  <1>6. OwnSwitch(target) => Sources' /\ Lines' /\ NestedMasks'
    BY TargetKept DEF IInv, Sources, Together, Lines, SharesLine, NestedMasks
  <1> QED
    BY <1>2, <1>3, <1>4, <1>5, <1>6 DEF IInv

(* The peer rings.                                                          *)
LEMMA RingInv ==
    ASSUME IInv, NEW l \in Links, NEW q \in {0, 1}, Ring(Vq(l, q))
    PROVE  IInv'
  <1> DEFINE v == Vq(l, q)
             c == Doorbell(door, v)
  <1>1. /\ rings < MaxRings /\ rings' = rings + 1
        /\ \E w \in {bell[c] \cup {v}, {v}, bell[c]} : bell' = [bell EXCEPT ![c] = w]
        /\ UNCHANGED <<target, env_init_counter, env_sema, platform_lock, isr_table, isr_counter,
                       sources, disable_counter, line, at, vqs, link_state, out, failed, inits>>
    BY DEF Ring, environment, interrupt
  <1>2. PICK w \in {bell[c] \cup {v}, {v}, bell[c]} : bell' = [bell EXCEPT ![c] = w]
    BY <1>1
  <1>3. /\ c \in Coms /\ v \in {Vq(k, p) : k \in Links, p \in {0, 1}}
        /\ bell \in [Coms -> SUBSET {Vq(k, p) : k \in Links, p \in {0, 1}}]
    BY TargetFacts, Types DEF IInv
  <1>4. rings' \in 0..MaxRings
    BY <1>1, LifecycleAssumption DEF IInv, FullType, TypeOK
  <1>5. /\ bell' \in [Coms -> SUBSET {Vq(k, p) : k \in Links, p \in {0, 1}}]
        /\ \A b \in Coms : bell'[b] \subseteq bell[b] \cup (IF b = c THEN {v} ELSE {})
    <2> HIDE DEF c, v
    <2> QED
      BY <1>2, <1>3
  <1>6. FullType'
    BY <1>1, <1>4, <1>5, TargetKept DEF IInv, FullType, TypeOK
  <1>7. Bells'
    BY <1>1, <1>5, TargetKept DEF IInv, Bells
  <1> QED
    BY <1>1, <1>6, <1>7, OutsideStepInv

(* The interrupt handler: a vector in isr_table belongs to a link.          *)
LEMMA IsrInv ==
    ASSUME IInv, NEW c \in Coms, NEW v \in bell[c], Isr(c, v)
    PROVE  IInv'
  <1> DEFINE w == Vector(door, c, Message(door, v))
  <1>1. /\ bell' = [bell EXCEPT ![c] = @ \ {v}]
        /\ link_state' = IF w \in isr_table /\ RL_GET_Q_ID(w) = tvq
                         THEN link_state \cup {RL_GET_LINK_ID(w)} ELSE link_state
        /\ UNCHANGED <<target, env_init_counter, env_sema, platform_lock, isr_table, isr_counter,
                       sources, disable_counter, line, at, vqs, out, failed, inits, rings>>
    BY DEF Isr, environment, interrupt, bounds
  <1>2. /\ bell' \in [Coms -> SUBSET {Vq(l, q) : l \in Links, q \in {0, 1}}]
        /\ \A b \in Coms : bell'[b] \subseteq bell[b]
    <2>1. bell \in [Coms -> SUBSET {Vq(l, q) : l \in Links, q \in {0, 1}}]
      BY Types DEF IInv
    <2> QED
      BY <1>1, <2>1
  <1>3. \A u \in isr_table : RL_GET_LINK_ID(u) \in Links
    <2>1. \A l \in Links, q \in {0, 1} : RL_GET_LINK_ID(Vq(l, q)) = l
      BY VectorFacts, TargetFacts, Types DEF IInv
    <2> QED
      BY <2>1 DEF IInv, Table
  <1>4. FullType'
    <2>1. link_state' \subseteq Links
      <3>1. link_state \subseteq Links
        BY Types DEF IInv
      <3> QED
        BY <1>1, <1>3, <3>1
    <2> QED
      BY <1>1, <1>2, <2>1, TargetKept DEF IInv, FullType, TypeOK
  <1>5. Bells'
    BY <1>1, <1>2, TargetKept DEF IInv, Bells
  <1> QED
    BY <1>1, <1>4, <1>5, OutsideStepInv

(* A stuttering step.                                                       *)
LEMMA StutterInv ==
    ASSUME IInv, UNCHANGED vars
    PROVE  IInv'
  <1>1. UNCHANGED <<target, env_init_counter, env_sema, platform_lock, isr_table, isr_counter,
                    sources, disable_counter, line, bell, at, vqs, link_state, out, failed,
                    inits, rings>>
    BY DEF vars
  <1>2. FullType' /\ Bells'
    BY <1>1, TargetKept DEF IInv, FullType, TypeOK, Bells
  <1> QED
    BY <1>1, <1>2, OutsideStepInv

(* The other core takes what it was sent.                                   *)
LEMMA PeerTakesInv ==
    ASSUME IInv, PeerTakes
    PROVE  IInv'
  <1>1. /\ out' = FALSE
        /\ UNCHANGED <<target, env_init_counter, env_sema, platform_lock, isr_table, isr_counter,
                       sources, disable_counter, line, bell, at, vqs, link_state, failed,
                       inits, rings>>
    BY DEF PeerTakes, environment, interrupt, bounds
  <1>2. out' \in BOOLEAN
    BY <1>1
  <1>3. FullType'
    <2>1. FullType
      BY DEF IInv
    <2> QED
      BY <1>1, <1>2, <2>1, TargetKept DEF FullType, TypeOK
  <1>4. Bells'
    BY <1>1, TargetKept DEF IInv, Bells
  <1> QED
    BY <1>1, <1>3, <1>4, OutsideStepInv

(* The initial states: nobody is in the library.                            *)
LEMMA InitInv == Init => IInv
  <1> SUFFICES ASSUME Init PROVE IInv
    OBVIOUS
  <1>1. /\ target \in Targets /\ at = [l \in Links |-> "none"]
        /\ env_init_counter = 0 /\ env_sema = -1 /\ platform_lock = FALSE
        /\ isr_table = {} /\ isr_counter = [c \in Coms |-> 0] /\ sources = {}
        /\ disable_counter = [k \in Keys |-> 0] /\ line \in {Keys, {}}
        /\ bell = [c \in Coms |-> {}] /\ vqs = {} /\ link_state = {}
        /\ out = FALSE /\ failed = FALSE /\ inits = 0 /\ rings = 0
    BY DEF Init
  <1>2. \A l \in Links : at[l] = "none"
    BY <1>1
  <1>3. NumberIn(Links, at, Inside) = 0
    <2>1. {m \in Links : at[m] \in Inside} = {}
      BY <1>2 DEF Inside
    <2> QED
      BY <2>1, FS_EmptySet DEF NumberIn
  <1>4. \A c, X : "none" \notin X => NumberIn(On(c), at, X) = 0 /\ NumberIn(By(c), at, X) = 0
    <2> SUFFICES ASSUME NEW c, NEW X, "none" \notin X
                 PROVE  NumberIn(On(c), at, X) = 0 /\ NumberIn(By(c), at, X) = 0
      OBVIOUS
    <2>1. {m \in On(c) : at[m] \in X} = {} /\ {m \in By(c) : at[m] \in X} = {}
      BY <1>2 DEF On, By
    <2> QED
      BY <2>1, FS_EmptySet DEF NumberIn
  <1>5. InUse = 0 /\ \A c : Attached(c) = 0 /\ Masked(c) = 0
    <2>1. /\ "none" \notin AttachedOnce /\ "none" \notin AttachedTwice /\ "none" \notin Masking
          /\ "none" \notin {"unmask_r"}
      BY DEF AttachedOnce, AttachedTwice, Masking
    <2>2. ASSUME NEW c
          PROVE  Attached(c) = 0 /\ Masked(c) = 0
      BY <1>4, <2>1 DEF Attached, Masked, Count
    <2> QED
      BY <1>3, <2>2 DEF InUse, Count
  <1>6. FullType
    <2>1. at \in [Links -> Steps]
      <3>1. "none" \in Steps
        BY StepFacts
      <3> QED
        BY <1>1, <3>1
    <2>2. /\ isr_counter \in [Coms -> Nat] /\ disable_counter \in [Keys -> Nat]
          /\ bell \in [Coms -> SUBSET {Vq(l, q) : l \in Links, q \in {0, 1}}]
      BY <1>1
    <2>3. line \subseteq Keys
      BY <1>1
    <2>4. /\ env_init_counter \in Nat /\ env_sema \in -1..2
          /\ inits \in 0..MaxInits /\ rings \in 0..MaxRings
      BY <1>1, LifecycleAssumption
    <2>5. platform_lock \in BOOLEAN /\ out \in BOOLEAN /\ failed \in BOOLEAN
      BY <1>1
    <2>6. /\ isr_table \subseteq 0..(target.dev.ids.isr_count - 1)
          /\ sources \subseteq Coms \X {0, 1}
          /\ vqs \subseteq Links /\ link_state \subseteq Links
      BY <1>1
    <2>7. TypeOK
      BY <2>1, <2>2, <2>3, <2>4, <2>5, <2>6 DEF TypeOK
    <2> QED
      BY <1>1, <2>7 DEF FullType
  <1>7. Users /\ Booting /\ Gate /\ Table /\ Attachments /\ Masks /\ MasterUp /\ Bells
    BY <1>1, <1>2, <1>5
    DEF Users, Booting, Gate, Table, Registered, WithVqs, Attachments, Masks, MasterUp, Bells
  <1>8. ASSUME OwnSwitch(target)
        PROVE  Sources /\ Lines /\ NestedMasks
    <2>1. switch.on = "queue" => switch.limit = 2
      BY <1>1, <1>8, SwitchFacts
    <2>2. switch.on = "com" => switch.limit > 0
      BY <1>1, <1>8, SwitchFacts
    <2>3. switch.limit \in 0..2
      BY <1>1, TargetFacts
    <2>4. Sources
      BY <1>1, <1>2, <2>1, <2>2, <2>3 DEF Sources, Together, AttachedOnce, AttachedTwice
    <2> QED
      BY <1>1, <1>2, <2>4 DEF Lines, NestedMasks
  <1> QED
    BY <1>6, <1>7, <1>8 DEF IInv

(* Every step keeps the invariant.                                          *)
LEMMA NextInv ==
    ASSUME Gated, IInv, [Next]_vars
    PROVE  IInv'
  <1>1. ASSUME NEW l \in Links,
               \/ EnvInit(l) \/ platform_init(l) \/ EnvInitWait(l)
               \/ Create(l) \/ CreateFails(l)
               \/ \E q \in {0, 1} : env_register_isr(l, q) \/ Attach(l, q) \/ Ring(Vq(l, q))
               \/ platform_interrupt_disable(l) \/ platform_interrupt_enable(l) \/ Kick(l)
               \/ platform_deinit_interrupt(l) \/ Free(l) \/ EnvDeinit(l)
        PROVE  IInv'
    BY <1>1, EnvInitInv, PlatformInitInv, EnvInitWaitInv, CreateInv, CreateFailsInv,
       RegisterInv, AttachInv, RingInv, DisableInv, EnableInv, KickInv, DetachInv, FreeInv,
       EnvDeinitInv
  <1>2. ASSUME NEW c \in Coms, NEW v \in bell[c], Isr(c, v)
        PROVE  IInv'
    BY <1>2, IsrInv
  <1>3. CASE PeerTakes
    BY <1>3, PeerTakesInv
  <1>4. CASE Rest \/ UNCHANGED vars
    BY <1>4, StutterInv DEF Rest
  <1> QED
    BY <1>1, <1>2, <1>3, <1>4 DEF Next

-----------------------------------------------------------------------------
(* After an env_init that failed.                                           *)

(* What a failure leaves behind: there is no lock, so a task that comes to  *)
(* platform_init_interrupt is lost in it, or is sent back with an error     *)
(* that its init function does not look at; a master is then lost in        *)
(* platform_notify.  The semaphore is missing only where it may be.         *)
Early    == {"none", "wait", "create", "register0", "attach0", "halt"}
Returned == {"up", "detach_t", "free", "deinit"}
Place(s) == /\ target.dev.irq.check \/ s \in Early
            /\ target.role = "remote" \/ s \notin Returned

Aftermath ==
    failed => /\ port.fallible \/ env_sema >= 0
              /\ \A l \in Links : Place(at[l])

(* A task goes on to a step where it may be after a failure.                *)
LEMMA StepAftermath ==
    ASSUME IInv, Aftermath, NEW l \in Links, NEW s \in Steps, Goto(l, s), target' = target,
           failed' = failed, failed => Place(s) /\ env_sema' = env_sema
    PROVE  Aftermath'
  <1>1. at'[l] = s /\ \A k \in Links : k # l => at'[k] = at[k]
    BY TaskSteps
  <1> QED
    BY <1>1, TargetKept DEF Aftermath, Place

(* Nothing that Aftermath speaks of changes.                                *)
LEMMA AftermathKept ==
    ASSUME Aftermath, UNCHANGED <<target, failed, env_sema, at>>
    PROVE  Aftermath'
  BY TargetKept DEF Aftermath, Place

(* env_init fails only for the first caller, with nobody in the library.    *)
LEMMA EnvInitAftermath ==
    ASSUME IInv, Aftermath, NEW l \in Links, EnvInit(l)
    PROVE  Aftermath'
  <1>1. /\ target \in Targets /\ env_init_counter \in Nat /\ at \in [Links -> Steps]
        /\ InUse \in Nat /\ target' = target
    BY Types, CountFacts DEF IInv, EnvInit
  <1>2. CASE env_init_counter = 0
    <2>1. InUse = 0 /\ ~failed
      BY <1>1, <1>2 DEF IInv, Users
    <2>2. \A k \in Links : InUse >= Uses(at[k])
      BY <1>1, CountFacts
    <2>3. \A k \in Links : at[k] = "none"
      BY <1>1, <2>1, <2>2, Weights
    <2>4. failed' => port.fallible /\ at' = at
      BY <1>2, <2>1 DEF EnvInit
    <2> QED
      BY <1>1, <2>3, <2>4, TargetKept DEF Aftermath, Place, Early, Returned
  <1>3. CASE env_init_counter > 0
    <2> DEFINE s == IF port.tasks THEN "wait" ELSE "create"
    <2>1. Goto(l, s) /\ failed' = failed /\ env_sema' = env_sema
      BY <1>1, <1>3 DEF EnvInit
    <2>2. s \in Steps /\ Place(s)
      BY StepFacts DEF Place, Early, Returned
    <2> QED
      BY <1>1, <2>1, <2>2, StepAftermath
  <1> QED
    BY <1>1, <1>2, <1>3

(* platform_init fails while the others are outside or wait.                *)
LEMMA PlatformInitAftermath ==
    ASSUME IInv, Aftermath, NEW l \in Links, platform_init(l)
    PROVE  Aftermath'
  <1>1. /\ at[l] = "boot" /\ target' = target
        /\ env_sema' = IF port.tasks THEN env_sema + 1 ELSE env_sema
        /\ \/ failed' = failed
           \/ Goto(l, "none")
    BY DEF platform_init
  <1>2. /\ ~failed /\ env_sema = port.sema
        /\ \A k \in Links \ {l} : at[k] \in {"none", "wait"}
    BY <1>1 DEF IInv, Booting
  <1>3. env_sema' >= 0
    <2>1. port.sema \in {0, 1}
      BY TargetFacts, Types DEF IInv
    <2> QED
      BY <1>1, <1>2, <2>1
  <1>4. CASE failed' = failed
    BY <1>2, <1>4 DEF Aftermath
  <1>5. CASE Goto(l, "none")
    <2>1. at'[l] = "none" /\ \A k \in Links : k # l => at'[k] = at[k]
      BY <1>1, <1>5, TaskSteps, StepFacts
    <2>2. \A k \in Links : at'[k] \in {"none", "wait"}
      BY <1>2, <2>1
    <2> QED
      BY <1>1, <1>3, <2>2, TargetKept DEF Aftermath, Place, Early, Returned
  <1> QED
    BY <1>1, <1>4, <1>5

(* Without a lock a task does not get through platform_init_interrupt where *)
(* the lock is not checked.                                                 *)
LEMMA InterruptAftermath ==
    ASSUME IInv, Aftermath, NEW l \in Links, NEW q \in {0, 1},
           env_register_isr(l, q) \/ Attach(l, q)
    PROVE  Aftermath'
  <1>1. target' = target /\ failed' = failed /\ env_sema' = env_sema
    BY DEF env_register_isr, Attach, environment
  <1>2. failed => ~platform_lock /\ Place(at[l])
    BY DEF IInv, Users, Aftermath
  <1>3. CASE env_register_isr(l, q)
    <2>1. \/ at[l] = "register0" /\ Goto(l, "attach0")
          \/ at[l] = "register1" /\ Goto(l, "attach1")
      BY <1>3, StepFacts DEF env_register_isr, Follow
    <2>2. /\ Place("attach0")
          /\ Place("register1") => Place("attach1")
      BY DEF Place, Early, Returned
    <2> QED
      BY <1>1, <1>2, <2>1, <2>2, StepAftermath, StepFacts
  <1>4. CASE Attach(l, q)
    <2>1. /\ at[l] \in {"attach0", "attach1"}
          /\ \/ Goto(l, "halt")
             \/ (target.dev.irq.check \/ platform_lock) /\ Goto(l, After[at[l]])
      BY <1>4 DEF Attach, Returns, Follow
    <2>2. /\ After[at[l]] \in {"register1", "mask_r"}
          /\ "halt" \in Steps /\ After[at[l]] \in Steps
      BY <2>1, StepFacts
    <2>3. /\ Place("halt")
          /\ target.dev.irq.check => Place("register1") /\ Place("mask_r")
      BY DEF Place, Early, Returned
    <2> QED
      BY <1>1, <1>2, <2>1, <2>2, <2>3, StepAftermath
  <1> QED
    BY <1>3, <1>4

(* A master is lost in its first kick; a task that has gone further without *)
(* a lock is a remote's.                                                    *)
LEMMA TaskAftermath ==
    ASSUME IInv, Aftermath, NEW l \in Links,
           \/ EnvInitWait(l) \/ Create(l) \/ CreateFails(l)
           \/ platform_interrupt_disable(l) \/ platform_interrupt_enable(l) \/ Kick(l)
           \/ platform_deinit_interrupt(l) \/ Free(l)
    PROVE  Aftermath'
  <1>1. target' = target /\ failed' = failed /\ env_sema' = env_sema
    BY DEF EnvInitWait, Create, CreateFails, platform_interrupt_disable,
           platform_interrupt_enable, Kick, platform_deinit_interrupt, Free, environment
  <1>2. failed => ~platform_lock /\ Place(at[l])
    BY DEF IInv, Users, Aftermath
  <1>3. CASE EnvInitWait(l) \/ Create(l) \/ CreateFails(l)
    <2>1. PICK s \in {"create", "register0", "none"} : Goto(l, s)
      BY <1>3, StepFacts DEF EnvInitWait, Create, CreateFails, Follow
    <2>2. s \in Steps /\ Place(s)
      BY StepFacts DEF Place, Early, Returned
    <2> QED
      BY <1>1, <2>1, <2>2, StepAftermath
  <1>4. CASE platform_interrupt_disable(l) \/ platform_interrupt_enable(l)
    <2>1. /\ at[l] \in {"mask_r", "mask_t", "unmask_r", "unmask_t"}
          /\ \E s \in {"mask_t", "unmask_r", "unmask_t", "kick", "up"} :
                Goto(l, s) /\ (s = "up" => target.role # "master")
      BY <1>4, StepFacts DEF platform_interrupt_disable, platform_interrupt_enable, Follow
    <2>2. PICK s \in {"mask_t", "unmask_r", "unmask_t", "kick", "up"} :
             Goto(l, s) /\ (s = "up" => target.role # "master")
      BY <2>1
    <2>3. target.role \in {"master", "remote"}
      BY LifecycleAssumption, Types DEF IInv
    <2>4. s \in Steps /\ (failed => Place(s))
      BY <1>2, <2>1, <2>2, <2>3, StepFacts DEF Place, Early, Returned
    <2> QED
      BY <1>1, <2>2, <2>4, StepAftermath
  <1>5. CASE Kick(l)
    <2>1. \/ platform_lock /\ Goto(l, "up")
          \/ Goto(l, "halt")
      BY <1>5 DEF Kick
    <2>2. {"up", "halt"} \subseteq Steps /\ Place("halt")
      BY StepFacts DEF Place, Early, Returned
    <2> QED
      BY <1>1, <1>2, <2>1, <2>2, StepAftermath
  <1>6. CASE platform_deinit_interrupt(l) \/ Free(l)
    <2>1. /\ at[l] \in {"up", "detach_t", "free"}
          /\ \E s \in {"detach_t", "free", "deinit", "halt"} : Goto(l, s)
      BY <1>6 DEF platform_deinit_interrupt, Free
    <2>2. PICK s \in {"detach_t", "free", "deinit", "halt"} : Goto(l, s)
      BY <2>1
    <2>3. s \in Steps /\ (failed => Place(s))
      BY <1>2, <2>1, <2>2, StepFacts DEF Place, Early, Returned
    <2> QED
      BY <1>1, <2>2, <2>3, StepAftermath
  <1> QED
    BY <1>3, <1>4, <1>5, <1>6

(* After a failure env_deinit finds the counter too high to take anything   *)
(* down.                                                                    *)
LEMMA EnvDeinitAftermath ==
    ASSUME IInv, Aftermath, NEW l \in Links, EnvDeinit(l)
    PROVE  Aftermath'
  <1>1. /\ at[l] = "deinit" /\ Goto(l, "none") /\ target' = target /\ failed' = failed
        /\ env_init_counter - 1 <= 0 \/ env_sema' = env_sema
    BY DEF EnvDeinit, Last
  <1>2. target \in Targets /\ env_init_counter \in Nat /\ at \in [Links -> Steps]
    BY Types DEF IInv
  <1>3. InUse \in Nat /\ InUse >= Uses(at[l]) /\ Uses(at[l]) = 1
    BY <1>1, <1>2, CountFacts, Weights
  <1>4. failed => env_sema' = env_sema
    BY <1>1, <1>2, <1>3 DEF IInv, Users
  <1>5. "none" \in Steps /\ Place("none")
    BY StepFacts DEF Place, Early, Returned
  <1> QED
    BY <1>1, <1>4, <1>5, StepAftermath

(* Every step keeps it.                                                     *)
LEMMA NextAftermath ==
    ASSUME IInv, Aftermath, [Next]_vars
    PROVE  Aftermath'
  <1>1. ASSUME NEW l \in Links, NEW q \in {0, 1}, Ring(Vq(l, q))
        PROVE  Aftermath'
    <2>1. UNCHANGED <<target, failed, env_sema, at>>
      BY <1>1 DEF Ring, environment
    <2> QED
      BY <2>1, AftermathKept
  <1>2. ASSUME \/ \E c \in Coms : \E v \in bell[c] : Isr(c, v)
               \/ PeerTakes \/ Rest \/ UNCHANGED vars
        PROVE  Aftermath'
    <2>1. UNCHANGED <<target, failed, env_sema, at>>
      BY <1>2 DEF Isr, PeerTakes, Rest, vars, environment
    <2> QED
      BY <2>1, AftermathKept
  <1> QED
    BY <1>1, <1>2, EnvInitAftermath, PlatformInitAftermath, InterruptAftermath, TaskAftermath,
       EnvDeinitAftermath DEF Next

-----------------------------------------------------------------------------
(* The theorems.                                                            *)

(* The inductive invariant holds in every reachable state of every target   *)
(* whose env_init holds the other callers back: the counters count what     *)
(* they stand for, and a vector is in isr_table exactly while its virtqueue *)
(* is attached.                                                             *)
THEOREM Invariance ==
    ASSUME Gated
    PROVE  Spec => []IInv
  <1>1. Init => IInv
    BY InitInv
  <1>2. IInv /\ [Next]_vars => IInv'
    BY NextInv
  <1> QED
    BY <1>1, <1>2, PTL DEF Spec

(* After an env_init that failed every task is where Aftermath says.        *)
THEOREM AftermathHolds ==
    ASSUME Gated
    PROVE  Spec => []Aftermath
  <1>1. Init => Aftermath
    BY DEF Init, Aftermath
  <1>2. IInv /\ Aftermath /\ [Next]_vars => Aftermath'
    BY NextAftermath
  <1> QED
    BY <1>1, <1>2, Invariance, PTL DEF Spec

(* Type correctness: the counters of the environment and the platform never *)
(* go below zero and isr_table is never indexed past its end.               *)
THEOREM TypeCorrect ==
    ASSUME Gated
    PROVE  Spec => []TypeOK
  <1>1. IInv => TypeOK
    BY DEF IInv, FullType
  <1> QED
    BY <1>1, Invariance, PTL

(* env_init returns to a caller only when platform_init has finished,       *)
(* however many tasks call it at once, and nobody is in platform_init then, *)
(* whether an earlier one failed or not.                                    *)
THEOREM InitWaitsHolds ==
    ASSUME Gated
    PROVE  Spec => []InitWaits
  <1>1. IInv => InitWaits
    <2> SUFFICES ASSUME IInv, NEW l \in Links, at[l] \in Initialised
                 PROVE  /\ platform_lock \/ failed
                        /\ \A k \in Links : at[k] # "boot"
      BY DEF InitWaits
    <2>1. at[l] \notin {"none", "boot", "wait"}
      BY StepFacts
    <2>2. platform_lock \/ failed
      BY <2>1 DEF IInv, Gate
    <2>3. ASSUME NEW k \in Links, at[k] = "boot"
          PROVE  FALSE
      BY <2>1, <2>3 DEF IInv, Booting
    <2> QED
      BY <2>2, <2>3
  <1> QED
    BY <1>1, Invariance, PTL

(* env_deinit takes the semaphore away only when nobody is in the library,  *)
(* after a failed env_init too: the counter is then too high for it.        *)
THEOREM EnvKeptHolds ==
    ASSUME Gated
    PROVE  Spec => []EnvKept
  <1>1. IInv /\ Aftermath => EnvKept
    <2> SUFFICES ASSUME IInv, Aftermath, NEW l \in Links, at[l] # "none"
                 PROVE  /\ env_init_counter > 0
                        /\ env_sema >= 0 \/ (failed /\ port.fallible)
      BY DEF EnvKept
    <2>1. target \in Targets /\ env_init_counter \in Nat /\ at[l] \in Steps
      BY Types DEF IInv
    <2>2. InUse \in Nat /\ InUse >= Uses(at[l]) /\ Uses(at[l]) = 1
      BY <2>1, CountFacts, Weights
    <2>3. env_init_counter > 0
      BY <2>1, <2>2 DEF IInv, Users
    <2>4. ~failed => env_sema >= 0
      BY <2>3 DEF IInv, Gate
    <2> QED
      BY <2>3, <2>4 DEF Aftermath
  <1> QED
    BY <1>1, Invariance, AftermathHolds, PTL

(* The interrupt handler finds no virtqueue in isr_table that               *)
(* rpmsg_lite_deinit or an error path has freed.                            *)
THEOREM TableLiveHolds ==
    ASSUME Gated
    PROVE  Spec => []TableLive
  <1>1. IInv => TableLive
    <2> SUFFICES ASSUME IInv, NEW v \in isr_table
                 PROVE  RL_GET_LINK_ID(v) \in vqs
      BY DEF TableLive
    <2>1. PICK l \in Links, q \in {0, 1} : v = Vq(l, q) /\ at[l] \in Registered(q) \cup {"halt"}
      BY DEF IInv, Table
    <2>2. RL_GET_LINK_ID(v) = l
      BY <2>1, VectorFacts, TargetFacts, Types DEF IInv
    <2>3. at[l] \in WithVqs
      BY <2>1 DEF Registered, WithVqs
    <2> QED
      BY <2>2, <2>3 DEF IInv, Table
  <1> QED
    BY <1>1, Invariance, PTL

(* The RL_ASSERTs on the counters of the platform layers never fail: with a *)
(* lock no env_init has failed.                                             *)
THEOREM AssertsHoldAlways ==
    ASSUME Gated
    PROVE  Spec => []AssertsHold
  <1>1. IInv => AssertsHold
    <2> SUFFICES ASSUME IInv, NEW l \in Links
                 PROVE  /\ at[l] \in {"up", "detach_t"} /\ platform_lock
                             => isr_counter[Com(l)] > 0
                        /\ at[l] \in {"unmask_r", "unmask_t"}
                             => disable_counter[CounterOf(l)] > 0
      BY DEF AssertsHold
    <2>1. /\ target \in Targets /\ Com(l) \in Coms /\ CounterOf(l) \in Keys
          /\ isr_counter \in [Coms -> Nat]
      BY Types, TargetFacts DEF IInv
    <2>2. /\ Attached(Com(l)) \in Nat /\ Attached(Com(l)) >= Attachment(at[l])
          /\ Masked(CounterOf(l)) \in Nat /\ Masked(CounterOf(l)) >= Depth(at[l])
      BY <2>1, CountFacts
    <2>3. /\ at[l] \in {"up", "detach_t"} => Attachment(at[l]) \in {1, 2}
          /\ at[l] \in {"unmask_r", "unmask_t"} => Depth(at[l]) \in {1, 2}
      BY <2>1, Weights
    <2>4. platform_lock => isr_counter[Com(l)] >= Attached(Com(l))
      BY <2>1 DEF IInv, Users, Attachments
    <2>5. disable_counter[CounterOf(l)] = Masked(CounterOf(l))
      BY <2>1 DEF IInv, Masks
    <2> QED
      BY <2>1, <2>2, <2>3, <2>4, <2>5
  <1> QED
    BY <1>1, Invariance, PTL

(* Nobody else switches what platform_init_interrupt of a link switches.    *)
Separate == \A t \in Targets : OwnSwitch(t)

(* platform_interrupt_disable and platform_interrupt_enable nest: no init   *)
(* and no deinit of another link turns on a line that is masked.            *)
THEOREM NestedMasksHolds ==
    ASSUME Gated, Separate
    PROVE  Spec => []NestedMasks
  <1>1. IInv => NestedMasks
    BY DEF IInv, FullType, Separate
  <1> QED
    BY <1>1, Invariance, PTL

(* Once an init function has returned an instance both of its virtqueues    *)
(* can be reached by the interrupt until its own deinit, whatever other     *)
(* links do meanwhile; after a failure no instance is returned but the one  *)
(* that UpIsReachable names.                                                *)
THEOREM UpIsReachableHolds ==
    ASSUME Gated, Separate
    PROVE  Spec => []UpIsReachable
  <1>1. IInv /\ Aftermath => UpIsReachable
    <2> SUFFICES ASSUME IInv, Aftermath, NEW l \in Links, at[l] = "up",
                        ~(failed /\ Returns /\ target.role = "remote")
                 PROVE  /\ {Vq(l, 0), Vq(l, 1)} \subseteq isr_table
                        /\ target.role = "master" => l \in link_state
                        /\ \/ Heard(Com(l), 0) /\ Heard(Com(l), 1)
                           \/ \E k \in Links \ {l} : SharesLine(k, l) /\ at[k] \in Masking
      BY DEF UpIsReachable
    <2>0. ~failed
      BY DEF IInv, Users, Aftermath, Place, Early, Returned, Returns
    <2>1. /\ target \in Targets /\ OwnSwitch(target) /\ Com(l) \in Coms
          /\ isr_counter \in [Coms -> Nat] /\ switch.limit \in 0..2
      BY Types, TargetFacts DEF IInv, Separate
    <2>2. {Vq(l, 0), Vq(l, 1)} \subseteq isr_table
      <3>1. at[l] \in Registered(0) /\ at[l] \in Registered(1)
        BY DEF Registered
      <3> QED
        BY <2>0, <3>1 DEF IInv, Table
    <2>3. target.role = "master" => l \in link_state
      BY DEF IInv, MasterUp
    <2>4. switch.on \in {"com", "queue"} => <<Com(l), 0>> \in sources /\ <<Com(l), 1>> \in sources
      <3>1. CASE Together(Com(l))
        <4>1. isr_counter[Com(l)] >= switch.limit
          <5>1. Attached(Com(l)) \in Nat /\ Attached(Com(l)) >= 2
            BY <2>1, CountFacts, Weights
          <5>2. isr_counter[Com(l)] >= Attached(Com(l))
            BY <2>0, <2>1 DEF IInv, Attachments
          <5> QED
            BY <2>1, <5>1, <5>2
        <4> QED
          BY <2>1, <3>1, <4>1 DEF IInv, Sources
      <3>2. CASE switch.on = "queue" /\ Com(l) \notin switch.both
        <4>1. at[l] \in AttachedOnce \ {"detach_t"} /\ at[l] \in AttachedTwice
          BY DEF AttachedOnce, AttachedTwice
        <4> QED
          BY <2>0, <2>1, <3>2, <4>1 DEF IInv, Sources
      <3> QED
        BY <3>1, <3>2 DEF Together
    <2>5. \/ LineOf(Com(l)) \in line
          \/ \E k \in Links \ {l} : SharesLine(k, l) /\ at[k] \in Masking
      BY <2>0, <2>1 DEF IInv, Lines
    <2> QED
      BY <2>2, <2>3, <2>4, <2>5 DEF Heard
  <1> QED
    BY <1>1, Invariance, AftermathHolds, PTL

-----------------------------------------------------------------------------
(* Vrings.                                                                  *)

(* Up(n, align) is the least multiple of align that is at least n.          *)
LEMMA UpFacts ==
    ASSUME NEW n \in Nat, NEW align \in Nat \ {0}
    PROVE  /\ Up(n, align) \in Nat /\ n <= Up(n, align)
           /\ \A k \in Nat : n <= k * align => Up(n, align) <= k * align
           /\ \E k \in Nat : Up(n, align) = k * align
  <1> DEFINE m == n + align - 1
             d == m \div align
             r == m % align
  <1>1. m \in Nat /\ align > 0
    OBVIOUS
  <1>2. d \in Nat /\ r \in 0..(align - 1) /\ m = align * d + r
    BY <1>1
  <1> HIDE DEF d, r
  <1>3. d * align \in Nat /\ d * align = align * d
    BY <1>2
  <1>4. n <= d * align
    BY <1>2, <1>3
  <1>5. d * align < n + align
    BY <1>2, <1>3
  <1>6. ASSUME NEW k \in Nat, n <= k * align
        PROVE  d * align <= k * align
    <2>1. CASE d <= k
      BY <1>2, <2>1
    <2>2. CASE d > k
      <3>1. d * align >= (k + 1) * align
        BY <1>2, <2>2
      <3>2. (k + 1) * align = k * align + align
        OBVIOUS
      <3> QED
        BY <1>3, <1>5, <1>6, <3>1, <3>2
    <2> QED
      BY <1>2, <2>1, <2>2
  <1>7. Up(n, align) = d * align
    BY DEF Up, d
  <1> QED
    BY <1>2, <1>3, <1>4, <1>6, <1>7

(* Two areas that are aligned one by one hold them aligned together.        *)
LEMMA UpSum ==
    ASSUME NEW a \in Nat, NEW b \in Nat, NEW align \in Nat \ {0}
    PROVE  Up(a + b, align) <= Up(a, align) + Up(b, align)
  <1>1. PICK j \in Nat : Up(a, align) = j * align
    BY UpFacts
  <1>2. PICK k \in Nat : Up(b, align) = k * align
    BY UpFacts
  <1>3. a <= j * align /\ b <= k * align
    BY <1>1, <1>2, UpFacts
  <1>4. (j + k) * align = j * align + k * align /\ j * align \in Nat /\ k * align \in Nat
    OBVIOUS
  <1>5. a + b <= (j + k) * align
    BY <1>3, <1>4
  <1>6. Up(a + b, align) <= (j + k) * align
    <2>1. a + b \in Nat /\ j + k \in Nat
      OBVIOUS
    <2> QED
      BY <1>5, <2>1, UpFacts
  <1> QED
    BY <1>1, <1>2, <1>4, <1>6

(* VRING_SIZE is enough for what vring_init lays out.                       *)
LEMMA VringFits ==
    ASSUME NEW n \in Nat, NEW align \in Nat \ {0}
    PROVE  /\ vring_size(n, align) \in Nat /\ VRING_SIZE(n, align) \in Nat
           /\ vring_size(n, align) <= VRING_SIZE(n, align)
  <1> DEFINE desc  == 16 * n
             avail == 6 + 2 * n + 2
             used  == 12 + 8 * n + 2
  <1>1. desc \in Nat /\ avail \in Nat /\ used \in Nat /\ desc + avail \in Nat
    OBVIOUS
  <1>2. /\ vring_size(n, align) = Up(desc + avail, align) + used
        /\ VRING_SIZE(n, align) = Up(desc, align) + Up(avail, align) + Up(used, align)
    BY DEF vring_size, VRING_SIZE
  <1> HIDE DEF desc, avail, used
  <1>3. Up(desc + avail, align) <= Up(desc, align) + Up(avail, align)
    BY <1>1, UpSum
  <1>4. /\ Up(desc, align) \in Nat /\ Up(avail, align) \in Nat /\ Up(used, align) \in Nat
        /\ Up(desc + avail, align) \in Nat /\ used <= Up(used, align)
    BY <1>1, UpFacts
  <1> QED
    BY <1>1, <1>2, <1>3, <1>4

(* Every target sets aside at least VRING_SIZE for a vring, and the room is *)
(* a number of bytes.                                                       *)
SetAside == \A t \in Targets : RingsSetAside(t)

(* Whenever virtqueues exist, what vring_init lays out for any buffer count *)
(* fits in the area set aside for it: no vring reaches into the next one.   *)
THEOREM RingsFitHolds ==
    ASSUME Gated, SetAside
    PROVE  Spec => []RingsFit
  <1>1. IInv => RingsFit
    <2> SUFFICES ASSUME IInv, NEW r \in target.dev.ids.vrings, NEW n \in DOMAIN r.room
                 PROVE  vring_size(n, r.align) <= r.room[n]
      BY DEF RingsFit
    <2>1. /\ r.align \in Nat \ {0} /\ n \in Nat /\ r.room[n] \in Nat
          /\ VRING_SIZE(n, r.align) <= r.room[n]
      BY Types DEF IInv, SetAside, RingsSetAside
    <2>2. /\ vring_size(n, r.align) \in Nat /\ VRING_SIZE(n, r.align) \in Nat
          /\ vring_size(n, r.align) <= VRING_SIZE(n, r.align)
      BY <2>1, VringFits
    <2> QED
      BY <2>1, <2>2
  <1> QED
    BY <1>1, Invariance, PTL

-----------------------------------------------------------------------------
(* Doorbells.                                                               *)

(* The handlers put back what the message lacks, and                        *)
(* platform_deinit_interrupt shuts what platform_init_interrupt opened.     *)
Restoring == \A t \in Targets : PutsBack(t)
Shutting  == \A t \in Targets : ShutsAgain(t)

(* What is rung for a virtqueue is handed to env_isr as its vector.         *)
LEMMA VectorPutBack ==
    ASSUME target \in Targets, PutsBack(target), NEW l \in Links, NEW q \in {0, 1}
    PROVE  Vector(door, Com(l), Message(door, Vq(l, q))) = Vq(l, q)
  <1>1. l \in Nat /\ Vq(l, q) \in Nat /\ Vq(l, q) = 2 * l + q /\ Vq(l, 0) = 2 * l
    BY TargetFacts DEF Vq, RL_GET_VQ_ID
  <1>2. CASE door.part = "vector"
    BY <1>2 DEF Vector, Message
  <1>3. CASE door.part \in {"slot", "queue"}
    <2>1. /\ door.route[Com(l)] = Vq(l, 0) \div 8
          /\ door.part = "queue" => Vq(l, 0) % 8 = 0
      BY <1>3 DEF PutsBack, door, Com, Vq, RL_GET_COM_ID, RL_GEN_MU_MSG, Links
    <2>2. Vq(l, 0) \div 8 = Vq(l, q) \div 8
      BY <1>1
    <2>3. CASE door.part = "slot"
      <3>1. Message(door, Vq(l, q)) = Vq(l, q) % 8
        BY <2>3 DEF Message, RL_GEN_MU_MSG
      <3>2. Vq(l, q) = 8 * (Vq(l, q) \div 8) + (Vq(l, q) % 8)
        BY <1>1
      <3>3. Vector(door, Com(l), Message(door, Vq(l, q)))
               = 8 * door.route[Com(l)] + (Vq(l, q) % 8)
        BY <2>3, <3>1 DEF Vector
      <3> QED
        BY <2>1, <2>2, <3>2, <3>3
    <2>4. CASE door.part = "queue"
      <3>1. Message(door, Vq(l, q)) = Vq(l, q) % 2
        BY <2>4 DEF Message, RL_GET_Q_ID
      <3>2. Vq(l, q) % 2 = q
        BY <1>1
      <3>3. Vq(l, 0) = 8 * (Vq(l, 0) \div 8)
        BY <1>1, <2>1, <2>4
      <3>4. Vector(door, Com(l), Message(door, Vq(l, q))) = 8 * door.route[Com(l)] + q
        BY <2>4, <3>1, <3>2 DEF Vector
      <3> QED
        BY <1>1, <2>1, <3>3, <3>4
    <2> QED
      BY <1>3, <2>3, <2>4
  <1> QED
    BY <1>2, <1>3 DEF PutsBack, door

(* A doorbell that platform_init does not clear is taken by the handler     *)
(* only.                                                                    *)
LEMMA TakenByIsr ==
    ASSUME IInv, [Next]_vars, NEW c \in Coms, NEW v \in bell[c], v \notin bell'[c], ~boot.clears
    PROVE  Isr(c, v)
  <1>1. bell' # bell
    OBVIOUS
  <1>2. ASSUME NEW l \in Links, NEW q \in {0, 1}
        PROVE  ~Ring(Vq(l, q))
    <2> SUFFICES ASSUME Ring(Vq(l, q)) PROVE FALSE
      OBVIOUS
    <2>1. PICK d : \E w : /\ bell' = [bell EXCEPT ![d] = w]
                          /\ bell[d] \subseteq w
      BY DEF Ring
    <2> QED
      BY <2>1, Types DEF IInv
  <1>3. ASSUME NEW l \in Links
        PROVE  /\ ~EnvInit(l) /\ ~platform_init(l) /\ ~EnvInitWait(l)
               /\ ~Create(l) /\ ~CreateFails(l) /\ ~Free(l) /\ ~EnvDeinit(l) /\ ~Kick(l)
    BY <1>1 DEF EnvInit, platform_init, EnvInitWait, Create, CreateFails, Free, EnvDeinit, Kick
  <1>4. ASSUME NEW l \in Links, NEW q \in {0, 1}
        PROVE  /\ ~env_register_isr(l, q) /\ ~Attach(l, q) /\ ~platform_interrupt_disable(l)
               /\ ~platform_interrupt_enable(l) /\ ~platform_deinit_interrupt(l)
    BY <1>1 DEF env_register_isr, Attach, platform_interrupt_disable, platform_interrupt_enable,
                platform_deinit_interrupt
  <1>5. ~PeerTakes /\ ~Rest /\ ~UNCHANGED vars
    BY <1>1 DEF PeerTakes, Rest, vars
  <1>6. PICK b \in Coms : \E w \in bell[b] : Isr(b, w)
    <2>1. Next
      BY <1>5
    <2> QED
      BY <1>2, <1>3, <1>4, <1>5, <2>1 DEF Next
  <1>7. PICK w \in bell[b] : Isr(b, w)
    BY <1>6
  <1>8. bell' = [bell EXCEPT ![b] = @ \ {w}]
    BY <1>7 DEF Isr
  <1>9. b = c /\ w = v
    BY <1>8
  <1> QED
    BY <1>7, <1>9

(* The vectors that are rung are those of the links of the doorbell.        *)
LEMMA RungVectors ==
    ASSUME IInv, NEW c \in Coms, NEW v \in bell[c]
    PROVE  \E l \in Links, q \in {0, 1} : v = Vq(l, q) /\ Com(l) = c
  <1>1. PICK l \in Links, q \in {0, 1} : v = Vq(l, q)
    BY DEF IInv, FullType, TypeOK
  <1>2. Doorbell(door, v) = c
    BY DEF IInv, Bells
  <1>3. Com(l) = Doorbell(door, Vq(l, q))
    BY TargetFacts, Types DEF IInv
  <1> QED
    BY <1>1, <1>2, <1>3

(* The handler hands to env_isr the vector of the virtqueue that the peer   *)
(* rang for.                                                                *)
THEOREM RightVectorHolds ==
    ASSUME Gated, Restoring
    PROVE  Spec => RightVector
  <1>1. IInv /\ [Next]_vars =>
           [\A c \in Coms : \A v \in bell[c] :
               v \in bell'[c] \/ boot.clears \/ Vector(door, c, Message(door, v)) = v]_vars
    <2> SUFFICES ASSUME IInv, [Next]_vars, NEW c \in Coms, NEW v \in bell[c]
                 PROVE  Vector(door, c, Message(door, v)) = v
      OBVIOUS
    <2>1. PICK l \in Links, q \in {0, 1} : v = Vq(l, q) /\ Com(l) = c
      BY RungVectors
    <2>2. target \in Targets /\ PutsBack(target)
      BY Types DEF IInv, Restoring
    <2> QED
      BY <2>1, <2>2, VectorPutBack
  <1> QED
    BY <1>1, Invariance, PTL DEF Spec, RightVector

(* While no virtqueue is attached to a doorbell it is shut: the source of   *)
(* tvq is off, or the line is where that is what is switched.               *)
BySource == switch.on \in {"com", "queue"}

Shut ==
    ~failed /\ target.role = "remote" /\ KeepsKicks =>
        \A c \in Coms : isr_counter[c] = 0 =>
            /\ BySource => <<c, tvq>> \notin sources
            /\ ~BySource => LineOf(c) \notin line

(* The conditions of Shut and KickKept on the target do not change.         *)
LEMMA ShutKept ==
    ASSUME IInv, Shut, target' = target, failed' = failed,
           UNCHANGED <<isr_counter, sources, line>>
    PROVE  Shut'
  BY TargetKept DEF Shut, KeepsKicks, BySource

(* What Shut needs of the target.                                           *)
LEMMA ShutFacts ==
    ASSUME target \in Targets, OwnSwitch(target), ShutsAgain(target), target.role = "remote",
           KeepsKicks
    PROVE  /\ rvq = 1 /\ tvq = 0 /\ switch.back = -1 /\ ~boot.clears /\ ~door.managed
           /\ ~BySource => /\ switch.off = "line" /\ ~boot.line /\ switch.limit > 0
                           /\ \A b, c \in Coms : LineOf(b) = LineOf(c) => b = c
           /\ BySource => switch.off = switch.on /\ switch.limit > 0
           /\ switch.on = "queue" => switch.limit = 2
  <1>1. rvq = 1 /\ tvq = 0
    BY DEF rvq, tvq
  <1>2. switch.back = -1
    BY TargetFacts DEF KeepsKicks
  <1>3. /\ BySource => switch.off = switch.on
        /\ switch.off = "line" => switch.limit > 0
    BY DEF ShutsAgain, switch, BySource
  <1> QED
    BY <1>1, <1>2, <1>3, SwitchFacts DEF KeepsKicks, BySource

(* platform_init leaves such a line as it was.                              *)
LEMMA PlatformInitShut ==
    ASSUME IInv, Shut, OwnSwitch(target), ShutsAgain(target), NEW l \in Links, platform_init(l)
    PROVE  Shut'
  <1>1. /\ line' = (IF boot.line THEN Keys ELSE line)
        /\ UNCHANGED <<target, isr_counter, sources>>
        /\ ~failed' => ~failed
    BY DEF platform_init
  <1> SUFFICES ASSUME ~failed', target.role = "remote", KeepsKicks, NEW c \in Coms,
                      isr_counter[c] = 0
               PROVE  /\ BySource => <<c, tvq>> \notin sources
                      /\ ~BySource => LineOf(c) \notin line'
    BY <1>1, TargetKept DEF Shut, KeepsKicks, BySource
  <1>2. ~BySource => ~boot.line
    BY ShutFacts, Types DEF IInv
  <1> QED
    BY <1>1, <1>2 DEF Shut

(* The doorbell that a virtqueue is attached to is counted; no other opens. *)
LEMMA AttachShut ==
    ASSUME IInv, Shut, OwnSwitch(target), ShutsAgain(target), NEW l \in Links, NEW q \in {0, 1},
           Attach(l, q)
    PROVE  Shut'
  <1> DEFINE b == Com(l)
  <1>1. /\ UNCHANGED <<target, failed>>
        /\ \/ UNCHANGED <<isr_counter, sources, line>>
           \/ /\ isr_counter' = [isr_counter EXCEPT ![b] = @ + 1]
              /\ sources' \in {sources, sources \cup SwitchedBy(switch.on, l, q)}
              /\ line' \in {line, line \cup {LineOf(b)}}
    BY DEF Attach
  <1>2. CASE UNCHANGED <<isr_counter, sources, line>>
    BY <1>1, <1>2, ShutKept
  <1>3. CASE /\ isr_counter' = [isr_counter EXCEPT ![b] = @ + 1]
             /\ sources' \in {sources, sources \cup SwitchedBy(switch.on, l, q)}
             /\ line' \in {line, line \cup {LineOf(b)}}
    <2> SUFFICES ASSUME ~failed, target.role = "remote", KeepsKicks, NEW c \in Coms,
                        isr_counter'[c] = 0
                 PROVE  /\ BySource => <<c, tvq>> \notin sources'
                        /\ ~BySource => LineOf(c) \notin line'
      BY <1>1, TargetKept DEF Shut, KeepsKicks, BySource
    <2>1. target \in Targets /\ b \in Coms /\ isr_counter \in [Coms -> Nat]
      BY Types, TargetFacts DEF IInv
    <2>2. c # b /\ isr_counter[c] = 0
      BY <1>3, <2>1
    <2>3. \A x \in SwitchedBy(switch.on, l, q) : x[1] = b
      BY DEF SwitchedBy
    <2>4. <<c, tvq>> \notin SwitchedBy(switch.on, l, q)
      BY <2>2, <2>3
    <2>5. ~BySource => LineOf(c) # LineOf(b)
      BY <2>1, <2>2, ShutFacts
    <2> QED
      BY <1>3, <2>2, <2>4, <2>5 DEF Shut
  <1> QED
    BY <1>1, <1>2, <1>3

(* A link that turns a line on around its masks is attached.                *)
LEMMA MaskShut ==
    ASSUME IInv, Shut, OwnSwitch(target), ShutsAgain(target), NEW l \in Links,
           platform_interrupt_disable(l) \/ platform_interrupt_enable(l)
    PROVE  Shut'
  <1> DEFINE b == Com(l)
  <1>1. /\ at[l] \in {"mask_r", "mask_t", "unmask_r", "unmask_t"}
        /\ UNCHANGED <<target, failed, isr_counter, sources>>
        /\ line' \subseteq line \cup {LineOf(b)}
    BY DEF platform_interrupt_disable, platform_interrupt_enable
  <1> SUFFICES ASSUME ~failed, target.role = "remote", KeepsKicks, NEW c \in Coms,
                      isr_counter[c] = 0
               PROVE  /\ BySource => <<c, tvq>> \notin sources
                      /\ ~BySource => LineOf(c) \notin line'
    BY <1>1, TargetKept DEF Shut, KeepsKicks, BySource
  <1>2. target \in Targets /\ b \in Coms /\ isr_counter \in [Coms -> Nat]
    BY Types, TargetFacts DEF IInv
  <1>3. c # b
    <2>1. Attached(b) \in Nat /\ Attached(b) >= 2
      BY <1>1, <1>2, CountFacts, Weights
    <2>2. isr_counter[b] >= Attached(b)
      BY <1>2 DEF IInv, Attachments
    <2> QED
      BY <1>2, <2>1, <2>2
  <1>4. ~BySource => LineOf(c) # LineOf(b)
    BY <1>2, <1>3, ShutFacts
  <1> QED
    BY <1>1, <1>4 DEF Shut

(* The last virtqueue that is detached from a doorbell shuts it.            *)
LEMMA DetachShut ==
    ASSUME IInv, Shut, OwnSwitch(target), ShutsAgain(target), NEW l \in Links,
           platform_deinit_interrupt(l)
    PROVE  Shut'
  <1> DEFINE q == IF at[l] = "up" THEN rvq ELSE tvq
             b == Com(l)
             closes == ClosesAt(isr_counter[b])
  <1>1. /\ UNCHANGED <<target, failed>> /\ at[l] \in {"up", "detach_t"}
        /\ \/ UNCHANGED <<isr_counter, sources, line>>
           \/ /\ isr_counter' = [isr_counter EXCEPT ![b] = Detached(@)]
              /\ sources' = IF closes THEN sources \ SwitchedBy(switch.off, l, q) ELSE sources
              /\ line' = IF closes /\ switch.off = "line" THEN line \ {LineOf(b)} ELSE line
    BY DEF platform_deinit_interrupt
  <1>2. CASE UNCHANGED <<isr_counter, sources, line>>
    BY <1>1, <1>2, ShutKept
  <1>3. CASE /\ isr_counter' = [isr_counter EXCEPT ![b] = Detached(@)]
             /\ sources' = IF closes THEN sources \ SwitchedBy(switch.off, l, q) ELSE sources
             /\ line' = IF closes /\ switch.off = "line" THEN line \ {LineOf(b)} ELSE line
    <2> SUFFICES ASSUME ~failed, target.role = "remote", KeepsKicks, NEW c \in Coms,
                        isr_counter'[c] = 0
                 PROVE  /\ BySource => <<c, tvq>> \notin sources'
                        /\ ~BySource => LineOf(c) \notin line'
      BY <1>1, TargetKept DEF Shut, KeepsKicks, BySource
    <2>1. target \in Targets /\ b \in Coms /\ isr_counter \in [Coms -> Nat]
      BY Types, TargetFacts DEF IInv
    <2>2. switch.back = -1 /\ tvq = 0 /\ switch.limit \in 0..2
      BY <2>1, ShutFacts, TargetFacts
    <2>3. CASE c # b
      BY <1>3, <2>1, <2>3 DEF Shut
    <2>4. CASE c = b
      <3>1. isr_counter[b] = 1
        BY <1>3, <2>1, <2>2, <2>4 DEF Detached
      <3>2. BySource => closes /\ switch.off = switch.on
        BY <2>1, <2>2, <3>1, ShutFacts DEF ClosesAt, Detached
      <3>3. ~BySource => closes /\ switch.off = "line"
        BY <2>1, <2>2, <3>1, ShutFacts DEF ClosesAt, Detached
      <3>4. q = tvq
        <4>1. isr_counter[b] = Attached(b)
          BY <2>1, <2>2 DEF IInv, Attachments
        <4>2. Attached(b) >= Attachment(at[l])
          BY <2>1, CountFacts
        <4>3. at[l] # "up"
          BY <2>1, <3>1, <4>1, <4>2, Weights
        <4> QED
          BY <4>3
      <3>5. BySource => <<c, tvq>> \in SwitchedBy(switch.off, l, q)
        <4> SUFFICES ASSUME BySource PROVE <<c, tvq>> \in SwitchedBy(switch.on, l, tvq)
          BY <3>2, <3>4
        <4>1. CASE switch.on = "com" \/ (switch.on = "queue" /\ b \in switch.both)
          BY <2>2, <2>4, <4>1 DEF SwitchedBy
        <4>2. CASE switch.on = "queue" /\ b \notin switch.both
          BY <2>4, <4>2 DEF SwitchedBy
        <4> QED
          BY <4>1, <4>2 DEF BySource
      <3> QED
        BY <1>3, <2>4, <3>2, <3>3, <3>5
    <2> QED
      BY <2>3, <2>4
  <1> QED
    BY <1>1, <1>2, <1>3

(* A doorbell to which nothing is attached stays shut.                      *)
LEMMA NextShut ==
    ASSUME IInv, Shut, OwnSwitch(target), ShutsAgain(target), [Next]_vars
    PROVE  Shut'
  <1>1. ASSUME NEW l \in Links, EnvInit(l)
        PROVE  Shut'
    <2>1. UNCHANGED <<target, isr_counter, sources, line>>
      BY <1>1 DEF EnvInit
    <2>2. failed' = failed \/ failed'
      BY <1>1 DEF EnvInit
    <2> QED
      BY <2>1, <2>2, ShutKept DEF Shut
  <1>2. ASSUME NEW l \in Links,
               EnvInitWait(l) \/ Create(l) \/ CreateFails(l) \/ Kick(l) \/ Free(l) \/ EnvDeinit(l)
        PROVE  Shut'
    <2>1. UNCHANGED <<target, failed, isr_counter, sources, line>>
      BY <1>2 DEF EnvInitWait, Create, CreateFails, Kick, Free, EnvDeinit, interrupt
    <2> QED
      BY <2>1, ShutKept
  <1>3. ASSUME NEW l \in Links, NEW q \in {0, 1}, env_register_isr(l, q) \/ Ring(Vq(l, q))
        PROVE  Shut'
    <2>1. UNCHANGED <<target, failed, isr_counter, sources, line>>
      BY <1>3 DEF env_register_isr, Ring, interrupt
    <2> QED
      BY <2>1, ShutKept
  <1>4. ASSUME \/ \E c \in Coms : \E v \in bell[c] : Isr(c, v)
               \/ PeerTakes \/ Rest \/ UNCHANGED vars
        PROVE  Shut'
    <2>1. UNCHANGED <<target, failed, isr_counter, sources, line>>
      BY <1>4 DEF Isr, PeerTakes, Rest, vars, interrupt
    <2> QED
      BY <2>1, ShutKept
  <1> QED
    BY <1>1, <1>2, <1>3, <1>4, PlatformInitShut, AttachShut, MaskShut, DetachShut DEF Next

(* In the initial states nothing is on.                                     *)
LEMMA InitShut == Init => Shut
  BY DEF Init, Shut, KeepsKicks

(* An interrupt for tvq of a link that is alone on its doorbell finds the   *)
(* virtqueue.                                                               *)
LEMMA HeardMeansAttached ==
    ASSUME IInv, Shut, OwnSwitch(target), ShutsAgain(target), NEW l \in Links,
           target.role = "remote", KeepsKicks, AloneOn(l), ~failed, Heard(Com(l), tvq)
    PROVE  Vq(l, tvq) \in isr_table
  <1> DEFINE c == Com(l)
  <1>1. /\ target \in Targets /\ c \in Coms /\ isr_counter \in [Coms -> Nat]
        /\ at \in [Links -> Steps] /\ tvq = 0 /\ switch.back = -1 /\ ~door.managed
    BY Types, TargetFacts, ShutFacts DEF IInv
  <1>2. isr_counter[c] # 0
    <2>1. BySource => <<c, tvq>> \in sources
      BY <1>1 DEF Heard, BySource
    <2>2. LineOf(c) \in line
      BY DEF Heard
    <2> QED
      BY <1>1, <2>1, <2>2 DEF Shut
  <1>3. Attached(c) > 0
    <2>1. isr_counter[c] = Attached(c)
      BY <1>1 DEF IInv, Attachments
    <2> QED
      BY <1>1, <1>2, <2>1
  <1>4. PICK m \in On(c) : at[m] \in AttachedOnce \cup AttachedTwice
    <2>1. IsFiniteSet(On(c))
      BY <1>1, TargetFacts, FS_Subset DEF On
    <2>2. /\ Count(On(c), AttachedOnce) \in Nat /\ Count(On(c), AttachedTwice) \in Nat
          /\ Count(On(c), AttachedOnce) > 0 => \E m \in On(c) : at[m] \in AttachedOnce
          /\ Count(On(c), AttachedTwice) > 0 => \E m \in On(c) : at[m] \in AttachedTwice
      BY <2>1, OneCounts DEF Count
    <2>3. Count(On(c), AttachedOnce) > 0 \/ Count(On(c), AttachedTwice) > 0
      BY <1>3, <2>2 DEF Attached
    <2> QED
      BY <2>2, <2>3
  <1>5. m = l
    <2>1. m \in Links /\ Com(m) = Com(l)
      BY DEF On
    <2>2. m # l => at[m] \in {"none", "boot", "wait", "create"}
      BY <2>1 DEF AloneOn
    <2> QED
      BY <1>4, <2>2 DEF AttachedOnce, AttachedTwice
  <1>6. at[l] \in Registered(tvq)
    BY <1>1, <1>4, <1>5 DEF AttachedOnce, AttachedTwice, Registered
  <1> QED
    BY <1>1, <1>6 DEF IInv, Table

(* The kick by which the master says that it is ready waits for the init of *)
(* the remote: the interrupt that takes it sets link_state.                 *)
THEOREM KickKeptHolds ==
    ASSUME Gated, Separate, Shutting, Restoring
    PROVE  Spec => KickKept
  <1>1. Init => Shut
    BY InitShut
  <1>2. IInv /\ Shut /\ [Next]_vars => Shut'
    BY NextShut, Types DEF IInv, Separate, Shutting
  <1>3. IInv /\ Shut /\ [Next]_vars =>
           [\A l \in Links :
               /\ target.role = "remote" /\ KeepsKicks /\ AloneOn(l) /\ ~failed
               /\ Vq(l, tvq) \in bell[Com(l)] /\ Vq(l, tvq) \notin bell'[Com(l)]
               => l \in link_state']_vars
    <2> SUFFICES ASSUME IInv, Shut, [Next]_vars, NEW l \in Links, target.role = "remote",
                        KeepsKicks, AloneOn(l), ~failed,
                        Vq(l, tvq) \in bell[Com(l)], Vq(l, tvq) \notin bell'[Com(l)]
                 PROVE  l \in link_state'
      OBVIOUS
    <2>1. /\ target \in Targets /\ OwnSwitch(target) /\ ShutsAgain(target) /\ PutsBack(target)
          /\ l \in Nat /\ Com(l) \in Coms /\ tvq \in {0, 1}
      BY Types, TargetFacts DEF IInv, Separate, Shutting, Restoring
    <2>2. Isr(Com(l), Vq(l, tvq))
      BY <2>1, TakenByIsr DEF KeepsKicks
    <2>3. RL_GET_Q_ID(Vq(l, tvq)) = tvq /\ RL_GET_LINK_ID(Vq(l, tvq)) = l
      BY <2>1, VectorFacts
    <2>4. Heard(Com(l), tvq)
      BY <2>2, <2>3 DEF Isr
    <2>5. Vq(l, tvq) \in isr_table
      BY <2>1, <2>4, HeardMeansAttached
    <2>6. Vector(door, Com(l), Message(door, Vq(l, tvq))) = Vq(l, tvq)
      BY <2>1, VectorPutBack
    <2> QED
      BY <2>2, <2>3, <2>5, <2>6 DEF Isr
  <1>4. Spec => []IInv
    BY Invariance
  <1> QED
    BY <1>1, <1>2, <1>3, <1>4, PTL DEF Spec, KickKept
===============================================================================
