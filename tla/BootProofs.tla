----------------------------- MODULE BootProofs -----------------------------
(***************************************************************************)
(* Proofs about Boot, for every set of machines, every bound on the number *)
(* of drives and of faults, and both values of StorageTests: the searches  *)
(* of the PCI buses, the order in which the root volume is sought, the     *)
(* checks of the root and the loader.                                      *)
(*                                                                         *)
(* BootInv is the inductive invariant.  It says what has been passed over: *)
(* the drives and the mounts before those in hand had no usable volume,    *)
(* and the init paths before the one in hand lead to no program, unless an *)
(* access has failed.  A wait of the AHCI driver that never ends leaves it *)
(* for a state of its own, which nothing leaves.                           *)
(***************************************************************************)
EXTENDS Boot, WellFoundedInduction, TLAPS

\* Most steps are first-order reasoning; those with arithmetic or sequences cite SMT.
USE ZenonT(40)

----------------------------------------------------------------------------
(* Loops.                                                                  *)

\* A set of numbers has a least one.
LEMMA LeastNat == ASSUME NEW T \in SUBSET Nat, T # {}
  PROVE \E m \in T : \A k \in T : m <= k
<1>1. PICK m \in T : \A k \in T : <<k, m>> \notin OpToRel(<, Nat)
  BY WFMin, NatLessThanWellFounded
<1>2. \A k \in T : ~(k < m)
  BY <1>1 DEF OpToRel
<1> QED BY SMT, <1>2

\* What a loop from i on returns, which stops at the first number in D.
Loop(N, D, val, e, g) == g = [i \in 0 .. N |-> IF i = N THEN e ELSE IF i \in D THEN val[i] ELSE g[i + 1]]

\* There is such a function.
LEMMA LoopExists == ASSUME NEW N \in Nat, NEW D, NEW val, NEW e PROVE \E g : Loop(N, D, val, e, g)
<1> DEFINE First(i, j) == j \in i .. N - 1 /\ j \in D /\ \A k \in i .. j - 1 : k \notin D
           g == [i \in 0 .. N |-> IF \E j : First(i, j) THEN val[CHOOSE j : First(i, j)] ELSE e]
<1>1. ASSUME NEW i \in 0 .. N, NEW j, NEW k, First(i, j), First(i, k) PROVE j = k
  <2>1. j \in Int /\ k \in Int /\ i \in Nat
    BY SMT, <1>1
  <2>2. ~(j < k) /\ ~(k < j)
    BY SMT, <1>1, <2>1
  <2> QED BY SMT, <2>1, <2>2
<1>2. ASSUME NEW i \in 0 .. N, NEW j, First(i, j) PROVE g[i] = val[j]
  <2> DEFINE c == CHOOSE k : First(i, k)
  <2>1. First(i, c)
    BY <1>2
  <2>2. c = j
    BY <1>1, <1>2, <2>1
  <2>3. g[i] = IF \E k : First(i, k) THEN val[c] ELSE e
    OBVIOUS
  <2> QED BY <1>2, <2>2, <2>3
<1>3. ASSUME NEW i \in 0 .. N, ~\E j : First(i, j) PROVE g[i] = e
  <2>1. g[i] = IF \E k : First(i, k) THEN val[CHOOSE k : First(i, k)] ELSE e
    OBVIOUS
  <2> QED BY <1>3, <2>1
<1>4. DOMAIN g = 0 .. N
  BY SMT
<1> DEFINE h == [i \in 0 .. N |-> IF i = N THEN e ELSE IF i \in D THEN val[i] ELSE g[i + 1]]
<1> HIDE DEF g
<1>5. ASSUME NEW i \in 0 .. N PROVE g[i] = h[i]
  <2>1. CASE i = N
    <3>1. ~\E j : First(i, j)
      BY SMT, <2>1
    <3> QED BY SMT, <1>3, <2>1, <3>1
  <2>2. CASE i # N /\ i \in D
    <3>1. First(i, i)
      BY SMT, <2>2
    <3> HIDE DEF First
    <3>2. g[i] = val[i]
      BY <1>2, <3>1
    <3> QED BY SMT, <2>2, <3>2
  <2>3. CASE i # N /\ i \notin D
    <3>1. i + 1 \in 0 .. N
      BY SMT, <2>3
    <3>2. \A j : First(i, j) <=> First(i + 1, j)
      <4> SUFFICES ASSUME NEW j PROVE First(i, j) <=> First(i + 1, j)
        BY SMT
      <4>1. ASSUME First(i, j) PROVE First(i + 1, j)
        <5>1. j # i
          BY SMT, <2>3, <4>1
        <5> QED BY SMT, <2>3, <4>1, <5>1
      <4>2. ASSUME First(i + 1, j) PROVE First(i, j)
        <5>1. \A k \in i .. j - 1 : k = i \/ k \in i + 1 .. j - 1
          BY SMT, <4>2
        <5> QED BY SMT, <2>3, <4>2, <5>1
      <4> QED BY SMT, <4>1, <4>2
    <3>3. h[i] = g[i + 1]
      BY SMT, <2>3
    <3> HIDE DEF First
    <3>4. CASE \E j : First(i, j)
      <4>1. PICK j : First(i, j)
        BY SMT, <3>4
      <4>2. First(i + 1, j)
        BY SMT, <3>2, <4>1
      <4> QED BY <1>2, <3>1, <3>3, <4>1, <4>2
    <3>5. CASE ~\E j : First(i, j)
      <4>1. ~\E j : First(i + 1, j)
        BY SMT, <3>2, <3>5
      <4> QED BY <1>3, <3>1, <3>3, <3>5, <4>1
    <3> QED BY SMT, <3>4, <3>5
  <2> QED BY SMT, <2>1, <2>2, <2>3
<1>6. g = [i \in DOMAIN g |-> g[i]]
  BY SMT DEF g
<1>7. g = h
  BY SMT, <1>4, <1>5, <1>6
<1> QED BY SMT, <1>7 DEF Loop

\* It returns what is at the first number in D, if there is one.
LoopReturns(N, D, val, e, r) ==
    \/ \E j \in 0 .. N - 1 : j \in D /\ (\A i \in 0 .. j - 1 : i \notin D) /\ r = val[j]
    \/ (\A i \in 0 .. N - 1 : i \notin D) /\ r = e

\* The loop of a search returns its first hit.
LEMMA LoopFinds == ASSUME NEW N \in Nat, NEW D, NEW val, NEW e, NEW g, Loop(N, D, val, e, g)
  PROVE LoopReturns(N, D, val, e, g[0])
<1> USE DEF LoopReturns
<1>1. \A i \in 0 .. N : g[i] = IF i = N THEN e ELSE IF i \in D THEN val[i] ELSE g[i + 1]
  BY SMT DEF Loop
<1>2. ASSUME NEW n \in 0 .. N, \A i \in 0 .. n - 1 : i \notin D PROVE \A i \in 0 .. n : g[i] = g[0]
  <2> DEFINE T == {i \in 0 .. n : g[i] # g[0]}
  <2> SUFFICES ASSUME T # {} PROVE FALSE
    BY SMT
  <2>0. T \in SUBSET Nat
    BY SMT
  <2>1. PICK m \in T : \A k \in T : m <= k
    BY <2>0, LeastNat
  <2>2. m # 0 /\ m \in 0 .. n /\ g[m] # g[0]
    BY SMT
  <2>3. m - 1 \in 0 .. n /\ ~(m <= m - 1) /\ m - 1 \in 0 .. n - 1 /\ m - 1 \in 0 .. N /\ m - 1 # N /\ (m - 1) + 1 = m
    BY SMT, <2>2
  <2>4. g[m - 1] = g[0]
    BY SMT, <2>1, <2>3
  <2>5. g[m - 1] = g[m]
    BY SMT, <1>1, <1>2, <2>3
  <2> QED BY SMT, <2>2, <2>4, <2>5
<1>3. CASE \E j \in 0 .. N - 1 : j \in D
  <2> DEFINE T == {j \in 0 .. N - 1 : j \in D}
  <2>0. T \in SUBSET Nat /\ T # {}
    BY SMT, <1>3
  <2>1. PICK m \in T : \A k \in T : m <= k
    BY <2>0, LeastNat
  <2>2. m \in 0 .. N - 1 /\ m \in D
    BY SMT
  <2>3. \A i \in 0 .. m - 1 : i \notin D
    BY SMT, <2>1, <2>2
  <2>4. g[m] = g[0]
    BY SMT, <1>2, <2>2, <2>3
  <2>5. g[m] = val[m]
    BY SMT, <1>1, <2>2
  <2> QED BY SMT, <2>2, <2>3, <2>4, <2>5
<1>4. CASE \A j \in 0 .. N - 1 : j \notin D
  <2>1. g[N] = g[0]
    BY SMT, <1>2, <1>4
  <2>2. g[N] = e
    BY SMT, <1>1
  <2> QED BY SMT, <1>4, <2>1, <2>2
<1> QED BY SMT, <1>3, <1>4

----------------------------------------------------------------------------
(* The search of the PCI buses.                                            *)

\* A search of a slot that returns its first function that is wanted.
SlotFirst(wanted, b, slot, hit) ==
    \/ hit = <<>> /\ \A f \in 0 .. FUNCTIONS - 1 : <<b, slot, f>> \notin wanted
    \/ \E f \in 0 .. FUNCTIONS - 1 :
          /\ hit = <<<<b, slot, f>>>> /\ <<b, slot, f>> \in wanted
          /\ \A k \in 0 .. f - 1 : <<b, slot, k>> \notin wanted

\* The code's search of a slot, which stops at function 0 of a device that has no
\* others, is one.
LEMMA SlotSearch ==
  ASSUME NEW pci, WellFormed(pci), NEW wanted \in SUBSET DOMAIN pci, NEW b, NEW slot,
         NEW hit, hit = FindInSlot(pci, wanted, b, slot)
  PROVE SlotFirst(wanted, b, slot, hit)
<1> USE DEF SlotFirst
<1> DEFINE At(f) == <<b, slot, f>>
           Body(g) == [f \in 0 .. FUNCTIONS |->
                         IF f = FUNCTIONS THEN <<>>
                         ELSE IF At(f) \in wanted THEN <<At(f)>>
                         ELSE IF GoesOn(pci, At(f)) THEN g[f + 1] ELSE <<>>]
           D == {f \in 0 .. FUNCTIONS : At(f) \in wanted \/ ~GoesOn(pci, At(f))}
           val == [f \in 0 .. FUNCTIONS |-> IF At(f) \in wanted THEN <<At(f)>> ELSE <<>>]
<1>0. FUNCTIONS \in Nat \ {0}
  BY SMT, PciAssumption
<1>1. hit = (CHOOSE g : g = Body(g))[0]
  BY SMT DEF FindInSlot
<1>2. ASSUME NEW g PROVE g = Body(g) <=> Loop(FUNCTIONS, D, val, <<>>, g)
  <2> DEFINE L == [i \in 0 .. FUNCTIONS |-> IF i = FUNCTIONS THEN <<>> ELSE IF i \in D THEN val[i] ELSE g[i + 1]]
  <2>1. ASSUME NEW f \in 0 .. FUNCTIONS PROVE Body(g)[f] = L[f]
    <3>1. f \in D <=> (At(f) \in wanted \/ ~GoesOn(pci, At(f)))
      BY SMT
    <3>2. val[f] = IF At(f) \in wanted THEN <<At(f)>> ELSE <<>>
      BY SMT
    <3> HIDE DEF At, D, val
    <3> QED BY SMT, <3>1, <3>2
  <2>2. Body(g) = L
    BY SMT, <2>1
  <2> QED BY SMT, <2>2 DEF Loop
<1>3. PICK g0 : g0 = Body(g0)
  BY <1>0, <1>2, LoopExists
<1> DEFINE g == CHOOSE h : h = Body(h)
<1>4. g = Body(g)
  BY <1>3
<1> HIDE DEF g
<1>5. Loop(FUNCTIONS, D, val, <<>>, g)
  BY <1>2, <1>4
<1>6. hit = g[0]
  BY SMT, <1>1 DEF g
<1> HIDE DEF Body
<1>7. CASE \E j \in 0 .. FUNCTIONS - 1 : j \in D /\ (\A i \in 0 .. j - 1 : i \notin D) /\ g[0] = val[j]
  <2>1. PICK j \in 0 .. FUNCTIONS - 1 : j \in D /\ (\A i \in 0 .. j - 1 : i \notin D) /\ g[0] = val[j]
    BY <1>7
  <2>2. \A i \in 0 .. j - 1 : At(i) \notin wanted
    BY SMT, <1>0, <2>1
  <2>3. CASE At(j) \in wanted
    <3>1. g[0] = <<At(j)>>
      BY SMT, <1>0, <2>1, <2>3
    <3> QED BY SMT, <1>6, <2>2, <2>3, <3>1
  <2>4. CASE At(j) \notin wanted
    <3>1. g[0] = <<>> /\ ~GoesOn(pci, At(j))
      BY SMT, <1>0, <2>1, <2>4
    <3>2. j = 0 /\ ~(At(0) \in DOMAIN pci /\ pci[At(0)].multi)
      BY SMT, <3>1 DEF GoesOn
    <3>3. ASSUME NEW f \in 0 .. FUNCTIONS - 1, At(f) \in wanted PROVE FALSE
      <4>1. f # 0
        BY SMT, <2>4, <3>2, <3>3
      <4>2. At(f) \in DOMAIN pci /\ At(f)[3] # 0 /\ At(f)[1] = b /\ At(f)[2] = slot
        BY SMT, <3>3, <4>1
      <4> QED BY SMT, <3>2, <4>2 DEF WellFormed
    <3> QED BY SMT, <1>6, <3>1, <3>3
  <2> QED BY <2>3, <2>4
<1>8. CASE (\A i \in 0 .. FUNCTIONS - 1 : i \notin D) /\ g[0] = <<>>
  <2>1. \A i \in 0 .. FUNCTIONS - 1 : At(i) \notin wanted
    BY SMT, <1>0, <1>8
  <2> QED BY SMT, <1>6, <1>8, <2>1
<1>9. FUNCTIONS \in Nat
  BY SMT, <1>0
<1> HIDE DEF D, val
<1>10. LoopReturns(FUNCTIONS, D, val, <<>>, g[0])
  BY <1>9, <1>5, LoopFinds
<1> QED BY <1>7, <1>8, <1>10 DEF LoopReturns

\* A multiple and the step to the next.
LEMMA Step == ASSUME NEW a \in Int, NEW c \in Int, NEW b \in Nat, a < c PROVE a * b + b <= c * b
<1>1. PICK d \in Nat : c = a + 1 + d
  <2>1. c - a - 1 \in Nat BY SMT
  <2> QED BY SMT, <2>1
<1>2. c * b = a * b + b + d * b
  BY SMT, <1>1
<1>3. d * b >= 0
  BY SMT
<1> QED BY SMT, <1>2, <1>3

\* The iteration of the outer loops in which a slot is searched.
LEMMA SlotIndex == ASSUME NEW n \in Nat \ {0}, NEW m \in Nat, NEW p \in 0 .. m - 1, NEW q \in 0 .. n - 1
  PROVE /\ p * n + q \in 0 .. m * n - 1
        /\ (p * n + q) \div n = p /\ (p * n + q) % n = q
<1> DEFINE i == p * n + q   d == i \div n
<1>1. i \in Nat /\ p \in Int /\ n \in Nat /\ q \in Nat
  BY SMT
<1>2. p * n + n <= m * n
  BY SMT, <1>1, Step
<1>3. i < p * n + n /\ m * n \in Nat
  BY SMT
<1>4. d \in Int /\ i % n \in 0 .. n - 1 /\ i = d * n + (i % n)
  BY SMT, <1>1
<1> HIDE DEF d
<1>5. ~(d < p)
  <2> SUFFICES ASSUME d < p PROVE FALSE
    BY SMT
  <2>1. d * n + n <= p * n
    BY SMT, <1>1, <1>4, Step
  <2> QED BY SMT, <1>4, <2>1
<1>6. ~(p < d)
  <2> SUFFICES ASSUME p < d PROVE FALSE
    BY SMT
  <2>1. p * n + n <= d * n
    BY SMT, <1>1, <1>4, Step
  <2> QED BY SMT, <1>4, <2>1
<1>7. d = p
  BY SMT, <1>4, <1>5, <1>6
<1>8. i % n = q
  BY SMT, <1>4, <1>7
<1> QED BY SMT, <1>1, <1>2, <1>3, <1>7, <1>8 DEF d

\* A search finds the first function that is wanted, in the order of the loops.
LEMMA SearchIsFirst ==
  ASSUME NEW pci, DOMAIN pci \subseteq Address, WellFormed(pci), NEW wanted \in SUBSET DOMAIN pci
  PROVE IsFirst(wanted, Find(pci, wanted))
<1> DEFINE N == BUSES * SLOTS
           Hit(i) == FindInSlot(pci, wanted, i \div SLOTS, i % SLOTS)
           Body(g) == [i \in 0 .. N |-> IF i = N THEN <<>> ELSE IF Hit(i) # <<>> THEN Hit(i) ELSE g[i + 1]]
           D == {i \in 0 .. N : Hit(i) # <<>>}
           val == [i \in 0 .. N |-> Hit(i)]
<1>0. BUSES \in Nat \ {0} /\ SLOTS \in Nat \ {0} /\ FUNCTIONS \in Nat \ {0} /\ N \in Nat
  BY SMT, PciAssumption
<1>1. Find(pci, wanted) = (CHOOSE g : g = Body(g))[0]
  BY SMT DEF Find
<1>2. ASSUME NEW g PROVE g = Body(g) <=> Loop(N, D, val, <<>>, g)
  <2> DEFINE L == [i \in 0 .. N |-> IF i = N THEN <<>> ELSE IF i \in D THEN val[i] ELSE g[i + 1]]
  <2>1. ASSUME NEW i \in 0 .. N PROVE Body(g)[i] = L[i]
    <3>1. (i \in D <=> Hit(i) # <<>>) /\ val[i] = Hit(i)
      BY SMT
    <3> HIDE DEF Hit, D, val, N
    <3> QED BY SMT, <3>1
  <2>2. Body(g) = L
    BY SMT, <2>1
  <2> QED BY SMT, <2>2 DEF Loop
<1> HIDE DEF N, D, val, Hit
<1>3. PICK g0 : g0 = Body(g0)
  <2>1. \E g : Loop(N, D, val, <<>>, g)
    BY <1>0, LoopExists
  <2> QED BY <1>2, <2>1
<1> DEFINE g == CHOOSE h : h = Body(h)
<1>4. g = Body(g)
  BY <1>3
<1> HIDE DEF g
<1>5. Loop(N, D, val, <<>>, g)
  BY <1>2, <1>4
<1>6. Find(pci, wanted) = g[0]
  BY SMT, <1>1 DEF g
<1> HIDE DEF Body
<1>7. LoopReturns(N, D, val, <<>>, g[0])
  BY <1>0, <1>5, LoopFinds
<1>8. ASSUME NEW i \in 0 .. N
      PROVE SlotFirst(wanted, i \div SLOTS, i % SLOTS, Hit(i))
  BY SlotSearch DEF Hit
<1>9. ASSUME NEW a \in wanted
      PROVE \E b \in 0 .. BUSES - 1, s \in 0 .. SLOTS - 1, f \in 0 .. FUNCTIONS - 1 :
                /\ a = <<b, s, f>> /\ a[1] = b /\ a[2] = s /\ a[3] = f
                /\ b * SLOTS + s \in 0 .. N - 1 /\ b * SLOTS + s \in D
                /\ (b * SLOTS + s) \div SLOTS = b /\ (b * SLOTS + s) % SLOTS = s
  <2>1. PICK b \in 0 .. BUSES - 1, s \in 0 .. SLOTS - 1, f \in 0 .. FUNCTIONS - 1 : a = <<b, s, f>>
    BY SMT DEF Address
  <2>2. a[1] = b /\ a[2] = s /\ a[3] = f
    BY SMT, <2>1
  <2> DEFINE i == b * SLOTS + s
  <2>3. i \in 0 .. N - 1 /\ i \div SLOTS = b /\ i % SLOTS = s
    BY SMT, <1>0, SlotIndex DEF N
  <2> HIDE DEF i
  <2>4. i \in 0 .. N
    BY SMT, <1>0, <2>3
  <2>5. Hit(i) # <<>>
    <3>1. SlotFirst(wanted, b, s, Hit(i))
      BY <1>8, <2>3, <2>4
    <3>2. <<b, s, f>> \in wanted
      BY SMT, <2>1
    <3>3. \A x : <<x>> # <<>>
      BY SMT
    <3> QED BY <3>1, <3>2, <3>3 DEF SlotFirst
  <2>6. i \in D
    BY SMT, <2>4, <2>5 DEF D
  <2> QED BY SMT, <2>1, <2>2, <2>3, <2>6 DEF i
<1>10. CASE (\A i \in 0 .. N - 1 : i \notin D) /\ g[0] = <<>>
  <2>1. wanted = {}
    BY SMT, <1>9, <1>10
  <2> QED BY SMT, <1>6, <1>10, <2>1 DEF IsFirst
<1>11. CASE \E j \in 0 .. N - 1 : j \in D /\ (\A i \in 0 .. j - 1 : i \notin D) /\ g[0] = val[j]
  <2>1. PICK j \in 0 .. N - 1 : j \in D /\ (\A i \in 0 .. j - 1 : i \notin D) /\ g[0] = val[j]
    BY SMT, <1>11
  <2>2. j \in 0 .. N /\ val[j] = Hit(j) /\ Hit(j) # <<>>
    BY SMT, <1>0, <2>1 DEF D, val
  <2> DEFINE b == j \div SLOTS   s == j % SLOTS
  <2>3. PICK f \in 0 .. FUNCTIONS - 1 :
           /\ Hit(j) = <<<<b, s, f>>>> /\ <<b, s, f>> \in wanted
           /\ \A k \in 0 .. f - 1 : <<b, s, k>> \notin wanted
    <3>1. SlotFirst(wanted, b, s, Hit(j))
      BY <1>8, <2>2
    <3> HIDE DEF b, s
    <3> QED BY <2>2, <3>1 DEF SlotFirst
  <2>4. b \in Int /\ s \in 0 .. SLOTS - 1 /\ j = b * SLOTS + s
    BY SMT, <1>0, <2>2
  <2> HIDE DEF b, s
  <2>5. ASSUME NEW a \in wanted PROVE ~Before(a, <<b, s, f>>)
    <3>1. PICK c \in 0 .. BUSES - 1, t \in 0 .. SLOTS - 1, k \in 0 .. FUNCTIONS - 1 :
                /\ a = <<c, t, k>> /\ a[1] = c /\ a[2] = t /\ a[3] = k
                /\ c * SLOTS + t \in 0 .. N - 1 /\ c * SLOTS + t \in D
      BY SMT, <1>9
    <3>2. ~(c * SLOTS + t < j)
      BY SMT, <1>0, <2>1, <3>1
    <3>3. ~(c < b)
      <4> SUFFICES ASSUME c < b PROVE FALSE
        BY SMT
      <4>1. c * SLOTS + SLOTS <= b * SLOTS
        BY SMT, <1>0, <2>4, Step
      <4>2. c * SLOTS \in Int /\ b * SLOTS \in Int /\ t < SLOTS /\ s >= 0
        BY SMT, <1>0, <2>4
      <4> QED BY SMT, <1>0, <2>4, <3>2, <4>1, <4>2
    <3>4. ~(c = b /\ t < s)
      BY SMTT(30), <1>0, <2>4, <3>2
    <3>5. ~(c = b /\ t = s /\ k < f)
      BY SMTT(30), <2>3, <3>1
    <3> QED BY SMTT(30), <3>1, <3>3, <3>4, <3>5 DEF Before
  <2>6. Find(pci, wanted) = <<<<b, s, f>>>>
    BY SMT, <1>6, <2>1, <2>2, <2>3
  <2> QED BY SMT, <2>3, <2>5, <2>6 DEF IsFirst
<1> QED BY <1>7, <1>10, <1>11 DEF LoopReturns

----------------------------------------------------------------------------
(* Filtered sequences.                                                     *)

\* The recursion of Kept, up to a position.
Filter(s, keep, N, g) ==
    g = [n \in 0 .. N |-> IF n = 0 THEN <<>>
                          ELSE IF n \in keep THEN Append(g[n - 1], s[n]) ELSE g[n - 1]]

\* There is a function that satisfies it.
LEMMA FilterExists == ASSUME NEW s, NEW keep, NEW L \in Nat PROVE \E g : Filter(s, keep, L, g)
<1> DEFINE T == {n \in Nat : ~\E g : Filter(s, keep, n, g)}
<1> SUFFICES ASSUME T # {} PROVE FALSE
  OBVIOUS
<1>0. T \in SUBSET Nat
  OBVIOUS
<1>1. PICK m \in T : \A k \in T : m <= k
  BY <1>0, LeastNat
<1>2. m \in Nat /\ ~\E g : Filter(s, keep, m, g)
  BY <1>1
<1>3. m # 0
  <2> SUFFICES ASSUME m = 0 PROVE FALSE
    BY SMT
  <2> DEFINE g == [n \in 0 .. 0 |-> <<>>]
  <2> DEFINE h == [n \in 0 .. 0 |-> IF n = 0 THEN <<>>
                          ELSE IF n \in keep THEN Append(g[n - 1], s[n]) ELSE g[n - 1]]
  <2>1. \A n \in 0 .. 0 : n = 0
    BY SMT
  <2>2. \A n \in 0 .. 0 : h[n] = g[n]
    BY <2>1
  <2>3. g = h
    BY <2>2
  <2>4. Filter(s, keep, 0, g)
    BY <2>3 DEF Filter
  <2> QED BY <1>2, <2>4
<1>4. m - 1 \in Nat /\ ~(m <= m - 1)
  BY SMT, <1>2, <1>3
<1>5. \E g : Filter(s, keep, m - 1, g)
  BY <1>1, <1>4
<1>6. PICK f : Filter(s, keep, m - 1, f)
  BY SMTT(30), <1>5
<1> DEFINE g == [n \in 0 .. m |-> IF n = m THEN IF m \in keep THEN Append(f[m - 1], s[m]) ELSE f[m - 1]
                                  ELSE f[n]]
           h == [n \in 0 .. m |-> IF n = 0 THEN <<>>
                          ELSE IF n \in keep THEN Append(g[n - 1], s[n]) ELSE g[n - 1]]
<1>7. ASSUME NEW n \in 0 .. m PROVE h[n] = g[n]
  <2>1. CASE n = 0
    <3>1. f[0] = <<>>
      BY SMT, <1>4, <1>6 DEF Filter
    <3> QED BY SMT, <1>3, <2>1, <3>1
  <2>2. CASE n # 0 /\ n # m
    <3>1. n \in 0 .. m - 1 /\ n - 1 \in 0 .. m /\ n - 1 # m
      BY SMT, <1>2, <2>2
    <3>2. f[n] = IF n \in keep THEN Append(f[n - 1], s[n]) ELSE f[n - 1]
      BY <1>6, <2>2, <3>1 DEF Filter
    <3>3. g[n - 1] = f[n - 1]
      BY SMT, <3>1
    <3>4. g[n] = f[n]
      BY SMT, <2>2
    <3>5. h[n] = IF n \in keep THEN Append(g[n - 1], s[n]) ELSE g[n - 1]
      BY SMT, <2>2
    <3> QED BY <3>2, <3>3, <3>4, <3>5
  <2>3. CASE n = m
    <3>1. m - 1 \in 0 .. m /\ m - 1 # m
      BY SMT, <1>2, <1>3
    <3>2. g[m - 1] = f[m - 1]
      BY SMT, <3>1
    <3>3. g[m] = IF m \in keep THEN Append(f[m - 1], s[m]) ELSE f[m - 1]
      BY SMT, <2>3
    <3>4. h[m] = IF m \in keep THEN Append(g[m - 1], s[m]) ELSE g[m - 1]
      BY SMT, <1>3, <2>3
    <3> QED BY <2>3, <3>2, <3>3, <3>4
  <2> QED BY SMT, <2>1, <2>2, <2>3
<1>8. g = h
  BY <1>7
<1>9. Filter(s, keep, m, g)
  BY <1>8 DEF Filter
<1> QED BY <1>2, <1>9

\* r has the elements of s at the positions of P, in order; h has the positions.
Picks(s, P, r, h) ==
    /\ h \in [1 .. Len(r) -> P]
    /\ \A i, j \in 1 .. Len(r) : i < j => h[i] < h[j]
    /\ \A p \in P : \E i \in 1 .. Len(r) : h[i] = p
    /\ \A i \in 1 .. Len(r) : r[i] = s[h[i]]

\* One more position.
LEMMA PickMore ==
  ASSUME NEW S, NEW s \in Seq(S), NEW P \in SUBSET Nat, NEW r \in Seq(S), NEW h, Picks(s, P, r, h),
         NEW n \in 1 .. Len(s), \A p \in P : p < n
  PROVE /\ Append(r, s[n]) \in Seq(S)
        /\ \E k : Picks(s, P \cup {n}, Append(r, s[n]), k)
<1> DEFINE L == Len(r)
           q == Append(r, s[n])
           k == [i \in 1 .. L + 1 |-> IF i = L + 1 THEN n ELSE h[i]]
           Q == P \cup {n}
<1>1. L \in Nat /\ s[n] \in S /\ q \in Seq(S) /\ Len(q) = L + 1
  BY SMT
<1>2. \A i \in 1 .. L : q[i] = r[i] /\ k[i] = h[i] /\ h[i] \in P /\ h[i] < n /\ h[i] \in Nat
  <2> SUFFICES ASSUME NEW i \in 1 .. L
               PROVE q[i] = r[i] /\ k[i] = h[i] /\ h[i] \in P /\ h[i] < n /\ h[i] \in Nat
    OBVIOUS
  <2>1. q[i] = r[i]
    BY SMT, <1>1
  <2>2. i \in 1 .. L + 1 /\ i # L + 1
    BY SMT, <1>1
  <2>3. h[i] \in P
    BY DEF Picks
  <2>4. k[i] = h[i]
    BY <2>2
  <2> HIDE DEF k, q, L
  <2> QED BY <2>1, <2>3, <2>4
<1>3. q[L + 1] = s[n] /\ k[L + 1] = n
  BY SMT, <1>1
<1>4. \A i \in 1 .. L + 1 : i = L + 1 \/ i \in 1 .. L
  BY SMT, <1>1
<1>5. h \in [1 .. L -> P] /\ (\A i, j \in 1 .. L : i < j => h[i] < h[j])
      /\ (\A p \in P : \E i \in 1 .. L : h[i] = p) /\ (\A i \in 1 .. L : r[i] = s[h[i]])
  BY DEF Picks
<1>6. k \in [1 .. L + 1 -> Q]
  BY <1>2, <1>4
<1> HIDE DEF k, L, q
<1>7. \A i, j \in 1 .. L + 1 : i < j => k[i] < k[j]
  <2> SUFFICES ASSUME NEW i \in 1 .. L + 1, NEW j \in 1 .. L + 1, i < j PROVE k[i] < k[j]
    OBVIOUS
  <2>1. i \in 1 .. L
    BY SMT, <1>1
  <2> QED BY SMTT(30), <1>2, <1>3, <1>4, <1>5, <2>1
<1>8. \A p \in Q : \E i \in 1 .. L + 1 : k[i] = p
  <2> SUFFICES ASSUME NEW p \in Q PROVE \E i \in 1 .. L + 1 : k[i] = p
    OBVIOUS
  <2>1. CASE p = n
    BY SMT, <1>1, <1>3, <2>1
  <2>2. CASE p \in P
    <3>1. PICK i \in 1 .. L : h[i] = p
      BY SMT, <1>5, <2>2
    <3>2. i \in 1 .. L + 1
      BY SMT, <1>1
    <3> QED BY <1>2, <3>1, <3>2
  <2> QED BY SMT, <2>1, <2>2
<1>9. \A i \in 1 .. L + 1 : q[i] = s[k[i]]
  BY <1>2, <1>3, <1>4, <1>5
<1>10. Picks(s, Q, q, k)
  BY <1>1, <1>6, <1>7, <1>8, <1>9 DEF Picks
<1> QED BY <1>1, <1>10 DEF q

\* Kept has the elements at the positions that are kept, in order.
LEMMA KeptFacts == ASSUME NEW S, NEW s \in Seq(S), NEW keep \in SUBSET (1 .. Len(s))
  PROVE Kept(s, keep) \in Seq(S) /\ \E h : Picks(s, keep, Kept(s, keep), h)
<1> DEFINE L == Len(s)
           Body(g) == [n \in 0 .. L |-> IF n = 0 THEN <<>>
                          ELSE IF n \in keep THEN Append(g[n - 1], s[n]) ELSE g[n - 1]]
           g == CHOOSE f : f = Body(f)
           Good(n) == g[n] \in Seq(S) /\ \E h : Picks(s, keep \cap (1 .. n), g[n], h)
<1>0. L \in Nat
  BY SMT
<1>1. Kept(s, keep) = g[L]
  BY DEF Kept
<1>2. \E f : f = Body(f)
  <2>1. \E f : Filter(s, keep, L, f)
    BY <1>0, FilterExists
  <2> QED BY <2>1 DEF Filter
<1>3. g = Body(g)
  BY <1>2
<1> HIDE DEF g
<1>4. ASSUME NEW n \in 0 .. L
      PROVE g[n] = IF n = 0 THEN <<>> ELSE IF n \in keep THEN Append(g[n - 1], s[n]) ELSE g[n - 1]
  BY <1>3
<1> HIDE DEF Body, L
<1>5. Good(0)
  <2>1. 0 \in 0 .. L
    BY SMT, <1>0
  <2>2. g[0] = <<>>
    BY <1>4, <2>1
  <2>3. keep \cap (1 .. 0) = {}
    BY SMT
  <2>4. <<>> \in Seq(S) /\ Len(<<>>) = 0 /\ 1 .. 0 = {}
    BY SMT
  <2> DEFINE h == [i \in {} |-> i]
  <2>5. h \in [{} -> {}]
    BY SMT
  <2>6. Picks(s, {}, <<>>, h)
    BY <2>4, <2>5 DEF Picks
  <2> QED BY <2>2, <2>3, <2>4, <2>6
<1>6. ASSUME NEW n \in 1 .. L, Good(n - 1) PROVE Good(n)
  <2>1. n \in 0 .. L /\ n # 0
    BY SMT, <1>0
  <2> DEFINE r == g[n - 1]   P == keep \cap (1 .. n - 1)
  <2>2. g[n] = IF n \in keep THEN Append(r, s[n]) ELSE r
    BY <1>4, <2>1
  <2>3. PICK h : Picks(s, P, r, h)
    BY <1>6
  <2>4. r \in Seq(S) /\ P \in SUBSET Nat
    BY SMT, <1>6
  <2>5. CASE n \in keep
    <3>1. keep \cap (1 .. n) = P \cup {n}
      BY SMT, <2>1, <2>5
    <3>2. \A p \in P : p < n
      BY SMT, <2>1
    <3>3. n \in 1 .. Len(s)
      BY SMT DEF L
    <3> HIDE DEF P, r
    <3>4. Append(r, s[n]) \in Seq(S) /\ \E k : Picks(s, P \cup {n}, Append(r, s[n]), k)
      BY <2>3, <2>4, <3>2, <3>3, PickMore
    <3>5. g[n] = Append(r, s[n])
      BY <2>2, <2>5
    <3> QED BY <3>1, <3>4, <3>5
  <2>6. CASE n \notin keep
    <3>1. keep \cap (1 .. n) = P
      BY SMT, <2>1, <2>6
    <3>2. g[n] = r
      BY <2>2, <2>6
    <3> QED BY <2>3, <2>4, <3>1, <3>2
  <2> QED BY <2>5, <2>6
<1> HIDE DEF Good
<1>7. Good(L)
  <2> DEFINE T == {n \in 0 .. L : ~Good(n)}
  <2> SUFFICES ASSUME T # {} PROVE FALSE
    BY SMT, <1>0
  <2>1. T \in SUBSET Nat
    BY SMT, <1>0
  <2>2. PICK m \in T : \A k \in T : m <= k
    BY <2>1, LeastNat
  <2>3. m \in 0 .. L /\ ~Good(m)
    OBVIOUS
  <2>4. m # 0
    BY <1>5, <2>3
  <2>5. m \in 1 .. L /\ m - 1 \in 0 .. L /\ ~(m <= m - 1)
    BY SMT, <1>0, <2>3, <2>4
  <2>6. Good(m - 1)
    BY <2>2, <2>5
  <2> QED BY <1>6, <2>3, <2>5, <2>6
<1>8. keep \cap (1 .. L) = keep
  BY DEF L
<1> QED BY <1>1, <1>7, <1>8 DEF Good

----------------------------------------------------------------------------
(* The order of the mounts.                                                *)

\* The kinds of file systems in the order in which they are tried.
Ranked == <<"fat", "exfat", "ext">>

\* The names of the file systems.
FileSystems == {"fat", "exfat", "ext"}

\* What mount_first_fs tries to mount.
Volumes(parts, whole) == IF parts = <<>> THEN <<whole>> ELSE parts

\* key has for each attempt the rank of its file system and its partition: they
\* are in order, and all there except FAT on a partition of another type.
Keys(A, ps, key) ==
    /\ key \in [1 .. Len(A) -> (1 .. 3) \X (1 .. Len(ps))]
    /\ \A k \in 1 .. Len(A) : A[k] = [fs |-> Ranked[key[k][1]], part |-> ps[key[k][2]]]
    /\ \A k, l \in 1 .. Len(A) : k < l =>
          key[k][1] < key[l][1] \/ (key[k][1] = key[l][1] /\ key[k][2] < key[l][2])
    /\ \A c \in (1 .. 3) \X (1 .. Len(ps)) : (c[1] = 1 => partition_is_fat(ps[c[2]])) =>
          \E k \in 1 .. Len(A) : key[k] = c

\* c is a and b, one after the other.
Joined(a, b, c) ==
    /\ Len(c) = Len(a) + Len(b)
    /\ \A k \in 1 .. Len(a) : c[k] = a[k]
    /\ \A k \in 1 .. Len(b) : c[Len(a) + k] = b[k]

\* Joining keeps the elements in their order.
LEMMA Concat == ASSUME NEW R, NEW a \in Seq(R), NEW b \in Seq(R), NEW c, c = a \o b
  PROVE c \in Seq(R) /\ Joined(a, b, c)
BY SMT DEF Joined

\* A sequence without its elements is empty.
LEMMA Nonempty == ASSUME NEW S, NEW s \in Seq(S)
  PROVE Len(s) \in Nat /\ DOMAIN s = 1 .. Len(s) /\ (s # <<>> <=> Len(s) # 0)
BY SMT

\* The mounts of one kind.
AllTried(fs, ps, t) == Len(t) = Len(ps) /\ \A i \in 1 .. Len(ps) : t[i] = [fs |-> fs, part |-> ps[i]]

\* mount_first_fs tries every partition with a file system.
LEMMA Tries == ASSUME NEW S, NEW ps \in Seq(S), NEW fs \in FileSystems, NEW t,
                      t = [i \in DOMAIN ps |-> [fs |-> fs, part |-> ps[i]]]
  PROVE t \in Seq([fs : FileSystems, part : S]) /\ AllTried(fs, ps, t)
<1>1. DOMAIN ps = 1 .. Len(ps) /\ Len(ps) \in Nat
  BY SMT
<1>2. \A i \in 1 .. Len(ps) : [fs |-> fs, part |-> ps[i]] \in [fs : FileSystems, part : S]
  BY SMT
<1>3. t \in [1 .. Len(ps) -> [fs : FileSystems, part : S]]
  BY <1>1, <1>2
<1>4. t \in Seq([fs : FileSystems, part : S]) /\ Len(t) = Len(ps)
  BY SMT, <1>1, <1>3
<1>5. \A i \in 1 .. Len(ps) : t[i] = [fs |-> fs, part |-> ps[i]]
  BY <1>1
<1> QED BY <1>4, <1>5 DEF AllTried

\* The attempts on a drive are in order and complete.
LEMMA AttemptKeys ==
  ASSUME NEW S, NEW parts \in Seq(S), NEW whole \in S,
         NEW ps, ps = Volumes(parts, whole), NEW A, A = MountAttempts(parts, whole)
  PROVE /\ ps \in Seq(S) /\ ps # <<>>
        /\ A \in Seq([fs : FileSystems, part : S]) /\ A # <<>>
        /\ \E key : Keys(A, ps, key)
<1> DEFINE R == [fs : FileSystems, part : S]
           try(fs) == [i \in DOMAIN ps |-> [fs |-> fs, part |-> ps[i]]]
           keep == {i \in DOMAIN ps : partition_is_fat(ps[i])}
           F == Kept(try("fat"), keep)
           E == try("exfat")
           X == try("ext")
           n == Len(ps)
           f == Len(F)
<1>0. ps \in Seq(S) /\ ps # <<>>
  <2>1. CASE parts = <<>>
    <3>1. ps = <<whole>>
      BY <2>1 DEF Volumes
    <3> QED BY SMT, <3>1
  <2>2. CASE parts # <<>>
    BY <2>2 DEF Volumes
  <2> QED BY SMT, <2>1, <2>2
<1>1. ps \in Seq(S) /\ ps # <<>> /\ n \in Nat \ {0} /\ DOMAIN ps = 1 .. n
  <2>1. n \in Nat /\ n # 0 /\ DOMAIN ps = 1 .. n
    BY <1>0, Nonempty
  <2> QED BY <1>0, <2>1
<1>2. A = (F \o E) \o X
  BY DEF MountAttempts, Volumes
<1>3. ASSUME NEW fs \in FileSystems PROVE try(fs) \in Seq(R) /\ AllTried(fs, ps, try(fs))
  BY <1>1, Tries
<1>s. "fat" \in FileSystems /\ "exfat" \in FileSystems /\ "ext" \in FileSystems
  BY DEF FileSystems
<1>4. /\ E \in Seq(R) /\ Len(E) = n /\ \A i \in 1 .. n : E[i] = [fs |-> "exfat", part |-> ps[i]]
      /\ X \in Seq(R) /\ Len(X) = n /\ \A i \in 1 .. n : X[i] = [fs |-> "ext", part |-> ps[i]]
  <2> HIDE DEF try, R
  <2> QED BY <1>3, <1>s DEF AllTried
<1>5. F \in Seq(R) /\ \E h : Picks(try("fat"), keep, F, h)
  <2>1. try("fat") \in Seq(R) /\ Len(try("fat")) = n
    <3> HIDE DEF try, R
    <3> QED BY <1>3, <1>s DEF AllTried
  <2>2. keep \in SUBSET (1 .. Len(try("fat")))
    BY SMT, <1>1, <2>1
  <2> HIDE DEF try, keep, R
  <2> QED BY <2>1, <2>2, KeptFacts
<1>6. PICK h : Picks(try("fat"), keep, F, h)
  BY <1>5
<1>7. /\ f \in Nat /\ h \in [1 .. f -> keep]
      /\ \A i, j \in 1 .. f : i < j => h[i] < h[j]
      /\ \A p \in keep : \E i \in 1 .. f : h[i] = p
  <2>1. f \in Nat
    BY <1>5, Nonempty
  <2> HIDE DEF keep, F, try
  <2> QED BY <1>6, <2>1 DEF Picks
<1>8. \A i \in 1 .. f : h[i] \in 1 .. n /\ F[i] = [fs |-> "fat", part |-> ps[h[i]]]
  <2> SUFFICES ASSUME NEW i \in 1 .. f PROVE h[i] \in 1 .. n /\ F[i] = [fs |-> "fat", part |-> ps[h[i]]]
    OBVIOUS
  <2>1. h[i] \in keep
    BY <1>7
  <2>2. h[i] \in 1 .. n
    BY SMT, <1>1, <2>1
  <2>3. F[i] = try("fat")[h[i]]
    BY <1>6 DEF Picks
  <2>4. AllTried("fat", ps, try("fat"))
    BY <1>3, <1>s
  <2> HIDE DEF try
  <2> QED BY <2>2, <2>3, <2>4 DEF AllTried
<1>9. \A p \in 1 .. n : partition_is_fat(ps[p]) => \E i \in 1 .. f : h[i] = p
  BY <1>1, <1>7
<1> HIDE DEF F, E, X, n, f, R
<1> DEFINE B == F \o E
<1>10. B \in Seq(R) /\ Joined(F, E, B) /\ A \in Seq(R) /\ Joined(B, X, A)
  <2>1. B \in Seq(R) /\ Joined(F, E, B)
    BY <1>4, <1>5, Concat
  <2> HIDE DEF B
  <2>2. A \in Seq(R) /\ Joined(B, X, A)
    BY <1>2, <1>4, <2>1, Concat DEF B
  <2> QED BY SMT, <2>1, <2>2
<1> HIDE DEF B
<1>11. /\ Len(A) = f + n + n
       /\ \A k \in 1 .. f : A[k] = F[k]
       /\ \A k \in 1 .. n : A[f + k] = E[k]
       /\ \A k \in 1 .. n : A[f + n + k] = X[k]
  <2>1. f \in Nat /\ n \in Nat /\ Len(F) = f
    BY <1>1, <1>7 DEF f
  <2>2. Len(B) = f + n /\ (\A k \in 1 .. f : B[k] = F[k]) /\ \A k \in 1 .. n : B[f + k] = E[k]
    BY <1>4, <1>10, <2>1 DEF Joined
  <2>3. Len(A) = f + n + n /\ (\A k \in 1 .. f + n : A[k] = B[k]) /\ \A k \in 1 .. n : A[f + n + k] = X[k]
    BY <1>4, <1>10, <2>2 DEF Joined
  <2>4. \A k \in 1 .. n : f + k \in 1 .. f + n
    BY SMT, <2>1
  <2>5. \A k \in 1 .. f : k \in 1 .. f + n
    BY SMT, <2>1
  <2> QED BY <2>2, <2>3, <2>4, <2>5
<1> DEFINE key == [k \in 1 .. f + n + n |-> IF k <= f THEN <<1, h[k]>>
                     ELSE IF k <= f + n THEN <<2, k - f>> ELSE <<3, k - f - n>>]
<1>12. /\ \A k \in 1 .. f : key[k] = <<1, h[k]>> /\ A[k] = [fs |-> "fat", part |-> ps[h[k]]]
       /\ \A k \in 1 .. n : key[f + k] = <<2, k>> /\ A[f + k] = [fs |-> "exfat", part |-> ps[k]]
       /\ \A k \in 1 .. n : key[f + n + k] = <<3, k>> /\ A[f + n + k] = [fs |-> "ext", part |-> ps[k]]
  <2>1. ASSUME NEW k \in 1 .. f PROVE key[k] = <<1, h[k]>>
    BY SMTT(30), <1>1, <1>7
  <2>2. ASSUME NEW k \in 1 .. n PROVE key[f + k] = <<2, k>>
    BY SMT, <1>1, <1>7
  <2>3. ASSUME NEW k \in 1 .. n PROVE key[f + n + k] = <<3, k>>
    BY SMT, <1>1, <1>7
  <2> HIDE DEF key
  <2> QED BY <1>4, <1>8, <1>11, <2>1, <2>2, <2>3
<1>13. DOMAIN key = 1 .. f + n + n
  BY SMT
<1>14. key = [k \in 1 .. f + n + n |-> key[k]]
  BY SMT
<1> HIDE DEF key
<1>15. ASSUME NEW k \in 1 .. f + n + n
       PROVE \/ k \in 1 .. f
             \/ \E i \in 1 .. n : k = f + i
             \/ \E i \in 1 .. n : k = f + n + i
  <2>1. CASE k <= f
    BY SMT, <2>1
  <2>2. CASE k > f /\ k <= f + n
    <3>1. k - f \in 1 .. n /\ k = f + (k - f)
      BY SMT, <1>1, <1>7, <2>2
    <3> QED BY SMT, <3>1
  <2>3. CASE k > f + n
    <3>1. k - f - n \in 1 .. n /\ k = f + n + (k - f - n)
      BY SMTT(30), <1>1, <1>7, <2>3
    <3> QED BY SMT, <3>1
  <2> QED BY SMTT(30), <1>1, <1>7, <2>1, <2>2, <2>3
<1>16. /\ Ranked[1] = "fat" /\ Ranked[2] = "exfat" /\ Ranked[3] = "ext"
  BY SMT DEF Ranked
<1>17. ASSUME NEW k \in 1 .. f + n + n
       PROVE /\ key[k] \in (1 .. 3) \X (1 .. n)
             /\ A[k] = [fs |-> Ranked[key[k][1]], part |-> ps[key[k][2]]]
  <2>1. CASE k \in 1 .. f
    <3>1. key[k] = <<1, h[k]>> /\ A[k] = [fs |-> "fat", part |-> ps[h[k]]] /\ h[k] \in 1 .. n
      BY <1>8, <1>12, <2>1
    <3> QED BY SMT, <1>16, <3>1
  <2>2. CASE \E i \in 1 .. n : k = f + i
    <3>1. PICK i \in 1 .. n : k = f + i
      BY SMT, <2>2
    <3>2. key[k] = <<2, i>> /\ A[k] = [fs |-> "exfat", part |-> ps[i]]
      BY <1>12, <3>1
    <3> QED BY SMTT(30), <1>16, <3>2
  <2>3. CASE \E i \in 1 .. n : k = f + n + i
    <3>1. PICK i \in 1 .. n : k = f + n + i
      BY SMT, <2>3
    <3>2. key[k] = <<3, i>> /\ A[k] = [fs |-> "ext", part |-> ps[i]]
      BY <1>12, <3>1
    <3> QED BY SMTT(30), <1>16, <3>2
  <2> QED BY <1>15, <2>1, <2>2, <2>3
<1>18. ASSUME NEW k \in 1 .. f + n + n, NEW l \in 1 .. f + n + n, k < l
       PROVE key[k][1] < key[l][1] \/ (key[k][1] = key[l][1] /\ key[k][2] < key[l][2])
  BY SMTT(30), <1>1, <1>7, <1>18 DEF key
<1>19. ASSUME NEW c \in (1 .. 3) \X (1 .. n), c[1] = 1 => partition_is_fat(ps[c[2]])
       PROVE \E k \in 1 .. f + n + n : key[k] = c
  <2>1. PICK r \in 1 .. 3, i \in 1 .. n : c = <<r, i>> /\ c[1] = r /\ c[2] = i
    BY SMT
  <2>2. CASE r = 1
    <3>1. PICK k \in 1 .. f : h[k] = i
      BY <1>9, <1>19, <2>1, <2>2
    <3>2. k \in 1 .. f + n + n
      BY SMT, <1>1, <1>7
    <3> QED BY <1>12, <2>1, <2>2, <3>1, <3>2
  <2>3. CASE r = 2
    <3>1. f + i \in 1 .. f + n + n
      BY SMT, <1>1, <1>7
    <3> QED BY <1>12, <2>1, <2>3, <3>1
  <2>4. CASE r = 3
    <3>1. f + n + i \in 1 .. f + n + n
      BY SMT, <1>1, <1>7
    <3> QED BY <1>12, <2>1, <2>4, <3>1
  <2> QED BY SMT, <2>2, <2>3, <2>4
<1>20. key \in [1 .. f + n + n -> (1 .. 3) \X (1 .. n)]
  BY <1>14, <1>17
<1>21. Keys(A, ps, key)
  BY ZenonT(30), <1>11, <1>17, <1>18, <1>19, <1>20 DEF Keys, n
<1>22. A # <<>>
  BY SMT, <1>1, <1>7, <1>11
<1> QED BY <1>1, <1>10, <1>21, <1>22 DEF R

----------------------------------------------------------------------------
(* Paths that lead to a program.                                           *)

\* A larger set has more files that lead into it.
LEMMA LeadMore == ASSUME NEW S, NEW T, S \subseteq T PROVE LeadInto(S) \subseteq LeadInto(T)
BY DEF LeadInto

\* A file is workable if and only if it is a program or its interpreter is.
LEMMA WorkableFixed == Workable = LeadInto(Workable)
<1> DEFINE W == Workable
<1>0. W \in SUBSET DOMAIN Files /\ LeadInto(W) \subseteq DOMAIN Files
  BY DEF Workable, LeadInto
<1>1. \A p \in W : \A S \in SUBSET DOMAIN Files : LeadInto(S) \subseteq S => p \in S
  BY DEF Workable
<1>2. \A p \in DOMAIN Files :
        (\A S \in SUBSET DOMAIN Files : LeadInto(S) \subseteq S => p \in S) => p \in W
  BY DEF Workable
<1> HIDE DEF W
<1>3. ASSUME NEW S \in SUBSET DOMAIN Files, LeadInto(S) \subseteq S PROVE LeadInto(W) \subseteq S
  <2>1. W \subseteq S
    BY <1>1, <1>3
  <2>2. LeadInto(W) \subseteq LeadInto(S)
    BY <2>1, LeadMore
  <2> QED BY <1>3, <2>2
<1>4. LeadInto(W) \subseteq W
  BY <1>0, <1>2, <1>3
<1>5. LeadInto(LeadInto(W)) \subseteq LeadInto(W)
  BY <1>4, LeadMore
<1>6. LeadInto(W) \in SUBSET DOMAIN Files
  BY <1>0
<1>7. W \subseteq LeadInto(W)
  BY <1>1, <1>5, <1>6
<1>8. W = LeadInto(W)
  BY <1>4, <1>7
<1> QED BY <1>8 DEF W

\* So with what the loader sees of a file.
LEMMA WorkableFile == ASSUME NEW p
  PROVE /\ p \notin DOMAIN Files => p \notin Workable
        /\ p \in DOMAIN Files /\ Files[p].kind = "elf" => p \in Workable
        /\ p \in DOMAIN Files /\ Files[p].kind = "interp" =>
              (p \in Workable <=> Files[p].interp \in Workable)
        /\ p \in DOMAIN Files /\ Files[p].kind \notin {"elf", "interp"} => p \notin Workable
<1>1. p \in Workable <=> p \in LeadInto(Workable)
  BY WorkableFixed
<1>2. p \in LeadInto(Workable) <=>
        /\ p \in DOMAIN Files
        /\ Files[p].kind = "elf" \/ (Files[p].kind = "interp" /\ Files[p].interp \in Workable)
  BY DEF LeadInto
<1>3. "elf" # "interp"
  BY SMT
<1> HIDE DEF Files
<1> QED BY <1>1, <1>2, <1>3

----------------------------------------------------------------------------
(* The invariant.                                                          *)

\* Before the drives are known.
Early == {"xhci", "usb", "ide", "ahci"}

\* While the root is sought.
Mounting == {"scan", "mount"}

\* Once the root is mounted.
Late == {"fhs", "test_block", "test_mbr", "test_fs", "test_ide", "test_ahci", "init", "user"}

\* The drives a machine may have.
DriveIds == ({"ide"} \X Units) \cup ({"ahci"} \X DOMAIN machine.sata)

\* The drives in the order of the mounts.
Order == MountOrder(found.ide, found.ahci)

\* q is the end of s.
Suffix(q, s) == Len(q) <= Len(s) /\ \A k \in 1 .. Len(q) : q[k] = s[Len(s) - Len(q) + k]

\* The volumes a drive may have, and what is tried on it when sector 0 is read.
Parts(drive) == {drive.whole} \cup {drive.parts[i] : i \in DOMAIN drive.parts}

\* The mounts tried on a drive.
Attempts(drive) == MountAttempts(partition_scan_mbr(drive), drive.whole)

\* The machine, the channels and the bounds.
Hardware ==
    /\ machine \in Machines
    /\ phase \in Early \cup Mounting \cup Late \cup {"panic"}
    /\ unit \in 1 .. 5 /\ (phase \in {"xhci", "usb", "ide"} => unit # 5)
    /\ bus \in [sel : [0 .. 1 -> Units], err : SUBSET Units, stopped : SUBSET Nat]
    /\ \A c \in 0 .. 1 : Channel(bus.sel[c]) = c
    /\ faults \in 0 .. MaxFaults /\ failed \in BOOLEAN

\* Drives of a kind in the order of their numbers.
InOrder(s) == \A i, j \in 1 .. Len(s) : i < j => s[i][2] < s[j][2]

\* The drives found.
Found ==
    /\ found = [ide |-> found.ide, ahci |-> found.ahci]
    /\ found.ide \in Seq({"ide"} \X Units) /\ InOrder(found.ide) /\ Len(found.ide) < unit
    /\ \A i \in 1 .. Len(found.ide) : found.ide[i][2] < unit
    /\ found.ahci \in Seq({"ahci"} \X DOMAIN machine.sata) /\ InOrder(found.ahci)
    /\ Len(found.ahci) <= AHCI_MAX_DEVICES

\* Those that are left, what is left to try on the first of them, and the root.
Left ==
    /\ phase \in Mounting => queue \in Seq(DriveIds) /\ queue # <<>>
    /\ phase = "mount" => todo \in Seq([fs : FileSystems, part : Parts(Drive(Head(queue)))]) /\ todo # <<>>
    /\ phase \in Early \cup Mounting => root = <<>>
    /\ phase \in Late => root # <<>> /\ root.drive \in DriveIds
    /\ phase \in {"test_ide", "test_ahci"} => Dual

\* The loader's buffer and the paths.
Loader ==
    /\ load = [pc |-> load.pc, path |-> load.path, argv1 |-> load.argv1, began |-> load.began]
    /\ load.pc \in {"idle", "stat", "alloc", "read", "parse"}
    /\ buffers = IF phase = "init" /\ load.pc \in {"read", "parse"} THEN 1 ELSE 0
    /\ load.pc # "idle" => phase \in {"init", "user"}
    /\ phase = "user" => load.pc # "idle"
    /\ inits \in Seq({"/sbin/init", "/INIT"}) /\ Suffix(inits, InitPaths)
    /\ phase \notin {"init", "user", "panic"} => Len(inits) = 3
    /\ phase = "panic" => Len(inits) = 3 \/ inits = <<>>

\* How the path being loaded comes from the one that was tried.
Loading ==
    load.pc # "idle" =>
        /\ Len(inits) < 3 /\ load.began = InitPaths[3 - Len(inits)]
        /\ \/ load.path = load.began /\ load.argv1 = ""
           \/ /\ Files[load.began].kind = "interp"
              /\ load.argv1 \in DOMAIN Files /\ Files[load.argv1].interp = load.path
        /\ load.pc # "stat" => load.path \in DOMAIN Files
        /\ phase = "user" => load.path \in DOMAIN Files /\ Files[load.path].kind = "elf"

\* The paths that have been given up do not work, and the one being loaded works
\* if and only if the one that was tried does.
GivenUp ==
    ~failed =>
        /\ \A j \in 1 .. 3 - Len(inits) :
              load.pc = "idle" \/ j # 3 - Len(inits) => InitPaths[j] \notin Workable
        /\ load.pc # "idle" => (load.began \in Workable <=> load.path \in Workable)

\* What has been passed over could not be mounted.
PassedOver ==
    ~failed =>
        /\ phase \in Mounting =>
              /\ Suffix(queue, Order)
              /\ \A j \in 1 .. Len(Order) - Len(queue) : Candidates(Drive(Order[j])) = {}
        /\ phase = "mount" =>
              LET A == Attempts(Drive(Head(queue)))
              IN  /\ Suffix(todo, A)
                  /\ \A j \in 1 .. Len(A) - Len(todo) : ~Mounts(A[j].fs, A[j].part)
        /\ root # <<>> => root.fs \in FileSystems /\ Mounts(root.fs, root.part)

\* While kmain is not caught in a wait.
Underway ==
    /\ Hardware /\ Found /\ Left /\ Loader /\ Loading /\ GivenUp
    /\ PassedOver /\ RootIsFirst /\ BootsFat32Root

\* In a wait that never ends.
Hung == phase = "hung" /\ failed = TRUE /\ TypeOK /\ LoaderFreesBuffers

\* The inductive invariant.
BootInv == Underway \/ Hung

\* The steps of kmain that come to an end.
Works == kmain /\ ~start_port /\ ~ahci_waits

----------------------------------------------------------------------------
(* Steps.                                                                  *)

\* The boot code takes a step, or its variables stay.
LEMMA BootStep == [Next]_vars => kmain \/ UNCHANGED bvars
BY DEF Next, vars

\* The channels and ports.
BusType == [sel : [0 .. 1 -> Units], err : SUBSET Units, stopped : SUBSET Nat]

\* The channels have units of their own selected.
BusOK(b) == b \in BusType /\ \A c \in 0 .. 1 : Channel(b.sel[c]) = c

\* Units 1 and 2 are on channel 0, 3 and 4 on channel 1.
LEMMA ChannelFacts == ASSUME NEW u \in Units PROVE Channel(u) \in 0 .. 1
BY SMT DEF Channel, Units

\* A unit is selected on its channel.
LEMMA SelectOK == ASSUME NEW b, BusOK(b), NEW u \in Units PROVE BusOK(Select(b, u))
<1> DEFINE s == [b.sel EXCEPT ![Channel(u)] = u]
           B == Select(b, u)
<1>1. b = [sel |-> b.sel, err |-> b.err, stopped |-> b.stopped] /\ b.sel \in [0 .. 1 -> Units]
      /\ b.stopped \in SUBSET Nat /\ b.err \in SUBSET Units
  BY SMT DEF BusOK, BusType
<1>2. B = [sel |-> s, err |-> b.err, stopped |-> b.stopped]
  BY SMT, <1>1 DEF Select
<1>3. s \in [0 .. 1 -> Units]
  BY SMTT(30), <1>1, ChannelFacts
<1>4. ASSUME NEW c \in 0 .. 1 PROVE Channel(s[c]) = c
  <2>1. CASE c = Channel(u)
    BY SMT, <1>1, <2>1
  <2>2. CASE c # Channel(u)
    <3>1. s[c] = b.sel[c]
      BY SMTT(30), <1>1, <2>2
    <3> QED BY <3>1 DEF BusOK
  <2> QED BY SMTT(30), <2>1, <2>2
<1> HIDE DEF s, B
<1>5. B \in BusType /\ B.sel = s
  BY SMT, <1>1, <1>2, <1>3 DEF BusType
<1>6. BusOK(B)
  BY <1>4, <1>5 DEF BusOK
<1> QED BY <1>6 DEF B

\* The error flags of the units change.
LEMMA ErrOK == ASSUME NEW b, BusOK(b), NEW E \in SUBSET Units
  PROVE BusOK([b EXCEPT !.err = E])
<1>1. b = [sel |-> b.sel, err |-> b.err, stopped |-> b.stopped] /\ b.sel \in [0 .. 1 -> Units]
      /\ b.stopped \in SUBSET Nat /\ (\A c \in 0 .. 1 : Channel(b.sel[c]) = c)
  BY SMT DEF BusOK, BusType
<1>2. [b EXCEPT !.err = E] = [sel |-> b.sel, err |-> E, stopped |-> b.stopped]
  BY SMT, <1>1
<1> QED BY SMTT(30), <1>1, <1>2 DEF BusOK, BusType

\* What an access leaves.
LEMMA AccessOK == ASSUME Hardware, NEW d \in DriveIds, NEW ok \in BOOLEAN, Access(d, ok)
  PROVE /\ BusOK(bus') /\ faults' \in 0 .. MaxFaults /\ failed' \in BOOLEAN
        /\ failed' = (failed \/ ~ok)
<1>1. BusOK(bus) /\ faults \in Nat /\ MaxFaults \in Nat /\ failed \in BOOLEAN
  BY SMT, BootAssumption DEF Hardware, BusOK, BusType
<1>2. PICK o \in IF d[1] = "ide" THEN ide_read(d[2]) ELSE ahci_transfer(d[2]) :
        /\ o.ok = ok /\ faults + o.cost <= MaxFaults /\ bus' = o.bus
        /\ faults' = faults + o.cost /\ failed' = (failed \/ ~ok)
  BY DEF Access
<1>3. o.cost \in 0 .. 1 /\ BusOK(o.bus)
  <2>1. CASE d[1] = "ide"
    <3> DEFINE u == d[2]
               a == Select(bus, u)
               b == [a EXCEPT !.err = a.err \ {u}]
               e == [b EXCEPT !.err = b.err \cup {u}]
    <3>1. u \in Units
      BY SMT, <2>1 DEF DriveIds
    <3>2. BusOK(b)
      <4>1. BusOK(a)
        BY <1>1, <3>1, SelectOK
      <4> HIDE DEF a
      <4>2. a.err \ {u} \in SUBSET Units
        BY SMT, <4>1 DEF BusOK, BusType
      <4> QED BY <4>1, <4>2, ErrOK
    <3> HIDE DEF b
    <3>3. BusOK(e)
      <4>1. b.err \cup {u} \in SUBSET Units
        BY SMT, <3>1, <3>2 DEF BusOK, BusType
      <4> QED BY <3>2, <4>1, ErrOK
    <3>4. o \in ide_read(u)
      BY <1>2, <2>1
    <3>5. o \in {Outcome(FALSE, bus, 0), Outcome(TRUE, b, 0), Outcome(FALSE, bus, 1),
                 Outcome(FALSE, b, 1), Outcome(FALSE, e, 1)}
      BY <3>4 DEF ide_read, b
    <3> HIDE DEF e, u
    <3> QED BY SMTT(30), <1>1, <3>2, <3>3, <3>5 DEF Outcome
  <2>2. CASE d[1] # "ide"
    <3> DEFINE p == d[2]
               e == [bus EXCEPT !.stopped = bus.stopped \cup {p}]
    <3>1. p \in Nat
      <4>1. machine.sata \in Seq({machine.sata[i] : i \in DOMAIN machine.sata})
        BY BootAssumption DEF Hardware, IsSequence
      <4>2. DOMAIN machine.sata = 1 .. Len(machine.sata) /\ Len(machine.sata) \in Nat
        BY <4>1, Nonempty
      <4>3. p \in DOMAIN machine.sata
        BY SMT, <2>2 DEF DriveIds
      <4> QED BY SMT, <4>2, <4>3
    <3>2. o \in ahci_transfer(p)
      BY <1>2, <2>2
    <3>3. o \in {Outcome(TRUE, bus, 0), Outcome(FALSE, bus, 1), Outcome(FALSE, e, 1)}
      BY <3>2 DEF ahci_transfer
    <3>4. BusOK(e)
      <4>1. bus = [sel |-> bus.sel, err |-> bus.err, stopped |-> bus.stopped]
            /\ bus.sel \in [0 .. 1 -> Units] /\ bus.err \in SUBSET Units /\ bus.stopped \in SUBSET Nat
            /\ (\A c \in 0 .. 1 : Channel(bus.sel[c]) = c)
        BY SMT, <1>1 DEF BusOK, BusType
      <4>2. e = [sel |-> bus.sel, err |-> bus.err, stopped |-> bus.stopped \cup {p}]
        BY SMTT(20), <4>1
      <4> HIDE DEF p, e
      <4> QED BY SMTT(30), <3>1, <4>1, <4>2 DEF BusOK, BusType
    <3> HIDE DEF e, p
    <3> QED BY SMTT(30), <1>1, <3>3, <3>4 DEF Outcome
  <2> QED BY SMTT(30), <2>1, <2>2
<1>4. faults' \in 0 .. MaxFaults
  BY SMT, <1>1, <1>2, <1>3
<1>5. failed' \in BOOLEAN
  BY <1>1, <1>2
<1> QED BY <1>2, <1>3, <1>4, <1>5

\* The drives of a machine.
LEMMA MachineFacts == ASSUME machine \in Machines
  PROVE /\ DOMAIN machine.sata = 1 .. Len(machine.sata) /\ Len(machine.sata) \in Nat
        /\ \A d \in DriveIds : IsDrive(Drive(d))
<1>1. machine.sata \in Seq({machine.sata[i] : i \in DOMAIN machine.sata})
  BY BootAssumption DEF IsSequence
<1>2. DOMAIN machine.sata = 1 .. Len(machine.sata) /\ Len(machine.sata) \in Nat
  BY <1>1, Nonempty
<1>3. (\A u \in 1 .. 4 : IsDrive(machine.ide[u])) /\ \A p \in DOMAIN machine.sata : IsDrive(machine.sata[p])
  BY BootAssumption
<1>4. ASSUME NEW d \in DriveIds PROVE IsDrive(Drive(d))
  <2>1. CASE d \in {"ide"} \X Units
    <3>1. d[1] = "ide" /\ d[2] \in 1 .. 4
      BY SMT, <2>1 DEF Units
    <3> QED BY <1>3, <3>1 DEF Drive
  <2>2. CASE d \in {"ahci"} \X DOMAIN machine.sata
    <3>1. d[1] # "ide" /\ d[2] \in DOMAIN machine.sata
      BY SMT, <2>2
    <3> QED BY <1>3, <3>1 DEF Drive
  <2> QED BY SMT, <2>1, <2>2 DEF DriveIds
<1> QED BY <1>2, <1>4

\* The SATA drives that ahci_init enters are disks, in the order of their ports,
\* and fit in its table.
LEMMA SataFacts == ASSUME machine \in Machines, NEW s, s \in {SataDisks, <<>>}
  PROVE s \in Seq({"ahci"} \X DOMAIN machine.sata) /\ InOrder(s) /\ Len(s) <= AHCI_MAX_DEVICES
<1> DEFINE D == {"ahci"} \X DOMAIN machine.sata
           n == Len(machine.sata)
           t == [p \in DOMAIN machine.sata |-> <<"ahci", p>>]
           keep == {p \in DOMAIN machine.sata : port_is_sata(machine.sata[p])}
           K == SataPorts
           m == IF Len(K) < AHCI_MAX_DEVICES THEN Len(K) ELSE AHCI_MAX_DEVICES
<1>1. DOMAIN machine.sata = 1 .. n /\ n \in Nat /\ AHCI_MAX_DEVICES \in Nat
  BY MachineFacts, BootAssumption
<1>2. t \in Seq(D) /\ Len(t) = n /\ \A p \in 1 .. n : t[p] = <<"ahci", p>>
  <2>1. t \in [1 .. n -> D] /\ \A p \in 1 .. n : t[p] = <<"ahci", p>>
    BY <1>1
  <2> HIDE DEF t, D, n
  <2> QED BY SMT, <1>1, <2>1
<1>3. keep \in SUBSET (1 .. Len(t))
  BY SMT, <1>1, <1>2
<1>4. K = Kept(t, keep)
  BY DEF SataPorts
<1> HIDE DEF K, t, keep, D
<1>5. K \in Seq(D) /\ \E h : Picks(t, keep, K, h)
  BY <1>2, <1>3, <1>4, KeptFacts
<1>6. PICK h : Picks(t, keep, K, h)
  BY SMT, <1>5
<1>7. /\ h \in [1 .. Len(K) -> keep] /\ (\A i \in 1 .. Len(K) : K[i] = t[h[i]])
      /\ \A i, j \in 1 .. Len(K) : i < j => h[i] < h[j]
  BY <1>6 DEF Picks
<1>8. \A i \in 1 .. Len(K) : K[i] = <<"ahci", h[i]>>
  <2> SUFFICES ASSUME NEW i \in 1 .. Len(K) PROVE K[i] = <<"ahci", h[i]>>
    OBVIOUS
  <2>1. h[i] \in 1 .. n
    BY <1>2, <1>3, <1>7
  <2> QED BY <1>2, <1>7, <2>1
<1>9. Len(K) \in Nat /\ m \in 0 .. Len(K) /\ m <= AHCI_MAX_DEVICES
  BY SMT, <1>1, <1>5
<1>10. s = SubSeq(K, 1, m) \/ s = <<>>
  BY DEF SataDisks, K
<1>11. CASE s = SubSeq(K, 1, m)
  <2> HIDE DEF m
  <2>1. s \in Seq(D) /\ Len(s) = m /\ \A i \in 1 .. m : s[i] = K[i]
    BY SMTT(30), <1>5, <1>9, <1>11
  <2>2. \A i, j \in 1 .. m : i < j => s[i][2] < s[j][2]
    <3> SUFFICES ASSUME NEW i \in 1 .. m, NEW j \in 1 .. m, i < j PROVE s[i][2] < s[j][2]
      OBVIOUS
    <3>1. i \in 1 .. Len(K) /\ j \in 1 .. Len(K)
      BY SMT, <1>9
    <3>2. s[i] = <<"ahci", h[i]>> /\ s[j] = <<"ahci", h[j]>> /\ h[i] < h[j]
      BY <1>7, <1>8, <2>1, <3>1
    <3> QED BY SMT, <3>2
  <2> QED BY <1>9, <2>1, <2>2 DEF InOrder, D
<1>12. CASE s = <<>>
  <2>1. s \in Seq(D) /\ Len(s) = 0 /\ 1 .. 0 = {}
    BY SMT, <1>12
  <2>2. InOrder(s)
    BY <2>1 DEF InOrder
  <2> QED BY SMTT(30), <1>1, <2>1, <2>2 DEF D
<1> QED BY <1>10, <1>11, <1>12

\* One more IDE drive.
LEMMA IdeMore == ASSUME NEW s \in Seq({"ide"} \X Units), InOrder(s), NEW u \in Units, Len(s) < u,
                        \A i \in 1 .. Len(s) : s[i][2] < u, NEW t, t = Append(s, <<"ide", u>>)
  PROVE /\ t \in Seq({"ide"} \X Units) /\ InOrder(t) /\ Len(t) < u + 1
        /\ \A i \in 1 .. Len(t) : t[i][2] < u + 1
<1> DEFINE n == Len(s)
<1>1. n \in Nat /\ u \in Nat /\ t \in Seq({"ide"} \X Units) /\ Len(t) = n + 1 /\ t[n + 1] = <<"ide", u>>
      /\ \A i \in 1 .. n : t[i] = s[i]
  BY SMT DEF Units
<1>2. \A i \in 1 .. n : s[i][2] \in Nat
  BY SMT DEF Units
<1>3. (\A i, j \in 1 .. n : i < j => s[i][2] < s[j][2]) /\ \A i \in 1 .. n : s[i][2] < u
  BY DEF InOrder
<1>4. t[n + 1][2] = u /\ \A i \in 1 .. n : t[i][2] = s[i][2]
  BY SMT, <1>1
<1>5. \A i \in 1 .. n + 1 : i = n + 1 \/ i \in 1 .. n
  BY SMT, <1>1
<1> HIDE DEF n
<1>6. \A i, j \in 1 .. n + 1 : i < j => t[i][2] < t[j][2]
  <2> SUFFICES ASSUME NEW i \in 1 .. n + 1, NEW j \in 1 .. n + 1, i < j PROVE t[i][2] < t[j][2]
    OBVIOUS
  <2>1. i \in 1 .. n
    BY SMT, <1>1
  <2> QED BY <1>3, <1>4, <1>5, <2>1
<1>7. \A i \in 1 .. n + 1 : t[i][2] < u + 1
  <2> SUFFICES ASSUME NEW i \in 1 .. n + 1 PROVE t[i][2] < u + 1
    OBVIOUS
  <2>1. CASE i = n + 1
    BY SMTT(30), <1>1, <1>4, <2>1
  <2>2. CASE i \in 1 .. n
    <3>1. t[i][2] \in Nat /\ t[i][2] < u
      BY <1>2, <1>3, <1>4, <2>2
    <3> QED BY SMT, <1>1, <3>1
  <2> QED BY <1>5, <2>1, <2>2
<1>8. n + 1 < u + 1
  BY SMT, <1>1 DEF n
<1> QED BY <1>1, <1>6, <1>7, <1>8 DEF InOrder

----------------------------------------------------------------------------
(* The hardware and the drives.                                            *)

\* A machine that stays has the same drives.
LEMMA SameMachine == ASSUME machine' = machine
  PROVE DriveIds' = DriveIds /\ \A d : Drive(d)' = Drive(d)
BY DEF DriveIds, Drive, Units

\* A sequence that is not empty has a first element.
LEMMA HeadFacts == ASSUME NEW S, NEW s \in Seq(S), s # <<>>
  PROVE Head(s) \in S /\ Head(s) = s[1] /\ Tail(s) \in Seq(S) /\ Len(Tail(s)) = Len(s) - 1
        /\ 1 \in 1 .. Len(s)
        /\ \A i \in 1 .. Len(Tail(s)) : Tail(s)[i] = s[i + 1]
BY SMT

\* The drives whose sector 0 is compared are drives.
LEMMA DualDrives == ASSUME Found, Dual PROVE Head(found.ide) \in DriveIds /\ Head(found.ahci) \in DriveIds
<1>1. found.ide # <<>> /\ found.ahci # <<>>
  BY DEF Dual
<1>2. found.ide \in Seq({"ide"} \X Units) /\ found.ahci \in Seq({"ahci"} \X DOMAIN machine.sata)
  BY DEF Found
<1>3. Head(found.ide) \in {"ide"} \X Units /\ Head(found.ahci) \in {"ahci"} \X DOMAIN machine.sata
  BY <1>1, <1>2, HeadFacts
<1> QED BY <1>3 DEF DriveIds

\* What a check of the root does.
CheckDone(d, ok) ==
    /\ Access(d, ok)
    /\ phase \in Late \ {"init", "user"} /\ phase' \in (Late \ {"user"}) \cup {"panic"}
    /\ phase' \in {"test_ide", "test_ahci"} => Dual
    /\ UNCHANGED <<machine, unit, found, queue, todo, root, inits, load, buffers>>

\* Every check of the root is one access and its condition.
LEMMA CheckStep == ASSUME Found, Left, validate_fhs \/ storage_tests_run
  PROVE \E d \in DriveIds, ok \in BOOLEAN : CheckDone(d, ok)
<1>0. phase \in Late => root.drive \in DriveIds
  BY DEF Left
<1>1. CASE validate_fhs
  <2>1. PICK ok \in BOOLEAN :
          /\ phase = "fhs" /\ Access(root.drive, ok)
          /\ phase' = IF ok /\ fhs_dirs_exist(root.part) THEN IF StorageTests THEN "test_block" ELSE "init" ELSE "panic"
          /\ UNCHANGED <<machine, unit, found, queue, todo, root, inits, load, buffers>>
    BY <1>1 DEF validate_fhs, Check
  <2>2. phase \in Late \ {"init", "user"} /\ phase' \in {"test_block", "init", "panic"}
    BY SMT, <2>1 DEF Late
  <2>3. phase' \in (Late \ {"user"}) \cup {"panic"} /\ phase' \notin {"test_ide", "test_ahci"}
    BY SMT, <2>2 DEF Late
  <2> QED BY <1>0, <2>1, <2>2, <2>3 DEF CheckDone
<1>2. CASE Check("test_block", root.drive, root.part.sig, "test_mbr")
  <2>1. PICK ok \in BOOLEAN :
          /\ phase = "test_block" /\ Access(root.drive, ok)
          /\ phase' = IF ok /\ root.part.sig THEN "test_mbr" ELSE "panic"
          /\ UNCHANGED <<machine, unit, found, queue, todo, root, inits, load, buffers>>
    BY <1>2 DEF Check
  <2>2. phase \in Late \ {"init", "user"} /\ phase' \in {"test_mbr", "panic"}
    BY SMT, <2>1 DEF Late
  <2>3. phase' \in (Late \ {"user"}) \cup {"panic"} /\ phase' \notin {"test_ide", "test_ahci"}
    BY SMT, <2>2 DEF Late
  <2> QED BY <1>0, <2>1, <2>2, <2>3 DEF CheckDone
<1>3. CASE Check("test_mbr", root.drive, partition_scan_mbr(Drive(root.drive)) # <<>>, "test_fs")
  <2>1. PICK ok \in BOOLEAN :
          /\ phase = "test_mbr" /\ Access(root.drive, ok)
          /\ phase' = IF ok /\ partition_scan_mbr(Drive(root.drive)) # <<>> THEN "test_fs" ELSE "panic"
          /\ UNCHANGED <<machine, unit, found, queue, todo, root, inits, load, buffers>>
    BY <1>3 DEF Check
  <2>2. phase \in Late \ {"init", "user"} /\ phase' \in {"test_fs", "panic"}
    BY SMT, <2>1 DEF Late
  <2>3. phase' \in (Late \ {"user"}) \cup {"panic"} /\ phase' \notin {"test_ide", "test_ahci"}
    BY SMT, <2>2 DEF Late
  <2> QED BY <1>0, <2>1, <2>2, <2>3 DEF CheckDone
<1>4. CASE Check("test_fs", root.drive, TestedAs(root) /\ fhs_dirs_exist(root.part), IF Dual THEN "test_ide" ELSE "init")
  <2>1. PICK ok \in BOOLEAN :
          /\ phase = "test_fs" /\ Access(root.drive, ok)
          /\ phase' = IF ok /\ TestedAs(root) /\ fhs_dirs_exist(root.part) THEN IF Dual THEN "test_ide" ELSE "init" ELSE "panic"
          /\ UNCHANGED <<machine, unit, found, queue, todo, root, inits, load, buffers>>
    BY <1>4 DEF Check
  <2>2. phase \in Late \ {"init", "user"} /\ phase' \in {"test_ide", "init", "panic"}
        /\ (phase' = "test_ide" => Dual)
    BY SMTT(30), <2>1 DEF Late
  <2>3. phase' \in (Late \ {"user"}) \cup {"panic"} /\ (phase' \in {"test_ide", "test_ahci"} => Dual)
    BY SMT, <2>2 DEF Late
  <2> QED BY <1>0, <2>1, <2>2, <2>3 DEF CheckDone
<1>5. CASE Check("test_ide", Head(found.ide), TRUE, "test_ahci")
  <2>1. PICK ok \in BOOLEAN :
          /\ phase = "test_ide" /\ Access(Head(found.ide), ok)
          /\ phase' = IF ok THEN "test_ahci" ELSE "panic"
          /\ UNCHANGED <<machine, unit, found, queue, todo, root, inits, load, buffers>>
    BY <1>5 DEF Check
  <2>2. Dual /\ Head(found.ide) \in DriveIds
    BY <2>1, DualDrives DEF Left
  <2>3. phase \in Late \ {"init", "user"} /\ phase' \in (Late \ {"user"}) \cup {"panic"}
    BY SMT, <2>1 DEF Late
  <2> QED BY <2>1, <2>2, <2>3 DEF CheckDone
<1>6. CASE Check("test_ahci", Head(found.ahci),
                 Drive(Head(found.ide)).sig /\ Drive(Head(found.ahci)).sig, "init")
  <2>1. PICK ok \in BOOLEAN :
          /\ phase = "test_ahci" /\ Access(Head(found.ahci), ok)
          /\ phase' = IF ok /\ Drive(Head(found.ide)).sig /\ Drive(Head(found.ahci)).sig THEN "init" ELSE "panic"
          /\ UNCHANGED <<machine, unit, found, queue, todo, root, inits, load, buffers>>
    BY <1>6 DEF Check
  <2>2. Dual /\ Head(found.ahci) \in DriveIds
    BY <2>1, DualDrives DEF Left
  <2>3. phase \in Late \ {"init", "user"} /\ phase' \in (Late \ {"user"}) \cup {"panic"}
    BY SMT, <2>1 DEF Late
  <2> QED BY <2>1, <2>2, <2>3 DEF CheckDone
<1> QED BY <1>1, <1>2, <1>3, <1>4, <1>5, <1>6 DEF storage_tests_run

\* The steps of the loader.
Loads == NextInit \/ ElfStat \/ ElfAlloc \/ ElfRead \/ ElfParse

\* What a step of the loader leaves alone, and the access it makes, if any.
LoadFrame ==
    /\ phase = "init" /\ phase' \in {"init", "user", "panic"}
    /\ UNCHANGED <<machine, unit, found, queue, todo, root>>
    /\ \/ \E ok \in BOOLEAN : Access(root.drive, ok)
       \/ UNCHANGED <<bus, faults, failed>>
       \/ UNCHANGED bus /\ faults < MaxFaults /\ faults' = faults + 1 /\ failed' = TRUE

\* Every step of the loader is of that form.
LEMMA LoadStep == ASSUME Loads PROVE LoadFrame
<1> USE DEF LoadFrame
<1>1. CASE NextInit
  BY <1>1 DEF NextInit
<1>2. CASE ElfStat
  BY <1>2 DEF ElfStat
<1>3. CASE ElfAlloc
  BY <1>3 DEF ElfAlloc
<1>4. CASE ElfRead
  BY <1>4 DEF ElfRead
<1>5. CASE ElfParse
  BY <1>5 DEF ElfParse
<1> QED BY <1>1, <1>2, <1>3, <1>4, <1>5 DEF Loads

\* The machine stays, the selected units stay on their channels and the faults within
\* their bound.
LEMMA HardwareStep == ASSUME Hardware, Found, Left, Works PROVE Hardware'
<1> DEFINE Rest == BusOK(bus') /\ faults' \in 0 .. MaxFaults /\ failed' \in BOOLEAN
           Ph == phase' \in Early \cup Mounting \cup Late \cup {"panic"}
           Un == unit' \in 1 .. 5 /\ (phase' \in {"xhci", "usb", "ide"} => unit' # 5)
<1>0. /\ machine \in Machines /\ unit \in 1 .. 5 /\ BusOK(bus) /\ faults \in 0 .. MaxFaults /\ failed \in BOOLEAN
      /\ (phase \in {"xhci", "usb", "ide"} => unit # 5) /\ MaxFaults \in Nat
  BY BootAssumption DEF Hardware, BusOK, BusType
<1>1. SUFFICES machine' = machine /\ Ph /\ Un /\ Rest
  BY <1>0 DEF Hardware, BusOK, BusType
<1>2. CASE XhciProbe \/ UsbDone
  <2>1. /\ phase \in {"xhci", "usb"} /\ phase' \in {"usb", "ide"}
        /\ UNCHANGED <<machine, unit, bus, faults, failed>>
    BY <1>2 DEF XhciProbe, UsbDone
  <2>2. Ph /\ phase \in {"xhci", "usb", "ide"}
    BY SMT, <2>1 DEF Early
  <2> QED BY <1>0, <2>1, <2>2
<1>3. CASE IdeAbsent \/ IdeFound
  <2>1. phase = "ide" /\ unit' = unit + 1 /\ phase' = (IF unit = 4 THEN "ahci" ELSE "ide") /\ machine' = machine
    BY <1>3 DEF IdeAbsent, IdeFound, NextUnit
  <2>2. unit \in Units /\ Un
    BY SMTT(30), <1>0, <2>1 DEF Units
  <2>3. Ph
    BY SMT, <2>1 DEF Early
  <2> DEFINE b == Select(bus, unit)
             error == [b EXCEPT !.err = b.err \cup {unit}]
  <2>4. BusOK(b)
    BY <1>0, <2>2, SelectOK
  <2> HIDE DEF b
  <2>5. BusOK(error)
    <3>1. b.err \cup {unit} \in SUBSET Units
      BY SMT, <2>2, <2>4 DEF BusOK, BusType
    <3> QED BY <2>4, <3>1, ErrOK
  <2>6. /\ bus' \in {b, error}
        /\ UNCHANGED <<faults, failed>> \/ (faults < MaxFaults /\ faults' = faults + 1 /\ failed' = TRUE)
    BY <1>3 DEF IdeAbsent, IdeFound, b
  <2> HIDE DEF error
  <2>7. BusOK(bus') /\ failed' \in BOOLEAN
    BY <1>0, <2>4, <2>5, <2>6
  <2>8. faults' \in 0 .. MaxFaults
    BY SMT, <1>0, <2>6
  <2> QED BY <2>1, <2>2, <2>3, <2>7, <2>8
<1>4. CASE ahci_init
  <2>1. phase' \in {"panic", "scan"} /\ UNCHANGED <<machine, unit, bus, faults, failed>>
    BY <1>4 DEF ahci_init
  <2>2. Ph /\ phase' \notin {"xhci", "usb", "ide"}
    BY SMT, <2>1 DEF Mounting
  <2> QED BY <1>0, <2>1, <2>2
<1>5. CASE ScanDrive \/ TryMount
  <2>1. /\ phase \in {"scan", "mount"} /\ phase' \in {"mount", "fhs", "scan", "panic"}
        /\ UNCHANGED <<machine, unit>> /\ \E ok \in BOOLEAN : Access(Head(queue), ok)
    BY <1>5 DEF ScanDrive, TryMount
  <2>2. Ph /\ phase' \notin {"xhci", "usb", "ide"} /\ phase \in Mounting
    BY SMT, <2>1 DEF Mounting, Late
  <2>3. Head(queue) \in DriveIds
    BY <2>2, HeadFacts DEF Left
  <2>4. Rest
    BY <2>1, <2>3, AccessOK
  <2> QED BY <1>0, <2>1, <2>2, <2>4
<1>6. CASE validate_fhs \/ storage_tests_run
  <2>1. PICK d \in DriveIds, ok \in BOOLEAN : CheckDone(d, ok)
    BY <1>6, CheckStep
  <2>2. Rest /\ machine' = machine /\ unit' = unit /\ phase' \in (Late \ {"user"}) \cup {"panic"}
    BY <2>1, AccessOK DEF CheckDone
  <2>3. Ph /\ phase' \notin {"xhci", "usb", "ide"}
    BY SMT, <2>2 DEF Late
  <2> QED BY <1>0, <2>2, <2>3
<1>7. CASE Loads
  <2>1. LoadFrame
    BY <1>7, LoadStep
  <2>2. Ph /\ phase' \notin {"xhci", "usb", "ide"} /\ phase \in Late
    BY SMT, <2>1 DEF LoadFrame, Late
  <2>3. root.drive \in DriveIds
    BY <2>2 DEF Left
  <2>4. Rest
    <3>1. CASE \E ok \in BOOLEAN : Access(root.drive, ok)
      BY <2>3, <3>1, AccessOK
    <3>2. CASE UNCHANGED <<bus, faults, failed>>
      BY <1>0, <3>2
    <3>3. CASE UNCHANGED bus /\ faults < MaxFaults /\ faults' = faults + 1 /\ failed' = TRUE
      <4>1. faults' \in 0 .. MaxFaults
        BY SMTT(30), <1>0, <3>3
      <4>2. bus' = bus /\ failed' \in BOOLEAN
        BY <3>3
      <4> QED BY <1>0, <4>1, <4>2
    <3> QED BY <2>1, <3>1, <3>2, <3>3 DEF LoadFrame
  <2> QED BY <1>0, <2>1, <2>2, <2>4 DEF LoadFrame
<1> QED BY <1>2, <1>3, <1>4, <1>5, <1>6, <1>7 DEF Works, kmain, Loads

\* ide_init and ahci_init find drives in the order of their numbers.
LEMMA FoundStep == ASSUME Hardware, Found, Left, Works PROVE Found'
<1>0. machine \in Machines /\ unit \in Int
  BY SMT DEF Hardware
<1>1. CASE UNCHANGED <<machine, unit, found>>
  <2>1. machine' = machine /\ unit' = unit /\ found' = found
    BY <1>1
  <2> QED BY <2>1 DEF Found, InOrder, Units
<1>2. CASE XhciProbe \/ UsbDone \/ ScanDrive \/ TryMount
  <2>1. UNCHANGED <<machine, unit, found>>
    BY <1>2 DEF XhciProbe, UsbDone, ScanDrive, TryMount
  <2> QED BY <1>1, <2>1
<1>3. CASE validate_fhs \/ storage_tests_run
  <2>1. UNCHANGED <<machine, unit, found>>
    BY <1>3, CheckStep DEF CheckDone
  <2> QED BY <1>1, <2>1
<1>4. CASE Loads
  <2>1. UNCHANGED <<machine, unit, found>>
    BY <1>4, LoadStep DEF LoadFrame
  <2> QED BY <1>1, <2>1
<1>5. CASE IdeAbsent
  <2>1. machine' = machine /\ unit' = unit + 1 /\ found' = found
    BY <1>5 DEF IdeAbsent, NextUnit
  <2>2. Len(found.ide) \in Nat /\ \A i \in 1 .. Len(found.ide) : found.ide[i][2] \in Nat
    <3>1. found.ide \in Seq({"ide"} \X Units)
      BY DEF Found
    <3> QED BY SMTT(20), <3>1 DEF Units
  <2>3. Len(found.ide) < unit + 1
    BY SMT, <1>0, <2>2 DEF Found
  <2>4. \A i \in 1 .. Len(found.ide) : found.ide[i][2] < unit + 1
    <3>1. \A i \in 1 .. Len(found.ide) : found.ide[i][2] < unit
      BY DEF Found
    <3>2. \A k \in Nat : k < unit => k < unit + 1
      BY SMT, <1>0
    <3> QED BY <2>2, <3>1, <3>2
  <2> QED BY <2>1, <2>3, <2>4 DEF Found, InOrder, Units
<1>6. CASE IdeFound
  <2> DEFINE t == Append(found.ide, <<"ide", unit>>)
  <2>1. /\ machine' = machine /\ unit' = unit + 1 /\ phase = "ide"
        /\ found' = [found EXCEPT !.ide = t]
    BY <1>6 DEF IdeFound, NextUnit
  <2>2. unit \in Units
    BY SMT, <2>1 DEF Hardware, Units
  <2>3. /\ t \in Seq({"ide"} \X Units) /\ InOrder(t) /\ Len(t) < unit + 1
        /\ \A i \in 1 .. Len(t) : t[i][2] < unit + 1
    BY <2>2, IdeMore DEF Found
  <2> HIDE DEF t
  <2>4. found' = [ide |-> t, ahci |-> found.ahci]
    <3>1. found = [ide |-> found.ide, ahci |-> found.ahci]
      BY DEF Found
    <3> QED BY SMTT(30), <2>1, <3>1
  <2>5. found'.ide = t /\ found'.ahci = found.ahci
    BY SMT, <2>4
  <2>6. /\ found.ahci \in Seq({"ahci"} \X DOMAIN machine.sata) /\ InOrder(found.ahci)
        /\ Len(found.ahci) <= AHCI_MAX_DEVICES
    BY DEF Found
  <2> QED BY <2>1, <2>3, <2>4, <2>5, <2>6 DEF Found, InOrder, Units
<1>7. CASE ahci_init
  <2>1. PICK s \in {SataDisks, <<>>} : found' = [found EXCEPT !.ahci = s] /\ UNCHANGED <<machine, unit>>
    BY <1>7 DEF ahci_init
  <2>2. s \in Seq({"ahci"} \X DOMAIN machine.sata) /\ InOrder(s) /\ Len(s) <= AHCI_MAX_DEVICES
    BY <1>0, SataFacts
  <2>3. found' = [ide |-> found.ide, ahci |-> s]
    <3>1. found = [ide |-> found.ide, ahci |-> found.ahci]
      BY DEF Found
    <3> QED BY SMT, <2>1, <3>1
  <2>4. found'.ide = found.ide /\ found'.ahci = s /\ machine' = machine /\ unit' = unit
    BY SMT, <2>1, <2>3
  <2>5. /\ found.ide \in Seq({"ide"} \X Units) /\ InOrder(found.ide) /\ Len(found.ide) < unit
        /\ \A i \in 1 .. Len(found.ide) : found.ide[i][2] < unit
    BY DEF Found
  <2> QED BY ZenonT(30), <2>2, <2>3, <2>4, <2>5 DEF Found, InOrder, Units
<1> QED BY <1>2, <1>3, <1>4, <1>5, <1>6, <1>7 DEF Works, kmain, Loads

----------------------------------------------------------------------------
(* What is left to mount.                                                  *)

\* The partitions of a drive's table that are not empty.
LEMMA ScanFacts == ASSUME NEW drive, IsDrive(drive)
  PROVE /\ partition_scan_mbr(drive) \in Seq(Parts(drive)) /\ drive.whole \in Parts(drive)
        /\ \A i \in 1 .. Len(partition_scan_mbr(drive)) : partition_scan_mbr(drive)[i].type # "empty"
<1> DEFINE S == Parts(drive)
           ps == drive.parts
           keep == {i \in DOMAIN ps : ps[i].type # "empty"}
           K == Kept(ps, keep)
<1>1. drive.whole \in S
  BY DEF Parts
<1>2. ps \in Seq(S)
  <2>1. ps \in Seq({ps[i] : i \in DOMAIN ps})
    BY DEF IsDrive, IsSequence
  <2>2. {ps[i] : i \in DOMAIN ps} \subseteq S
    BY DEF Parts
  <2> DEFINE R == {ps[i] : i \in DOMAIN ps}
  <2> HIDE DEF S, R
  <2> QED BY SMTT(30), <2>1, <2>2 DEF R
<1>3. keep \in SUBSET (1 .. Len(ps))
  <2>1. DOMAIN ps = 1 .. Len(ps)
    BY <1>2, Nonempty
  <2> QED BY <2>1
<1> HIDE DEF S, keep
<1>4. K \in Seq(S) /\ \E h : Picks(ps, keep, K, h)
  BY <1>2, <1>3, KeptFacts
<1>5. \A i \in 1 .. Len(K) : K[i].type # "empty"
  <2>1. PICK h : Picks(ps, keep, K, h)
    BY SMT, <1>4
  <2> SUFFICES ASSUME NEW i \in 1 .. Len(K) PROVE K[i].type # "empty"
    OBVIOUS
  <2>2. h[i] \in keep /\ K[i] = ps[h[i]]
    BY <2>1 DEF Picks
  <2> QED BY <2>2 DEF keep
<1>6. partition_scan_mbr(drive) = IF drive.sig THEN K ELSE <<>>
  BY DEF partition_scan_mbr, keep
<1> HIDE DEF K
<1>7. <<>> \in Seq(S) /\ 1 .. Len(<<>>) = {}
  BY SMT
<1> QED BY <1>1, <1>4, <1>5, <1>6, <1>7 DEF S

\* What is tried on a drive, whether or not sector 0 could be read.
LEMMA TodoFacts == ASSUME NEW drive, IsDrive(drive), NEW parts \in {partition_scan_mbr(drive), <<>>}
  PROVE /\ MountAttempts(parts, drive.whole) \in Seq([fs : FileSystems, part : Parts(drive)])
        /\ MountAttempts(parts, drive.whole) # <<>>
<1>1. parts \in Seq(Parts(drive)) /\ drive.whole \in Parts(drive)
  <2>1. <<>> \in Seq(Parts(drive))
    BY SMT
  <2> QED BY <2>1, ScanFacts
<1> QED BY <1>1, AttemptKeys

\* A step that mounts nothing.
LEMMA LeftFrame ==
  ASSUME Left, UNCHANGED <<machine, queue, todo, root>>,
         phase' \in Mounting => phase' = phase,
         phase' \in Early => phase \in Early \cup Mounting, phase' \in Late => phase \in Late,
         phase' \in {"test_ide", "test_ahci"} => Dual'
  PROVE Left'
<1>1. machine' = machine /\ queue' = queue /\ todo' = todo /\ root' = root
  OBVIOUS
<1>2. DriveIds' = DriveIds /\ \A d : Drive(d)' = Drive(d)
  BY <1>1, SameMachine
<1>3. phase' \in Mounting => queue' \in Seq(DriveIds') /\ queue' # <<>>
  BY <1>1, <1>2 DEF Left
<1>4. phase' = "mount" => todo' \in Seq([fs : FileSystems, part : Parts(Drive(Head(queue))')]) /\ todo' # <<>>
  <2> SUFFICES ASSUME phase' = "mount"
               PROVE todo' \in Seq([fs : FileSystems, part : Parts(Drive(Head(queue))')]) /\ todo' # <<>>
    OBVIOUS
  <2>1. phase = "mount"
    BY DEF Mounting
  <2>2. Drive(Head(queue))' = Drive(Head(queue))
    BY <1>1 DEF Drive
  <2>3. todo \in Seq([fs : FileSystems, part : Parts(Drive(Head(queue)))]) /\ todo # <<>>
    BY <2>1 DEF Left
  <2> QED BY <1>1, <2>2, <2>3
<1>5. phase' \in Early \cup Mounting => root' = <<>>
  BY <1>1 DEF Left
<1>6. phase' \in Late => root' # <<>> /\ root'.drive \in DriveIds'
  BY <1>1, <1>2 DEF Left
<1> QED BY <1>3, <1>4, <1>5, <1>6 DEF Left, Parts

\* The queues of the mounts have what their phase needs.
LEMMA LeftStep == ASSUME Hardware, Found, Left, Works PROVE Left'
<1>0. machine \in Machines
  BY DEF Hardware
<1>1. CASE XhciProbe \/ UsbDone \/ IdeAbsent \/ IdeFound
  <2>1. phase \in {"xhci", "usb", "ide"} /\ phase' \in {"usb", "ide", "ahci"} /\ UNCHANGED <<machine, queue, todo, root>>
    BY <1>1 DEF XhciProbe, UsbDone, IdeAbsent, IdeFound, NextUnit
  <2>2. phase \in Early /\ phase' \notin Mounting /\ phase' \notin Late
        /\ phase' \notin {"test_ide", "test_ahci"}
    BY SMT, <2>1 DEF Early, Mounting, Late
  <2> QED BY <2>1, <2>2, LeftFrame
<1>2. CASE validate_fhs \/ storage_tests_run
  <2>1. PICK d \in DriveIds, ok \in BOOLEAN : CheckDone(d, ok)
    BY <1>2, CheckStep
  <2>2. /\ phase \in Late /\ phase' \in (Late \ {"user"}) \cup {"panic"}
        /\ (phase' \in {"test_ide", "test_ahci"} => Dual) /\ UNCHANGED <<machine, queue, todo, root>> /\ found' = found
    BY <2>1 DEF CheckDone
  <2>3. phase' \notin Mounting /\ phase' \notin Early
    BY SMT, <2>2 DEF Early, Mounting, Late
  <2>4. phase' \in {"test_ide", "test_ahci"} => Dual'
    BY <2>2 DEF Dual
  <2> QED BY <2>2, <2>3, <2>4, LeftFrame
<1>3. CASE Loads
  <2>1. phase = "init" /\ phase' \in {"init", "user", "panic"} /\ UNCHANGED <<machine, queue, todo, root>>
    BY <1>3, LoadStep DEF LoadFrame
  <2>2. phase \in Late /\ phase' \notin Mounting /\ phase' \notin Early
        /\ phase' \notin {"test_ide", "test_ahci"}
    BY SMT, <2>1 DEF Early, Mounting, Late
  <2> QED BY <2>1, <2>2, LeftFrame
<1>4. CASE ahci_init
  <2>1. PICK s \in {SataDisks, <<>>} :
          /\ queue' = s \o found.ide
          /\ phase = "ahci" /\ phase' = (IF queue' = <<>> THEN "panic" ELSE "scan") /\ UNCHANGED <<machine, root>>
    BY <1>4 DEF ahci_init, MountOrder
  <2>2. s \in Seq(DriveIds) /\ found.ide \in Seq(DriveIds)
    <3>1. s \in Seq({"ahci"} \X DOMAIN machine.sata) /\ found.ide \in Seq({"ide"} \X Units)
      BY <1>0, SataFacts DEF Found
    <3>2. {"ahci"} \X DOMAIN machine.sata \subseteq DriveIds /\ {"ide"} \X Units \subseteq DriveIds
      BY DEF DriveIds
    <3> DEFINE A == {"ahci"} \X DOMAIN machine.sata
               B == {"ide"} \X Units
    <3> HIDE DEF A, B
    <3>3. s \in Seq(A) /\ found.ide \in Seq(B) /\ A \subseteq DriveIds /\ B \subseteq DriveIds
      BY <3>1, <3>2 DEF A, B
    <3> QED BY SMT, <3>3
  <2>3. queue' \in Seq(DriveIds)
    BY SMTT(30), <2>1, <2>2
  <2>4. machine' = machine /\ root' = root /\ phase \in Early /\ phase' \in {"panic", "scan"}
        /\ (phase' = "scan" => queue' # <<>>)
    BY SMT, <2>1 DEF Early
  <2>5. DriveIds' = DriveIds
    BY <2>4, SameMachine
  <2>6. root' = <<>>
    BY <2>4 DEF Left
  <2>7. phase' \notin Late /\ phase' \notin {"test_ide", "test_ahci"} /\ phase' # "mount"
        /\ (phase' \in Mounting => queue' # <<>>)
    BY SMT, <2>4 DEF Late, Mounting
  <2> QED BY <2>3, <2>5, <2>6, <2>7 DEF Left
<1>5. CASE ScanDrive
  <2> DEFINE d == Head(queue)
             parts(ok) == IF ok THEN partition_scan_mbr(Drive(d)) ELSE <<>>
  <2>1. PICK ok \in BOOLEAN :
          /\ todo' = MountAttempts(parts(ok), Drive(d).whole)
          /\ phase = "scan" /\ phase' = "mount" /\ UNCHANGED <<machine, queue, root>>
    BY <1>5 DEF ScanDrive
  <2>2. phase \in Mounting /\ phase' \notin Late /\ phase' \notin {"test_ide", "test_ahci"}
    BY SMT, <2>1 DEF Mounting, Late
  <2>3. queue \in Seq(DriveIds) /\ queue # <<>> /\ root = <<>> /\ d \in DriveIds
    BY <2>2, HeadFacts DEF Left
  <2>4. IsDrive(Drive(d)) /\ parts(ok) \in {partition_scan_mbr(Drive(d)), <<>>}
    BY <1>0, <2>3, MachineFacts
  <2> HIDE DEF parts
  <2>5. todo' \in Seq([fs : FileSystems, part : Parts(Drive(d))]) /\ todo' # <<>>
    BY <2>1, <2>4, TodoFacts
  <2>6. machine' = machine /\ queue' = queue /\ root' = root
    BY <2>1
  <2>7. DriveIds' = DriveIds /\ Drive(d)' = Drive(d)
    BY <2>6 DEF DriveIds, Drive, Units
  <2> QED BY <2>2, <2>3, <2>5, <2>6, <2>7 DEF Left, Parts
<1>6. CASE TryMount
  <2> DEFINE d == Head(queue)
  <2>1. phase = "mount" /\ machine' = machine
    BY <1>6 DEF TryMount
  <2>2. phase \in Mounting
    BY SMT, <2>1 DEF Mounting
  <2>3. queue \in Seq(DriveIds) /\ queue # <<>> /\ root = <<>> /\ d \in DriveIds /\ Tail(queue) \in Seq(DriveIds)
    BY <2>2, HeadFacts DEF Left
  <2>4. todo \in Seq([fs : FileSystems, part : Parts(Drive(d))]) /\ todo # <<>>
    BY <2>1 DEF Left
  <2>5. Tail(todo) \in Seq([fs : FileSystems, part : Parts(Drive(d))])
    BY <2>4, HeadFacts
  <2>6. DriveIds' = DriveIds /\ \A e : Drive(e)' = Drive(e)
    BY <2>1, SameMachine
  <2>7. CASE /\ root' = [drive |-> d, fs |-> Head(todo).fs, part |-> Head(todo).part]
             /\ phase' = "fhs"
    <3>1. root' # <<>> /\ root'.drive = d
      BY SMTT(30), <2>7
    <3>2. phase' \notin Mounting /\ phase' \notin Early /\ phase' \notin {"test_ide", "test_ahci"} /\ phase' # "mount"
      BY SMT, <2>7 DEF Mounting, Early
    <3> QED BY <2>3, <2>6, <3>1, <3>2 DEF Left
  <2>8. CASE /\ todo' = Tail(todo)
             /\ queue' = IF todo' = <<>> THEN Tail(queue) ELSE queue
             /\ phase' = IF todo' # <<>> THEN "mount" ELSE IF queue' # <<>> THEN "scan" ELSE "panic"
             /\ UNCHANGED root
    <3>1. phase' \in {"mount", "scan", "panic"} /\ root' = <<>> /\ queue' \in Seq(DriveIds)
      BY <2>3, <2>8
    <3>2. phase' \notin Late /\ phase' \notin {"test_ide", "test_ahci"}
          /\ (phase' \in Mounting => phase' \in {"mount", "scan"})
      BY SMT, <3>1 DEF Mounting, Late
    <3>3. phase' = "mount" => todo' # <<>> /\ queue' = queue
      BY SMT, <2>8
    <3>4. phase' = "scan" => queue' # <<>>
      BY SMT, <2>8
    <3>5. phase' = "mount" => todo' \in Seq([fs : FileSystems, part : Parts(Drive(Head(queue))')]) /\ todo' # <<>>
      <4> SUFFICES ASSUME phase' = "mount" PROVE todo' \in Seq([fs : FileSystems, part : Parts(Drive(Head(queue))')]) /\ todo' # <<>>
        OBVIOUS
      <4>1. Drive(Head(queue))' = Drive(d)
        BY <2>1, <3>3 DEF Drive
      <4> QED BY <2>5, <2>8, <3>3, <4>1
    <3> QED BY <2>3, <2>6, <3>1, <3>2, <3>3, <3>4, <3>5 DEF Left, Parts
  <2> QED BY <1>6, <2>7, <2>8 DEF TryMount
<1> QED BY <1>1, <1>2, <1>3, <1>4, <1>5, <1>6 DEF Works, kmain, Loads

----------------------------------------------------------------------------
(* The loader.                                                             *)

\* The steps that do not load take place before init is looked for.
LEMMA OtherStep == ASSUME Found, Left, Works, ~Loads
  PROVE /\ phase \notin {"init", "user", "panic"} /\ phase' # "user"
        /\ UNCHANGED <<inits, load, buffers>>
<1>1. CASE XhciProbe \/ UsbDone \/ IdeAbsent \/ IdeFound
  <2>1. phase \in {"xhci", "usb", "ide"} /\ phase' \in {"usb", "ide", "ahci"} /\ UNCHANGED <<inits, load, buffers>>
    BY <1>1 DEF XhciProbe, UsbDone, IdeAbsent, IdeFound, NextUnit
  <2> QED BY SMT, <2>1
<1>2. CASE ahci_init \/ ScanDrive \/ TryMount
  <2>1. phase \in {"ahci", "scan", "mount"} /\ phase' \in {"panic", "scan", "mount", "fhs"}
        /\ UNCHANGED <<inits, load, buffers>>
    BY <1>2 DEF ahci_init, ScanDrive, TryMount
  <2> QED BY SMT, <2>1
<1>3. CASE validate_fhs \/ storage_tests_run
  <2>1. PICK d \in DriveIds, ok \in BOOLEAN : CheckDone(d, ok)
    BY <1>3, CheckStep
  <2>2. phase \in Late \ {"init", "user"} /\ phase' \in (Late \ {"user"}) \cup {"panic"}
        /\ UNCHANGED <<inits, load, buffers>>
    BY <2>1 DEF CheckDone
  <2> QED BY SMT, <2>2 DEF Late
<1> QED BY <1>1, <1>2, <1>3 DEF Works, kmain, Loads

\* The three paths.
LEMMA InitPathsFacts == InitPaths \in Seq({"/sbin/init", "/INIT"}) /\ Len(InitPaths) = 3
BY SMT DEF InitPaths

\* The end of a sequence without its first element is an end.
LEMMA SuffixTail == ASSUME NEW S, NEW s \in Seq(S), NEW q \in Seq(S), Suffix(q, s), q # <<>>
  PROVE /\ Suffix(Tail(q), s) /\ Tail(q) \in Seq(S) /\ Len(Tail(q)) = Len(q) - 1
        /\ Head(q) = s[Len(s) - Len(Tail(q))] /\ Len(s) - Len(Tail(q)) \in 1 .. Len(s)
        /\ Len(q) \in 1 .. Len(s) /\ Len(s) \in Nat
<1> DEFINE t == Tail(q)   n == Len(s)   k == Len(q)
<1>1. t \in Seq(S) /\ Len(t) = k - 1 /\ Head(q) = q[1] /\ \A i \in 1 .. k - 1 : t[i] = q[i + 1]
  BY SMT
<1>2. n \in Nat /\ k \in Nat /\ k # 0 /\ k <= n
  BY SMT DEF Suffix
<1>3. \A i \in 1 .. k : q[i] = s[n - k + i]
  BY DEF Suffix
<1> HIDE DEF t, n, k
<1>4. \A i \in 1 .. k - 1 : t[i] = s[n - (k - 1) + i]
  <2> SUFFICES ASSUME NEW i \in 1 .. k - 1 PROVE t[i] = s[n - (k - 1) + i]
    OBVIOUS
  <2>1. i + 1 \in 1 .. k /\ n - k + (i + 1) = n - (k - 1) + i
    BY SMT, <1>2
  <2>2. t[i] = q[i + 1] /\ q[i + 1] = s[n - k + (i + 1)]
    BY <1>1, <1>3, <2>1
  <2> QED BY <2>1, <2>2
<1>5. Suffix(t, s)
  <2>1. k - 1 <= n
    BY SMTT(30), <1>2
  <2> QED BY <1>1, <1>4, <2>1 DEF Suffix, n
<1>6. 1 \in 1 .. k /\ n - k + 1 = n - (k - 1) /\ n - (k - 1) \in 1 .. n
  BY SMT, <1>2
<1>7. Head(q) = s[n - (k - 1)]
  BY <1>1, <1>3, <1>6
<1>8. k \in 1 .. n
  BY SMT, <1>2
<1> QED BY <1>1, <1>2, <1>5, <1>6, <1>7, <1>8 DEF t, n, k

\* The files are those of the root volume.
LEMMA SameRoot == ASSUME root' = root PROVE Files' = Files /\ Workable' = Workable
BY DEF Files, Workable, LeadInto

\* What the loader has in hand.
LEMMA LoaderFacts == ASSUME Loader
  PROVE /\ Len(inits) \in 0 .. 3 /\ (inits = <<>> <=> Len(inits) = 0)
        /\ inits # <<>> => /\ Suffix(Tail(inits), InitPaths) /\ Tail(inits) \in Seq({"/sbin/init", "/INIT"})
                           /\ Len(Tail(inits)) = Len(inits) - 1
                           /\ Head(inits) = InitPaths[3 - Len(Tail(inits))]
<1>1. inits \in Seq({"/sbin/init", "/INIT"}) /\ Suffix(inits, InitPaths)
  BY DEF Loader
<1>2. Len(inits) <= 3
  BY <1>1, InitPathsFacts DEF Suffix
<1>3. Len(inits) \in Nat /\ (inits = <<>> <=> Len(inits) = 0)
  BY SMT, <1>1
<1>4. inits # <<>> => /\ Suffix(Tail(inits), InitPaths) /\ Tail(inits) \in Seq({"/sbin/init", "/INIT"})
                      /\ Len(Tail(inits)) = Len(inits) - 1
                      /\ Head(inits) = InitPaths[Len(InitPaths) - Len(Tail(inits))]
  BY <1>1, InitPathsFacts, SuffixTail
<1>n. \A n \in Nat : n <= 3 => n \in 0 .. 3
  BY SMT
<1>5. Len(inits) \in 0 .. 3
  BY <1>2, <1>3, <1>n
<1> QED BY <1>3, <1>4, <1>5, InitPathsFacts

\* One buffer is held from its allocation to the end of the parse, and none elsewhere.
LEMMA LoaderStep == ASSUME Found, Left, Loader, Works PROVE Loader'
<1> DEFINE R(l) == l = [pc |-> l.pc, path |-> l.path, argv1 |-> l.argv1, began |-> l.began]
           Pcs == {"idle", "stat", "alloc", "read", "parse"}
<1>0. /\ R(load) /\ load.pc \in Pcs
      /\ buffers = (IF phase = "init" /\ load.pc \in {"read", "parse"} THEN 1 ELSE 0)
      /\ (load.pc # "idle" => phase \in {"init", "user"})
      /\ inits \in Seq({"/sbin/init", "/INIT"}) /\ Suffix(inits, InitPaths)
      /\ (phase \notin {"init", "user", "panic"} => Len(inits) = 3)
  BY DEF Loader
<1>i. InitPaths' = InitPaths
  BY DEF InitPaths
<1>s. \A x, y : Suffix(x, y)' = Suffix(x, y)
  BY DEF Suffix
<1>1. CASE ~Loads
  <2>1. phase \notin {"init", "user", "panic"} /\ phase' # "user" /\ inits' = inits /\ load' = load /\ buffers' = buffers
    BY <1>1, OtherStep
  <2>2. load.pc = "idle" /\ Len(inits) = 3
    <3>1. phase \notin {"init", "user"}
      BY <2>1
    <3> QED BY <1>0, <2>1, <3>1
  <2>3. "idle" \notin {"read", "parse"}
    BY SMT
  <2>4. buffers' = IF phase' = "init" /\ load'.pc \in {"read", "parse"} THEN 1 ELSE 0
    BY <1>0, <2>1, <2>2, <2>3
  <2>5. Suffix(inits', InitPaths)
    BY <1>0, <2>1
  <2> HIDE DEF Pcs
  <2> QED BY <1>0, <2>1, <2>2, <2>4, <2>5 DEF Loader, Suffix, InitPaths, Pcs
<1>2. CASE NextInit
  <2>1. phase = "init" /\ load.pc = "idle" /\ buffers' = buffers
    BY <1>2 DEF NextInit
  <2>2. buffers = 0
    BY SMTT(30), <1>0, <2>1
  <2>3. CASE inits = <<>>
    <3>1. phase' = "panic" /\ inits' = inits /\ load' = load
      BY <1>2, <2>3 DEF NextInit
    <3>2. Suffix(inits', InitPaths)
      BY <1>0, <3>1
    <3>3. "panic" # "init" /\ "panic" # "user"
      BY SMT
    <3> HIDE DEF Pcs
    <3> QED BY <1>0, <2>1, <2>2, <2>3, <3>1, <3>2, <3>3 DEF Loader, Suffix, InitPaths, Pcs
  <2>4. CASE inits # <<>>
    <3>1. /\ phase' = phase /\ inits' = Tail(inits)
          /\ load' = [pc |-> "stat", path |-> Head(inits), argv1 |-> "", began |-> Head(inits)]
      BY <1>2, <2>4 DEF NextInit
    <3>2. R(load') /\ load'.pc = "stat" /\ "stat" \notin {"read", "parse"} /\ "stat" # "idle" /\ "stat" \in Pcs
      BY <3>1
    <3>3. Suffix(inits', InitPaths) /\ inits' \in Seq({"/sbin/init", "/INIT"})
      BY <2>4, <3>1, LoaderFacts
    <3>4. "init" # "panic" /\ "init" # "user"
      BY SMT
    <3> HIDE DEF Pcs
    <3> QED BY <2>1, <2>2, <3>1, <3>2, <3>3, <3>4 DEF Loader, Suffix, InitPaths, Pcs
  <2> QED BY SMT, <2>3, <2>4
<1>3. CASE ElfStat \/ ElfAlloc \/ ElfRead \/ ElfParse
  <2>1. phase = "init" /\ inits' = inits /\ phase' \in {"init", "user"} /\ load.pc # "idle"
    BY SMTT(30), <1>3 DEF ElfStat, ElfAlloc, ElfRead, ElfParse
  <2>2. \/ phase' = "init" /\ load' = Idle /\ buffers' = 0
        \/ phase' = "init" /\ load' = [load EXCEPT !.pc = "alloc"] /\ buffers' = 0
        \/ phase' = "init" /\ load' = [load EXCEPT !.pc = "read"] /\ buffers' = 1
        \/ phase' = "init" /\ load' = [load EXCEPT !.pc = "parse"] /\ buffers' = 1
        \/ phase' = "init" /\ load' = Interpreter /\ buffers' = 0
        \/ phase' = "user" /\ load' = load /\ buffers' = 0
    <3>1. CASE ElfStat
      BY SMTT(30), <1>0, <3>1 DEF ElfStat, GiveUp
    <3>2. CASE ElfAlloc
      BY SMTT(30), <1>0, <3>2 DEF ElfAlloc, GiveUp
    <3>3. CASE ElfRead
      BY SMTT(30), <1>0, <3>3 DEF ElfRead, GiveUp
    <3>4. CASE ElfParse
      BY SMTT(30), <1>0, <3>4 DEF ElfParse, GiveUp
    <3> QED BY SMTT(30), <1>3, <3>1, <3>2, <3>3, <3>4
  <2>3. R(load') /\ load'.pc \in Pcs /\ (phase' = "user" => load'.pc # "idle")
        /\ buffers' = IF phase' = "init" /\ load'.pc \in {"read", "parse"} THEN 1 ELSE 0
    <3>1. CASE load' = Idle
      BY <2>1, <2>2, <3>1 DEF Idle
    <3>2. CASE load' = Interpreter /\ phase' = "init" /\ buffers' = 0
      <4>1. load' = [pc |-> "stat", path |-> Files[load.path].interp, argv1 |-> load.path, began |-> load.began]
        <5> DEFINE f == Files[load.path].interp
        <5>1. load' = [load EXCEPT !.pc = "stat", !.path = f, !.argv1 = load.path]
          BY <3>2 DEF Interpreter
        <5> HIDE DEF f
        <5>2. load' = [pc |-> "stat", path |-> f, argv1 |-> load.path, began |-> load.began]
          BY <1>0, <5>1
        <5> QED BY <5>2 DEF f
      <4> DEFINE f == Files[load.path].interp
      <4> HIDE DEF f
      <4>2. load' = [pc |-> "stat", path |-> f, argv1 |-> load.path, began |-> load.began]
        BY <4>1 DEF f
      <4> QED BY SMTT(30), <3>2, <4>2
    <3>3. CASE \E c \in {"alloc", "read", "parse"} :
                 /\ load' = [load EXCEPT !.pc = c] /\ phase' = "init"
                 /\ buffers' = IF c \in {"read", "parse"} THEN 1 ELSE 0
      <4>1. PICK c \in {"alloc", "read", "parse"} :
                 /\ load' = [load EXCEPT !.pc = c] /\ phase' = "init"
                 /\ buffers' = IF c \in {"read", "parse"} THEN 1 ELSE 0
        BY <3>3
      <4>2. load' = [pc |-> c, path |-> load.path, argv1 |-> load.argv1, began |-> load.began]
        BY SMTT(30), <1>0, <4>1
      <4> QED BY <4>1, <4>2
    <3>4. CASE phase' = "user" /\ load' = load /\ buffers' = 0
      BY SMTT(30), <1>0, <2>1, <3>4
    <3>5. ~(load' = Idle) /\ ~(load' = Interpreter /\ phase' = "init" /\ buffers' = 0)
          /\ ~(phase' = "user" /\ load' = load /\ buffers' = 0)
          => \E c \in {"alloc", "read", "parse"} :
                 /\ load' = [load EXCEPT !.pc = c] /\ phase' = "init"
                 /\ buffers' = IF c \in {"read", "parse"} THEN 1 ELSE 0
      BY SMT, <2>2
    <3> QED BY <3>1, <3>2, <3>3, <3>4, <3>5
  <2>4. Suffix(inits', InitPaths) /\ inits' \in Seq({"/sbin/init", "/INIT"})
    BY <1>0, <2>1
  <2>5. phase' # "panic"
    BY SMTT(30), <2>1
  <2> HIDE DEF Pcs
  <2> QED BY <2>1, <2>3, <2>4, <2>5 DEF Loader, Suffix, InitPaths, Pcs
<1> QED BY <1>1, <1>2, <1>3 DEF Loads

\* What elf_load_and_run makes of the path in hand: it is given up, it is kept, its
\* interpreter takes its place, or it is started.
Dropped == load' = Idle /\ phase' = phase /\ (~failed' => ~failed /\ load.path \notin Workable)
Read(c) == /\ c \in {"alloc", "read", "parse"} /\ load' = [load EXCEPT !.pc = c] /\ phase' = phase
           /\ load.path \in DOMAIN Files /\ (~failed' => ~failed)
Replaced == /\ load' = Interpreter /\ phase' = phase /\ failed' = failed
            /\ load.path \in DOMAIN Files /\ Files[load.path].kind = "interp"
Started == /\ load' = load /\ phase' = "user" /\ failed' = failed
           /\ load.path \in DOMAIN Files /\ Files[load.path].kind = "elf"

\* The steps of elf_load_and_run are of these four kinds.
LEMMA ElfMoves == ASSUME Loading, ElfStat \/ ElfAlloc \/ ElfRead \/ ElfParse
  PROVE /\ UNCHANGED <<inits, root>> /\ load.pc # "idle" /\ phase = "init"
        /\ Dropped \/ (\E c : Read(c)) \/ Replaced \/ Started
<1>l. load.pc # "idle" /\ load.pc # "stat" => load.path \in DOMAIN Files
  BY DEF Loading
<1>a. \A d, ok : Access(d, ok) => (~failed' => ~failed /\ ok)
  BY DEF Access
<1>c. /\ "alloc" \in {"alloc", "read", "parse"} /\ "read" \in {"alloc", "read", "parse"}
      /\ "parse" \in {"alloc", "read", "parse"} /\ "stat" # "idle" /\ "read" # "idle" /\ "read" # "stat"
      /\ "alloc" # "idle" /\ "alloc" # "stat" /\ "parse" # "idle" /\ "parse" # "stat"
      /\ {"dir", "empty", "huge"} \cap {"elf", "interp"} = {} /\ "elf" # "interp"
  BY SMT
<1>1. CASE ElfStat
  <2>1. PICK ok \in BOOLEAN :
          /\ Access(root.drive, ok)
          /\ IF ok /\ load.path \in DOMAIN Files /\ Files[load.path].kind \notin {"dir", "empty", "huge"}
             THEN load' = [load EXCEPT !.pc = "alloc"]
             ELSE load' = Idle
    BY <1>1 DEF ElfStat, GiveUp
  <2>2. UNCHANGED <<inits, root, phase>> /\ load.pc # "idle" /\ phase = "init"
    BY <1>1, <1>c DEF ElfStat
  <2>3. ~failed' => ~failed /\ ok
    BY <1>a, <2>1
  <2>4. CASE ok /\ load.path \in DOMAIN Files /\ Files[load.path].kind \notin {"dir", "empty", "huge"}
    <3>1. Read("alloc")
      BY <1>c, <2>1, <2>2, <2>3, <2>4 DEF Read
    <3> QED BY <2>2, <3>1
  <2>5. CASE ~(ok /\ load.path \in DOMAIN Files /\ Files[load.path].kind \notin {"dir", "empty", "huge"})
    <3>1. ~failed' => load.path \notin Workable
      <4>1. ok => load.path \notin DOMAIN Files
                  \/ (load.path \in DOMAIN Files /\ Files[load.path].kind \notin {"elf", "interp"})
        BY <1>c, <2>5
      <4> QED BY <2>3, <4>1, WorkableFile
    <3>2. Dropped
      BY <2>1, <2>2, <2>3, <2>5, <3>1 DEF Dropped
    <3> QED BY <2>2, <3>2
  <2> QED BY <2>4, <2>5
<1>2. CASE ElfAlloc
  <2>1. UNCHANGED <<inits, root, phase>> /\ load.pc # "idle" /\ load.pc # "stat" /\ phase = "init"
    BY <1>2, <1>c DEF ElfAlloc
  <2>2. \/ load' = [load EXCEPT !.pc = "read"] /\ failed' = failed
        \/ load' = Idle /\ failed'
    BY <1>2 DEF ElfAlloc, GiveUp
  <2>3. Read("read") \/ Dropped
    BY <1>l, <1>c, <2>1, <2>2 DEF Read, Dropped
  <2> QED BY <2>1, <2>3
<1>3. CASE ElfRead
  <2>1. UNCHANGED <<inits, root, phase>> /\ load.pc # "idle" /\ load.pc # "stat" /\ phase = "init"
    BY <1>3, <1>c DEF ElfRead
  <2>2. PICK ok \in BOOLEAN : /\ Access(root.drive, ok)
                              /\ ok => load' = [load EXCEPT !.pc = "parse"]
                              /\ ~ok => load' = Idle
    BY <1>3 DEF ElfRead, GiveUp
  <2>3. ~failed' => ~failed /\ ok
    BY <1>a, <2>2
  <2>4. Read("parse") \/ Dropped
    BY <1>l, <1>c, <2>1, <2>2, <2>3 DEF Read, Dropped
  <2> QED BY <2>1, <2>4
<1>4. CASE ElfParse
  <2>1. UNCHANGED <<inits, root, failed>> /\ load.pc # "idle" /\ load.pc # "stat" /\ phase = "init"
    BY <1>4, <1>c DEF ElfParse
  <2>2. load.path \in DOMAIN Files
    BY <1>l, <2>1
  <2>3. CASE Files[load.path].kind = "interp"
    <3>1. load' = Interpreter /\ phase' = phase
      BY SMTT(30), <1>4, <2>3 DEF ElfParse
    <3> QED BY <2>1, <2>2, <2>3, <3>1 DEF Replaced
  <2>4. CASE Files[load.path].kind = "elf"
    <3>1. load' = load /\ phase' = "user"
      BY SMTT(30), <1>4, <2>4 DEF ElfParse
    <3> QED BY <2>1, <2>2, <2>4, <3>1 DEF Started
  <2>5. CASE Files[load.path].kind # "interp" /\ Files[load.path].kind # "elf"
    <3>1. load' = Idle /\ phase' = phase
      BY SMTT(30), <1>4, <2>5 DEF ElfParse, GiveUp
    <3>2. Files[load.path].kind \notin {"elf", "interp"}
      BY <2>5
    <3>3. load.path \notin Workable
      BY <2>2, <3>2, WorkableFile
    <3> QED BY <2>1, <3>1, <3>3 DEF Dropped
  <2> QED BY <2>3, <2>4, <2>5
<1> QED BY <1>1, <1>2, <1>3, <1>4

\* The fields after a step.
LEMMA LoadFields == ASSUME Loader
  PROVE /\ \A c : Read(c) => /\ load'.pc = c /\ load'.path = load.path /\ load'.argv1 = load.argv1
                             /\ load'.began = load.began /\ c \notin {"idle", "stat"}
        /\ Replaced => /\ load'.pc = "stat" /\ load'.path = Files[load.path].interp
                       /\ load'.argv1 = load.path /\ load'.began = load.began
        /\ Dropped => load'.pc = "idle"
<1>1. load = [pc |-> load.pc, path |-> load.path, argv1 |-> load.argv1, began |-> load.began]
  BY DEF Loader
<1>2. ASSUME NEW c, Read(c)
      PROVE /\ load'.pc = c /\ load'.path = load.path /\ load'.argv1 = load.argv1
            /\ load'.began = load.began /\ c \notin {"idle", "stat"}
  <2>1. c \in {"alloc", "read", "parse"} /\ load' = [load EXCEPT !.pc = c]
    BY <1>2 DEF Read
  <2> QED BY SMTT(30), <1>1, <2>1
<1>3. ASSUME Replaced
      PROVE /\ load'.pc = "stat" /\ load'.path = Files[load.path].interp
            /\ load'.argv1 = load.path /\ load'.began = load.began
  <2> DEFINE f == Files[load.path].interp
  <2>1. load' = [load EXCEPT !.pc = "stat", !.path = f, !.argv1 = load.path]
    BY <1>3 DEF Replaced, Interpreter
  <2> HIDE DEF f
  <2>2. load'.pc = "stat" /\ load'.path = f /\ load'.argv1 = load.path /\ load'.began = load.began
    BY SMT, <1>1, <2>1
  <2> QED BY <2>2 DEF f
<1>4. Dropped => load'.pc = "idle"
  <2>1. Dropped => load' = [pc |-> "idle", path |-> "", argv1 |-> "", began |-> ""]
    BY DEF Dropped, Idle
  <2>2. [pc |-> "idle", path |-> "", argv1 |-> "", began |-> ""].pc = "idle"
    BY SMT
  <2> QED BY <2>1, <2>2
<1> QED BY <1>2, <1>3, <1>4

\* The next path of kmain.
LEMMA NextPath == ASSUME Loader, NextInit, inits # <<>>
  PROVE /\ load'.pc = "stat" /\ load'.path = Head(inits) /\ load'.argv1 = "" /\ load'.began = Head(inits)
        /\ phase' = "init" /\ load.pc = "idle" /\ UNCHANGED <<root, failed>>
        /\ Len(inits') = Len(inits) - 1 /\ Len(inits) \in 1 .. 3
        /\ Head(inits) = InitPaths[3 - Len(inits')]
<1>1. /\ load' = [pc |-> "stat", path |-> Head(inits), argv1 |-> "", began |-> Head(inits)]
      /\ inits' = Tail(inits) /\ phase = "init" /\ phase' = phase /\ load.pc = "idle" /\ UNCHANGED <<root, failed>>
  BY DEF NextInit
<1>2. /\ Len(inits) \in 0 .. 3 /\ Len(inits) # 0
      /\ Len(Tail(inits)) = Len(inits) - 1
      /\ Head(inits) = InitPaths[3 - Len(Tail(inits))]
  BY LoaderFacts
<1>3. \A n \in 0 .. 3 : n # 0 => n \in 1 .. 3
  BY SMT
<1>4. load'.pc = "stat" /\ load'.path = Head(inits) /\ load'.argv1 = "" /\ load'.began = Head(inits)
  BY <1>1
<1> QED BY <1>1, <1>2, <1>3, <1>4

\* An interpreter has the file that names it as its argument, all along the chain.
LEMMA LoadingStep == ASSUME Found, Left, Loader, Loading, Works PROVE Loading'
<1>i. InitPaths' = InitPaths
  BY DEF InitPaths
<1>1. CASE ~Loads
  <2>1. phase \notin {"init", "user", "panic"} /\ load' = load
    BY <1>1, OtherStep
  <2>2. load.pc = "idle"
    BY <2>1 DEF Loader
  <2> QED BY <2>1, <2>2 DEF Loading
<1>2. CASE NextInit
  <2>1. CASE inits = <<>>
    <3>1. load' = load /\ load.pc = "idle"
      BY <1>2, <2>1 DEF NextInit
    <3> QED BY <3>1 DEF Loading
  <2>2. CASE inits # <<>>
    <3>1. /\ load'.pc = "stat" /\ load'.path = Head(inits) /\ load'.argv1 = "" /\ load'.began = Head(inits)
          /\ phase' = "init" /\ Len(inits') = Len(inits) - 1 /\ Len(inits) \in 1 .. 3
          /\ Head(inits) = InitPaths[3 - Len(inits')]
      BY <1>2, <2>2, NextPath
    <3>0. \A n \in 1 .. 3 : n - 1 < 3
      BY SMT
    <3>2. Len(inits') < 3
      BY <3>0, <3>1
    <3>3. "init" # "user"
      BY SMT
    <3> QED BY <1>i, <3>1, <3>2, <3>3 DEF Loading
  <2> QED BY <2>1, <2>2
<1>3. CASE ElfStat \/ ElfAlloc \/ ElfRead \/ ElfParse
  <2>1. UNCHANGED <<inits, root>> /\ load.pc # "idle" /\ phase = "init"
        /\ (Dropped \/ (\E c : Read(c)) \/ Replaced \/ Started)
    BY <1>3, ElfMoves
  <2>2. Files' = Files
    BY <2>1, SameRoot
  <2>3. /\ Len(inits) < 3 /\ load.began = InitPaths[3 - Len(inits)]
        /\ \/ load.path = load.began /\ load.argv1 = ""
           \/ /\ Files[load.began].kind = "interp"
              /\ load.argv1 \in DOMAIN Files /\ Files[load.argv1].interp = load.path
    BY <2>1 DEF Loading
  <2>4. "init" # "user" /\ "user" # "init"
    BY SMT
  <2>5. CASE Dropped
    <3>1. load'.pc = "idle"
      BY <2>5, LoadFields
    <3> QED BY <3>1 DEF Loading
  <2>6. ASSUME NEW c, Read(c) PROVE Loading'
    <3>1. /\ load'.pc = c /\ load'.path = load.path /\ load'.argv1 = load.argv1
          /\ load'.began = load.began /\ load.path \in DOMAIN Files /\ phase' = phase
      BY <2>6, LoadFields DEF Read
    <3> QED BY <1>i, <2>1, <2>2, <2>3, <2>4, <3>1 DEF Loading
  <2>7. CASE Replaced
    <3>1. /\ load'.pc = "stat" /\ load'.path = Files[load.path].interp
          /\ load'.argv1 = load.path /\ load'.began = load.began
          /\ load.path \in DOMAIN Files /\ phase' = phase /\ Files[load.path].kind = "interp"
      BY <2>7, LoadFields DEF Replaced
    <3>2. Files[load.began].kind = "interp"
      BY <2>3, <3>1
    <3> QED BY <1>i, <2>1, <2>2, <2>3, <2>4, <3>1, <3>2 DEF Loading
  <2>8. CASE Started
    <3>1. load' = load /\ phase' = "user" /\ load.path \in DOMAIN Files /\ Files[load.path].kind = "elf"
      BY <2>8 DEF Started
    <3> QED BY <1>i, <2>1, <2>2, <2>3, <3>1 DEF Loading
  <2> QED BY <2>1, <2>5, <2>6, <2>7, <2>8
<1> QED BY <1>1, <1>2, <1>3 DEF Loads

\* The paths given up before the one in hand.
Tried(n, idle) == \A j \in 1 .. 3 - n : idle \/ j # 3 - n => InitPaths[j] \notin Workable

\* How the paths given up grow.
LEMMA TriedMore ==
  ASSUME NEW n \in 0 .. 3
  PROVE /\ Tried(n, FALSE) /\ (n < 3 => InitPaths[3 - n] \notin Workable) => Tried(n, TRUE)
        /\ Tried(n, TRUE) => Tried(n, FALSE)
        /\ n # 0 /\ Tried(n, TRUE) => Tried(n - 1, FALSE)
        /\ Tried(3, TRUE)
<1>1. Tried(n, FALSE) /\ (n < 3 => InitPaths[3 - n] \notin Workable) => Tried(n, TRUE)
  <2> SUFFICES ASSUME Tried(n, FALSE), n < 3 => InitPaths[3 - n] \notin Workable, NEW j \in 1 .. 3 - n
               PROVE InitPaths[j] \notin Workable
    BY DEF Tried
  <2>1. n < 3
    BY SMT
  <2> QED BY <2>1 DEF Tried
<1>2. Tried(n, TRUE) => Tried(n, FALSE)
  BY DEF Tried
<1>3. n # 0 /\ Tried(n, TRUE) => Tried(n - 1, FALSE)
  <2> SUFFICES ASSUME n # 0, Tried(n, TRUE), NEW j \in 1 .. 3 - (n - 1), j # 3 - (n - 1)
               PROVE InitPaths[j] \notin Workable
    BY DEF Tried
  <2>1. j \in 1 .. 3 - n
    BY SMT
  <2> QED BY <2>1 DEF Tried
<1>4. Tried(3, TRUE)
  <2>1. 1 .. 3 - 3 = {}
    BY SMT
  <2> QED BY <2>1 DEF Tried
<1> QED BY <1>1, <1>2, <1>3, <1>4

\* The same in these terms.
LEMMA GivenUpTried ==
  GivenUp <=> (~failed => /\ Tried(Len(inits), load.pc = "idle")
                          /\ load.pc # "idle" => (load.began \in Workable <=> load.path \in Workable))
BY DEF GivenUp, Tried

\* A path is given up only if it does not work.
LEMMA GivenUpStep == ASSUME Found, Left, Loader, Loading, GivenUp, Works PROVE GivenUp'
<1>i. InitPaths' = InitPaths
  BY DEF InitPaths
<1>n. Len(inits) \in 0 .. 3
  BY LoaderFacts
<1>0. ~failed => /\ Tried(Len(inits), load.pc = "idle")
                 /\ load.pc # "idle" => (load.began \in Workable <=> load.path \in Workable)
  BY GivenUpTried
<1>g. GivenUp' <=> (~failed' => /\ Tried(Len(inits), load.pc = "idle")'
                                /\ load'.pc # "idle" => (load'.began \in Workable' <=> load'.path \in Workable'))
  BY DEF GivenUp, Tried
<1>t. (load.pc = "idle") = TRUE \/ (load.pc = "idle") = FALSE
  BY SMT
<1>p. ASSUME root' = root, NEW n, NEW b \in BOOLEAN, n = Len(inits'), b = (load'.pc = "idle"), Tried(n, b)
      PROVE Tried(Len(inits), load.pc = "idle")'
  <2>1. Workable' = Workable
    BY <1>p, SameRoot
  <2> QED BY <1>i, <1>p, <2>1 DEF Tried
<1>1. CASE ~Loads
  <2>1. phase \notin {"init", "user", "panic"} /\ load' = load /\ inits' = inits
    BY <1>1, OtherStep
  <2>2. load.pc = "idle" /\ Len(inits) = 3
    BY <2>1 DEF Loader
  <2>3. 1 .. 3 - 3 = {}
    BY SMT
  <2>4. Tried(Len(inits), load.pc = "idle")'
    BY <2>1, <2>2, <2>3 DEF Tried
  <2> QED BY <1>g, <2>1, <2>2, <2>4
<1>2. CASE NextInit
  <2>1. root' = root /\ failed' = failed /\ load.pc = "idle"
    BY <1>2 DEF NextInit
  <2>2. ~failed => Tried(Len(inits), TRUE)
    BY <1>0, <2>1
  <2>3. CASE inits = <<>>
    <3>1. load' = load /\ inits' = inits
      BY <1>2, <2>3 DEF NextInit
    <3> QED BY <1>g, <1>p, <2>1, <2>2, <3>1
  <2>4. CASE inits # <<>>
    <3>1. /\ load'.pc = "stat" /\ load'.path = Head(inits) /\ load'.began = Head(inits)
          /\ Len(inits') = Len(inits) - 1 /\ Len(inits) \in 1 .. 3
      BY <1>2, <2>4, NextPath
    <3>2. "stat" # "idle" /\ \A n \in 1 .. 3 : n # 0
      BY SMT
    <3>3. ~failed => Tried(Len(inits) - 1, FALSE)
      BY <1>n, <2>2, <3>1, <3>2, TriedMore
    <3>4. (load'.pc = "idle") = FALSE
      BY <3>1, <3>2
    <3>5. ~failed' => Tried(Len(inits), load.pc = "idle")'
      BY <1>p, <2>1, <3>1, <3>3, <3>4
    <3> QED BY <1>g, <2>1, <3>1, <3>5
  <2> QED BY <2>3, <2>4
<1>3. CASE ElfStat \/ ElfAlloc \/ ElfRead \/ ElfParse
  <2>1. UNCHANGED <<inits, root>> /\ load.pc # "idle" /\ phase = "init"
        /\ (Dropped \/ (\E c : Read(c)) \/ Replaced \/ Started)
    BY <1>3, ElfMoves
  <2>2. Files' = Files /\ Workable' = Workable
    BY <2>1, SameRoot
  <2>3. ~failed => /\ Tried(Len(inits), FALSE)
                   /\ (load.began \in Workable <=> load.path \in Workable)
    BY <1>0, <2>1
  <2>4. load.began = InitPaths[3 - Len(inits)]
    BY <2>1 DEF Loading
  <2>k. ASSUME load'.pc # "idle", ~failed' => ~failed, load'.began = load.began,
               load'.path \in Workable <=> load.path \in Workable
        PROVE GivenUp'
    <3>1. (load'.pc = "idle") = FALSE
      BY <2>k
    <3>2. ~failed' => Tried(Len(inits), load.pc = "idle")'
      BY <1>p, <2>1, <2>3, <2>k, <3>1
    <3> QED BY <1>g, <2>2, <2>3, <2>k, <3>2
  <2>5. CASE Dropped
    <3>1. load'.pc = "idle" /\ (~failed' => ~failed /\ load.path \notin Workable)
      BY <2>5, LoadFields DEF Dropped
    <3>2. ~failed' => Tried(Len(inits), TRUE)
      BY <1>n, <2>3, <2>4, <3>1, TriedMore
    <3>3. (load'.pc = "idle") = TRUE
      BY <3>1
    <3>4. ~failed' => Tried(Len(inits), load.pc = "idle")'
      BY <1>p, <2>1, <3>2, <3>3
    <3> QED BY <1>g, <3>1, <3>4
  <2>6. ASSUME NEW c, Read(c) PROVE GivenUp'
    <3>1. /\ load'.pc = c /\ load'.path = load.path /\ load'.began = load.began
          /\ c \notin {"idle", "stat"} /\ (~failed' => ~failed)
      BY <2>6, LoadFields DEF Read
    <3>2. c # "idle"
      BY <3>1
    <3> QED BY <2>k, <3>1, <3>2
  <2>7. CASE Replaced
    <3>1. /\ load'.pc = "stat" /\ load'.path = Files[load.path].interp /\ load'.began = load.began
          /\ load.path \in DOMAIN Files /\ Files[load.path].kind = "interp" /\ failed' = failed
      BY <2>7, LoadFields DEF Replaced
    <3>2. load.path \in Workable <=> load'.path \in Workable
      BY <3>1, WorkableFile
    <3>3. "stat" # "idle"
      BY SMT
    <3> QED BY <2>k, <3>1, <3>2, <3>3
  <2>8. CASE Started
    <3>1. load' = load /\ failed' = failed
      BY <2>8 DEF Started
    <3> QED BY <2>1, <2>k, <3>1
  <2> QED BY <2>1, <2>5, <2>6, <2>7, <2>8
<1> QED BY <1>1, <1>2, <1>3 DEF Loads

\* A program that runs was reached from the first path that works, and there is none
\* when every path was given up.
LEMMA FirstWorking == ASSUME Loader, Loading, GivenUp PROVE FirstWorkingInit
<1>n. Len(inits) \in 0 .. 3 /\ (inits = <<>> => Len(inits) = 0) /\ DOMAIN InitPaths = 1 .. 3
  <2>1. DOMAIN InitPaths = 1 .. Len(InitPaths)
    BY SMT, InitPathsFacts
  <2> QED BY <2>1, LoaderFacts, InitPathsFacts
<1>0. ~failed => /\ Tried(Len(inits), load.pc = "idle")
                 /\ load.pc # "idle" => (load.began \in Workable <=> load.path \in Workable)
  BY GivenUpTried
<1>1. ASSUME phase = "user"
      PROVE /\ load.pc # "idle" /\ Len(inits) < 3 /\ load.began = InitPaths[3 - Len(inits)]
            /\ \/ load.path = load.began /\ load.argv1 = ""
               \/ /\ Files[load.began].kind = "interp"
                  /\ load.argv1 \in DOMAIN Files /\ Files[load.argv1].interp = load.path
            /\ load.path \in DOMAIN Files /\ Files[load.path].kind = "elf"
  <2>1. load.pc # "idle"
    BY <1>1 DEF Loader
  <2> QED BY <1>1, <2>1 DEF Loading
<1>2. ASSUME phase = "user", ~failed
      PROVE /\ load.began \in Workable
            /\ \A i \in DOMAIN InitPaths : InitPaths[i] \in Workable => \E j \in 1 .. i : InitPaths[j] = load.began
  <2>1. load.path \in Workable
    BY <1>1, <1>2, WorkableFile
  <2>2. load.began \in Workable
    BY <1>0, <1>1, <1>2, <2>1
  <2>3. ASSUME NEW i \in DOMAIN InitPaths, InitPaths[i] \in Workable
        PROVE \E j \in 1 .. i : InitPaths[j] = load.began
    <3> DEFINE n == Len(inits)
    <3>1. n \in 0 .. 3 /\ n < 3 /\ i \in 1 .. 3
      BY <1>n, <1>1, <1>2, <2>3
    <3>2. \A j \in 1 .. 3 - n : j # 3 - n => InitPaths[j] \notin Workable
      BY <1>0, <1>2 DEF Tried
    <3>3. load.began = InitPaths[3 - n]
      BY <1>1, <1>2
    <3> HIDE DEF n
    <3>4. (i \in 1 .. 3 - n /\ i # 3 - n) \/ 3 - n \in 1 .. i
      BY SMT, <3>1
    <3> QED BY <2>3, <3>2, <3>3, <3>4
  <2> QED BY <2>2, <2>3
<1>3. ASSUME phase = "user"
      PROVE IF load.path = load.began THEN load.argv1 = ""
            ELSE load.argv1 \in DOMAIN Files /\ Files[load.argv1].interp = load.path
  <2>1. "elf" # "interp"
    BY SMT
  <2> QED BY <1>1, <1>3, <2>1
<1>4. ASSUME phase = "panic", inits = <<>>, ~failed
      PROVE \A i \in DOMAIN InitPaths : InitPaths[i] \notin Workable
  <2>1. "panic" \notin {"init", "user"}
    BY SMT
  <2>2. load.pc = "idle"
    BY <1>4, <2>1 DEF Loader
  <2>3. 3 - 0 = 3
    BY SMT
  <2> QED BY <1>n, <1>0, <1>4, <2>2, <2>3 DEF Tried
<1> QED BY <1>2, <1>3, <1>4 DEF FirstWorkingInit

----------------------------------------------------------------------------
(* The root volume.                                                        *)

\* The place of a file system in the order of the mounts.
RankOf(fs) == CASE fs = "fat" -> 1 [] fs = "exfat" -> 2 [] fs = "ext" -> 3

\* The file systems in the order of mount_first_fs, and their mounts.
LEMMA RankFacts ==
  /\ Ranked[1] = "fat" /\ Ranked[2] = "exfat" /\ Ranked[3] = "ext"
  /\ RankOf("fat") = 1 /\ RankOf("exfat") = 2 /\ RankOf("ext") = 3
  /\ \A part : /\ Mounts("fat", part) <=> fat32_mount(part)
               /\ Mounts("exfat", part) <=> exfat_mount(part)
               /\ Mounts("ext", part) <=> extfs_mount(part)
<1>1. Ranked[1] = "fat" /\ Ranked[2] = "exfat" /\ Ranked[3] = "ext"
  BY SMT DEF Ranked
<1>2. RankOf("fat") = 1 /\ RankOf("exfat") = 2 /\ RankOf("ext") = 3
  BY SMT DEF RankOf
<1>3. ASSUME NEW part
      PROVE /\ Mounts("fat", part) <=> fat32_mount(part)
            /\ Mounts("exfat", part) <=> exfat_mount(part)
            /\ Mounts("ext", part) <=> extfs_mount(part)
  BY SMT DEF Mounts
<1> QED BY <1>1, <1>2, <1>3

\* A candidate is a file system and a volume that the file system's mount accepts.
LEMMA CandidateFacts ==
  ASSUME NEW drive, NEW ps, ps = Volumes(partition_scan_mbr(drive), drive.whole),
         DOMAIN ps = 1 .. Len(ps), NEW c
  PROVE c \in Candidates(drive) <=>
          c \in (1 .. 3) \X (1 .. Len(ps)) /\ Mounts(Ranked[c[1]], ps[c[2]])
<1> DEFINE K(e) == CASE e[1] = 1 -> fat32_mount(ps[e[2]])
                     [] e[1] = 2 -> exfat_mount(ps[e[2]])
                     [] e[1] = 3 -> extfs_mount(ps[e[2]])
<1>1. Candidates(drive) = {e \in (1 .. 3) \X (1 .. Len(ps)) : K(e)}
  BY DEF Candidates, Volumes
<1>2. c \in (1 .. 3) \X (1 .. Len(ps)) => c[1] \in 1 .. 3
  OBVIOUS
<1>3. ASSUME c[1] \in 1 .. 3 PROVE K(c) <=> Mounts(Ranked[c[1]], ps[c[2]])
  <2>1. CASE c[1] = 1
    <3>1. K(c) <=> fat32_mount(ps[c[2]])
      BY SMT, <2>1
    <3> QED BY <2>1, <3>1, RankFacts
  <2>2. CASE c[1] = 2
    <3>1. K(c) <=> exfat_mount(ps[c[2]])
      BY SMT, <2>2
    <3> QED BY <2>2, <3>1, RankFacts
  <2>3. CASE c[1] = 3
    <3>1. K(c) <=> extfs_mount(ps[c[2]])
      BY SMTT(30), <2>3
    <3> QED BY <2>3, <3>1, RankFacts
  <2>4. c[1] = 1 \/ c[1] = 2 \/ c[1] = 3
    BY SMT, <1>3
  <2> QED BY <2>1, <2>2, <2>3, <2>4
<1> HIDE DEF K
<1>4. c \in Candidates(drive) <=> c \in (1 .. 3) \X (1 .. Len(ps)) /\ K(c)
  BY <1>1
<1> QED BY <1>2, <1>3, <1>4

\* part is the preferred volume of a drive, for the file system fs.
Best(drive, fs, part) ==
    LET ps == partition_scan_mbr(drive)
    IN  \E c \in Candidates(drive) :
            /\ c[1] = RankOf(fs)
            /\ part = IF ps = <<>> THEN drive.whole ELSE ps[c[2]]
            /\ \A e \in Candidates(drive) : c[1] < e[1] \/ (c[1] = e[1] /\ c[2] <= e[2])

\* What cannot be mounted, of the attempts from the first to the k-th.
NoMount(A, k) == \A j \in 1 .. k : ~Mounts(A[j].fs, A[j].part)

\* The first attempt that mounts is the preferred volume of the drive, and if none does
\* the drive has no usable volume.
LEMMA AttemptFacts ==
  ASSUME NEW drive, IsDrive(drive), NEW A, A = Attempts(drive)
  PROVE /\ A \in Seq([fs : FileSystems, part : Parts(drive)]) /\ A # <<>>
        /\ NoMount(A, Len(A)) => Candidates(drive) = {}
        /\ \A k \in 1 .. Len(A) : NoMount(A, k - 1) /\ Mounts(A[k].fs, A[k].part)
                                     => Best(drive, A[k].fs, A[k].part)
<1> DEFINE parts == partition_scan_mbr(drive)
           ps == Volumes(parts, drive.whole)
           n == Len(ps)
           m == Len(A)
           C == (1 .. 3) \X (1 .. n)
<1>1. parts \in Seq(Parts(drive)) /\ drive.whole \in Parts(drive)
  BY ScanFacts
<1>2. /\ ps \in Seq(Parts(drive)) /\ ps # <<>>
      /\ A \in Seq([fs : FileSystems, part : Parts(drive)]) /\ A # <<>>
      /\ \E key : Keys(A, ps, key)
  <2> HIDE DEF parts
  <2>1. A = MountAttempts(parts, drive.whole)
    BY DEF Attempts, parts
  <2>2. ps = Volumes(parts, drive.whole)
    OBVIOUS
  <2> HIDE DEF ps
  <2> QED BY ZenonT(30), <1>1, <2>1, <2>2, AttemptKeys
<1>3. PICK key : Keys(A, ps, key)
  BY <1>2
<1>4. DOMAIN ps = 1 .. n /\ n \in Nat /\ m \in Nat
  BY <1>2, Nonempty
<1>5. \A c : c \in Candidates(drive) <=> c \in C /\ Mounts(Ranked[c[1]], ps[c[2]])
  BY <1>4, CandidateFacts
<1>6. /\ key \in [1 .. m -> C]
      /\ \A k \in 1 .. m : A[k] = [fs |-> Ranked[key[k][1]], part |-> ps[key[k][2]]]
      /\ \A k, l \in 1 .. m : k < l =>
            key[k][1] < key[l][1] \/ (key[k][1] = key[l][1] /\ key[k][2] < key[l][2])
      /\ \A c \in C : (c[1] = 1 => partition_is_fat(ps[c[2]])) => \E k \in 1 .. m : key[k] = c
  BY <1>3 DEF Keys
<1> HIDE DEF parts, ps, n, m
<1>7. \A k \in 1 .. m : A[k].fs = Ranked[key[k][1]] /\ A[k].part = ps[key[k][2]] /\ key[k] \in C
  <2> HIDE DEF C
  <2>2. \A k \in 1 .. m : key[k] \in C
    BY <1>6
  <2> SUFFICES ASSUME NEW k \in 1 .. m
               PROVE A[k].fs = Ranked[key[k][1]] /\ A[k].part = ps[key[k][2]]
    BY <2>2
  <2>3. PICK x, y : x = Ranked[key[k][1]] /\ y = ps[key[k][2]]
    OBVIOUS
  <2>4. A[k] = [fs |-> x, part |-> y]
    BY <1>6, <2>3
  <2>5. A[k].fs = x /\ A[k].part = y
    BY SMTT(30), <2>4
  <2> QED BY <2>3, <2>5
<1>8. ASSUME NEW c \in Candidates(drive)
      PROVE c \in C /\ \E k \in 1 .. m : key[k] = c /\ Mounts(A[k].fs, A[k].part)
  <2>1. c \in C /\ Mounts(Ranked[c[1]], ps[c[2]])
    BY <1>5, <1>8
  <2>2. c[1] = 1 => partition_is_fat(ps[c[2]])
    BY <2>1, RankFacts DEF fat32_mount
  <2> HIDE DEF C
  <2>3. PICK k \in 1 .. m : key[k] = c
    BY <1>6, <2>1, <2>2
  <2>4. Mounts(A[k].fs, A[k].part)
    BY <1>7, <2>1, <2>3
  <2> QED BY <2>1, <2>3, <2>4
<1>9. NoMount(A, m) => Candidates(drive) = {}
  BY <1>8 DEF NoMount
<1>10. ASSUME NEW k \in 1 .. m, NoMount(A, k - 1), Mounts(A[k].fs, A[k].part)
       PROVE Best(drive, A[k].fs, A[k].part)
  <2> DEFINE c == key[k]
  <2>1. c \in C /\ A[k].fs = Ranked[c[1]] /\ A[k].part = ps[c[2]]
    BY <1>7
  <2>2. c \in Candidates(drive)
    BY <1>5, <1>10, <2>1
  <2>3. c[1] \in 1 .. 3 /\ c[2] \in 1 .. n
    BY <2>1
  <2>4. c[1] = RankOf(A[k].fs)
    <3>1. c[1] = 1 \/ c[1] = 2 \/ c[1] = 3
      BY SMTT(30), <2>3
    <3> QED BY <2>1, <3>1, RankFacts
  <2>5. A[k].part = IF parts = <<>> THEN drive.whole ELSE parts[c[2]]
    <3>1. CASE parts = <<>>
      <4>1. ps = <<drive.whole>>
        BY <3>1 DEF ps, Volumes
      <4>2. n = 1 /\ ps[1] = drive.whole
        BY SMTT(30), <4>1 DEF n
      <4>3. c[2] = 1
        BY SMTT(30), <2>3, <4>2
      <4> QED BY <2>1, <3>1, <4>2, <4>3
    <3>2. CASE parts # <<>>
      BY <2>1, <3>2 DEF ps, Volumes
    <3> QED BY <3>1, <3>2
  <2>6. ASSUME NEW e \in Candidates(drive)
        PROVE c[1] < e[1] \/ (c[1] = e[1] /\ c[2] <= e[2])
    <3>1. PICK l \in 1 .. m : key[l] = e /\ Mounts(A[l].fs, A[l].part)
      BY <1>8
    <3>2. l \notin 1 .. k - 1
      BY <1>10, <3>1 DEF NoMount
    <3>3. k < l \/ k = l
      BY SMTT(30), <1>4, <3>2
    <3>4. k < l => c[1] < e[1] \/ (c[1] = e[1] /\ c[2] < e[2])
      BY <1>6, <3>1
    <3>5. e \in C
      BY <1>8
    <3>6. e[2] \in 1 .. n
      BY <3>5
    <3>7. k = l => c = e
      BY <3>1
    <3> HIDE DEF c
    <3>8. c[2] < e[2] => c[2] <= e[2]
      BY SMTT(30), <1>4, <2>3, <3>6
    <3>9. c[2] <= c[2]
      BY SMTT(30), <1>4, <2>3
    <3> QED BY <3>3, <3>4, <3>7, <3>8, <3>9
  <2> HIDE DEF c, C
  <2> QED BY <2>2, <2>4, <2>5, <2>6 DEF Best, parts
<1> QED BY <1>2, <1>9, <1>10 DEF m

\* No drive is twice in the order of the mounts.
LEMMA OrderFacts == ASSUME Hardware, Found
  PROVE /\ Order \in Seq(DriveIds) /\ Len(Order) \in Nat /\ DOMAIN Order = 1 .. Len(Order)
        /\ \A i, j \in 1 .. Len(Order) : Order[i] = Order[j] => i = j
<1> DEFINE a == found.ahci   b == found.ide   o == Order
           m == Len(a)   n == Len(b)
<1>1. /\ a \in Seq({"ahci"} \X DOMAIN machine.sata) /\ b \in Seq({"ide"} \X Units)
      /\ InOrder(a) /\ InOrder(b) /\ o = a \o b
  BY DEF Found, Order, MountOrder
<1>2. a \in Seq(DriveIds) /\ b \in Seq(DriveIds)
  <2>1. {"ahci"} \X DOMAIN machine.sata \subseteq DriveIds /\ {"ide"} \X Units \subseteq DriveIds
    BY DEF DriveIds
  <2>2. ASSUME NEW S, NEW T, S \subseteq T, NEW s \in Seq(S) PROVE s \in Seq(T)
    BY SMTT(30), <2>2
  <2> HIDE DEF a, b
  <2> QED BY <1>1, <2>1, <2>2
<1>3. o \in Seq(DriveIds) /\ Joined(a, b, o)
  <2> HIDE DEF a, b, o
  <2> QED BY <1>1, <1>2, Concat
<1>4. m \in Nat /\ n \in Nat /\ Len(o) = m + n /\ DOMAIN o = 1 .. Len(o)
      /\ (\A k \in 1 .. m : o[k] = a[k]) /\ \A k \in 1 .. n : o[m + k] = b[k]
  <2>1. m \in Nat /\ n \in Nat /\ DOMAIN o = 1 .. Len(o)
    BY <1>2, <1>3, Nonempty
  <2> QED BY <1>3, <2>1 DEF Joined
<1>5. /\ \A k \in 1 .. m : a[k] \in {"ahci"} \X DOMAIN machine.sata
      /\ \A k \in 1 .. n : b[k] \in {"ide"} \X Units
  <2>1. ASSUME NEW S, NEW s \in Seq(S) PROVE \A k \in 1 .. Len(s) : s[k] \in S
    BY SMT
  <2> HIDE DEF a, b
  <2> QED BY <1>1, <2>1 DEF m, n
<1>6. /\ \A k \in 1 .. m : a[k][1] = "ahci" /\ a[k][2] \in Nat
      /\ \A k \in 1 .. n : b[k][1] = "ide" /\ b[k][2] \in Nat
  <2>1. DOMAIN machine.sata \subseteq Nat /\ Units \subseteq Nat
    <3>1. DOMAIN machine.sata = 1 .. Len(machine.sata)
      BY MachineFacts DEF Hardware
    <3>2. (\A x : 1 .. x \subseteq Nat) /\ 1 .. 4 \subseteq Nat
      BY SMTT(30)
    <3> QED BY <3>1, <3>2 DEF Units
  <2> QED BY <1>5, <2>1
<1> HIDE DEF a, b, o, m, n
<1>7. ASSUME NEW s, InOrder(s), Len(s) \in Nat, \A k \in 1 .. Len(s) : s[k][2] \in Nat,
             NEW i \in 1 .. Len(s), NEW j \in 1 .. Len(s), s[i] = s[j]
      PROVE i = j
  <2>1. (i < j => s[i][2] < s[j][2]) /\ (j < i => s[j][2] < s[i][2])
    BY <1>7 DEF InOrder
  <2>2. \A k \in Nat : ~(k < k)
    BY SMT
  <2>3. ~(i < j) /\ ~(j < i)
    BY <1>7, <2>1, <2>2
  <2> QED BY SMTT(30), <1>7, <2>3
<1>8. ASSUME NEW i \in 1 .. m + n, NEW j \in 1 .. m + n, o[i] = o[j] PROVE i = j
  <2>1. (i \in 1 .. m \/ (i - m \in 1 .. n /\ i = m + (i - m)))
        /\ (j \in 1 .. m \/ (j - m \in 1 .. n /\ j = m + (j - m)))
    BY SMTT(30), <1>4
  <2>2. "ide" # "ahci"
    BY SMT
  <2>3. CASE i \in 1 .. m /\ j \in 1 .. m
    <3>1. a[i] = a[j]
      BY <1>4, <1>8, <2>3
    <3> QED BY <1>1, <1>4, <1>6, <1>7, <2>3, <3>1 DEF m
  <2>4. CASE i - m \in 1 .. n /\ j - m \in 1 .. n /\ i = m + (i - m) /\ j = m + (j - m)
    <3>1. b[i - m] = b[j - m]
      BY <1>4, <1>8, <2>4
    <3>2. i - m = j - m
      BY <1>1, <1>4, <1>6, <1>7, <2>4, <3>1 DEF n
    <3> QED BY <2>4, <3>2
  <2>5. CASE i \in 1 .. m /\ j - m \in 1 .. n /\ j = m + (j - m)
    <3>1. a[i] = b[j - m]
      BY <1>4, <1>8, <2>5
    <3> QED BY <1>6, <2>2, <2>5, <3>1
  <2>6. CASE j \in 1 .. m /\ i - m \in 1 .. n /\ i = m + (i - m)
    <3>1. a[j] = b[i - m]
      BY <1>4, <1>8, <2>6
    <3> QED BY <1>6, <2>2, <2>6, <3>1
  <2> QED BY <2>1, <2>3, <2>4, <2>5, <2>6
<1>9. Len(o) \in Nat
  BY SMTT(30), <1>4
<1> QED BY <1>3, <1>4, <1>8, <1>9 DEF o

\* The root is on the first drive with a candidate, and its best.
RootAt(r) ==
    LET i == CHOOSE i \in DOMAIN Order : Order[i] = r.drive
    IN  /\ \A j \in 1 .. i - 1 : Candidates(Drive(Order[j])) = {}
        /\ Best(Drive(r.drive), r.fs, r.part)

\* RootIsFirst in these terms.
LEMMA RootIsFirstAt == RootIsFirst <=> (root # <<>> /\ ~failed => RootAt(root))
BY DEF RootIsFirst, RootAt, Best, RankOf, Order, MountOrder

\* It stays so as long as the drives do.
LEMMA SameOrder == ASSUME machine' = machine, found' = found
  PROVE Order' = Order /\ \A r : RootAt(r)' = RootAt(r)
<1>1. Order' = Order
  BY DEF Order, MountOrder
<1>2. \A d : Drive(d)' = Drive(d)
  BY SameMachine
<1> QED BY <1>1, <1>2 DEF RootAt

\* Every step but those of the mounts leaves the root where it is.
Elsewhere ==
    /\ machine' = machine /\ root' = root /\ phase' \notin Mounting
    /\ root = <<>> \/ found' = found
    /\ ~failed' => ~failed

\* The steps of the mounts are these three.
LEMMA MountMoves == ASSUME Found, Left, Works
  PROVE Elsewhere \/ (ahci_init /\ phase' = "scan") \/ ScanDrive \/ TryMount
<1>a. \A d, ok : Access(d, ok) => (~failed' => ~failed /\ ok)
  BY DEF Access
<1>1. CASE XhciProbe \/ UsbDone \/ IdeAbsent \/ IdeFound
  <2>0. phase \in {"xhci", "usb", "ide"} /\ phase' \in {"usb", "ide", "ahci"} /\ UNCHANGED <<machine, root>>
    BY <1>1 DEF XhciProbe, UsbDone, IdeAbsent, IdeFound, NextUnit
  <2>f. failed' = failed \/ failed' = TRUE
    BY <1>1 DEF XhciProbe, UsbDone, IdeAbsent, IdeFound
  <2>1. /\ phase \in {"xhci", "usb", "ide"} /\ phase' \in {"usb", "ide", "ahci"} /\ UNCHANGED <<machine, root>>
        /\ (~failed' => ~failed)
    <3>1. ~failed' => ~failed
      BY <2>f
    <3> QED BY <2>0, <3>1
  <2>2. phase \in Early \cup Mounting /\ phase' \notin Mounting
    BY SMT, <2>1 DEF Early, Mounting
  <2>3. root = <<>>
    BY <2>2 DEF Left
  <2> QED BY <2>1, <2>2, <2>3 DEF Elsewhere
<1>2. CASE ahci_init
  <2>1. phase = "ahci" /\ phase' \in {"panic", "scan"} /\ UNCHANGED <<machine, root, failed>>
    BY <1>2 DEF ahci_init
  <2>2. phase \in Early \cup Mounting /\ "panic" \notin Mounting
    BY SMT, <2>1 DEF Early, Mounting
  <2>3. root = <<>>
    BY <2>2 DEF Left
  <2> QED BY <1>2, <2>1, <2>2, <2>3 DEF Elsewhere
<1>3. CASE validate_fhs \/ storage_tests_run
  <2>1. PICK d \in DriveIds, ok \in BOOLEAN : CheckDone(d, ok)
    BY <1>3, CheckStep
  <2>2. /\ phase' \in (Late \ {"user"}) \cup {"panic"} /\ Access(d, ok)
        /\ UNCHANGED <<machine, found, root>>
    BY <2>1 DEF CheckDone
  <2>3. phase' \notin Mounting
    BY SMT, <2>2 DEF Late, Mounting
  <2> QED BY <1>a, <2>2, <2>3 DEF Elsewhere
<1>4. CASE Loads
  <2>1. LoadFrame
    BY <1>4, LoadStep
  <2>2. /\ phase' \in {"init", "user", "panic"} /\ UNCHANGED <<machine, found, root>>
        /\ (~failed' => ~failed)
    <3>1. (\E ok \in BOOLEAN : Access(root.drive, ok)) \/ failed' = failed \/ failed' = TRUE
      BY <2>1 DEF LoadFrame
    <3>2. ~failed' => ~failed
      BY <1>a, <3>1
    <3> QED BY <2>1, <3>2 DEF LoadFrame
  <2>3. phase' \notin Mounting
    BY SMT, <2>2 DEF Mounting
  <2> QED BY <2>2, <2>3 DEF Elsewhere
<1> QED BY <1>1, <1>2, <1>3, <1>4 DEF Works, kmain, Loads

\* Drives passed over, the first n of the order.
NoRoot(n) == \A j \in 1 .. n : Candidates(Drive(Order[j])) = {}

\* PassedOver while no access has failed.
Searching ==
    /\ phase \in Mounting => Suffix(queue, Order) /\ NoRoot(Len(Order) - Len(queue))
    /\ phase = "mount" =>
          /\ Suffix(todo, Attempts(Drive(Head(queue))))
          /\ NoMount(Attempts(Drive(Head(queue))), Len(Attempts(Drive(Head(queue)))) - Len(todo))
    /\ root # <<>> => root.fs \in FileSystems /\ Mounts(root.fs, root.part)

\* PassedOver in these terms.
LEMMA PassedOverIs == (PassedOver <=> (~failed => Searching)) /\ (PassedOver' <=> (~failed' => Searching'))
BY DEF PassedOver, Searching, NoRoot, NoMount

\* The whole is the end of itself.
LEMMA SuffixSelf == ASSUME NEW S, NEW s \in Seq(S) PROVE Suffix(s, s) /\ 1 .. Len(s) - Len(s) = {}
<1>1. Len(s) \in Nat
  BY SMT
<1>2. \A n \in Nat : n <= n /\ 1 .. n - n = {} /\ \A k \in 1 .. n : n - n + k = k
  BY SMT
<1> QED BY <1>1, <1>2 DEF Suffix

\* The order, the drive at its head and the attempts on it, while the root is sought.
LEMMA HeadOfQueue == ASSUME Hardware, Found, Left, phase \in Mounting
  PROVE Head(queue) \in DriveIds /\ IsDrive(Drive(Head(queue))) /\ queue \in Seq(DriveIds) /\ queue # <<>>
<1>1. queue \in Seq(DriveIds) /\ queue # <<>>
  BY DEF Left
<1>2. Head(queue) \in DriveIds
  BY <1>1, HeadFacts
<1> QED BY <1>1, <1>2, MachineFacts DEF Hardware

\* What the k-th attempt has behind it.
LEMMA AttemptInHand ==
  ASSUME Hardware, Found, Left, phase = "mount", Searching,
         NEW A, A = Attempts(Drive(Head(queue))), NEW k, k = Len(A) - Len(Tail(todo))
  PROVE /\ A \in Seq([fs : FileSystems, part : Parts(Drive(Head(queue)))])
        /\ k \in 1 .. Len(A) /\ Head(todo) = A[k] /\ NoMount(A, k - 1) /\ Suffix(Tail(todo), A)
        /\ Head(todo).fs \in FileSystems
        /\ (Tail(todo) = <<>> => k = Len(A))
<1> DEFINE R == [fs : FileSystems, part : Parts(Drive(Head(queue)))]
<1>1. todo \in Seq(R) /\ todo # <<>>
  BY DEF Left
<1>2. "mount" \in Mounting
  BY SMT DEF Mounting
<1>3. A \in Seq(R)
  BY <1>2, HeadOfQueue, AttemptFacts
<1>4. Suffix(todo, A) /\ NoMount(A, Len(A) - Len(todo))
  BY DEF Searching
<1> HIDE DEF R
<1>5. /\ Suffix(Tail(todo), A) /\ Tail(todo) \in Seq(R) /\ Len(Tail(todo)) = Len(todo) - 1
      /\ Head(todo) = A[Len(A) - Len(Tail(todo))] /\ Len(A) - Len(Tail(todo)) \in 1 .. Len(A)
      /\ Len(todo) \in 1 .. Len(A) /\ Len(A) \in Nat
  BY <1>1, <1>3, <1>4, SuffixTail
<1>6. \A n \in Nat : \A l \in 1 .. n : (n - (l - 1)) - 1 = n - l /\ (l - 1 = 0 => n - (l - 1) = n)
  BY SMT
<1>7. k - 1 = Len(A) - Len(todo)
  BY <1>5, <1>6
<1>8. Tail(todo) = <<>> => k = Len(A)
  <2> SUFFICES ASSUME Tail(todo) = <<>> PROVE k = Len(A)
    OBVIOUS
  <2>1. Len(Tail(todo)) = 0
    BY <1>5, Nonempty
  <2>2. Len(A) \in Nat /\ k = Len(A) - 0
    BY <1>5, <2>1
  <2>3. \A n \in Nat : n - 0 = n
    BY SMTT(30)
  <2> QED BY <2>2, <2>3
<1>9. Head(todo).fs \in FileSystems
  <2>1. Head(todo) \in R
    BY <1>1, HeadFacts
  <2> QED BY SMTT(30), <2>1 DEF R
<1> QED BY <1>3, <1>4, <1>5, <1>7, <1>8, <1>9 DEF R

\* One more attempt that failed.
LEMMA NoMountMore == ASSUME NEW A, NEW n \in Nat, NEW k \in 1 .. n, NoMount(A, k - 1), ~Mounts(A[k].fs, A[k].part)
  PROVE NoMount(A, k)
<1>1. \A j \in 1 .. k : j = k \/ j \in 1 .. k - 1
  BY SMT
<1> QED BY <1>1 DEF NoMount

\* One more drive without a root.
LEMMA NoRootMore ==
  ASSUME Hardware, Found, Left, phase \in Mounting, Suffix(queue, Order), NoRoot(Len(Order) - Len(queue)),
         Candidates(Drive(Head(queue))) = {}
  PROVE Suffix(Tail(queue), Order) /\ NoRoot(Len(Order) - Len(Tail(queue)))
<1>1. queue \in Seq(DriveIds) /\ queue # <<>> /\ Order \in Seq(DriveIds)
  BY HeadOfQueue, OrderFacts
<1>2. /\ Suffix(Tail(queue), Order) /\ Len(Tail(queue)) = Len(queue) - 1
      /\ Head(queue) = Order[Len(Order) - Len(Tail(queue))]
      /\ Len(queue) \in 1 .. Len(Order) /\ Len(Order) \in Nat
  BY <1>1, SuffixTail
<1>3. \A n \in Nat : \A l \in 1 .. n : \A j \in 1 .. n - (l - 1) : j = n - (l - 1) \/ j \in 1 .. n - l
  BY SMT
<1>4. NoRoot(Len(Order) - Len(Tail(queue)))
  BY <1>2, <1>3 DEF NoRoot
<1> QED BY <1>2, <1>4

\* A step outside the mounts.
LEMMA ElsewhereStep == ASSUME PassedOver, RootIsFirst, Elsewhere PROVE PassedOver' /\ RootIsFirst'
<1>1. machine' = machine /\ root' = root /\ phase' \notin Mounting /\ (~failed' => ~failed)
      /\ (root = <<>> \/ found' = found)
  BY DEF Elsewhere
<1>2. "mount" \in Mounting
  BY SMT DEF Mounting
<1>3. ~failed' => Searching'
  BY <1>1, <1>2, PassedOverIs DEF Searching
<1>4. RootIsFirst' <=> (root' # <<>> /\ ~failed' => RootAt(root)')
  BY DEF RootIsFirst, RootAt, Best, RankOf, Order, MountOrder
<1>5. root # <<>> => (RootAt(root)' <=> RootAt(root))
  BY <1>1, SameOrder DEF RootAt
<1> QED BY <1>1, <1>3, <1>4, <1>5, PassedOverIs, RootIsFirstAt

\* ahci_init puts all the drives in the queue.
LEMMA QueueStep == ASSUME Hardware, Found, Left, ahci_init, phase' = "scan" PROVE PassedOver' /\ RootIsFirst'
<1>0. phase = "ahci" /\ root' = root
  BY DEF ahci_init
<1>1. root' = <<>>
  <2>1. phase \in Early \cup Mounting
    BY SMTT(30), <1>0 DEF Early
  <2> QED BY <1>0, <2>1 DEF Left
<1>2. queue' \in Seq(DriveIds')
  <2>1. Works
    <3>1. phase' # "hung"
      BY SMTT(30)
    <3>2. ~start_port /\ ~ahci_waits
      BY <3>1 DEF start_port, ahci_waits, Hang
    <3> QED BY <3>2 DEF Works, kmain
  <2>2. phase' \in Mounting
    BY SMT DEF Mounting
  <2> QED BY <2>1, <2>2, LeftStep DEF Left
<1>3. queue' = Order'
  <2>1. PICK disks : found' = [found EXCEPT !.ahci = disks] /\ queue' = MountOrder(found.ide, disks)
    BY DEF ahci_init
  <2>2. found = [ide |-> found.ide, ahci |-> found.ahci]
    BY DEF Found
  <2>3. found'.ide = found.ide /\ found'.ahci = disks
    BY SMTT(30), <2>1, <2>2
  <2> QED BY <2>1, <2>3 DEF Order
<1>5. Suffix(Order', Order') /\ 1 .. Len(Order') - Len(Order') = {}
  BY <1>2, <1>3, SuffixSelf
<1>6. NoRoot(Len(Order) - Len(queue))'
  BY <1>3, <1>5 DEF NoRoot
<1>7. Suffix(queue, Order)'
  BY <1>3, <1>5 DEF Suffix
<1>8. "scan" # "mount"
  BY SMT
<1>9. Searching'
  BY <1>1, <1>6, <1>7, <1>8 DEF Searching
<1>10. RootIsFirst'
  BY <1>1 DEF RootIsFirst
<1> QED BY <1>9, <1>10, PassedOverIs

\* ScanDrive begins with all that mount_first_fs tries.
LEMMA ScanStep == ASSUME Hardware, Found, Left, PassedOver, ScanDrive PROVE PassedOver' /\ RootIsFirst'
<1>1. PICK ok \in BOOLEAN :
        /\ Access(Head(queue), ok)
        /\ todo' = MountAttempts(IF ok THEN partition_scan_mbr(Drive(Head(queue))) ELSE <<>>,
                                 Drive(Head(queue)).whole)
  BY DEF ScanDrive
<1>2. phase = "scan" /\ phase' = "mount" /\ UNCHANGED <<machine, found, queue, root>>
  BY DEF ScanDrive
<1>3. phase \in Mounting /\ phase' \in Mounting
  BY SMTT(30), <1>2 DEF Mounting
<1>4. root' = <<>>
  BY <1>2, <1>3 DEF Left
<1>5. Order' = Order /\ \A d : Drive(d)' = Drive(d)
  BY <1>2, SameMachine, SameOrder
<1>6. ASSUME ~failed' PROVE Searching'
  <2>1. ~failed /\ ok
    BY <1>1, <1>6 DEF Access
  <2>2. Suffix(queue, Order) /\ NoRoot(Len(Order) - Len(queue))
    BY <1>3, <2>1, PassedOverIs DEF Searching
  <2>3. Suffix(queue, Order)'
    BY <1>2, <1>5, <2>2 DEF Suffix
  <2>4. NoRoot(Len(Order) - Len(queue))'
    BY <1>2, <1>5, <2>2 DEF NoRoot
  <2> DEFINE A == Attempts(Drive(Head(queue)))
  <2>5. A \in Seq([fs : FileSystems, part : Parts(Drive(Head(queue)))])
    BY <1>3, HeadOfQueue, AttemptFacts
  <2>6. todo' = A
    BY <1>1, <2>1 DEF Attempts
  <2>7. Attempts(Drive(Head(queue)))' = A
    BY <1>2, <1>5
  <2> HIDE DEF A
  <2>8. Suffix(A, A) /\ 1 .. Len(A) - Len(A) = {}
    BY <2>5, SuffixSelf
  <2>9. Suffix(todo, Attempts(Drive(Head(queue))))'
    BY <2>6, <2>7, <2>8 DEF Suffix
  <2>10. NoMount(Attempts(Drive(Head(queue))), Len(Attempts(Drive(Head(queue)))) - Len(todo))'
    BY <2>6, <2>7, <2>8 DEF NoMount
  <2> QED BY <1>4, <2>3, <2>4, <2>9, <2>10 DEF Searching
<1>7. RootIsFirst'
  BY <1>4 DEF RootIsFirst
<1> QED BY <1>6, <1>7, PassedOverIs

\* The position of the drive at the head of the queue.
LEMMA ChosenAt ==
  ASSUME Hardware, Found, Left, phase \in Mounting, Suffix(queue, Order), NoRoot(Len(Order) - Len(queue)),
         NEW r, r.drive = Head(queue), Best(Drive(r.drive), r.fs, r.part)
  PROVE RootAt(r)
<1>1. queue \in Seq(DriveIds) /\ queue # <<>> /\ Order \in Seq(DriveIds)
  BY HeadOfQueue, OrderFacts
<1> DEFINE p == Len(Order) - Len(Tail(queue))
<1>2. /\ Len(Tail(queue)) = Len(queue) - 1 /\ Head(queue) = Order[p] /\ p \in 1 .. Len(Order)
      /\ Len(queue) \in 1 .. Len(Order) /\ Len(Order) \in Nat
  BY <1>1, SuffixTail
<1>3. \A n \in Nat : \A l \in 1 .. n : (n - (l - 1)) - 1 = n - l
  BY SMT
<1>4. p - 1 = Len(Order) - Len(queue)
  BY <1>2, <1>3
<1>5. DOMAIN Order = 1 .. Len(Order) /\ \A i, j \in 1 .. Len(Order) : Order[i] = Order[j] => i = j
  BY OrderFacts
<1> HIDE DEF p
<1> DEFINE i == CHOOSE i \in DOMAIN Order : Order[i] = r.drive
<1>6. p \in DOMAIN Order /\ Order[p] = r.drive
  BY <1>2, <1>5
<1>7. i \in DOMAIN Order /\ Order[i] = r.drive
  BY <1>6
<1> HIDE DEF i
<1>8. i = p
  BY <1>5, <1>6, <1>7
<1>9. \A j \in 1 .. i - 1 : Candidates(Drive(Order[j])) = {}
  BY <1>4, <1>8 DEF NoRoot
<1> QED BY <1>9 DEF RootAt, i

\* A mount attempt that succeeds.
LEMMA MountedStep ==
  ASSUME Hardware, Found, Left, PassedOver, phase = "mount",
         UNCHANGED <<machine, found>>, ~failed' => ~failed,
         Mounts(Head(todo).fs, Head(todo).part), phase' = "fhs",
         root' = [drive |-> Head(queue), fs |-> Head(todo).fs, part |-> Head(todo).part]
  PROVE PassedOver' /\ RootIsFirst'
<1>0. "fhs" \notin Mounting /\ "fhs" # "mount" /\ "mount" \in Mounting
  BY SMTT(30) DEF Mounting
<1>1. PICK r : r = root'
  OBVIOUS
<1>2. r.drive = Head(queue) /\ r.fs = Head(todo).fs /\ r.part = Head(todo).part
  <2> DEFINE d == Head(queue)   f == Head(todo).fs   p == Head(todo).part
  <2>1. r = [drive |-> d, fs |-> f, part |-> p]
    BY <1>1
  <2> HIDE DEF d, f, p
  <2>2. r.drive = d /\ r.fs = f /\ r.part = p
    BY SMTT(30), <2>1
  <2> QED BY <2>2 DEF d, f, p
<1>3. ASSUME ~failed'
      PROVE r.fs \in FileSystems /\ RootAt(r)
  <2>1. Searching
    BY <1>3, PassedOverIs
  <2> DEFINE A == Attempts(Drive(Head(queue)))
             k == Len(A) - Len(Tail(todo))
  <2>2. k \in 1 .. Len(A) /\ Head(todo) = A[k] /\ NoMount(A, k - 1) /\ Head(todo).fs \in FileSystems
    BY <2>1, AttemptInHand
  <2>3. IsDrive(Drive(Head(queue)))
    BY <1>0, HeadOfQueue
  <2>4. \A l \in 1 .. Len(A) : NoMount(A, l - 1) /\ Mounts(A[l].fs, A[l].part)
                                 => Best(Drive(Head(queue)), A[l].fs, A[l].part)
    BY <2>3, AttemptFacts
  <2> HIDE DEF A, k
  <2>5. Best(Drive(Head(queue)), Head(todo).fs, Head(todo).part)
    BY <2>2, <2>4
  <2>6. Best(Drive(r.drive), r.fs, r.part)
    BY <1>2, <2>5
  <2>7. Suffix(queue, Order) /\ NoRoot(Len(Order) - Len(queue))
    BY <1>0, <2>1 DEF Searching
  <2>8. RootAt(r)
    BY <1>0, <1>2, <2>6, <2>7, ChosenAt
  <2> QED BY <1>2, <2>2, <2>8
<1>4. RootIsFirst' <=> (root' # <<>> /\ ~failed' => RootAt(root)')
  BY DEF RootIsFirst, RootAt, Best, RankOf, Order, MountOrder
<1>5. RootAt(root)' <=> RootAt(r)
  BY <1>1, SameOrder DEF RootAt
<1>6. RootIsFirst'
  BY <1>3, <1>4, <1>5
<1>7. ~failed' => Searching'
  BY <1>0, <1>1, <1>2, <1>3 DEF Searching
<1> QED BY <1>6, <1>7, PassedOverIs

\* A mount attempt that fails.
LEMMA UnmountedStep ==
  ASSUME Hardware, Found, Left, PassedOver, phase = "mount",
         UNCHANGED <<machine, found, root>>,
         ~failed' => ~failed /\ ~Mounts(Head(todo).fs, Head(todo).part),
         todo' = Tail(todo), queue' = IF todo' = <<>> THEN Tail(queue) ELSE queue,
         phase' = IF todo' # <<>> THEN "mount" ELSE IF queue' # <<>> THEN "scan" ELSE "panic"
  PROVE PassedOver' /\ RootIsFirst'
<1>0. "mount" \in Mounting /\ "mount" \in Early \cup Mounting /\ "scan" # "mount" /\ "panic" # "mount"
      /\ "panic" \notin Mounting
  BY SMT DEF Mounting
<1>1. root' = <<>>
  BY <1>0 DEF Left
<1>2. Order' = Order /\ \A d : Drive(d)' = Drive(d)
  BY SameMachine, SameOrder
<1>3. ASSUME ~failed' PROVE Searching'
  <2>1. Searching /\ ~Mounts(Head(todo).fs, Head(todo).part)
    BY <1>3, PassedOverIs
  <2>2. Suffix(queue, Order) /\ NoRoot(Len(Order) - Len(queue))
    BY <1>0, <2>1 DEF Searching
  <2> DEFINE A == Attempts(Drive(Head(queue)))
             k == Len(A) - Len(Tail(todo))
  <2>3. /\ A \in Seq([fs : FileSystems, part : Parts(Drive(Head(queue)))])
        /\ k \in 1 .. Len(A) /\ Head(todo) = A[k] /\ NoMount(A, k - 1) /\ Suffix(Tail(todo), A)
        /\ (Tail(todo) = <<>> => k = Len(A))
    BY <2>1, AttemptInHand
  <2>4. Len(A) \in Nat
    BY <2>3, Nonempty
  <2> HIDE DEF A, k
  <2>5. NoMount(A, k)
    BY <2>1, <2>3, <2>4, NoMountMore
  <2>6. CASE Tail(todo) # <<>>
    <3>1. queue' = queue /\ phase' = "mount" /\ todo' = Tail(todo)
      BY <2>6
    <3>2. Suffix(queue, Order)'
      BY <1>2, <2>2, <3>1 DEF Suffix
    <3>3. NoRoot(Len(Order) - Len(queue))'
      BY <1>2, <2>2, <3>1 DEF NoRoot
    <3>4. Attempts(Drive(Head(queue)))' = A
      BY <1>2, <3>1 DEF A
    <3>5. Suffix(todo, Attempts(Drive(Head(queue))))'
      BY <2>3, <3>1, <3>4 DEF Suffix
    <3>6. NoMount(Attempts(Drive(Head(queue))), Len(Attempts(Drive(Head(queue)))) - Len(todo))'
      BY <2>5, <3>1, <3>4 DEF NoMount, k
    <3> QED BY <1>1, <3>2, <3>3, <3>5, <3>6 DEF Searching
  <2>7. CASE Tail(todo) = <<>>
    <3>1. queue' = Tail(queue) /\ phase' # "mount"
      BY <1>0, <2>7
    <3>2. IsDrive(Drive(Head(queue)))
      BY <1>0, HeadOfQueue
    <3>3. Candidates(Drive(Head(queue))) = {}
      BY <2>3, <2>5, <2>7, <3>2, AttemptFacts DEF A
    <3>4. Suffix(Tail(queue), Order) /\ NoRoot(Len(Order) - Len(Tail(queue)))
      BY <1>0, <2>2, <3>3, NoRootMore
    <3>5. Suffix(queue, Order)'
      BY <1>2, <3>1, <3>4 DEF Suffix
    <3>6. NoRoot(Len(Order) - Len(queue))'
      BY <1>2, <3>1, <3>4 DEF NoRoot
    <3> QED BY <1>1, <3>1, <3>5, <3>6 DEF Searching
  <2> QED BY <2>6, <2>7
<1>4. RootIsFirst'
  BY <1>1 DEF RootIsFirst
<1> QED BY <1>3, <1>4, PassedOverIs

\* Drives and volumes are passed over only if they have no root, and the first that
\* has one is taken.
LEMMA SearchStep == ASSUME Hardware, Found, Left, PassedOver, RootIsFirst, Works
  PROVE PassedOver' /\ RootIsFirst'
<1>1. CASE TryMount
  <2>1. PICK ok \in BOOLEAN :
        /\ Access(Head(queue), ok)
        /\ IF ok /\ Mounts(Head(todo).fs, Head(todo).part)
           THEN /\ root' = [drive |-> Head(queue), fs |-> Head(todo).fs, part |-> Head(todo).part]
                /\ phase' = "fhs"
           ELSE /\ todo' = Tail(todo)
                /\ queue' = IF todo' = <<>> THEN Tail(queue) ELSE queue
                /\ phase' = IF todo' # <<>> THEN "mount" ELSE IF queue' # <<>> THEN "scan" ELSE "panic"
                /\ UNCHANGED root
    BY <1>1 DEF TryMount
  <2>2. phase = "mount" /\ UNCHANGED <<machine, found>>
    BY <1>1 DEF TryMount
  <2>3. ~failed' => ~failed /\ ok
    BY <2>1 DEF Access
  <2>4. CASE ok /\ Mounts(Head(todo).fs, Head(todo).part)
    <3>1. /\ root' = [drive |-> Head(queue), fs |-> Head(todo).fs, part |-> Head(todo).part]
          /\ phase' = "fhs"
      BY <2>1, <2>4
    <3> QED BY <2>2, <2>3, <2>4, <3>1, MountedStep
  <2>5. CASE ~(ok /\ Mounts(Head(todo).fs, Head(todo).part))
    <3>1. /\ todo' = Tail(todo)
          /\ queue' = IF todo' = <<>> THEN Tail(queue) ELSE queue
          /\ phase' = IF todo' # <<>> THEN "mount" ELSE IF queue' # <<>> THEN "scan" ELSE "panic"
          /\ UNCHANGED root
      BY <2>1, <2>5
    <3>2. ~failed' => ~failed /\ ~Mounts(Head(todo).fs, Head(todo).part)
      BY <2>3, <2>5
    <3>3. UNCHANGED <<machine, found, root>>
      BY <2>2, <3>1
    <3> QED BY <2>2, <3>1, <3>2, <3>3, UnmountedStep
  <2> QED BY <2>4, <2>5
<1> QED BY <1>1, MountMoves, ElsewhereStep, QueueStep, ScanStep

\* A complete FAT32 root in a partition of a FAT32 type.
Ready == root.part.type = "fat32" /\ root.part.fs = "fat32" /\ Complete /\ Signed

\* Such a root meets the conditions of the checks.
LEMMA ReadyFacts ==
  ASSUME Hardware, PassedOver, RootIsFirst, root # <<>>, root.drive \in DriveIds, ~failed, Ready
  PROVE /\ fhs_dirs_exist(root.part) /\ root.part.sig /\ TestedAs(root)
        /\ partition_scan_mbr(Drive(root.drive)) # <<>>
        /\ Dual => Drive(Head(found.ide)).sig /\ Drive(Head(found.ahci)).sig
<1>0. root.part.type = "fat32" /\ root.part.fs = "fat32" /\ fhs_dirs_exist(root.part)
      /\ (Dual => Drive(Head(found.ide)).sig /\ Drive(Head(found.ahci)).sig)
  BY DEF Ready, Complete, Signed, fhs_dirs_exist
<1>1. root.fs \in FileSystems /\ Mounts(root.fs, root.part)
  BY PassedOverIs DEF Searching
<1>2. "fat32" # "exfat" /\ "fat32" # "ext" /\ "fat32" # "empty"
  BY SMTT(30)
<1>3. root.fs = "fat"
  <2>1. root.fs = "fat" \/ root.fs = "exfat" \/ root.fs = "ext"
    BY SMTT(30), <1>1 DEF FileSystems
  <2> QED BY <1>0, <1>1, <1>2, <2>1, RankFacts DEF exfat_mount, exfat_probe_boot, extfs_mount
<1>4. root.part.sig
  BY <1>1, <1>3, RankFacts DEF fat32_mount
<1>5. TestedAs(root)
  BY <1>0, <1>3 DEF TestedAs, partition_is_fat32
<1>6. partition_scan_mbr(Drive(root.drive)) # <<>>
  <2>1. IsDrive(Drive(root.drive))
    BY MachineFacts DEF Hardware
  <2>2. Drive(root.drive).whole.type = "empty"
    BY <2>1 DEF IsDrive
  <2>3. Best(Drive(root.drive), root.fs, root.part)
    BY RootIsFirstAt DEF RootAt
  <2>4. partition_scan_mbr(Drive(root.drive)) = <<>> => root.part = Drive(root.drive).whole
    BY <2>3 DEF Best
  <2> QED BY <1>0, <1>2, <2>2, <2>4
<1> QED BY <1>0, <1>4, <1>5, <1>6

\* A ready root passes every check, and one of its paths works.
LEMMA BootsStep ==
  ASSUME Hardware, Found, Left, Loader, GivenUp, PassedOver, RootIsFirst, Works
  PROVE BootsFat32Root'
<1> SUFFICES ASSUME root' # <<>>, ~failed', Ready', phase' = "panic" PROVE FALSE
  BY DEF BootsFat32Root, Ready
<1>a. \A d, ok : Access(d, ok) => ~failed /\ ok
  BY DEF Access
<1>1. CASE ~Loads /\ ~validate_fhs /\ ~storage_tests_run
  <2>1. Left'
    BY LeftStep
  <2>2. XhciProbe \/ UsbDone \/ IdeAbsent \/ IdeFound \/ ahci_init \/ ScanDrive \/ TryMount
    BY <1>1 DEF Works, kmain, Loads
  <2>3. CASE XhciProbe \/ UsbDone \/ IdeAbsent \/ IdeFound \/ ScanDrive
    <3>1. phase' \in {"usb", "ide", "ahci", "mount"}
      BY <2>3 DEF XhciProbe, UsbDone, IdeAbsent, IdeFound, NextUnit, ScanDrive
    <3> QED BY SMTT(30), <3>1
  <2>4. CASE ahci_init
    <3>1. phase = "ahci" /\ root' = root
      BY <2>4 DEF ahci_init
    <3>2. "ahci" \in Early
      BY SMT DEF Early
    <3> QED BY <3>1, <3>2 DEF Left
  <2>5. CASE TryMount
    <3>1. phase = "mount" /\ (phase' = "fhs" \/ root' = root)
      BY <2>5 DEF TryMount
    <3>2. "mount" \in Mounting /\ "fhs" # "panic"
      BY SMTT(30) DEF Mounting
    <3> QED BY <3>1, <3>2 DEF Left
  <2> QED BY <2>2, <2>3, <2>4, <2>5
<1>2. CASE validate_fhs \/ storage_tests_run
  <2>1. PICK d \in DriveIds, ok \in BOOLEAN : CheckDone(d, ok)
    BY <1>2, CheckStep
  <2>2. Access(d, ok) /\ phase \in Late /\ UNCHANGED <<machine, found, root>>
    BY <2>1 DEF CheckDone
  <2>3. ~failed
    BY <1>a, <2>2
  <2>4. Ready /\ root # <<>>
    <3>1. \A e : Drive(e)' = Drive(e)
      BY <2>2, SameMachine
    <3>2. Workable' = Workable
      BY <2>2, SameRoot
    <3> QED BY <2>2, <3>1, <3>2 DEF Ready, Complete, Signed, Dual, InitPaths
  <2>5. root.drive \in DriveIds
    BY <2>2 DEF Left
  <2>6. /\ fhs_dirs_exist(root.part) /\ root.part.sig /\ TestedAs(root)
        /\ partition_scan_mbr(Drive(root.drive)) # <<>>
        /\ Dual => Drive(Head(found.ide)).sig /\ Drive(Head(found.ahci)).sig
    BY <2>3, <2>4, <2>5, ReadyFacts
  <2>7. ASSUME NEW at, NEW drive, NEW c, NEW next, Check(at, drive, c, next), c, next # "panic" PROVE FALSE
    <3>1. PICK b \in BOOLEAN : Access(drive, b) /\ phase' = IF b /\ c THEN next ELSE "panic"
      BY <2>7 DEF Check
    <3> QED BY <1>a, <2>7, <3>1
  <2>8. (IF StorageTests THEN "test_block" ELSE "init") # "panic" /\ (IF Dual THEN "test_ide" ELSE "init") # "panic"
        /\ "test_mbr" # "panic" /\ "test_fs" # "panic" /\ "test_ahci" # "panic" /\ "init" # "panic"
    BY SMT
  <2>9. CASE validate_fhs
    BY <2>6, <2>7, <2>8, <2>9 DEF validate_fhs
  <2>10. CASE storage_tests_run
    <3>1. CASE Check("test_block", root.drive, root.part.sig, "test_mbr")
      BY <2>6, <2>7, <2>8, <3>1
    <3>2. CASE Check("test_mbr", root.drive, partition_scan_mbr(Drive(root.drive)) # <<>>, "test_fs")
      BY <2>6, <2>7, <2>8, <3>2
    <3>3. CASE Check("test_fs", root.drive, TestedAs(root) /\ fhs_dirs_exist(root.part), IF Dual THEN "test_ide" ELSE "init")
      BY <2>6, <2>7, <2>8, <3>3
    <3>4. CASE Check("test_ide", Head(found.ide), TRUE, "test_ahci")
      BY <2>7, <2>8, <3>4
    <3>5. CASE Check("test_ahci", Head(found.ahci),
                     Drive(Head(found.ide)).sig /\ Drive(Head(found.ahci)).sig, "init")
      <4>1. phase = "test_ahci"
        BY <3>5 DEF Check
      <4>2. Dual
        BY <4>1 DEF Left
      <4> QED BY <2>6, <2>7, <2>8, <3>5, <4>2
    <3> QED BY <2>10, <3>1, <3>2, <3>3, <3>4, <3>5 DEF storage_tests_run
  <2> QED BY <1>2, <2>9, <2>10
<1>3. CASE NextInit
  <2>1. inits = <<>> /\ load.pc = "idle" /\ root' = root /\ failed' = failed
    <3>1. load.pc = "idle" /\ root' = root /\ failed' = failed /\ phase = "init"
      BY <1>3 DEF NextInit
    <3>2. inits = <<>> \/ phase' = phase
      BY <1>3 DEF NextInit
    <3>3. "init" # "panic"
      BY SMT
    <3> QED BY <3>1, <3>2, <3>3
  <2>2. Workable' = Workable
    BY <2>1, SameRoot
  <2>3. Len(inits) = 0 /\ 3 - 0 = 3 /\ DOMAIN InitPaths = 1 .. 3
    <3>1. DOMAIN InitPaths = 1 .. Len(InitPaths) /\ 3 - 0 = 3
      BY SMTT(30), InitPathsFacts
    <3> QED BY <2>1, <3>1, InitPathsFacts, LoaderFacts
  <2>4. \A i \in DOMAIN InitPaths : InitPaths[i] \notin Workable
    BY <2>1, <2>3, GivenUpTried DEF Tried
  <2>5. \E i \in DOMAIN InitPaths : InitPaths[i] \in Workable
    BY <2>2 DEF Ready, Complete, InitPaths
  <2> QED BY <2>4, <2>5
<1>4. CASE ElfStat \/ ElfAlloc \/ ElfRead \/ ElfParse
  <2>1. phase' \in {"init", "user"}
    BY SMTT(30), <1>4 DEF ElfStat, ElfAlloc, ElfRead, ElfParse
  <2> QED BY SMTT(30), <2>1
<1> QED BY <1>1, <1>2, <1>3, <1>4 DEF Loads

----------------------------------------------------------------------------
(* The invariant holds.                                                    *)

\* A step of the controller or its driver leaves the boot code's state alone.
LEMMA BootStutters == ASSUME Underway, UNCHANGED bvars PROVE Underway'
<1>0. /\ machine' = machine /\ phase' = phase /\ unit' = unit /\ found' = found /\ bus' = bus
      /\ queue' = queue /\ todo' = todo /\ root' = root /\ inits' = inits /\ load' = load
      /\ buffers' = buffers /\ faults' = faults /\ failed' = failed
  BY DEF bvars
<1>i. /\ Hardware /\ Found /\ Left /\ Loader /\ Loading /\ GivenUp
      /\ PassedOver /\ RootIsFirst /\ BootsFat32Root
  BY DEF Underway
<1>d. DriveIds' = DriveIds /\ (\A d : Drive(d)' = Drive(d)) /\ Order' = Order /\ Files' = Files /\ Workable' = Workable
      /\ Dual' = Dual
  BY <1>0, SameMachine, SameOrder, SameRoot DEF Dual
<1>1. Hardware'
  BY <1>0, <1>i DEF Hardware
<1>2. Found'
  BY <1>0, <1>i DEF Found, InOrder
<1>3. Left'
  BY <1>0, <1>i, <1>d DEF Left
<1>4. Loader'
  BY <1>0, <1>i DEF Loader, Suffix, InitPaths
<1>5. Loading'
  BY <1>0, <1>i, <1>d DEF Loading, InitPaths
<1>6. GivenUp'
  BY <1>0, <1>i, <1>d DEF GivenUp, InitPaths
<1>7. PassedOver'
  <2>1. Searching' = Searching
    BY <1>0, <1>d DEF Searching, Suffix, NoRoot, NoMount
  <2> QED BY <1>0, <1>i, <2>1, PassedOverIs
<1>8. RootIsFirst'
  <2>1. RootIsFirst' <=> (root' # <<>> /\ ~failed' => RootAt(root)')
    BY DEF RootIsFirst, RootAt, Best, RankOf, Order, MountOrder
  <2>2. RootAt(root)' <=> RootAt(root)
    BY <1>0, <1>d DEF RootAt
  <2> QED BY <1>0, <1>i, <2>1, <2>2, RootIsFirstAt
<1>9. BootsFat32Root'
  <2>1. Complete' = Complete /\ Signed' = Signed
    BY <1>0, <1>d DEF Complete, Signed, InitPaths
  <2> QED BY <1>0, <1>i, <2>1 DEF BootsFat32Root
<1> QED BY <1>1, <1>2, <1>3, <1>4, <1>5, <1>6, <1>7, <1>8, <1>9 DEF Underway

\* It holds when kmain starts.
LEMMA InitBoot == ASSUME Init PROVE Underway
<1>0. /\ machine \in Machines /\ phase = "xhci" /\ unit = 1
      /\ found = [ide |-> <<>>, ahci |-> <<>>]
      /\ bus = [sel |-> [c \in 0 .. 1 |-> 2 * c + 1], err |-> {}, stopped |-> {}]
      /\ root = <<>> /\ inits = InitPaths /\ load = Idle /\ buffers = 0 /\ faults = 0 /\ failed = FALSE
  BY DEF Init
<1>p. /\ "xhci" \in Early \cup Mounting /\ "xhci" \notin Mounting /\ "xhci" \notin Late /\ "xhci" # "mount"
      /\ "xhci" \notin {"test_ide", "test_ahci"} /\ "xhci" \notin {"init", "user", "panic"}
  BY SMT DEF Early, Mounting, Late
<1>1. Hardware
  <2>1. bus.sel = [c \in 0 .. 1 |-> 2 * c + 1] /\ bus.err = {} /\ bus.stopped = {}
    BY SMTT(30), <1>0
  <2>2. \A c \in 0 .. 1 : 2 * c + 1 \in Units /\ Channel(2 * c + 1) = c
    <3>1. 2 * 0 + 1 \in Units /\ 2 * 1 + 1 \in Units /\ Channel(2 * 0 + 1) = 0 /\ Channel(2 * 1 + 1) = 1
      BY SMTT(30) DEF Units, Channel
    <3>2. \A c \in 0 .. 1 : c = 0 \/ c = 1
      BY SMTT(30)
    <3> QED BY <3>1, <3>2
  <2>3. bus.sel \in [0 .. 1 -> Units] /\ \A c \in 0 .. 1 : Channel(bus.sel[c]) = c
    BY <2>1, <2>2
  <2>4. bus \in [sel : [0 .. 1 -> Units], err : SUBSET Units, stopped : SUBSET Nat]
    <3> DEFINE f == [c \in 0 .. 1 |-> 2 * c + 1]   F == [0 .. 1 -> Units]
    <3>1. f \in F /\ bus = [sel |-> f, err |-> {}, stopped |-> {}]
      BY <1>0, <2>1, <2>3
    <3> HIDE DEF f, F
    <3>2. bus \in [sel : F, err : SUBSET Units, stopped : SUBSET Nat]
      BY SMTT(30), <3>1
    <3> QED BY <3>2 DEF F
  <2>5. phase \in Early \cup Mounting \cup Late \cup {"panic"}
    BY <1>0, <1>p
  <2>6. unit \in 1 .. 5 /\ unit # 5 /\ faults \in 0 .. MaxFaults /\ failed \in BOOLEAN
    <3>1. \A n \in Nat : 0 \in 0 .. n
      BY SMTT(30)
    <3>2. 1 \in 1 .. 5 /\ 1 # 5 /\ FALSE \in BOOLEAN
      BY SMTT(30)
    <3>3. MaxFaults \in Nat
      BY BootAssumption
    <3> QED BY <1>0, <3>1, <3>2, <3>3
  <2> QED BY <1>0, <2>3, <2>4, <2>5, <2>6 DEF Hardware
<1>2. Found
  <2>1. found.ide = <<>> /\ found.ahci = <<>> /\ found = [ide |-> found.ide, ahci |-> found.ahci]
    BY SMTT(30), <1>0
  <2>2. Len(<<>>) = 0 /\ 0 < 1 /\ 1 .. 0 = {} /\ (\A S : <<>> \in Seq(S)) /\ 0 <= AHCI_MAX_DEVICES
    BY SMTT(30), BootAssumption
  <2>3. InOrder(<<>>)
    BY <2>2 DEF InOrder
  <2> QED BY <1>0, <2>1, <2>2, <2>3 DEF Found
<1>3. Left
  BY <1>0, <1>p DEF Left
<1>4. Loader
  <2>1. load = [pc |-> "idle", path |-> "", argv1 |-> "", began |-> ""]
    BY <1>0 DEF Idle
  <2>2. load = [pc |-> load.pc, path |-> load.path, argv1 |-> load.argv1, began |-> load.began] /\ load.pc = "idle"
    BY <2>1
  <2>3. Suffix(inits, InitPaths) /\ inits \in Seq({"/sbin/init", "/INIT"}) /\ Len(inits) = 3
    BY <1>0, InitPathsFacts, SuffixSelf
  <2>4. "idle" \in {"idle", "stat", "alloc", "read", "parse"} /\ "idle" \notin {"read", "parse"} /\ "xhci" # "user"
        /\ "xhci" # "panic"
    BY SMT
  <2> QED BY <1>0, <2>2, <2>3, <2>4 DEF Loader
<1>5. load.pc = "idle" /\ Len(inits) = 3 /\ 1 .. 3 - 3 = {}
  <2>1. load = [pc |-> "idle", path |-> "", argv1 |-> "", began |-> ""]
    BY <1>0 DEF Idle
  <2>2. load.pc = "idle"
    BY <2>1
  <2>3. 1 .. 3 - 3 = {}
    BY SMT
  <2> QED BY <1>0, <2>2, <2>3, InitPathsFacts
<1>6. Loading /\ GivenUp
  BY <1>5 DEF Loading, GivenUp
<1>7. PassedOver /\ RootIsFirst /\ BootsFat32Root
  BY <1>0, <1>p DEF PassedOver, RootIsFirst, BootsFat32Root
<1> QED BY <1>1, <1>2, <1>3, <1>4, <1>6, <1>7 DEF Underway

\* While it is under way every variable has its type.
LEMMA UnderwayTypes == ASSUME Underway PROVE TypeOK
<1>i. Hardware /\ Found /\ Left /\ Loader
  BY DEF Underway
<1>1. unit \in 1 .. 5 /\ (\A c \in 0 .. 1 : Channel(bus.sel[c]) = c) /\ faults \in 0 .. MaxFaults
  BY <1>i DEF Hardware
<1>2. bus.err \subseteq Units
  <2>1. bus \in BusType
    BY <1>i DEF Hardware, BusType
  <2> QED BY SMTT(30), <2>1 DEF BusType
<1>3. Len(found.ide) <= 4 /\ Len(found.ahci) <= AHCI_MAX_DEVICES
  <2>1. found.ide \in Seq({"ide"} \X Units) /\ Len(found.ide) < unit /\ Len(found.ahci) <= AHCI_MAX_DEVICES
    BY <1>i DEF Found
  <2>2. Len(found.ide) \in Nat
    BY <2>1, Nonempty
  <2>3. \A u \in 1 .. 5 : \A n \in Nat : n < u => n <= 4
    BY SMTT(30)
  <2> QED BY <1>1, <2>1, <2>2, <2>3
<1>4. load.pc \in {"idle", "stat", "alloc", "read", "parse"}
      /\ buffers = IF phase = "init" /\ load.pc \in {"read", "parse"} THEN 1 ELSE 0
  BY <1>i DEF Loader
<1>5. buffers \in 0 .. 1
  <2>1. 0 \in 0 .. 1 /\ 1 \in 0 .. 1
    BY SMT
  <2> QED BY <1>4, <2>1
<1>6. phase = "mount" => todo # <<>> /\ queue # <<>>
  <2>1. "mount" \in Mounting
    BY SMTT(30) DEF Mounting
  <2> QED BY <1>i, <2>1 DEF Left
<1> QED BY <1>1, <1>2, <1>3, <1>4, <1>5, <1>6 DEF TypeOK

\* While it is under way no buffer is left behind.
LEMMA UnderwayFrees == ASSUME Underway PROVE LoaderFreesBuffers
<1> SUFFICES ASSUME Ended \/ load.pc \in {"idle", "stat", "alloc"} PROVE buffers = 0
  BY DEF LoaderFreesBuffers
<1>1. buffers = IF phase = "init" /\ load.pc \in {"read", "parse"} THEN 1 ELSE 0
  BY DEF Underway, Loader
<1>2. ~(phase = "init" /\ load.pc \in {"read", "parse"})
  BY SMTT(30) DEF Ended
<1> QED BY <1>1, <1>2

\* A step into one of the waits of the AHCI driver.
LEMMA HangStep == ASSUME Underway, start_port \/ ahci_waits PROVE Hung'
<1>1. /\ phase' = "hung" /\ failed' = TRUE
      /\ UNCHANGED <<machine, unit, found, bus, queue, todo, root, inits, load, buffers>>
      /\ faults' = faults \/ (faults < MaxFaults /\ faults' = faults + 1)
  BY DEF start_port, ahci_waits, Hang
<1>2. TypeOK /\ LoaderFreesBuffers
  BY UnderwayTypes, UnderwayFrees
<1>3. "hung" # "mount" /\ "hung" \notin {"user", "panic"}
  BY SMTT(30)
<1>4. faults' \in 0 .. MaxFaults
  <2>1. faults \in 0 .. MaxFaults /\ MaxFaults \in Nat
    BY <1>2, BootAssumption DEF TypeOK
  <2> QED BY SMTT(30), <1>1, <2>1
<1>5. TypeOK'
  BY <1>1, <1>2, <1>3, <1>4 DEF TypeOK
<1>6. LoaderFreesBuffers'
  BY <1>1, <1>2, <1>3 DEF LoaderFreesBuffers, Ended
<1> QED BY <1>1, <1>5, <1>6 DEF Hung

\* kmain takes no step any more.
LEMMA HungStays == ASSUME phase = "hung" PROVE ~kmain
<1>1. ~XhciProbe /\ ~UsbDone /\ ~IdeAbsent /\ ~IdeFound /\ ~ahci_init /\ ~start_port
  BY SMTT(30) DEF XhciProbe, UsbDone, IdeAbsent, IdeFound, ahci_init, start_port
<1>2. ~ahci_waits
  BY SMTT(30) DEF ahci_waits, Accessing
<1>3. ~ScanDrive /\ ~TryMount
  BY SMTT(30) DEF ScanDrive, TryMount
<1>4. ~validate_fhs /\ ~storage_tests_run
  BY SMTT(30) DEF validate_fhs, storage_tests_run, Check
<1>5. ~NextInit /\ ~ElfStat /\ ~ElfAlloc /\ ~ElfRead /\ ~ElfParse
  BY SMTT(30) DEF NextInit, ElfStat, ElfAlloc, ElfRead, ElfParse
<1> QED BY <1>1, <1>2, <1>3, <1>4, <1>5 DEF kmain

\* Every step keeps it.
LEMMA NextBoot == ASSUME BootInv, [Next]_vars PROVE BootInv'
<1>1. CASE Underway /\ UNCHANGED bvars
  BY <1>1, BootStutters DEF BootInv
<1>2. CASE Underway /\ Works
  <2>1. /\ Hardware /\ Found /\ Left /\ Loader /\ Loading /\ GivenUp
        /\ PassedOver /\ RootIsFirst /\ BootsFat32Root
    BY <1>2 DEF Underway
  <2> QED BY <1>2, <2>1, HardwareStep, FoundStep, LeftStep, LoaderStep, LoadingStep, GivenUpStep,
             SearchStep, BootsStep DEF Underway, BootInv
<1>3. CASE Underway /\ kmain /\ ~Works
  BY <1>3, HangStep DEF Works, BootInv
<1>4. CASE Hung
  <2>1. UNCHANGED bvars
    BY <1>4, HungStays, BootStep DEF Hung
  <2>2. TypeOK' /\ LoaderFreesBuffers'
    BY <1>4, <2>1 DEF Hung, TypeOK, LoaderFreesBuffers, Ended, bvars
  <2> QED BY <1>4, <2>1, <2>2 DEF Hung, BootInv, bvars
<1> QED BY <1>1, <1>2, <1>3, <1>4, BootStep DEF BootInv

\* BootInv is an invariant: whatever the machine has, whichever accesses fail and
\* whichever wait never ends.
THEOREM BootInvariant == Spec => []BootInv
<1>1. Init => BootInv
  BY InitBoot DEF BootInv
<1>2. BootInv /\ [Next]_vars => BootInv'
  BY NextBoot
<1> QED BY <1>1, <1>2, PTL DEF Spec

\* Every variable of the boot code has its type: the units stay on their channels, the
\* tables of drives within their limits, at most one ELF buffer is held, and the mounts
\* never look at an empty queue.
THEOREM BootTypes == Spec => []TypeOK
<1>1. BootInv => TypeOK
  BY UnderwayTypes DEF BootInv, Hung
<1> QED BY <1>1, BootInvariant, PTL

\* elf_load_and_run_inner frees every buffer it allocates, whichever path, interpreter
\* or failure it goes through.
THEOREM BuffersFreed == Spec => []LoaderFreesBuffers
<1>1. BootInv => LoaderFreesBuffers
  BY UnderwayFrees DEF BootInv, Hung
<1> QED BY <1>1, BootInvariant, PTL

\* find_and_mount_root takes the preferred volume of the first drive that has one, AHCI
\* before IDE, FAT before exFAT before ext.
THEOREM RootFirst == Spec => []RootIsFirst
<1>1. BootInv => RootIsFirst
  BY DEF BootInv, Underway, Hung, RootIsFirst
<1> QED BY <1>1, BootInvariant, PTL

\* kmain enters ring 3 with the first init path that leads to a program through its
\* interpreters, and reports none only if none does.
THEOREM InitWorks == Spec => []FirstWorkingInit
<1>1. BootInv => FirstWorkingInit
  <2>1. CASE Underway
    BY <2>1, FirstWorking DEF Underway
  <2>2. CASE Hung
    <3>1. "hung" # "user" /\ "hung" # "panic"
      BY SMTT(30)
    <3> QED BY <2>2, <3>1 DEF Hung, FirstWorkingInit
  <2> QED BY <2>1, <2>2 DEF BootInv
<1> QED BY <1>1, BootInvariant, PTL

\* No check between the mount and ring 3 panics on a complete FAT32 root.
THEOREM Fat32Boots == Spec => []BootsFat32Root
<1>1. BootInv => BootsFat32Root
  BY DEF BootInv, Underway, Hung, BootsFat32Root
<1> QED BY <1>1, BootInvariant, PTL

\* The PCI searches return the first function that matches, on every well-formed set of
\* buses.
THEOREM SearchesFindFirst == Spec => []FindsFirst
<1>1. BootInv => FindsFirst
  <2> SUFFICES ASSUME BootInv, phase = "xhci", WellFormed(machine.pci), NEW c, NEW i, NEW d
               PROVE LET pci == machine.pci
                         of == {a \in DOMAIN pci : pci[a].class = c}
                     IN  /\ IsFirst({a \in of : pci[a].prog_if = i}, pci_find_class(pci, c, i))
                         /\ IsFirst(of, pci_find_class_any_prog_if(pci, c))
                         /\ IsFirst({a \in DOMAIN pci : pci[a].device = d}, pci_find_device(pci, d))
    BY DEF FindsFirst
  <2> DEFINE pci == machine.pci
             of == {a \in DOMAIN pci : pci[a].class = c}
             ofi == {a \in of : pci[a].prog_if = i}
             dev == {a \in DOMAIN pci : pci[a].device = d}
  <2>1. DOMAIN pci \subseteq Address
    <3>1. "xhci" # "hung"
      BY SMTT(30)
    <3> QED BY <3>1, BootAssumption DEF BootInv, Underway, Hung, Hardware
  <2>2. of \in SUBSET DOMAIN pci /\ ofi \in SUBSET DOMAIN pci /\ dev \in SUBSET DOMAIN pci
    OBVIOUS
  <2>3. /\ pci_find_class(pci, c, i) = Find(pci, ofi)
        /\ pci_find_class_any_prog_if(pci, c) = Find(pci, of)
        /\ pci_find_device(pci, d) = Find(pci, dev)
    BY DEF pci_find_class, pci_find_class_any_prog_if, pci_find_device, OfClass
  <2> HIDE DEF of, ofi, dev
  <2>4. IsFirst(ofi, Find(pci, ofi)) /\ IsFirst(of, Find(pci, of)) /\ IsFirst(dev, Find(pci, dev))
    BY <2>1, <2>2, SearchIsFirst
  <2> QED BY <2>3, <2>4 DEF of, ofi, dev
<1> QED BY <1>1, BootInvariant, PTL
=============================================================================
