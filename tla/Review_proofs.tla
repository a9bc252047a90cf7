---------------------------- MODULE Review_proofs ----------------------------
(***************************************************************************)
(* Theorems about Review, for every catalogue, every size an item may have *)
(* and every disk.  A sum over a set is a recursive function: that it is   *)
(* there, and does not depend on the order in which the items are counted, *)
(* is proved by induction over the subsets of a finite set, in the form    *)
(* that the strict subset relation is well founded.                        *)
(***************************************************************************)
EXTENDS Review, FiniteSetTheorems, WellFoundedInduction, TLAPS

(* Sums *)

LEMMA SubsetInduction ==
  ASSUME NEW S, IsFiniteSet(S), NEW Good,
         \A T \in SUBSET S : (\A U \in SUBSET T : U # T => U \in Good) => T \in Good
  PROVE  SUBSET S \subseteq Good
<1>1. IsWellFoundedOn(StrictSubsetOrdering(S), SUBSET S)
  BY FS_StrictSubsetOrderingWellFounded, FS_FiniteSubsetsOfFinite
<1> DEFINE Bad == (SUBSET S) \ Good
<1> SUFFICES ASSUME Bad # {} PROVE FALSE
  OBVIOUS
<1>2. Bad \subseteq SUBSET S
  OBVIOUS
<1> HIDE DEF Bad
<1>3. PICK T \in Bad : \A U \in Bad : <<U, T>> \notin StrictSubsetOrdering(S)
  BY <1>1, <1>2, WFMin
<1>4. \A U \in SUBSET T : U # T => U \in Good
  BY <1>2, <1>3 DEF Bad, StrictSubsetOrdering
<1> QED
  BY <1>2, <1>3, <1>4 DEF Bad

One(s) == CHOOSE x \in s : TRUE
Rest(s) == s \ {One(s)}

(* The recursion of MapThenSumSet, for the sizes of the subsets of S.        *)
Obeys(f, S) ==
  f = [s \in SUBSET S |-> IF s = {} THEN 0 ELSE DiskMb[One(s)] + f[Rest(s)]]
Sizes(S) == CHOOSE f : Obeys(f, S)

LEMMA SizeIs ==
  ASSUME NEW S
  PROVE  SizeOf(S) = Sizes(S)[S]
BY DEF SizeOf, MapThenSumSet, MapThenFoldSet, Obeys, Sizes, One, Rest

LEMMA RestIs ==
  ASSUME NEW s, s # {}
  PROVE  One(s) \in s /\ Rest(s) \in SUBSET s /\ Rest(s) # s
BY DEF One, Rest

(* Two functions that obey the recursion agree where both are defined.       *)
LEMMA Unique ==
  ASSUME NEW S, IsFiniteSet(S), NEW T \in SUBSET S, NEW f, Obeys(f, S), NEW g, Obeys(g, T)
  PROVE  \A s \in SUBSET T : f[s] = g[s]
<1> DEFINE Good == {s \in SUBSET T : f[s] = g[s]}
<1>1. ASSUME NEW s \in SUBSET T, \A u \in SUBSET s : u # s => u \in Good
      PROVE  s \in Good
  <2>1. f[s] = IF s = {} THEN 0 ELSE DiskMb[One(s)] + f[Rest(s)]
    BY DEF Obeys
  <2>2. g[s] = IF s = {} THEN 0 ELSE DiskMb[One(s)] + g[Rest(s)]
    BY DEF Obeys
  <2>3. s # {} => f[Rest(s)] = g[Rest(s)]
    BY <1>1, RestIs
  <2> QED
    BY <2>1, <2>2, <2>3
<1>2. IsFiniteSet(T)
  BY FS_Subset
<1> HIDE DEF Good
<1>3. SUBSET T \subseteq Good
  BY <1>1, <1>2, SubsetInduction
<1> QED
  BY <1>3 DEF Good

(* There is a function that does. *)
LEMMA SizesObey ==
  ASSUME NEW S, IsFiniteSet(S)
  PROVE  Obeys(Sizes(S), S)
<1> DEFINE Good == {T \in SUBSET S : \E f : Obeys(f, T)}
<1>1. ASSUME NEW T \in SUBSET S, \A U \in SUBSET T : U # T => U \in Good
      PROVE  T \in Good
  <2> DEFINE g == [s \in SUBSET T |-> IF s = {} THEN 0 ELSE DiskMb[One(s)] + Sizes(Rest(s))[Rest(s)]]
  <2>1. \A U \in SUBSET T : U # T => Obeys(Sizes(U), U)
    BY <1>1 DEF Sizes
  <2>2. ASSUME NEW s \in SUBSET T, s # T
        PROVE  g[s] = Sizes(s)[s]
    <3>1. Obeys(Sizes(s), s)
      BY <2>1, <2>2
    <3>2. Sizes(s)[s] = IF s = {} THEN 0 ELSE DiskMb[One(s)] + Sizes(s)[Rest(s)]
      BY <3>1 DEF Obeys
    <3>3. ASSUME s # {} PROVE Sizes(s)[Rest(s)] = Sizes(Rest(s))[Rest(s)]
      <4>1. Rest(s) \in SUBSET s /\ Rest(s) \in SUBSET T /\ Rest(s) # T
        BY <2>2, <3>3, RestIs
      <4>2. Obeys(Sizes(Rest(s)), Rest(s)) /\ IsFiniteSet(s)
        BY <2>1, <4>1, FS_Subset
      <4> QED
        BY <3>1, <4>1, <4>2, Unique
    <3> QED
      BY <3>2, <3>3
  <2>3. ASSUME NEW s \in SUBSET T, s # {}
        PROVE  g[Rest(s)] = Sizes(Rest(s))[Rest(s)]
    <3>1. Rest(s) \in SUBSET T /\ Rest(s) # T
      BY <2>3, RestIs
    <3> QED
      BY <2>2, <3>1
  <2>4. \A s \in SUBSET T : g[s] = IF s = {} THEN 0 ELSE DiskMb[One(s)] + g[Rest(s)]
    BY <2>3
  <2>5. g = [s \in SUBSET T |-> g[s]]
    OBVIOUS
  <2> HIDE DEF g
  <2>6. Obeys(g, T)
    BY <2>4, <2>5 DEF Obeys
  <2> QED
    BY <2>6
<1> HIDE DEF Good
<1>2. SUBSET S \subseteq Good
  BY <1>1, SubsetInduction
<1> QED
  BY <1>2 DEF Good, Sizes

LEMMA SizeSteps ==
  ASSUME NEW S, IsFiniteSet(S)
  PROVE  /\ SizeOf({}) = 0
         /\ S # {} => SizeOf(S) = DiskMb[One(S)] + SizeOf(Rest(S))
<1>1. Obeys(Sizes(S), S) /\ Obeys(Sizes({}), {})
  BY SizesObey, FS_EmptySet
<1>2. Sizes(S)[S] = IF S = {} THEN 0 ELSE DiskMb[One(S)] + Sizes(S)[Rest(S)]
  BY <1>1 DEF Obeys
<1>3. ASSUME S # {} PROVE Sizes(S)[Rest(S)] = Sizes(Rest(S))[Rest(S)]
  <2>1. Rest(S) \in SUBSET S
    BY <1>3, RestIs
  <2>2. Obeys(Sizes(Rest(S)), Rest(S))
    BY <2>1, SizesObey, FS_Subset
  <2> QED
    BY <1>1, <2>1, <2>2, Unique
<1>4. Sizes({})[{}] = 0
  BY <1>1 DEF Obeys
<1> QED
  BY <1>2, <1>3, <1>4, SizeIs

LEMMA SizeTyped ==
  ASSUME NEW S \in SUBSET Items
  PROVE  IsFiniteSet(S) /\ SizeOf(S) \in Nat
<1> DEFINE Good == {T \in SUBSET Items : SizeOf(T) \in Nat}
<1>1. IsFiniteSet(Items) /\ DiskMb \in [Items -> Nat]
  BY ReviewAssumption
<1>2. ASSUME NEW T \in SUBSET Items, \A U \in SUBSET T : U # T => U \in Good
      PROVE  T \in Good
  <2>1. CASE T = {}
    BY <2>1, SizeSteps, FS_EmptySet
  <2>2. CASE T # {}
    <3>1. One(T) \in T /\ Rest(T) \in Good
      BY <1>2, <2>2, RestIs
    <3>2. SizeOf(T) = DiskMb[One(T)] + SizeOf(Rest(T))
      BY <1>1, <2>2, SizeSteps, FS_Subset
    <3>3. DiskMb[One(T)] \in Nat /\ SizeOf(Rest(T)) \in Nat
      BY <1>1, <3>1
    <3> QED
      BY <3>2, <3>3
  <2> QED
    BY <2>1, <2>2
<1> HIDE DEF Good
<1>3. SUBSET Items \subseteq Good
  BY <1>1, <1>2, SubsetInduction
<1>4. SizeOf(S) \in Nat
  BY <1>3 DEF Good
<1> QED
  BY <1>1, <1>4, FS_Subset

(* It does not matter which item is counted first. *)
LEMMA SizeWithout ==
  ASSUME NEW S \in SUBSET Items, NEW x \in S
  PROVE  SizeOf(S) = DiskMb[x] + SizeOf(S \ {x})
<1> DEFINE Good == {T \in SUBSET Items : \A z \in T : SizeOf(T) = DiskMb[z] + SizeOf(T \ {z})}
<1>1. IsFiniteSet(Items) /\ DiskMb \in [Items -> Nat]
  BY ReviewAssumption
<1>2. ASSUME NEW T \in SUBSET Items, \A U \in SUBSET T : U # T => U \in Good
      PROVE  T \in Good
  <2> SUFFICES ASSUME NEW z \in T PROVE SizeOf(T) = DiskMb[z] + SizeOf(T \ {z})
    OBVIOUS
  <2>1. PICK y : y = One(T)
    OBVIOUS
  <2>2. y \in T /\ SizeOf(T) = DiskMb[y] + SizeOf(T \ {y})
    BY <2>1, SizeTyped, SizeSteps, RestIs DEF Rest
  <2>3. CASE z = y
    BY <2>2, <2>3
  <2>4. CASE z # y
    <3>1. T \ {y} \in Good /\ T \ {z} \in Good
      BY <1>2, <2>2
    <3>2. SizeOf(T \ {y}) = DiskMb[z] + SizeOf((T \ {y}) \ {z})
      BY <2>4, <3>1
    <3>3. SizeOf(T \ {z}) = DiskMb[y] + SizeOf((T \ {z}) \ {y})
      BY <2>2, <2>4, <3>1
    <3>4. (T \ {y}) \ {z} = (T \ {z}) \ {y}
      OBVIOUS
    <3>5. DiskMb[y] \in Nat /\ DiskMb[z] \in Nat /\ SizeOf((T \ {z}) \ {y}) \in Nat
      BY <1>1, <2>2, SizeTyped
    <3> HIDE DEF Good
    <3> QED
      BY <2>2, <3>2, <3>3, <3>4, <3>5
  <2> QED
    BY <2>3, <2>4
<1> HIDE DEF Good
<1>3. SUBSET Items \subseteq Good
  BY <1>1, <1>2, SubsetInduction
<1> QED
  BY <1>3 DEF Good

(* What is left out of a selection makes it no larger. *)
LEMMA SizeGrows ==
  ASSUME NEW S \in SUBSET Items, NEW T \in SUBSET S
  PROVE  SizeOf(T) <= SizeOf(S)
<1> DEFINE Good == {U \in SUBSET Items : \A V \in SUBSET U : SizeOf(V) <= SizeOf(U)}
<1>1. IsFiniteSet(Items) /\ DiskMb \in [Items -> Nat]
  BY ReviewAssumption
<1>2. ASSUME NEW U \in SUBSET Items, \A W \in SUBSET U : W # U => W \in Good
      PROVE  U \in Good
  <2> SUFFICES ASSUME NEW V \in SUBSET U PROVE SizeOf(V) <= SizeOf(U)
    OBVIOUS
  <2>1. SizeOf(V) \in Nat /\ SizeOf(U) \in Nat
    BY SizeTyped
  <2>2. CASE V # U
    <3>1. PICK x \in U : x \notin V
      BY <2>2
    <3>2. U \ {x} \in Good /\ V \in SUBSET (U \ {x})
      BY <1>2, <3>1
    <3>3. SizeOf(V) <= SizeOf(U \ {x})
      BY <3>2
    <3>4. SizeOf(U) = DiskMb[x] + SizeOf(U \ {x})
      BY SizeWithout
    <3>5. DiskMb[x] \in Nat /\ SizeOf(U \ {x}) \in Nat
      BY <1>1, SizeTyped
    <3> HIDE DEF Good
    <3> QED
      BY <2>1, <3>3, <3>4, <3>5
  <2> QED
    BY <2>1, <2>2
<1> HIDE DEF Good
<1>3. SUBSET Items \subseteq Good
  BY <1>1, <1>2, SubsetInduction
<1> QED
  BY <1>3 DEF Good

LEMMA BufferGrows ==
  ASSUME NEW m \in Nat, NEW n \in Nat, m <= n
  PROVE  WithBuffer(m) \in Nat /\ WithBuffer(m) <= WithBuffer(n)
BY DEF WithBuffer

LEMMA EstimateGrows ==
  ASSUME NEW S \in SUBSET Items, NEW T \in SUBSET S
  PROVE  /\ EstimateDiskMb(T) \in Nat /\ EstimateDiskMb(S) \in Nat
         /\ EstimateDiskMb(T) <= EstimateDiskMb(S)
<1>1. SizeOf(T) \in Nat /\ SizeOf(S) \in Nat /\ SizeOf(T) <= SizeOf(S)
  BY SizeTyped, SizeGrows
<1>2. T \cap Flatpaks # {} => S \cap Flatpaks # {}
  OBVIOUS
<1> QED
  BY <1>1, <1>2 DEF EstimateDiskMb, FlatpakMb

-----------------------------------------------------------------------------
(* The page *)

NeedForAll == WithBuffer(EstimateDiskMb(seen.selected))

ChoicesTyped == selected \in SUBSET Items /\ seen.selected \in SUBSET Items
DiskTyped == free \in Nat /\ seen.available \in Nat \cup {Unknown} /\ proceeded \in BOOLEAN

(* What was found at the last rebuild() is what diskOk and the banner say,   *)
(* as long as Proceed Anyway has not been pressed.                           *)
GateInv ==
  diskOk /\ ~proceeded => \/ seen.available \in {Unknown, 0}
                          \/ seen.available >= NeedForAll
AlarmInv ==
  banner = "short" => /\ ~diskOk /\ ~proceeded /\ proceedVisible
                      /\ seen.available < NeedForAll
ReviewInv == ChoicesTyped /\ DiskTyped /\ GateInv /\ AlarmInv

LEMMA InitReview == Init => ReviewInv
<1> SUFFICES ASSUME Init PROVE ReviewInv
  OBVIOUS
<1>1. ChoicesTyped /\ DiskTyped
  BY ReviewAssumption DEF Init, ChoicesTyped, DiskTyped
<1>2. GateInv /\ AlarmInv
  BY DEF Init, GateInv, AlarmInv
<1> QED
  BY <1>1, <1>2 DEF ReviewInv

LEMMA RebuildKeeps ==
  ASSUME ReviewInv, NEW going \in BOOLEAN, Rebuild(going), proceeded' = going, UNCHANGED <<selected, free>>
  PROVE  ReviewInv'
<1>1. PICK answer \in {free, Unknown} :
        LET available == Available(answer)
            short == ~going /\ TooSmall(available, WithBuffer(EstimateDiskMb(selected)))
        IN  /\ seen' = [available |-> answer, selected |-> selected, amd |-> amd]
            /\ \/ available = Unknown /\ banner' = "unknown"
               \/ available # Unknown /\ short /\ banner' = "short" /\ ~diskOk' /\ proceedVisible'
               \/ available # Unknown /\ ~short /\ banner' = "fits"
  BY DEF Rebuild
<1>2. seen'.available = answer /\ seen'.selected = selected /\ answer \in Nat \cup {Unknown}
  BY <1>1 DEF ReviewInv, DiskTyped
<1>3. ChoicesTyped' /\ DiskTyped'
  BY <1>2 DEF ReviewInv, ChoicesTyped, DiskTyped
<1>4. WithBuffer(EstimateDiskMb(selected)) \in Nat
  BY EstimateGrows, BufferGrows DEF ReviewInv, ChoicesTyped
<1>5. NeedForAll' = WithBuffer(EstimateDiskMb(selected))
  BY <1>2 DEF NeedForAll
<1>6. Available(answer) = Unknown <=> answer \in {Unknown, 0}
  BY <1>2 DEF Available, Unknown
<1>7. Available(answer) # Unknown => Available(answer) = answer
  BY DEF Available
<1> DEFINE need == WithBuffer(EstimateDiskMb(selected))
<1>8. TooSmall(answer, need) <=> answer < need
  BY DEF TooSmall
<1>9. answer < need \/ answer >= need
  BY <1>2, <1>4 DEF Unknown
<1> HIDE DEF need
<1>10. GateInv'
  BY <1>1, <1>2, <1>5, <1>6, <1>7, <1>8, <1>9 DEF GateInv, need
<1>11. AlarmInv'
  BY <1>1, <1>2, <1>5, <1>7, <1>8 DEF AlarmInv, need
<1> QED
  BY <1>3, <1>10, <1>11 DEF ReviewInv

LEMMA ReviewStep == ReviewInv /\ [Next]_vars => ReviewInv'
<1> SUFFICES ASSUME ReviewInv, [Next]_vars PROVE ReviewInv'
  OBVIOUS
<1>1. ASSUME UNCHANGED page, selected' \in SUBSET Items, free' \in Nat PROVE ReviewInv'
  BY <1>1 DEF page, ReviewInv, ChoicesTyped, DiskTyped, GateInv, AlarmInv, NeedForAll
<1>2. CASE Show
  <2>1. Rebuild(proceeded) /\ UNCHANGED <<proceeded, selected, free>>
    BY <1>2 DEF Show, OnShown, choices
  <2>2. proceeded \in BOOLEAN
    BY DEF ReviewInv, DiskTyped
  <2> QED
    BY <2>1, <2>2, RebuildKeeps
<1>3. CASE Proceed
  BY <1>3, RebuildKeeps DEF Proceed, choices
<1>4. CASE Leave \/ ChooseGpu \/ UNCHANGED vars
  BY <1>1, <1>4 DEF Leave, ChooseGpu, vars, choices, ReviewInv, ChoicesTyped, DiskTyped
<1>5. CASE DiskChanges
  BY <1>1, <1>5, ReviewAssumption DEF DiskChanges, choices, ReviewInv, ChoicesTyped
<1>6. ASSUME NEW item \in Items, Toggle(item) PROVE ReviewInv'
  BY <1>1, <1>6 DEF Toggle, ReviewInv, ChoicesTyped, DiskTyped
<1> QED
  BY <1>2, <1>3, <1>4, <1>5, <1>6 DEF Next

LEMMA ReviewInvariant == Spec => []ReviewInv
BY InitReview, ReviewStep, PTL DEF Spec

(* Continue is on the screen only if, at the last look at the disk, there    *)
(* was room for the plan that is shown, or nothing could be said, or Proceed *)
(* Anyway was pressed, for every catalogue: what the selection has more than *)
(* the plan makes the estimate no smaller (reviewpage.cpp, estimateDiskMb()).*)
THEOREM Gate == Spec => []GateHolds
<1>1. ReviewInv => GateHolds
  <2> SUFFICES ASSUME ReviewInv, diskOk, ~proceeded
               PROVE  seen.available >= Needed \/ seen.available = Unknown \/ seen.available = 0
    BY DEF GateHolds, Continue
  <2>1. Planned \in SUBSET seen.selected /\ seen.selected \in SUBSET Items
    BY DEF Planned, ReviewInv, ChoicesTyped
  <2>2. Needed = WithBuffer(EstimateDiskMb(Planned))
    BY DEF Needed, EstimateDiskMb
  <2>3. Needed \in Nat /\ Needed <= NeedForAll /\ NeedForAll \in Nat
    BY <2>1, <2>2, EstimateGrows, BufferGrows DEF NeedForAll
  <2>4. seen.available \in {Unknown, 0} \/ seen.available >= NeedForAll
    BY DEF ReviewInv, GateInv
  <2>5. seen.available \in Nat \cup {Unknown}
    BY DEF ReviewInv, DiskTyped
  <2> QED
    BY <2>3, <2>4, <2>5
<1> QED
  BY <1>1, ReviewInvariant, PTL

(* When the page calls the disk too small, Continue is off the screen, the   *)
(* way past it is on it, and the disk is too small for the plan, unless      *)
(* drivers are selected that this GPU's plan leaves out (plan.cpp:571).      *)
THEOREM Alarm == Spec => []AlarmIsTrue
<1>1. ReviewInv => AlarmIsTrue
  <2> SUFFICES ASSUME ReviewInv, banner = "short"
               PROVE  /\ ~Continue /\ proceedVisible
                      /\ seen.available < Needed \/ (~seen.amd /\ seen.selected \cap Drivers # {})
    BY DEF AlarmIsTrue
  <2>1. ~diskOk /\ ~proceeded /\ proceedVisible /\ seen.available < NeedForAll
    BY DEF ReviewInv, AlarmInv
  <2>2. seen.amd \/ seen.selected \cap Drivers = {} => Planned = seen.selected
    BY DEF Planned
  <2>3. Needed = WithBuffer(EstimateDiskMb(Planned))
    BY DEF Needed, EstimateDiskMb
  <2> QED
    BY <2>1, <2>2, <2>3 DEF Continue, NeedForAll
<1> QED
  BY <1>1, ReviewInvariant, PTL
=============================================================================
