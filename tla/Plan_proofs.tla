---------------------------- MODULE Plan_proofs ----------------------------
(***************************************************************************)
(* Theorems about the plan of every selection, on every release (Selection *)
(* and Parity), and about what its steps do to the system of every user    *)
(* (Apply).  The plan is the table of Plan without the rows that nothing   *)
(* asks for; what is asked of the rows is in CatalogueFacts.               *)
(***************************************************************************)
EXTENDS Apply, Parity, CatalogueFacts, FunctionTheorems, FiniteSetTheorems,
        WellFoundedInduction, TLAPS

(* Induction *)

LEMMA Least ==
  ASSUME NEW S \in SUBSET Nat, S # {}
  PROVE  \E least \in S : \A n \in S : least <= n
<1>1. PICK least \in S : \A n \in S : <<n, least>> \notin OpToRel(<, Nat)
  BY NatLessThanWellFounded, WFMin
<1>2. ASSUME NEW n \in S PROVE ~(n < least)
  BY <1>1 DEF OpToRel
<1> QED
  BY <1>2

LEMMA Induction ==
  ASSUME NEW S, 0 \in S, \A n \in Nat : n \in S => n + 1 \in S
  PROVE  Nat \subseteq S
<1> SUFFICES ASSUME Nat \ S # {} PROVE FALSE
  OBVIOUS
<1>1. PICK least \in Nat \ S : \A n \in Nat \ S : least <= n
  BY Least
<1>2. least # 0 /\ least - 1 \in Nat
  OBVIOUS
<1>3. least - 1 \in S
  BY <1>1, <1>2
<1> QED
  BY <1>1, <1>2, <1>3

-----------------------------------------------------------------------------
(* The plan and the table *)

AnyOffer == OfferSet \cup CarriedSet
Steps == {offer.step : offer \in AnyOffer}

(* The places of the offers that something asks for, and where they are in   *)
(* the plan: in the same order, and all of them.                             *)
ChosenOf(offers, asked) == {n \in DOMAIN offers : offers[n].for \cap asked # {}}

Places(plans, offers, chosen, at) ==
  /\ plans \in Seq(Steps)
  /\ at \in [1..Len(plans) -> chosen]
  /\ \A i, j \in 1..Len(plans) : i < j => at[i] < at[j]
  /\ \A n \in chosen : \E i \in 1..Len(plans) : at[i] = n
  /\ \A i \in 1..Len(plans) : plans[i] = offers[at[i]].step

(* AddedFor(offers, asked), offer by offer. *)
Add(offers, asked, n, before) ==
  IF offers[n].for \cap asked # {} THEN Append(before, offers[n].step) ELSE before
Adds(f, offers, asked, last) ==
  f = [n \in 0..last |-> IF n = 0 THEN <<>> ELSE Add(offers, asked, n, f[n - 1])]

LEMMA AddedIs ==
  ASSUME NEW offers, NEW asked
  PROVE  AddedFor(offers, asked) = (CHOOSE f : Adds(f, offers, asked, Len(offers)))[Len(offers)]
BY DEF AddedFor, Adds, Add

LEMMA AddsExists ==
  ASSUME NEW offers, NEW asked, NEW last \in Nat
  PROVE  \E f : Adds(f, offers, asked, last)
<1> DEFINE S == {k \in Nat : \E f : Adds(f, offers, asked, k)}
<1>1. 0 \in S
  <2>1. Adds([n \in 0..0 |-> <<>>], offers, asked, 0)
    BY DEF Adds
  <2> QED
    BY <2>1
<1>2. ASSUME NEW k \in Nat, k \in S PROVE k + 1 \in S
  <2>1. PICK f : Adds(f, offers, asked, k)
    BY <1>2
  <2> DEFINE g == [n \in 0..(k + 1) |-> IF n = k + 1 THEN Add(offers, asked, n, f[k]) ELSE f[n]]
  <2>2. \A n \in 0..k : f[n] = IF n = 0 THEN <<>> ELSE Add(offers, asked, n, f[n - 1])
    BY <2>1 DEF Adds
  <2>3. \A n \in 0..(k + 1) : g[n] = IF n = 0 THEN <<>> ELSE Add(offers, asked, n, g[n - 1])
    BY <2>2
  <2>4. Adds(g, offers, asked, k + 1)
    BY <2>3 DEF Adds
  <2> HIDE DEF g
  <2> QED
    BY <2>4
<1> HIDE DEF S
<1>3. last \in S
  BY <1>1, <1>2, Induction
<1> QED
  BY <1>3 DEF S

LEMMA PlacesNone ==
  ASSUME NEW offers
  PROVE  \E at : Places(<<>>, offers, {}, at)
<1>1. Places(<<>>, offers, {}, <<>>)
  BY DEF Places
<1> QED
  BY <1>1

LEMMA PlacesAppend ==
  ASSUME NEW offers, NEW plans, NEW chosen \in SUBSET Nat, NEW at,
         Places(plans, offers, chosen, at),
         NEW n \in Nat, \A m \in chosen : m < n, offers[n].step \in Steps
  PROVE  \E more : Places(Append(plans, offers[n].step), offers, chosen \cup {n}, more)
<1> DEFINE step == offers[n].step
           L == Len(plans)
           longer == Append(plans, step)
           more == [i \in 1..(L + 1) |-> IF i = L + 1 THEN n ELSE at[i]]
<1>1. plans \in Seq(Steps) /\ L \in Nat /\ at \in [1..L -> chosen]
  BY DEF Places
<1>2. /\ longer \in Seq(Steps) /\ Len(longer) = L + 1
      /\ \A i \in 1..L : longer[i] = plans[i]
      /\ longer[L + 1] = step
  BY <1>1
<1> HIDE DEF longer, L
<1>3. more \in [1..(L + 1) -> chosen \cup {n}]
  BY <1>1
<1>4. /\ more[L + 1] = n
      /\ \A i \in 1..L : more[i] = at[i] /\ more[i] \in chosen
  BY <1>1
<1> HIDE DEF more
<1>5. ASSUME NEW i \in 1..(L + 1), NEW j \in 1..(L + 1), i < j PROVE more[i] < more[j]
  <2>1. i \in 1..L
    BY <1>1, <1>5
  <2>2. CASE j = L + 1
    BY <1>4, <2>1, <2>2
  <2>3. CASE j \in 1..L
    BY <1>4, <1>5, <2>1, <2>3 DEF Places, L
  <2> QED
    BY <1>1, <2>2, <2>3
<1>6. ASSUME NEW m \in chosen \cup {n} PROVE \E i \in 1..(L + 1) : more[i] = m
  <2>1. CASE m = n
    BY <1>1, <1>4, <2>1
  <2>2. CASE m \in chosen
    <3>1. PICK i \in 1..L : at[i] = m
      BY <2>2 DEF Places, L
    <3> QED
      BY <1>1, <1>4, <3>1
  <2> QED
    BY <2>1, <2>2
<1>7. ASSUME NEW i \in 1..(L + 1) PROVE longer[i] = offers[more[i]].step
  <2>1. CASE i = L + 1
    BY <1>2, <1>4, <2>1 DEF step
  <2>2. CASE i \in 1..L
    BY <1>2, <1>4, <2>2 DEF Places, L
  <2> QED
    BY <1>1, <2>1, <2>2
<1>8. Places(longer, offers, chosen \cup {n}, more)
  BY <1>2, <1>3, <1>5, <1>6, <1>7 DEF Places
<1> QED
  BY <1>8 DEF longer, step

LEMMA AddedIsChosen ==
  ASSUME NEW offers \in Seq(AnyOffer), NEW asked
  PROVE  \E at : Places(AddedFor(offers, asked), offers, ChosenOf(offers, asked), at)
<1> DEFINE N == Len(offers)
           f == CHOOSE g : Adds(g, offers, asked, N)
           upto == [k \in Nat |-> ChosenOf(offers, asked) \cap 1..k]
           S == {k \in Nat : k <= N => \E at : Places(f[k], offers, upto[k], at)}
<1>1. N \in Nat /\ DOMAIN offers = 1..N
  OBVIOUS
<1>2. Adds(f, offers, asked, N)
  BY <1>1, AddsExists
<1>3. \A n \in 0..N : f[n] = IF n = 0 THEN <<>> ELSE Add(offers, asked, n, f[n - 1])
  BY <1>2 DEF Adds
<1>4. AddedFor(offers, asked) = f[N]
  BY AddedIs
<1>9. \A k \in Nat : upto[k] = ChosenOf(offers, asked) \cap 1..k
  OBVIOUS
<1> HIDE DEF f, N, upto, S
<1>5. 0 \in S
  <2>1. f[0] = <<>> /\ upto[0] = {}
    BY <1>1, <1>3, <1>9
  <2> QED
    BY <2>1, PlacesNone DEF S
<1>6. ASSUME NEW k \in Nat, k \in S PROVE k + 1 \in S
  <2> SUFFICES ASSUME k + 1 <= N PROVE \E at : Places(f[k + 1], offers, upto[k + 1], at)
    BY DEF S
  <2>1. PICK at : Places(f[k], offers, upto[k], at)
    BY <1>1, <1>6 DEF S
  <2>6. PICK z \in Nat : z = k + 1
    OBVIOUS
  <2> SUFFICES \E more : Places(f[z], offers, upto[z], more)
    BY <2>6
  <2>7. 1..z = (1..k) \cup {z}
    BY <2>6
  <2>2. f[z] = Add(offers, asked, z, f[k])
    <3>1. z \in 0..N /\ z # 0 /\ z - 1 = k
      BY <1>1, <2>6
    <3> QED
      BY <1>3, <3>1
  <2>3. z \in DOMAIN offers
    BY <1>1, <2>6
  <2>4. CASE offers[z].for \cap asked # {}
    <3>1. upto[z] = upto[k] \cup {z}
      BY <1>9, <2>3, <2>4, <2>6 DEF ChosenOf
    <3>2. f[z] = Append(f[k], offers[z].step)
      BY <2>2, <2>4 DEF Add
    <3>3. offers[z] \in AnyOffer
      BY <2>3
    <3>4. offers[z].step \in Steps
      BY <3>3 DEF Steps
    <3>5. upto[k] \in SUBSET Nat /\ \A m \in upto[k] : m < z
      BY <1>9, <2>6
    <3>6. \E more : Places(Append(f[k], offers[z].step), offers, upto[k] \cup {z}, more)
      <4> DEFINE chosen == upto[k]
                 plans == f[k]
      <4>1. chosen \in SUBSET Nat /\ \A m \in chosen : m < z
        BY <3>5
      <4>2. Places(plans, offers, chosen, at)
        BY <2>1
      <4> HIDE DEF chosen, plans
      <4>3. \E more : Places(Append(plans, offers[z].step), offers, chosen \cup {z}, more)
        BY <3>4, <4>1, <4>2, PlacesAppend
      <4> QED
        BY <4>3 DEF chosen, plans
    <3> QED
      BY <3>1, <3>2, <3>6, Zenon
  <2>5. CASE ~(offers[z].for \cap asked # {})
    <3>1. upto[z] = upto[k]
      BY <1>9, <2>3, <2>5, <2>7 DEF ChosenOf
    <3>2. f[z] = f[k]
      BY <2>2, <2>5 DEF Add
    <3> QED
      BY <2>1, <3>1, <3>2, Zenon
  <2> QED
    BY <2>4, <2>5
<1>7. N \in S
  BY <1>1, <1>5, <1>6, Induction
<1>8. upto[N] = ChosenOf(offers, asked)
  BY <1>1, <1>9 DEF ChosenOf
<1> QED
  BY <1>1, <1>4, <1>7, <1>8 DEF S

-----------------------------------------------------------------------------
(* What is selected *)

LEMMA TypingStep == TypeOK /\ [Next]_vars => TypeOK'
<1> SUFFICES ASSUME TypeOK, [Next]_vars PROVE TypeOK'
  OBVIOUS
<1> USE DEF TypeOK
<1>1. ASSUME NEW page \in Pages PROVE Cards(page) \subseteq Key
  BY DEF Cards, Key
<1> HIDE DEF TypeOK
<1>2. CASE UNCHANGED vars
  BY <1>2 DEF vars, TypeOK
<1>3. ASSUME NEW page \in Pages, NEW key \in Cards(page), Toggle(page, key)
      PROVE  TypeOK'
  BY <1>1, <1>3 DEF TypeOK, Toggle
<1>4. ASSUME NEW page \in Pages, NEW on \in BOOLEAN, SetAll(page, on)
      PROVE  TypeOK'
  BY <1>1, <1>4 DEF TypeOK, SetAll
<1>5. ASSUME NEW page \in Pages, SelectRequirement(page)
      PROVE  TypeOK'
  <2>1. PICK pair \in Unmet(selected, system.fedora) : selected' = selected \cup {pair[2]}
    BY <1>5 DEF SelectRequirement
  <2>2. pair[2] \in Key
    BY <2>1, KeysApart DEF Unmet, PackageSet, PackageSets
  <2> QED
    BY <1>5, <2>1, <2>2 DEF TypeOK, SelectRequirement
<1>6. ASSUME NEW group \in DOMAIN Groups, NEW value \in Groups[group], Choose(group, value)
      PROVE  TypeOK'
  <2>1. choice'[group] \in Groups[group] \cup {"none"}
    BY <1>6 DEF TypeOK, Choose
  <2>2. \A other \in DOMAIN Groups : other # group => choice'[other] = choice[other]
    BY <1>6 DEF TypeOK, Choose
  <2> QED
    BY <1>6, <2>1, <2>2 DEF TypeOK, Choose
<1>7. CASE ChooseAll
  <2>1. \A group \in DOMAIN Groups : group # "gpu" => Recommended[group] \in Groups[group]
    BY DEF Groups, Recommended
  <2> QED
    BY <1>7, <2>1 DEF TypeOK, ChooseAll
<1>8. CASE ChooseNone
  BY <1>8 DEF TypeOK, ChooseNone
<1>9. ASSUME NEW maker \in Groups.gpu, ChooseGpu(maker)
      PROVE  TypeOK'
  <2>1. "gpu" \in DOMAIN Groups /\ Groups["gpu"] = Groups.gpu
    BY DEF Groups
  <2>2. choice'["gpu"] = maker /\ \A group \in DOMAIN Groups : group # "gpu" => choice'[group] = choice[group]
    BY <1>9, <2>1 DEF TypeOK, ChooseGpu
  <2> QED
    BY <1>9, <2>1, <2>2 DEF TypeOK, ChooseGpu
<1> QED
  BY <1>2, <1>3, <1>4, <1>5, <1>6, <1>7, <1>8, <1>9 DEF Next

(* The pages set cards of the catalogue and options of their groups only:    *)
(* what the plan is asked for is in the table or is "none".                  *)
THEOREM Typing == Spec => []TypeOK
<1>1. Init => TypeOK
  BY DEF Init, TypeOK
<1> QED
  BY <1>1, TypingStep, PTL DEF Spec

-----------------------------------------------------------------------------
(* Plans *)

LEMMA IdsCount ==
  ASSUME NEW steps \in Seq(Steps),
         \A m, n \in 1..Len(steps) : steps[m].id = steps[n].id => m = n
  PROVE  Cardinality(IdsOf(steps)) = Len(steps)
<1> DEFINE D == 1..Len(steps)
           T == IdsOf(steps)
           f == [n \in D |-> steps[n].id]
<1>1. Len(steps) \in Nat /\ DOMAIN steps = D
  OBVIOUS
<1>2. f \in Surjection(D, T)
  BY <1>1 DEF Surjection, IdsOf
<1>3. f \in Injection(D, T)
  BY <1>2 DEF Injection, IsInjective, Surjection
<1>4. IsFiniteSet(D) /\ Cardinality(D) = Len(steps)
  BY <1>1, FS_Interval
<1> HIDE DEF D, T, f
<1>5. Cardinality(T) = Cardinality(D)
  BY <1>2, <1>3, <1>4, FS_Surjection
<1> QED
  BY <1>4, <1>5 DEF T

Table == Offers[PackageSet(system.fedora)]
AskedNow == AskedFor(selected, choice)

LEMMA TableTyped ==
  /\ PackageSet(system.fedora) \in PackageSets
  /\ Table \in Seq(OfferSet)
  /\ DOMAIN Table = 1..Len(Table) /\ Len(Table) \in Nat
<1>1. PackageSet(system.fedora) \in PackageSets
  BY DEF PackageSet, PackageSets
<1>2. Table \in Seq(OfferSet)
  BY <1>1, OffersTyped DEF Table
<1> QED
  BY <1>1, <1>2

LEMMA PlanIsOfTheTable == \E at : Places(plan, Table, ChosenOf(Table, AskedNow), at)
<1>1. Table \in Seq(AnyOffer)
  BY TableTyped DEF AnyOffer
<1>2. plan = AddedFor(Table, AskedNow)
  BY DEF plan, BuildPlan, Table, AskedNow
<1> QED
  BY <1>1, <1>2, AddedIsChosen

LEMMA SuitsSession == PlanSuitsSession
<1> DEFINE steps == plan
           chosen == ChosenOf(Table, AskedNow)
<1>1. PICK at : Places(steps, Table, chosen, at)
  BY PlanIsOfTheTable
<1>2. /\ steps \in Seq(Steps) /\ DOMAIN steps = 1..Len(steps)
      /\ at \in [1..Len(steps) -> chosen]
      /\ chosen \subseteq DOMAIN Table
  BY <1>1 DEF Places, ChosenOf
<1> HIDE DEF steps, chosen
<1>3. ASSUME NEW m \in 1..Len(steps), NEW n \in 1..Len(steps), steps[m].id = steps[n].id
      PROVE  m = n
  <2>1. Table[at[m]].step.id = Table[at[n]].step.id
    BY <1>1, <1>3 DEF Places
  <2>2. at[m] = at[n]
    BY <1>2, <2>1, TableTyped, IdsDiffer DEF Table
  <2>3. at[m] \in Nat
    BY <1>2, TableTyped
  <2>4. ~(at[m] < at[n]) /\ ~(at[n] < at[m])
    BY <2>2, <2>3
  <2>5. ~(m < n) /\ ~(n < m)
    BY <1>1, <2>4 DEF Places
  <2> QED
    BY <2>5
<1>4. Cardinality(IdsOf(steps)) = Len(steps)
  BY <1>2, <1>3, IdsCount
<1>5. ASSUME NEW n \in DOMAIN steps, steps[n].dependsOn # "none"
      PROVE  \E m \in 1..n-1 : steps[m].id = steps[n].dependsOn
  <2>1. at[n] \in DOMAIN Table /\ at[n] \in chosen /\ steps[n] = Table[at[n]].step
    BY <1>1, <1>2 DEF Places
  <2>2. PICK k \in 1..at[n]-1 : /\ Table[k].step.id = Table[at[n]].step.dependsOn
                                /\ Table[at[n]].for \subseteq Table[k].for
    BY <1>5, <2>1, TableTyped, DependsOnEarlier DEF Table
  <2>3. k \in DOMAIN Table /\ k < at[n]
    BY <2>1, <2>2, TableTyped
  <2>4. k \in chosen
    BY <2>1, <2>2, <2>3 DEF chosen, ChosenOf
  <2>5. PICK m \in 1..Len(steps) : at[m] = k
    BY <1>1, <2>4 DEF Places
  <2>6. m < n
    <3>1. ~(n < m)
      BY <1>1, <1>2, <2>1, <2>3, <2>5, TableTyped DEF Places
    <3>2. m # n
      BY <2>3, <2>5
    <3> QED
      BY <1>2, <3>1, <3>2
  <2>7. steps[m].id = Table[k].step.id
    BY <1>1, <2>5 DEF Places
  <2> QED
    BY <1>2, <2>1, <2>2, <2>6, <2>7
<1> QED
  BY <1>4, <1>5 DEF PlanSuitsSession, steps

(* What is asked for of the table: an item only if it is wanted.             *)
LEMMA AskedItems ==
  ASSUME TypeOK
  PROVE  /\ Wanted \subseteq AskedNow /\ Wanted \subseteq Key
         /\ AskedNow \cap Key = Wanted
         /\ Always \in AskedNow
<1>1. Wanted \subseteq AskedNow /\ Always \in AskedNow
      /\ AskedNow = {Always, choice.fileManager, choice.terminal} \cup Wanted
  BY DEF AskedNow, AskedFor, Wanted
<1>2. Wanted \subseteq Key
  BY DEF TypeOK, Wanted
<1>3. /\ "fileManager" \in DOMAIN Groups /\ "terminal" \in DOMAIN Groups
      /\ Groups["fileManager"] \cup Groups["terminal"] = ChoiceValues
  BY DEF Groups, ChoiceValues
<1>4. choice["fileManager"] \in ChoiceValues \cup {"none"} /\ choice["terminal"] \in ChoiceValues \cup {"none"}
  BY <1>3 DEF TypeOK
<1>5. Always \notin Key /\ choice.fileManager \notin Key /\ choice.terminal \notin Key
  BY <1>4, KeysApart
<1> QED
  BY <1>1, <1>2, <1>5

LEMMA IsTheSelection ==
  ASSUME TypeOK
  PROVE  PlanIsTheSelection
<1> DEFINE steps == plan
           chosen == ChosenOf(Table, AskedNow)
<1>1. PICK at : Places(steps, Table, chosen, at)
  BY PlanIsOfTheTable
<1>2. /\ steps \in Seq(Steps) /\ DOMAIN steps = 1..Len(steps)
      /\ at \in [1..Len(steps) -> chosen]
      /\ chosen \subseteq DOMAIN Table
  BY <1>1 DEF Places, ChosenOf
<1> HIDE DEF steps, chosen
<1>3. ASSUME NEW key \in Wanted, NEW id \in IdsOf(StepsOf(key))
      PROVE  id \in IdsOf(steps)
  <2>1. key \in Key /\ key \in AskedNow
    BY AskedItems
  <2>2. PICK s \in DOMAIN StepsOf(key) : id = StepsOf(key)[s].id
    BY DEF IdsOf
  <2>3. PICK n \in DOMAIN Table : key \in Table[n].for /\ Table[n].step.id = id
    BY <2>1, <2>2, TableTyped, StepsOffered DEF Table, StepsOf
  <2>4. n \in chosen
    BY <2>1, <2>3 DEF chosen, ChosenOf
  <2>5. PICK i \in 1..Len(steps) : at[i] = n
    BY <1>1, <2>4 DEF Places
  <2>6. steps[i].id = id
    BY <1>1, <2>3, <2>5 DEF Places
  <2> QED
    BY <1>2, <2>6 DEF IdsOf
<1>4. ASSUME NEW n \in DOMAIN steps
      PROVE  steps[n].item \in Wanted \cup {NoItem}
  <2> SUFFICES ASSUME steps[n].item # NoItem PROVE steps[n].item \in Wanted
    OBVIOUS
  <2>1. at[n] \in DOMAIN Table /\ at[n] \in chosen /\ steps[n] = Table[at[n]].step
    BY <1>1, <1>2 DEF Places
  <2>2. Table[at[n]].for = {steps[n].item}
    BY <2>1, TableTyped, OfferedForItem DEF Table
  <2>3. Table[at[n]] \in OfferSet
    BY <2>1, TableTyped
  <2>4. steps[n].item \in Key
    BY <2>1, <2>3 DEF OfferSet
  <2>5. steps[n].item \in AskedNow
    BY <2>1, <2>2 DEF chosen, ChosenOf
  <2> QED
    BY <2>4, <2>5, AskedItems
<1> QED
  BY <1>3, <1>4 DEF PlanIsTheSelection, steps

LEMMA SourcesFirst ==
  ASSUME TypeOK
  PROVE  SourcesComeFirst
<1> DEFINE steps == plan
           chosen == ChosenOf(Table, AskedNow)
<1> SUFFICES ASSUME Unmet(selected, system.fedora) = {},
                    NEW n \in DOMAIN steps,
                    ~(steps[n].item = "comms/spotify" /\ ~NeedsFlatpak(selected)),
                    ~(steps[n].item = "cachyos/kernel_devel" /\ "cachyos/kernel" \notin selected)
             PROVE  steps[n].needs \subseteq ProvidedBefore(steps, n)
  BY DEF SourcesComeFirst
<1>1. PICK at : Places(steps, Table, chosen, at)
  BY PlanIsOfTheTable
<1>2. /\ steps \in Seq(Steps) /\ DOMAIN steps = 1..Len(steps)
      /\ at \in [1..Len(steps) -> chosen]
      /\ chosen \subseteq DOMAIN Table
  BY <1>1 DEF Places, ChosenOf
<1> HIDE DEF steps, chosen
<1> SUFFICES ASSUME NEW need \in steps[n].needs
             PROVE  \E m \in 1..n-1 : need \in steps[m].provides
  BY DEF ProvidedBefore
<1> DEFINE offer == Table[at[n]]
<1>3. at[n] \in DOMAIN Table /\ at[n] \in chosen /\ steps[n] = offer.step
  BY <1>1, <1>2 DEF Places
<1>4. PICK k \in 1..at[n]-1 :
        /\ need \in Table[k].step.provides
        /\ \/ offer.for \subseteq Table[k].for
           \/ Always \in Table[k].for
           \/ \E pair \in Requirements(PackageSet(system.fedora)) :
                offer.for = {pair[1]} /\ pair[2] \in Table[k].for
           \/ offer.step.item = "comms/spotify" /\ Table[k].for = FlatpakItems
           \/ offer.step.item = "cachyos/kernel_devel" /\ Table[k].for = {"cachyos/kernel"}
  BY <1>3, TableTyped, SourcesOffered DEF Table
<1>5. k \in DOMAIN Table /\ k < at[n]
  BY <1>3, <1>4, TableTyped
<1>6. offer.for \cap AskedNow # {}
  BY <1>3 DEF chosen, ChosenOf
<1> HIDE DEF offer
<1>7. Table[k].for \cap AskedNow # {}
  <2>1. CASE offer.for \subseteq Table[k].for
    BY <1>6, <2>1
  <2>2. CASE Always \in Table[k].for
    BY <2>2, AskedItems
  <2>3. ASSUME NEW pair \in Requirements(PackageSet(system.fedora)),
               offer.for = {pair[1]}, pair[2] \in Table[k].for
        PROVE  Table[k].for \cap AskedNow # {}
    <3>1. pair[1] \in Key /\ pair[2] \in Key \ Amd
      BY TableTyped, KeysApart
    <3>2. pair[1] \in selected
      BY <1>6, <2>3, <3>1, AskedItems DEF Wanted
    <3>3. pair[2] \in selected
      BY <3>2 DEF Unmet
    <3>4. pair[2] \in AskedNow
      BY <3>1, <3>3, AskedItems DEF Wanted
    <3> QED
      BY <2>3, <3>4
  <2>4. CASE offer.step.item = "comms/spotify" /\ Table[k].for = FlatpakItems
    <3>1. PICK item \in FlatpakItems : item \in selected
      BY <1>3, <2>4 DEF NeedsFlatpak
    <3>2. item \in AskedNow
      BY <3>1, KeysApart, AskedItems DEF Wanted
    <3> QED
      BY <2>4, <3>1, <3>2
  <2>5. CASE offer.step.item = "cachyos/kernel_devel" /\ Table[k].for = {"cachyos/kernel"}
    <3>1. "cachyos/kernel" \in selected
      BY <1>3, <2>5
    <3>2. "cachyos/kernel" \notin Amd
      BY KeysApart
    <3>3. "cachyos/kernel" \in AskedNow
      BY <3>1, <3>2, AskedItems DEF Wanted
    <3> QED
      BY <2>5, <3>3
  <2> QED
    BY <1>4, <2>1, <2>2, <2>3, <2>4, <2>5
<1>8. k \in chosen
  BY <1>5, <1>7 DEF chosen, ChosenOf
<1>9. PICK m \in 1..Len(steps) : at[m] = k
  BY <1>1, <1>8 DEF Places
<1>10. m < n
  <2>1. ~(n < m)
    BY <1>1, <1>2, <1>3, <1>5, <1>9, TableTyped DEF Places
  <2>2. m # n
    BY <1>5, <1>9
  <2> QED
    BY <1>2, <2>1, <2>2
<1>11. steps[m].provides = Table[k].step.provides
  BY <1>1, <1>9 DEF Places
<1> QED
  BY <1>2, <1>4, <1>10, <1>11

(* Every plan of every selection that the pages allow is one that a session  *)
(* can run, what Session assumes of its plans: no id twice, and what a step  *)
(* depends on before it.                                                     *)
THEOREM Runnable == Spec => []PlanSuitsSession
BY SuitsSession, PTL

(* A plan has all the steps of the items that are wanted, and no others.     *)
THEOREM Complete == Spec => []PlanIsTheSelection
BY Typing, IsTheSelection, PTL

(* With no requirement unmet, a step finds what it needs put there by an     *)
(* earlier one, in every plan; but for the two exceptions.                   *)
THEOREM SourcesBefore == Spec => []SourcesComeFirst
BY Typing, SourcesFirst, PTL

-----------------------------------------------------------------------------
(* Parity *)

(* Nothing that a step runs or asks for differs between releases with the    *)
(* same set of packages: one of them stands for all.                         *)
LEMMA ReleasesAlike ==
  ASSUME NEW id, NEW info, NEW other,
         info.fedora \in Nat, other.fedora \in Nat,
         PackageSet(other.fedora) = PackageSet(info.fedora),
         OfOneUser(id) => other.targetUser = info.targetUser /\ other.targetHome = info.targetHome
  PROVE  /\ CommandOf(id, other) = CommandOf(id, info)
         /\ AlreadyInstalledCheck(id, other.fedora) = AlreadyInstalledCheck(id, info.fedora)
<1>1. other.fedora >= 44 <=> info.fedora >= 44
  BY DEF PackageSet
<1>2. /\ PluginsPackage(other.fedora) = PluginsPackage(info.fedora)
      /\ \A name : Mesa(name, other.fedora) = Mesa(name, info.fedora)
  BY <1>1 DEF PluginsPackage, Mesa
<1>3. PackagesFor(id, other.fedora) = PackagesFor(id, info.fedora)
  <2>1. BootstrapPackages(other.fedora) = BootstrapPackages(info.fedora)
    BY <1>2 DEF BootstrapPackages
  <2>2. /\ Mesa("mesa-vulkan-drivers", other.fedora) = Mesa("mesa-vulkan-drivers", info.fedora)
        /\ Mesa("mesa-va-drivers", other.fedora) = Mesa("mesa-va-drivers", info.fedora)
    BY <1>2
  <2> QED
    BY <2>1, <2>2 DEF PackagesFor
<1>4. CommandOf(id, other) = CommandOf(id, info)
  <2>1. CASE OfOneUser(id)
    <3>1. AppImageCommand(id, other) = AppImageCommand(id, info)
      BY <2>1, Zenon DEF AppImageCommand, Applications
    <3> QED
      BY <1>3, <2>1, <3>1 DEF CommandOf
  <2>2. CASE ~OfOneUser(id)
    <3>1. /\ id # "libvirt_group" /\ id # "kvm_group"
          /\ id \notin DOMAIN PipxTools /\ ~IsLocal(id)
      BY <2>2 DEF OfOneUser, ForUser
    <3>2. DnfInstall(PackagesFor(id, other.fedora)) = DnfInstall(PackagesFor(id, info.fedora))
      BY <1>3
    <3> QED
      BY <3>1, <3>2, Zenon DEF CommandOf
  <2> QED
    BY <2>1, <2>2
<1>5. AlreadyInstalledCheck(id, other.fedora) = AlreadyInstalledCheck(id, info.fedora)
  BY <1>3 DEF AlreadyInstalledCheck
<1> QED
  BY <1>4, <1>5

LEMMA OneOfEachSet ==
  ASSUME NEW packages \in PackageSets
  PROVE  ReleaseWith[packages] \in Nat /\ PackageSet(ReleaseWith[packages]) = packages
<1>1. PackageSet(44) = "from 44" /\ PackageSet(43) = "before 44"
  BY DEF PackageSet
<1>2. CASE packages = "from 44"
  <2>1. ReleaseWith[packages] = 44
    BY <1>2 DEF ReleaseWith
  <2>2. PackageSet(ReleaseWith[packages]) = packages
    BY <1>1, <1>2, <2>1, Zenon
  <2> QED
    BY <2>1, <2>2
<1>3. CASE packages = "before 44"
  <2>1. ReleaseWith[packages] = 43
    BY <1>3 DEF ReleaseWith
  <2>2. PackageSet(ReleaseWith[packages]) = packages
    BY <1>1, <1>3, <2>1, Zenon
  <2> QED
    BY <2>1, <2>2
<1> QED
  BY <1>2, <1>3 DEF PackageSets

(* Two ways through a set of numbers, in order and past all of them, are     *)
(* the same.                                                                 *)
Through(a, length, S) ==
  /\ a \in [1..length -> S]
  /\ \A i, j \in 1..length : i < j => a[i] < a[j]
  /\ \A n \in S : \E i \in 1..length : a[i] = n

LEMMA NotAhead ==
  ASSUME NEW S \in SUBSET Nat, NEW M \in Nat, NEW N \in Nat, NEW a, NEW b,
         Through(a, M, S), Through(b, N, S),
         NEW i \in 1..M, \A j \in 1..M : j < i => j \in 1..N /\ a[j] = b[j]
  PROVE  i \in 1..N /\ b[i] <= a[i]
<1>1. a[i] \in S /\ a[i] \in Nat
  BY DEF Through
<1>2. PICK k \in 1..N : b[k] = a[i]
  BY <1>1 DEF Through
<1>3. ~(k < i)
  <2> SUFFICES ASSUME k < i PROVE FALSE
    OBVIOUS
  <2>1. k \in 1..M
    OBVIOUS
  <2>2. a[k] = a[i] /\ a[k] < a[i]
    BY <1>2, <2>1 DEF Through
  <2> QED
    BY <1>1, <2>2
<1>4. i \in 1..N
  BY <1>3
<1>5. b[i] \in Nat /\ (i < k => b[i] < b[k])
  BY <1>4 DEF Through
<1> QED
  BY <1>1, <1>2, <1>3, <1>4, <1>5

LEMMA OneWayThrough ==
  ASSUME NEW S \in SUBSET Nat, NEW M \in Nat, NEW N \in Nat, NEW a, NEW b,
         Through(a, M, S), Through(b, N, S)
  PROVE  M = N /\ \A i \in 1..M : a[i] = b[i]
<1> DEFINE Both(i) == i \in 1..M /\ i \in 1..N /\ a[i] = b[i]
           bad == {i \in Nat : (i \in 1..M \/ i \in 1..N) /\ ~Both(i)}
<1>1. bad = {}
  <2> SUFFICES ASSUME bad # {} PROVE FALSE
    OBVIOUS
  <2>1. PICK i \in bad : \A j \in bad : i <= j
    BY Least
  <2>2. /\ \A j \in 1..M : j < i => j \in 1..N /\ a[j] = b[j]
        /\ \A j \in 1..N : j < i => j \in 1..M /\ b[j] = a[j]
    BY <2>1
  <2>3. i \in 1..M => i \in 1..N /\ b[i] <= a[i]
    BY <2>2, NotAhead
  <2>4. i \in 1..N => i \in 1..M /\ a[i] <= b[i]
    BY <2>2, NotAhead
  <2>5. i \in 1..M /\ i \in 1..N
    BY <2>3, <2>4
  <2>6. a[i] \in Nat /\ b[i] \in Nat
    BY <2>5 DEF Through
  <2> QED
    BY <2>3, <2>4, <2>5, <2>6
<1>2. \A i \in Nat : (i \in 1..M \/ i \in 1..N) => Both(i)
  BY <1>1
<1> QED
  BY <1>2

(* The offers D of one table are, in order and with the same steps, the      *)
(* offers C of another: then both make the same plan of what is asked for.   *)
Match(to, before, D, now, C) ==
  /\ \A n \in D : to[n] \in C /\ now[to[n]].step = before[n].step
  /\ \A m, n \in D : m < n => to[m] < to[n]
  /\ \A m \in C : \E n \in D : to[n] = m

LEMMA SameChosen ==
  ASSUME NEW now \in Seq(AnyOffer), NEW before \in Seq(AnyOffer), NEW asked, NEW lasked, NEW to,
         Match(to, before, ChosenOf(before, lasked), now, ChosenOf(now, asked))
  PROVE  AddedFor(now, asked) = AddedFor(before, lasked)
<1> DEFINE p == AddedFor(now, asked)
           q == AddedFor(before, lasked)
           C == ChosenOf(now, asked)
           D == ChosenOf(before, lasked)
           M == Len(p)
           N == Len(q)
<1>1. PICK at : Places(p, now, C, at)
  BY AddedIsChosen
<1>2. PICK bt : Places(q, before, D, bt)
  BY AddedIsChosen
<1>3. C \in SUBSET Nat /\ D \in SUBSET Nat
  BY DEF ChosenOf
<1>11. Match(to, before, D, now, C)
  OBVIOUS
<1>4. p \in Seq(Steps) /\ q \in Seq(Steps)
  BY <1>1, <1>2 DEF Places
<1>5. M \in Nat /\ N \in Nat
  BY <1>4
<1> HIDE DEF p, q, C, D
<1> DEFINE a == [i \in 1..N |-> to[bt[i]]]
<1>6. Through(at, M, C)
  BY <1>1 DEF Places, Through
<1>7. Through(a, N, C)
  <2>1. \A i \in 1..N : bt[i] \in D
    BY <1>2 DEF Places
  <2>2. a \in [1..N -> C]
    BY <1>11, <2>1 DEF Match
  <2>3. ASSUME NEW i \in 1..N, NEW j \in 1..N, i < j PROVE a[i] < a[j]
    <3>1. bt[i] < bt[j]
      BY <1>2, <2>3 DEF Places
    <3>2. to[bt[i]] < to[bt[j]]
      BY <1>11, <2>1, <3>1 DEF Match
    <3> QED
      BY <3>2
  <2>4. ASSUME NEW m \in C PROVE \E i \in 1..N : a[i] = m
    <3>1. PICK n \in D : to[n] = m
      BY <1>11 DEF Match
    <3>2. PICK i \in 1..N : bt[i] = n
      BY <1>2 DEF Places
    <3> QED
      BY <3>1, <3>2
  <2> QED
    BY <2>2, <2>3, <2>4 DEF Through
<1>8. M = N /\ \A i \in 1..M : at[i] = a[i]
  <2>1. PICK m \in Nat, n \in Nat : m = M /\ n = N
    BY <1>5
  <2>2. Through(at, m, C) /\ Through(a, n, C)
    BY <1>6, <1>7, <2>1
  <2> HIDE DEF a
  <2>3. m = n /\ \A i \in 1..m : at[i] = a[i]
    BY <1>3, <2>1, <2>2, OneWayThrough
  <2> QED
    BY <2>1, <2>3
<1>9. ASSUME NEW i \in 1..N PROVE p[i] = q[i]
  <2>1. p[i] = now[to[bt[i]]].step
    BY <1>1, <1>8, <1>9 DEF Places
  <2>2. bt[i] \in D /\ q[i] = before[bt[i]].step
    BY <1>2, <1>9 DEF Places
  <2> QED
    BY <1>11, <2>1, <2>2 DEF Match
<1>10. p = q
  BY <1>4, <1>8, <1>9
<1> QED
  BY <1>10 DEF p, q

LEMMA OfferedTheSame ==
  ASSUME TypeOK
  PROVE  SameAsBefore
<1> DEFINE packages == PackageSet(system.fedora)
           now == Carried[packages]
           before == LegacyCarried[packages]
           to == Counterpart[packages]
           K == IF choice.gpu = "amd" THEN Kept ELSE Kept \ Amd
           asked == {Always, "none"} \cup K
           lasked == {Always} \cup K
<1> SUFFICES ASSUME NeedsFlatpak(Kept) /\ Kept \cap LegacyFlatpakKeys = {}
                      => "browsers/chrome" \notin Kept,
                    ~NeedsFlatpak(Kept) /\ Kept \cap LegacyFlatpakKeys # {}
                      => "comms/spotify" \notin Kept
             PROVE  Runs(Kept) = LegacyRuns(Kept)
  BY DEF SameAsBefore
<1>1. packages \in PackageSets
  BY DEF PackageSet, PackageSets
<1>2. Kept \subseteq Shared
  BY DEF TypeOK, Kept, Shared
<1>3. K \subseteq Shared /\ Always \in Shared
  BY <1>2 DEF Shared
<1>4. Runs(Kept) = AddedFor(now, asked)
  <2>1. DOMAIN choice = {"fileManager", "terminal", "gpu"}
    BY DEF TypeOK, Groups
  <2> DEFINE bare == [choice EXCEPT !.fileManager = "none", !.terminal = "none"]
  <2>2. bare.fileManager = "none" /\ bare.terminal = "none" /\ bare.gpu = choice.gpu
    BY <2>1
  <2> HIDE DEF bare
  <2>3. AskedFor(Kept, bare) = asked
    BY <2>2 DEF AskedFor
  <2> QED
    BY <2>3 DEF Runs, bare
<1>5. LegacyRuns(Kept) = AddedFor(before, lasked)
  BY DEF LegacyRuns, LegacyAskedFor
<1>6. now \in Seq(AnyOffer) /\ before \in Seq(AnyOffer)
  <2>1. now \in Seq(CarriedSet) /\ before \in Seq(CarriedSet)
    BY <1>1, CarriedTyped
  <2> HIDE DEF now, before
  <2> QED
    BY <2>1 DEF AnyOffer
<1>7. FlatpakItems \cap lasked # {} <=> LegacyFlatpakKeys \cap lasked # {}
  <2>1. /\ FlatpakItems \cap lasked = FlatpakItems \cap Kept
        /\ LegacyFlatpakKeys \cap lasked = LegacyFlatpakKeys \cap Kept
    BY FlathubDiffers
  <2>2. NeedsFlatpak(Kept) <=> FlatpakItems \cap Kept # {}
    BY DEF NeedsFlatpak
  <2>3. ASSUME FlatpakItems \cap Kept # {} PROVE LegacyFlatpakKeys \cap Kept # {}
    <3>1. PICK item \in FlatpakItems : item \in Kept /\ item \in Shared
      BY <1>2, <2>3
    <3> QED
      BY <2>2, <2>3, <3>1, FlathubDiffers
  <2>4. ASSUME LegacyFlatpakKeys \cap Kept # {} PROVE FlatpakItems \cap Kept # {}
    <3>1. PICK item \in LegacyFlatpakKeys : item \in Kept /\ item \in Shared
      BY <1>2, <2>4
    <3> QED
      BY <2>2, <2>4, <3>1, FlathubDiffers
  <2> QED
    BY <2>1, <2>3, <2>4
<1>8. /\ \A n \in Relevant(before) :
           /\ to[n] \in Relevant(now) /\ now[to[n]].step = before[n].step
           /\ \/ now[to[n]].for \cap Shared = before[n].for \cap Shared
              \/ now[to[n]].for = FlatpakItems /\ before[n].for = LegacyFlatpakKeys
      /\ \A m, n \in Relevant(before) : m < n => to[m] < to[n]
      /\ \A m \in Relevant(now) : \E n \in Relevant(before) : to[n] = m
  BY <1>1, TablesMatch
<1>9. \A n \in DOMAIN now : "none" \notin now[n].for
  BY <1>1, CarriedTyped
<1>10. lasked \subseteq Shared /\ asked = lasked \cup {"none"}
  BY <1>3
<1> HIDE DEF packages, now, before, to, K, asked, lasked
<1>11. ChosenOf(now, asked) = {m \in Relevant(now) : now[m].for \cap lasked # {}}
  BY <1>9, <1>10 DEF ChosenOf, Relevant
<1>12. ChosenOf(before, lasked) = {n \in Relevant(before) : before[n].for \cap lasked # {}}
  BY <1>10 DEF ChosenOf, Relevant
<1>13. ASSUME NEW n \in Relevant(before)
       PROVE  now[to[n]].for \cap lasked # {} <=> before[n].for \cap lasked # {}
  <2>1. CASE now[to[n]].for \cap Shared = before[n].for \cap Shared
    BY <1>10, <2>1
  <2>2. CASE now[to[n]].for = FlatpakItems /\ before[n].for = LegacyFlatpakKeys
    BY <1>7, <2>2
  <2> QED
    BY <1>8, <2>1, <2>2
<1>14. Match(to, before, ChosenOf(before, lasked), now, ChosenOf(now, asked))
  BY <1>8, <1>11, <1>12, <1>13 DEF Match
<1>15. AddedFor(now, asked) = AddedFor(before, lasked)
  BY <1>6, <1>14, SameChosen
<1> QED
  BY <1>4, <1>5, <1>15

(* The commands and checks of every selection of what both programs offer    *)
(* are the ones that the Qt program ran, in the same order, but where they   *)
(* disagree on whether Flathub is needed.                                    *)
THEOREM AsBefore == Spec => []SameAsBefore
BY Typing, OfferedTheSame, PTL

-----------------------------------------------------------------------------
(* What the steps do: what was decided before the first of them, what a      *)
(* result means, and what the steps leave behind.                            *)
CommandIn(m) == CommandOf(planned[m].id, detected)
CheckIn(m) == AlreadyInstalledCheck(planned[m].id, detected.fedora)

(* What was decided before the first step. *)
Given ==
  /\ found \in Environments /\ wish \in Offered
  /\ detected = DetectSystem(found)
  /\ planned = BuildPlan({wish} \cap Key, detected.fedora, Choice)

Outcomes == {"ok", "skipped", "failed", "rejected", "dependent"}
Recorded == results \in Seq(Outcomes) /\ Len(results) <= Len(planned)

(* What a result says of the step. *)
Meant ==
  \A m \in DOMAIN results :
    /\ results[m] = "skipped" => CheckIn(m) # <<>>
    /\ results[m] = "ok" => Permitted(planned[m].id, CommandIn(m), found.self)
    /\ results[m] = "rejected" => ~Permitted(planned[m].id, CommandIn(m), found.self)

(* What a step has left behind stays, unless a later one takes it, and what  *)
(* it has taken stays away, unless a later one brings it.                    *)
Did(m) == results[m] = "ok" /\ Surely(planned[m].id, CommandIn(m))
Left(m) == IF results[m] = "skipped" THEN Rpms(ToSet(CheckIn(m)))
           ELSE AddedBy(planned[m].id, CommandIn(m))

Stays ==
  \A m \in DOMAIN results : Did(m) \/ results[m] = "skipped" =>
    \A thing \in Left(m) :
      (\A k \in DOMAIN planned : m < k => thing \notin RemovedBy(CommandIn(k))) => thing \in there

StaysAway ==
  \A m \in DOMAIN results : Did(m) =>
    \A thing \in RemovedBy(CommandIn(m)) :
      (\A k \in DOMAIN planned : thing \notin AddedBy(planned[k].id, CommandIn(k))) => thing \notin there

(* Nothing comes from nowhere. *)
Origin ==
  \A thing \in there :
    thing \in initially \/ \E k \in DOMAIN planned : thing \in AddedBy(planned[k].id, CommandIn(k))

ApplyInv == Given /\ Recorded /\ Meant /\ Stays /\ StaysAway /\ Origin

-----------------------------------------------------------------------------
(* The invariant *)

LEMMA PlannedTyped ==
  ASSUME Given
  PROVE  /\ PackageSet(detected.fedora) \in PackageSets
         /\ planned \in Seq(Steps) /\ Len(planned) \in Nat /\ DOMAIN planned = 1..Len(planned)
         /\ LET offers == Offers[PackageSet(detected.fedora)]
                asked == AskedFor({wish} \cap Key, Choice)
            IN  \E at : Places(planned, offers, ChosenOf(offers, asked), at)
<1> DEFINE offers == Offers[PackageSet(detected.fedora)]
           asked == AskedFor({wish} \cap Key, Choice)
<1>1. PackageSet(detected.fedora) \in PackageSets
  BY DEF PackageSet, PackageSets
<1>2. offers \in Seq(AnyOffer)
  BY <1>1, OffersTyped DEF AnyOffer
<1>3. planned = AddedFor(offers, asked)
  BY DEF Given, BuildPlan
<1>4. PICK at : Places(planned, offers, ChosenOf(offers, asked), at)
  BY <1>2, <1>3, AddedIsChosen
<1>5. planned \in Seq(Steps)
  BY <1>4 DEF Places
<1> QED
  BY <1>1, <1>4, <1>5

LEMMA InvInit == ApplyInit => ApplyInv
<1> SUFFICES ASSUME ApplyInit PROVE ApplyInv
  OBVIOUS
<1>1. Given
  BY DEF ApplyInit, Given
<1>2. results = <<>> /\ there = initially
  BY DEF ApplyInit
<1>3. Len(planned) \in Nat
  BY <1>1, PlannedTyped
<1> QED
  BY <1>1, <1>2, <1>3 DEF ApplyInv, Recorded, Meant, Stays, StaysAway, Origin

(* A step that has the result r. *)
LEMMA Recording ==
  ASSUME ApplyInv, InPlan, UNCHANGED given,
         NEW r \in Outcomes, results' = Append(results, r),
         r = "skipped" => CheckIn(position) # <<>> /\ Rpms(ToSet(CheckIn(position))) \subseteq there',
         r = "ok" => Permitted(stepNow.id, commandNow, found.self),
         r = "rejected" => ~Permitted(stepNow.id, commandNow, found.self),
         r = "ok" /\ Surely(stepNow.id, commandNow) =>
           /\ AddedBy(stepNow.id, commandNow) \subseteq there'
           /\ (RemovedBy(commandNow) \ AddedBy(stepNow.id, commandNow)) \cap there' = {},
         there' \subseteq there \cup AddedBy(stepNow.id, commandNow),
         there \ RemovedBy(commandNow) \subseteq there'
  PROVE  ApplyInv'
<1>1. /\ found' = found /\ detected' = detected /\ wish' = wish /\ planned' = planned
      /\ initially' = initially
  BY DEF given
<1>2. Given'
  BY <1>1 DEF ApplyInv, Given, Choice, Offered
<1>3. results \in Seq(Outcomes) /\ Len(planned) \in Nat /\ DOMAIN planned = 1..Len(planned)
  BY PlannedTyped DEF ApplyInv, Recorded
<1>4. position \in DOMAIN planned /\ position = Len(results) + 1 /\ position \in Nat
  BY <1>3 DEF InPlan, position
<1>5. /\ DOMAIN results = 1..Len(results) /\ DOMAIN results' = DOMAIN results \cup {position}
      /\ results' \in Seq(Outcomes) /\ Len(results') = position
      /\ results'[position] = r /\ \A m \in DOMAIN results : results'[m] = results[m] /\ m < position
  BY <1>3, <1>4
<1>6. \A m : CommandIn(m)' = CommandIn(m) /\ CheckIn(m)' = CheckIn(m)
  BY <1>1 DEF CommandIn, CheckIn
<1>7. commandNow = CommandIn(position) /\ stepNow.id = planned[position].id
  BY DEF commandNow, stepNow, CommandIn
<1>8. Recorded'
  BY <1>1, <1>3, <1>4, <1>5 DEF Recorded
<1> HIDE DEF position
<1>9. Meant'
  <2>1. \A m \in DOMAIN results : results'[m] = results[m]
    BY <1>5
  <2> QED
    BY <1>1, <1>5, <1>6, <1>7 DEF ApplyInv, Meant
<1>10. Stays'
  <2> SUFFICES ASSUME NEW m \in DOMAIN results', Did(m)' \/ results'[m] = "skipped",
                      NEW thing \in Left(m)',
                      \A k \in DOMAIN planned : m < k => thing \notin RemovedBy(CommandIn(k))
               PROVE  thing \in there'
    BY <1>1, <1>6 DEF Stays
  <2>1. CASE m = position
    BY <1>1, <1>5, <1>6, <1>7, <2>1 DEF Did, Left
  <2>2. CASE m \in DOMAIN results
    <3>1. (Did(m) \/ results[m] = "skipped") /\ thing \in Left(m)
      BY <1>1, <1>5, <1>6, <2>2 DEF Did, Left
    <3>2. thing \in there
      BY <2>2, <3>1 DEF ApplyInv, Stays
    <3>3. thing \notin RemovedBy(commandNow)
      BY <1>4, <1>5, <1>7, <2>2
    <3> QED
      BY <3>2, <3>3
  <2> QED
    BY <1>5, <2>1, <2>2
<1>11. StaysAway'
  <2> SUFFICES ASSUME NEW m \in DOMAIN results', Did(m)',
                      NEW thing \in RemovedBy(CommandIn(m)),
                      \A k \in DOMAIN planned : thing \notin AddedBy(planned[k].id, CommandIn(k))
               PROVE  thing \notin there'
    BY <1>1, <1>6 DEF StaysAway
  <2>1. thing \notin AddedBy(stepNow.id, commandNow)
    BY <1>4, <1>7
  <2>2. CASE m = position
    BY <1>1, <1>5, <1>6, <1>7, <2>1, <2>2 DEF Did
  <2>3. CASE m \in DOMAIN results
    <3>1. Did(m)
      BY <1>1, <1>5, <1>6, <2>3 DEF Did
    <3>2. thing \notin there
      BY <2>3, <3>1 DEF ApplyInv, StaysAway
    <3> QED
      BY <2>1, <3>2
  <2> QED
    BY <1>5, <2>2, <2>3
<1>12. Origin'
  <2> SUFFICES ASSUME NEW thing \in there'
               PROVE  \/ thing \in initially
                      \/ \E k \in DOMAIN planned : thing \in AddedBy(planned[k].id, CommandIn(k))
    BY <1>1, <1>6 DEF Origin
  <2>1. CASE thing \in there
    BY <2>1 DEF ApplyInv, Origin
  <2>2. CASE thing \in AddedBy(stepNow.id, commandNow)
    BY <1>4, <1>7, <2>2
  <2> QED
    BY <2>1, <2>2
<1> QED
  BY <1>2, <1>8, <1>9, <1>10, <1>11, <1>12 DEF ApplyInv

LEMMA InvStep == ApplyInv /\ [ApplyNext]_applyVars => ApplyInv'
<1> SUFFICES ASSUME ApplyInv, [ApplyNext]_applyVars PROVE ApplyInv'
  OBVIOUS
<1>1. ASSUME UNCHANGED <<given, there, results>> PROVE ApplyInv'
  <2>1. /\ found' = found /\ detected' = detected /\ wish' = wish /\ planned' = planned
        /\ initially' = initially /\ there' = there /\ results' = results
    BY <1>1 DEF given
  <2>2. \A m : /\ CommandIn(m)' = CommandIn(m) /\ CheckIn(m)' = CheckIn(m)
               /\ Did(m)' <=> Did(m)
               /\ Left(m)' = Left(m)
    BY <2>1 DEF Did, Left, CommandIn, CheckIn
  <2>3. Given' /\ Recorded'
    BY <2>1 DEF ApplyInv, Given, Choice, Offered, Recorded
  <2>4. Meant'
    BY <2>1, <2>2 DEF ApplyInv, Meant
  <2>5. Stays'
    BY <2>1, <2>2 DEF ApplyInv, Stays
  <2>6. StaysAway'
    BY <2>1, <2>2 DEF ApplyInv, StaysAway
  <2>7. Origin'
    BY <2>1, <2>2 DEF ApplyInv, Origin
  <2> QED
    BY <2>3, <2>4, <2>5, <2>6, <2>7 DEF ApplyInv
<1>2. \A r : Records(r) => UNCHANGED given /\ results' = Append(results, r)
  BY DEF Records
<1>3. CASE SkipDependent
  BY <1>2, <1>3, Recording DEF SkipDependent, Outcomes
<1>4. CASE Skip
  <2>1. CheckIn(position) # <<>> /\ Rpms(ToSet(CheckIn(position))) \subseteq there
    BY <1>4 DEF Skip, AlreadyThere, CheckIn, stepNow
  <2> QED
    BY <1>2, <1>4, <2>1, Recording DEF Skip, Begins, Outcomes
<1>5. CASE Reject
  BY <1>2, <1>5, Recording DEF Reject, Begins, Outcomes
<1>6. CASE Fail
  BY <1>2, <1>6, Recording DEF Fail, MayRun, Begins, Outcomes
<1>7. CASE DoNothing
  <2>1. ~Surely(stepNow.id, commandNow)
    BY <1>7 DEF DoNothing, Surely
  <2> QED
    BY <1>2, <1>7, <2>1, Recording DEF DoNothing, MayRun, Begins, Outcomes
<1>8. CASE Succeed
  BY <1>2, <1>8, Recording DEF Succeed, MayRun, Begins, Outcomes
<1>9. CASE Launch \/ End
  BY <1>1, <1>9 DEF Launch, End
<1>10. CASE Ended \/ UNCHANGED applyVars
  BY <1>1, <1>10 DEF Ended, applyVars
<1> QED
  BY <1>3, <1>4, <1>5, <1>6, <1>7, <1>8, <1>9, <1>10 DEF ApplyNext

LEMMA Invariant == ApplySpec => []ApplyInv
BY InvInit, InvStep, PTL DEF ApplySpec

-----------------------------------------------------------------------------
(* The steps of the plan and those of the table *)

LEMMA DetectedTyped ==
  ASSUME Given
  PROVE  /\ detected.fedora \in Nat
         /\ detected.targetUser = TargetUser(found)
<1>1. ParseFedoraVersion(found.release) \in Nat
  BY DEF ParseFedoraVersion, ReleaseNumbers
<1> QED
  BY <1>1 DEF Given, DetectSystem

LEMMA OfTheTable ==
  ASSUME Given, NEW m \in DOMAIN planned
  PROVE  LET packages == PackageSet(detected.fedora)
             id == planned[m].id
         IN  /\ id \in Ids(packages)
             /\ ~OfOneUser(id) => CommandIn(m) = Words(packages, id)
             /\ CheckIn(m) = AlreadyInstalledCheck(id, ReleaseWith[packages])
<1> DEFINE packages == PackageSet(detected.fedora)
           id == planned[m].id
           offers == Offers[packages]
           asked == AskedFor({wish} \cap Key, Choice)
<1>1. PICK at : Places(planned, offers, ChosenOf(offers, asked), at)
  BY PlannedTyped
<1>2. at[m] \in DOMAIN offers /\ planned[m] = offers[at[m]].step
  BY <1>1, PlannedTyped DEF Places, ChosenOf
<1>3. id \in Ids(packages)
  BY <1>2 DEF Ids
<1>4. packages \in PackageSets
  BY PlannedTyped
<1> DEFINE info == SystemWith(ReleaseWith[packages])
<1>5. info.fedora = ReleaseWith[packages]
  BY DEF SystemWith
<1>6. /\ info.fedora \in Nat /\ detected.fedora \in Nat
      /\ PackageSet(detected.fedora) = PackageSet(info.fedora)
  BY <1>4, <1>5, OneOfEachSet, DetectedTyped
<1>7. ~OfOneUser(id) => CommandIn(m) = Words(packages, id)
  <2>1. ~OfOneUser(id) => CommandOf(id, detected) = CommandOf(id, info)
    BY <1>6, ReleasesAlike
  <2> QED
    BY <2>1 DEF CommandIn, Words
<1>8. CheckIn(m) = AlreadyInstalledCheck(id, ReleaseWith[packages])
  <2>1. AlreadyInstalledCheck(id, detected.fedora) = AlreadyInstalledCheck(id, info.fedora)
    <3>1. CASE OfOneUser(id)
      <4> DEFINE same == [info EXCEPT !.targetUser = detected.targetUser, !.targetHome = detected.targetHome]
      <4>1. /\ same.fedora = info.fedora
            /\ same.targetUser = detected.targetUser /\ same.targetHome = detected.targetHome
        BY DEF SystemWith
      <4> HIDE DEF same, info
      <4> QED
        BY <1>6, <4>1, ReleasesAlike
    <3>2. CASE ~OfOneUser(id)
      BY <1>6, <3>2, ReleasesAlike
    <3> QED
      BY <3>1, <3>2
  <2> QED
    BY <1>5, <2>1 DEF CheckIn
<1> QED
  BY <1>3, <1>7, <1>8

-----------------------------------------------------------------------------
(* What the helper lets through *)

(* A command with no name of a user in it is let through for any user if it  *)
(* is for root, of whom the helper thinks least.                             *)
LEMMA ForAnyUser ==
  ASSUME NEW words, NEW expected, Validate(words, "root")
  PROVE  Validate(words, expected)
<1>1. \A word, rule : Matches(word, rule, "root") => Matches(word, rule, expected)
  BY NamesAssumption DEF Matches, Username
<1> QED
  BY <1>1 DEF Validate

LEMMA ForItsUser ==
  ASSUME NEW id \in ForUser, NEW info, info.targetUser \in ValidNames
  PROVE  Validate(CommandOf(id, info), info.targetUser)
<1> DEFINE user == info.targetUser
<1>1. Username(user, user)
  BY DEF Username
<1>2. id \notin DOMAIN CommonCommands /\ id \notin DOMAIN AppImageSteps
  BY OwnCommands
<1>3. ASSUME NEW group \in {"kvm", "libvirt"}, CommandOf(id, info) = <<"usermod", "-aG", group, user>>
      PROVE  Validate(CommandOf(id, info), user)
  <2> DEFINE op == <<"usermod", "-aG", group, "<user>">>
             words == CommandOf(id, info)
  <2>1. op \in AllowList
    BY DEF AllowList
  <2>2. Len(op) = Len(words) /\ DOMAIN op = 1..4
    BY <1>3
  <2>3. \A place \in 1..4 : Matches(words[place], op[place], user)
    BY <1>1, <1>3 DEF Matches
  <2> QED
    BY <2>1, <2>2, <2>3 DEF Validate
<1>4. ASSUME id \in DOMAIN PipxTools
      PROVE  Validate(CommandOf(id, info), user)
  <2> DEFINE op == <<"sudo", "-u", "<user>", "/usr/bin/pipx", "install", "--include-deps", "<pipx>">>
             words == CommandOf(id, info)
  <2>1. op \in AllowList
    BY DEF AllowList
  <2>2. words = <<"sudo", "-u", user, "/usr/bin/pipx", "install", "--include-deps", PipxTools[id]>>
    BY <1>2, <1>4, OwnCommands, Zenon DEF CommandOf, IsLocal
  <2>3. PipxTools[id] \in AllowedPipxTools
    BY <1>4, OwnCommands
  <2>4. Len(op) = Len(words) /\ DOMAIN op = 1..7
    BY <2>2
  <2>5. \A place \in 1..7 : Matches(words[place], op[place], user)
    BY <1>1, <2>2, <2>3 DEF Matches
  <2> QED
    BY <2>1, <2>4, <2>5 DEF Validate
<1>5. CASE id = "kvm_group"
  <2>1. id # "libvirt_group" /\ id \notin DOMAIN PipxTools
    BY <1>5, OwnCommands
  <2>2. CommandOf(id, info) = <<"usermod", "-aG", "kvm", user>>
    BY <1>2, <1>5, <2>1, Zenon DEF CommandOf, IsLocal
  <2> QED
    BY <1>3, <2>2
<1>6. CASE id = "libvirt_group"
  <2>1. id # "kvm_group" /\ id \notin DOMAIN PipxTools
    BY <1>6, OwnCommands
  <2>2. CommandOf(id, info) = <<"usermod", "-aG", "libvirt", user>>
    BY <1>2, <1>6, <2>1, Zenon DEF CommandOf, IsLocal
  <2> QED
    BY <1>3, <2>2
<1> QED
  BY <1>4, <1>5, <1>6 DEF ForUser

LEMMA NothingRefused ==
  ASSUME ApplyInv
  PROVE  NothingRejected
<1> SUFFICES ASSUME NEW m \in DOMAIN results, results[m] = "rejected"
             PROVE  planned[m].id \in ForUser /\ ~Ordinary
  BY DEF NothingRejected
<1> DEFINE packages == PackageSet(detected.fedora)
           id == planned[m].id
<1>1. m \in DOMAIN planned /\ packages \in PackageSets
  BY PlannedTyped DEF ApplyInv, Recorded
<1>2. ~IsLocal(id) /\ ~Validate(CommandIn(m), found.self)
  BY DEF ApplyInv, Meant, Permitted
<1>3. OfOneUser(id)
  <2> SUFFICES ASSUME ~OfOneUser(id) PROVE FALSE
    OBVIOUS
  <2>1. id \in Ids(packages) /\ CommandIn(m) = Words(packages, id)
    BY <1>1, OfTheTable DEF ApplyInv
  <2>2. Validate(CommandIn(m), "root")
    BY <1>1, <2>1, StepsAllowed
  <2> QED
    BY <1>2, <2>2, ForAnyUser
<1>4. id \in ForUser
  BY <1>2, <1>3 DEF OfOneUser
<1>5. ASSUME Ordinary PROVE FALSE
  <2>1. found \in Environments /\ found.self \in ValidNames
    BY <1>5 DEF Ordinary, ApplyInv, Given
  <2>2. found.euid # "root"
    BY <2>1, EnvironmentsAssumption, NamesAssumption
  <2>3. TargetUser(found) = found.self
    BY <1>5, <2>1, <2>2, NamesAssumption DEF TargetUser, IsValidTargetUser, Ordinary
  <2>4. detected.targetUser = found.self
    BY <2>3, DetectedTyped DEF ApplyInv
  <2>5. Validate(CommandIn(m), detected.targetUser)
    BY <1>4, <2>1, <2>4, ForItsUser DEF CommandIn
  <2> QED
    BY <1>2, <2>4, <2>5
<1> QED
  BY <1>4, <1>5

(* The helper lets every step of every plan through, but for those that name *)
(* a user who is not the one it runs for.                                    *)
THEOREM Allowed == ApplySpec => []NothingRejected
BY Invariant, NothingRefused, PTL

-----------------------------------------------------------------------------
(* What is there *)

(* Programs that are no package managers.                                    *)
LEMMA OtherPrograms ==
  ASSUME NEW id, NEW words
  PROVE  /\ words[1] \in {"usermod", "sudo", "mkdir", "curl", "chmod"} => RemovedBy(words) = {}
         /\ words[1] = "mv" =>
              RemovedBy(words) = {<<"file", words[3]>>, <<"executable", words[4]>>}
         /\ words[1] = "usermod" => AddedBy(id, words) = {<<"group", words[3], Last(words)>>}
         /\ words[1] = "sudo" => AddedBy(id, words) = {<<"pipx of", words[3], Last(words)>>}
         /\ words[1] = "mkdir" => AddedBy(id, words) = {<<"directory", Last(words)>>}
         /\ words[1] = "curl" /\ IsLocal(id) => AddedBy(id, words) = {<<"file", Last(words)>>}
         /\ words[1] = "mv" => AddedBy(id, words) = {<<"file", words[4]>>}
         /\ words[1] = "chmod" => AddedBy(id, words) = {<<"executable", Last(words)>>}
BY DEF RemovedBy, AddedBy

(* The commands that are for one user put no package there and take none.    *)
LEMMA OwnPrograms ==
  ASSUME NEW id, NEW words,
         \/ words[1] \in {"usermod", "sudo", "mkdir", "mv", "chmod"}
         \/ words[1] = "curl" /\ IsLocal(id)
  PROVE  /\ \A thing \in RemovedBy(words) : words[1] = "mv" /\ thing[1] \in {"file", "executable"}
         /\ \A thing \in AddedBy(id, words) :
              thing[1] \in {"group", "pipx of", "directory", "file", "executable"}
<1>1. CASE words[1] = "usermod"
  <2>1. RemovedBy(words) = {} /\ AddedBy(id, words) = {<<"group", words[3], Last(words)>>}
    BY <1>1, OtherPrograms
  <2> QED
    BY <2>1
<1>2. CASE words[1] = "sudo"
  <2> DEFINE thing == <<"pipx of", words[3], Last(words)>>
  <2>1. RemovedBy(words) = {} /\ AddedBy(id, words) = {thing}
    BY <1>2, OtherPrograms
  <2>2. thing[1] = "pipx of"
    OBVIOUS
  <2> HIDE DEF thing
  <2> QED
    BY <2>1, <2>2
<1>3. CASE words[1] = "mkdir"
  <2>1. RemovedBy(words) = {} /\ AddedBy(id, words) = {<<"directory", Last(words)>>}
    BY <1>3, OtherPrograms
  <2> QED
    BY <2>1
<1>4. CASE words[1] = "mv"
  <2>1. /\ RemovedBy(words) = {<<"file", words[3]>>, <<"executable", words[4]>>}
        /\ AddedBy(id, words) = {<<"file", words[4]>>}
    BY <1>4, OtherPrograms
  <2> QED
    BY <1>4, <2>1
<1>5. CASE words[1] = "chmod"
  <2>1. RemovedBy(words) = {} /\ AddedBy(id, words) = {<<"executable", Last(words)>>}
    BY <1>5, OtherPrograms
  <2> QED
    BY <2>1
<1>6. CASE words[1] = "curl" /\ IsLocal(id)
  <2>1. RemovedBy(words) = {} /\ AddedBy(id, words) = {<<"file", Last(words)>>}
    BY <1>6, OtherPrograms
  <2> QED
    BY <2>1
<1> QED
  BY <1>1, <1>2, <1>3, <1>4, <1>5, <1>6

LEMMA UserCommand ==
  ASSUME NEW id \in ForUser, NEW info
  PROVE  IF id \in DOMAIN PipxTools
         THEN CommandOf(id, info) = <<"sudo", "-u", info.targetUser, "/usr/bin/pipx", "install",
                                      "--include-deps", PipxTools[id]>>
         ELSE CommandOf(id, info) = <<"usermod", "-aG", IF id = "kvm_group" THEN "kvm" ELSE "libvirt",
                                      info.targetUser>>
<1>1. id \notin DOMAIN CommonCommands /\ ~IsLocal(id)
  BY OwnCommands DEF IsLocal
<1>2. CASE id \in DOMAIN PipxTools
  <2>1. id \notin {"kvm_group", "libvirt_group"}
    BY <1>2, OwnCommands
  <2> QED
    BY <1>1, <1>2, <2>1, Zenon DEF CommandOf
<1>3. CASE id \in {"kvm_group", "libvirt_group"}
  <2>1. id \notin DOMAIN PipxTools
    BY <1>3, OwnCommands
  <2>2. CASE id = "kvm_group"
    <3>1. CommandOf(id, info) = <<"usermod", "-aG", "kvm", info.targetUser>>
      BY <1>1, <2>1, <2>2, Zenon DEF CommandOf
    <3> QED
      BY <2>1, <2>2, <3>1
  <2>3. CASE id = "libvirt_group"
    <3>1. CommandOf(id, info) = <<"usermod", "-aG", "libvirt", info.targetUser>>
      BY <1>1, <2>1, <2>3, Zenon DEF CommandOf
    <3> QED
      BY <2>1, <2>3, <3>1
  <2> QED
    BY <1>3, <2>2, <2>3
<1> QED
  BY <1>2, <1>3 DEF ForUser

LEMMA LocalCommand ==
  ASSUME NEW id, IsLocal(id), NEW info
  PROVE  LET target == Applications(info) \o "/" \o AppImages[AppImageSteps[id][1]]
             kind == AppImageSteps[id][2]
             words == CommandOf(id, info)
         IN  \/ kind = "_directory" /\ words = <<"mkdir", "-p", Applications(info)>>
             \/ kind = "_download" /\ words = <<"curl", "-o", target \o ".part">>
             \/ kind = "_publish" /\ words = <<"mv", "-f", target \o ".part", target>>
             \/ kind = "_executable" /\ words = <<"chmod", "+x", target>>
<1>1. id \notin DOMAIN CommonCommands /\ id \notin {"kvm_group", "libvirt_group"} \cup DOMAIN PipxTools
  BY OwnCommands DEF IsLocal, ForUser
<1>2. CommandOf(id, info) = AppImageCommand(id, info)
  BY <1>1, Zenon DEF CommandOf
<1>3. AppImageSteps[id][2] \in {"_directory", "_download", "_publish", "_executable"}
  BY OwnCommands DEF IsLocal
<1> QED
  BY <1>2, <1>3 DEF AppImageCommand

LEMMA OwnEffects ==
  ASSUME NEW id, OfOneUser(id), NEW info
  PROVE  /\ \A thing \in RemovedBy(CommandOf(id, info)) :
              /\ thing[1] \in {"file", "executable"}
              /\ IsLocal(id) /\ AppImageSteps[id][2] = "_publish"
         /\ \A thing \in AddedBy(id, CommandOf(id, info)) :
              thing[1] \in {"group", "pipx of", "directory", "file", "executable"}
<1> DEFINE words == CommandOf(id, info)
<1>1. CASE id \in ForUser
  <2>1. words[1] \in {"usermod", "sudo"}
    BY <1>1, UserCommand
  <2> HIDE DEF words
  <2>2. words[1] # "mv"
    BY <2>1
  <2>3. \A thing \in RemovedBy(words) : FALSE
    BY <2>1, <2>2, OwnPrograms
  <2> QED
    BY <2>1, <2>3, OwnPrograms DEF words
<1>2. CASE IsLocal(id)
  <2> DEFINE kind == AppImageSteps[id][2]
  <2>1. /\ words[1] \in {"mkdir", "curl", "mv", "chmod"}
        /\ words[1] = "mv" => kind = "_publish"
    <3> DEFINE target == Applications(info) \o "/" \o AppImages[AppImageSteps[id][1]]
    <3>1. \/ kind = "_directory" /\ words = <<"mkdir", "-p", Applications(info)>>
          \/ kind = "_download" /\ words = <<"curl", "-o", target \o ".part">>
          \/ kind = "_publish" /\ words = <<"mv", "-f", target \o ".part", target>>
          \/ kind = "_executable" /\ words = <<"chmod", "+x", target>>
      BY <1>2, LocalCommand
    <3> HIDE DEF words, target, kind
    <3> QED
      BY <3>1
  <2> HIDE DEF words
  <2>2. \A thing \in RemovedBy(words) : words[1] = "mv" /\ thing[1] \in {"file", "executable"}
    BY <1>2, <2>1, OwnPrograms
  <2>3. \A thing \in AddedBy(id, words) :
          thing[1] \in {"group", "pipx of", "directory", "file", "executable"}
    BY <1>2, <2>1, OwnPrograms
  <2> QED
    BY <1>2, <2>1, <2>2, <2>3 DEF words
<1> QED
  BY <1>1, <1>2 DEF OfOneUser

(* What the steps of the plan take, and what they bring.                     *)
LEMMA TakenInPlan ==
  ASSUME Given, NEW k \in DOMAIN planned, NEW thing, thing \in RemovedBy(CommandIn(k))
  PROVE  \/ thing \in Taken
         \/ /\ thing[1] \in {"file", "executable"}
            /\ IsLocal(planned[k].id) /\ AppImageSteps[planned[k].id][2] = "_publish"
<1> DEFINE packages == PackageSet(detected.fedora)
           id == planned[k].id
<1>1. packages \in PackageSets
  BY PlannedTyped
<1>2. CASE OfOneUser(id)
  BY <1>2, OwnEffects DEF CommandIn
<1>3. CASE ~OfOneUser(id)
  BY <1>1, <1>3, OfTheTable, LittleTaken
<1> QED
  BY <1>2, <1>3

LEMMA NoneBringsScx ==
  ASSUME Given, NEW k \in DOMAIN planned
  PROVE  <<"rpm", "scx-scheds-git">> \notin AddedBy(planned[k].id, CommandIn(k))
<1> DEFINE packages == PackageSet(detected.fedora)
           id == planned[k].id
           thing == <<"rpm", "scx-scheds-git">>
<1>1. packages \in PackageSets
  BY PlannedTyped
<1>2. CASE OfOneUser(id)
  <2>1. thing[1] = "rpm"
    OBVIOUS
  <2> HIDE DEF thing
  <2> QED
    BY <1>2, <2>1, OwnEffects DEF CommandIn
<1>3. CASE ~OfOneUser(id)
  BY <1>1, <1>3, OfTheTable, LittleTaken
<1> QED
  BY <1>2, <1>3

(* What a step was left out for is never taken afterwards.                   *)
LEMMA ChecksStay ==
  ASSUME ApplyInv, NEW m \in DOMAIN results, results[m] = "skipped"
  PROVE  Rpms(ToSet(CheckIn(m))) \subseteq there
<1> DEFINE packages == PackageSet(detected.fedora)
<1>1. Given /\ m \in DOMAIN planned /\ packages \in PackageSets
  BY PlannedTyped DEF ApplyInv, Recorded
<1> SUFFICES ASSUME NEW thing \in Rpms(ToSet(CheckIn(m))) PROVE thing \in there
  OBVIOUS
<1>2. thing[1] = "rpm"
  BY DEF Rpms
<1>3. Rpms(ToSet(CheckIn(m))) = ChecksOf(packages, planned[m].id) /\ planned[m].id \in Ids(packages)
  BY <1>1, OfTheTable DEF ChecksOf
<1>4. thing \notin Taken
  BY <1>1, <1>3, LittleTaken
<1>5. \A k \in DOMAIN planned : thing \notin RemovedBy(CommandIn(k))
  BY <1>1, <1>2, <1>4, TakenInPlan
<1>6. thing \in Left(m)
  BY DEF Left
<1> QED
  BY <1>5, <1>6 DEF ApplyInv, Stays

LEMMA NothingLeftOut ==
  ASSUME ApplyInv
  PROVE  SkippedIsThere
<1> SUFFICES ASSUME NEW m \in DOMAIN results, results[m] = "skipped"
             PROVE  \/ planned[m].id = "toolkit_scx_scheds" /\ <<"rpm", "scx-scheds-git">> \in initially
                    \/ Rpms(ToSet(PackagesFor(planned[m].id, detected.fedora))) \subseteq there
  BY DEF SkippedIsThere
<1> DEFINE id == planned[m].id
<1>1. Rpms(ToSet(CheckIn(m))) \subseteq there /\ CheckIn(m) # <<>>
  BY ChecksStay DEF ApplyInv, Meant
<1>2. CASE id \in {"bootstrap", "git", "virt_libvirt_runtime", "virt_vmcurator_install"}
  <2>1. CheckIn(m) = PackagesFor(id, detected.fedora)
    BY <1>2, Zenon DEF CheckIn, AlreadyInstalledCheck
  <2> QED
    BY <1>1, <2>1
<1>3. CASE id = "toolkit_scx_scheds"
  <2>1. CheckIn(m) = <<"scx-scheds-git">>
    BY <1>3 DEF CheckIn, AlreadyInstalledCheck
  <2>2. <<"rpm", "scx-scheds-git">> \in there
    <3>1. "scx-scheds-git" \in ToSet(<<"scx-scheds-git">>)
      BY DEF ToSet
    <3> QED
      BY <1>1, <2>1, <3>1 DEF Rpms
  <2> QED
    BY <1>3, <2>2, NoneBringsScx DEF ApplyInv, Origin
<1>4. id \in {"bootstrap", "git", "virt_libvirt_runtime", "virt_vmcurator_install", "toolkit_scx_scheds"}
  BY <1>1 DEF CheckIn, AlreadyInstalledCheck
<1> QED
  BY <1>2, <1>3, <1>4

(* A step left out as installed leaves nothing out, whatever the steps after *)
(* it have done; for scx-scheds, another package was there from the start.   *)
THEOREM LeftOutIsThere == ApplySpec => []SkippedIsThere
BY Invariant, NothingLeftOut, PTL

-----------------------------------------------------------------------------
(* What is seen *)

LEMMA WishAsked ==
  ASSUME Given
  PROVE  LET asked == AskedFor({wish} \cap Key, Choice)
         IN  /\ wish \in asked /\ asked \cap Key \subseteq {wish}
             /\ wish \in Key \cup ChoiceValues
<1> DEFINE asked == AskedFor({wish} \cap Key, Choice)
<1>1. wish \in Key \/ wish \in DOMAIN OptionGroup
  BY DEF Given, Offered
<1>2. DOMAIN OptionGroup = ChoiceValues /\ Key \cap ChoiceValues = {}
  BY KeysApart DEF OptionGroup, ChoiceValues
<1>3. DOMAIN Groups = {"fileManager", "terminal", "gpu"}
  BY DEF Groups
<1>4. /\ Choice.gpu = IF wish \in Amd THEN "amd" ELSE "none"
      /\ Choice.fileManager = IF wish \in DOMAIN OptionGroup /\ OptionGroup[wish] = "fileManager" THEN wish ELSE "none"
      /\ Choice.terminal = IF wish \in DOMAIN OptionGroup /\ OptionGroup[wish] = "terminal" THEN wish ELSE "none"
  BY <1>3 DEF Choice
<1>5. asked \ {Always, "none"} \subseteq {wish}
  BY <1>4 DEF AskedFor
<1>6. CASE wish \in Key
  <2>1. wish \in asked
    BY <1>4, <1>6 DEF AskedFor
  <2> QED
    BY <1>5, <1>6, <2>1, KeysApart
<1>7. CASE wish \in ChoiceValues
  <2>1. OptionGroup[wish] \in {"fileManager", "terminal"}
    BY <1>2, <1>7 DEF OptionGroup
  <2>2. wish \in asked
    BY <1>2, <1>4, <1>7, <2>1 DEF AskedFor
  <2> QED
    BY <1>5, <1>7, <2>2, KeysApart
<1> QED
  BY <1>1, <1>2, <1>6, <1>7

(* All the steps that something asks for have succeeded.                     *)
Finished == Len(results) = Len(planned) /\ ToSet(results) \subseteq {"ok", "skipped"}

LEMMA AllDone ==
  ASSUME ApplyInv, Finished, NEW m \in DOMAIN planned
  PROVE  /\ m \in DOMAIN results
         /\ \/ results[m] = "ok" /\ Permitted(planned[m].id, CommandIn(m), found.self)
            \/ results[m] = "skipped" /\ CheckIn(m) # <<>>
<1>1. DOMAIN planned = 1..Len(planned) /\ results \in Seq(Outcomes)
  BY PlannedTyped DEF ApplyInv, Recorded
<1>2. m \in DOMAIN results
  BY <1>1 DEF Finished
<1>3. results[m] \in {"ok", "skipped"}
  BY <1>1, <1>2 DEF Finished, ToSet
<1> QED
  BY <1>2, <1>3 DEF ApplyInv, Meant

(* The step of the plan that an offer has become, if something asks for it.  *)
Rows == Offers[PackageSet(detected.fedora)]
AskedNowFor == AskedFor({wish} \cap Key, Choice)

LEMMA StepOf ==
  ASSUME Given, NEW at, Places(planned, Rows, ChosenOf(Rows, AskedNowFor), at),
         NEW o \in DOMAIN Rows, wish \in Rows[o].for
  PROVE  \E m \in DOMAIN planned : at[m] = o /\ planned[m] = Rows[o].step
<1>1. o \in ChosenOf(Rows, AskedNowFor)
  BY WishAsked DEF ChosenOf, AskedNowFor
<1>2. PICK m \in 1..Len(planned) : at[m] = o
  BY <1>1 DEF Places
<1>3. planned[m] = Rows[o].step /\ m \in DOMAIN planned
  BY <1>2, PlannedTyped DEF Places
<1> QED
  BY <1>2, <1>3

(* What a step that has run has brought is there, unless it is taken.        *)
LEMMA BroughtIsThere ==
  ASSUME ApplyInv, NEW m \in DOMAIN results, results[m] = "ok",
         Surely(planned[m].id, CommandIn(m)),
         NEW thing \in AddedBy(planned[m].id, CommandIn(m)), thing \notin Taken,
         \A k \in DOMAIN planned :
           m < k => \/ thing[1] \notin {"file", "executable"}
                    \/ ~(IsLocal(planned[k].id) /\ AppImageSteps[planned[k].id][2] = "_publish")
  PROVE  thing \in there
<1>1. Did(m) /\ thing \in Left(m)
  BY DEF Did, Left
<1>2. \A k \in DOMAIN planned : m < k => thing \notin RemovedBy(CommandIn(k))
  BY TakenInPlan DEF ApplyInv
<1> QED
  BY <1>1, <1>2 DEF ApplyInv, Stays

(* An item is known in the same way on all systems with a set of packages.   *)
LEMMA KnownAlike ==
  ASSUME NEW key, key \notin Apart, key # "systools/cbonsai",
         NEW info, NEW other, NEW self, NEW self2,
         info.fedora \in Nat, other.fedora \in Nat,
         PackageSet(other.fedora) = PackageSet(info.fedora)
  PROVE  CheckFor(key, info, self) = CheckFor(key, other, self2)
<1> DEFINE others == {"systools/moonlight", "systools/sunshine", "toolkit/lgl_scheduler_manager",
                      "gpu/amd/mesa_vulkan", "gpu/amd/mesa_va", "systools/nm_wait_online"}
<1>1. key \notin {"systools/tldr", "content/ytdlp", "systools/cbonsai"} /\ key \notin DOMAIN AppImageOf
  BY DEF Apart, PipxItems
<1>2. /\ others \cap (DOMAIN RpmPackages \cup DOMAIN FlatpakIds) = {}
      /\ DOMAIN RpmPackages \cap DOMAIN FlatpakIds = {}
  BY ChecksDiffer
<1>3. MesaCheck(key, info.fedora) = MesaCheck(key, other.fedora)
  <2>1. info.fedora >= 44 <=> other.fedora >= 44
    BY DEF PackageSet
  <2> QED
    BY <2>1 DEF MesaCheck, Mesa
<1>4. CASE key \in others
  <2>1. key \notin DOMAIN RpmPackages /\ key \notin DOMAIN FlatpakIds
    BY <1>2, <1>4
  <2> QED
    BY <1>1, <1>3, <1>4, <2>1 DEF CheckFor
<1>5. CASE key \in DOMAIN RpmPackages
  <2>1. key \notin others /\ key \notin DOMAIN FlatpakIds
    BY <1>2, <1>5
  <2> QED
    BY <1>1, <1>5, <2>1 DEF CheckFor
<1>6. CASE key \in DOMAIN FlatpakIds
  <2>1. key \notin others /\ key \notin DOMAIN RpmPackages
    BY <1>2, <1>6
  <2> QED
    BY <1>1, <1>6, <2>1 DEF CheckFor
<1>7. CASE key \notin others \cup DOMAIN RpmPackages \cup DOMAIN FlatpakIds
  BY <1>1, <1>7 DEF CheckFor
<1> QED
  BY <1>4, <1>5, <1>6, <1>7

(* What KnownBy says is looked for, is.                                      *)
LEMMA KnownIsLookedFor ==
  ASSUME Given, wish \in Key \ Apart
  PROVE  LET known == KnownBy(PackageSet(detected.fedora), wish)
         IN  /\ known \subseteq CheckFor(wish, detected, found.self)
             /\ wish # "systools/cbonsai" => known = CheckFor(wish, detected, found.self)
<1> DEFINE packages == PackageSet(detected.fedora)
<1>1. CASE wish = "systools/cbonsai"
  <2>1. /\ wish \notin {"systools/tldr", "content/ytdlp"} /\ wish \notin DOMAIN AppImageOf
        /\ wish \notin DOMAIN RpmPackages /\ wish \notin DOMAIN FlatpakIds
    BY <1>1, ChecksDiffer DEF PipxItems
  <2>2. Rpms({"cbonsai"}) \subseteq CheckFor(wish, detected, found.self)
    BY <1>1, <2>1 DEF CheckFor
  <2>3. KnownBy(packages, wish) = Rpms({"cbonsai"})
    BY <1>1 DEF KnownBy
  <2> QED
    BY <1>1, <2>2, <2>3
<1>2. CASE wish # "systools/cbonsai"
  <2> DEFINE info == SystemWith(ReleaseWith[packages])
  <2>1. /\ packages \in PackageSets /\ detected.fedora \in Nat
        /\ info.fedora \in Nat /\ PackageSet(info.fedora) = packages
    <3>1. packages \in PackageSets /\ detected.fedora \in Nat
      BY PlannedTyped, DetectedTyped
    <3>2. info.fedora = ReleaseWith[packages]
      BY DEF SystemWith
    <3> QED
      BY <3>1, <3>2, OneOfEachSet
  <2>2. KnownBy(packages, wish) = CheckFor(wish, info, User)
    BY <1>2 DEF KnownBy
  <2> HIDE DEF info
  <2>3. CheckFor(wish, info, User) = CheckFor(wish, detected, found.self)
    BY <1>2, <2>1, KnownAlike
  <2> QED
    BY <1>2, <2>2, <2>3
<1> QED
  BY <1>1, <1>2

LEMMA MostAreSeen ==
  ASSUME ApplyInv, Finished, wish \notin Unsure \cup Apart
  PROVE  IF wish \in Key THEN Seen(wish, detected, found.self, there) ELSE Rpms({wish}) \subseteq there
<1> DEFINE packages == PackageSet(detected.fedora)
           known == KnownBy(packages, wish)

<1>1. Given /\ packages \in PackageSets /\ Rows = Offers[packages]
  BY PlannedTyped DEF ApplyInv, Rows
<1>2. wish \in (Key \cup Groups.fileManager \cup Groups.terminal) \ (Unsure \cup Apart)
  BY <1>1, WishAsked DEF ChoiceValues
<1> DEFINE Id(o) == Rows[o].step.id
           WordsOf(o) == Words(packages, Id(o))
<1>3. PICK o \in DOMAIN Rows :
        /\ wish \in Rows[o].for /\ ~OfOneUser(Id(o)) /\ Surely(Id(o), WordsOf(o))
        /\ IF wish \in Negated
           THEN /\ AlreadyInstalledCheck(Id(o), ReleaseWith[packages]) = <<>>
                /\ known \subseteq RemovedBy(WordsOf(o))
                /\ \A other \in Ids(packages) :
                     OfOneUser(other) \/ Taken \cap AddedBy(other, Words(packages, other)) = {}
           ELSE \E thing \in (known \cap AddedBy(Id(o), WordsOf(o))) \ Taken :
                  /\ thing[1] \notin {"file", "executable"}
                  /\ \/ AlreadyInstalledCheck(Id(o), ReleaseWith[packages]) = <<>>
                     \/ thing \in ChecksOf(packages, Id(o))
  BY <1>1, <1>2, StepsSeen, Zenon
<1>4. PICK at : Places(planned, Rows, ChosenOf(Rows, AskedNowFor), at)
  BY <1>1, PlannedTyped DEF AskedNowFor
<1>5. PICK m \in DOMAIN planned : planned[m] = Rows[o].step
  BY <1>1, <1>3, <1>4, StepOf
<1>6. /\ planned[m].id = Id(o) /\ Id(o) \in Ids(packages) /\ CommandIn(m) = WordsOf(o)
      /\ CheckIn(m) = AlreadyInstalledCheck(Id(o), ReleaseWith[packages])
  BY <1>1, <1>3, <1>5, OfTheTable
<1>7. /\ m \in DOMAIN results
      /\ \/ results[m] = "ok"
         \/ results[m] = "skipped" /\ CheckIn(m) # <<>>
  BY <1>5, AllDone
<1>8. CASE wish \in Negated
  <2>1. results[m] = "ok" /\ Did(m)
    BY <1>3, <1>6, <1>7, <1>8 DEF Did
  <2>2. RemovedBy(WordsOf(o)) \subseteq Taken
    BY <1>1, <1>3, <1>6, LittleTaken
  <2>3. ASSUME NEW thing \in known PROVE thing \notin there
    <3>1. thing \in RemovedBy(CommandIn(m)) /\ thing \in Taken
      BY <1>3, <1>6, <1>8, <2>2
    <3>2. ASSUME NEW k \in DOMAIN planned PROVE thing \notin AddedBy(planned[k].id, CommandIn(k))
      <4>1. CASE OfOneUser(planned[k].id)
        <5>1. thing[1] \in {"rpm", "unit"}
          BY <3>1 DEF Taken
        <5> QED
          BY <4>1, <5>1, OwnEffects DEF CommandIn
      <4>2. CASE ~OfOneUser(planned[k].id)
        <5>1. planned[k].id \in Ids(packages) /\ CommandIn(k) = Words(packages, planned[k].id)
          BY <1>1, <4>2, OfTheTable
        <5> QED
          BY <1>3, <1>8, <3>1, <4>2, <5>1
      <4> QED
        BY <4>1, <4>2
    <3> QED
      BY <1>7, <2>1, <3>1, <3>2 DEF ApplyInv, StaysAway
  <2>4. wish \in Key \ Apart /\ wish # "systools/cbonsai"
    BY <1>8, ChecksDiffer DEF Negated
  <2>5. known = CheckFor(wish, detected, found.self)
    BY <1>1, <2>4, KnownIsLookedFor
  <2> HIDE DEF known
  <2> QED
    BY <1>8, <2>3, <2>4, <2>5 DEF Seen
<1>9. CASE wish \notin Negated
  <2>1. PICK thing \in (known \cap AddedBy(Id(o), WordsOf(o))) \ Taken :
          /\ thing[1] \notin {"file", "executable"}
          /\ \/ AlreadyInstalledCheck(Id(o), ReleaseWith[packages]) = <<>>
             \/ thing \in ChecksOf(packages, Id(o))
    BY <1>3, <1>9
  <2>2. thing \in there
    <3>1. CASE results[m] = "ok"
      <4>1. Surely(planned[m].id, CommandIn(m)) /\ thing \in AddedBy(planned[m].id, CommandIn(m))
        BY <1>3, <1>6, <2>1
      <4> QED
        BY <1>7, <2>1, <3>1, <4>1, BroughtIsThere
    <3>2. CASE results[m] = "skipped" /\ CheckIn(m) # <<>>
      <4>1. thing \in Rpms(ToSet(CheckIn(m)))
        BY <1>6, <2>1, <3>2 DEF ChecksOf
      <4> QED
        BY <1>7, <3>2, <4>1, ChecksStay
    <3> QED
      BY <1>7, <3>1, <3>2
  <2>3. CASE wish \in Key
    <3>1. known \subseteq CheckFor(wish, detected, found.self)
      BY <1>1, <2>3, KnownIsLookedFor
    <3> HIDE DEF known
    <3> QED
      BY <1>9, <2>1, <2>2, <2>3, <3>1 DEF Seen
  <2>4. CASE wish \notin Key
    <3>1. known = {<<"rpm", wish>>} /\ Rpms({wish}) = {<<"rpm", wish>>}
      BY <2>4 DEF KnownBy, Rpms
    <3> QED
      BY <2>1, <2>2, <2>4, <3>1
  <2> QED
    BY <2>3, <2>4
<1> QED
  BY <1>8, <1>9

(* pipx is run for nobody but who runs the wizard.                           *)
LEMMA PipxOfItsUser ==
  ASSUME NEW words, NEW tool, NEW user, NEW expected, Validate(words, expected),
         words = <<"sudo", "-u", user, "/usr/bin/pipx", "install", "--include-deps", tool>>
  PROVE  user = expected
<1> DEFINE rule == <<"sudo", "-u", "<user>", "/usr/bin/pipx", "install", "--include-deps", "<pipx>">>
<1>1. Len(words) = 7 /\ DOMAIN words = 1..7 /\ words[1] = "sudo" /\ words[3] = user
  OBVIOUS
<1>2. \A op \in AllowList \cup Variadic :
        /\ 1 \in DOMAIN op
        /\ op[1] \in {"dnf", "flatpak", "curl", "systemctl", "usermod", "setsebool", "rpm"} \/ op = rule
  BY DEF AllowList, Variadic
<1>3. \A first \in {"dnf", "flatpak", "curl", "systemctl", "usermod", "setsebool", "rpm"} :
        ~Matches("sudo", first, expected)
  BY DEF Matches
<1>4. \A op \in Variadic : op # rule
  BY DEF Variadic
<1>5. ASSUME NEW op \in AllowList, \A k \in DOMAIN op : Matches(words[k], op[k], expected)
      PROVE  Matches(user, "<user>", expected)
  <2>1. Matches("sudo", op[1], expected)
    BY <1>1, <1>2, <1>5
  <2>2. op = rule
    BY <1>2, <1>3, <2>1
  <2>3. 3 \in DOMAIN op /\ op[3] = "<user>"
    BY <2>2
  <2> QED
    BY <1>1, <1>5, <2>3
<1>6. ASSUME NEW op \in Variadic, Len(op) <= Len(words),
             \A k \in DOMAIN words :
               Matches(words[k], IF k <= Len(op) THEN op[k] ELSE Last(op), expected)
      PROVE  FALSE
  <2>1. Len(op) \in Nat /\ 1 <= Len(op)
    BY DEF Variadic
  <2>2. Matches("sudo", op[1], expected)
    BY <1>1, <1>6, <2>1
  <2> QED
    BY <1>2, <1>3, <1>4, <2>2
<1>7. Matches(user, "<user>", expected)
  BY <1>5, <1>6 DEF Validate
<1> QED
  BY <1>7 DEF Matches, Username

LEMMA PipxIsSeen ==
  ASSUME ApplyInv, Finished, wish \in DOMAIN PipxItems
  PROVE  Seen(wish, detected, found.self, there)
<1> DEFINE packages == PackageSet(detected.fedora)
           id == PipxItems[wish]
           tool == PipxTools[id]
           user == detected.targetUser
<1>1. Given /\ packages \in PackageSets /\ Rows = Offers[packages]
  BY PlannedTyped DEF ApplyInv, Rows
<1>2. PICK o \in DOMAIN Rows : Rows[o].for = {wish} /\ Rows[o].step.id = id
  BY <1>1, PipxSeen
<1>3. PICK at : Places(planned, Rows, ChosenOf(Rows, AskedNowFor), at)
  BY <1>1, PlannedTyped DEF AskedNowFor
<1>4. PICK m \in DOMAIN planned : planned[m] = Rows[o].step
  <2>1. wish \in Rows[o].for
    BY <1>2
  <2> QED
    BY <1>1, <1>3, <2>1, StepOf
<1>5. planned[m].id = id /\ id \in ForUser /\ id \in DOMAIN PipxTools
  BY <1>2, <1>4 DEF PipxItems, PipxTools, ForUser
<1>6. CommandIn(m) = <<"sudo", "-u", user, "/usr/bin/pipx", "install", "--include-deps", tool>>
  BY <1>5, UserCommand DEF CommandIn
<1>7. ~IsLocal(id) /\ id \notin Tolerant /\ CheckIn(m) = <<>>
  <2>1. ~IsLocal(id) /\ id \notin Tolerant
    BY <1>5, OwnCommands DEF IsLocal
  <2>2. AlreadyInstalledCheck(id, ReleaseWith[packages]) = <<>>
    BY <1>1, <1>5, OwnCommands
  <2> QED
    BY <1>1, <1>4, <1>5, <2>1, <2>2, OfTheTable
<1>8. m \in DOMAIN results /\ results[m] = "ok" /\ Validate(CommandIn(m), found.self)
  BY <1>4, <1>5, <1>7, AllDone DEF Permitted
<1>9. user = found.self
  BY <1>6, <1>8, PipxOfItsUser
<1> DEFINE thing == <<"pipx of", found.self, tool>>
<1>10. thing[1] = "pipx of" /\ thing \notin Taken
  BY DEF Taken
<1>11. thing \in AddedBy(id, CommandIn(m)) /\ Surely(id, CommandIn(m))
  <2> DEFINE words == <<"sudo", "-u", user, "/usr/bin/pipx", "install", "--include-deps", tool>>
  <2>1. words[1] = "sudo" /\ words[3] = user /\ Last(words) = tool
    BY DEF Last
  <2> HIDE DEF words
  <2>2. AddedBy(id, words) = {<<"pipx of", user, tool>>}
    BY <2>1, OtherPrograms
  <2>3. Surely(id, words)
    BY <1>7, <2>1 DEF Surely
  <2> QED
    BY <1>6, <1>9, <2>2, <2>3 DEF words
<1> HIDE DEF thing
<1>12. thing \in there
  BY <1>5, <1>8, <1>10, <1>11, BroughtIsThere
<1>13. CheckFor(wish, detected, found.self) = {thing}
  <2>1. wish \in {"systools/tldr", "content/ytdlp"}
    BY DEF PipxItems
  <2>2. /\ wish \notin DOMAIN AppImageOf /\ wish \notin DOMAIN RpmPackages /\ wish \notin DOMAIN FlatpakIds
    BY ChecksDiffer
  <2>3. CASE wish = "systools/tldr"
    <3>1. tool = "tldr"
      BY <2>3 DEF PipxItems, PipxTools
    <3> QED
      BY <2>2, <2>3, <3>1 DEF CheckFor, thing
  <2>4. CASE wish = "content/ytdlp"
    <3>1. tool = "yt-dlp"
      BY <2>4 DEF PipxItems, PipxTools
    <3> QED
      BY <2>2, <2>4, <3>1 DEF CheckFor, thing
  <2> QED
    BY <2>1, <2>3, <2>4
<1>14. wish \notin Negated
  BY ChecksDiffer DEF Apart
<1> QED
  BY <1>12, <1>13, <1>14 DEF Seen

LEMMA AppImagesAreSeen ==
  ASSUME ApplyInv, Finished, wish \in DOMAIN AppImageOf
  PROVE  Seen(wish, detected, found.self, there)
<1> DEFINE packages == PackageSet(detected.fedora)
           Id(o) == Rows[o].step.id
           Kind(o) == AppImageSteps[Id(o)][2]
           target == Applications(detected) \o "/" \o AppImageOf[wish]
           thing == <<"executable", target>>
<1>1. Given /\ packages \in PackageSets /\ Rows = Offers[packages]
  BY PlannedTyped DEF ApplyInv, Rows
<1>2. PICK o \in DOMAIN Rows :
        /\ Rows[o].for = {wish} /\ IsLocal(Id(o)) /\ Kind(o) = "_executable"
        /\ AppImages[AppImageSteps[Id(o)][1]] = AppImageOf[wish]
  BY <1>1, AppImagesSeen
<1>3. /\ \A p, q \in DOMAIN Rows :
           /\ IsLocal(Id(p)) /\ IsLocal(Id(q))
           /\ Rows[p].for \cap Rows[q].for # {} /\ Kind(p) = "_executable" /\ p < q
           => Kind(q) # "_publish"
      /\ \A q \in DOMAIN Rows : IsLocal(Id(q)) => Rows[q].for \subseteq Key
  BY <1>1, AppImagesSeen
<1>4. PICK at : Places(planned, Rows, ChosenOf(Rows, AskedNowFor), at)
  BY <1>1, PlannedTyped DEF AskedNowFor
<1>5. PICK m \in DOMAIN planned : at[m] = o /\ planned[m] = Rows[o].step
  <2>1. wish \in Rows[o].for
    BY <1>2
  <2> QED
    BY <1>1, <1>4, <2>1, StepOf
<1>6. CommandIn(m) = <<"chmod", "+x", target>>
  <2>1. LET of == Applications(detected) \o "/" \o AppImages[AppImageSteps[Id(o)][1]]
            words == CommandOf(Id(o), detected)
        IN  \/ Kind(o) = "_directory" /\ words = <<"mkdir", "-p", Applications(detected)>>
            \/ Kind(o) = "_download" /\ words = <<"curl", "-o", of \o ".part">>
            \/ Kind(o) = "_publish" /\ words = <<"mv", "-f", of \o ".part", of>>
            \/ Kind(o) = "_executable" /\ words = <<"chmod", "+x", of>>
    BY <1>2, LocalCommand
  <2> QED
    BY <1>2, <1>5, <2>1 DEF CommandIn
<1>7. Id(o) \notin Tolerant /\ CheckIn(m) = <<>>
  <2>1. Id(o) \in DOMAIN AppImageSteps
    BY <1>2 DEF IsLocal
  <2>2. Id(o) \notin Tolerant /\ AlreadyInstalledCheck(Id(o), ReleaseWith[packages]) = <<>>
    BY <1>1, <2>1, OwnCommands
  <2>3. CheckIn(m) = AlreadyInstalledCheck(Id(o), ReleaseWith[packages])
    BY <1>1, <1>5, OfTheTable
  <2> QED
    BY <2>2, <2>3
<1>8. m \in DOMAIN results /\ results[m] = "ok"
  BY <1>5, <1>7, AllDone
<1>9. thing[1] = "executable" /\ thing \notin Taken
  BY DEF Taken
<1>10. thing \in AddedBy(Id(o), CommandIn(m)) /\ Surely(Id(o), CommandIn(m))
  <2> DEFINE words == <<"chmod", "+x", target>>
  <2>1. words[1] = "chmod" /\ Last(words) = target
    BY DEF Last
  <2> HIDE DEF words, target
  <2>2. AddedBy(Id(o), words) = {<<"executable", target>>}
    BY <2>1, OtherPrograms
  <2>3. Surely(Id(o), words)
    BY <1>7, <2>1 DEF Surely
  <2> QED
    BY <1>6, <2>2, <2>3 DEF words
<1>11. ASSUME NEW k \in DOMAIN planned, m < k, IsLocal(planned[k].id)
       PROVE  AppImageSteps[planned[k].id][2] # "_publish"
  <2>1. /\ at[k] \in DOMAIN Rows /\ at[m] < at[k] /\ planned[k] = Rows[at[k]].step
        /\ Rows[at[k]].for \cap AskedNowFor # {}
    BY <1>4, <1>11, <1>1, PlannedTyped DEF Places, ChosenOf
  <2>2. Rows[at[k]].for \subseteq Key
    BY <1>3, <1>11, <2>1
  <2>3. AskedNowFor \cap Key \subseteq {wish}
    BY <1>1, WishAsked DEF AskedNowFor
  <2>4. Rows[o].for \cap Rows[at[k]].for # {}
    BY <1>2, <2>1, <2>2, <2>3
  <2> QED
    BY <1>2, <1>3, <1>5, <1>11, <2>1, <2>4
<1> HIDE DEF thing
<1>12. thing \in there
  <2>1. planned[m].id = Id(o)
    BY <1>5
  <2>2. \A k \in DOMAIN planned :
          m < k => ~(IsLocal(planned[k].id) /\ AppImageSteps[planned[k].id][2] = "_publish")
    BY <1>11
  <2> HIDE DEF Id
  <2> QED
    BY <1>8, <1>9, <1>10, <2>1, <2>2, BroughtIsThere
<1>13. thing \in CheckFor(wish, detected, found.self)
  <2>1. wish \notin {"systools/tldr", "content/ytdlp"} /\ wish # "systools/cbonsai"
    BY ChecksDiffer DEF PipxItems
  <2>2. wish \notin {"systools/moonlight", "systools/sunshine", "toolkit/lgl_scheduler_manager",
                     "gpu/amd/mesa_vulkan", "gpu/amd/mesa_va", "systools/nm_wait_online"}
    BY ChecksDiffer
  <2>3. wish \notin DOMAIN RpmPackages /\ wish \notin DOMAIN FlatpakIds
    BY ChecksDiffer
  <2>4. CheckFor(wish, detected, found.self) =
          {thing, <<"binary", "/usr/bin">>, <<"binary", "/usr/local/bin">>}
    BY <2>1, <2>2, <2>3, Zenon DEF CheckFor, thing
  <2> QED
    BY <2>4
<1>14. wish \notin Negated
  BY ChecksDiffer DEF Apart
<1> QED
  BY <1>12, <1>13, <1>14 DEF Seen

LEMMA SeenWhenDone ==
  ASSUME ApplyInv
  PROVE  InstalledIsSeen
<1> SUFFICES ASSUME Finished, wish \notin Unsure
             PROVE  IF wish \in Key THEN Seen(wish, detected, found.self, there)
                    ELSE Rpms({wish}) \subseteq there
  BY DEF InstalledIsSeen, Finished, Unsure
<1>1. CASE wish \in Apart
  <2>1. wish \in Key
    BY <1>1, ChecksDiffer
  <2> QED
    BY <1>1, <2>1, PipxIsSeen, AppImagesAreSeen DEF Apart
<1>2. CASE wish \notin Apart
  BY <1>2, MostAreSeen
<1> QED
  BY <1>1, <1>2

(* If every step of its plan has succeeded, a card's own check finds it, but *)
(* for three that no system can tell.                                        *)
THEOREM InstalledItIs == ApplySpec => []InstalledIsSeen
BY Invariant, SeenWhenDone, PTL
=============================================================================
