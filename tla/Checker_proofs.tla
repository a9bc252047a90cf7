---------------------------- MODULE Checker_proofs ----------------------------
(***************************************************************************)
(* Theorems about Checker, for any finite set of cards, any pages, and any *)
(* number of refreshes and changes; and about Process, which its probes    *)
(* run through: what runCommand() returns, for any limit on the output and *)
(* any amount of it.                                                       *)
(***************************************************************************)
EXTENDS Checker, Process, FiniteSetTheorems, WellFoundedInduction, TLAPS

(* m_pending is exactly the number of answers that are still to come. *)
Counted == pending = Outstanding
Spins == spinner # {} => pending > 0
InHandIffBusy == thread \in {"probe", "post"} <=> job # NoJob
CountInv == TypeOK /\ Counted /\ Spins /\ InHandIffBusy

(* What the badge will show when everything about the card is over.         *)
Settles(key) ==
  \/ \E n \in DOMAIN jobs : jobs[n] = key
  \/ job = key /\ (thread = "post" => answer = state[key])
  \/ job # key /\ Emitted(posted)[key] = Shown(state[key])
AnswerInv == \A key \in asked \ Slow : Settles(key)

------------------------------------------------------------------------------
(* Operators *)

(* An order of a set of cards is a sequence of them. *)
LEMMA OrdersType ==
  ASSUME NEW keys \in SUBSET Key, NEW queue \in Orders(keys)
  PROVE  queue \in Seq(Key) /\ Len(queue) = Cardinality(keys) /\ Cardinality(keys) \in Nat
<1>1. IsFiniteSet(keys)
  BY KeysAssumption, FS_Subset
<1>2. Cardinality(keys) \in Nat
  BY <1>1, FS_CardinalityType
<1>3. queue \in [1..Cardinality(keys) -> keys]
  BY DEF Orders
<1>4. queue \in Seq(keys) /\ Len(queue) = Cardinality(keys)
  BY <1>2, <1>3
<1>5. QED BY <1>2, <1>4

(* A badge shows an answer, or stays. *)
LEMMA EmittedType ==
  ASSUME badge \in [Key -> {"none", "yes", "no"}], NEW items
  PROVE  Emitted(items) \in [Key -> {"none", "yes", "no"}]
BY DEF Emitted, Shown

LEMMA NothingEmitted ==
  ASSUME badge \in [Key -> {"none", "yes", "no"}]
  PROVE  Emitted(<<>>) = badge
BY DEF Emitted, AnswersTo

(* Positions of a sequence that are taken from a bounded range have a last.  *)
LEMMA NewestExists ==
  ASSUME NEW bound \in Nat, NEW places \in SUBSET (1..bound), places # {}
  PROVE  Newest(places) \in places
<1> DEFINE distances == {bound - n : n \in places}
<1>0. \A n \in places : n \in Nat /\ bound - n \in Nat
  OBVIOUS
<1>1. distances \subseteq Nat /\ distances # {}
  BY <1>0, Zenon
<1>2. \E x \in distances : \A y \in distances : <<y, x>> \notin OpToRel(<, Nat)
  <2> HIDE DEF distances
  <2>1. QED BY <1>1, NatLessThanWellFounded, WFMin
<1>3. PICK x \in distances : \A y \in distances : <<y, x>> \notin OpToRel(<, Nat)
  BY <1>2
<1>4. \A y \in distances : ~(y < x)
  BY <1>1, <1>3 DEF OpToRel
<1>5. PICK n \in places : x = bound - n
  OBVIOUS
<1>6. ASSUME NEW m \in places
      PROVE  m <= n
  <2>1. bound - m \in distances
    BY Zenon
  <2>2. ~(bound - m < bound - n)
    BY <1>4, <1>5, <2>1, Zenon
  <2>3. QED BY <1>0, <2>2
<1>7. QED BY <1>6 DEF Newest

(* One more answer decides the badge of its card, and no other. *)
LEMMA OneMoreEmitted ==
  ASSUME NEW items \in Seq(Answers), NEW item \in Answers, NEW key \in Key
  PROVE  Emitted(Append(items, item))[key] =
           IF item.key = key THEN Shown(item.installed) ELSE Emitted(items)[key]
<1> DEFINE longer == Append(items, item)
<1>1. /\ Len(items) \in Nat /\ Len(longer) = Len(items) + 1
      /\ longer[Len(longer)] = item
      /\ \A n \in 1..Len(items) : longer[n] = items[n]
      /\ DOMAIN items = 1..Len(items) /\ DOMAIN longer = 1..Len(longer)
  OBVIOUS
<1>2. CASE item.key = key
  <2>1. /\ Len(longer) \in AnswersTo(key, longer)
        /\ \A n \in AnswersTo(key, longer) : n \in Nat /\ n <= Len(longer)
    BY <1>1, <1>2 DEF AnswersTo
  <2>2. Newest(AnswersTo(key, longer)) = Len(longer)
    <3>1. \A n \in AnswersTo(key, longer) :
            (\A m \in AnswersTo(key, longer) : m <= n) => n = Len(longer)
      BY <1>1, <2>1
    <3>2. QED BY <2>1, <3>1 DEF Newest
  <2>3. QED BY <1>1, <1>2, <2>1, <2>2 DEF Emitted
<1>3. CASE item.key # key
  <2>1. AnswersTo(key, longer) = AnswersTo(key, items)
    BY <1>1, <1>3 DEF AnswersTo
  <2>2. CASE AnswersTo(key, items) = {}
    BY <1>3, <2>1, <2>2 DEF Emitted
  <2>3. CASE AnswersTo(key, items) # {}
    <3>1. Newest(AnswersTo(key, items)) \in AnswersTo(key, items)
      <4>1. AnswersTo(key, items) \subseteq 1..Len(items)
        BY <1>1 DEF AnswersTo
      <4>2. QED BY <1>1, <2>3, <4>1, NewestExists
    <3>2. longer[Newest(AnswersTo(key, items))] = items[Newest(AnswersTo(key, items))]
      BY <1>1, <3>1 DEF AnswersTo
    <3>3. QED BY <1>3, <2>1, <2>3, <3>2 DEF Emitted
  <2>4. QED BY <2>2, <2>3
<1>4. QED BY <1>2, <1>3

------------------------------------------------------------------------------
(* The steps *)

(* Cards are asked about: the jobs and the counter grow together.            *)
LEMMA RequestCounts ==
  ASSUME CountInv, NEW page \in Page, NEW known \in SUBSET requested,
         RequestMissing(page, known), ~stop,
         UNCHANGED <<badge, posted, stop, job, answer, state, changes>>,
         refreshes' \in 0..MaxRefresh, shown' = shown \cup {page}
  PROVE  CountInv'
<1> DEFINE missing == Cards[page] \ known
<1>1. missing \subseteq Key /\ Cards[page] \subseteq Key
  BY PagesAssumption
<1>2. PICK queue \in Orders(missing) : jobs' = jobs \o queue /\ pending' = pending + Len(queue)
  BY DEF RequestMissing
<1>3. queue \in Seq(Key) /\ Len(queue) = Cardinality(missing) /\ Cardinality(missing) \in Nat
  BY <1>1, <1>2, OrdersType
<1>4. missing # {} => Len(queue) > 0
  <2>1. missing # {} => \E n \in DOMAIN queue : TRUE
    BY <1>2 DEF Orders
  <2>2. DOMAIN queue = 1..Len(queue) /\ Len(queue) \in Nat
    BY <1>3
  <2>3. QED BY <2>1, <2>2
<1>4a. /\ jobs' \in Seq(Key) /\ Len(jobs') = Len(jobs) + Len(queue)
       /\ Len(jobs) \in Nat /\ Len(queue) \in Nat /\ pending \in Nat
  <2>1. jobs \in Seq(Key) /\ pending \in Nat
    BY DEF CountInv, TypeOK
  <2>2. queue \in Seq(Key)
    BY <1>3
  <2>3. QED BY <1>2, <2>1, <2>2
<1>5. TypeOK'
  <2>1. pending' \in Nat
    BY <1>2, <1>4a
  <2>2. QED BY <1>1, <1>4a, <2>1 DEF CountInv, TypeOK, RequestMissing
<1>6. Counted' /\ InHandIffBusy'
  <2>1. (thread' \in {"probe", "post"}) = (thread \in {"probe", "post"})
    BY DEF RequestMissing
  <2>2. InHand' = InHand /\ InHand \in Nat /\ Len(posted) \in Nat
    BY <2>1 DEF InHand, CountInv, TypeOK
  <2>3. pending = Len(jobs) + InHand + Len(posted)
    BY DEF CountInv, Counted, Outstanding
  <2>4. Counted'
    <3>1. Outstanding' = Len(jobs') + InHand + Len(posted)
      BY <2>2 DEF Outstanding
    <3>2. QED BY <1>2, <1>4a, <2>2, <2>3, <3>1 DEF Counted
  <2>5. InHandIffBusy'
    BY <2>1 DEF CountInv, InHandIffBusy
  <2>6. QED BY <2>4, <2>5
<1>7. Spins'
  <2>1. spinner' # {} => spinner # {} \/ missing # {}
    BY DEF RequestMissing
  <2>2. spinner # {} => pending > 0
    BY DEF CountInv, Spins
  <2>3. pending \in Nat
    BY DEF CountInv, TypeOK
  <2>4. QED BY <1>2, <1>3, <1>4, <2>1, <2>2, <2>3 DEF Spins
<1>8. QED BY <1>5, <1>6, <1>7 DEF CountInv

LEMMA CountSteps ==
  ASSUME CountInv, [Next]_vars
  PROVE  CountInv'
<1> USE DEF vars, pageVars, checkerVars, threadVars, history
<1>1. ASSUME NEW page \in Page, Show(page)
      PROVE  CountInv'
  BY <1>1, RequestCounts DEF Show, CountInv, TypeOK
<1>2. ASSUME NEW page \in Page, Refresh(page)
      PROVE  CountInv'
  <2>1. refreshes' \in 0..MaxRefresh
    BY <1>2, BoundsAssumption DEF Refresh, CountInv, TypeOK
  <2>2. requested \ Cards[page] \in SUBSET requested
    OBVIOUS
  <2>3. QED BY <1>2, <2>1, <2>2, RequestCounts DEF Refresh
<1>3. ASSUME Drain
      PROVE  CountInv'
  <2>1. pending' = Len(jobs) + InHand /\ posted' = <<>> /\ Len(posted') = 0
    BY <1>3 DEF Drain, Decrements, CountInv, TypeOK, Counted, Outstanding, InHand
  <2>2. TypeOK'
    <3>1. badge' \in [Key -> {"none", "yes", "no"}]
      BY <1>3, EmittedType DEF Drain, CountInv, TypeOK
    <3>2. pending' \in Nat /\ posted' \in Seq(Answers)
      BY <2>1 DEF CountInv, TypeOK, InHand
    <3>3. QED BY <1>3, <3>1, <3>2 DEF Drain, CountInv, TypeOK
  <2>3. Counted' /\ InHandIffBusy'
    BY <1>3, <2>1 DEF Drain, CountInv, TypeOK, Counted, InHandIffBusy, Outstanding, InHand
  <2>4. Spins'
    BY <1>3, <2>2 DEF Drain, Spins, TypeOK
  <2>5. QED BY <2>2, <2>3, <2>4 DEF CountInv
<1>4. CASE Quit
  BY <1>4 DEF Quit, CountInv, TypeOK, Counted, Spins, InHandIffBusy, Outstanding, InHand
<1>5. CASE TakeJob
  <2>1. /\ job' \in Key /\ jobs' \in Seq(Key) /\ Len(jobs') = Len(jobs) - 1 /\ thread' = "probe"
        /\ Len(jobs) \in Nat
    BY <1>5 DEF TakeJob, CountInv, TypeOK
  <2>2. QED BY <1>5, <2>1, KeysAssumption
            DEF TakeJob, CountInv, TypeOK, Counted, Spins, InHandIffBusy, Outstanding, InHand
<1>6. CASE Probe
  BY <1>6 DEF Probe, CountInv, TypeOK, Counted, Spins, InHandIffBusy, Outstanding, InHand
<1>7. CASE PostAnswer
  <2>1. [key |-> job, installed |-> answer] \in Answers
    BY <1>7 DEF PostAnswer, CountInv, TypeOK, InHandIffBusy, Answers
  <2>2. posted' \in Seq(Answers) /\ Len(posted') = Len(posted) + 1 /\ Len(posted) \in Nat
    BY <1>7, <2>1 DEF PostAnswer, Posted, CountInv, TypeOK
  <2>3. TypeOK'
    BY <1>7, <2>2 DEF PostAnswer, CountInv, TypeOK
  <2>4. Counted' /\ Spins'
    <3>1. InHand = 1 /\ InHand' = 0 /\ UNCHANGED <<jobs, pending, spinner>>
      BY <1>7 DEF PostAnswer, InHand
    <3>2. pending = Len(jobs) + 1 + Len(posted) /\ Len(jobs) \in Nat
      BY <3>1 DEF CountInv, TypeOK, Counted, Outstanding
    <3>3. Outstanding' = Len(jobs) + 0 + Len(posted')
      BY <3>1 DEF Outstanding
    <3>4. QED BY <2>2, <3>1, <3>2, <3>3 DEF CountInv, Counted, Spins
  <2>5. InHandIffBusy'
    <3>1. thread' = "wait" /\ job' = NoJob
      BY <1>7 DEF PostAnswer
    <3>2. QED BY <3>1 DEF InHandIffBusy
  <2>6. QED BY <2>3, <2>4, <2>5 DEF CountInv
<1>8. CASE ThreadEnds
  BY <1>8 DEF ThreadEnds, CountInv, TypeOK, Counted, Spins, InHandIffBusy, Outstanding, InHand
<1>9. ASSUME NEW key \in Key, Change(key)
      PROVE  CountInv'
  <2>1. changes' \in 0..MaxChange /\ state' \in [Key -> BOOLEAN]
    BY <1>9, BoundsAssumption DEF Change, CountInv, TypeOK
  <2>2. QED BY <1>9, <2>1 DEF Change, CountInv, TypeOK, Counted, Spins, InHandIffBusy,
                              Outstanding, InHand
<1>10. CASE UNCHANGED vars
  BY <1>10 DEF CountInv, TypeOK, Counted, Spins, InHandIffBusy, Outstanding, InHand
<1>11. QED BY <1>1, <1>2, <1>3, <1>4, <1>5, <1>6, <1>7, <1>8, <1>9, <1>10
           DEF Next, Thread, Terminated

LEMMA CountInit ==
  ASSUME Init
  PROVE  CountInv
<1>1. TypeOK
  <2>1. badge \in [Key -> {"none", "yes", "no"}]
    BY DEF Init
  <2>2. jobs \in Seq(Key) /\ posted \in Seq(Answers)
    BY DEF Init
  <2>3. refreshes \in 0..MaxRefresh /\ changes \in 0..MaxChange
    BY BoundsAssumption DEF Init
  <2>4. /\ requested \subseteq Key /\ spinner \subseteq Page
        /\ asked \subseteq Key /\ shown \subseteq Page /\ job \in Key \cup {NoJob}
    BY DEF Init
  <2>5. /\ stop \in BOOLEAN /\ answer \in BOOLEAN /\ pending \in Nat
        /\ thread \in {"none", "wait", "probe", "post", "gone"} /\ state \in [Key -> BOOLEAN]
    BY DEF Init
  <2>6. QED BY <2>1, <2>2, <2>3, <2>4, <2>5, Zenon DEF TypeOK
<1>2. Counted
  <2>1. Len(jobs) = 0 /\ Len(posted) = 0 /\ thread = "none" /\ pending = 0
    <3>1. Len(<<>>) = 0
      OBVIOUS
    <3>2. jobs = <<>> /\ posted = <<>> /\ thread = "none" /\ pending = 0
      BY DEF Init
    <3>3. QED BY <3>1, <3>2, Zenon
  <2>2. InHand = 0
    BY <2>1 DEF InHand
  <2>3. QED BY <2>1, <2>2 DEF Counted, Outstanding
<1>3. Spins /\ InHandIffBusy
  BY DEF Init, Spins, InHandIffBusy
<1>4. QED BY <1>1, <1>2, <1>3 DEF CountInv

LEMMA CountAlways == Spec => []CountInv
BY CountInit, CountSteps, PTL DEF Spec

------------------------------------------------------------------------------
(* Type correctness. *)
THEOREM Typing == Spec => []TypeOK
BY CountAlways, PTL DEF CountInv

(* The spinner of a page never outlives the last answer: m_pending counts    *)
(* the answers still to come, over every interleaving of the main thread and *)
(* the checker's (checker.cpp submit(), work(), drain()).                    *)
THEOREM SpinnerEnds == Spec => []SpinnerOnlyWhileChecking
<1>1. CountInv => SpinnerOnlyWhileChecking
  BY DEF CountInv, Counted, Spins, SpinnerOnlyWhileChecking
<1>2. QED BY <1>1, CountAlways, PTL

------------------------------------------------------------------------------
(* What a badge comes to show *)

LEMMA RequestSettles ==
  ASSUME CountInv, AnswerInv, NEW page \in Page, NEW known \in SUBSET requested,
         RequestMissing(page, known),
         UNCHANGED <<badge, posted, job, answer, state>>
  PROVE  AnswerInv'
<1> DEFINE missing == Cards[page] \ known
<1>1. missing \in SUBSET Key
  BY PagesAssumption
<1>2. PICK queue \in Orders(missing) : jobs' = jobs \o queue
  BY DEF RequestMissing
<1>3. queue \in Seq(Key) /\ jobs \in Seq(Key)
  BY <1>1, <1>2, OrdersType DEF CountInv, TypeOK
<1>4. /\ \A n \in DOMAIN jobs : n \in DOMAIN jobs' /\ jobs'[n] = jobs[n]
      /\ \A n \in DOMAIN queue : Len(jobs) + n \in DOMAIN jobs' /\ jobs'[Len(jobs) + n] = queue[n]
  BY <1>2, <1>3
<1>5. SUFFICES ASSUME NEW key \in asked' \ Slow
               PROVE  Settles(key)'
  BY DEF AnswerInv
<1>6. CASE key \in missing
  <2>1. PICK n \in DOMAIN queue : queue[n] = key
    BY <1>2, <1>6 DEF Orders
  <2>2. QED BY <1>4, <2>1 DEF Settles
<1>7. CASE key \notin missing
  <2>1. key \in asked
    BY <1>5, <1>7 DEF RequestMissing
  <2>2. Settles(key)
    BY <2>1 DEF AnswerInv
  <2>3. CASE \E n \in DOMAIN jobs : jobs[n] = key
    BY <1>4, <2>3 DEF Settles
  <2>4. CASE job = key /\ (thread = "post" => answer = state[key])
    <3>1. thread' = "post" => thread = "post"
      BY DEF RequestMissing
    <3>2. QED BY <2>4, <3>1 DEF Settles
  <2>5. CASE job # key /\ Emitted(posted)[key] = Shown(state[key])
    <3>1. Emitted(posted)' = Emitted(posted)
      BY DEF Emitted
    <3>2. QED BY <2>5, <3>1 DEF Settles, Shown
  <2>6. QED BY <2>2, <2>3, <2>4, <2>5 DEF Settles
<1>8. QED BY <1>6, <1>7

(* A step that leaves the jobs, the thread and the answers alone. *)
LEMMA SettlesStays ==
  ASSUME AnswerInv, UNCHANGED <<jobs, job, answer, posted, badge>>, asked' \subseteq asked,
         \A key \in asked' : state'[key] = state[key],
         thread' = "post" => thread = "post"
  PROVE  AnswerInv'
<1>1. Emitted(posted)' = Emitted(posted)
  BY DEF Emitted
<1>2. QED BY <1>1 DEF AnswerInv, Settles, Shown

LEMMA AnswerSteps ==
  ASSUME CountInv, AnswerInv, [Next]_vars
  PROVE  AnswerInv'
<1> USE DEF vars, pageVars, checkerVars, threadVars, history
<1>1. ASSUME NEW page \in Page, Show(page) \/ Refresh(page)
      PROVE  AnswerInv'
  <2>1. requested \in SUBSET requested /\ requested \ Cards[page] \in SUBSET requested
    OBVIOUS
  <2>2. QED BY <1>1, <2>1, RequestSettles DEF Show, Refresh
<1>2. CASE Drain
  <2>1. badge' = Emitted(posted) /\ posted' = <<>> /\ badge' \in [Key -> {"none", "yes", "no"}]
    BY <1>2, EmittedType DEF Drain, CountInv, TypeOK
  <2>2. Emitted(posted)' = Emitted(posted)
    <3>1. Emitted(posted)' = badge'
      BY <2>1 DEF Emitted, AnswersTo
    <3>2. QED BY <2>1, <3>1
  <2>3. QED BY <1>2, <2>2 DEF Drain, AnswerInv, Settles, Shown
<1>3. CASE TakeJob
  <2>1. jobs \in Seq(Key) /\ jobs # <<>>
    BY <1>3 DEF TakeJob, CountInv, TypeOK
  <2>2. /\ job' = jobs[1] /\ thread' = "probe" /\ job = NoJob
        /\ \A n \in DOMAIN jobs : n = 1 \/ (n - 1 \in DOMAIN jobs' /\ jobs'[n - 1] = jobs[n])
    BY <1>3, <2>1 DEF TakeJob, CountInv, InHandIffBusy
  <2>3. Emitted(posted)' = Emitted(posted)
    BY <1>3 DEF TakeJob, Emitted
  <2>4. SUFFICES ASSUME NEW key \in asked \ Slow, Settles(key)
                 PROVE  Settles(key)'
    BY <1>3 DEF TakeJob, AnswerInv
  <2>5. CASE \E n \in DOMAIN jobs : jobs[n] = key
    BY <2>2, <2>5 DEF Settles
  <2>6. CASE job' = key
    BY <2>2, <2>6 DEF Settles
  <2>7. CASE job' # key /\ Emitted(posted)[key] = Shown(state[key])
    BY <1>3, <2>3, <2>7 DEF TakeJob, Settles, Shown
  <2>8. job # key
    BY <2>2, <2>4, KeysAssumption DEF CountInv, TypeOK
  <2>9. QED BY <2>4, <2>5, <2>6, <2>7, <2>8 DEF Settles
<1>4. CASE Probe
  <2>1. Emitted(posted)' = Emitted(posted)
    BY <1>4 DEF Probe, Emitted
  <2>2. \A key \in asked \ Slow : job = key => answer' = state[key]
    BY <1>4 DEF Probe
  <2>3. QED BY <1>4, <2>1, <2>2 DEF Probe, AnswerInv, Settles, Shown
<1>5. CASE PostAnswer
  <2> DEFINE item == [key |-> job, installed |-> answer]
  <2>1. item \in Answers /\ posted \in Seq(Answers) /\ posted' = Append(posted, item)
    BY <1>5 DEF PostAnswer, Posted, CountInv, TypeOK, InHandIffBusy, Answers
  <2>2. SUFFICES ASSUME NEW key \in asked \ Slow, Settles(key)
                 PROVE  Settles(key)'
    BY <1>5 DEF PostAnswer, AnswerInv
  <2>3. key \in Key /\ job' # key
    BY <1>5, KeysAssumption DEF PostAnswer, CountInv, TypeOK
  <2>4. Emitted(posted)'[key] = Emitted(Append(posted, item))[key]
    BY <1>5, <2>1 DEF PostAnswer, Emitted
  <2>5. Emitted(posted)'[key] = IF job = key THEN Shown(answer) ELSE Emitted(posted)[key]
    BY <2>1, <2>3, <2>4, OneMoreEmitted
  <2>6. UNCHANGED <<jobs, state>> /\ thread = "post"
    BY <1>5 DEF PostAnswer
  <2>7. QED BY <2>2, <2>3, <2>5, <2>6 DEF Settles, Shown
<1>6. CASE Quit
  BY <1>6, SettlesStays DEF Quit
<1>7. CASE ThreadEnds
  BY <1>7, SettlesStays DEF ThreadEnds
<1>8. ASSUME NEW key \in Key, Change(key)
      PROVE  AnswerInv'
  <2>1. \A other \in asked' : state'[other] = state[other]
    BY <1>8 DEF Change, CountInv, TypeOK
  <2>2. QED BY <1>8, <2>1, SettlesStays DEF Change
<1>9. CASE UNCHANGED vars
  BY <1>9, SettlesStays
<1>10. QED BY <1>1, <1>2, <1>3, <1>4, <1>5, <1>6, <1>7, <1>8, <1>9
           DEF Next, Thread, Terminated

(* The badge of a card that was asked about after the last change shows the  *)
(* state of the system once everything about it is over, in whatever order   *)
(* requests, refreshes, probes, changes and batches of answers came.         *)
THEOREM LastAnswer == Spec => []LastAnswerStands
<1>1. Init => AnswerInv
  BY DEF Init, AnswerInv
<1>2. CountInv /\ AnswerInv => LastAnswerStands
  <2>1. SUFFICES ASSUME CountInv, AnswerInv, NEW key \in asked \ Slow, ~Underway(key)
                 PROVE  badge[key] = Shown(state[key])
    BY DEF LastAnswerStands
  <2>2. Emitted(posted)[key] = Shown(state[key])
    BY <2>1 DEF AnswerInv, Settles, Underway
  <2>3. key \in Key /\ AnswersTo(key, posted) = {}
    BY <2>1 DEF Underway, AnswersTo, CountInv, TypeOK
  <2>4. QED BY <2>2, <2>3 DEF Emitted
<1>3. QED BY <1>1, <1>2, AnswerSteps, CountAlways, PTL DEF Spec

------------------------------------------------------------------------------
(* runCommand() *)


(* Why the loops were left is in the flags: a child is killed for one of two *)
(* reasons, once, and only a child that was waited for gives a code.         *)
Stage ==
  /\ pc \in {"start", "read", "reap", "look", "reaped", "returned"}
  /\ child \in {"none", "running", "zombie", "reaped"}
  /\ status \in Codes \cup {"none", "signal"}
  /\ pc = "start" => child = "none"
  /\ child = "none" => pc \in {"start", "returned"} /\ status = "none"
  /\ child = "reaped" => pc \in {"reaped", "returned"}
  /\ pc \in {"reaped", "returned"} => child \in {"none", "reaped"}
  /\ child \in {"zombie", "reaped"} => status # "none"

Reasons ==
  /\ timedOut \in BOOLEAN /\ cancelled \in BOOLEAN /\ killed \in BOOLEAN
  /\ late \in BOOLEAN /\ cancelRequested \in BOOLEAN
  /\ killed <=> timedOut \/ cancelled
  /\ ~(timedOut /\ cancelled)
  /\ timedOut => late
  /\ cancelled => cancelRequested
  /\ pc \in {"start", "read"} => ~killed
  /\ pc # "returned" => exitCode = NoCode
  /\ pc = "returned" => exitCode = (IF child = "none" THEN NoCode ELSE CodeOf)

FlagsInv == Stage /\ Reasons

(* Who gives up does so for one reason, and kills.                           *)
Gave ==
  /\ killed' = TRUE
  /\ \/ cancelRequested /\ cancelled' = TRUE /\ timedOut' = FALSE
     \/ late /\ timedOut' = TRUE /\ cancelled' = FALSE

LEMMA GivingUp == Reasons /\ ~killed /\ GiveUp => Gave
<1> SUFFICES ASSUME Reasons, ~killed, GiveUp PROVE Gave
  OBVIOUS
<1>1. timedOut = FALSE /\ cancelled = FALSE
  BY Zenon DEF Reasons
<1>2. CASE cancelRequested
  BY <1>1, <1>2, Zenon DEF GiveUp, Kill, Gave
<1>3. CASE ~cancelRequested
  BY <1>1, <1>3, Zenon DEF GiveUp, Kill, Gave
<1> QED
  BY <1>2, <1>3

THEOREM Flagged == ProcessSpec => []FlagsInv
<1>1. ProcessInit => FlagsInv
  BY DEF ProcessInit, FlagsInv, Stage, Reasons, CodeOf, Codes, NoCode
<1>2. FlagsInv /\ [ProcessNext]_runnerVars => FlagsInv'
  <2> SUFFICES ASSUME FlagsInv, [ProcessNext]_runnerVars PROVE FlagsInv'
    OBVIOUS
  <2> USE DEF FlagsInv, Stage, Reasons, Codes, NoCode, CodeOf
  <2>1. CASE NotStarted
    BY <2>1 DEF NotStarted, processVars, resultVars, flags
  <2>2. CASE Start
    BY <2>2 DEF Start, resultVars, flags
  <2>3. CASE StopReading
    <3>1. Gave
      BY <2>3, GivingUp DEF StopReading
    <3>2. /\ pc = "read" /\ pc' = "reap"
          /\ child' = child /\ status' = status /\ exitCode' = exitCode
          /\ late' = late /\ cancelRequested' = cancelRequested
      BY <2>3 DEF StopReading, flags
    <3> QED
      BY <3>1, <3>2 DEF Gave
  <2>4. CASE ReadChunk
    BY <2>4 DEF ReadChunk, Reading, processVars, flags
  <2>5. CASE EndOfStream
    BY <2>5 DEF EndOfStream, Reading, processVars, resultVars, flags
  <2>6. CASE ReadFails
    BY <2>6 DEF ReadFails, Reading, processVars, resultVars, flags
  <2>7. CASE WaitPid
    BY <2>7 DEF WaitPid, ChildHasEnded, resultVars, flags
  <2>8. CASE Look
    <3>1. CASE ~MustGiveUp
      BY <2>8, <3>1 DEF Look, flags
    <3>2. CASE MustGiveUp
      <4>1. Gave
        BY <2>8, <3>2, GivingUp DEF Look, MustGiveUp
      <4>2. /\ pc = "look" /\ pc' = "reap"
            /\ child' = child /\ status' = status /\ exitCode' = exitCode
            /\ late' = late /\ cancelRequested' = cancelRequested
        BY <2>8 DEF Look, flags
      <4> QED
        BY <4>1, <4>2 DEF Gave
    <3> QED
      BY <3>1, <3>2
  <2>9. CASE Return
    BY <2>9 DEF Return, processVars, flags
  <2>10. CASE Write
    BY <2>10 DEF Write, resultVars, flags
  <2>11. CASE ForkGrandchild
    BY <2>11 DEF ForkGrandchild, resultVars, flags
  <2>12. CASE CloseOutput
    BY <2>12 DEF CloseOutput, resultVars, flags
  <2>13. CASE ChildEnds \/ ChildKilled
    BY <2>13 DEF ChildEnds, ChildKilled, Ended, BesideChild, resultVars, flags
  <2>14. CASE Deadline
    BY <2>14 DEF Deadline, processVars, resultVars
  <2>15. CASE Cancel
    BY <2>15 DEF Cancel, processVars, resultVars
  <2>16. CASE Rest \/ UNCHANGED runnerVars
    BY <2>16 DEF Rest, runnerVars, processVars, resultVars, flags
  <2> QED
    BY <2>1, <2>2, <2>3, <2>4, <2>5, <2>6, <2>7, <2>8, <2>9, <2>10, <2>11, <2>12, <2>13, <2>14, <2>15, <2>16
    DEF ProcessNext, Runner
<1> QED
  BY <1>1, <1>2, PTL DEF ProcessSpec

(* An exit code is the command's own, and without one the flags say why.     *)
THEOREM Tells == ProcessSpec => []ResultTellsWhatHappened
<1>1. FlagsInv => ResultTellsWhatHappened
  BY DEF FlagsInv, Stage, Reasons, ResultTellsWhatHappened, Returned, CodeOf, Codes, NoCode
<1> QED
  BY <1>1, Flagged, PTL

------------------------------------------------------------------------------
(* All that was written and is not in the pipe any more has been kept, up to *)
(* the limit; and reading ends by itself only when nobody can write.         *)
UpTo(chunks) == IF chunks > MaxOutput THEN MaxOutput ELSE chunks

Amounts ==
  /\ written \in Nat /\ pipe \in Nat /\ output \in Nat /\ pipe <= written
  /\ pc = "start" => written = 0 /\ pipe = 0 /\ output = 0 /\ holders = {}
  /\ pc = "read" => output = UpTo(written - pipe)

Complete == holders = {} /\ output = UpTo(written)
ReadToTheEnd ==
  pc \in {"reap", "look", "reaped", "returned"} /\ child # "none" /\ ~killed /\ ~broken => Complete

WholeInv == FlagsInv /\ Amounts /\ ReadToTheEnd

LEMMA WholeStep == WholeInv /\ [ProcessNext]_runnerVars => (Amounts /\ ReadToTheEnd)'
<1> SUFFICES ASSUME WholeInv, [ProcessNext]_runnerVars PROVE (Amounts /\ ReadToTheEnd)'
  OBVIOUS
<1> USE ProcessAssumption DEF WholeInv, Amounts, ReadToTheEnd, Complete, UpTo
<1>1. CASE NotStarted
  BY <1>1 DEF NotStarted, processVars, resultVars, FlagsInv, Stage
<1>2. CASE Start
  BY <1>2 DEF Start, resultVars
<1>3. CASE StopReading
  BY <1>3 DEF StopReading, GiveUp, Kill
<1>4. CASE ReadChunk
  <2>1. PICK size \in 1..pipe : pipe' = pipe - size /\ output' = Kept(size)
    BY <1>4 DEF ReadChunk
  <2>2. pc = "read" /\ pc' = "read" /\ written' = written
    BY <1>4 DEF ReadChunk, Reading, processVars
  <2>3. output' = UpTo(written' - pipe')
    BY <2>1, <2>2 DEF Kept
  <2> QED
    BY <2>1, <2>2, <2>3
<1>5. CASE EndOfStream
  BY <1>5 DEF EndOfStream, Reading, AtEnd, processVars, resultVars
<1>6. CASE ReadFails
  BY <1>6 DEF ReadFails, Reading, processVars, resultVars
<1>7. CASE WaitPid
  BY <1>7 DEF WaitPid, ChildHasEnded, resultVars, FlagsInv, Stage
<1>8. CASE Look
  BY <1>8 DEF Look, GiveUp, Kill
<1>9. CASE Return
  BY <1>9 DEF Return, processVars
<1>10. CASE Write
  BY <1>10 DEF Write, resultVars
<1>11. CASE ForkGrandchild
  BY <1>11 DEF ForkGrandchild, resultVars, FlagsInv, Stage
<1>12. CASE CloseOutput
  BY <1>12 DEF CloseOutput, resultVars
<1>13. CASE ChildEnds \/ ChildKilled
  BY <1>13 DEF ChildEnds, ChildKilled, Ended, BesideChild, resultVars, FlagsInv, Stage
<1>14. CASE Deadline \/ Cancel
  BY <1>14 DEF Deadline, Cancel, processVars, resultVars
<1>15. CASE Rest \/ UNCHANGED runnerVars
  BY <1>15 DEF Rest, runnerVars, processVars, resultVars
<1> QED
  BY <1>1, <1>2, <1>3, <1>4, <1>5, <1>6, <1>7, <1>8, <1>9, <1>10, <1>11, <1>12, <1>13, <1>14, <1>15
  DEF ProcessNext, Runner

(* An exit code comes with all the output there ever was, up to the limit.   *)
THEOREM Whole == ProcessSpec => []SuccessIsComplete
<1>1. ProcessInit => Amounts /\ ReadToTheEnd
  BY DEF ProcessInit, Amounts, ReadToTheEnd
<1>2. Amounts /\ ReadToTheEnd /\ FlagsInv /\ [ProcessNext]_runnerVars => (Amounts /\ ReadToTheEnd)'
  BY WholeStep DEF WholeInv
<1>3. FlagsInv /\ ReadToTheEnd => SuccessIsComplete
  BY DEF FlagsInv, Stage, Reasons, ReadToTheEnd, Complete, UpTo, SuccessIsComplete, Returned, CodeOf, NoCode
<1> QED
  BY <1>1, <1>2, <1>3, Flagged, PTL DEF ProcessSpec

(* Whatever is written, no more than the limit is kept in memory.            *)
THEOREM OutputBounded == ProcessSpec => []ProcessTypeOK
<1>1. ProcessInit => ProcessTypeOK
  <2> SUFFICES ASSUME ProcessInit PROVE ProcessTypeOK
    OBVIOUS
  <2>1. pipe \in 0..written /\ written \in 0..MaxWritten /\ output \in 0..MaxOutput
    BY ProcessAssumption DEF ProcessInit
  <2> QED
    BY <2>1 DEF ProcessInit, ProcessTypeOK
<1>2. ProcessTypeOK /\ [ProcessNext]_runnerVars => ProcessTypeOK'
  <2> SUFFICES ASSUME ProcessTypeOK, [ProcessNext]_runnerVars PROVE ProcessTypeOK'
    OBVIOUS
  <2> USE ProcessAssumption DEF ProcessTypeOK
  <2>1. CASE NotStarted \/ Rest \/ UNCHANGED runnerVars
    BY <2>1 DEF NotStarted, Rest, runnerVars, processVars, resultVars, flags
  <2>2. CASE Start
    BY <2>2 DEF Start, resultVars, flags
  <2>3. CASE StopReading \/ Look
    BY <2>3 DEF StopReading, Look, GiveUp, Kill, flags
  <2>4. CASE ReadChunk
    <3>1. PICK size \in 1..pipe : pipe' = pipe - size /\ output' = Kept(size)
      BY <2>4 DEF ReadChunk
    <3>2. output' \in 0..MaxOutput /\ pipe' \in 0..written
      BY <3>1 DEF Kept
    <3> QED
      BY <2>4, <3>2 DEF ReadChunk, Reading, processVars, flags
  <2>5. CASE EndOfStream \/ ReadFails
    BY <2>5 DEF EndOfStream, ReadFails, Reading, processVars, resultVars, flags
  <2>6. CASE WaitPid
    BY <2>6 DEF WaitPid, resultVars, flags
  <2>7. CASE Return
    BY <2>7 DEF Return, CodeOf, processVars, flags
  <2>8. CASE Write \/ ForkGrandchild \/ CloseOutput
    <3>1. CASE Write
      <4>1. written' \in 0..MaxWritten /\ pipe' \in 0..written'
        BY <3>1 DEF Write
      <4> QED
        BY <3>1, <4>1 DEF Write, resultVars, flags
    <3>2. CASE ForkGrandchild
      BY <3>2 DEF ForkGrandchild, resultVars, flags
    <3>3. CASE CloseOutput
      BY <3>3 DEF CloseOutput, resultVars, flags
    <3> QED
      BY <2>8, <3>1, <3>2, <3>3
  <2>9. CASE ChildEnds \/ ChildKilled
    BY <2>9 DEF ChildEnds, ChildKilled, Ended, BesideChild, resultVars, flags
  <2>10. CASE Deadline \/ Cancel
    BY <2>10 DEF Deadline, Cancel, processVars, resultVars
  <2> QED
    BY <2>1, <2>2, <2>3, <2>4, <2>5, <2>6, <2>7, <2>8, <2>9, <2>10 DEF ProcessNext, Runner
<1> QED
  BY <1>1, <1>2, PTL DEF ProcessSpec
=============================================================================
