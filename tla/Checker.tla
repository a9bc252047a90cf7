------------------------------- MODULE Checker -------------------------------
(***************************************************************************)
(* The installed-state badges: the Checker (ui/checker.cpp), whose worker  *)
(* thread runs one probe at a time and posts the answers to the main       *)
(* thread, the pages that ask for probes and show the answers              *)
(* (selectpage.cpp, choicepage.cpp, gpupage.cpp, welcomepage.cpp), and the *)
(* system, which changes meanwhile: an installation is under way, or a     *)
(* package is removed by hand.                                             *)
(***************************************************************************)
EXTENDS Integers, Sequences, FiniteSets

CONSTANTS Key,         \* the cards that have a probe
          NoJob,       \* what the thread has in hand when it has nothing
          Page,
          Cards,       \* [Page -> SUBSET Key], a page's cards
          Quiet,       \* keys whose request does not show the page's spinner
          Slow,        \* keys whose probe may run into the time limit
          MaxRefresh,  \* how often Refresh is pressed, a bound for TLC
          MaxChange    \* how often the system changes, a bound for TLC

ASSUME KeysAssumption == NoJob \notin Key /\ IsFiniteSet(Key)
ASSUME PagesAssumption ==
  /\ Cards \in [Page -> SUBSET Key]
  /\ \A page, other \in Page : page # other => Cards[page] \cap Cards[other] = {}
ASSUME BoundsAssumption == MaxRefresh \in Nat /\ MaxChange \in Nat

VARIABLES
  (* the pages *)
  requested,   \* m_requested and m_manualRequested, the keys asked for
  badge,       \* what each card shows
  spinner,     \* the pages that show "Checking..."
  (* the Checker, under its mutex but for pending *)
  jobs, posted, stop, pending,
  (* its thread: where it stands, the job it has taken, the answer it found *)
  thread, job, answer,
  (* the system, and what TLC bounds *)
  state, refreshes, changes,
  (* history: cards asked about, and pages shown, since the last change *)
  asked, shown

pageVars == <<requested, badge, spinner>>
checkerVars == <<jobs, posted, stop, pending>>
threadVars == <<thread, job, answer>>
history == <<asked, shown>>
vars == <<pageVars, checkerVars, threadVars, state, refreshes, changes, history>>

Init ==
  /\ requested = {} /\ badge = [key \in Key |-> "none"] /\ spinner = {}
  /\ jobs = <<>> /\ posted = <<>> /\ stop = FALSE /\ pending = 0
  /\ thread = "none" /\ job = NoJob /\ answer = FALSE
  /\ state \in [Key -> BOOLEAN] /\ refreshes = 0 /\ changes = 0
  /\ asked = {} /\ shown = {}

------------------------------------------------------------------------------
(* The main thread *)

(* The keys, once each, in the order the page goes through them. *)
Orders(keys) == {queue \in [1..Cardinality(keys) -> keys] :
                   \A key \in keys : \E n \in DOMAIN queue : queue[n] = key}

(* requestMissingChecks() of a page, with submit() for each missing card.    *)
RequestMissing(page, known) ==
  LET missing == Cards[page] \ known
  IN /\ requested' = known \cup Cards[page]
     /\ \E queue \in Orders(missing) :
          jobs' = jobs \o queue /\ pending' = pending + Len(queue)
     /\ thread' = IF missing # {} /\ thread = "none" THEN "wait" ELSE thread
     /\ spinner' = IF missing \subseteq Quiet THEN spinner ELSE spinner \cup {page}
     /\ asked' = asked \cup missing

(* onShown() *)
Show(page) ==
  /\ ~stop
  /\ RequestMissing(page, requested)
  /\ shown' = shown \cup {page}
  /\ UNCHANGED <<badge, posted, stop, job, answer, state, refreshes, changes>>

(* The Refresh button: nothing of the page counts as requested any more.     *)
Refresh(page) ==
  /\ ~stop /\ refreshes < MaxRefresh /\ refreshes' = refreshes + 1
  /\ RequestMissing(page, requested \ Cards[page])
  /\ shown' = shown \cup {page}
  /\ UNCHANGED <<badge, posted, stop, job, answer, state, changes>>

AnswersTo(key, items) == {n \in DOMAIN items : items[n].key = key}
Oldest(places) == CHOOSE n \in places : \A m \in places : n <= m       \* mutant
Newest(places) == CHOOSE n \in places : \A m \in places : m <= n

Shown(installed) == IF installed THEN "yes" ELSE "no"

(* The badges after the answers have been shown one after the other.         *)
Emitted(items) ==
  [key \in Key |-> LET places == AnswersTo(key, items)
                   IN IF places = {} THEN badge[key] ELSE Shown(items[Newest(places)].installed)]

(* drain(): all the posted answers, in order, outside the lock.              *)
OneDecrement(n) == 1                                                   \* mutant
Decrements(n) == n

Drain ==
  /\ ~stop /\ posted # <<>>
  /\ badge' = Emitted(posted)
  /\ pending' = pending - Decrements(Len(posted))
  /\ spinner' = IF pending' = 0 THEN {} ELSE spinner
  /\ posted' = <<>>
  /\ UNCHANGED <<requested, jobs, stop, threadVars, state, refreshes, changes, history>>

(* ~Checker(): the flag is set, and the main thread waits in join().         *)
Quit ==
  /\ ~stop /\ stop' = TRUE
  /\ thread' = IF thread = "none" THEN "gone" ELSE thread
  /\ UNCHANGED <<pageVars, jobs, posted, pending, job, answer, state, refreshes, changes, history>>

------------------------------------------------------------------------------
(* The checker thread, and the system it looks at *)

TakeJob ==
  /\ thread = "wait" /\ jobs # <<>>
  /\ job' = Head(jobs) /\ jobs' = Tail(jobs) /\ thread' = "probe"
  /\ UNCHANGED <<pageVars, posted, stop, pending, answer, state, refreshes, changes, history>>

(* The probe, outside the lock.  One that takes longer than 8 s is killed,   *)
(* which counts as a failure of the command: "no", or "yes" for the one      *)
(* probe that is negated.                                                    *)
Probe ==
  /\ thread = "probe"
  /\ answer' \in IF job \in Slow THEN BOOLEAN ELSE {state[job]}
  /\ thread' = "post"
  /\ UNCHANGED <<pageVars, checkerVars, job, state, refreshes, changes, history>>

OnlyTheLast(item) == <<item>>                                          \* mutant
Posted(item) == Append(posted, item)

PostAnswer ==
  /\ thread = "post"
  /\ posted' = Posted([key |-> job, installed |-> answer])
  /\ thread' = "wait" /\ job' = NoJob
  /\ UNCHANGED <<pageVars, jobs, stop, pending, answer, state, refreshes, changes, history>>

StopsWhenShown == stop /\ jobs = <<>> /\ posted = <<>>                 \* mutant
StopsWorking == stop /\ jobs = <<>>

ThreadEnds ==
  /\ thread = "wait" /\ StopsWorking
  /\ thread' = "gone"
  /\ UNCHANGED <<pageVars, checkerVars, job, answer, state, refreshes, changes, history>>

Change(key) ==
  /\ changes < MaxChange /\ changes' = changes + 1
  /\ state' = [state EXCEPT ![key] = ~@]
  /\ asked' = asked \ {key} /\ shown' = {page \in shown : key \notin Cards[page]}
  /\ UNCHANGED <<pageVars, checkerVars, threadVars, refreshes>>

------------------------------------------------------------------------------
Thread == TakeJob \/ Probe \/ PostAnswer \/ ThreadEnds

Terminated == stop /\ thread = "gone" /\ UNCHANGED vars

Next == \/ \E page \in Page : Show(page) \/ Refresh(page)
        \/ Drain \/ Quit
        \/ Thread
        \/ \E key \in Key : Change(key)
        \/ Terminated

Spec == Init /\ [][Next]_vars

(* The thread runs, its probes have a time limit, and the dispatcher wakes   *)
(* the main loop.                                                            *)
FairSpec == Spec /\ WF_vars(Thread) /\ WF_vars(Drain)

------------------------------------------------------------------------------
(* Properties *)

InHand == IF thread \in {"probe", "post"} THEN 1 ELSE 0

(* The answers still to be shown. *)
Outstanding == Len(jobs) + InHand + Len(posted)

Answers == [key : Key, installed : BOOLEAN]

TypeOK ==
  /\ requested \subseteq Key /\ badge \in [Key -> {"none", "yes", "no"}] /\ spinner \subseteq Page
  /\ jobs \in Seq(Key) /\ posted \in Seq(Answers) /\ stop \in BOOLEAN /\ pending \in Nat
  /\ thread \in {"none", "wait", "probe", "post", "gone"}
  /\ job \in Key \cup {NoJob} /\ answer \in BOOLEAN
  /\ state \in [Key -> BOOLEAN] /\ refreshes \in 0..MaxRefresh /\ changes \in 0..MaxChange
  /\ asked \subseteq Key /\ shown \subseteq Page

(* "Checking..." is shown only while an answer is still to come: m_pending,  *)
(* counted up by the pages and down by the answers, reaches zero exactly     *)
(* when the last answer is shown (checker.cpp submit(), work() and drain()). *)
SpinnerOnlyWhileChecking == spinner # {} => Outstanding > 0

Underway(key) == \/ \E n \in DOMAIN jobs : jobs[n] = key
                 \/ job = key
                 \/ \E n \in DOMAIN posted : posted[n].key = key

(* Once every answer about a card is shown, its badge is the state of the    *)
(* system, if the card was asked about after the last change: an older       *)
(* answer, found before the change, never overwrites a newer one.            *)
LastAnswerStands ==
  \A key \in asked \ Slow :
    ~Underway(key) => badge[key] = Shown(state[key])

(* Every card that is asked about gets its badge, unless the window closes.  *)
AnswersArrive == \A key \in Key : key \in requested ~> (badge[key] # "none" \/ stop)

(* Closing the window does not hang in ~Checker().                           *)
QuitEnds == stop ~> thread = "gone"
=============================================================================
