------------------------- MODULE LegacySession_proofs -------------------------
(***************************************************************************)
(* Theorems about LegacySession, for every set of plans and exit codes and *)
(* whether or not the helper may die.                                      *)
(***************************************************************************)
EXTENDS LegacySession, TLAPS

Execution == [type : {"execute"}, step : Nat, kind : {"check", "command", "reboot"}]
Request == Execution \cup [type : {"cancel", "shutdown"}]
Answer == [type : {"started", "rejected", "cancel_ack", "shutdown_ack"}]
          \cup [type : {"finished"}, code : Codes]
Event == [type : {"step"}, step : Nat, mark : {"..", ">>", "OK", "--", "!!"}]
         \cup [type : {"allDone"}, errors : Nat]

Closing == ui \in {"closing", "closed"}
Working == ui \in {"updating", "flatpak", "install", "back"}
Heard == Working \/ ui = "installed"
Early == ui \in {"offer", "updating", "flatpak?", "flatpak", "kernel", "rebooting", "ready"}
Resting == ui \in {"offer", "flatpak?", "kernel", "ready", "installed", "done"}

Talking == {"loop", "check", "command", "cancelled check", "cancelled command", "shutdown",
            "disconnect", "rebooting"}
InStep == {"check", "command", "cancelled check", "cancelled command"}

PlanTyped ==
  /\ plan \in Seq(Step) /\ index # 0 /\ DOMAIN outcome = DOMAIN plan
  /\ worker \in InStep => index \in DOMAIN plan
ChipsTyped == DOMAIN chips \subseteq DOMAIN plan /\ (ui = "install" => DOMAIN chips = DOMAIN plan)
SentTyped == toHelper \in Seq(Request) /\ events \in Seq(Event)
AnswersTyped == toClient \in Seq(Answer) /\ unread \in Seq(Answer)
RequestTyped == request \in Execution \cup {NoRequest} /\ (helper = "busy" => request \in Execution)
Typed == TypeOK /\ PlanTyped /\ ChipsTyped /\ SentTyped /\ AnswersTyped /\ RequestTyped

(* Where the page and the worker can be together.                            *)
Together ==
  /\ Resting => worker \in Quiet
  /\ ui \in {"rebooting", "rebooting at the end"} <=> worker \in {"reboot", "rebooting"}
  /\ cancelled => Closing
  /\ Closing => cancelled \/ worker \in Quiet
  /\ worker \in {"cancelled check", "cancelled command"} => cancelled
  /\ worker \in Talking => connected
  /\ ~cancelled => unread = <<>>
  /\ Early => chips = <<>>

(* A helper that may still read what is in the socket.                       *)
Active == helper \in {"listening", "idle", "busy"}
Executes == {n \in DOMAIN toHelper : toHelper[n].type = "execute"}
Commands == {n \in Executes : toHelper[n].kind = "command"}

(* Until the window is closed, the one request there is for what the worker  *)
(* waits for, and it is in the socket, with the helper, or answered.         *)
Asks == {"check", "command", "rebooting"}
Current == IF worker = "rebooting" THEN Execute(0, "reboot") ELSE Execute(index, worker)
Nothing == (Active => Executes = {}) /\ helper # "busy" /\ Answers(toClient) = {}
OneRequest ==
  ~Closing =>
    /\ \A n \in DOMAIN toHelper : toHelper[n].type # "cancel"
    /\ worker \notin Asks => Nothing
    /\ Active => \A m, n \in Executes : m = n /\ toHelper[n] = Current
    /\ helper = "busy" => request = Current /\ Executes = {} /\ Answers(toClient) = {}
    /\ Answers(toClient) # {} /\ Active => Executes = {}
    /\ \A m, n \in Answers(toClient) : m = n

(* What the answer says is what happened.                                    *)
OutcomeOf(kind, code) ==
  IF kind = "check" THEN IF code = 0 THEN "found" ELSE "nothing"
  ELSE IF code \in plan[index].accepted \cup {0} THEN "done" ELSE "failed"
Open == {"nothing", "begun"}
AnswerTells ==
  ~Closing /\ worker \in {"check", "command"} =>
    /\ Answers(toClient) = {} => outcome[index] \in Open
    /\ \A n \in Answers(toClient) :
         IF toClient[n].type = "finished" THEN outcome[index] = OutcomeOf(worker, toClient[n].code)
         ELSE outcome[index] \in Open
Untouched ==
  Working => \A n \in DOMAIN plan :
    n > index \/ (n = index /\ worker \in {"connect", "loop"}) => outcome[n] = "nothing"

(* Nothing that is under way is about step n.                                *)
Over(n) ==
  /\ n < index
  /\ Active => \A m \in Executes : toHelper[m].step # n
  /\ helper = "busy" => request.step # n

IsTrue(n, mark) ==
  /\ n \in DOMAIN plan /\ (mark \in {"OK", "--", "!!"} => Over(n))
  /\ mark = "OK" => outcome[n] = "done"
  /\ mark = "--" => outcome[n] = "found"
  /\ mark = "!!" => outcome[n] \notin {"done", "found"}
There(n) == plan[n].optional \/ (outcome[n] \in {"done", "found"} /\ Over(n))

ChipsTrue == \A n \in DOMAIN chips : IsTrue(n, chips[n])
EventTrue(event) ==
  /\ event.type = "step" => IsTrue(event.step, event.mark)
  /\ event.type = "allDone" =>
       worker = "ended" /\ (event.errors = 0 => \A n \in DOMAIN plan : There(n))
EventsTrue == Heard => \A m \in DOMAIN events : EventTrue(events[m])
Said == entry = "alone" /\ ui \in LastPage /\ SaysAllThere
CountTrue ==
  /\ Working /\ failed = 0 => \A n \in DOMAIN plan : n < index => There(n)
  /\ Working /\ worker \in {"shutdown", "disconnect"} => index > Len(plan)
  /\ Said => \A n \in DOMAIN plan : There(n)

(* A command that was begun late, or still may be, is the worker's last.     *)
LastCommand ==
  /\ late <= 1 /\ (late = 1 => Closing)
  /\ Active => \A m, n \in Commands : m = n /\ late = 0
  /\ late = 1 \/ (Active /\ Commands # {}) =>
       /\ worker \notin {"connect", "check", "cancelled check"}
       /\ worker = "loop" => cancelled

ShownInv == ChipsTrue /\ EventsTrue /\ CountTrue
SessionInv == Together /\ OneRequest /\ AnswerTells /\ Untouched /\ LastCommand

-----------------------------------------------------------------------------
(* What can happen before the install page is entered over a live worker     *)

Apart == entry # "mixed" /\ stray = {}
Acts == entry # "mixed" /\ ((Click /\ UNCHANGED entry) \/ (Install /\ Alone))
Hears == Handled /\ UNCHANGED entry
NextApart == \/ Acts \/ Hears \/ WorkerSteps \/ SendCancel \/ HelperSteps
             \/ (\E code \in Codes : CommandEnds(code)) \/ HelperCrash \/ UNCHANGED vars

LEMMA MixedStays == entry = "mixed" /\ [Next]_vars => entry' = "mixed"
<1> SUFFICES ASSUME entry = "mixed", [Next]_vars PROVE entry' = "mixed"
  OBVIOUS
<1>1. CASE Install \/ InstallOver
  BY <1>1 DEF Install, InstallOver, Enter
<1>2. CASE StrayEnds \/ WorkerSteps \/ SendCancel
  BY <1>2 DEF StrayEnds, WorkerSteps, SendCancel, Connect, Begin, Read, Disconnected, Cancelled, Shutdown,
              Disconnect, Ours, again
<1>3. CASE HelperSteps \/ (\E code \in Codes : CommandEnds(code)) \/ HelperCrash
  BY <1>3 DEF HelperSteps, HelperShutsDown, HelperIsCancelled, HelperExecutes, HelperSeesEnd,
              HelperAccepts, HelperQuits, CommandEnds, HelperCrash, Theirs, again
<1> QED
  BY <1>1, <1>2, <1>3 DEF Next, User, MainLoop, Terminated, vars, again

LEMMA ApartStep ==
  ASSUME Apart, [Next]_vars, entry' # "mixed"
  PROVE  Apart' /\ NextApart
<1>1. CASE Install
  <2>1. Alone /\ UNCHANGED stray
    BY <1>1 DEF Install, Enter
  <2> QED
    BY <1>1, <2>1 DEF Apart, Acts, NextApart
<1>2. CASE WorkerSteps \/ SendCancel
  BY <1>2 DEF WorkerSteps, SendCancel, Connect, Begin, Read, Disconnected, Cancelled, Shutdown,
              Disconnect, Ours, again, Apart, NextApart
<1>3. CASE HelperSteps \/ (\E code \in Codes : CommandEnds(code)) \/ HelperCrash
  <2>1. UNCHANGED <<entry, stray>>
    BY <1>3 DEF HelperSteps, HelperShutsDown, HelperIsCancelled, HelperExecutes, HelperSeesEnd,
                HelperAccepts, HelperQuits, CommandEnds, HelperCrash, Theirs, again
  <2> QED
    BY <1>3, <2>1 DEF Apart, NextApart
<1>4. CASE UNCHANGED vars
  BY <1>4 DEF vars, again, Apart, NextApart
<1>5. CASE (Click \/ Handled) /\ UNCHANGED again
  BY <1>5 DEF again, Apart, Acts, Hears, NextApart
<1>6. ~InstallOver /\ ~StrayEnds
  BY DEF InstallOver, Enter, StrayEnds, Apart
<1> QED
  BY <1>1, <1>2, <1>3, <1>4, <1>5, <1>6 DEF Next, User, MainLoop, Terminated

-----------------------------------------------------------------------------
(* Types *)

LEMMA Empty == DOMAIN <<>> = {}
OBVIOUS

LEMMA FirstIs ==
  ASSUME NEW S, NEW s \in Seq(S), s # <<>>
  PROVE  1 \in DOMAIN s /\ Head(s) = s[1]
OBVIOUS

LEMMA InitTyped == Init => Typed
<1> SUFFICES ASSUME Init PROVE Typed
  OBVIOUS
<1>1. DOMAIN chips = {} /\ DOMAIN outcome = {} /\ DOMAIN plan = {}
  BY DEF Init
<1>2. TypeOK
  BY <1>1 DEF TypeOK, Init
<1>3. PlanTyped /\ ChipsTyped
  BY <1>1 DEF PlanTyped, ChipsTyped, Init, InStep
<1>4. SentTyped /\ AnswersTyped /\ RequestTyped
  BY DEF SentTyped, AnswersTyped, RequestTyped, Init
<1> QED
  BY <1>2, <1>3, <1>4 DEF Typed

LEMMA StepTyped ==
  ASSUME Typed, NEW n \in DOMAIN plan
  PROVE  /\ plan[n] \in Step /\ n \in Nat /\ n >= 1 /\ n <= Len(plan)
         /\ plan[n].accepted \subseteq Codes /\ plan[n].optional \in BOOLEAN
         /\ plan[n].check \in BOOLEAN
<1>1. plan \in Seq(Step)
  BY DEF Typed, PlanTyped
<1>2. plan[n] \in Step /\ n \in Nat /\ n >= 1 /\ n <= Len(plan)
  BY <1>1
<1> QED
  BY <1>2 DEF Step

LEMMA ExecuteTyped ==
  ASSUME NEW n \in Nat, NEW kind \in {"check", "command", "reboot"}
  PROVE  Execute(n, kind) \in Execution
BY DEF Execute, Execution

LEMMA PostTyped ==
  /\ \A n \in Nat : \A mark \in {"..", ">>", "OK", "--", "!!"} : Chip(n, mark) \in Event
  /\ \A errors \in Nat : Done(errors) \in Event
BY DEF Chip, Done, Event

(* A new worker, for a plan of the program's. *)
LEMMA StartTyped ==
  ASSUME Typed, NEW steps \in Seq(Step), StartWorker(steps), Launched,
         ui' \in {"updating", "flatpak", "install"}, UNCHANGED <<errorCount, connected>>,
         UNCHANGED events \/ events' = <<>>,
         \/ chips = <<>> /\ chips' = <<>> /\ ui' # "install"
         \/ chips' = [n \in DOMAIN steps |-> ".."]
  PROVE  Typed'
<1> USE DEF Typed
<1>1. chips' = <<>> => DOMAIN chips' = {}
  BY Empty
<1>2. TypeOK'
  BY <1>1 DEF TypeOK, StartWorker, Launched
<1>3. PlanTyped'
  <2>1. plan' = steps /\ index' = 1 /\ worker' = "connect"
    BY DEF StartWorker
  <2>2. outcome' = [n \in DOMAIN plan' |-> "nothing"]
    BY <2>1 DEF StartWorker
  <2>3. DOMAIN outcome' = DOMAIN plan'
    BY <2>2
  <2>4. plan' \in Seq(Step) /\ index' # 0 /\ worker' \notin InStep
    BY <2>1 DEF InStep
  <2> QED
    BY <2>3, <2>4 DEF PlanTyped
<1>5. ChipsTyped'
  BY <1>1 DEF ChipsTyped, StartWorker
<1>6. events' \in Seq(Event)
  <2>1. events \in Seq(Event) /\ <<>> \in Seq(Event)
    BY DEF SentTyped
  <2>2. events' = events \/ events' = <<>>
    OBVIOUS
  <2> QED
    BY <2>1, <2>2
<1>4. SentTyped' /\ AnswersTyped' /\ RequestTyped'
  BY <1>6 DEF SentTyped, AnswersTyped, RequestTyped, StartWorker, Launched
<1> QED
  BY <1>2, <1>3, <1>5, <1>4

(* An action of the user's that starts no worker. *)
LEMMA MovedTyped ==
  ASSUME Typed, Idle, NotLaunched \/ UNCHANGED <<handle, helper>>,
         UNCHANGED errorCount, chips' = <<>> \/ UNCHANGED chips, path' \in BOOLEAN,
         ui' \in {"offer", "updating", "flatpak?", "flatpak", "kernel", "ready", "back", "installed",
                  "done", "rebooting", "rebooting at the end", "closing", "closed"}
  PROVE  Typed'
<1>1. chips' = <<>> => DOMAIN chips' = {}
  BY Empty
<1>6. \A n \in DOMAIN chips' : chips'[n] \in {"..", ">>", "OK", "--", "!!"}
  BY <1>1 DEF Typed, TypeOK
<1>7. handle' \in {"none", "running", "finished"} /\ UNCHANGED helper
  BY DEF NotLaunched, Typed, TypeOK
<1> USE DEF Typed, Idle, loop, socket, history
<1>2. TypeOK'
  BY <1>6, <1>7 DEF TypeOK
<1>3. PlanTyped'
  BY DEF PlanTyped
<1>5. ChipsTyped'
  BY <1>1 DEF ChipsTyped
<1>4. SentTyped' /\ AnswersTyped' /\ RequestTyped'
  BY <1>7 DEF SentTyped, AnswersTyped, RequestTyped
<1> QED
  BY <1>2, <1>3, <1>4, <1>5

LEMMA UserTyped ==
  ASSUME Typed, Together, Acts
  PROVE  Typed'
<1>a. path \in BOOLEAN
  BY DEF Typed, TypeOK
<1>b. ASSUME NEW optional \in BOOLEAN PROVE <<Simple(optional)>> \in Seq(Step)
  <2>1. Simple(optional) \in Step
    BY LegacyAssumption DEF Simple, Step
  <2> QED
    BY <2>1
<1>1. CASE StartUpdate
  <2>1. CASE Launched /\ ui' = "updating" /\ StartWorker(<<Simple(FALSE)>>) /\ events' = <<>> /\ UNCHANGED connected
    BY <1>b, <1>1, <2>1, StartTyped DEF StartUpdate, Together, Early
  <2>2. CASE NotLaunched /\ ui' = ui /\ Idle
    BY <1>a, <1>1, <2>2, MovedTyped DEF StartUpdate, NotLaunched
  <2> QED
    BY <1>1, <2>1, <2>2 DEF StartUpdate
<1>2. CASE StartFlatpakUpdate
  <2>1. CASE Launched /\ ui' = "flatpak" /\ StartWorker(<<Simple(TRUE)>>) /\ events' = <<>> /\ UNCHANGED connected
    BY <1>b, <1>2, <2>1, StartTyped DEF StartFlatpakUpdate, Together, Early
  <2>2. CASE handle # "running" /\ handle' = "none" /\ FinishUpdate /\ Idle /\ UNCHANGED helper
    <3>1. TypeOK'
      BY <1>2, <2>2 DEF StartFlatpakUpdate, FinishUpdate, Idle, Typed, TypeOK, loop, socket, history
    <3> QED
      BY <1>2, <2>2, <3>1 DEF StartFlatpakUpdate, FinishUpdate, Idle, Typed, loop, socket, history,
                              PlanTyped, ChipsTyped, SentTyped, AnswersTyped, RequestTyped
  <2> QED
    BY <1>2, <2>1, <2>2 DEF StartFlatpakUpdate
<1>3. CASE Install
  <2>1. ASSUME NEW steps \in Plans, Launched, ui' = "install", StartWorker(steps),
               chips' = [n \in DOMAIN steps |-> ".."], UNCHANGED <<events, connected>>
        PROVE  Typed'
    <3>1. steps \in Seq(Step)
      BY LegacyAssumption
    <3> QED
      BY <1>3, <2>1, <3>1, StartTyped DEF Install
  <2>2. CASE NotLaunched /\ ui' = "installed" /\ chips' = <<>> /\ Idle
    BY <1>a, <1>3, <2>2, MovedTyped DEF Install, NotLaunched
  <2> QED
    BY <1>3, <2>1, <2>2 DEF Install
<1>4. CASE Reboot
  <2>1. CASE NotLaunched /\ ui' = ui /\ Idle
    BY <1>a, <1>4, <2>1, MovedTyped DEF Reboot, NotLaunched
  <2>2. CASE Launched /\ ~(ui' = ui /\ Idle)
    <3>1. TypeOK'
      BY <1>4, <2>2 DEF Reboot, Launched, Typed, TypeOK, loop, history
    <3>2. PlanTyped' /\ ChipsTyped'
      BY <1>4, <2>2 DEF Reboot, Typed, PlanTyped, ChipsTyped, loop, history, InStep
    <3>3. SentTyped' /\ AnswersTyped'
      <4>1. toHelper' = <<>> /\ toClient' = <<>> /\ unread' = <<>> /\ events' = events
        BY <1>4, <2>2 DEF Reboot
      <4> QED
        BY <4>1 DEF Typed, SentTyped, AnswersTyped
    <3>4. RequestTyped'
      BY <1>4, <2>2 DEF Reboot, Launched, Typed, RequestTyped, loop, history
    <3> QED
      BY <3>1, <3>2, <3>3, <3>4 DEF Typed
  <2> QED
    BY <1>4, <2>1, <2>2 DEF Reboot
<1>5. CASE CloseWindow
  <2>1. TypeOK'
    BY <1>5 DEF CloseWindow, Typed, TypeOK, loop, history
  <2>3. PlanTyped' /\ ChipsTyped'
    BY <1>5 DEF CloseWindow, Typed, PlanTyped, ChipsTyped, loop, history, InStep
  <2>4. events' = <<>>
    BY <1>5 DEF CloseWindow
  <2>5. <<>> \in Seq(Event)
    OBVIOUS
  <2>2. SentTyped' /\ AnswersTyped' /\ RequestTyped'
    BY <1>5, <2>4, <2>5 DEF CloseWindow, Typed, SentTyped, AnswersTyped, RequestTyped
  <2> QED
    BY <2>1, <2>2, <2>3 DEF Typed
<1>6. CASE Skip \/ Continue \/ GoToDone \/ Back
  BY <1>a, <1>6, MovedTyped DEF Skip, Continue, GoToDone, Back
<1>7. CASE NoFlatpakUpdate
  BY <1>7, MovedTyped DEF NoFlatpakUpdate, FinishUpdate
<1> QED
  BY <1>1, <1>2, <1>3, <1>4, <1>5, <1>6, <1>7 DEF Acts, Click

LEMMA MainLoopTyped ==
  ASSUME Typed, Hears
  PROVE  Typed'
<1> USE DEF Idle, loop, socket, history
<1>1. CASE HandleNotices \/ Closed
  <2>1. TypeOK'
    BY <1>1 DEF HandleNotices, Closed, Typed, TypeOK
  <2>3. PlanTyped' /\ ChipsTyped'
    BY <1>1 DEF HandleNotices, Closed, Typed, PlanTyped, ChipsTyped
  <2>2. SentTyped' /\ AnswersTyped' /\ RequestTyped'
    BY <1>1 DEF HandleNotices, Closed, Typed, SentTyped, AnswersTyped, RequestTyped
  <2> QED
    BY <2>1, <2>2, <2>3 DEF Typed
<1>2. CASE Deliver
  <2> DEFINE event == Head(events)
  <2>1. event \in Event /\ events' \in Seq(Event)
    BY <1>2 DEF Deliver, Typed, SentTyped
  <2>2. TypeOK'
    <3>0. UNCHANGED <<handle, worker, helper, index, failed, late, cancelled, connected, outcome>>
      BY <1>2 DEF Deliver
    <3>1. \A n \in DOMAIN chips' : chips'[n] \in {"..", ">>", "OK", "--", "!!"}
      <4>1. CASE event.type # "allDone"
        <5>1. event.mark \in {"..", ">>", "OK", "--", "!!"}
          BY <2>1, <4>1 DEF Event
        <5>2. UNCHANGED chips
              \/ chips' = [n \in DOMAIN chips |-> IF n = event.step THEN event.mark ELSE chips[n]]
          BY <1>2, <4>1 DEF Deliver
        <5> HIDE DEF event
        <5> QED
          BY <5>1, <5>2 DEF Typed, TypeOK
      <4>2. CASE event.type = "allDone"
        BY <1>2, <4>2 DEF Deliver, Typed, TypeOK
      <4> QED
        BY <4>1, <4>2
    <3>2. errorCount' \in {Unset} \cup Nat
      <4>1. event.type = "allDone" => event.errors \in Nat
        BY <2>1 DEF Event
      <4> QED
        BY <1>2, <4>1 DEF Deliver, Typed, TypeOK
    <3>3. path' \in BOOLEAN
      BY <1>2 DEF Deliver, FinishUpdate, Typed, TypeOK
    <3>4. ui' \in {"flatpak?", "kernel", "ready", "installed", "updating", "flatpak", "install", "back"}
      BY <1>2 DEF Deliver, FinishUpdate
    <3> HIDE DEF event
    <3> QED
      BY <3>0, <3>1, <3>2, <3>3, <3>4 DEF Typed, TypeOK
  <2>3. PlanTyped' /\ ChipsTyped' /\ SentTyped' /\ AnswersTyped' /\ RequestTyped'
    BY <1>2, <2>1 DEF Deliver, Typed, FinishUpdate, PlanTyped, ChipsTyped, SentTyped, AnswersTyped,
                      RequestTyped
  <2> QED
    BY <2>2, <2>3 DEF Typed
<1>3. CASE RebootConnect
  <2>1. TypeOK' /\ PlanTyped' /\ ChipsTyped'
    BY <1>3 DEF RebootConnect, Ours, page, Typed, TypeOK, PlanTyped, ChipsTyped, InStep
  <2>2. toHelper' \in Seq(Request)
    BY <1>3, ExecuteTyped DEF RebootConnect, Request
  <2> QED
    BY <1>3, <2>1, <2>2 DEF RebootConnect, Ours, Typed, SentTyped, AnswersTyped, RequestTyped
<1>4. CASE Rebooted
  <2>1. TypeOK' /\ PlanTyped' /\ ChipsTyped'
    BY <1>4 DEF Rebooted, Typed, TypeOK, PlanTyped, ChipsTyped, InStep
  <2>2. SentTyped' /\ AnswersTyped' /\ RequestTyped'
    BY <1>4 DEF Rebooted, Typed, SentTyped, AnswersTyped, RequestTyped
  <2> QED
    BY <2>1, <2>2 DEF Typed
<1> QED
  BY <1>1, <1>2, <1>3, <1>4 DEF Hears, Handled

LEMMA ReturnTyped ==
  ASSUME Typed, worker \in {"check", "command"}, NEW code, Return(code)
  PROVE  /\ toHelper' \in Seq(Request) /\ events' \in Seq(Event)
         /\ index' \in Nat /\ index' # 0 /\ failed' \in Nat
         /\ worker' \in {"loop", "command"} /\ (worker' = "command" => UNCHANGED index)
<1> DEFINE step == plan[index]
<1>1. index \in Nat /\ index # 0 /\ failed \in Nat /\ toHelper \in Seq(Request) /\ events \in Seq(Event)
  BY DEF Typed, TypeOK, PlanTyped, SentTyped
<1>2. CASE worker = "check" /\ code = 0
  BY <1>1, <1>2, PostTyped DEF Return
<1>3. CASE worker = "check" /\ code # 0
  BY <1>1, <1>3, ExecuteTyped DEF Return, Request
<1>4. CASE worker = "command"
  <2> DEFINE ok == code \in step.accepted \cup {0}
  <2>1. Chip(index, IF ok THEN "OK" ELSE "!!") \in Event
    BY <1>1, PostTyped
  <2> QED
    BY <1>1, <1>4, <2>1 DEF Return
<1> QED
  BY <1>2, <1>3, <1>4

(* A step of the worker, but for reboots. *)
Places == {"none", "connect", "loop", "check", "command", "cancelled check", "cancelled command",
           "shutdown", "disconnect", "ended"}
WorkerTypes ==
  /\ worker' \in Places /\ index' \in Nat /\ index' # 0 /\ failed' \in Nat
  /\ connected' \in BOOLEAN /\ (worker' \in InStep => index' \in DOMAIN plan)
  /\ toHelper' \in Seq(Request) /\ events' \in Seq(Event)
  /\ toClient' \in Seq(Answer) /\ unread' \in Seq(Answer)

LEMMA WorkerTypesSuffice ==
  ASSUME Typed, WorkerTypes,
         UNCHANGED <<ui, path, handle, errorCount, chips, helper, request, outcome, late, plan, cancelled>>
  PROVE  Typed'
<1> USE DEF Typed, WorkerTypes
<1>1. worker' \in {"none", "connect", "loop", "check", "command", "cancelled check",
                  "cancelled command", "shutdown", "disconnect", "ended", "reboot", "rebooting"}
  BY DEF Places
<1>2. /\ ui' \in {"offer", "updating", "flatpak?", "flatpak", "kernel", "ready", "install", "back",
                  "installed", "done", "rebooting", "rebooting at the end", "closing", "closed"}
      /\ handle' \in {"none", "running", "finished"}
      /\ helper' \in {"gone", "listening", "idle", "busy", "quitting"}
  BY DEF TypeOK
<1>3. path' \in BOOLEAN /\ cancelled' \in BOOLEAN /\ connected' \in BOOLEAN
  BY DEF TypeOK
<1>4. errorCount' \in {Unset} \cup Nat /\ index' \in Nat /\ failed' \in Nat /\ late' \in Nat
  BY DEF TypeOK
<1>5. /\ \A n \in DOMAIN chips' : chips'[n] \in {"..", ">>", "OK", "--", "!!"}
      /\ \A n \in DOMAIN outcome' : outcome'[n] \in {"nothing", "begun", "done", "failed", "found"}
  BY DEF TypeOK
<1>6. TypeOK'
  BY <1>1, <1>2, <1>3, <1>4, <1>5 DEF TypeOK
<1>7. PlanTyped' /\ ChipsTyped' /\ RequestTyped'
  BY DEF PlanTyped, ChipsTyped, RequestTyped
<1>8. SentTyped' /\ AnswersTyped'
  BY DEF SentTyped, AnswersTyped
<1> QED
  BY <1>6, <1>7, <1>8

LEMMA WorkerTyped ==
  ASSUME Typed, WorkerSteps \/ SendCancel
  PROVE  Typed'
<1>n. index \in Nat /\ index # 0 /\ failed \in Nat
  BY DEF Typed, TypeOK, PlanTyped
<1>p. plan \in Seq(Step) /\ (worker \in InStep => index \in DOMAIN plan)
  BY DEF Typed, PlanTyped
<1>h. toHelper \in Seq(Request) /\ \A m \in Request : Append(toHelper, m) \in Seq(Request)
  BY DEF Typed, SentTyped
<1>e. events \in Seq(Event) /\ \A e \in Event : Append(events, e) \in Seq(Event)
  BY DEF Typed, SentTyped
<1>t. toClient \in Seq(Answer) /\ unread \in Seq(Answer) /\ unread \o toClient \in Seq(Answer)
      /\ <<>> \in Seq(Answer)
  BY DEF Typed, AnswersTyped
<1>c. connected \in BOOLEAN
  BY DEF Typed, TypeOK
<1>1. UNCHANGED <<page, helper, request, history, plan, cancelled>>
  BY DEF WorkerSteps, SendCancel, Connect, Begin, Read, Disconnected, Cancelled, Shutdown, Disconnect,
         Ours, loop
<1>2. WorkerTypes => Typed'
  BY <1>1, WorkerTypesSuffice DEF page, history
<1> SUFFICES WorkerTypes
  BY <1>2
<1>3. CASE Connect
  <2>1. events' \in Seq(Event)
    BY <1>e, <1>3, PostTyped DEF Connect
  <2>2. worker' \in {"loop", "ended"} /\ connected' \in BOOLEAN
        /\ UNCHANGED <<index, failed, toHelper, toClient, unread>>
    BY <1>3, <1>c DEF Connect, loop
  <2> QED
    BY <1>n, <1>h, <1>t, <2>1, <2>2 DEF WorkerTypes, Places, InStep
<1>4. CASE Begin
  <2>1. UNCHANGED <<plan, failed, cancelled, toClient, unread, connected, index>>
    BY <1>4 DEF Begin
  <2>2. CASE index > Len(plan) \/ cancelled
    <3>1. worker' = "shutdown" /\ UNCHANGED <<events, toHelper>>
      BY <1>4, <2>2 DEF Begin
    <3> QED
      BY <1>n, <1>h, <1>e, <1>t, <1>c, <2>1, <3>1 DEF WorkerTypes, Places, InStep
  <2>3. CASE ~(index > Len(plan) \/ cancelled)
    <3> DEFINE kind == IF plan[index].check THEN "check" ELSE "command"
    <3>1. kind \in {"check", "command"} /\ index \in DOMAIN plan
      BY <1>n, <1>p, <2>3
    <3>2. Execute(index, kind) \in Request /\ Chip(index, ">>") \in Event
      BY <1>n, <3>1, ExecuteTyped, PostTyped DEF Request
    <3>3. worker' = kind /\ toHelper' = Append(toHelper, Execute(index, kind))
          /\ events' = Append(events, Chip(index, ">>"))
      BY <1>4, <2>3 DEF Begin
    <3> HIDE DEF kind
    <3>4. toHelper' \in Seq(Request) /\ events' \in Seq(Event)
      BY <1>h, <1>e, <3>2, <3>3
    <3> QED
      BY <1>n, <1>t, <1>c, <2>1, <3>1, <3>3, <3>4 DEF WorkerTypes, Places, InStep
  <2> QED
    BY <2>2, <2>3
<1>5. CASE Read
  <2>1. worker \in {"check", "command"} /\ UNCHANGED connected /\ toClient' = <<>> /\ unread' = <<>>
    BY <1>5 DEF Read, Waiting
  <2>2. CASE Answers(unread \o toClient) = {}
    <3>1. UNCHANGED <<worker, events, index, failed, toHelper>>
      BY <1>5, <2>2 DEF Read
    <3> QED
      BY <1>n, <1>p, <1>h, <1>e, <1>t, <1>c, <2>1, <3>1 DEF WorkerTypes, Places, InStep
  <2>3. CASE Answers(unread \o toClient) # {}
    <3>1. Return(CodeIn(First(unread \o toClient)))
      BY <1>5, <2>3 DEF Read
    <3>2. /\ toHelper' \in Seq(Request) /\ events' \in Seq(Event)
          /\ index' \in Nat /\ index' # 0 /\ failed' \in Nat
          /\ worker' \in {"loop", "command"} /\ (worker' = "command" => UNCHANGED index)
      BY <2>1, <3>1, ReturnTyped
    <3> QED
      BY <1>p, <1>t, <1>c, <2>1, <3>2 DEF WorkerTypes, Places, InStep
  <2> QED
    BY <2>2, <2>3
<1>6. CASE Disconnected
  <2>1. worker \in {"check", "command"} /\ Return(Lost) /\ UNCHANGED <<connected, toClient, unread>>
    BY <1>6 DEF Disconnected, Waiting
  <2>2. /\ toHelper' \in Seq(Request) /\ events' \in Seq(Event)
        /\ index' \in Nat /\ index' # 0 /\ failed' \in Nat
        /\ worker' \in {"loop", "command"} /\ (worker' = "command" => UNCHANGED index)
    BY <2>1, ReturnTyped
  <2> QED
    BY <1>p, <1>t, <1>c, <2>1, <2>2 DEF WorkerTypes, Places, InStep
<1>7. CASE SendCancel
  <2>1. [type |-> "cancel"] \in Request
    BY DEF Request
  <2>2. /\ worker' \in {"cancelled check", "cancelled command"} /\ worker \in InStep
        /\ toHelper' = Append(toHelper, [type |-> "cancel"])
        /\ UNCHANGED <<index, failed, events, toClient, unread, connected>>
    BY <1>7 DEF SendCancel, Waiting, InStep, loop
  <2> QED
    BY <1>n, <1>p, <1>h, <1>e, <1>t, <1>c, <2>1, <2>2 DEF WorkerTypes, Places
<1>8. CASE Cancelled
  <2>1. unread' = unread \o toClient /\ toClient' = <<>> /\ UNCHANGED connected
    BY <1>8 DEF Cancelled
  <2>2. CASE worker = "cancelled check"
    <3>1. Execute(index, "command") \in Request /\ index \in DOMAIN plan
      BY <1>n, <1>p, <2>2, ExecuteTyped DEF Request, InStep
    <3>2. /\ worker' = "command" /\ toHelper' = Append(toHelper, Execute(index, "command"))
          /\ UNCHANGED <<events, index, failed>>
      BY <1>8, <2>2 DEF Cancelled
    <3> QED
      BY <1>n, <1>h, <1>e, <1>t, <1>c, <2>1, <3>1, <3>2 DEF WorkerTypes, Places
  <2>3. CASE worker # "cancelled check"
    <3>1. Chip(index, "!!") \in Event
      BY <1>n, PostTyped
    <3>2. /\ worker' = "loop" /\ events' = Append(events, Chip(index, "!!"))
          /\ index' = index + 1 /\ UNCHANGED toHelper
      BY <1>8, <2>3 DEF Cancelled
    <3>3. failed' = failed + (IF plan[index].optional THEN 0 ELSE 1)
      BY <1>8, <2>3 DEF Cancelled
    <3>4. failed' \in Nat
      BY <1>n, <3>3
    <3> QED
      BY <1>n, <1>h, <1>e, <1>t, <1>c, <2>1, <3>1, <3>2, <3>4 DEF WorkerTypes, Places, InStep
  <2> QED
    BY <2>2, <2>3
<1>9. CASE Shutdown
  <2>1. [type |-> "shutdown"] \in Request
    BY DEF Request
  <2>2. /\ worker' = "disconnect" /\ toHelper' = Append(toHelper, [type |-> "shutdown"])
        /\ UNCHANGED <<index, failed, events, toClient, unread, connected>>
    BY <1>9 DEF Shutdown, loop
  <2> QED
    BY <1>n, <1>h, <1>e, <1>t, <1>c, <2>1, <2>2 DEF WorkerTypes, Places, InStep
<1>10. CASE Disconnect
  <2>1. Done(failed) \in Event
    BY <1>n, PostTyped
  <2>2. /\ worker' = "ended" /\ connected' = FALSE /\ toClient' = <<>> /\ unread' = <<>>
        /\ events' = Append(events, Done(failed)) /\ UNCHANGED <<toHelper, index, failed>>
    BY <1>10 DEF Disconnect, loop
  <2> QED
    BY <1>n, <1>h, <1>e, <1>t, <2>1, <2>2 DEF WorkerTypes, Places, InStep
<1> QED
  BY <1>3, <1>4, <1>5, <1>6, <1>7, <1>8, <1>9, <1>10 DEF WorkerSteps

LEMMA HelperTyped ==
  ASSUME Typed, HelperSteps \/ (\E code \in Codes : CommandEnds(code)) \/ HelperCrash
  PROVE  Typed'
<1>1. toHelper \in Seq(Request) /\ toClient \in Seq(Answer) /\ late \in Nat
      /\ (helper = "busy" => request \in Execution)
  BY DEF Typed, TypeOK, SentTyped, AnswersTyped, RequestTyped
<1>2. UNCHANGED <<page, events, worker, loop, cancelled, unread, connected>>
  BY DEF HelperSteps, HelperShutsDown, HelperIsCancelled, HelperExecutes, HelperSeesEnd,
         HelperAccepts, HelperQuits, CommandEnds, HelperCrash, Theirs
<1>3. ASSUME helper' \in {"gone", "listening", "idle", "busy", "quitting"}, late' \in Nat,
             DOMAIN outcome' = DOMAIN outcome,
             \A n \in DOMAIN outcome' : outcome'[n] \in {"nothing", "begun", "done", "failed", "found"},
             toHelper' \in Seq(Request), toClient' \in Seq(Answer), RequestTyped'
      PROVE  Typed'
  <2>1. TypeOK'
    BY <1>2, <1>3 DEF Typed, TypeOK, page, loop
  <2>2. PlanTyped' /\ ChipsTyped' /\ SentTyped' /\ AnswersTyped'
    BY <1>2, <1>3 DEF Typed, PlanTyped, ChipsTyped, SentTyped, AnswersTyped, page, loop
  <2> QED
    BY <1>3, <2>1, <2>2 DEF Typed
<1>4. \A n \in DOMAIN outcome : outcome[n] \in {"nothing", "begun", "done", "failed", "found"}
  BY DEF Typed, TypeOK
<1>5. ASSUME NEW message \in Answer, Send(message) PROVE toClient' \in Seq(Answer)
  BY <1>1, <1>5 DEF Send
<1>6. CASE HelperShutsDown \/ HelperIsCancelled
  <2>1. [type |-> "shutdown_ack"] \in Answer /\ [type |-> "cancel_ack"] \in Answer
    BY DEF Answer
  <2>2. toHelper' \in Seq(Request) /\ toClient' \in Seq(Answer)
    <3>1. CASE HelperShutsDown
      BY <1>1, <1>5, <2>1, <3>1 DEF HelperShutsDown
    <3>2. CASE HelperIsCancelled
      BY <1>1, <1>5, <2>1, <3>2 DEF HelperIsCancelled
    <3> QED
      BY <1>6, <3>1, <3>2
  <2>3. RequestTyped' /\ helper' \in {"idle", "quitting"} /\ UNCHANGED <<outcome, late>>
    BY <1>6 DEF HelperShutsDown, HelperIsCancelled, history, Typed, RequestTyped
  <2> QED
    BY <1>1, <1>3, <1>4, <2>2, <2>3
<1>7. CASE HelperExecutes
  <2> DEFINE message == Head(toHelper)
  <2>1. message \in Execution /\ toHelper' \in Seq(Request)
    BY <1>1, <1>7 DEF HelperExecutes, Request
  <2>2. [type |-> "started"] \in Answer /\ [type |-> "rejected"] \in Answer
    BY DEF Answer
  <2>3. CASE Permitted(message)
    <3>1. Send([type |-> "started"]) /\ helper' = "busy" /\ request' = message /\ late' \in Nat
      BY <1>1, <1>7, <2>3 DEF HelperExecutes
    <3>2. \/ UNCHANGED outcome
          \/ outcome' = [outcome EXCEPT ![message.step] = "begun"]
      BY <1>7, <2>3 DEF HelperExecutes
    <3>3. DOMAIN outcome' = DOMAIN outcome
          /\ \A n \in DOMAIN outcome' : outcome'[n] \in {"nothing", "begun", "done", "failed", "found"}
      BY <1>4, <3>2
    <3>4. RequestTyped'
      BY <2>1, <3>1 DEF RequestTyped
    <3> HIDE DEF message
    <3> QED
      BY <1>3, <1>5, <2>1, <2>2, <3>1, <3>3, <3>4
  <2>4. CASE ~Permitted(message)
    <3>1. Send([type |-> "rejected"]) /\ UNCHANGED <<helper, request, outcome, late>>
      BY <1>7, <2>4 DEF HelperExecutes, history
    <3>2. RequestTyped' /\ helper' \in {"gone", "listening", "idle", "busy", "quitting"}
      BY <3>1 DEF Typed, TypeOK, RequestTyped
    <3> QED
      BY <1>1, <1>3, <1>4, <1>5, <2>1, <2>2, <3>1, <3>2
  <2> QED
    BY <2>3, <2>4
<1>8. CASE HelperSeesEnd \/ HelperAccepts \/ HelperQuits \/ HelperCrash
  <2>1. RequestTyped' /\ helper' \in {"idle", "quitting", "gone"}
        /\ UNCHANGED <<outcome, late, toHelper, toClient>>
    BY <1>8 DEF HelperSeesEnd, HelperAccepts, HelperQuits, HelperCrash, history, Typed, RequestTyped
  <2> QED
    BY <1>1, <1>3, <1>4, <2>1
<1>9. ASSUME NEW code \in Codes, CommandEnds(code)
      PROVE  Typed'
  <2>1. Finished(code) \in Answer
    BY DEF Finished, Answer
  <2>2. toClient' \in Seq(Answer) /\ RequestTyped' /\ helper' = "idle" /\ UNCHANGED <<toHelper, late>>
    BY <1>5, <1>9, <2>1 DEF CommandEnds, RequestTyped
  <2>3. \/ UNCHANGED outcome
        \/ /\ outcome' = [outcome EXCEPT ![request.step] = Ended(code)]
           /\ Ended(code) \in {"nothing", "found", "done", "failed"}
    BY <1>1, <1>9 DEF CommandEnds, Ended, Execution
  <2>4. DOMAIN outcome' = DOMAIN outcome
        /\ \A n \in DOMAIN outcome' : outcome'[n] \in {"nothing", "begun", "done", "failed", "found"}
    BY <1>4, <2>3
  <2> QED
    BY <1>1, <1>3, <2>2, <2>4
<1> QED
  BY <1>6, <1>7, <1>8, <1>9 DEF HelperSteps

LEMMA TypedStep == Typed /\ Together /\ NextApart => Typed'
<1> SUFFICES ASSUME Typed, Together, NextApart PROVE Typed'
  OBVIOUS
<1>1. CASE UNCHANGED vars
  <2>4. /\ \A n \in DOMAIN chips' : chips'[n] \in {"..", ">>", "OK", "--", "!!"}
        /\ \A n \in DOMAIN outcome' : outcome'[n] \in {"nothing", "begun", "done", "failed", "found"}
    BY <1>1 DEF vars, page, history, Typed, TypeOK
  <2>5. path' \in BOOLEAN /\ cancelled' \in BOOLEAN /\ connected' \in BOOLEAN
    BY <1>1 DEF vars, page, socket, Typed, TypeOK
  <2>6. UNCHANGED <<ui, handle, errorCount, worker, helper, index, failed, late>>
    BY <1>1 DEF vars, page, loop, history
  <2>1. TypeOK'
    BY <2>4, <2>5, <2>6 DEF Typed, TypeOK
  <2>3. PlanTyped' /\ ChipsTyped'
    BY <1>1 DEF vars, page, loop, history, Typed, PlanTyped, ChipsTyped
  <2>2. SentTyped' /\ AnswersTyped' /\ RequestTyped'
    BY <1>1 DEF vars, socket, Typed, SentTyped, AnswersTyped, RequestTyped
  <2> QED
    BY <2>1, <2>2, <2>3 DEF Typed
<1> QED
  BY <1>1, UserTyped, MainLoopTyped, WorkerTyped, HelperTyped DEF NextApart

-----------------------------------------------------------------------------
(* Where page and worker are *)

(* What the worker's and the helper's steps leave alone. *)
LEMMA WorkerKeeps ==
  ASSUME WorkerSteps \/ SendCancel
  PROVE  UNCHANGED <<ui, path, handle, errorCount, chips, helper, request, outcome, late, plan, cancelled, entry>>
BY DEF WorkerSteps, SendCancel, Connect, Begin, Read, Disconnected, Cancelled, Shutdown, Disconnect,
       Ours, loop, page, history, again

LEMMA HelperKeeps ==
  ASSUME HelperSteps \/ (\E code \in Codes : CommandEnds(code)) \/ HelperCrash
  PROVE  UNCHANGED <<ui, path, handle, errorCount, chips, events, worker, plan, index, failed, cancelled,
                     unread, connected, entry>>
BY DEF HelperSteps, HelperShutsDown, HelperIsCancelled, HelperExecutes, HelperSeesEnd,
       HelperAccepts, HelperQuits, CommandEnds, HelperCrash, Theirs, page, loop, again

LEMMA StillKeeps ==
  ASSUME UNCHANGED vars
  PROVE  UNCHANGED <<ui, path, handle, errorCount, chips, events, worker, plan, index, failed, cancelled,
                     toHelper, toClient, unread, connected, helper, request, outcome, late, entry>>
BY DEF vars, page, loop, socket, history, again

(* The page is where it was, and so is the worker, or it went on as it may.  *)
LEMMA UserTogether ==
  ASSUME Typed, Together, Acts
  PROVE  Together'
<1> USE DEF Together, Resting, Early, Closing, Talking, Quiet
<1>b. cancelled \in BOOLEAN /\ connected \in BOOLEAN
  BY DEF Typed, TypeOK
<1>1. ASSUME NEW steps, StartWorker(steps),
             \/ ui' = "install"
             \/ ui \in {"offer", "flatpak?"} /\ ui' \in {"updating", "flatpak"} /\ UNCHANGED chips
      PROVE  Together'
  BY <1>1 DEF StartWorker
<1>2. ASSUME Idle, ui \in {"offer", "flatpak?", "kernel", "ready", "back", "installed", "done"}, worker \in Quiet,
             \/ ui' \in {"offer", "flatpak?", "kernel", "ready"} /\ UNCHANGED chips
                /\ ui \notin {"back", "installed", "done"}
             \/ ui' \in {"installed", "done"}
      PROVE  Together'
  BY <1>2 DEF Idle, socket
<1>3. CASE StartUpdate
  BY <1>1, <1>2, <1>3 DEF StartUpdate
<1>4. CASE Skip
  BY <1>2, <1>4 DEF Skip
<1>5. CASE StartFlatpakUpdate
  BY <1>1, <1>2, <1>5 DEF StartFlatpakUpdate, FinishUpdate
<1>6. CASE NoFlatpakUpdate
  BY <1>2, <1>6 DEF NoFlatpakUpdate, FinishUpdate
<1>7. CASE Reboot
  <2>1. CASE NotLaunched /\ ui' = ui /\ Idle
    BY <1>2, <1>7, <2>1 DEF Reboot
  <2>2. CASE Launched /\ ~(ui' = ui /\ Idle)
    <3>1. UNCHANGED <<cancelled, connected, chips>>
      BY <1>7, <2>2 DEF Reboot
    <3>2. /\ worker' = "reboot" /\ unread' = <<>>
          /\ \/ ui = "kernel" /\ ui' = "rebooting"
             \/ ui = "done" /\ ui' = "rebooting at the end"
      BY <1>7, <2>2 DEF Reboot
    <3> QED
      BY <1>b, <3>1, <3>2
  <2> QED
    BY <1>7, <2>1, <2>2 DEF Reboot
<1>8. CASE Continue
  BY <1>2, <1>8 DEF Continue
<1>9. CASE Install
  BY <1>1, <1>2, <1>9 DEF Install
<1>12. CASE Back
  BY <1>b, <1>12 DEF Back, Idle, socket
<1>10. CASE GoToDone
  BY <1>2, <1>10 DEF GoToDone
<1>11. CASE CloseWindow
  <2>1. /\ ui \notin {"rebooting", "rebooting at the end", "closing", "closed"}
        /\ UNCHANGED <<chips, unread>>
        /\ \/ ui' = "closing" /\ cancelled' = TRUE /\ UNCHANGED <<worker, connected>>
           \/ ui' = "closed" /\ worker' = "none" /\ connected' = FALSE /\ UNCHANGED cancelled
    BY <1>11 DEF CloseWindow
  <2>2. worker \notin {"reboot", "rebooting"} /\ ~Closing /\ ~cancelled /\ unread = <<>>
    BY <1>b, <2>1
  <2>3. CASE ui' = "closing" /\ cancelled' = TRUE /\ UNCHANGED <<worker, connected>>
    BY <1>b, <2>1, <2>2, <2>3
  <2>4. CASE ui' = "closed" /\ worker' = "none" /\ connected' = FALSE /\ UNCHANGED cancelled
    BY <1>b, <2>1, <2>2, <2>4
  <2> QED
    BY <2>1, <2>3, <2>4
<1> QED
  BY <1>3, <1>4, <1>5, <1>6, <1>7, <1>8, <1>9, <1>10, <1>11, <1>12 DEF Acts, Click

LEMMA MainLoopTogether ==
  ASSUME Typed, Together, EventsTrue, Hears
  PROVE  Together'
<1> USE DEF Together, Resting, Early, Closing, Talking, Quiet
<1>b. cancelled \in BOOLEAN /\ connected \in BOOLEAN
  BY DEF Typed, TypeOK
<1>1. CASE HandleNotices \/ Closed
  <2>1. UNCHANGED <<errorCount, chips, worker, cancelled, unread, connected>>
    BY <1>1 DEF HandleNotices, Closed, Idle, socket
  <2>2. UNCHANGED ui \/ (ui = "closing" /\ ui' = "closed")
    BY <1>1 DEF HandleNotices, Closed
  <2> QED
    BY <1>b, <2>1, <2>2
<1>2. CASE Deliver
  <2>1. UNCHANGED <<worker, cancelled, unread, connected>> /\ Heard
    BY <1>2 DEF Deliver, socket, Heard, Working
  <2>2. CASE Head(events).type # "allDone"
    <3>1. UNCHANGED ui /\ (ui \in {"updating", "flatpak"} => UNCHANGED chips)
      BY <1>2, <2>2 DEF Deliver
    <3> QED
      BY <2>1, <3>1 DEF Heard, Working
  <2>3. CASE Head(events).type = "allDone"
    <3>1. /\ UNCHANGED chips
          /\ \/ ui' \in {"flatpak?", "kernel", "ready"} /\ ui \in {"updating", "flatpak"}
             \/ ui' \in {"back", "installed"}
      BY <1>2, <2>3 DEF Deliver, FinishUpdate
    <3>2. worker = "ended"
      <4>1. events # <<>> /\ events \in Seq(Event)
        BY <1>2 DEF Deliver, Typed, SentTyped
      <4>2. 1 \in DOMAIN events /\ Head(events) = events[1]
        BY <4>1, FirstIs
      <4> QED
        BY <2>1, <2>3, <4>2 DEF EventsTrue, EventTrue
    <3> QED
      BY <1>b, <2>1, <3>1, <3>2 DEF Heard, Working
  <2> QED
    BY <2>2, <2>3
<1>3. CASE RebootConnect
  BY <1>3 DEF RebootConnect, Ours, page
<1>4. CASE Rebooted
  BY <1>4 DEF Rebooted, Typed, TypeOK
<1> QED
  BY <1>1, <1>2, <1>3, <1>4 DEF Hears, Handled

LEMMA WorkerTogether ==
  ASSUME Typed, Together, WorkerSteps \/ SendCancel
  PROVE  Together'
<1> USE DEF Together, Resting, Early, Closing, Talking, Quiet
<1>b. cancelled \in BOOLEAN /\ connected \in BOOLEAN
  BY DEF Typed, TypeOK
<1>1. UNCHANGED <<ui, errorCount, chips, cancelled>>
  BY WorkerKeeps
<1>2. ASSUME NEW code, Return(code), worker \in {"check", "command"}
      PROVE  worker' \in {"loop", "command"}
  BY <1>2 DEF Return
<1>3. CASE Connect
  <2>1. worker = "connect" /\ UNCHANGED unread
    BY <1>3 DEF Connect
  <2>2. CASE helper = "listening"
    <3>1. worker' = "loop" /\ connected'
      BY <1>3, <2>2 DEF Connect
    <3> QED
      BY <1>b, <1>1, <2>1, <3>1
  <2>3. CASE helper # "listening"
    <3>1. worker' = "ended" /\ UNCHANGED connected
      BY <1>3, <2>3 DEF Connect
    <3> QED
      BY <1>b, <1>1, <2>1, <3>1
  <2> QED
    BY <2>2, <2>3
<1>4. CASE Begin
  <2>1. /\ worker = "loop" /\ worker' \in {"shutdown", "check", "command"}
        /\ UNCHANGED <<unread, connected>>
    BY <1>4 DEF Begin
  <2> QED
    BY <1>b, <1>1, <2>1
<1>5. CASE Read
  <2>1. worker \in {"check", "command"} /\ unread' = <<>> /\ UNCHANGED connected
    BY <1>5 DEF Read, Waiting
  <2>2. worker' \in {"loop", "check", "command"}
    BY <1>2, <1>5, <2>1 DEF Read
  <2> QED
    BY <1>1, <2>1, <2>2
<1>6. CASE Disconnected
  <2>1. worker \in {"check", "command"} /\ UNCHANGED <<unread, connected>>
    BY <1>6 DEF Disconnected, Waiting
  <2>2. worker' \in {"loop", "command"}
    BY <1>2, <1>6, <2>1 DEF Disconnected
  <2> QED
    BY <1>b, <1>1, <2>1, <2>2
<1>7. CASE SendCancel
  <2>1. /\ worker \in {"check", "command"} /\ worker' \in {"cancelled check", "cancelled command"}
        /\ cancelled /\ UNCHANGED <<unread, connected>>
    BY <1>7 DEF SendCancel, Waiting
  <2> QED
    BY <1>b, <1>1, <2>1
<1>8. CASE Cancelled
  <2>1. /\ worker \in {"cancelled check", "cancelled command"} /\ worker' \in {"loop", "command"}
        /\ UNCHANGED connected
    BY <1>8 DEF Cancelled
  <2> QED
    BY <1>b, <1>1, <2>1
<1>9. CASE Shutdown \/ Disconnect
  BY <1>1, <1>9 DEF Shutdown, Disconnect
<1> QED
  BY <1>3, <1>4, <1>5, <1>6, <1>7, <1>8, <1>9 DEF WorkerSteps

LEMMA TogetherStep == Typed /\ Together /\ EventsTrue /\ NextApart => Together'
<1> SUFFICES ASSUME Typed, Together, EventsTrue, NextApart PROVE Together'
  OBVIOUS
<1>b. cancelled \in BOOLEAN /\ connected \in BOOLEAN
  BY DEF Typed, TypeOK
<1>1. CASE HelperSteps \/ (\E code \in Codes : CommandEnds(code)) \/ HelperCrash
  <2>1. UNCHANGED <<ui, errorCount, chips, worker, cancelled, unread, connected>>
    BY <1>1, HelperKeeps
  <2> QED
    BY <1>b, <2>1 DEF Together, Resting, Early, Closing, Quiet
<1>2. CASE UNCHANGED vars
  <2>1. UNCHANGED <<ui, errorCount, chips, worker, cancelled, unread, connected>>
    BY <1>2, StillKeeps
  <2> QED
    BY <1>b, <2>1 DEF Together, Resting, Early, Closing, Quiet
<1> QED
  BY <1>1, <1>2, UserTogether, MainLoopTogether, WorkerTogether DEF NextApart

-----------------------------------------------------------------------------
(* Requests and answers on their way *)

LEMMA Added ==
  ASSUME NEW S, NEW s \in Seq(S), NEW m
  PROVE  /\ Len(s) \in Nat /\ DOMAIN s = 1..Len(s)
         /\ DOMAIN Append(s, m) = 1..Len(s) + 1
         /\ \A n \in DOMAIN s : Append(s, m)[n] = s[n]
         /\ Append(s, m)[Len(s) + 1] = m
OBVIOUS

LEMMA Taken ==
  ASSUME NEW S, NEW s \in Seq(S), s # <<>>
  PROVE  /\ Head(s) = s[1] /\ 1 \in DOMAIN s
         /\ \A n \in DOMAIN Tail(s) : n + 1 \in DOMAIN s /\ Tail(s)[n] = s[n + 1] /\ n \in Nat /\ n >= 1
OBVIOUS

LEMMA Asked ==
  ASSUME Typed, NEW m \in Request, toHelper' = Append(toHelper, m)
  PROVE  /\ \A n \in DOMAIN toHelper' : toHelper'[n] = m \/ (n \in DOMAIN toHelper /\ toHelper'[n] = toHelper[n])
         /\ \A n \in Executes : n \in Executes'
         /\ \A n \in Executes' : \/ n \in Executes /\ toHelper'[n] = toHelper[n]
                                 \/ m.type = "execute" /\ toHelper'[n] = m /\ n = Len(toHelper) + 1
<1> DEFINE s == toHelper
<1>1. s \in Seq(Request)
  BY DEF Typed, SentTyped
<1>2. /\ Len(s) \in Nat /\ DOMAIN s = 1..Len(s) /\ DOMAIN toHelper' = 1..Len(s) + 1
      /\ \A n \in DOMAIN s : toHelper'[n] = s[n]
      /\ toHelper'[Len(s) + 1] = m
  BY <1>1, Added
<1>3. \A n \in DOMAIN toHelper' : n \in DOMAIN s \/ n = Len(s) + 1
  BY <1>2
<1> HIDE DEF s
<1>4. \A n \in DOMAIN toHelper' : toHelper'[n] = m \/ (n \in DOMAIN s /\ toHelper'[n] = s[n])
  BY <1>2, <1>3
<1>5. \A n \in DOMAIN s : n \in DOMAIN toHelper'
  BY <1>2
<1> QED
  BY <1>2, <1>3, <1>4, <1>5 DEF Executes, s

LEMMA TakenUp ==
  ASSUME Typed, toHelper # <<>>, toHelper' = Tail(toHelper)
  PROVE  /\ 1 \in DOMAIN toHelper /\ Head(toHelper) = toHelper[1]
         /\ \A n \in DOMAIN toHelper' : n + 1 \in DOMAIN toHelper /\ toHelper'[n] = toHelper[n + 1] /\ n + 1 # 1
         /\ \A n \in Executes' : n + 1 \in Executes /\ toHelper'[n] = toHelper[n + 1] /\ n + 1 # 1
<1>1. toHelper \in Seq(Request)
  BY DEF Typed, SentTyped
<1>2. /\ Head(toHelper) = toHelper[1] /\ 1 \in DOMAIN toHelper
      /\ \A n \in DOMAIN toHelper' : n + 1 \in DOMAIN toHelper /\ toHelper'[n] = toHelper[n + 1] /\ n \in Nat /\ n >= 1
  BY <1>1, Taken
<1>3. \A n \in DOMAIN toHelper' : n + 1 # 1
  BY <1>2
<1> QED
  BY <1>2, <1>3 DEF Executes

LEMMA NothingAsked == toHelper' = <<>> => Executes' = {}
BY Empty DEF Executes

LEMMA NoAnswers == Answers(<<>>) = {}
BY Empty DEF Answers

LEMMA Sent ==
  ASSUME Typed, NEW m, Send(m)
  PROVE  /\ \A n \in Answers(toClient) : n \in Answers(toClient')
         /\ \A n \in Answers(toClient') :
              \/ n \in Answers(toClient) /\ toClient'[n] = toClient[n]
              \/ m.type \in Ends /\ toClient'[n] = m /\ n = Len(toClient) + 1
<1>1. toClient \in Seq(Answer)
  BY DEF Typed, AnswersTyped
<1>2. CASE ~connected
  BY <1>2 DEF Send
<1>3. CASE connected
  <2> DEFINE s == toClient
  <2>1. toClient' = Append(s, m)
    BY <1>3 DEF Send
  <2>2. /\ Len(s) \in Nat /\ DOMAIN s = 1..Len(s) /\ DOMAIN toClient' = 1..Len(s) + 1
        /\ \A n \in DOMAIN s : toClient'[n] = s[n]
        /\ toClient'[Len(s) + 1] = m
    BY <1>1, <2>1, Added
  <2>3. \A n \in DOMAIN toClient' : n \in DOMAIN s \/ n = Len(s) + 1
    BY <2>2
  <2>4. \A n \in DOMAIN s : n \in DOMAIN toClient'
    BY <2>2
  <2> HIDE DEF s
  <2> QED
    BY <2>2, <2>3, <2>4 DEF Answers, s
<1> QED
  BY <1>2, <1>3

(* What is read is what is in the socket, and answered by what is first.      *)
LEMMA ReadIs ==
  ASSUME Typed, unread = <<>>
  PROVE  unread \o toClient = toClient
BY DEF Typed, AnswersTyped

-----------------------------------------------------------------------------
(* The last command *)

(* A command was begun late, or still may be begun. *)
Late == late = 1 \/ (Active /\ Commands # {})

LEMMA LastKept ==
  ASSUME LastCommand, UNCHANGED late, Closing => Closing',
         Active' => Commands' = {} \/ (Active /\ \A n \in Commands' : n \in Commands),
         Late => /\ worker' \notin {"connect", "check", "cancelled check"}
                 /\ worker' = "loop" => cancelled'
  PROVE  LastCommand'
<1>1. late <= 1 /\ (late = 1 => Closing')
  BY DEF LastCommand
<1>2. Active' => \A m, n \in Commands' : m = n /\ late = 0
  BY DEF LastCommand
<1>3. late = 1 \/ (Active' /\ Commands' # {}) => Late
  BY DEF Late
<1> QED
  BY <1>1, <1>2, <1>3 DEF LastCommand

LEMMA LateStays ==
  ASSUME LastCommand, Late
  PROVE  worker \notin {"connect", "check", "cancelled check"} /\ (worker = "loop" => cancelled)
BY DEF LastCommand, Late

LEMMA SameCommands ==
  ASSUME UNCHANGED toHelper
  PROVE  Executes' = Executes /\ Commands' = Commands
BY DEF Executes, Commands

LEMMA NoCommands == toHelper' = <<>> => Commands' = {}
BY NothingAsked DEF Commands

LEMMA ZeroLate ==
  ASSUME Typed, LastCommand
  PROVE  late # 1 => late = 0
<1>1. late \in Nat
  BY DEF Typed, TypeOK
<1>2. late <= 1
  BY DEF LastCommand
<1> QED
  BY <1>1, <1>2

LEMMA Zero == \A n : n = 0 => n <= 1 /\ n # 1
OBVIOUS

LEMMA NotLate ==
  ASSUME Typed, LastCommand, ~Closing
  PROVE  late = 0
<1>1. late \in Nat
  BY DEF Typed, TypeOK
<1>2. late <= 1 /\ late # 1
  BY DEF LastCommand
<1> QED
  BY <1>1, <1>2

LEMMA UserLast ==
  ASSUME Typed, Together, LastCommand, Acts
  PROVE  LastCommand'
<1>b. cancelled \in BOOLEAN
  BY DEF Typed, TypeOK
<1>1. ASSUME toHelper' = <<>>, UNCHANGED late, ~Closing
      PROVE  LastCommand'
  <2>1. late' = 0 /\ Commands' = {}
    BY <1>1, NotLate, NoCommands
  <2>2. late' <= 1 /\ late' # 1
    BY <2>1
  <2>3. \A m, n \in Commands' : m = n /\ late' = 0
    BY <2>1
  <2> QED
    BY <2>1, <2>2, <2>3 DEF LastCommand
<1>2. ASSUME UNCHANGED <<late, toHelper, worker, cancelled, helper>>, ~Closing
      PROVE  LastCommand'
  <2>1. Late => worker' \notin {"connect", "check", "cancelled check"} /\ (worker' = "loop" => cancelled')
    BY <1>b, <1>2, LateStays
  <2>2. Active' = Active
    BY <1>2 DEF Active
  <2> QED
    BY <1>2, <2>1, <2>2, SameCommands, LastKept
<1>3. CASE StartUpdate \/ StartFlatpakUpdate \/ Install \/ Reboot
  <2>1. ~Closing
    BY <1>3 DEF StartUpdate, StartFlatpakUpdate, Install, Reboot, Closing
  <2>2. \/ toHelper' = <<>> /\ UNCHANGED late
        \/ UNCHANGED <<late, toHelper, worker, cancelled, helper>>
    BY <1>3 DEF StartUpdate, StartFlatpakUpdate, Install, Reboot, StartWorker, Idle, history, socket,
                NotLaunched
  <2> QED
    BY <1>1, <1>2, <2>1, <2>2
<1>4. CASE Skip \/ NoFlatpakUpdate \/ Continue \/ GoToDone \/ Back
  <2>1. ~Closing
    BY <1>4 DEF Skip, NoFlatpakUpdate, Continue, GoToDone, Back, Closing
  <2>2. UNCHANGED <<late, toHelper, worker, cancelled, helper>>
    BY <1>4 DEF Skip, NoFlatpakUpdate, Continue, GoToDone, Back, Idle, history, socket
  <2> QED
    BY <1>2, <2>1, <2>2
<1>5. CASE CloseWindow
  <2>1. UNCHANGED <<late, toHelper, helper>> /\ Closing'
    BY <1>5 DEF CloseWindow, history, Closing
  <2>2. worker' = "none" \/ (UNCHANGED worker /\ cancelled')
    BY <1>5 DEF CloseWindow
  <2>3. Late => worker' \notin {"connect", "check", "cancelled check"} /\ (worker' = "loop" => cancelled')
    BY <2>2, LateStays
  <2>4. Active' = Active
    BY <2>1 DEF Active
  <2> QED
    BY <2>1, <2>3, <2>4, SameCommands, LastKept
<1> QED
  BY <1>3, <1>4, <1>5 DEF Acts, Click

LEMMA MainLoopLast ==
  ASSUME Typed, Together, LastCommand, Hears
  PROVE  LastCommand'
<1>b. cancelled \in BOOLEAN
  BY DEF Typed, TypeOK
<1>1. CASE HandleNotices \/ Deliver \/ Closed
  <2>1. UNCHANGED <<late, toHelper, worker, cancelled, helper>>
    BY <1>1 DEF HandleNotices, Deliver, Closed, Idle, history, socket
  <2>2. Closing => Closing'
    <3>1. CASE Deliver
      BY <3>1 DEF Deliver, Closing
    <3> QED
      BY <1>1, <3>1 DEF HandleNotices, Closed, Closing
  <2>3. Late => worker' \notin {"connect", "check", "cancelled check"} /\ (worker' = "loop" => cancelled')
    BY <1>b, <2>1, LateStays
  <2>4. Active' = Active
    BY <2>1 DEF Active
  <2> QED
    BY <2>1, <2>2, <2>3, <2>4, SameCommands, LastKept
<1>2. CASE RebootConnect
  <2>1. toHelper' = <<Execute(0, "reboot")>> /\ UNCHANGED <<ui, late>> /\ worker' = "rebooting"
    BY <1>2 DEF RebootConnect, Ours, page, history
  <2>2. \A n \in DOMAIN toHelper' : toHelper'[n].kind = "reboot"
    BY <2>1 DEF Execute
  <2>3. Commands' = {}
    BY <2>2 DEF Commands, Executes
  <2> QED
    BY <2>1, <2>3, LastKept DEF Closing
<1>3. CASE Rebooted
  <2>1. UNCHANGED <<late, toHelper, helper>> /\ worker' = "none"
    BY <1>3 DEF Rebooted, history
  <2>2. ~Closing
    BY <1>3 DEF Rebooted, Together, Closing
  <2>3. Active' = Active
    BY <2>1 DEF Active
  <2> QED
    BY <2>1, <2>2, <2>3, SameCommands, LastKept
<1> QED
  BY <1>1, <1>2, <1>3 DEF Hears, Handled

LEMMA StillLast ==
  ASSUME Typed, LastCommand, UNCHANGED vars
  PROVE  LastCommand'
<1>1. UNCHANGED <<ui, late, toHelper, worker, cancelled, helper>>
  BY StillKeeps
<1>2. cancelled \in BOOLEAN /\ Active' = Active
  BY <1>1 DEF Typed, TypeOK, Active
<1>3. Late => worker' \notin {"connect", "check", "cancelled check"} /\ (worker' = "loop" => cancelled')
  BY <1>1, <1>2, LateStays
<1> QED
  BY <1>1, <1>2, <1>3, SameCommands, LastKept DEF Closing

(* What the worker adds to the socket. *)
LEMMA AddedCommands ==
  ASSUME Typed, NEW m \in Request, toHelper' = Append(toHelper, m)
  PROVE  /\ \A n \in Commands' : \/ n \in Commands
                                 \/ m.type = "execute" /\ m.kind = "command" /\ n = Len(toHelper) + 1
         /\ m.type # "execute" \/ m.kind # "command" => \A n \in Commands' : n \in Commands
<1>1. \A n \in Executes' : \/ n \in Executes /\ toHelper'[n] = toHelper[n]
                           \/ m.type = "execute" /\ toHelper'[n] = m /\ n = Len(toHelper) + 1
  BY Asked
<1> QED
  BY <1>1 DEF Commands

(* A command that may be the last, where there was none that may still begin. *)
LEMMA LastAdded ==
  ASSUME Typed, LastCommand, ~Late, UNCHANGED late, Closing => Closing', UNCHANGED helper,
         NEW m \in Request, toHelper' = Append(toHelper, m),
         worker' \notin {"connect", "check", "cancelled check", "loop"}
  PROVE  LastCommand'
<1>1. Active' = Active
  BY DEF Active
<1>2. late' = 0
  BY ZeroLate DEF Late
<1>3. Active => Commands = {}
  BY DEF Late
<1>4. Active' => \A n \in Commands' : n = Len(toHelper) + 1
  BY <1>1, <1>3, AddedCommands
<1>5. Active' => \A j, n \in Commands' : j = n /\ late' = 0
  BY <1>2, <1>4
<1>6. late' <= 1 /\ late' # 1
  BY <1>2, Zero
<1>7. /\ worker' \notin {"connect", "check", "cancelled check"}
      /\ worker' = "loop" => cancelled'
  OBVIOUS
<1> QED
  BY <1>5, <1>6, <1>7 DEF LastCommand

LEMMA ReturnLast ==
  ASSUME Typed, Together, LastCommand, worker \in {"check", "command"}, NEW code, Return(code),
         UNCHANGED <<ui, late, helper, cancelled>>,
         worker = "command" => cancelled \/ ~Late
  PROVE  LastCommand'
<1>1. CASE worker = "check"
  <2>1. ~Late
    BY <1>1, LateStays
  <2>2. CASE code = 0
    <3>1. UNCHANGED toHelper /\ worker' = "loop"
      BY <1>1, <2>2 DEF Return
    <3>2. Active' = Active
      BY DEF Active
    <3> QED
      BY <2>1, <3>1, <3>2, SameCommands, LastKept DEF Closing
  <2>3. CASE code # 0
    <3>1. toHelper' = Append(toHelper, Execute(index, "command")) /\ worker' = "command"
      BY <1>1, <2>3 DEF Return
    <3>2. Execute(index, "command") \in Request
      BY ExecuteTyped DEF Request, Typed, TypeOK
    <3> QED
      BY <2>1, <3>1, <3>2, LastAdded DEF Closing
  <2> QED
    BY <2>2, <2>3
<1>2. CASE worker = "command"
  <2>1. UNCHANGED toHelper /\ worker' = "loop"
    BY <1>2 DEF Return
  <2>2. Active' = Active
    BY DEF Active
  <2>3. cancelled \in BOOLEAN
    BY DEF Typed, TypeOK
  <2>4. Late => worker' \notin {"connect", "check", "cancelled check"} /\ (worker' = "loop" => cancelled')
    BY <1>2, <2>1, <2>3
  <2> QED
    BY <2>1, <2>2, <2>4, SameCommands, LastKept DEF Closing
<1> QED
  BY <1>1, <1>2

LEMMA WorkerLast ==
  ASSUME Typed, Together, OneRequest, LastCommand, WorkerSteps \/ SendCancel
  PROVE  LastCommand'
<1>b. cancelled \in BOOLEAN
  BY DEF Typed, TypeOK
<1>1. UNCHANGED <<ui, late, helper, cancelled>>
  BY WorkerKeeps
<1>a. Active' = Active /\ (Closing => Closing')
  BY <1>1 DEF Active, Closing
<1>2. ASSUME UNCHANGED toHelper,
             Late => worker' \notin {"connect", "check", "cancelled check"} /\ (worker' = "loop" => cancelled)
      PROVE  LastCommand'
  <2>1. Late => worker' \notin {"connect", "check", "cancelled check"} /\ (worker' = "loop" => cancelled')
    BY <1>b, <1>1, <1>2
  <2> QED
    BY <1>1, <1>2, <1>a, <2>1, SameCommands, LastKept
<1>3. ASSUME NEW m \in Request, toHelper' = Append(toHelper, m), m.type # "execute",
             worker' \notin {"connect", "check", "cancelled check", "loop"}
      PROVE  LastCommand'
  <2>1. \A n \in Commands' : n \in Commands
    BY <1>3, AddedCommands
  <2> QED
    BY <1>1, <1>3, <1>a, <2>1, LastKept
<1>4. CASE Connect
  <2>1. UNCHANGED toHelper /\ worker = "connect"
    BY <1>4 DEF Connect
  <2>2. ~Late
    BY <2>1, LateStays
  <2> QED
    BY <1>2, <2>1, <2>2
<1>5. CASE Begin
  <2>1. CASE index > Len(plan) \/ cancelled
    <3>1. UNCHANGED toHelper /\ worker' = "shutdown"
      BY <1>5, <2>1 DEF Begin
    <3> QED
      BY <1>2, <3>1
  <2>2. CASE ~(index > Len(plan) \/ cancelled)
    <3> DEFINE kind == IF plan[index].check THEN "check" ELSE "command"
    <3>1. worker = "loop" /\ worker' = kind /\ toHelper' = Append(toHelper, Execute(index, kind))
      BY <1>5, <2>2 DEF Begin
    <3>2. ~Late
      BY <2>2, <3>1, LateStays
    <3>3. kind \in {"check", "command"}
      OBVIOUS
    <3>4. Execute(index, kind) \in Request /\ Execute(index, kind).kind = kind
      BY <3>3, ExecuteTyped DEF Request, Execute, Typed, TypeOK
    <3> HIDE DEF kind
    <3>5. CASE kind = "check"
      <4>1. \A n \in Commands' : n \in Commands
        BY <3>1, <3>4, <3>5, AddedCommands
      <4> QED
        BY <1>1, <1>a, <3>2, <4>1, LastKept
    <3>6. CASE kind = "command"
      BY <1>1, <1>a, <3>1, <3>2, <3>4, <3>6, LastAdded
    <3> QED
      BY <3>3, <3>5, <3>6
  <2> QED
    BY <2>1, <2>2
<1>6. CASE Read
  <2> DEFINE batch == unread \o toClient
  <2>1. worker \in {"check", "command"}
    BY <1>6 DEF Read, Waiting
  <2>2. CASE Answers(batch) = {}
    <3>1. UNCHANGED <<toHelper, worker>>
      BY <1>6, <2>2 DEF Read
    <3> QED
      BY <1>2, <2>1, <3>1, LateStays
  <2>3. CASE Answers(batch) # {}
    <3>1. Return(CodeIn(First(batch)))
      BY <1>6, <2>3 DEF Read
    <3>2. worker = "command" => cancelled \/ ~Late
      <4>1. SUFFICES ASSUME ~cancelled, worker = "command" PROVE ~Late
        BY <1>b
      <4>2. ~Closing /\ unread = <<>>
        BY <1>b, <4>1 DEF Together, Quiet
      <4>3. Answers(toClient) # {}
        BY <2>3, <4>2, ReadIs
      <4>4. Active => Executes = {}
        BY <4>2, <4>3 DEF OneRequest
      <4>5. late = 0
        BY <4>2, NotLate
      <4> QED
        BY <4>4, <4>5 DEF Late, Commands
    <3> HIDE DEF batch
    <3> QED
      BY <1>1, <2>1, <3>1, <3>2, ReturnLast
  <2> QED
    BY <2>2, <2>3
<1>7. CASE Disconnected
  <2>1. worker \in {"check", "command"} /\ Return(Lost) /\ ~cancelled /\ helper = "gone"
    BY <1>7 DEF Disconnected, Waiting
  <2>2. ~Closing
    BY <1>b, <2>1 DEF Together, Quiet
  <2>3. ~Late
    BY <2>1, <2>2, NotLate DEF Late, Active
  <2> QED
    BY <1>1, <2>1, <2>3, ReturnLast
<1>8. CASE SendCancel
  <2>1. /\ worker \in {"check", "command"} /\ toHelper' = Append(toHelper, [type |-> "cancel"])
        /\ worker' = (IF worker = "check" THEN "cancelled check" ELSE "cancelled command")
    BY <1>8 DEF SendCancel, Waiting
  <2>2. [type |-> "cancel"] \in Request
    BY DEF Request
  <2>3. \A n \in Commands' : n \in Commands
    BY <2>1, <2>2, AddedCommands
  <2>4. Late => worker # "check"
    BY LateStays
  <2> QED
    BY <1>1, <1>a, <2>1, <2>3, <2>4, LastKept
<1>9. CASE Cancelled
  <2>1. CASE worker = "cancelled check"
    <3>1. toHelper' = Append(toHelper, Execute(index, "command")) /\ worker' = "command"
      BY <1>9, <2>1 DEF Cancelled
    <3>2. Execute(index, "command") \in Request
      BY ExecuteTyped DEF Request, Typed, TypeOK
    <3>3. ~Late
      BY <2>1, LateStays
    <3> QED
      BY <1>1, <1>a, <3>1, <3>2, <3>3, LastAdded
  <2>2. CASE worker # "cancelled check"
    <3>1. UNCHANGED toHelper /\ worker' = "loop" /\ worker = "cancelled command"
      BY <1>9, <2>2 DEF Cancelled
    <3>2. cancelled
      BY <3>1 DEF Together
    <3> QED
      BY <1>2, <3>1, <3>2
  <2> QED
    BY <2>1, <2>2
<1>10. CASE Shutdown
  <2>1. toHelper' = Append(toHelper, [type |-> "shutdown"]) /\ worker' = "disconnect"
    BY <1>10 DEF Shutdown
  <2>2. [type |-> "shutdown"] \in Request
    BY DEF Request
  <2> QED
    BY <1>3, <2>1, <2>2
<1>11. CASE Disconnect
  BY <1>2, <1>11 DEF Disconnect
<1> QED
  BY <1>4, <1>5, <1>6, <1>7, <1>8, <1>9, <1>10, <1>11 DEF WorkerSteps

LEMMA HelperLast ==
  ASSUME Typed, LastCommand, HelperSteps \/ (\E code \in Codes : CommandEnds(code)) \/ HelperCrash
  PROVE  LastCommand'
<1>b. cancelled \in BOOLEAN
  BY DEF Typed, TypeOK
<1>1. UNCHANGED <<ui, worker, cancelled>>
  BY HelperKeeps
<1>2. Late => worker' \notin {"connect", "check", "cancelled check"} /\ (worker' = "loop" => cancelled')
  BY <1>b, <1>1, LateStays
<1>3. CASE HelperShutsDown
  <2>1. ~Active' /\ UNCHANGED late
    BY <1>3 DEF HelperShutsDown, Active, history
  <2> QED
    BY <1>1, <1>2, <2>1, LastKept DEF Closing
<1>4. CASE HelperIsCancelled
  <2>1. Active' = Active /\ UNCHANGED late /\ toHelper # <<>> /\ toHelper' = Tail(toHelper)
    BY <1>4 DEF HelperIsCancelled, Active, history
  <2>2. \A n \in Executes' : n + 1 \in Executes /\ toHelper'[n] = toHelper[n + 1]
    BY <2>1, TakenUp
  <2>3. \A n \in Commands' : n + 1 \in Commands
    BY <2>2 DEF Commands
  <2>4. Active => \A m, n \in Commands : m = n /\ late = 0
    BY DEF LastCommand
  <2>5. \A n \in Commands' : n \in Nat
    <3>1. toHelper' \in Seq(Request)
      BY <2>1 DEF Typed, SentTyped
    <3> QED
      BY <3>1 DEF Commands, Executes
  <2>6. Active' => \A m, n \in Commands' : m = n /\ late' = 0
    BY <2>1, <2>3, <2>4, <2>5
  <2>7. late' <= 1 /\ (late' = 1 => Closing')
    BY <1>1, <2>1 DEF LastCommand, Closing
  <2>8. late' = 1 \/ (Active' /\ Commands' # {}) => Late
    BY <2>1, <2>3 DEF Late
  <2> QED
    BY <1>2, <2>6, <2>7, <2>8 DEF LastCommand
<1>5. CASE HelperExecutes
  <2> DEFINE message == Head(toHelper)
  <2>1. helper = "idle" /\ toHelper # <<>> /\ message.type = "execute" /\ toHelper' = Tail(toHelper)
    BY <1>5 DEF HelperExecutes
  <2>a. Active /\ Active'
    BY <1>5 DEF HelperExecutes, Active
  <2>2. /\ 1 \in DOMAIN toHelper /\ message = toHelper[1]
        /\ \A n \in Executes' : n + 1 \in Executes /\ toHelper'[n] = toHelper[n + 1] /\ n + 1 # 1
    BY <2>1, TakenUp
  <2>3. 1 \in Executes
    BY <2>1, <2>2 DEF Executes
  <2>4. \A n \in Commands' : n + 1 \in Commands /\ n + 1 # 1
    BY <2>2 DEF Commands
  <2>5. \A m, n \in Commands : m = n /\ late = 0
    BY <2>a DEF LastCommand
  <2>t. \A n \in Commands' : n \in Nat
    <3>1. toHelper' \in Seq(Request)
      BY <2>1 DEF Typed, SentTyped
    <3> QED
      BY <3>1 DEF Commands, Executes
  <2>6. CASE message.kind = "command"
    <3>1. 1 \in Commands
      BY <2>2, <2>3, <2>6 DEF Commands
    <3>2. late = 0 /\ Commands' = {}
      BY <2>4, <2>5, <3>1
    <3>3. Late
      BY <2>a, <3>1 DEF Late
    <3>4. late' \in {0, 1} /\ (late' = 1 => Closing')
      <4>1. CASE Permitted(message)
        <5>1. late' = late + (IF ui \in {"closing", "closed"} /\ message.kind = "command" THEN 1 ELSE 0)
          BY <1>5, <4>1 DEF HelperExecutes
        <5> QED
          BY <1>1, <3>2, <5>1 DEF Closing
      <4>2. CASE ~Permitted(message)
        BY <1>5, <3>2, <4>2 DEF HelperExecutes, history
      <4> QED
        BY <4>1, <4>2
    <3>5. late' <= 1
      BY <3>4
    <3> QED
      BY <1>2, <3>2, <3>3, <3>4, <3>5 DEF LastCommand
  <2>7. CASE message.kind # "command"
    <3>1. UNCHANGED late
      <4>1. late \in Nat
        BY DEF Typed, TypeOK
      <4>2. CASE Permitted(message)
        <5>1. late' = late + (IF ui \in {"closing", "closed"} /\ message.kind = "command" THEN 1 ELSE 0)
          BY <1>5, <4>2 DEF HelperExecutes
        <5> QED
          BY <2>7, <4>1, <5>1
      <4>3. CASE ~Permitted(message)
        BY <1>5, <4>3 DEF HelperExecutes, history
      <4> QED
        BY <4>2, <4>3
    <3>2. \A m, n \in Commands' : m = n /\ late' = 0
      BY <2>4, <2>5, <2>t, <3>1
    <3>3. late' <= 1 /\ (late' = 1 => Closing')
      BY <1>1, <3>1 DEF LastCommand, Closing
    <3>4. late' = 1 \/ (Active' /\ Commands' # {}) => Late
      BY <2>4, <2>a, <3>1 DEF Late
    <3> QED
      BY <1>2, <3>2, <3>3, <3>4 DEF LastCommand
  <2> QED
    BY <2>6, <2>7
<1>6. ASSUME UNCHANGED <<toHelper, late>>, Active' => Active
      PROVE  LastCommand'
  BY <1>1, <1>2, <1>6, SameCommands, LastKept DEF Closing
<1>7. CASE HelperSeesEnd \/ HelperAccepts \/ HelperQuits \/ HelperCrash
  BY <1>6, <1>7 DEF HelperSeesEnd, HelperAccepts, HelperQuits, HelperCrash, Active, history
<1>8. ASSUME NEW code \in Codes, CommandEnds(code)
      PROVE  LastCommand'
  BY <1>6, <1>8 DEF CommandEnds, Active
<1> QED
  BY <1>3, <1>4, <1>5, <1>7, <1>8 DEF HelperSteps

LEMMA LastStep == Typed /\ Together /\ OneRequest /\ LastCommand /\ NextApart => LastCommand'
BY UserLast, MainLoopLast, WorkerLast, HelperLast, StillLast DEF NextApart

-----------------------------------------------------------------------------
(* One request at a time *)

NoCancel == \A n \in DOMAIN toHelper : toHelper[n].type # "cancel"

LEMMA NothingIsOne == NoCancel' /\ Nothing' => OneRequest'
BY DEF NoCancel, Nothing, OneRequest

LEMMA NotCancelled ==
  ASSUME Typed, Together, ~Closing
  PROVE  /\ ~cancelled /\ unread = <<>>
         /\ worker \notin {"cancelled check", "cancelled command"}
<1>1. cancelled \in BOOLEAN
  BY DEF Typed, TypeOK
<1> QED
  BY <1>1 DEF Together

LEMMA SameOne ==
  ASSUME OneRequest, UNCHANGED <<toHelper, toClient, helper, request>>, ~Closing,
         UNCHANGED <<worker, index>> \/ (worker \notin Asks /\ worker' \notin Asks)
  PROVE  OneRequest'
<1>1. Answers(toClient)' = Answers(toClient) /\ Executes' = Executes /\ Active' = Active
  BY DEF Answers, Executes, Active
<1>2. CASE worker \notin Asks /\ worker' \notin Asks
  <2>1. NoCancel' /\ Nothing'
    BY <1>1, <1>2 DEF OneRequest, NoCancel, Nothing
  <2> QED
    BY <2>1, NothingIsOne
<1>3. CASE UNCHANGED <<worker, index>>
  <2>1. Current' = Current /\ Nothing' = Nothing
    BY <1>1, <1>3 DEF Current, Nothing
  <2> QED
    BY <1>1, <1>3, <2>1 DEF OneRequest
<1> QED
  BY <1>2, <1>3

LEMMA UserOne ==
  ASSUME Typed, Together, OneRequest, Acts, ~Closing'
  PROVE  OneRequest'
<1>1. ASSUME ~Closing, worker \in Quiet
      PROVE  worker \notin Asks /\ Nothing /\ NoCancel
  <2>1. worker \notin Asks
    BY <1>1 DEF Quiet, Asks
  <2> QED
    BY <1>1, <2>1 DEF OneRequest, NoCancel
<1>2. ASSUME ~Closing, UNCHANGED <<toHelper, toClient, helper, request, worker, index>>
      PROVE  OneRequest'
  BY <1>2, SameOne
<1>3. ASSUME ~Closing, worker \in Quiet, toHelper' = <<>>, toClient' = <<>>, UNCHANGED helper \/ helper' = "listening"
      PROVE  OneRequest'
  <2>1. NoCancel'
    BY <1>3, Empty DEF NoCancel
  <2>2. Executes' = {} /\ Answers(toClient)' = {}
    BY <1>3, NothingAsked, NoAnswers
  <2>3. helper' # "busy"
    BY <1>1, <1>3 DEF Nothing
  <2> QED
    BY <2>1, <2>2, <2>3, NothingIsOne DEF Nothing
<1>4. CASE StartUpdate \/ StartFlatpakUpdate \/ Install \/ Reboot
  <2>1. ~Closing /\ worker \in Quiet
    BY <1>4 DEF StartUpdate, StartFlatpakUpdate, Install, Reboot, Closing, Together, Resting
  <2>2. \/ toHelper' = <<>> /\ toClient' = <<>> /\ (UNCHANGED helper \/ helper' = "listening")
        \/ UNCHANGED <<toHelper, toClient, helper, request, worker, index>>
    BY <1>4 DEF StartUpdate, StartFlatpakUpdate, Install, Reboot, StartWorker, Idle, history, socket,
                loop, NotLaunched, Launched
  <2> QED
    BY <1>2, <1>3, <2>1, <2>2
<1>5. CASE Skip \/ NoFlatpakUpdate \/ Continue \/ GoToDone \/ Back
  <2>1. ~Closing
    BY <1>5 DEF Skip, NoFlatpakUpdate, Continue, GoToDone, Back, Closing
  <2>2. UNCHANGED <<toHelper, toClient, helper, request, worker, index>>
    BY <1>5 DEF Skip, NoFlatpakUpdate, Continue, GoToDone, Back, Idle, socket, loop
  <2> QED
    BY <1>2, <2>1, <2>2
<1>6. CASE CloseWindow
  BY <1>6 DEF CloseWindow, Closing
<1> QED
  BY <1>4, <1>5, <1>6 DEF Acts, Click

LEMMA MainLoopOne ==
  ASSUME Typed, Together, OneRequest, Hears, ~Closing'
  PROVE  OneRequest'
<1>1. CASE HandleNotices \/ Closed
  <2>1. UNCHANGED <<toHelper, toClient, helper, request, worker, index>> /\ ~Closing
    BY <1>1 DEF HandleNotices, Closed, Idle, socket, loop, Closing
  <2> QED
    BY <2>1, SameOne
<1>2. CASE Deliver
  <2>1. UNCHANGED <<toHelper, toClient, helper, request, worker, index>> /\ ~Closing
    BY <1>2 DEF Deliver, socket, loop, Closing
  <2> QED
    BY <2>1, SameOne
<1>3. CASE RebootConnect
  <2>1. /\ worker = "reboot" /\ helper = "listening" /\ worker' = "rebooting"
        /\ toHelper' = <<Execute(0, "reboot")>>
        /\ UNCHANGED <<ui, helper, toClient>>
    BY <1>3 DEF RebootConnect, Ours, page
  <2>2. ~Closing
    BY <2>1 DEF Closing
  <2>3. Answers(toClient) = {} /\ Answers(toClient)' = {}
    BY <2>1, <2>2 DEF OneRequest, Asks, Nothing
  <2>4. \A n \in DOMAIN toHelper' : n = 1 /\ toHelper'[n] = Execute(0, "reboot")
    BY <2>1
  <2>5. Current' = Execute(0, "reboot")
    BY <2>1 DEF Current
  <2>6. \A m, n \in Executes' : m = n /\ toHelper'[n] = Current'
    BY <2>4, <2>5 DEF Executes
  <2>7. \A n \in DOMAIN toHelper' : toHelper'[n].type # "cancel"
    BY <2>4 DEF Execute
  <2> QED
    BY <2>1, <2>3, <2>6, <2>7 DEF OneRequest, Asks
<1>4. CASE Rebooted
  <2>1. UNCHANGED <<toHelper, helper, request>> /\ toClient' = <<>> /\ worker' = "none"
    BY <1>4 DEF Rebooted
  <2>2. worker \in {"reboot", "rebooting"} /\ ~Closing
    BY <1>4 DEF Rebooted, Together, Closing
  <2>3. NoCancel' /\ Executes' = Executes /\ Active' = Active /\ Answers(toClient)' = {}
    BY <2>1, <2>2, NoAnswers DEF OneRequest, NoCancel, Executes, Active
  <2>4. (Active => Executes = {}) /\ helper # "busy"
    <3>1. CASE worker = "reboot"
      BY <2>2, <3>1 DEF OneRequest, Asks, Nothing
    <3>2. CASE Answers(toClient) # {}
      BY <2>2, <3>2 DEF OneRequest
    <3>3. CASE helper = "gone"
      BY <3>3 DEF Active
    <3> QED
      BY <1>4, <3>1, <3>2, <3>3 DEF Rebooted
  <2> QED
    BY <2>1, <2>3, <2>4, NothingIsOne DEF Nothing
<1> QED
  BY <1>1, <1>2, <1>3, <1>4 DEF Hears, Handled

(* A request, where none was under way. *)
LEMMA OneAsked ==
  ASSUME Typed, NoCancel, Active => Executes = {}, helper # "busy", UNCHANGED helper,
         NEW m \in Request, m.type = "execute", toHelper' = Append(toHelper, m),
         Current' = m, Answers(toClient)' = {}, worker' \in Asks
  PROVE  OneRequest'
<1>1. /\ \A n \in DOMAIN toHelper' : toHelper'[n] = m \/ (n \in DOMAIN toHelper /\ toHelper'[n] = toHelper[n])
      /\ \A n \in Executes' : n \in Executes \/ (toHelper'[n] = m /\ n = Len(toHelper) + 1)
  BY Asked
<1>2. NoCancel'
  BY <1>1 DEF NoCancel
<1>3. Active' = Active
  BY DEF Active
<1>4. Active' => \A n \in Executes' : toHelper'[n] = Current' /\ n = Len(toHelper) + 1
  BY <1>1, <1>3
<1> QED
  BY <1>2, <1>4 DEF OneRequest, NoCancel

LEMMA CurrentIs ==
  ASSUME UNCHANGED index, worker' \in {"check", "command"}
  PROVE  Current' = Execute(index, worker')
BY DEF Current, Execute

LEMMA ReturnOne ==
  ASSUME Typed, NoCancel, worker \in {"check", "command"}, NEW code, Return(code), UNCHANGED helper,
         Active => Executes = {}, helper # "busy", toClient' = <<>>
  PROVE  OneRequest'
<1>1. Answers(toClient)' = {}
  BY NoAnswers
<1>2. CASE UNCHANGED toHelper /\ worker' = "loop"
  <2>1. NoCancel' /\ Executes' = Executes /\ Active' = Active
    BY <1>2 DEF NoCancel, Executes, Active
  <2> QED
    BY <1>1, <2>1, NothingIsOne DEF Nothing
<1>3. CASE worker' = "command" /\ toHelper' = Append(toHelper, Execute(index, "command")) /\ UNCHANGED index
  <2>1. Execute(index, "command") \in Request
    BY ExecuteTyped DEF Request, Typed, TypeOK
  <2>2. Execute(index, "command").type = "execute"
    BY DEF Execute
  <2>3. Current' = Execute(index, "command")
    BY <1>3, CurrentIs
  <2> QED
    BY <1>1, <1>3, <2>1, <2>2, <2>3, OneAsked DEF Asks
<1> QED
  BY <1>2, <1>3 DEF Return

LEMMA WorkerOne ==
  ASSUME Typed, Together, OneRequest, WorkerSteps \/ SendCancel, ~Closing'
  PROVE  OneRequest'
<1>1. UNCHANGED <<ui, helper, request>> /\ ~Closing
  BY WorkerKeeps DEF Closing
<1>2. ~cancelled /\ unread = <<>> /\ worker \notin {"cancelled check", "cancelled command"} /\ NoCancel
  BY <1>1, NotCancelled DEF OneRequest, NoCancel
<1>3. CASE Connect
  <2>1. UNCHANGED <<toHelper, toClient>> /\ worker \notin Asks /\ worker' \notin Asks
    BY <1>3 DEF Connect, Asks
  <2> QED
    BY <1>1, <2>1, SameOne
<1>4. CASE Begin
  <2>0. worker = "loop" /\ UNCHANGED <<toClient, index>>
    BY <1>4 DEF Begin
  <2>1. CASE index > Len(plan) \/ cancelled
    <3>1. UNCHANGED toHelper /\ worker' = "shutdown"
      BY <1>4, <2>1 DEF Begin
    <3> QED
      BY <1>1, <2>0, <3>1, SameOne DEF Asks
  <2>2. CASE ~(index > Len(plan) \/ cancelled)
    <3> DEFINE kind == IF plan[index].check THEN "check" ELSE "command"
    <3>1. worker' = kind /\ toHelper' = Append(toHelper, Execute(index, kind))
      BY <1>4, <2>2 DEF Begin
    <3>2. kind \in {"check", "command"}
      OBVIOUS
    <3>3. Execute(index, kind) \in Request
      BY <3>2, ExecuteTyped DEF Request, Typed, TypeOK
    <3>4. Execute(index, kind).type = "execute"
      BY DEF Execute
    <3> HIDE DEF kind
    <3>5. Nothing
      BY <1>1, <2>0 DEF OneRequest, Asks
    <3>6. Answers(toClient)' = {}
      BY <2>0, <3>5 DEF Nothing, Answers
    <3>7. Current' = Execute(index, kind)
      BY <2>0, <3>1, <3>2, CurrentIs
    <3>8. worker' \in Asks
      BY <3>1, <3>2 DEF Asks
    <3> QED
      BY <1>1, <1>2, <3>1, <3>3, <3>4, <3>5, <3>6, <3>7, <3>8, OneAsked DEF Nothing
  <2> QED
    BY <2>1, <2>2
<1>5. CASE Read
  <2>1. worker \in {"check", "command"} /\ toClient' = <<>> /\ unread \o toClient = toClient
    BY <1>2, <1>5, ReadIs DEF Read, Waiting
  <2>2. CASE Answers(toClient) = {}
    <3>1. UNCHANGED <<worker, index, toHelper>>
      BY <1>5, <2>1, <2>2 DEF Read
    <3>2. /\ Answers(toClient)' = {} /\ Executes' = Executes /\ Active' = Active
          /\ Current' = Current
      BY <1>1, <2>1, <3>1, NoAnswers DEF Executes, Active, Current
    <3>3. worker' \in Asks
      BY <2>1, <3>1 DEF Asks
    <3> QED
      BY <1>1, <3>1, <3>2, <3>3 DEF OneRequest
  <2>3. CASE Answers(toClient) # {}
    <3>1. Return(CodeIn(First(toClient)))
      BY <1>5, <2>1, <2>3 DEF Read
    <3>2. helper # "busy" /\ (Active => Executes = {})
      BY <1>1, <2>3 DEF OneRequest
    <3> QED
      BY <1>1, <1>2, <2>1, <3>1, <3>2, ReturnOne
  <2> QED
    BY <2>2, <2>3
<1>6. CASE Disconnected
  <2>1. worker \in {"check", "command"} /\ Return(Lost) /\ helper = "gone" /\ toClient = <<>> /\ UNCHANGED toClient
    BY <1>6 DEF Disconnected, Waiting
  <2>2. helper # "busy" /\ ~Active
    BY <2>1 DEF Active
  <2> QED
    BY <1>1, <1>2, <2>1, <2>2, ReturnOne
<1>7. CASE SendCancel \/ Cancelled
  BY <1>2, <1>7 DEF SendCancel, Cancelled
<1>8. CASE Shutdown
  <2>1. worker = "shutdown" /\ worker' = "disconnect" /\ UNCHANGED toClient
        /\ toHelper' = Append(toHelper, [type |-> "shutdown"])
    BY <1>8 DEF Shutdown
  <2>2. [type |-> "shutdown"] \in Request /\ [type |-> "shutdown"].type = "shutdown"
    BY DEF Request
  <2> DEFINE m == [type |-> "shutdown"]
  <2> HIDE DEF m
  <2>3. m \in Request /\ m.type = "shutdown" /\ toHelper' = Append(toHelper, m)
    BY <2>1, <2>2 DEF m
  <2>4. /\ \A n \in DOMAIN toHelper' : toHelper'[n] = m \/ (n \in DOMAIN toHelper /\ toHelper'[n] = toHelper[n])
        /\ \A n \in Executes' : n \in Executes
    BY <2>3, Asked
  <2>5. NoCancel'
    BY <1>2, <2>3, <2>4 DEF NoCancel
  <2>6. Nothing
    BY <1>1, <2>1 DEF OneRequest, Asks
  <2>7. Nothing'
    BY <1>1, <2>1, <2>4, <2>6 DEF Nothing, Active, Answers
  <2> QED
    BY <2>5, <2>7, NothingIsOne
<1>9. CASE Disconnect
  <2>1. worker = "disconnect" /\ worker' = "ended" /\ toClient' = <<>> /\ UNCHANGED toHelper
    BY <1>9 DEF Disconnect
  <2>2. Nothing
    BY <1>1, <2>1 DEF OneRequest, Asks
  <2>3. Nothing' /\ NoCancel'
    BY <1>1, <1>2, <2>1, <2>2, NoAnswers DEF Nothing, Active, Executes, NoCancel
  <2> QED
    BY <2>3, NothingIsOne
<1> QED
  BY <1>3, <1>4, <1>5, <1>6, <1>7, <1>8, <1>9 DEF WorkerSteps

LEMMA HelperOne ==
  ASSUME Typed, Together, OneRequest,
         HelperSteps \/ (\E code \in Codes : CommandEnds(code)) \/ HelperCrash, ~Closing'
  PROVE  OneRequest'
<1>1. UNCHANGED <<ui, worker, index, connected>> /\ ~Closing
  BY HelperKeeps DEF Closing
<1>2. NoCancel /\ Current' = Current
  BY <1>1 DEF OneRequest, NoCancel, Current
<1>3. CASE HelperShutsDown
  <2> DEFINE m == [type |-> "shutdown_ack"]
  <2>1. /\ ~Active' /\ helper' # "busy" /\ toHelper # <<>> /\ toHelper' = Tail(toHelper) /\ Send(m)
    BY <1>3 DEF HelperShutsDown, Active
  <2>2. m.type \notin Ends
    BY DEF Ends
  <2> HIDE DEF m
  <2>3. \A n \in Answers(toClient') : n \in Answers(toClient)
    BY <2>1, <2>2, Sent
  <2>4. NoCancel'
    BY <1>2, <2>1, TakenUp DEF NoCancel
  <2> QED
    BY <1>1, <2>1, <2>3, <2>4 DEF OneRequest, Nothing, NoCancel
<1>4. CASE HelperIsCancelled
  <2>1. toHelper # <<>> /\ Head(toHelper).type = "cancel"
    BY <1>4 DEF HelperIsCancelled
  <2>2. 1 \in DOMAIN toHelper /\ Head(toHelper) = toHelper[1]
    BY <2>1, FirstIs DEF Typed, SentTyped
  <2> QED
    BY <1>2, <2>1, <2>2 DEF NoCancel
<1>5. CASE HelperExecutes
  <2> DEFINE message == Head(toHelper)
  <2>1. helper = "idle" /\ toHelper # <<>> /\ message.type = "execute" /\ toHelper' = Tail(toHelper)
    BY <1>5 DEF HelperExecutes
  <2>2. /\ 1 \in DOMAIN toHelper /\ message = toHelper[1]
        /\ \A n \in DOMAIN toHelper' : n + 1 \in DOMAIN toHelper /\ toHelper'[n] = toHelper[n + 1]
        /\ \A n \in Executes' : n + 1 \in Executes /\ n + 1 # 1
    BY <2>1, TakenUp
  <2>3. Active /\ 1 \in Executes
    BY <2>1, <2>2 DEF Active, Executes
  <2>4. message = Current /\ Executes' = {}
    BY <1>1, <2>2, <2>3 DEF OneRequest
  <2>5. NoCancel'
    BY <1>2, <2>2 DEF NoCancel
  <2>6. worker \in Asks /\ Answers(toClient) = {}
    BY <1>1, <2>3 DEF OneRequest, Nothing
  <2>7. CASE Permitted(message)
    <3> DEFINE m == [type |-> "started"]
    <3>1. helper' = "busy" /\ request' = message /\ Send(m)
      BY <1>5, <2>7 DEF HelperExecutes
    <3>2. m.type \notin Ends
      BY DEF Ends
    <3> HIDE DEF m
    <3>3. Answers(toClient)' = {}
      BY <2>6, <3>1, <3>2, Sent
    <3> QED
      BY <1>1, <1>2, <2>4, <2>5, <2>6, <3>1, <3>3 DEF OneRequest, NoCancel
  <2>8. CASE ~Permitted(message)
    <3> DEFINE m == [type |-> "rejected"]
    <3>1. UNCHANGED helper /\ Send(m)
      BY <1>5, <2>8 DEF HelperExecutes
    <3> HIDE DEF m
    <3>2. \A n \in Answers(toClient') : n = Len(toClient) + 1
      BY <2>6, <3>1, Sent
    <3> QED
      BY <1>1, <1>2, <2>1, <2>4, <2>5, <2>6, <3>1, <3>2 DEF OneRequest, NoCancel
  <2> QED
    BY <2>7, <2>8
<1>6. ASSUME NEW code \in Codes, CommandEnds(code)
      PROVE  OneRequest'
  <2>1. helper = "busy" /\ helper' = "idle" /\ Send(Finished(code)) /\ UNCHANGED toHelper
    BY <1>6 DEF CommandEnds
  <2>2. Answers(toClient) = {} /\ Executes = {} /\ worker \in Asks
    BY <1>1, <2>1 DEF OneRequest, Nothing
  <2>3. Executes' = {} /\ NoCancel'
    BY <1>2, <2>1, <2>2 DEF Executes, NoCancel
  <2>4. \A n \in Answers(toClient') : n = Len(toClient) + 1
    BY <2>1, <2>2, Sent
  <2> QED
    BY <1>1, <2>1, <2>2, <2>3, <2>4 DEF OneRequest, NoCancel
<1>7. CASE HelperSeesEnd \/ HelperAccepts \/ HelperQuits \/ HelperCrash
  <2>1. UNCHANGED <<toHelper, toClient>> /\ helper' # "busy" /\ (Active' => Active)
    BY <1>7 DEF HelperSeesEnd, HelperAccepts, HelperQuits, HelperCrash, Active
  <2>2. Executes' = Executes /\ Answers(toClient)' = Answers(toClient) /\ NoCancel'
    BY <1>2, <2>1 DEF Executes, Answers, NoCancel
  <2> QED
    BY <1>1, <1>2, <2>1, <2>2 DEF OneRequest, Nothing, NoCancel
<1> QED
  BY <1>3, <1>4, <1>5, <1>6, <1>7 DEF HelperSteps

LEMMA OneStep == Typed /\ Together /\ OneRequest /\ NextApart => OneRequest'
<1> SUFFICES ASSUME Typed, Together, OneRequest, NextApart, ~Closing' PROVE OneRequest'
  BY DEF OneRequest
<1>1. CASE UNCHANGED vars
  <2>1. UNCHANGED <<ui, toHelper, toClient, helper, request, worker, index>>
    BY <1>1, StillKeeps
  <2> QED
    BY <2>1, SameOne DEF Closing
<1> QED
  BY <1>1, UserOne, MainLoopOne, WorkerOne, HelperOne DEF NextApart

-----------------------------------------------------------------------------
(* What an answer says *)

(* Where neither what became of the step nor its answers change. *)
LEMMA SameTells ==
  ASSUME AnswerTells, UNCHANGED <<toClient, worker, index, plan, outcome>>, Closing => Closing'
  PROVE  AnswerTells'
<1>1. Answers(toClient)' = Answers(toClient)
  BY DEF Answers
<1>2. \A kind, code : OutcomeOf(kind, code)' = OutcomeOf(kind, code)
  BY DEF OutcomeOf
<1> QED
  BY <1>1, <1>2 DEF AnswerTells

LEMMA UserTells ==
  ASSUME Typed, Together, AnswerTells, Acts
  PROVE  AnswerTells'
<1>1. ASSUME UNCHANGED <<toClient, worker, index, plan, outcome>>, Closing => Closing'
      PROVE  AnswerTells'
  BY <1>1, SameTells
<1>2. ASSUME worker' \notin {"check", "command"} PROVE AnswerTells'
  BY <1>2 DEF AnswerTells
<1>3. CASE StartUpdate \/ StartFlatpakUpdate \/ Install \/ Reboot
  <2>1. ~Closing
    BY <1>3 DEF StartUpdate, StartFlatpakUpdate, Install, Reboot, Closing
  <2>2. \/ worker' \in {"connect", "reboot"}
        \/ UNCHANGED <<toClient, worker, index, plan, outcome>>
    BY <1>3 DEF StartUpdate, StartFlatpakUpdate, Install, Reboot, StartWorker, Idle, history, socket, loop
  <2> QED
    BY <1>1, <1>2, <2>1, <2>2
<1>4. CASE Skip \/ NoFlatpakUpdate \/ Continue \/ GoToDone \/ Back
  <2>1. ~Closing /\ UNCHANGED <<toClient, worker, index, plan, outcome>>
    BY <1>4 DEF Skip, NoFlatpakUpdate, Continue, GoToDone, Back, Closing, Idle, history, socket, loop
  <2> QED
    BY <1>1, <2>1
<1>5. CASE CloseWindow
  BY <1>5 DEF CloseWindow, Closing, AnswerTells
<1> QED
  BY <1>3, <1>4, <1>5 DEF Acts, Click

LEMMA MainLoopTells ==
  ASSUME AnswerTells, Hears
  PROVE  AnswerTells'
<1>1. CASE HandleNotices \/ Closed
  <2>1. UNCHANGED <<toClient, worker, index, plan, outcome>> /\ (Closing => Closing')
    BY <1>1 DEF HandleNotices, Closed, Closing, Idle, history, socket, loop
  <2> QED
    BY <2>1, SameTells
<1>2. CASE Deliver
  <2>1. UNCHANGED <<toClient, worker, index, plan, outcome>> /\ (Closing => Closing')
    BY <1>2 DEF Deliver, Closing, history, socket, loop
  <2> QED
    BY <2>1, SameTells
<1>3. CASE RebootConnect \/ Rebooted
  BY <1>3 DEF RebootConnect, Rebooted, AnswerTells
<1> QED
  BY <1>1, <1>2, <1>3 DEF Hears, Handled

LEMMA FirstAnswer ==
  ASSUME Typed, OneRequest, ~Closing, Answers(toClient) # {}
  PROVE  \E n \in Answers(toClient) : First(toClient) = toClient[n]
<1>1. PICK n \in Answers(toClient) : \A m \in Answers(toClient) : m = n
  BY DEF OneRequest
<1>2. n <= n
  <2>1. toClient \in Seq(Answer)
    BY DEF Typed, AnswersTyped
  <2> QED
    BY <2>1 DEF Answers
<1> QED
  BY <1>1, <1>2 DEF First

(* What the code says that sendRequest() returns.                             *)
Says(code) ==
  /\ worker = "check" => IF code = 0 THEN outcome[index] = "found" ELSE outcome[index] \in Open
  /\ worker = "command" =>
       IF code \in plan[index].accepted \cup {0} THEN outcome[index] = "done"
       ELSE outcome[index] \in {"nothing", "begun", "failed"}

LEMMA LostSays ==
  ASSUME Typed, worker \in {"check", "command"}, outcome[index] \in Open
  PROVE  Says(Lost)
<1>1. plan[index].accepted \subseteq Codes
  BY StepTyped DEF Typed, PlanTyped, InStep
<1>2. Lost # 0 /\ Lost \notin plan[index].accepted
  BY <1>1, LegacyAssumption DEF Lost
<1> QED
  BY <1>2 DEF Says, Open

LEMMA AnswerSays ==
  ASSUME Typed, OneRequest, AnswerTells, ~Closing, worker \in {"check", "command"}, Answers(toClient) # {}
  PROVE  Says(CodeIn(First(toClient)))
<1>1. PICK n \in Answers(toClient) : First(toClient) = toClient[n]
  BY FirstAnswer
<1>2. IF toClient[n].type = "finished" THEN outcome[index] = OutcomeOf(worker, toClient[n].code)
      ELSE outcome[index] \in Open
  BY DEF AnswerTells
<1>3. CASE toClient[n].type = "finished"
  BY <1>1, <1>2, <1>3 DEF CodeIn, OutcomeOf, Says, Open
<1>4. CASE toClient[n].type # "finished"
  BY <1>1, <1>2, <1>4, LostSays DEF CodeIn
<1> QED
  BY <1>3, <1>4

LEMMA ReturnTells ==
  ASSUME worker \in {"check", "command"}, NEW code, Return(code), Says(code),
         toClient' = <<>>, UNCHANGED outcome
  PROVE  AnswerTells'
<1>1. Answers(toClient)' = {}
  BY NoAnswers
<1>2. CASE worker' = "command"
  <2>1. worker = "check" /\ code # 0 /\ UNCHANGED index
    BY <1>2 DEF Return
  <2>2. outcome'[index'] \in Open
    BY <2>1 DEF Says
  <2> QED
    BY <1>1, <1>2, <2>2 DEF AnswerTells
<1>3. CASE worker' = "loop"
  BY <1>3 DEF AnswerTells
<1> QED
  BY <1>2, <1>3 DEF Return

LEMMA WorkerTells ==
  ASSUME Typed, Together, OneRequest, AnswerTells, Untouched, WorkerSteps \/ SendCancel, ~Closing'
  PROVE  AnswerTells'
<1>1. UNCHANGED <<ui, outcome, plan>> /\ ~Closing
  BY WorkerKeeps DEF Closing
<1>2. ~cancelled /\ unread = <<>> /\ worker \notin {"cancelled check", "cancelled command"}
  BY <1>1, NotCancelled
<1>3. ASSUME worker' \notin {"check", "command"} PROVE AnswerTells'
  BY <1>3 DEF AnswerTells
<1>4. CASE Begin
  <2>1. worker = "loop" /\ UNCHANGED <<toClient, index>>
    BY <1>4 DEF Begin
  <2>2. CASE index > Len(plan) \/ cancelled
    BY <1>3, <1>4, <2>2 DEF Begin
  <2>3. CASE ~(index > Len(plan) \/ cancelled)
    <3>1. Working
      BY <1>1, <2>1 DEF Together, Resting, Closing, Working, Quiet, Typed, TypeOK
    <3>2. index \in DOMAIN plan
      <4>1. index \in Nat /\ index # 0 /\ plan \in Seq(Step)
        BY DEF Typed, TypeOK, PlanTyped
      <4> QED
        BY <2>3, <4>1
    <3>3. outcome[index] = "nothing"
      BY <2>1, <3>1, <3>2 DEF Untouched
    <3>4. Answers(toClient)' = {}
      BY <1>1, <2>1 DEF OneRequest, Asks, Nothing, Answers
    <3> QED
      BY <1>1, <2>1, <3>3, <3>4 DEF AnswerTells, Open
  <2> QED
    BY <2>2, <2>3
<1>5. CASE Read
  <2>1. worker \in {"check", "command"} /\ toClient' = <<>> /\ unread \o toClient = toClient
    BY <1>2, <1>5, ReadIs DEF Read, Waiting
  <2>2. CASE Answers(toClient) = {}
    <3>1. UNCHANGED <<worker, index>>
      BY <1>5, <2>1, <2>2 DEF Read
    <3>2. Answers(toClient)' = {}
      BY <2>1, NoAnswers
    <3>3. outcome[index] \in Open
      BY <1>1, <2>1, <2>2 DEF AnswerTells
    <3> QED
      BY <1>1, <3>1, <3>2, <3>3 DEF AnswerTells
  <2>3. CASE Answers(toClient) # {}
    <3>1. Return(CodeIn(First(toClient)))
      BY <1>5, <2>1, <2>3 DEF Read
    <3> QED
      BY <1>1, <2>1, <2>3, <3>1, AnswerSays, ReturnTells
  <2> QED
    BY <2>2, <2>3
<1>6. CASE Disconnected
  <2>1. worker \in {"check", "command"} /\ Return(Lost) /\ toClient = <<>> /\ UNCHANGED toClient
    BY <1>6 DEF Disconnected, Waiting
  <2>2. outcome[index] \in Open
    BY <1>1, <2>1, NoAnswers DEF AnswerTells
  <2> QED
    BY <1>1, <2>1, <2>2, LostSays, ReturnTells
<1>7. CASE SendCancel \/ Cancelled
  BY <1>2, <1>7 DEF SendCancel, Cancelled
<1>8. CASE Connect \/ Shutdown \/ Disconnect
  BY <1>3, <1>8 DEF Connect, Shutdown, Disconnect
<1> QED
  BY <1>4, <1>5, <1>6, <1>7, <1>8 DEF WorkerSteps

(* The helper's steps are about the request the worker waits for. *)
LEMMA TakesCurrent ==
  ASSUME Typed, OneRequest, ~Closing, HelperExecutes
  PROVE  Head(toHelper) = Current /\ worker \in Asks /\ Answers(toClient) = {}
<1>1. helper = "idle" /\ toHelper # <<>> /\ Head(toHelper).type = "execute"
  BY DEF HelperExecutes
<1>2. 1 \in DOMAIN toHelper /\ Head(toHelper) = toHelper[1]
  BY <1>1, FirstIs DEF Typed, SentTyped
<1>3. Active /\ 1 \in Executes
  BY <1>1, <1>2 DEF Active, Executes
<1> QED
  BY <1>2, <1>3 DEF OneRequest, Nothing

LEMMA HelperTells ==
  ASSUME Typed, Together, OneRequest, AnswerTells,
         HelperSteps \/ (\E code \in Codes : CommandEnds(code)) \/ HelperCrash, ~Closing'
  PROVE  AnswerTells'
<1>1. UNCHANGED <<ui, worker, index, plan>> /\ ~Closing
  BY HelperKeeps DEF Closing
<1> SUFFICES ASSUME worker \in {"check", "command"} PROVE AnswerTells'
  BY <1>1 DEF AnswerTells
<1>2. index \in DOMAIN outcome /\ index \in DOMAIN plan
  BY DEF Typed, PlanTyped, InStep
<1>3. ASSUME NEW m, Send(m), m.type \in Ends, Answers(toClient) = {},
             IF m.type = "finished" THEN outcome'[index] = OutcomeOf(worker, m.code)
             ELSE outcome'[index] \in Open
      PROVE  AnswerTells'
  <2>1. \A n \in Answers(toClient') : toClient'[n] = m
    BY <1>3, Sent
  <2>2. connected
    BY DEF Together, Talking
  <2>3. toClient' = Append(toClient, m)
    BY <1>3, <2>2 DEF Send
  <2>4. Answers(toClient') # {}
    <3>1. Len(toClient) + 1 \in DOMAIN toClient' /\ toClient'[Len(toClient) + 1] = m
      BY <2>3, Added DEF Typed, AnswersTyped
    <3> QED
      BY <1>3, <3>1 DEF Answers
  <2>5. \A kind, code : OutcomeOf(kind, code)' = OutcomeOf(kind, code)
    BY <1>1 DEF OutcomeOf
  <2> QED
    BY <1>1, <1>3, <2>1, <2>4, <2>5 DEF AnswerTells
<1>4. ASSUME NEW m, Send(m), m.type \notin Ends, outcome'[index] = outcome[index]
      PROVE  AnswerTells'
  <2>1. /\ \A n \in Answers(toClient') : n \in Answers(toClient) /\ toClient'[n] = toClient[n]
        /\ \A n \in Answers(toClient) : n \in Answers(toClient')
    BY <1>4, Sent
  <2>5. \A kind, code : OutcomeOf(kind, code)' = OutcomeOf(kind, code)
    BY <1>1 DEF OutcomeOf
  <2> QED
    BY <1>1, <1>4, <2>1, <2>5 DEF AnswerTells
<1>5. CASE HelperShutsDown
  <2>1. Send([type |-> "shutdown_ack"]) /\ [type |-> "shutdown_ack"].type \notin Ends /\ UNCHANGED outcome
    BY <1>5 DEF HelperShutsDown, Ends, history
  <2> QED
    BY <1>4, <2>1
<1>6. CASE HelperIsCancelled
  <2>1. toHelper # <<>> /\ Head(toHelper).type = "cancel"
    BY <1>6 DEF HelperIsCancelled
  <2>2. 1 \in DOMAIN toHelper /\ Head(toHelper) = toHelper[1]
    BY <2>1, FirstIs DEF Typed, SentTyped
  <2> QED
    BY <1>1, <2>1, <2>2 DEF OneRequest
<1>7. CASE HelperExecutes
  <2> DEFINE message == Head(toHelper)
  <2>1. message = Current /\ Answers(toClient) = {}
    BY <1>1, <1>7, TakesCurrent
  <2>2. message.kind = worker /\ message.step = index
    BY <2>1 DEF Current, Execute
  <2>3. outcome[index] \in Open
    BY <1>1, <2>1 DEF AnswerTells
  <2>4. CASE Permitted(message)
    <3> DEFINE m == [type |-> "started"]
    <3>1. Send(m) /\ outcome' = IF message.kind = "command" THEN [outcome EXCEPT ![message.step] = "begun"] ELSE outcome
      BY <1>7, <2>4 DEF HelperExecutes
    <3>2. m.type \notin Ends
      BY DEF Ends
    <3> HIDE DEF m
    <3>3. Answers(toClient') = {}
      BY <2>1, <3>1, <3>2, Sent
    <3>4. outcome'[index] \in Open
      <4>1. CASE message.kind = "command"
        BY <1>2, <2>2, <3>1, <4>1 DEF Open
      <4>2. CASE message.kind # "command"
        BY <2>3, <3>1, <4>2
      <4> QED
        BY <4>1, <4>2
    <3> QED
      BY <1>1, <3>3, <3>4 DEF AnswerTells
  <2>5. CASE ~Permitted(message)
    <3>1. Send([type |-> "rejected"]) /\ UNCHANGED outcome
      BY <1>7, <2>5 DEF HelperExecutes, history
    <3>2. [type |-> "rejected"].type \in Ends /\ [type |-> "rejected"].type # "finished"
      BY DEF Ends
    <3> QED
      BY <1>3, <2>1, <2>3, <3>1, <3>2
  <2> QED
    BY <2>4, <2>5
<1>8. ASSUME NEW code \in Codes, CommandEnds(code)
      PROVE  AnswerTells'
  <2>1. helper = "busy" /\ Send(Finished(code))
    BY <1>8 DEF CommandEnds
  <2>2. request = Current /\ Answers(toClient) = {}
    BY <1>1, <2>1 DEF OneRequest
  <2>3. request.kind = worker /\ request.step = index
    BY <2>2 DEF Current, Execute
  <2>4. outcome' = [outcome EXCEPT ![index] = Ended(code)]
    BY <1>8, <2>3 DEF CommandEnds
  <2>5. outcome'[index] = Ended(code)
    BY <1>2, <2>4
  <2>6. Ended(code) = OutcomeOf(worker, code)
    BY <2>3 DEF Ended, OutcomeOf
  <2>7. Finished(code).type = "finished" /\ Finished(code).code = code /\ "finished" \in Ends
    BY DEF Finished, Ends
  <2> QED
    BY <1>3, <2>1, <2>2, <2>5, <2>6, <2>7
<1>9. CASE HelperSeesEnd \/ HelperAccepts \/ HelperQuits \/ HelperCrash
  <2>1. UNCHANGED <<toClient, outcome>>
    BY <1>9 DEF HelperSeesEnd, HelperAccepts, HelperQuits, HelperCrash, history
  <2> QED
    BY <1>1, <2>1, SameTells DEF Closing
<1> QED
  BY <1>5, <1>6, <1>7, <1>8, <1>9 DEF HelperSteps

LEMMA TellsStep ==
  Typed /\ Together /\ OneRequest /\ Untouched /\ AnswerTells /\ NextApart => AnswerTells'
<1> SUFFICES ASSUME Typed, Together, OneRequest, Untouched, AnswerTells, NextApart, ~Closing'
             PROVE  AnswerTells'
  BY DEF AnswerTells
<1>1. CASE UNCHANGED vars
  <2>1. UNCHANGED <<ui, toClient, worker, index, plan, outcome>>
    BY <1>1, StillKeeps
  <2> QED
    BY <2>1, SameTells DEF Closing
<1> QED
  BY <1>1, UserTells, MainLoopTells, WorkerTells, HelperTells DEF NextApart

-----------------------------------------------------------------------------
(* Steps that nothing was done for *)

LEMMA UntouchedStep ==
  Typed /\ Together /\ OneRequest /\ Untouched /\ NextApart => Untouched'
<1> SUFFICES ASSUME Typed, Together, OneRequest, Untouched, NextApart, Working'
             PROVE  Untouched'
  BY DEF Untouched
<1>n. index \in Nat /\ DOMAIN plan \subseteq Nat
  <2>1. plan \in Seq(Step)
    BY DEF Typed, PlanTyped
  <2>2. DOMAIN plan \subseteq Nat
    BY <2>1
  <2> QED
    BY <2>2 DEF Typed, TypeOK
<1>1. ASSUME UNCHANGED <<index, worker, plan, outcome>>, Working PROVE Untouched'
  BY <1>1 DEF Untouched
<1>2. ASSUME UNCHANGED <<plan, outcome>>, Working,
             \/ index' = index /\ (worker' \notin {"connect", "loop"} \/ worker = "connect")
             \/ index' = index + 1
      PROVE  Untouched'
  <2>1. SUFFICES ASSUME NEW n \in DOMAIN plan, n > index' \/ (n = index' /\ worker' \in {"connect", "loop"})
                 PROVE  outcome[n] = "nothing"
    BY <1>2 DEF Untouched
  <2>2. n > index \/ (n = index /\ worker \in {"connect", "loop"})
    BY <1>2, <1>n, <2>1
  <2> QED
    BY <1>2, <2>2 DEF Untouched
<1>3. CASE Acts
  <2>1. ASSUME NEW steps, StartWorker(steps) PROVE Untouched'
    BY <2>1 DEF StartWorker, Untouched
  <2>2. CASE Back
    BY <1>1, <2>2 DEF Back, Working, Idle, loop, history
  <2>3. CASE ~Back /\ ~(\E steps : StartWorker(steps))
    BY <1>3, <2>3 DEF Acts, Click, StartUpdate, Skip, StartFlatpakUpdate, NoFlatpakUpdate, Reboot, Continue,
                      Install, GoToDone, CloseWindow, Working, FinishUpdate
  <2> QED
    BY <2>1, <2>2, <2>3
<1>4. CASE Hears
  <2>1. CASE HandleNotices \/ Closed
    BY <1>1, <2>1 DEF HandleNotices, Closed, Idle, loop, history, Working
  <2>2. CASE Deliver
    BY <1>1, <2>2 DEF Deliver, loop, history, Working
  <2>3. CASE RebootConnect
    BY <2>3 DEF RebootConnect, Ours, page, Together, Working
  <2>4. CASE Rebooted
    BY <2>4 DEF Rebooted, Together, Working
  <2> QED
    BY <1>4, <2>1, <2>2, <2>3, <2>4 DEF Hears, Handled
<1>5. CASE WorkerSteps \/ SendCancel
  <2>1. UNCHANGED <<plan, outcome>> /\ Working /\ ~Closing
    BY <1>5, WorkerKeeps DEF Working, Closing
  <2>2. ASSUME NEW code, Return(code), worker \in {"check", "command"} PROVE Untouched'
    <3>1. \/ UNCHANGED index /\ worker' = "command"
          \/ index' = index + 1
      BY <2>2 DEF Return
    <3> QED
      BY <1>2, <2>1, <3>1
  <2>3. CASE Connect \/ Shutdown \/ Disconnect
    <3>1. UNCHANGED index /\ (worker = "connect" \/ worker' \in {"disconnect", "ended"})
      BY <2>3 DEF Connect, Shutdown, Disconnect, loop
    <3> QED
      BY <1>2, <2>1, <3>1
  <2>4. CASE Begin
    <3>1. UNCHANGED index /\ worker' \in {"shutdown", "check", "command"}
      BY <2>4 DEF Begin
    <3> QED
      BY <1>2, <2>1, <3>1
  <2>5. CASE Read
    <3>1. worker \in {"check", "command"} /\ (UNCHANGED <<worker, index>> \/ \E code : Return(code))
      BY <2>5 DEF Read, Waiting
    <3> QED
      BY <1>1, <2>1, <2>2, <3>1
  <2>6. CASE Disconnected
    BY <2>2, <2>6 DEF Disconnected, Waiting
  <2>7. CASE SendCancel \/ Cancelled
    BY <2>1, <2>7, NotCancelled DEF SendCancel, Cancelled
  <2> QED
    BY <1>5, <2>3, <2>4, <2>5, <2>6, <2>7 DEF WorkerSteps
<1>6. CASE HelperSteps \/ (\E code \in Codes : CommandEnds(code)) \/ HelperCrash
  <2>1. UNCHANGED <<ui, index, worker, plan>> /\ ~Closing /\ Working
    BY <1>6, HelperKeeps DEF Closing, Working
  <2>2. ASSUME \A n \in DOMAIN outcome : n # index => outcome'[n] = outcome[n],
               worker \notin {"connect", "loop"}
        PROVE  Untouched'
    <3>1. DOMAIN outcome = DOMAIN plan
      BY DEF Typed, PlanTyped
    <3>2. \A n \in DOMAIN plan : n > index => n # index
      BY <1>n
    <3> QED
      BY <2>1, <2>2, <3>1, <3>2 DEF Untouched
  <2>3. CASE HelperExecutes
    <3>1. Head(toHelper) = Current /\ worker \in Asks
      BY <2>1, <2>3, TakesCurrent
    <3>2. worker # "rebooting"
      BY <2>1 DEF Together, Working
    <3>3. Head(toHelper).step = index
      BY <3>1, <3>2 DEF Current, Execute
    <3>4. \/ UNCHANGED outcome
          \/ outcome' = [outcome EXCEPT ![index] = "begun"]
      BY <2>3, <3>3 DEF HelperExecutes, history
    <3>5. \A n \in DOMAIN outcome : n # index => outcome'[n] = outcome[n]
      BY <3>4
    <3> QED
      BY <2>2, <3>1, <3>5 DEF Asks
  <2>4. ASSUME NEW code \in Codes, CommandEnds(code) PROVE Untouched'
    <3>1. request = Current /\ worker \in Asks
      BY <2>1, <2>4 DEF CommandEnds, OneRequest, Nothing
    <3>2. worker # "rebooting"
      BY <2>1 DEF Together, Working
    <3>3. request.step = index
      BY <3>1, <3>2 DEF Current, Execute
    <3>4. \/ UNCHANGED outcome
          \/ outcome' = [outcome EXCEPT ![index] = Ended(code)]
      BY <2>4, <3>3 DEF CommandEnds
    <3>5. \A n \in DOMAIN outcome : n # index => outcome'[n] = outcome[n]
      BY <3>4
    <3> QED
      BY <2>2, <3>1, <3>5 DEF Asks
  <2>5. CASE HelperShutsDown \/ HelperIsCancelled \/ HelperSeesEnd \/ HelperAccepts \/ HelperQuits \/ HelperCrash
    <3>1. UNCHANGED outcome
      BY <2>5 DEF HelperShutsDown, HelperIsCancelled, HelperSeesEnd, HelperAccepts, HelperQuits, HelperCrash,
                  history
    <3> QED
      BY <1>1, <2>1, <3>1
  <2> QED
    BY <1>6, <2>3, <2>4, <2>5 DEF HelperSteps
<1>7. CASE UNCHANGED vars
  <2>1. UNCHANGED <<ui, index, worker, plan, outcome>>
    BY <1>7, StillKeeps
  <2> QED
    BY <1>1, <2>1 DEF Working
<1> QED
  BY <1>3, <1>4, <1>5, <1>6, <1>7 DEF NextApart

-----------------------------------------------------------------------------
(* Steps that are over *)

LEMMA OverFrame ==
  ASSUME NEW n, Over(n), n < index',
         Active' => \A m \in Executes' : \/ toHelper'[m].step # n
                                         \/ Active /\ \E j \in Executes : toHelper'[m] = toHelper[j],
         helper' = "busy" => request'.step # n \/ (helper = "busy" /\ request' = request)
  PROVE  Over(n)'
BY DEF Over

(* Requests and answers alone decide, when neither is added. *)
LEMMA OverStill ==
  ASSUME NEW n, Over(n), UNCHANGED <<index, toHelper, request, helper>>
  PROVE  Over(n)'
<1>1. Executes' = Executes /\ Active' = Active
  BY DEF Executes, Active
<1>2. n < index'
  BY DEF Over
<1> QED
  BY <1>1, <1>2, OverFrame

LEMMA OverWithout ==
  ASSUME NEW n, Over(n), UNCHANGED <<index, request>>, toHelper' = <<>>,
         UNCHANGED helper \/ helper' = "listening"
  PROVE  Over(n)'
<1>1. Executes' = {}
  BY NothingAsked
<1>2. n < index'
  BY DEF Over
<1> QED
  BY <1>1, <1>2, OverFrame

(* A worker is started.  Back leaves one alone that was started just before.  *)
Starts == Acts /\ ~Back /\ \E steps : StartWorker(steps)
NoStart == ~Starts

Kept(n) == plan' = plan /\ outcome'[n] = outcome[n] /\ Over(n)'

LEMMA UserKeeps ==
  ASSUME Acts, NoStart, NEW n, Over(n)
  PROVE  Kept(n)
<1>1. CASE CloseWindow
  <2>1. UNCHANGED <<index, toHelper, request, helper, plan, outcome>>
    BY <1>1 DEF CloseWindow, loop, history
  <2>2. Over(n)'
    BY <2>1, OverStill
  <2> QED
    BY <2>1, <2>2 DEF Kept
<1>2. CASE StartUpdate \/ StartFlatpakUpdate \/ Install \/ Reboot
  <2>0. ~Back => ~(\E steps : StartWorker(steps))
    BY DEF NoStart, Starts
  <2>1. UNCHANGED <<index, request, plan, outcome>>
        /\ \/ UNCHANGED <<toHelper, helper>>
           \/ toHelper' = <<>> /\ (UNCHANGED helper \/ helper' = "listening")
    BY <1>2, <2>0 DEF StartUpdate, StartFlatpakUpdate, Install, Reboot, Back, Idle, loop, history, socket, Launched,
                NotLaunched
  <2>2. Over(n)'
    BY <2>1, OverStill, OverWithout
  <2> QED
    BY <2>1, <2>2 DEF Kept
<1>3. CASE Skip \/ NoFlatpakUpdate \/ Continue \/ GoToDone \/ Back
  <2>1. UNCHANGED <<index, toHelper, request, helper, plan, outcome>>
    BY <1>3 DEF Skip, NoFlatpakUpdate, Continue, GoToDone, Back, Idle, loop, history, socket
  <2>2. Over(n)'
    BY <2>1, OverStill
  <2> QED
    BY <2>1, <2>2 DEF Kept
<1> QED
  BY <1>1, <1>2, <1>3 DEF Acts, Click

LEMMA MainLoopKeeps ==
  ASSUME Typed, Hears, NEW n \in DOMAIN plan, Over(n)
  PROVE  Kept(n)
<1>1. CASE HandleNotices \/ Closed
  <2>1. UNCHANGED <<index, toHelper, request, helper, plan, outcome>>
    BY <1>1 DEF HandleNotices, Closed, Idle, loop, history, socket
  <2>2. Over(n)'
    BY <2>1, OverStill
  <2> QED
    BY <2>1, <2>2 DEF Kept
<1>2. CASE Deliver \/ Rebooted
  <2>1. UNCHANGED <<index, toHelper, request, helper, plan, outcome>>
    BY <1>2 DEF Deliver, Rebooted, loop, history, socket
  <2>2. Over(n)'
    BY <2>1, OverStill
  <2> QED
    BY <2>1, <2>2 DEF Kept
<1>3. CASE RebootConnect
  <2>1. /\ UNCHANGED <<index, request, helper, plan, outcome>> /\ helper = "listening"
        /\ toHelper' = <<Execute(0, "reboot")>>
    BY <1>3 DEF RebootConnect, Ours, loop, page, history
  <2>2. n # 0
    BY StepTyped
  <2>3. \A m \in DOMAIN toHelper' : toHelper'[m].step = 0
    BY <2>1 DEF Execute
  <2>4. \A m \in Executes' : toHelper'[m].step # n
    BY <2>2, <2>3 DEF Executes
  <2>5. n < index'
    BY <2>1 DEF Over
  <2> QED
    BY <2>1, <2>4, <2>5, OverFrame DEF Kept
<1> QED
  BY <1>1, <1>2, <1>3 DEF Hears, Handled

LEMMA WorkerOver ==
  ASSUME Typed, WorkerSteps \/ SendCancel, NEW n \in DOMAIN plan, Over(n)
  PROVE  Kept(n)
<1>1. UNCHANGED <<helper, request, plan, outcome>>
  BY WorkerKeeps
<1>n. n \in Nat /\ index \in Nat /\ n < index /\ n # index /\ n < index + 1
  <2>1. n \in Nat /\ index \in Nat /\ n < index
    BY StepTyped DEF Over, Typed, TypeOK
  <2> QED
    BY <2>1
<1>a. Active' = Active
  BY <1>1 DEF Active
<1>2. ASSUME UNCHANGED toHelper, n < index' PROVE Kept(n)
  <2>1. Executes' = Executes
    BY <1>2 DEF Executes
  <2>2. Active' => \A m \in Executes' : Active /\ \E j \in Executes : toHelper'[m] = toHelper[j]
    BY <1>2, <1>a, <2>1
  <2>3. helper' = "busy" => helper = "busy" /\ request' = request
    BY <1>1
  <2>4. Over(n)'
    BY <1>2, <2>2, <2>3, OverFrame
  <2> QED
    BY <1>1, <2>4 DEF Kept
<1>3. ASSUME NEW m \in Request, toHelper' = Append(toHelper, m), n < index',
             m.type = "execute" => m.step = index
      PROVE  Kept(n)
  <2>1. \A j \in Executes' : \/ j \in Executes /\ toHelper'[j] = toHelper[j]
                             \/ m.type = "execute" /\ toHelper'[j] = m
    BY <1>3, Asked
  <2>2. Active' => \A j \in Executes' : \/ toHelper'[j].step # n
                                        \/ Active /\ \E i \in Executes : toHelper'[j] = toHelper[i]
    BY <1>3, <1>n, <1>a, <2>1
  <2>3. helper' = "busy" => helper = "busy" /\ request' = request
    BY <1>1
  <2>4. Over(n)'
    BY <1>3, <2>2, <2>3, OverFrame
  <2> QED
    BY <1>1, <2>4 DEF Kept
<1>4. ASSUME NEW kind \in {"check", "command"}, toHelper' = Append(toHelper, Execute(index, kind)), UNCHANGED index
      PROVE  Kept(n)
  <2>1. Execute(index, kind) \in Request /\ Execute(index, kind).step = index
    BY ExecuteTyped DEF Request, Execute, Typed, TypeOK
  <2> QED
    BY <1>3, <1>4, <1>n, <2>1
<1>5. ASSUME NEW code, Return(code), worker \in {"check", "command"}
      PROVE  Kept(n)
  <2>1. \/ UNCHANGED index /\ toHelper' = Append(toHelper, Execute(index, "command"))
        \/ index' = index + 1 /\ UNCHANGED toHelper
    BY <1>5 DEF Return
  <2> QED
    BY <1>2, <1>4, <1>n, <2>1
<1>6. CASE Connect \/ Disconnect
  <2>1. UNCHANGED <<toHelper, index>>
    BY <1>6 DEF Connect, Disconnect, loop
  <2> QED
    BY <1>2, <1>n, <2>1
<1>7. CASE Begin
  <2>1. CASE index > Len(plan) \/ cancelled
    BY <1>2, <1>7, <1>n, <2>1 DEF Begin
  <2>2. CASE ~(index > Len(plan) \/ cancelled)
    BY <1>4, <1>7, <2>2 DEF Begin
  <2> QED
    BY <2>1, <2>2
<1>8. CASE Read
  <2>1. worker \in {"check", "command"} /\ (UNCHANGED <<toHelper, index>> \/ \E code : Return(code))
    BY <1>8 DEF Read, Waiting
  <2> QED
    BY <1>2, <1>5, <1>n, <2>1
<1>9. CASE Disconnected
  BY <1>5, <1>9 DEF Disconnected, Waiting
<1>10. CASE SendCancel \/ Shutdown
  <2>1. UNCHANGED index /\ \/ toHelper' = Append(toHelper, [type |-> "cancel"])
                           \/ toHelper' = Append(toHelper, [type |-> "shutdown"])
    BY <1>10 DEF SendCancel, Shutdown, loop
  <2>2. [type |-> "cancel"] \in Request /\ [type |-> "shutdown"] \in Request
    BY DEF Request
  <2> QED
    BY <1>3, <1>n, <2>1, <2>2
<1>11. CASE Cancelled
  <2>1. \/ UNCHANGED index /\ toHelper' = Append(toHelper, Execute(index, "command"))
        \/ index' = index + 1 /\ UNCHANGED toHelper
    BY <1>11 DEF Cancelled
  <2> QED
    BY <1>2, <1>4, <1>n, <2>1
<1> QED
  BY <1>6, <1>7, <1>8, <1>9, <1>10, <1>11 DEF WorkerSteps

LEMMA HelperOver ==
  ASSUME Typed, HelperSteps \/ (\E code \in Codes : CommandEnds(code)) \/ HelperCrash,
         NEW n \in DOMAIN plan, Over(n)
  PROVE  Kept(n)
<1>1. UNCHANGED <<index, plan>> /\ n < index /\ DOMAIN outcome = DOMAIN plan
  BY HelperKeeps DEF Over, Typed, PlanTyped
<1>2. CASE HelperShutsDown \/ HelperIsCancelled
  <2>1. helper = "idle" /\ toHelper # <<>> /\ toHelper' = Tail(toHelper) /\ UNCHANGED <<request, outcome>>
        /\ helper' # "busy"
    BY <1>2 DEF HelperShutsDown, HelperIsCancelled, history
  <2>2. \A m \in Executes' : m + 1 \in Executes /\ toHelper'[m] = toHelper[m + 1]
    BY <2>1, TakenUp
  <2>3. Active
    BY <2>1 DEF Active
  <2> QED
    BY <1>1, <2>1, <2>2, <2>3, OverFrame DEF Kept
<1>3. CASE HelperExecutes
  <2> DEFINE message == Head(toHelper)
  <2>1. helper = "idle" /\ toHelper # <<>> /\ message.type = "execute" /\ toHelper' = Tail(toHelper)
    BY <1>3 DEF HelperExecutes
  <2>2. /\ 1 \in DOMAIN toHelper /\ message = toHelper[1]
        /\ \A m \in Executes' : m + 1 \in Executes /\ toHelper'[m] = toHelper[m + 1]
    BY <2>1, TakenUp
  <2>3. Active /\ 1 \in Executes
    BY <2>1, <2>2 DEF Active, Executes
  <2>4. message.step # n
    BY <2>2, <2>3 DEF Over
  <2>5. \/ UNCHANGED <<helper, outcome>>
        \/ request' = message /\ UNCHANGED outcome
        \/ request' = message /\ outcome' = [outcome EXCEPT ![message.step] = "begun"]
    BY <1>3 DEF HelperExecutes, history
  <2>6. outcome'[n] = outcome[n] /\ (helper' = "busy" => request'.step # n)
    BY <1>1, <2>1, <2>4, <2>5
  <2>7. Over(n)'
    BY <1>1, <2>2, <2>3, <2>6, OverFrame
  <2> QED
    BY <1>1, <2>6, <2>7 DEF Kept
<1>4. ASSUME NEW code \in Codes, CommandEnds(code) PROVE Kept(n)
  <2>1. helper = "busy" /\ helper' = "idle" /\ UNCHANGED toHelper
    BY <1>4 DEF CommandEnds
  <2>2. request.step # n
    BY <2>1 DEF Over
  <2>3. \/ UNCHANGED outcome
        \/ outcome' = [outcome EXCEPT ![request.step] = Ended(code)]
    BY <1>4 DEF CommandEnds
  <2>4. outcome'[n] = outcome[n]
    BY <1>1, <2>2, <2>3
  <2>5. Executes' = Executes /\ Active
    BY <2>1 DEF Executes, Active
  <2>6. Over(n)'
    BY <1>1, <2>1, <2>5, OverFrame
  <2> QED
    BY <1>1, <2>4, <2>6 DEF Kept
<1>5. CASE HelperSeesEnd \/ HelperAccepts \/ HelperQuits \/ HelperCrash
  <2>1. UNCHANGED <<toHelper, outcome>> /\ helper' # "busy" /\ (Active' => Active)
    BY <1>5 DEF HelperSeesEnd, HelperAccepts, HelperQuits, HelperCrash, history, Active
  <2>2. Executes' = Executes
    BY <2>1 DEF Executes
  <2>3. Over(n)'
    BY <1>1, <2>1, <2>2, OverFrame
  <2> QED
    BY <1>1, <2>1, <2>3 DEF Kept
<1> QED
  BY <1>2, <1>3, <1>4, <1>5 DEF HelperSteps

(* Nothing changes any more what became of a step that is over.              *)
LEMMA OverKept ==
  ASSUME Typed, NextApart, NoStart, NEW n \in DOMAIN plan, Over(n)
  PROVE  Kept(n)
<1>1. CASE UNCHANGED vars
  <2>1. UNCHANGED <<index, toHelper, request, helper, plan, outcome>>
    BY <1>1, StillKeeps
  <2>2. Over(n)'
    BY <2>1, OverStill
  <2> QED
    BY <2>1, <2>2 DEF Kept
<1> QED
  BY <1>1, UserKeeps, MainLoopKeeps, WorkerOver, HelperOver DEF NextApart

LEMMA PlanKept ==
  ASSUME NextApart, NoStart
  PROVE  UNCHANGED plan
<1>1. CASE Acts
  BY <1>1 DEF NoStart, Starts, Acts, Click, StartUpdate, Skip, StartFlatpakUpdate, NoFlatpakUpdate, Reboot, Continue,
              Install, GoToDone, Back, CloseWindow, Idle, loop
<1>2. CASE Hears
  BY <1>2 DEF Hears, Handled, HandleNotices, Deliver, Closed, RebootConnect, Rebooted, Idle, loop
<1>3. CASE WorkerSteps \/ SendCancel
  BY <1>3, WorkerKeeps
<1>4. CASE HelperSteps \/ (\E code \in Codes : CommandEnds(code)) \/ HelperCrash
  BY <1>4, HelperKeeps
<1> QED
  BY <1>1, <1>2, <1>3, <1>4, StillKeeps DEF NextApart

-----------------------------------------------------------------------------
(* What is shown *)

LEMMA TrueKept ==
  ASSUME Typed, NextApart, NoStart, NEW n, NEW mark, IsTrue(n, mark)
  PROVE  IsTrue(n, mark)'
<1>1. n \in DOMAIN plan /\ UNCHANGED plan
  BY PlanKept DEF IsTrue
<1>2. CASE mark \in {"OK", "--", "!!"}
  <2>1. Over(n)
    BY <1>2 DEF IsTrue
  <2>2. outcome'[n] = outcome[n] /\ Over(n)'
    BY <1>1, <2>1, OverKept DEF Kept
  <2> QED
    BY <1>1, <2>2 DEF IsTrue
<1>3. CASE mark \notin {"OK", "--", "!!"}
  BY <1>1, <1>3 DEF IsTrue
<1> QED
  BY <1>2, <1>3

LEMMA ThereKept ==
  ASSUME Typed, NextApart, NoStart, NEW n \in DOMAIN plan, There(n)
  PROVE  There(n)'
<1>1. UNCHANGED plan
  BY PlanKept
<1>2. CASE plan[n].optional
  BY <1>1, <1>2 DEF There
<1>3. CASE outcome[n] \in {"done", "found"} /\ Over(n)
  <2>1. outcome'[n] = outcome[n] /\ Over(n)'
    BY <1>3, OverKept DEF Kept
  <2> QED
    BY <1>3, <2>1 DEF There
<1> QED
  BY <1>2, <1>3 DEF There

(* A new worker: nothing has happened and nothing is shown. *)
LEMMA UserStarts ==
  ASSUME Typed, Together, Acts, ~Back, NEW steps, StartWorker(steps)
  PROVE  /\ events' = <<>> /\ ui' \notin LastPage
         /\ chips' = <<>> \/ chips' = [n \in DOMAIN steps |-> ".."]
<1>1. worker' = "connect" /\ plan' = steps /\ cancelled' = FALSE
  BY DEF StartWorker
<1>s. \A more : StartWorker(more) => more = steps
  BY <1>1 DEF StartWorker
<1>2. CASE StartUpdate \/ StartFlatpakUpdate
  <2>1. ui \in {"offer", "flatpak?"} /\ UNCHANGED chips
    BY <1>2 DEF StartUpdate, StartFlatpakUpdate
  <2>2. worker \in Quiet /\ chips = <<>>
    BY <2>1 DEF Together, Resting, Early
  <2>3. events' = <<>> /\ ui' \in {"updating", "flatpak"}
    BY <1>1, <1>2, <2>2 DEF StartUpdate, StartFlatpakUpdate, Idle, Quiet
  <2> QED
    BY <2>1, <2>2, <2>3 DEF LastPage
<1>3. CASE Install
  <2>1. worker \in Quiet
    BY <1>3 DEF Install
  <2>2. /\ ui' = "install" /\ UNCHANGED events
        /\ \E more \in Plans : StartWorker(more) /\ chips' = [n \in DOMAIN more |-> ".."]
    BY <1>1, <1>3, <2>1 DEF Install, Idle, Quiet
  <2>3. events = <<>>
    BY <1>3 DEF Acts, Alone, Install, Enter
  <2> QED
    BY <1>s, <2>2, <2>3 DEF LastPage
<1>4. CASE Reboot \/ GoToDone \/ Skip \/ NoFlatpakUpdate \/ Continue
  <2>1. worker' = "reboot" \/ UNCHANGED worker
    BY <1>4 DEF Reboot, GoToDone, Skip, NoFlatpakUpdate, Continue, Idle
  <2>2. worker \in Quiet
    BY <1>4 DEF Reboot, GoToDone, Skip, NoFlatpakUpdate, Continue, Together, Resting
  <2> QED
    BY <1>1, <2>1, <2>2 DEF Quiet
<1>5. CASE CloseWindow
  BY <1>1, <1>5 DEF CloseWindow
<1> QED
  BY <1>2, <1>3, <1>4, <1>5 DEF Acts, Click

LEMMA StartShown ==
  ASSUME Typed, Together, Starts
  PROVE  ShownInv'
<1>0. PICK steps : StartWorker(steps)
  BY DEF Starts
<1>1. plan' = steps /\ worker' = "connect" /\ index' = 1
  BY <1>0 DEF StartWorker
<1>u. events' = <<>> /\ ui' \notin LastPage /\ (chips' = <<>> \/ chips' = [n \in DOMAIN steps |-> ".."])
  BY <1>0, UserStarts DEF Starts
<1>2. DOMAIN chips' = {} \/ chips' = [n \in DOMAIN plan' |-> ".."]
  BY <1>1, <1>u, Empty
<1>3. ChipsTrue'
  <2>1. \A n \in DOMAIN chips' : n \in DOMAIN plan' /\ chips'[n] = ".."
    BY <1>2
  <2> QED
    BY <2>1 DEF ChipsTrue, IsTrue
<1>4. EventsTrue'
  BY <1>u, Empty DEF EventsTrue
<1>5. ~Said'
  BY <1>u DEF Said
<1>6. \A n \in DOMAIN plan' : ~(n < index')
  <2>1. Typed'
    BY UserTyped DEF Starts
  <2>2. \A n \in DOMAIN plan' : n \in Nat /\ n >= 1
    BY <2>1 DEF Typed, PlanTyped
  <2> QED
    BY <1>1, <2>2
<1>7. CountTrue'
  BY <1>1, <1>5, <1>6 DEF CountTrue
<1> QED
  BY <1>3, <1>4, <1>7 DEF ShownInv

LEMMA WorkingKept ==
  ASSUME Together, NextApart, NoStart, Working'
  PROVE  Working
<1>1. CASE Acts
  BY <1>1 DEF NoStart, Starts, Acts, Click, StartUpdate, Skip, StartFlatpakUpdate, NoFlatpakUpdate, Reboot, Continue,
              Install, GoToDone, Back, CloseWindow, FinishUpdate, Working
<1>2. CASE HandleNotices \/ Closed \/ Deliver
  BY <1>2 DEF HandleNotices, Closed, Deliver, Working
<1>3. CASE RebootConnect \/ Rebooted
  BY <1>3 DEF RebootConnect, Rebooted, Ours, page, Working
<1>4. CASE WorkerSteps \/ SendCancel
  BY <1>4, WorkerKeeps DEF Working
<1>5. CASE HelperSteps \/ (\E code \in Codes : CommandEnds(code)) \/ HelperCrash
  BY <1>5, HelperKeeps DEF Working
<1>6. CASE UNCHANGED vars
  BY <1>6, StillKeeps DEF Working
<1> QED
  BY <1>1, <1>2, <1>3, <1>4, <1>5, <1>6 DEF NextApart, Hears, Handled

LEMMA HeardKept ==
  ASSUME Together, NextApart, NoStart, Heard', events # <<>>
  PROVE  Heard
<1>0. CASE Working'
  BY <1>0, WorkingKept DEF Heard
<1> SUFFICES ASSUME ui' = "installed" PROVE Heard
  BY <1>0 DEF Heard
<1>1. CASE Acts
  <2>1. ~Install
    BY <1>1 DEF Acts, Install, Enter, Alone
  <2> QED
    BY <1>1, <2>1 DEF Acts, Click, StartUpdate, Skip, StartFlatpakUpdate, NoFlatpakUpdate, Reboot, Continue,
                      GoToDone, Back, CloseWindow, FinishUpdate, Heard
<1>2. CASE HandleNotices \/ Closed \/ Deliver
  BY <1>2 DEF HandleNotices, Closed, Deliver, Heard, Working
<1>3. CASE RebootConnect \/ Rebooted
  BY <1>3 DEF RebootConnect, Rebooted, Ours, page, Heard
<1>4. CASE WorkerSteps \/ SendCancel
  BY <1>4, WorkerKeeps DEF Heard
<1>5. CASE HelperSteps \/ (\E code \in Codes : CommandEnds(code)) \/ HelperCrash
  BY <1>5, HelperKeeps DEF Heard
<1>6. CASE UNCHANGED vars
  BY <1>6, StillKeeps DEF Heard
<1> QED
  BY <1>1, <1>2, <1>3, <1>4, <1>5, <1>6 DEF NextApart, Hears, Handled

(* Only Deliver brings the user of a run that was started to what is said.   *)
LEMMA SaidKept ==
  ASSUME Together, NoStart,
         \/ Acts
         \/ (HandleNotices \/ Closed \/ RebootConnect \/ Rebooted) /\ UNCHANGED entry
         \/ WorkerSteps \/ SendCancel \/ HelperSteps \/ (\E code \in Codes : CommandEnds(code))
         \/ HelperCrash \/ UNCHANGED vars
  PROVE  Said' => Said
<1> SUFFICES ASSUME Said' PROVE Said
  OBVIOUS
<1>1. CASE Acts
  <2>1. ASSUME Install PROVE entry' # "alone"
    <3>1. ~Back
      BY <2>1 DEF Install, Back
    <3> QED
      BY <1>1, <2>1, <3>1 DEF NoStart, Starts, Install, Enter
  <2>2. Click /\ UNCHANGED entry
    BY <1>1, <2>1 DEF Acts, Said
  <2>3. UNCHANGED errorCount /\ (ui' \in LastPage => ui \in LastPage)
    BY <2>2 DEF Click, StartUpdate, Skip, StartFlatpakUpdate, NoFlatpakUpdate, Reboot, Continue,
                GoToDone, Back, CloseWindow, FinishUpdate, LastPage
  <2> QED
    BY <2>2, <2>3 DEF Said, SaysAllThere
<1>2. CASE (HandleNotices \/ Closed \/ RebootConnect \/ Rebooted) /\ UNCHANGED entry
  <2>1. UNCHANGED errorCount /\ (ui' \in LastPage => ui \in LastPage)
    <3>1. CASE Rebooted
      BY <3>1 DEF Rebooted, LastPage, Together
    <3> QED
      BY <1>2, <3>1 DEF HandleNotices, Closed, RebootConnect, Ours, page, LastPage
  <2> QED
    BY <1>2, <2>1 DEF Said, SaysAllThere
<1>3. CASE WorkerSteps \/ SendCancel
  BY <1>3, WorkerKeeps DEF Said, SaysAllThere
<1>4. CASE HelperSteps \/ (\E code \in Codes : CommandEnds(code)) \/ HelperCrash
  BY <1>4, HelperKeeps DEF Said, SaysAllThere
<1>5. CASE UNCHANGED vars
  BY <1>5, StillKeeps DEF Said, SaysAllThere
<1> QED
  BY <1>1, <1>2, <1>3, <1>4, <1>5

(* Step n ends in the worker's loop, or its check leads on to its command.   *)
StepEnds(n, mark) ==
  /\ events' = Append(events, Chip(n, mark)) /\ IsTrue(n, mark)'
  /\ index' = n + 1 /\ worker' = "loop" /\ (failed' = 0 => failed = 0 /\ There(n)')
GoesOn == UNCHANGED <<events, index, failed>> /\ worker' = "command"

LEMMA ReturnShows ==
  ASSUME Typed, worker \in {"check", "command"}, NEW code, Return(code), Says(code),
         Active => Executes = {}, helper # "busy", UNCHANGED <<helper, outcome, plan>>, NEW n, n = index
  PROVE  GoesOn \/ \E mark \in {"OK", "--", "!!"} : StepEnds(n, mark)
<1>1. n \in DOMAIN plan /\ n \in Nat /\ failed \in Nat
  BY DEF Typed, PlanTyped, TypeOK, InStep
<1>2. plan[n].optional \in BOOLEAN
  BY <1>1, StepTyped
<1>3. ASSUME index' = n + 1, UNCHANGED toHelper PROVE Over(n)'
  <2>1. Executes' = Executes /\ Active' = Active
    BY <1>3 DEF Executes, Active
  <2>2. n < index'
    BY <1>1, <1>3
  <2> QED
    BY <2>1, <2>2 DEF Over
<1>4. CASE worker = "check" /\ code = 0
  <2>1. worker' = "loop" /\ events' = Append(events, Chip(n, "--")) /\ index' = n + 1
        /\ UNCHANGED <<failed, toHelper>>
    BY <1>4 DEF Return
  <2>2. outcome[n] = "found"
    BY <1>4 DEF Says
  <2>3. IsTrue(n, "--")' /\ There(n)'
    BY <1>1, <1>3, <2>1, <2>2 DEF IsTrue, There
  <2>4. StepEnds(n, "--")
    BY <2>1, <2>3 DEF StepEnds
  <2> QED
    BY <2>4
<1>5. CASE worker = "check" /\ code # 0
  BY <1>5 DEF Return, GoesOn
<1>6. CASE worker = "command"
  <2> DEFINE ok == code \in plan[n].accepted \cup {0}
  <2>1. worker' = "loop" /\ index' = n + 1 /\ UNCHANGED toHelper
        /\ events' = Append(events, Chip(n, IF ok THEN "OK" ELSE "!!"))
        /\ failed' = failed + (IF ok \/ plan[n].optional THEN 0 ELSE 1)
    BY <1>6 DEF Return
  <2>2. IF ok THEN outcome[n] = "done" ELSE outcome[n] \in {"nothing", "begun", "failed"}
    BY <1>6 DEF Says
  <2> HIDE DEF ok
  <2>3. Over(n)'
    BY <1>3, <2>1
  <2>4. CASE ok
    <3>1. IsTrue(n, "OK")' /\ There(n)'
      BY <1>1, <2>2, <2>3, <2>4 DEF IsTrue, There
    <3>2. failed' = failed
      BY <1>1, <2>1, <2>4
    <3>3. StepEnds(n, "OK")
      BY <2>1, <2>4, <3>1, <3>2 DEF StepEnds
    <3> QED
      BY <3>3
  <2>5. CASE ~ok
    <3>1. IsTrue(n, "!!")'
      BY <1>1, <2>2, <2>3, <2>5 DEF IsTrue
    <3>2. failed' = 0 => failed = 0 /\ There(n)'
      <4>1. CASE plan[n].optional
        BY <1>1, <2>1, <4>1 DEF There
      <4>2. CASE ~plan[n].optional
        BY <1>1, <2>1, <2>5, <4>2
      <4> QED
        BY <4>1, <4>2
    <3>3. StepEnds(n, "!!")
      BY <2>1, <2>5, <3>1, <3>2 DEF StepEnds
    <3> QED
      BY <3>3
  <2> QED
    BY <2>4, <2>5
<1> QED
  BY <1>4, <1>5, <1>6

(* What the steps of the worker do, as long as the window is open. *)
WorkerShows(n) ==
  \/ UNCHANGED <<events, index, failed>> /\ (worker' = "shutdown" => index > Len(plan))
     /\ (worker' = "disconnect" => worker = "shutdown")
  \/ \E mark \in {"OK", "--", "!!"} : StepEnds(n, mark)
  \/ UNCHANGED <<index, failed>> /\ n \in DOMAIN plan /\ events' = Append(events, Chip(n, ">>"))
     /\ worker' \in {"check", "command"}
  \/ UNCHANGED <<index, failed>> /\ worker' = "ended"
     /\ \/ events' = Append(events, Done(1))
        \/ worker = "disconnect" /\ events' = Append(events, Done(failed))

LEMMA WorkerPosts ==
  ASSUME Typed, Together, OneRequest, AnswerTells, WorkerSteps \/ SendCancel, ~Closing, NEW n, n = index
  PROVE  worker # "ended" /\ WorkerShows(n)
<1>1. UNCHANGED <<ui, helper, request, outcome, plan>>
  BY WorkerKeeps
<1>2. ~cancelled /\ unread = <<>> /\ worker \notin {"cancelled check", "cancelled command"}
  BY NotCancelled
<1>3. CASE Connect
  <2>1. worker = "connect" /\ UNCHANGED <<index, failed>>
        /\ \/ worker' = "loop" /\ UNCHANGED events
           \/ worker' = "ended" /\ events' = Append(events, Done(1))
    BY <1>3 DEF Connect, loop
  <2> QED
    BY <2>1 DEF WorkerShows
<1>4. CASE Begin
  <2>1. worker = "loop" /\ UNCHANGED <<index, failed>>
    BY <1>4 DEF Begin
  <2>2. CASE index > Len(plan)
    <3>1. worker' = "shutdown" /\ UNCHANGED events
      BY <1>4, <2>2 DEF Begin
    <3> QED
      BY <2>1, <2>2, <3>1 DEF WorkerShows
  <2>3. CASE ~(index > Len(plan))
    <3>1. n \in DOMAIN plan
      <4>1. n \in Nat /\ n # 0 /\ plan \in Seq(Step)
        BY DEF Typed, TypeOK, PlanTyped
      <4> QED
        BY <2>3, <4>1
    <3>2. worker' \in {"check", "command"} /\ events' = Append(events, Chip(n, ">>"))
      BY <1>2, <1>4, <2>3 DEF Begin
    <3> QED
      BY <2>1, <3>1, <3>2 DEF WorkerShows
  <2> QED
    BY <2>2, <2>3, <2>1
<1>5. ASSUME worker \in {"check", "command"}, NEW code, Return(code), Says(code),
             Active => Executes = {}, helper # "busy"
      PROVE  worker # "ended" /\ WorkerShows(n)
  BY <1>1, <1>5, ReturnShows DEF WorkerShows, GoesOn
<1>6. CASE Read
  <2>1. worker \in {"check", "command"} /\ unread \o toClient = toClient
    BY <1>2, <1>6, ReadIs DEF Read, Waiting
  <2>2. CASE Answers(toClient) = {}
    <3>1. UNCHANGED <<worker, index, events, failed>>
      BY <1>6, <2>1, <2>2 DEF Read
    <3> QED
      BY <2>1, <3>1 DEF WorkerShows
  <2>3. CASE Answers(toClient) # {}
    <3>1. Return(CodeIn(First(toClient)))
      BY <1>6, <2>1, <2>3 DEF Read
    <3>2. Says(CodeIn(First(toClient)))
      BY <2>1, <2>3, AnswerSays
    <3>3. helper # "busy" /\ (Active => Executes = {})
      BY <2>3 DEF OneRequest
    <3> QED
      BY <1>5, <2>1, <3>1, <3>2, <3>3
  <2> QED
    BY <2>2, <2>3
<1>7. CASE Disconnected
  <2>1. worker \in {"check", "command"} /\ Return(Lost) /\ toClient = <<>> /\ helper = "gone"
    BY <1>7 DEF Disconnected, Waiting
  <2>2. outcome[index] \in Open
    BY <2>1, NoAnswers DEF AnswerTells
  <2>3. Says(Lost) /\ ~Active
    BY <2>1, <2>2, LostSays DEF Active
  <2> QED
    BY <1>5, <2>1, <2>3
<1>8. CASE SendCancel \/ Cancelled
  BY <1>2, <1>8 DEF SendCancel, Cancelled
<1>9. CASE Shutdown
  <2>1. worker = "shutdown" /\ worker' = "disconnect" /\ UNCHANGED <<events, index, failed>>
    BY <1>9 DEF Shutdown, loop
  <2> QED
    BY <2>1 DEF WorkerShows
<1>10. CASE Disconnect
  <2>1. worker = "disconnect" /\ worker' = "ended" /\ UNCHANGED <<index, failed>>
        /\ events' = Append(events, Done(failed))
    BY <1>10 DEF Disconnect, loop
  <2> QED
    BY <2>1 DEF WorkerShows
<1> QED
  BY <1>3, <1>4, <1>6, <1>7, <1>8, <1>9, <1>10 DEF WorkerSteps

LEMMA ChipsStep ==
  ASSUME Typed, Together, ShownInv, NextApart, NoStart
  PROVE  ChipsTrue'
<1>1. UNCHANGED plan
  BY PlanKept
<1>2. ASSUME UNCHANGED chips PROVE ChipsTrue'
  BY <1>2, TrueKept DEF ShownInv, ChipsTrue
<1>3. ASSUME chips' = <<>> PROVE ChipsTrue'
  BY <1>3, Empty DEF ChipsTrue
<1>4. CASE Deliver
  <2> DEFINE event == Head(events)
  <2>1. events # <<>> /\ Heard
    BY <1>4 DEF Deliver, Heard, Working
  <2>2. 1 \in DOMAIN events /\ event = events[1]
    BY <2>1, FirstIs DEF Typed, SentTyped
  <2>3. CASE event.type # "allDone" /\ ui \notin {"updating", "flatpak"}
    <3>1. chips' = [n \in DOMAIN chips |-> IF n = event.step THEN event.mark ELSE chips[n]]
      BY <1>4, <2>3 DEF Deliver
    <3>2. event.type = "step"
      <4>1. event \in Event
        BY <2>2 DEF Typed, SentTyped
      <4> QED
        BY <2>3, <4>1 DEF Event
    <3>3. IsTrue(event.step, event.mark)
      BY <2>1, <2>2, <3>2 DEF ShownInv, EventsTrue, EventTrue
    <3> DEFINE n == event.step
               mark == event.mark
    <3>4. PICK k, m : k = n /\ m = mark
      OBVIOUS
    <3>5. IsTrue(k, m)
      BY <3>3, <3>4
    <3>6. IsTrue(k, m)'
      BY <3>5, TrueKept
    <3>7. \A j \in DOMAIN chips' : j \in DOMAIN chips /\ (chips'[j] = chips[j] \/ (j = k /\ chips'[j] = m))
      BY <3>1, <3>4
    <3>8. \A j \in DOMAIN chips : IsTrue(j, chips[j])
      BY DEF ShownInv, ChipsTrue
    <3>9. ASSUME NEW j \in DOMAIN chips', NEW c, c = chips'[j] PROVE IsTrue(j, c)'
      <4>1. CASE c = chips[j]
        BY <3>7, <3>8, <3>9, <4>1, TrueKept
      <4>2. CASE j = k /\ c = m
        BY <3>6, <4>2
      <4> QED
        BY <3>7, <3>9, <4>1, <4>2
    <3> QED
      BY <3>9 DEF ChipsTrue
  <2>4. CASE ~(event.type # "allDone" /\ ui \notin {"updating", "flatpak"})
    <3>1. UNCHANGED chips
      BY <1>4, <2>1, <2>4 DEF Deliver, Heard, Working
    <3> QED
      BY <1>2, <3>1
  <2> QED
    BY <2>3, <2>4
<1>5. CASE Acts
  <2>1. UNCHANGED chips \/ chips' = <<>>
    BY <1>5 DEF NoStart, Starts, Acts, Click, StartUpdate, Skip, StartFlatpakUpdate, NoFlatpakUpdate, Reboot, Continue,
                Install, GoToDone, Back, CloseWindow
  <2> QED
    BY <1>2, <1>3, <2>1
<1>6. CASE HandleNotices \/ Closed \/ RebootConnect \/ Rebooted
  BY <1>2, <1>6 DEF HandleNotices, Closed, RebootConnect, Rebooted, Ours, page
<1>7. CASE WorkerSteps \/ SendCancel
  BY <1>2, <1>7, WorkerKeeps
<1>8. CASE HelperSteps \/ (\E code \in Codes : CommandEnds(code)) \/ HelperCrash
  BY <1>2, <1>8, HelperKeeps
<1>9. CASE UNCHANGED vars
  BY <1>2, <1>9, StillKeeps
<1> QED
  BY <1>4, <1>5, <1>6, <1>7, <1>8, <1>9 DEF NextApart, Hears, Handled

LEMMA AllThereKept ==
  ASSUME Typed, NextApart, NoStart, \A n \in DOMAIN plan : There(n)
  PROVE  \A n \in DOMAIN plan' : There(n)'
BY PlanKept, ThereKept

(* An event on its way stays true while the worker is where it was. *)
LEMMA EventKept ==
  ASSUME Typed, NextApart, NoStart, NEW event, EventTrue(event), worker = "ended" => worker' = "ended"
  PROVE  EventTrue(event)'
<1>1. event.type = "step" => IsTrue(event.step, event.mark)'
  BY TrueKept DEF EventTrue
<1>2. event.type = "allDone" =>
         worker' = "ended" /\ (event.errors = 0 => \A n \in DOMAIN plan' : There(n)')
  BY AllThereKept DEF EventTrue
<1> QED
  BY <1>1, <1>2 DEF EventTrue

LEMMA EventsKept ==
  ASSUME Typed, Together, ShownInv, NextApart, NoStart, worker = "ended" => worker' = "ended",
         UNCHANGED events \/ (events # <<>> /\ events' = Tail(events))
  PROVE  EventsTrue'
<1> SUFFICES ASSUME Heard', NEW m \in DOMAIN events', NEW event, event = events'[m]
             PROVE  EventTrue(event)'
  BY DEF EventsTrue
<1>1. events \in Seq(Event)
  BY DEF Typed, SentTyped
<1>2. \E k \in DOMAIN events : events[k] = event
  <2>1. CASE events # <<>> /\ events' = Tail(events)
    BY <1>1, <2>1, Taken
  <2> QED
    BY <2>1
<1>3. EventTrue(event)
  BY <1>2, Empty, HeardKept DEF ShownInv, EventsTrue
<1> QED
  BY <1>3, EventKept

LEMMA EventAdded ==
  ASSUME Typed, Together, ShownInv, NextApart, NoStart, worker # "ended",
         NEW new, events' = Append(events, new), EventTrue(new)'
  PROVE  EventsTrue'
<1> SUFFICES ASSUME Heard', NEW m \in DOMAIN events', NEW event, event = events'[m]
             PROVE  EventTrue(event)'
  BY DEF EventsTrue
<1>1. events \in Seq(Event)
  BY DEF Typed, SentTyped
<1>2. event = new \/ \E k \in DOMAIN events : events[k] = event
  <2>1. /\ Len(events) \in Nat /\ DOMAIN events = 1..Len(events)
        /\ DOMAIN events' = 1..Len(events) + 1
        /\ \A n \in DOMAIN events : events'[n] = events[n]
        /\ events'[Len(events) + 1] = new
    BY <1>1, Added
  <2>2. m \in DOMAIN events \/ m = Len(events) + 1
    BY <2>1
  <2> QED
    BY <2>1, <2>2
<1>3. CASE \E k \in DOMAIN events : events[k] = event
  <2>1. EventTrue(event)
    BY <1>3, Empty, HeardKept DEF ShownInv, EventsTrue
  <2> QED
    BY <2>1, EventKept
<1> QED
  BY <1>2, <1>3

(* The count, where the worker goes on with the same step or with none. *)
LEMMA CountKept ==
  ASSUME Typed, ShownInv, NextApart, NoStart, UNCHANGED <<index, failed>>, Working' => Working,
         Said' => \A n \in DOMAIN plan : There(n),
         Working /\ worker' \in {"shutdown", "disconnect"} => index > Len(plan)
  PROVE  CountTrue'
<1>1. UNCHANGED plan
  BY PlanKept
<1>2. Working' /\ failed' = 0 => \A n \in DOMAIN plan' : n < index' => There(n)'
  BY <1>1, ThereKept DEF ShownInv, CountTrue
<1>3. Said' => \A n \in DOMAIN plan' : There(n)'
  BY AllThereKept
<1>4. Working' /\ worker' \in {"shutdown", "disconnect"} => index' > Len(plan')
  BY <1>1
<1> QED
  BY <1>2, <1>3, <1>4 DEF CountTrue

LEMMA WorkerShown ==
  ASSUME Typed, Together, OneRequest, AnswerTells, ShownInv, WorkerSteps \/ SendCancel, NoStart
  PROVE  EventsTrue' /\ CountTrue'
<1>1. UNCHANGED <<ui, plan>> /\ Working' = Working /\ Heard' = Heard
  BY WorkerKeeps DEF Working, Heard
<1>s. Said' => \A n \in DOMAIN plan : There(n)
  BY SaidKept DEF ShownInv, CountTrue
<1>w. worker \notin Quiet
  BY DEF WorkerSteps, SendCancel, Connect, Begin, Read, Disconnected, Cancelled, Shutdown, Disconnect,
         Waiting, Quiet
<1>2. NextApart
  BY DEF NextApart
<1>t. index \in Nat /\ failed \in Nat /\ plan \in Seq(Step) /\ DOMAIN plan = 1..Len(plan) /\ Len(plan) \in Nat
  <2>1. plan \in Seq(Step)
    BY DEF Typed, PlanTyped
  <2>2. DOMAIN plan = 1..Len(plan) /\ Len(plan) \in Nat
    BY <2>1
  <2> QED
    BY <2>1, <2>2 DEF Typed, TypeOK
<1>3. CASE ~Working
  <2>1. Said' => \A n \in DOMAIN plan' : There(n)'
    BY <1>2, <1>s, AllThereKept
  <2>2. ~Heard
    BY <1>3, <1>w DEF Heard, Together, Resting
  <2> QED
    BY <1>1, <1>3, <2>1, <2>2 DEF EventsTrue, CountTrue
<1>4. ASSUME Working, NEW n, n = index PROVE EventsTrue' /\ CountTrue'
  <2>1. ~Closing
    BY <1>4 DEF Working, Closing
  <2>2. worker # "ended" /\ WorkerShows(n)
    BY <1>4, <2>1, WorkerPosts
  <2>3. worker \in {"shutdown", "disconnect"} => index > Len(plan)
    BY <1>4 DEF ShownInv, CountTrue
  <2>4. CASE UNCHANGED <<events, index, failed>> /\ (worker' = "shutdown" => index > Len(plan))
             /\ (worker' = "disconnect" => worker = "shutdown")
    <3>1. EventsTrue'
      BY <1>2, <2>2, <2>4, EventsKept
    <3>2. CountTrue'
      BY <1>1, <1>2, <1>s, <2>3, <2>4, CountKept
    <3> QED
      BY <3>1, <3>2
  <2>5. ASSUME NEW mark \in {"OK", "--", "!!"}, StepEnds(n, mark) PROVE EventsTrue' /\ CountTrue'
    <3>1. /\ events' = Append(events, Chip(n, mark)) /\ IsTrue(n, mark)' /\ index' = n + 1
          /\ worker' = "loop" /\ (failed' = 0 => failed = 0 /\ There(n)')
      BY <2>5 DEF StepEnds
    <3>2. EventTrue(Chip(n, mark))'
      BY <3>1 DEF EventTrue, Chip
    <3>3. EventsTrue'
      BY <1>2, <2>2, <3>1, <3>2, EventAdded
    <3>4. ASSUME failed' = 0, NEW k \in DOMAIN plan, k < index' PROVE There(k)'
      <4>1. k \in Nat /\ n \in Nat
        BY <1>t, <1>4
      <4>2. k < n \/ k = n
        BY <3>1, <3>4, <4>1
      <4>3. CASE k < n
        <5>1. There(k)
          BY <1>4, <3>1, <3>4, <4>3 DEF ShownInv, CountTrue
        <5> QED
          BY <1>2, <5>1, ThereKept
      <4>4. CASE k = n
        BY <3>1, <3>4, <4>4
      <4> QED
        BY <4>2, <4>3, <4>4
    <3>5. Said' => \A k \in DOMAIN plan' : There(k)'
      BY <1>2, <1>s, AllThereKept
    <3>6. CountTrue'
      BY <1>1, <3>1, <3>4, <3>5 DEF CountTrue
    <3> QED
      BY <3>3, <3>6
  <2>6. CASE UNCHANGED <<index, failed>> /\ n \in DOMAIN plan /\ events' = Append(events, Chip(n, ">>"))
             /\ worker' \in {"check", "command"}
    <3>1. IsTrue(n, ">>")'
      BY <1>1, <2>6 DEF IsTrue
    <3>2. EventTrue(Chip(n, ">>"))'
      BY <3>1 DEF EventTrue, Chip
    <3>3. EventsTrue'
      BY <1>2, <2>2, <2>6, <3>2, EventAdded
    <3>4. CountTrue'
      BY <1>1, <1>2, <1>s, <2>6, CountKept
    <3> QED
      BY <3>3, <3>4
  <2>7. CASE UNCHANGED <<index, failed>> /\ worker' = "ended"
             /\ \/ events' = Append(events, Done(1))
                \/ worker = "disconnect" /\ events' = Append(events, Done(failed))
    <3>1. CountTrue'
      BY <1>1, <1>2, <1>s, <2>7, CountKept
    <3>2. PICK errors : /\ events' = Append(events, Done(errors))
                        /\ errors = 1 \/ (worker = "disconnect" /\ errors = failed)
      BY <2>7
    <3>3. errors = 0 => \A k \in DOMAIN plan' : There(k)'
      <4>1. SUFFICES ASSUME errors = 0 PROVE \A k \in DOMAIN plan' : There(k)'
        OBVIOUS
      <4>2. failed = 0 /\ index > Len(plan)
        BY <2>3, <3>2, <4>1
      <4>3. \A k \in DOMAIN plan : k < index
        BY <1>t, <4>2
      <4>4. \A k \in DOMAIN plan : There(k)
        BY <1>4, <4>2, <4>3 DEF ShownInv, CountTrue
      <4> QED
        BY <1>2, <4>4, AllThereKept
    <3>4. EventTrue(Done(errors))'
      BY <2>7, <3>3 DEF EventTrue, Done
    <3>5. EventsTrue'
      BY <1>2, <2>2, <3>2, <3>4, EventAdded
    <3> QED
      BY <3>1, <3>5
  <2> QED
    BY <2>2, <2>4, <2>5, <2>6, <2>7 DEF WorkerShows
<1> QED
  BY <1>3, <1>4

LEMMA ShownStep ==
  Typed /\ Together /\ OneRequest /\ AnswerTells /\ ShownInv /\ NextApart => ShownInv'
<1> SUFFICES ASSUME Typed, Together, OneRequest, AnswerTells, ShownInv, NextApart PROVE ShownInv'
  OBVIOUS
<1>1. CASE Starts
  BY <1>1, StartShown
<1>2. CASE NoStart
  <2>1. ChipsTrue'
    BY <1>2, ChipsStep
  <2>2. Working' => Working
    BY <1>2, WorkingKept
  <2>3. ASSUME UNCHANGED <<worker, index, failed, events>>, Said' => Said PROVE EventsTrue' /\ CountTrue'
    <3>1. /\ Working /\ worker' \in {"shutdown", "disconnect"} => index > Len(plan)
          /\ Said' => \A n \in DOMAIN plan : There(n)
      BY <2>3 DEF ShownInv, CountTrue
    <3>2. EventsTrue'
      BY <1>2, <2>3, EventsKept
    <3>3. CountTrue'
      BY <1>2, <2>2, <2>3, <3>1, CountKept
    <3> QED
      BY <3>2, <3>3
  <2>4. ASSUME ~Heard', Said' => Said PROVE EventsTrue' /\ CountTrue'
    <3>1. Said' => \A n \in DOMAIN plan' : There(n)'
      BY <1>2, <2>4, AllThereKept DEF ShownInv, CountTrue
    <3> QED
      BY <2>4, <3>1 DEF EventsTrue, CountTrue, Heard
  <2>a. SUFFICES EventsTrue' /\ CountTrue'
    BY <2>1 DEF ShownInv
  <2>5. CASE Acts
    <3>1. UNCHANGED <<worker, index, failed, events>> \/ ~Heard'
      <4>1. CASE Back
        BY <4>1 DEF Back, Idle, loop
      <4>2. CASE ~Back
        BY <1>2, <2>5, <4>2 DEF NoStart, Starts, Acts, Click, StartUpdate, Skip, StartFlatpakUpdate,
                     NoFlatpakUpdate, Reboot, Continue, Install, GoToDone, CloseWindow, FinishUpdate, Idle,
                     loop, Working, Heard
      <4> QED
        BY <4>1, <4>2
    <3> QED
      BY <1>2, <2>3, <2>4, <2>5, <3>1, SaidKept
  <2>6. CASE (HandleNotices \/ Closed) /\ UNCHANGED entry
    <3>1. UNCHANGED <<worker, index, failed, events>>
      BY <2>6 DEF HandleNotices, Closed, Idle, loop
    <3> QED
      BY <1>2, <2>3, <2>6, <3>1, SaidKept
  <2>7. CASE (RebootConnect \/ Rebooted) /\ UNCHANGED entry
    <3>1. worker \in {"reboot", "rebooting"}
      BY <2>7 DEF RebootConnect, Rebooted
    <3>2. ui \in {"rebooting", "rebooting at the end"}
      BY <3>1 DEF Together
    <3>3. ~Heard'
      BY <2>7, <3>2 DEF RebootConnect, Rebooted, Ours, page, Heard, Working
    <3> QED
      BY <1>2, <2>4, <2>7, <3>3, SaidKept
  <2>8. CASE Deliver /\ UNCHANGED entry
    <3> DEFINE event == Head(events)
    <3>1. events # <<>> /\ Heard /\ events' = Tail(events) /\ UNCHANGED <<worker, index, failed>>
      BY <2>8 DEF Deliver, Heard, Working, loop
    <3>2. 1 \in DOMAIN events /\ event = events[1] /\ event \in Event
      BY <3>1, FirstIs DEF Typed, SentTyped
    <3>3. EventsTrue'
      BY <1>2, <3>1, EventsKept
    <3>4. Said' => \A n \in DOMAIN plan : There(n)
      <4>1. CASE event.type # "allDone"
        <5>1. UNCHANGED <<ui, errorCount>>
          BY <2>8, <4>1 DEF Deliver
        <5> QED
          BY <2>8, <5>1 DEF Said, SaysAllThere, ShownInv, CountTrue
      <4>2. CASE event.type = "allDone" /\ ui \in {"updating", "flatpak"}
        <5>1. ui' \in {"flatpak?", "kernel", "ready"}
          BY <2>8, <4>2 DEF Deliver, FinishUpdate
        <5> QED
          BY <5>1 DEF Said, LastPage
      <4>3. CASE event.type = "allDone" /\ ui \in {"install", "back", "installed"}
        <5>1. errorCount' = event.errors /\ event.errors \in Nat
          BY <2>8, <3>2, <4>3 DEF Deliver, Event
        <5>2. event.errors = 0 => \A n \in DOMAIN plan : There(n)
          BY <3>1, <3>2, <4>3 DEF ShownInv, EventsTrue, EventTrue
        <5>3. Said' => event.errors = 0
          BY <5>1 DEF Said, SaysAllThere, Unset
        <5> QED
          BY <5>2, <5>3
      <4> QED
        BY <3>1, <4>1, <4>2, <4>3 DEF Heard, Working
    <3>5. Working /\ worker' \in {"shutdown", "disconnect"} => index > Len(plan)
      BY <3>1 DEF ShownInv, CountTrue
    <3>6. CountTrue'
      BY <1>2, <2>2, <3>1, <3>4, <3>5, CountKept
    <3> QED
      BY <3>3, <3>6
  <2>9. CASE WorkerSteps \/ SendCancel
    BY <1>2, <2>9, WorkerShown
  <2>10. CASE HelperSteps \/ (\E code \in Codes : CommandEnds(code)) \/ HelperCrash
    <3>1. UNCHANGED <<worker, index, failed, events>>
      BY <2>10, HelperKeeps
    <3> QED
      BY <1>2, <2>3, <2>10, <3>1, SaidKept
  <2>11. CASE UNCHANGED vars
    <3>1. UNCHANGED <<worker, index, failed, events>>
      BY <2>11, StillKeeps
    <3> QED
      BY <1>2, <2>3, <2>11, <3>1, SaidKept
  <2> QED
    BY <2>5, <2>6, <2>7, <2>8, <2>9, <2>10, <2>11 DEF NextApart, Hears, Handled
<1> QED
  BY <1>1, <1>2 DEF NoStart

-----------------------------------------------------------------------------
LEMMA InitSession == Init => SessionInv /\ ShownInv
<1> SUFFICES ASSUME Init PROVE SessionInv /\ ShownInv
  OBVIOUS
<1>1. DOMAIN chips = {} /\ DOMAIN plan = {} /\ DOMAIN toHelper = {} /\ DOMAIN toClient = {}
  BY Empty DEF Init
<1>2. Together
  BY DEF Init, Together, Resting, Quiet, Closing, Talking, Early
<1>3. Executes = {} /\ Commands = {} /\ Answers(toClient) = {}
  BY <1>1 DEF Executes, Commands, Answers
<1>4. OneRequest /\ AnswerTells
  BY <1>1, <1>3 DEF Init, OneRequest, Asks, Nothing, AnswerTells
<1>5. Untouched /\ LastCommand
  BY <1>3 DEF Init, Untouched, Working, LastCommand
<1>6. ShownInv
  BY <1>1 DEF Init, ShownInv, ChipsTrue, EventsTrue, CountTrue, Heard, Working, Said, LastPage
<1> QED
  BY <1>2, <1>4, <1>5, <1>6 DEF SessionInv

(* Once the page was entered over a live worker, no more is said.            *)
LegacyInv == entry = "mixed" \/ (Apart /\ Typed /\ SessionInv /\ ShownInv)

LEMMA LegacyInvariant == Spec => []LegacyInv
<1>1. Init => LegacyInv
  BY InitTyped, InitSession DEF LegacyInv, Init, Apart
<1>2. LegacyInv /\ [Next]_vars => LegacyInv'
  <2> SUFFICES ASSUME LegacyInv, [Next]_vars, entry' # "mixed" PROVE LegacyInv'
    BY DEF LegacyInv
  <2>1. Apart /\ Typed /\ SessionInv /\ ShownInv
    BY MixedStays DEF LegacyInv
  <2>2. Apart' /\ NextApart
    BY <2>1, ApartStep
  <2> QED
    BY <2>1, <2>2, TypedStep, TogetherStep, OneStep, TellsStep, UntouchedStep, LastStep, ShownStep
       DEF LegacyInv, SessionInv, ShownInv
<1> QED
  BY <1>1, <1>2, PTL DEF Spec

(* A window that is closed lets at most one more command begin, for every    *)
(* plan and however long commands take (installworker.cpp:42-60, 137), when  *)
(* the install page was never entered over a live worker.                    *)
THEOREM OneMore == Spec => [](entry # "mixed" => OneMoreAfterClose)
<1>1. LegacyInv => (entry # "mixed" => OneMoreAfterClose)
  BY DEF LegacyInv, SessionInv, LastCommand, OneMoreAfterClose
<1> QED
  BY <1>1, LegacyInvariant, PTL

(* What the page shows of a step is what became of it, and a count of no     *)
(* errors, on the last page, means that every step of the run it is about    *)
(* is there: for every plan, also when the helper dies, and though the page  *)
(* was entered before, as long as no other worker was alive when it was      *)
(* entered last (installworker.cpp:137-175, installpage.cpp, donepage.cpp).  *)
THEOREM Shown == Spec => []ShownIsTrue
<1>1. LegacyInv => ShownIsTrue
  <2> SUFFICES ASSUME LegacyInv, entry # "mixed" PROVE ChipsAreTrue /\ NoErrorsMeansThere
    BY DEF ShownIsTrue
  <2>1. ChipsAreTrue
    BY DEF LegacyInv, ShownInv, ChipsTrue, IsTrue, ChipsAreTrue
  <2>2. NoErrorsMeansThere
    BY DEF LegacyInv, ShownInv, CountTrue, Said, There, NoErrorsMeansThere, AllThere
  <2> QED
    BY <2>1, <2>2
<1> QED
  BY <1>1, LegacyInvariant, PTL
=============================================================================
