--------------------------- MODULE Session_proofs ---------------------------
(***************************************************************************)
(* Theorems about Session, for every set of plans, steps and exit codes:   *)
(* first what the worker and the helper say to each other, then that what  *)
(* is recorded of a step is what became of it, that the page sees a run of *)
(* InstallRun, and that no errors means that everything is installed.      *)
(***************************************************************************)
EXTENDS Session, SequenceTheorems, FiniteSetTheorems, TLAPS

(* Where the worker is inside a step, and so index is one of the plan.       *)
InStep == {"check", "awaitCheck", "command", "awaitCommand", "local", "verify"}
Located == pc \in InStep => index \in DOMAIN steps
Typed == TypeOK /\ Located

LEMMA StepFacts ==
  ASSUME Typed, pc \in InStep
  PROVE  Now \in Step
BY DEF Typed, TypeOK, Located, Now, InStep

LEMMA CancelsNat ==
  ASSUME toHelper \in Seq(Request)
  PROVE  Cancels \in Nat
<1>1. IsFiniteSet(1..Len(toHelper))
  BY FS_Interval
<1>2. {n \in DOMAIN toHelper : toHelper[n].what = "cancel"} \subseteq 1..Len(toHelper)
  OBVIOUS
<1>3. QED BY <1>1, <1>2, FS_Subset, FS_CardinalityType DEF Cancels

LEMMA PostTyped ==
  ASSUME events \in Seq(Event), delivered \in 0..Len(events), NEW event \in Event, Post(event),
         UNCHANGED delivered
  PROVE  events' \in Seq(Event) /\ delivered' \in 0..Len(events')
BY DEF Post

LEMMA ReplyTyped ==
  ASSUME toClient \in Seq(Response), NEW answers \in Seq(Response), Reply(answers)
  PROVE  toClient' \in Seq(Response)
BY DEF Reply

LEMMA CodesFacts == Lost \in Codes /\ 0 \in Codes /\ Codes \subseteq Int
BY ExitCodesAssumption DEF Codes, Lost

(* What leaving a step does to the variables of the worker. *)
Advances == /\ events' \in Seq(Event) /\ delivered' \in 0..Len(events')
            /\ stepOk' \in [StepId -> {"unset", "ok", "failed"}]
            /\ errorCount' \in Nat /\ index' \in Nat \ {0}

LEMMA NextStepTyped ==
  ASSUME Typed, pc \in InStep, UNCHANGED delivered,
         NEW mark \in Settled, NextStep(mark)
  PROVE  Advances /\ pc' = "loop"
<1>1. Now \in Step
  BY StepFacts
<1>2. Chip(Now.id, mark) \in Event
  BY <1>1 DEF Chip, Event, Step, Mark
<1>3. events' \in Seq(Event) /\ delivered' \in 0..Len(events')
  BY <1>2, PostTyped DEF Typed, TypeOK, NextStep
<1>4. stepOk' \in [StepId -> {"unset", "ok", "failed"}]
  BY DEF Typed, TypeOK, NextStep
<1>5. errorCount' \in Nat
  BY DEF Typed, TypeOK, NextStep, Counts
<1>6. index' \in Nat \ {0} /\ pc' = "loop"
  BY DEF Typed, TypeOK, NextStep
<1>7. QED BY <1>3, <1>4, <1>5, <1>6 DEF Advances

LEMMA ReturnTyped ==
  ASSUME Typed, pc \in InStep, UNCHANGED <<steps, delivered>>,
         NEW code \in Codes, Return(code)
  PROVE  Advances /\ pc' \in {"loop", "command"} /\ Located'
<1>1. CASE pc \in {"check", "awaitCheck"} /\ code # 0
  BY <1>1 DEF Return, Typed, TypeOK, Located, InStep, Advances
<1>2. CASE pc \in {"check", "awaitCheck"} /\ code = 0
  <2>1. NextStep("ALREADY INSTALLED")
    BY <1>2 DEF Return
  <2>2. QED BY <2>1, NextStepTyped DEF Settled, Good, Located, InStep
<1>3. CASE pc \notin {"check", "awaitCheck"}
  <2>1. PICK mark \in {"OK", "FAILED"} : NextStep(mark)
    BY <1>3 DEF Return
  <2>2. QED BY <2>1, NextStepTyped DEF Settled, Good, Located, InStep
<1>4. QED BY <1>1, <1>2, <1>3

(* Helper and environment steps leave the worker and the page alone.         *)
Apart == UNCHANGED <<workerVars, cancelRequested, events, pageVars, connection>>

HelperTypes ==
  /\ toHelper \in Seq(Request) /\ toClient \in Seq(Response)
  /\ server \in {"none", "accept", "serve", "pump", "reap", "exited", "killed"}
  /\ request \in Request /\ cancelFlag \in BOOLEAN
  /\ signal \in {"none", "term", "kill"} /\ graceOver \in BOOLEAN
  /\ child \in {"none", "running", "exited"} /\ childCode \in Codes
  /\ applied \in [StepId -> {"no", "found", "begun", "done"}]

LEMMA ApartTyped ==
  ASSUME Typed, Apart, HelperTypes'
  PROVE  Typed'
BY DEF Typed, TypeOK, Located, Apart, workerVars, pageVars, HelperTypes

LEMMA AnswerTyped ==
  ASSUME NEW type \in AnswerType, NEW k \in Nat, NEW code \in Codes
  PROVE  /\ Answer(type, k, code) \in Response
         /\ <<Answer(type, k, code)>> \in Seq(Response)
         /\ <<Notice(type)>> \in Seq(Response)
         /\ <<Notice("started"), Answer("finished", k, code)>> \in Seq(Response)
<1>1. Answer(type, k, code) \in Response /\ Notice(type) \in Response
  BY CodesFacts DEF Answer, Notice, Response
<1>2. Notice("started") \in Response /\ Answer("finished", k, code) \in Response
  BY CodesFacts DEF Answer, Notice, Response, AnswerType
<1>3. QED BY <1>1, <1>2

LEMMA HeadRequest ==
  ASSUME toHelper \in Seq(Request), toHelper # <<>>
  PROVE  /\ Head(toHelper) \in Request /\ Head(toHelper).step \in Nat
         /\ Tail(toHelper) \in Seq(Request)
<1>1. Head(toHelper) \in Request /\ Tail(toHelper) \in Seq(Request)
  OBVIOUS
<1>2. QED BY <1>1 DEF Request

LEMMA HandleExecuteTyped ==
  ASSUME Typed, NEW line \in Request, HandleExecute(line), toHelper' \in Seq(Request)
  PROVE  HelperTypes'
<1> USE DEF Typed, TypeOK
<1>1. line.step \in Nat
  BY DEF Request
<1>2. CASE ~steps[line.step].permitted
  <2>1. toClient' \in Seq(Response)
    BY <1>1, <1>2, AnswerTyped, CodesFacts, ReplyTyped DEF HandleExecute, AnswerType
  <2>2. QED BY <1>2, <2>1 DEF HandleExecute, HelperTypes
<1>3. CASE steps[line.step].permitted
  <2>1. cancelFlag' = FALSE /\ request' = line /\ signal' = "none" /\ graceOver' = FALSE
        /\ childCode' = childCode
    BY <1>3 DEF HandleExecute
  <2>2. CASE Reply(<<Notice("started")>>) /\ server' = "pump" /\ child' = "running"
             /\ applied' = IF line.what = "command"
                           THEN [applied EXCEPT ![steps[line.step].id] = "begun"] ELSE applied
    <3>1. toClient' \in Seq(Response)
      BY <2>2, <1>1, AnswerTyped, CodesFacts, ReplyTyped DEF AnswerType
    <3>2. QED BY <2>1, <2>2, <3>1 DEF HelperTypes
  <2>3. CASE Reply(<<Notice("started"), Answer("finished", line.step, Lost)>>)
             /\ UNCHANGED <<server, child, applied>>
    <3>1. toClient' \in Seq(Response)
      BY <2>3, <1>1, AnswerTyped, CodesFacts, ReplyTyped DEF AnswerType
    <3>2. QED BY <2>1, <2>3, <3>1 DEF HelperTypes
  <2>4. QED BY <1>3, <2>2, <2>3 DEF HandleExecute
<1>4. QED BY <1>2, <1>3

LEMMA HelperTyped ==
  ASSUME Typed, Helper \/ GraceElapses \/ ChildExits \/ HelperCrash
  PROVE  Typed'
<1> USE DEF Typed, TypeOK, HelperUnchanged, Apart
<1>1. CASE HelperAccepts
  <2>1. toClient' \in Seq(Response) /\ toHelper' \in Seq(Request)
    BY <1>1, AnswerTyped, CodesFacts, ReplyTyped, HeadRequest DEF HelperAccepts, AnswerType
  <2>2. QED BY <1>1, <2>1, ApartTyped DEF HelperAccepts, HelperTypes
<1>2. CASE HelperGivesUp
  BY <1>2, ApartTyped DEF HelperGivesUp, HelperTypes
<1>3. CASE HelperReads
  <2>1. toHelper' \in Seq(Request) /\ Head(toHelper) \in Request
    BY <1>3, HeadRequest DEF HelperReads
  <2>2. CASE HandleExecute(Head(toHelper))
    BY <1>3, <2>1, <2>2, HandleExecuteTyped, ApartTyped DEF HelperReads
  <2>3. CASE Reply(<<Notice("shutdown_ack")>>) /\ server' = "exited"
             /\ UNCHANGED <<request, cancelFlag, signal, graceOver, child, childCode, applied>>
    <3>1. toClient' \in Seq(Response)
      BY <2>3, AnswerTyped, CodesFacts, ReplyTyped DEF AnswerType
    <3>2. QED BY <1>3, <2>1, <2>3, <3>1, ApartTyped DEF HelperReads, HelperTypes
  <2>4. CASE Reply(<<Notice("cancel_ack")>>) /\ cancelFlag' = TRUE
             /\ UNCHANGED <<server, request, signal, graceOver, child, childCode, applied>>
    <3>1. toClient' \in Seq(Response)
      BY <2>4, AnswerTyped, CodesFacts, ReplyTyped DEF AnswerType
    <3>2. QED BY <1>3, <2>1, <2>4, <3>1, ApartTyped DEF HelperReads, HelperTypes
  <2>5. QED BY <1>3, <2>2, <2>3, <2>4 DEF HelperReads
<1>4. CASE HelperSeesEnd
  BY <1>4, ApartTyped DEF HelperSeesEnd, HelperTypes
<1>5. CASE HelperPumps
  <2>1. [n \in 1..Cancels |-> Notice("cancel_ack")] \in Seq(Response)
    <3>1. Cancels \in Nat
      BY CancelsNat
    <3>2. Notice("cancel_ack") \in Response
      BY CodesFacts DEF Notice, Answer, Response, AnswerType
    <3>3. QED BY <3>1, <3>2
  <2>2. toClient' \in Seq(Response)
    BY <1>5, <2>1, ReplyTyped DEF HelperPumps
  <2>3. cancelFlag' \in BOOLEAN /\ signal' \in {"none", "term", "kill"}
    BY <1>5 DEF HelperPumps, NextSignal
  <2>4. QED BY <1>5, <2>2, <2>3, ApartTyped DEF HelperPumps, HelperTypes
<1>6. CASE HelperReaps
  <2>1. request.step \in Nat
    BY DEF Request
  <2>2. toClient' \in Seq(Response)
    BY <1>6, <2>1, AnswerTyped, ReplyTyped DEF HelperReaps, AnswerType
  <2>3. QED BY <1>6, <2>2, ApartTyped DEF HelperReaps, HelperTypes
<1>7. CASE GraceElapses
  BY <1>7, ApartTyped DEF GraceElapses, HelperTypes
<1>8. CASE ChildExits
  <2>1. childCode' \in Codes
    BY <1>8, CodesFacts DEF ChildExits
  <2>2. applied' \in [StepId -> {"no", "found", "begun", "done"}]
    BY <1>8 DEF ChildExits
  <2>3. QED BY <1>8, <2>1, <2>2, ApartTyped DEF ChildExits, HelperTypes
<1>9. CASE HelperCrash
  BY <1>9, ApartTyped DEF HelperCrash, HelperTypes
<1>10. QED
  BY <1>1, <1>2, <1>3, <1>4, <1>5, <1>6, <1>7, <1>8, <1>9 DEF Helper

(* The part of the type invariant a worker step outside a step can disturb.  *)
LEMMA DoneTyped ==
  ASSUME NEW n \in Nat
  PROVE  Done(n) \in Event
BY DEF Done, Event, Mark

LEMMA EmptyTyped ==
  <<>> \in Seq(Response)
OBVIOUS

LEMMA SendTyped ==
  ASSUME toHelper \in Seq(Request), NEW line \in Request
  PROVE  Append(toHelper, line) \in Seq(Request)
OBVIOUS

LEMMA PlainTyped ==
  ASSUME NEW type \in Simple
  PROVE  Plain(type) \in Request
BY DEF Plain, Execute, Request

LEMMA ConnectionStepsTyped ==
  ASSUME Typed, \/ LaunchFails \/ LaunchSucceeds \/ ConnectFails \/ Connect
                \/ Authenticated \/ AuthenticationFails \/ EndSession \/ StopHelper
  PROVE  Typed'
<1> USE DEF Typed, TypeOK, pageVars, serverVars
<1>1. CASE LaunchFails
  <2>1. events' \in Seq(Event) /\ delivered' \in 0..Len(events')
    BY <1>1, DoneTyped, PostTyped DEF LaunchFails
  <2>2. QED BY <1>1, <2>1 DEF LaunchFails, Located, InStep
<1>2. CASE LaunchSucceeds
  <2>1. steps' \in Seq(Step)
    BY <1>2, PlansAssumption DEF LaunchSucceeds
  <2>2. QED BY <1>2, <2>1 DEF LaunchSucceeds, Located, InStep
<1>3. CASE ConnectFails
  <2>1. events' \in Seq(Event) /\ delivered' \in 0..Len(events')
    BY <1>3, DoneTyped, PostTyped DEF ConnectFails
  <2>2. QED BY <1>3, <2>1 DEF ConnectFails, Located, InStep
<1>4. CASE Connect
  <2>1. toHelper' \in Seq(Request)
    BY <1>4, PlainTyped, SendTyped DEF Connect, Simple
  <2>2. QED BY <1>4, <2>1 DEF Connect, Located, InStep
<1>5. CASE Authenticated
  BY <1>5, EmptyTyped DEF Authenticated, Located, InStep
<1>6. CASE AuthenticationFails
  <2>1. events' \in Seq(Event) /\ delivered' \in 0..Len(events')
    BY <1>6, DoneTyped, PostTyped DEF AuthenticationFails
  <2>2. QED BY <1>6, <2>1, EmptyTyped DEF AuthenticationFails, Close, Located, InStep
<1>7. CASE EndSession
  <2>1. toHelper' \in Seq(Request)
    BY <1>7, PlainTyped, SendTyped DEF EndSession, Simple
  <2>2. QED BY <1>7, <2>1, EmptyTyped DEF EndSession, Close, Located, InStep
<1>8. CASE StopHelper
  <2>1. events' \in Seq(Event) /\ delivered' \in 0..Len(events')
    BY <1>8, DoneTyped, PostTyped DEF StopHelper
  <2>2. QED BY <1>8, <2>1 DEF StopHelper, Located, InStep
<1>9. QED BY <1>1, <1>2, <1>3, <1>4, <1>5, <1>6, <1>7, <1>8

LEMMA LoopStepsTyped ==
  ASSUME Typed, SkipStep \/ BeginStep \/ RunLocal \/ VerifyLocal \/ NoCommand
  PROVE  Typed'
<1> USE DEF Typed, TypeOK, pageVars, serverVars
<1>1. ASSUME NEW mark \in Mark, index \in DOMAIN steps
      PROVE  Chip(Now.id, mark) \in Event
  <2>1. Now \in Step
    BY <1>1 DEF Now
  <2>2. QED BY <2>1 DEF Chip, Event, Step
<1>2. CASE SkipStep
  <2>1. index \in DOMAIN steps
    BY <1>2 DEF SkipStep
  <2>2. events' \in Seq(Event) /\ delivered' \in 0..Len(events')
    BY <1>1, <1>2, <2>1, PostTyped DEF SkipStep, Mark, Settled
  <2>3. QED BY <1>2, <2>2 DEF SkipStep, Located, InStep
<1>3. CASE BeginStep
  <2>1. index \in DOMAIN steps
    BY <1>3 DEF BeginStep
  <2>2. events' \in Seq(Event) /\ delivered' \in 0..Len(events')
    BY <1>1, <1>3, <2>1, PostTyped DEF BeginStep, Mark
  <2>3. QED BY <1>3, <2>1, <2>2 DEF BeginStep, Located
<1>4. CASE RunLocal
  <2>1. pc \in InStep /\ UNCHANGED delivered
    BY <1>4 DEF RunLocal, InStep
  <2>2. PICK code \in Codes :
          /\ applied' = [applied EXCEPT ![Now.id] =
                           IF code = 0 /\ ~Now.verify THEN "done" ELSE "begun"]
          /\ IF code = 0 /\ Now.verify
             THEN pc' = "verify" /\ UNCHANGED <<index, stepOk, errorCount, events>>
             ELSE NextStep(IF code = 0 THEN "OK" ELSE "FAILED")
    BY <1>4 DEF RunLocal
  <2>3. applied' \in [StepId -> {"no", "found", "begun", "done"}]
    BY <2>2
  <2>4. CASE code = 0 /\ Now.verify
    BY <1>4, <2>1, <2>2, <2>3, <2>4 DEF RunLocal, Located
  <2>5. CASE ~(code = 0 /\ Now.verify)
    <3>1. PICK mark \in Settled : NextStep(mark)
      BY <2>2, <2>5 DEF Settled, Good
    <3>2. Advances /\ pc' = "loop"
      BY <2>1, <3>1, NextStepTyped
    <3>3. QED BY <1>4, <2>3, <3>2 DEF RunLocal, Located, InStep, Advances
  <2>6. QED BY <2>4, <2>5
<1>5. CASE VerifyLocal
  <2>1. pc \in InStep /\ UNCHANGED delivered
    BY <1>5 DEF VerifyLocal, InStep
  <2>2. PICK mark \in Settled : NextStep(mark)
    BY <1>5 DEF VerifyLocal, Settled, Good
  <2>3. applied' \in [StepId -> {"no", "found", "begun", "done"}]
    BY <1>5 DEF VerifyLocal
  <2>4. Advances /\ pc' = "loop"
    BY <2>1, <2>2, NextStepTyped
  <2>5. QED BY <1>5, <2>3, <2>4 DEF VerifyLocal, Located, InStep, Advances
<1>6. CASE NoCommand
  <2>1. pc \in InStep /\ UNCHANGED delivered
    BY <1>6 DEF NoCommand, InStep
  <2>2. PICK mark \in Settled : NextStep(mark)
    BY <1>6 DEF NoCommand, Settled, Good
  <2>3. Advances /\ pc' = "loop"
    BY <2>1, <2>2, NextStepTyped
  <2>4. QED BY <1>6, <2>3 DEF NoCommand, Located, InStep, Advances
<1>7. QED BY <1>2, <1>3, <1>4, <1>5, <1>6

LEMMA ExecuteStepsTyped ==
  ASSUME Typed, SendExecute \/ TakeLine \/ SendCancel \/ Receive \/ ReceiveClosed
  PROVE  Typed'
<1> USE DEF Typed, TypeOK, pageVars, serverVars
<1>1. CASE SendExecute
  <2>1. pc \in InStep
    BY <1>1 DEF SendExecute, InStep
  <2>2. CASE HelperReadable
    <3>1. Execute(index, pc) \in Request
      BY <1>1 DEF SendExecute, Execute, Request, What
    <3>2. toHelper' \in Seq(Request)
      BY <1>1, <2>2, <3>1, SendTyped DEF SendExecute
    <3>3. pc' \in {"awaitCheck", "awaitCommand"} /\ cancelSent' = FALSE /\ Located'
      BY <1>1, <2>1, <2>2 DEF SendExecute, Located, InStep
    <3>4. UNCHANGED <<index, stepOk, errorCount, events, steps, buffer, cancelRequested, pageVars,
                      connection, toClient, serverVars, applied>>
      BY <1>1, <2>2 DEF SendExecute
    <3>5. pc' \in InStep /\ cancelSent' \in BOOLEAN
      BY <3>3 DEF InStep
    <3>6. TypeOK'
      BY <3>2, <3>3, <3>4, <3>5
    <3>7. QED BY <3>3, <3>6
  <2>3. CASE ~HelperReadable
    <3>1. Return(Lost) /\ UNCHANGED <<steps, delivered>>
      BY <1>1, <2>3 DEF SendExecute
    <3>2. Advances /\ pc' \in {"loop", "command"} /\ Located'
      BY <2>1, <3>1, CodesFacts, ReturnTyped
    <3>3. /\ UNCHANGED <<toHelper, cancelSent>>
          /\ UNCHANGED <<steps, buffer, cancelRequested, pageVars, connection, toClient,
                         serverVars, applied>>
      BY <1>1, <2>3 DEF SendExecute
    <3>4. QED BY <3>2, <3>3 DEF Advances
  <2>4. QED BY <2>2, <2>3
<1>2. CASE TakeLine
  <2>1. pc \in InStep
    BY <1>2 DEF TakeLine, Waiting, InStep
  <2>2. Head(buffer) \in Response /\ buffer' \in Seq(Response)
    BY <1>2 DEF TakeLine
  <2>3. Head(buffer).code \in Codes
    BY <2>2 DEF Response
  <2>4. CASE Continue
    BY <1>2, <2>1, <2>2, <2>4 DEF TakeLine, Continue, Located
  <2>5. CASE ~Continue
    <3>1. PICK code \in Codes : Return(code)
      BY <1>2, <2>3, <2>5, CodesFacts DEF TakeLine, CodeOf
    <3>2. UNCHANGED <<steps, delivered>>
      BY <1>2 DEF TakeLine
    <3>3. Advances /\ pc' \in {"loop", "command"} /\ Located'
      BY <2>1, <3>1, <3>2, ReturnTyped
    <3>4. UNCHANGED <<steps, cancelSent, cancelRequested, pageVars, connection, toHelper,
                      toClient, serverVars, applied>>
      BY <1>2 DEF TakeLine
    <3>5. pc' \in {"loop", "command"} /\ buffer' \in Seq(Response) /\ Located'
      BY <2>2, <3>3
    <3>6. QED BY <3>3, <3>4, <3>5 DEF Advances
  <2>6. QED BY <2>4, <2>5
<1>3. CASE SendCancel
  <2>1. toHelper' \in Seq(Request)
    BY <1>3, PlainTyped, SendTyped DEF SendCancel, Simple
  <2>2. QED BY <1>3, <2>1 DEF SendCancel, Located
<1>4. CASE Receive
  <2>1. buffer' \in Seq(Response) /\ toClient' \in Seq(Response)
    BY <1>4 DEF Receive
  <2>2. QED BY <1>4, <2>1 DEF Receive, Located
<1>5. CASE ReceiveClosed
  <2>1. pc \in InStep
    BY <1>5 DEF ReceiveClosed, Waiting, InStep
  <2>2. Return(Lost) /\ UNCHANGED <<steps, delivered>>
    BY <1>5 DEF ReceiveClosed
  <2>3. Advances /\ pc' \in {"loop", "command"} /\ Located'
    BY <2>1, <2>2, CodesFacts, ReturnTyped
  <2>4. QED BY <1>5, <2>3 DEF ReceiveClosed, Advances
<1>6. QED BY <1>1, <1>2, <1>3, <1>4, <1>5

LEMMA PageStepsTyped ==
  ASSUME Typed, Cancel \/ Deliver \/ GuiCrash
  PROVE  Typed'
<1> USE DEF Typed, TypeOK, workerVars, pageVars, serverVars
<1>1. CASE Cancel
  BY <1>1 DEF Cancel, Located
<1>2. CASE Deliver
  <2>1. events[delivered + 1] \in Event
    BY <1>2 DEF Deliver
  <2>2. delivered' \in 0..Len(events')
    BY <1>2 DEF Deliver
  <2>3. chips' \in [StepId -> Mark] /\ result' \in Nat \cup {Pending}
    BY <1>2, <2>1 DEF Deliver, Event
  <2>4. QED BY <1>2, <2>2, <2>3 DEF Deliver, Located
<1>3. CASE GuiCrash
  <2>1. /\ buffer' \in Seq(Response) /\ toClient' \in Seq(Response)
        /\ connection' \in {"none", "open", "closed"}
    BY <1>3, EmptyTyped DEF GuiCrash, Close
  <2>2. QED BY <1>3, <2>1 DEF GuiCrash, Located, InStep
<1>4. QED BY <1>1, <1>2, <1>3

LEMMA StutterTyped ==
  ASSUME Typed, UNCHANGED vars
  PROVE  Typed'
BY DEF Typed, TypeOK, Located, vars, workerVars, pageVars, serverVars

LEMMA TypedInvariant == Spec => []Typed
<1>1. Init => Typed
  <2>1. Plain("auth") \in Request
    BY PlainTyped DEF Simple
  <2>2. /\ <<>> \in Seq(Step) /\ <<>> \in Seq(Response) /\ <<>> \in Seq(Request)
        /\ <<>> \in Seq(Event) /\ 0 \in 0..Len(<<>>)
    OBVIOUS
  <2>3. SUFFICES ASSUME Init
                 PROVE  Typed
    OBVIOUS
  <2>4. /\ delivered \in 0..Len(events) /\ events \in Seq(Event)
        /\ steps \in Seq(Step) /\ buffer \in Seq(Response)
        /\ toHelper \in Seq(Request) /\ toClient \in Seq(Response)
    BY <2>2, <2>3 DEF Init
  <2>5. /\ stepOk \in [StepId -> {"unset", "ok", "failed"}]
        /\ chips \in [StepId -> Mark]
        /\ applied \in [StepId -> {"no", "found", "begun", "done"}]
    BY <2>3 DEF Init, Mark
  <2>6. request \in Request /\ childCode \in Codes
    BY <2>1, <2>3, CodesFacts DEF Init
  <2>7. /\ index = 1 /\ errorCount = 0 /\ cancelRequested = FALSE /\ cancelSent = FALSE
        /\ pc = "launch" /\ result = Pending /\ connection = "none" /\ server = "none"
        /\ cancelFlag = FALSE /\ signal = "none" /\ graceOver = FALSE /\ child = "none"
    BY <2>3 DEF Init
  <2>8. /\ cancelRequested \in BOOLEAN /\ cancelSent \in BOOLEAN
        /\ cancelFlag \in BOOLEAN /\ graceOver \in BOOLEAN
    BY <2>7
  <2>9. index \in Nat \ {0} /\ errorCount \in Nat /\ result \in Nat \cup {Pending}
    BY <2>7
  <2>10. QED BY <2>4, <2>5, <2>6, <2>7, <2>8, <2>9 DEF Typed, TypeOK, Located, InStep
<1>2. Typed /\ [Next]_vars => Typed'
  BY HelperTyped, ConnectionStepsTyped, LoopStepsTyped, ExecuteStepsTyped, PageStepsTyped,
     StutterTyped DEF Next, Worker, Terminated
<1>3. QED BY <1>1, <1>2, PTL DEF Spec

(* Every variable of a session keeps its type, whatever the plan.            *)
THEOREM Typing == Spec => []TypeOK
<1>1. Typed => TypeOK
  BY DEF Typed
<1>2. QED BY <1>1, TypedInvariant, PTL

------------------------------------------------------------------------------
(* QuietWhenDone.  done() is posted on two paths, and both must be quiet:    *)
(* after stopHelper() has seen the helper exit, or before any execute        *)
(* request was written, when the helper can never start a command.  That is  *)
(* not an invariant by itself: it needs to be known what is on the socket,   *)
(* and that a running command has its helper beside it.                      *)

HasDone == \E n \in DOMAIN events : events[n].id = NoStep
Early == {"launch", "connect", "auth"}
Final == {"stopFailed", "ended", "crashed"}
NothingToExecute == \A n \in DOMAIN toHelper : toHelper[n].what \in Simple
QuietNow == \/ server \in Gone
            \/ server \in {"none", "accept", "serve"} /\ NothingToExecute

SummaryPosted == result # Pending => HasDone
PostedAtTheEnd == HasDone => pc \in Final
QuietOutside == HasDone \/ pc \in Early => QuietNow
LaunchBeforeServer == pc = "launch" => server = "none"
CommandHasHelper == child = "running" => server \in {"pump", "reap", "killed"}

QuietInv == /\ SummaryPosted /\ PostedAtTheEnd /\ QuietOutside
            /\ LaunchBeforeServer /\ CommandHasHelper

(* A step of the plan posts nothing but chips. *)
PostsNoDone == \/ UNCHANGED events
               \/ index \in DOMAIN steps /\ \E mark \in Mark : Post(Chip(Now.id, mark))

LEMMA ChipsAreNotDone ==
  ASSUME Typed, PostsNoDone, ~HasDone
  PROVE  ~HasDone'
<1>1. CASE UNCHANGED events
  BY <1>1 DEF HasDone
<1>2. CASE index \in DOMAIN steps /\ \E mark \in Mark : Post(Chip(Now.id, mark))
  <2>1. PICK mark \in Mark : events' = Append(events, Chip(Now.id, mark))
    BY <1>2 DEF Post
  <2>2. Now \in Step
    BY <1>2 DEF Typed, TypeOK, Now
  <2>3. Chip(Now.id, mark).id # NoStep
    BY <2>2, NamesAssumption DEF Step, Chip
  <2>4. events \in Seq(Event)
    BY DEF Typed, TypeOK
  <2>5. \A n \in DOMAIN events' : events'[n].id # NoStep
    <3>1. ASSUME NEW n \in DOMAIN events'
          PROVE  events'[n].id # NoStep
      <4>1. CASE n \in DOMAIN events
        <5>1. events'[n] = events[n]
          BY <2>1, <2>4, <4>1
        <5>2. QED BY <4>1, <5>1 DEF HasDone
      <4>2. CASE n \notin DOMAIN events
        <5>1. n = Len(events) + 1
          BY <2>1, <2>4, <3>1, <4>2
        <5>2. events'[n] = Chip(Now.id, mark)
          BY <2>1, <2>4, <5>1
        <5>3. QED BY <2>3, <5>2
      <4>3. QED BY <4>1, <4>2
    <3>2. QED BY <3>1
  <2>6. QED BY <2>5 DEF HasDone
<1>3. QED BY <1>1, <1>2 DEF PostsNoDone

LEMMA DoneIsDone ==
  ASSUME Typed, NEW n \in Nat, Post(Done(n))
  PROVE  HasDone'
<1>1. events \in Seq(Event)
  BY DEF Typed, TypeOK
<1>2. Len(events) + 1 \in DOMAIN events' /\ events'[Len(events) + 1] = Done(n)
  BY <1>1 DEF Post
<1>3. Done(n).id = NoStep
  BY DEF Done
<1>4. QED BY <1>2, <1>3 DEF HasDone

LEMMA SimpleLines ==
  ASSUME Typed, NothingToExecute
  PROVE  /\ toHelper # <<>> => /\ Head(toHelper).what \in Simple
                               /\ \A n \in DOMAIN Tail(toHelper) : Tail(toHelper)[n].what \in Simple
         /\ \A type \in Simple :
              \A n \in DOMAIN Append(toHelper, Plain(type)) :
                Append(toHelper, Plain(type))[n].what \in Simple
<1>1. toHelper \in Seq(Request)
  BY DEF Typed, TypeOK
<1>2. ASSUME toHelper # <<>>
      PROVE  /\ Head(toHelper).what \in Simple
             /\ \A n \in DOMAIN Tail(toHelper) : Tail(toHelper)[n].what \in Simple
  <2>1. Head(toHelper) = toHelper[1] /\ 1 \in DOMAIN toHelper
    BY <1>1, <1>2
  <2>2. \A n \in DOMAIN Tail(toHelper) :
          n + 1 \in DOMAIN toHelper /\ Tail(toHelper)[n] = toHelper[n + 1]
    BY <1>1, <1>2
  <2>3. QED BY <2>1, <2>2 DEF NothingToExecute
<1>3. ASSUME NEW type \in Simple, NEW n \in DOMAIN Append(toHelper, Plain(type))
      PROVE  Append(toHelper, Plain(type))[n].what \in Simple
  <2>1. Plain(type).what \in Simple
    BY DEF Plain, Execute
  <2>2. n \in DOMAIN toHelper \/ n = Len(toHelper) + 1
    BY <1>1, <1>3
  <2>3. CASE n \in DOMAIN toHelper
    <3>1. Append(toHelper, Plain(type))[n] = toHelper[n]
      BY <1>1, <2>3
    <3>2. QED BY <2>3, <3>1 DEF NothingToExecute
  <2>4. CASE n = Len(toHelper) + 1
    <3>1. Append(toHelper, Plain(type))[n] = Plain(type)
      BY <1>1, <2>4
    <3>2. QED BY <2>1, <3>1
  <2>5. QED BY <2>2, <2>3, <2>4
<1>4. QED BY <1>2, <1>3

LEMMA PlanStepQuiet ==
  ASSUME Typed, QuietInv, pc \notin Final, PostsNoDone, pc' \notin Early \cup Final,
         UNCHANGED <<result, server, child>>
  PROVE  QuietInv'
<1>1. ~HasDone
  BY DEF QuietInv, PostedAtTheEnd
<1>2. ~HasDone'
  BY <1>1, ChipsAreNotDone
<1>3. result' = Pending
  BY <1>1 DEF QuietInv, SummaryPosted
<1>4. QED
  BY <1>2, <1>3 DEF QuietInv, SummaryPosted, PostedAtTheEnd, QuietOutside, LaunchBeforeServer,
                    CommandHasHelper, Early, Final, Pending

LEMMA ReturnPosts ==
  ASSUME Typed, pc \in InStep, NEW code \in Codes, Return(code)
  PROVE  PostsNoDone /\ pc' \in {"loop", "command"}
<1>1. index \in DOMAIN steps
  BY DEF Typed, Located
<1>2. CASE \E mark \in {"ALREADY INSTALLED", "OK", "FAILED"} : NextStep(mark)
  BY <1>1, <1>2 DEF NextStep, PostsNoDone, Mark, Settled, Good
<1>3. CASE pc' = "command" /\ UNCHANGED <<index, stepOk, errorCount, events>>
  BY <1>3 DEF PostsNoDone
<1>4. QED BY <1>2, <1>3 DEF Return

LEMMA LoopStepsQuiet ==
  ASSUME Typed, QuietInv,
         \/ Authenticated \/ SkipStep \/ BeginStep \/ RunLocal \/ VerifyLocal \/ NoCommand
         \/ SendExecute \/ TakeLine \/ ReceiveClosed \/ EndSession
         \/ (Waiting /\ SendCancel) \/ (Waiting /\ Receive)
  PROVE  QuietInv'
<1>1. /\ pc \notin Final /\ pc' \notin Early \cup Final /\ PostsNoDone
      /\ UNCHANGED <<result, server, child>>
  <2> USE DEF Early, Final, pageVars, serverVars
  <2>1. CASE Authenticated
    BY <2>1 DEF Authenticated, PostsNoDone
  <2>2. CASE SkipStep
    BY <2>2 DEF SkipStep, PostsNoDone, Mark, Settled, Typed, TypeOK
  <2>3. CASE BeginStep
    BY <2>3 DEF BeginStep, PostsNoDone, Mark, Typed, TypeOK
  <2>4. CASE RunLocal
    <3>1. index \in DOMAIN steps
      BY <2>4 DEF RunLocal, Typed, Located, InStep
    <3>2. \/ pc' = "verify" /\ UNCHANGED <<index, stepOk, errorCount, events>>
          \/ \E mark \in {"OK", "FAILED"} : NextStep(mark)
      BY <2>4 DEF RunLocal
    <3>3. PostsNoDone /\ pc' \in {"loop", "verify"}
      BY <3>1, <3>2 DEF NextStep, PostsNoDone, Mark, Settled, Good
    <3>4. QED BY <2>4, <3>3 DEF RunLocal
  <2>5. CASE VerifyLocal
    <3>1. index \in DOMAIN steps
      BY <2>5 DEF VerifyLocal, Typed, Located, InStep
    <3>2. \E mark \in {"OK", "FAILED"} : NextStep(mark)
      BY <2>5 DEF VerifyLocal
    <3>3. PostsNoDone /\ pc' = "loop"
      BY <3>1, <3>2 DEF NextStep, PostsNoDone, Mark, Settled, Good
    <3>4. QED BY <2>5, <3>3 DEF VerifyLocal
  <2>6. CASE NoCommand
    <3>1. index \in DOMAIN steps
      BY <2>6 DEF NoCommand, Typed, Located, InStep
    <3>2. PostsNoDone /\ pc' = "loop"
      BY <2>6, <3>1 DEF NoCommand, NextStep, PostsNoDone, Mark, Settled, Good
    <3>3. QED BY <2>6, <3>2 DEF NoCommand
  <2>7. CASE SendExecute
    <3>1. pc \in InStep
      BY <2>7 DEF SendExecute, InStep
    <3>2. CASE HelperReadable
      BY <2>7, <3>2 DEF SendExecute, PostsNoDone
    <3>3. CASE ~HelperReadable
      <4>1. Return(Lost)
        BY <2>7, <3>3 DEF SendExecute
      <4>2. PostsNoDone /\ pc' \in {"loop", "command"}
        BY <3>1, <4>1, CodesFacts, ReturnPosts
      <4>3. QED BY <2>7, <4>2 DEF SendExecute
    <3>4. QED BY <3>2, <3>3
  <2>8. CASE TakeLine
    <3>1. pc \in InStep /\ Head(buffer) \in Response
      BY <2>8 DEF TakeLine, Waiting, InStep, Typed, TypeOK
    <3>2. Continue \/ \E code \in Codes : Return(code)
      <4>1. Head(buffer).code \in Codes
        BY <3>1 DEF Response
      <4>2. QED BY <2>8, <4>1, CodesFacts DEF TakeLine, CodeOf
    <3>3. CASE Continue
      BY <2>8, <3>3 DEF TakeLine, Waiting, Continue, PostsNoDone
    <3>4. CASE \E code \in Codes : Return(code)
      <4>1. PostsNoDone /\ pc' \in {"loop", "command"}
        BY <3>1, <3>4, ReturnPosts
      <4>2. QED BY <2>8, <4>1 DEF TakeLine, Waiting
    <3>5. QED BY <3>2, <3>3, <3>4
  <2>9. CASE ReceiveClosed
    <3>1. pc \in InStep /\ Return(Lost)
      BY <2>9 DEF ReceiveClosed, Waiting, InStep
    <3>2. PostsNoDone /\ pc' \in {"loop", "command"}
      BY <3>1, CodesFacts, ReturnPosts
    <3>3. QED BY <2>9, <3>2 DEF ReceiveClosed, Waiting
  <2>10. CASE EndSession
    BY <2>10 DEF EndSession, PostsNoDone
  <2>11. CASE Waiting /\ SendCancel
    BY <2>11 DEF SendCancel, Waiting, PostsNoDone
  <2>12. CASE Waiting /\ Receive
    BY <2>12 DEF Receive, Waiting, PostsNoDone
  <2>13. QED
    BY <2>1, <2>2, <2>3, <2>4, <2>5, <2>6, <2>7, <2>8, <2>9, <2>10, <2>11, <2>12
<1>2. QED BY <1>1, PlanStepQuiet

(* Before the plan starts, and at the end.                                   *)
LEMMA ConnectionStepsQuiet ==
  ASSUME Typed, QuietInv,
         \/ LaunchFails \/ LaunchSucceeds \/ ConnectFails \/ Connect \/ AuthenticationFails
         \/ StopHelper \/ (pc = "auth" /\ SendCancel) \/ (pc = "auth" /\ Receive)
  PROVE  QuietInv'
<1> USE DEF QuietInv, SummaryPosted, PostedAtTheEnd, QuietOutside, LaunchBeforeServer,
            CommandHasHelper, QuietNow, Gone, Early, Final, pageVars, serverVars
<1>1. CASE LaunchFails
  <2>1. HasDone'
    BY <1>1, DoneIsDone DEF LaunchFails
  <2>2. QED BY <1>1, <2>1 DEF LaunchFails, NothingToExecute
<1>2. CASE LaunchSucceeds
  BY <1>2 DEF LaunchSucceeds, NothingToExecute, HasDone
<1>3. CASE ConnectFails
  <2>1. HasDone'
    BY <1>3, DoneIsDone DEF ConnectFails
  <2>2. QED BY <1>3, <2>1 DEF ConnectFails, NothingToExecute
<1>4. CASE Connect
  <2>1. NothingToExecute'
    BY <1>4, SimpleLines DEF Connect, NothingToExecute, Simple
  <2>2. QED BY <1>4, <2>1 DEF Connect, HasDone
<1>5. CASE AuthenticationFails
  <2>1. HasDone'
    BY <1>5, DoneIsDone DEF AuthenticationFails
  <2>2. QED BY <1>5, <2>1 DEF AuthenticationFails, NothingToExecute
<1>6. CASE StopHelper
  <2>1. server \in Gone /\ server' = server /\ pc' = "ended" /\ UNCHANGED <<result, child>>
    BY <1>6 DEF StopHelper, HelperGone
  <2>2. CASE pc = "stop"
    <3>1. HasDone'
      BY <1>6, <2>2, DoneIsDone DEF StopHelper, Typed, TypeOK
    <3>2. QED BY <2>1, <3>1
  <2>3. CASE pc # "stop"
    <3>1. UNCHANGED events
      BY <1>6, <2>3 DEF StopHelper
    <3>2. QED BY <2>1, <3>1 DEF HasDone
  <2>4. QED BY <2>2, <2>3
<1>7. CASE pc = "auth" /\ SendCancel
  <2>1. server \notin Gone
    BY <1>7 DEF SendCancel, HelperReadable
  <2>2. NothingToExecute'
    BY <1>7, <2>1, SimpleLines DEF SendCancel, NothingToExecute, Simple
  <2>3. QED BY <1>7, <2>2 DEF SendCancel, HasDone
<1>8. CASE pc = "auth" /\ Receive
  BY <1>8 DEF Receive, NothingToExecute, HasDone
<1>9. QED BY <1>1, <1>2, <1>3, <1>4, <1>5, <1>6, <1>7, <1>8

LEMMA PageStepsQuiet ==
  ASSUME Typed, QuietInv, Cancel \/ Deliver \/ GuiCrash \/ UNCHANGED vars
  PROVE  QuietInv'
<1> USE DEF QuietInv, SummaryPosted, PostedAtTheEnd, QuietOutside, LaunchBeforeServer,
            CommandHasHelper, QuietNow, Early, Final, workerVars, pageVars, serverVars
<1>1. CASE Cancel
  BY <1>1 DEF Cancel, HasDone, NothingToExecute
<1>2. CASE Deliver
  <2>1. result' # Pending => HasDone
    <3>1. delivered + 1 \in DOMAIN events
      BY <1>2 DEF Deliver, Typed, TypeOK
    <3>2. CASE events[delivered + 1].id = NoStep
      BY <3>1, <3>2 DEF HasDone
    <3>3. CASE events[delivered + 1].id # NoStep
      BY <1>2, <3>3 DEF Deliver
    <3>4. QED BY <3>2, <3>3
  <2>2. /\ UNCHANGED <<pc, events, toHelper, server, child>>
    BY <1>2 DEF Deliver
  <2>3. QED BY <2>1, <2>2 DEF HasDone, NothingToExecute, Pending
<1>3. CASE GuiCrash
  BY <1>3 DEF GuiCrash, HasDone, NothingToExecute
<1>4. CASE UNCHANGED vars
  BY <1>4 DEF vars, HasDone, NothingToExecute
<1>5. QED BY <1>1, <1>2, <1>3, <1>4

LEMMA HelperStepsQuiet ==
  ASSUME Typed, QuietInv, Helper \/ GraceElapses \/ ChildExits \/ HelperCrash
  PROVE  QuietInv'
<1> USE DEF Gone, QuietInv, SummaryPosted, PostedAtTheEnd, QuietOutside, LaunchBeforeServer,
            CommandHasHelper, QuietNow, workerVars, pageVars, HelperUnchanged
<1>1. UNCHANGED <<pc, events, result>>
  BY DEF Helper, HelperAccepts, HelperGivesUp, HelperReads, HelperSeesEnd, HelperPumps,
         HelperReaps, GraceElapses, ChildExits, HelperCrash
<1>2. HasDone' = HasDone
  BY <1>1 DEF HasDone
<1>3. CASE HelperAccepts
  <2>1. NothingToExecute => NothingToExecute'
    BY <1>3, SimpleLines DEF HelperAccepts, NothingToExecute
  <2>2. QED BY <1>1, <1>2, <1>3, <2>1 DEF HelperAccepts
<1>4. CASE HelperGivesUp
  BY <1>1, <1>2, <1>4 DEF HelperGivesUp
<1>5. CASE HelperReads
  <2>1. NothingToExecute => NothingToExecute' /\ Head(toHelper).what \in Simple
    BY <1>5, SimpleLines DEF HelperReads, NothingToExecute
  <2>2. CASE Head(toHelper).what \in What /\ HandleExecute(Head(toHelper))
    <3>1. ~NothingToExecute
      BY <2>1, <2>2 DEF What, Simple
    <3>2. ~HasDone /\ pc \notin Early
      BY <1>5, <3>1 DEF HelperReads
    <3>3. \/ server' = server /\ child' = child
          \/ server' = "pump"
      BY <2>2 DEF HandleExecute
    <3>4. QED BY <1>1, <1>2, <1>5, <3>2, <3>3 DEF HelperReads, Early
  <2>3. CASE server' = "exited" /\ UNCHANGED child
    BY <1>1, <1>2, <1>5, <2>3 DEF HelperReads
  <2>4. CASE UNCHANGED <<server, child>>
    BY <1>1, <1>2, <1>5, <2>1, <2>4 DEF HelperReads
  <2>5. QED BY <1>5, <2>2, <2>3, <2>4 DEF HelperReads
<1>6. CASE HelperSeesEnd
  BY <1>1, <1>2, <1>6 DEF HelperSeesEnd
<1>7. CASE HelperPumps
  BY <1>1, <1>2, <1>7 DEF HelperPumps
<1>8. CASE HelperReaps
  BY <1>1, <1>2, <1>8 DEF HelperReaps
<1>9. CASE GraceElapses
  BY <1>1, <1>2, <1>9 DEF GraceElapses, NothingToExecute
<1>10. CASE ChildExits
  BY <1>1, <1>2, <1>10 DEF ChildExits, NothingToExecute
<1>11. CASE HelperCrash
  BY <1>1, <1>2, <1>11 DEF HelperCrash, HelperReadable
<1>12. QED BY <1>3, <1>4, <1>5, <1>6, <1>7, <1>8, <1>9, <1>10, <1>11 DEF Helper

LEMMA QuietInvariant == Spec => []QuietInv
<1>1. Init => QuietInv
  BY DEF Init, QuietInv, SummaryPosted, PostedAtTheEnd, QuietOutside, LaunchBeforeServer,
         CommandHasHelper, QuietNow, NothingToExecute, HasDone
<1>2. Typed /\ QuietInv /\ [Next]_vars => QuietInv'
  <2>1. SUFFICES ASSUME Typed, QuietInv, [Next]_vars
                 PROVE  QuietInv'
    OBVIOUS
  <2>2. SendCancel => Waiting \/ pc = "auth"
    BY DEF SendCancel
  <2>3. Receive => Waiting \/ pc = "auth"
    BY DEF Receive
  <2>4. QED
    BY <2>1, <2>2, <2>3, LoopStepsQuiet, ConnectionStepsQuiet, PageStepsQuiet,
       HelperStepsQuiet DEF Next, Worker, Terminated
<1>3. QED BY <1>1, <1>2, TypedInvariant, PTL DEF Spec

(* Once the page has its summary no command of the session is running,       *)
(* unless the helper was killed: for every plan, at every length.            *)
THEOREM Quiet == Spec => []QuietWhenDone
<1>1. Typed /\ QuietInv => QuietWhenDone
  BY DEF QuietInv, SummaryPosted, PostedAtTheEnd, QuietOutside, CommandHasHelper, QuietNow,
         Gone, QuietWhenDone
<1>2. QED BY <1>1, TypedInvariant, QuietInvariant, PTL

-----------------------------------------------------------------------------
(* Without Stop an answer is always that to the current request, whatever    *)
(* the plan is.                                                              *)
IsFinal(line) == line.type \in {"finished", "rejected"}
Finals(lines) == {n \in DOMAIN lines : IsFinal(lines[n])}
Asked == {n \in DOMAIN toHelper : toHelper[n].what \in What}
Busy == server \in {"pump", "reap"}

NoCancelIn(lines) == \A n \in DOMAIN lines : lines[n].type # "cancel_ack"

Outside == {"launch", "connect", "stopFailed", "ended", "crashed"}

(* Nobody has spoken of Stop. *)
NoCancel ==
  /\ \A n \in DOMAIN toHelper : toHelper[n].what # "cancel"
  /\ NoCancelIn(buffer) /\ NoCancelIn(toClient)

Unconnected ==
  /\ pc \in {"launch", "connect"} => connection = "none"
  /\ connection = "none" => /\ toHelper = <<>> /\ pc \in Outside
                            /\ server \in {"none", "accept", "exited", "killed"}
  /\ connection # "open" => buffer = <<>> /\ toClient = <<>>

(* The request is on its way, being served, or answered: one of these.       *)
OnItsWay ==
  connection = "open" /\ HelperReadable =>
    /\ \A n \in Asked : Waiting /\ toHelper[n].step = index
    /\ \A m, n \in Asked : m = n
Served ==
  connection = "open" /\ Busy => Waiting /\ request.step = index /\ Asked = {}
Answered ==
  /\ \A n \in Finals(buffer) : Waiting /\ buffer[n].step = index
  /\ \A n \in Finals(toClient) : Waiting /\ toClient[n].step = index
  /\ \A m, n \in Finals(buffer) : m = n
  /\ \A m, n \in Finals(toClient) : m = n
  /\ Finals(buffer) # {} => Finals(toClient) = {}
  /\ Finals(buffer) \cup Finals(toClient) # {} /\ HelperReadable => ~Busy /\ Asked = {}

AnswerInv == Unconnected /\ (~cancelRequested => NoCancel /\ OnItsWay /\ Served /\ Answered)

(* What the helper says besides answers leaves the answers as they were.     *)
LEMMA OrdinaryReply ==
  ASSUME toClient \in Seq(Response), NEW answers \in Seq(Response), Reply(answers),
         Finals(answers) = {}
  PROVE  /\ Finals(toClient') = Finals(toClient)
         /\ \A n \in Finals(toClient) : toClient'[n] = toClient[n]
<1>1. CASE connection = "open"
  <2>1. toClient' = toClient \o answers
    BY <1>1 DEF Reply
  <2>2. /\ Len(toClient') = Len(toClient) + Len(answers)
        /\ \A n \in 1..Len(toClient) : toClient'[n] = toClient[n]
        /\ \A n \in Len(toClient) + 1 .. Len(toClient') : toClient'[n] = answers[n - Len(toClient)]
    BY <2>1
  <2>3. \A n \in Len(toClient) + 1 .. Len(toClient') : n - Len(toClient) \in DOMAIN answers
    BY <2>2
  <2>4. \A n \in Len(toClient) + 1 .. Len(toClient') : ~IsFinal(toClient'[n])
    BY <2>2, <2>3 DEF Finals
  <2>5. toClient' \in Seq(Response)
    BY <2>1
  <2>6. DOMAIN toClient = 1..Len(toClient) /\ DOMAIN toClient' = 1..Len(toClient')
    BY <2>5
  <2>7. \A n \in DOMAIN toClient' : n \in DOMAIN toClient \/ n \in Len(toClient) + 1 .. Len(toClient')
    BY <2>6
  <2>8. DOMAIN toClient \subseteq DOMAIN toClient'
    BY <2>2, <2>6
  <2> QED
    BY <2>2, <2>4, <2>6, <2>7, <2>8 DEF Finals
<1>2. CASE connection # "open"
  BY <1>2 DEF Reply
<1> QED
  BY <1>1, <1>2

(* An answer where there was none is the only one. *)
LEMMA FinalReply ==
  ASSUME toClient \in Seq(Response), NEW answers \in Seq(Response), Reply(answers),
         connection = "open", Finals(toClient) = {}, NEW k \in DOMAIN answers, Finals(answers) = {k}
  PROVE  /\ Finals(toClient') = {Len(toClient) + k}
         /\ toClient'[Len(toClient) + k] = answers[k]
<1>1. toClient' = toClient \o answers
  BY DEF Reply
<1>2. /\ Len(toClient') = Len(toClient) + Len(answers) /\ toClient' \in Seq(Response)
      /\ \A n \in 1..Len(toClient) : toClient'[n] = toClient[n]
      /\ \A n \in Len(toClient) + 1 .. Len(toClient') : toClient'[n] = answers[n - Len(toClient)]
  BY <1>1
<1>3. DOMAIN toClient = 1..Len(toClient) /\ DOMAIN toClient' = 1..Len(toClient')
      /\ DOMAIN answers = 1..Len(answers)
  BY <1>2
<1>4. Len(toClient) + k \in DOMAIN toClient' /\ toClient'[Len(toClient) + k] = answers[k]
  BY <1>2, <1>3
<1>5. \A n \in DOMAIN toClient' : IsFinal(toClient'[n]) => n = Len(toClient) + k
  <2> SUFFICES ASSUME NEW n \in DOMAIN toClient', IsFinal(toClient'[n])
               PROVE  n = Len(toClient) + k
    OBVIOUS
  <2>1. n \notin DOMAIN toClient
    BY <1>2, <1>3 DEF Finals
  <2>2. n \in Len(toClient) + 1 .. Len(toClient')
    BY <1>3, <2>1
  <2>3. n - Len(toClient) \in DOMAIN answers /\ IsFinal(answers[n - Len(toClient)])
    BY <1>2, <1>3, <2>2
  <2>4. n - Len(toClient) = k
    BY <2>3 DEF Finals
  <2> QED
    BY <1>3, <2>4
<1>6. IsFinal(answers[k])
  BY DEF Finals
<1> QED
  BY <1>4, <1>5, <1>6 DEF Finals

LEMMA ReplyNoCancel ==
  ASSUME toClient \in Seq(Response), NEW answers \in Seq(Response), Reply(answers),
         NoCancelIn(answers), NoCancelIn(toClient)
  PROVE  NoCancelIn(toClient')
<1>1. CASE connection = "open"
  <2>1. toClient' = toClient \o answers
    BY <1>1 DEF Reply
  <2>2. /\ Len(toClient') = Len(toClient) + Len(answers) /\ toClient' \in Seq(Response)
        /\ \A n \in 1..Len(toClient) : toClient'[n] = toClient[n]
        /\ \A n \in Len(toClient) + 1 .. Len(toClient') : toClient'[n] = answers[n - Len(toClient)]
    BY <2>1
  <2>3. \A n \in DOMAIN toClient' :
          \/ n \in DOMAIN toClient /\ toClient'[n] = toClient[n]
          \/ n - Len(toClient) \in DOMAIN answers /\ toClient'[n] = answers[n - Len(toClient)]
    <3> SUFFICES ASSUME NEW n \in DOMAIN toClient', n \notin DOMAIN toClient
                 PROVE  /\ n - Len(toClient) \in DOMAIN answers
                        /\ toClient'[n] = answers[n - Len(toClient)]
      BY <2>2
    <3>1. n \in Len(toClient) + 1 .. Len(toClient')
      BY <2>2
    <3> QED
      BY <2>2, <3>1
  <2> QED
    BY <2>3 DEF NoCancelIn
<1>2. CASE connection # "open"
  BY <1>2 DEF Reply
<1> QED
  BY <1>1, <1>2

(* Outside a request nothing is on its way, so the worker may move on.       *)
LEMMA NothingAsked ==
  ASSUME AnswerInv, ~cancelRequested, ~Waiting
  PROVE  /\ Finals(buffer) = {} /\ Finals(toClient) = {}
         /\ connection = "open" /\ HelperReadable => Asked = {}
         /\ connection = "open" => ~Busy
BY DEF AnswerInv, OnItsWay, Served, Answered

LEMMA MovesOn ==
  ASSUME AnswerInv, ~Waiting, pc' \in {"launch", "connect"} => connection = "none",
         connection = "none" => pc' \in Outside,
         UNCHANGED <<toHelper, buffer, toClient, connection, server, request, cancelRequested>>
  PROVE  AnswerInv'
<1>1. Unconnected'
  BY DEF AnswerInv, Unconnected
<1>2. ASSUME ~cancelRequested PROVE (NoCancel /\ OnItsWay /\ Served /\ Answered)'
  <2>1. NoCancel'
    BY <1>2 DEF AnswerInv, NoCancel
  <2>2. /\ Finals(buffer') = {} /\ Finals(toClient') = {}
        /\ connection' = "open" /\ HelperReadable' => Asked' = {}
        /\ connection' = "open" => ~Busy'
    BY <1>2, NothingAsked DEF Asked, Busy, HelperReadable
  <2> QED
    BY <2>1, <2>2 DEF OnItsWay, Served, Answered
<1> QED
  BY <1>1, <1>2 DEF AnswerInv

------------------------------------------------------------------------------
(* The helper *)

NoCancelAsked == \A n \in DOMAIN toHelper : toHelper[n].what # "cancel"

LEMMA HeadAnswered ==
  ASSUME toHelper \in Seq(Request), toHelper # <<>>, toHelper' = Tail(toHelper)
  PROVE  /\ \A n \in Asked' : n + 1 \in Asked /\ toHelper'[n] = toHelper[n + 1] /\ n + 1 # 1
         /\ NoCancelAsked => NoCancelAsked' /\ Head(toHelper).what # "cancel"
         /\ Head(toHelper).what \in What => 1 \in Asked /\ toHelper[1] = Head(toHelper)
<1>1. /\ toHelper' \in Seq(Request) /\ Len(toHelper') = Len(toHelper) - 1
      /\ \A n \in DOMAIN toHelper' : n + 1 \in DOMAIN toHelper /\ toHelper'[n] = toHelper[n + 1]
      /\ Head(toHelper) = toHelper[1] /\ 1 \in DOMAIN toHelper
  OBVIOUS
<1>2. \A n \in DOMAIN toHelper' : n \in Nat /\ n + 1 # 1
  BY <1>1
<1> QED
  BY <1>1, <1>2 DEF Asked, NoCancelAsked

HelperOnly == UNCHANGED <<workerVars, cancelRequested, connection>>

(* It takes a line that asks for nothing, or leaves, and says no answer.     *)
LEMMA HelperSpeaks ==
  ASSUME AnswerInv, Typed, HelperReadable, ~Busy, ~Busy', HelperOnly,
         \/ toHelper' = toHelper
         \/ toHelper # <<>> /\ toHelper' = Tail(toHelper),
         connection = "none" => server' \in {"accept", "exited"},
         NEW answers \in Seq(Response), Finals(answers) = {}, NoCancelIn(answers), Reply(answers)
  PROVE  AnswerInv'
<1>1. toHelper \in Seq(Request) /\ toClient \in Seq(Response) /\ pc' = pc /\ index' = index
      /\ buffer' = buffer /\ connection' = connection /\ cancelRequested' = cancelRequested
  BY DEF Typed, TypeOK, HelperOnly, workerVars
<1>2. Unconnected'
  BY <1>1 DEF AnswerInv, Unconnected, Reply
<1>3. ASSUME ~cancelRequested PROVE (NoCancel /\ OnItsWay /\ Served /\ Answered)'
  <2>1. NoCancelAsked' /\ \A n \in Asked' : \E m \in Asked : toHelper'[n] = toHelper[m]
    BY <1>1, <1>3, HeadAnswered DEF AnswerInv, NoCancel, NoCancelAsked, Asked
  <2>2. \A m, n \in Asked' : connection = "open" => m = n
    <3>1. CASE toHelper' = toHelper
      BY <1>3, <3>1 DEF AnswerInv, OnItsWay, Asked
    <3>2. CASE toHelper # <<>> /\ toHelper' = Tail(toHelper)
      <4>1. \A n \in Asked' : n + 1 \in Asked /\ n \in Nat
        BY <1>1, <3>2, HeadAnswered DEF Asked
      <4> QED
        BY <1>3, <4>1 DEF AnswerInv, OnItsWay
    <3> QED
      BY <3>1, <3>2
  <2>3. OnItsWay'
    BY <1>1, <1>3, <2>1, <2>2 DEF AnswerInv, OnItsWay, Waiting, HelperReadable
  <2>4. /\ Finals(toClient') = Finals(toClient)
        /\ \A n \in Finals(toClient) : toClient'[n] = toClient[n]
    BY <1>1, OrdinaryReply
  <2>5. Asked = {} => Asked' = {}
    BY <2>1
  <2>6. Answered'
    BY <1>1, <1>3, <2>4, <2>5 DEF AnswerInv, Answered, Waiting
  <2>7. NoCancel'
    BY <1>1, <1>3, <2>1, ReplyNoCancel DEF AnswerInv, NoCancel, NoCancelAsked
  <2> QED
    BY <2>3, <2>6, <2>7 DEF Served
<1> QED
  BY <1>1, <1>2, <1>3 DEF AnswerInv

LEMMA Ordinary ==
  ASSUME NEW type \in AnswerType \ {"finished", "rejected", "cancel_ack"}
  PROVE  /\ <<Notice(type)>> \in Seq(Response)
         /\ Finals(<<Notice(type)>>) = {} /\ NoCancelIn(<<Notice(type)>>)
<1>1. <<Notice(type)>> \in Seq(Response)
  BY AnswerTyped, CodesFacts
<1>2. DOMAIN <<Notice(type)>> = {1} /\ <<Notice(type)>>[1].type = type
  BY DEF Notice, Answer
<1> QED
  BY <1>1, <1>2 DEF Finals, IsFinal, NoCancelIn, AnswerType

LEMMA Silence ==
  /\ <<>> \in Seq(Response) /\ Finals(<<>>) = {} /\ NoCancelIn(<<>>)
  /\ toClient \in Seq(Response) /\ toClient' = toClient => Reply(<<>>)
<1>1. toClient \in Seq(Response) => toClient \o <<>> = toClient
  OBVIOUS
<1> QED
  BY <1>1 DEF Finals, NoCancelIn, Reply

LEMMA SpeakingSteps ==
  ASSUME AnswerInv, Typed, HelperAccepts \/ HelperGivesUp \/ HelperSeesEnd
  PROVE  AnswerInv'
<1> USE DEF HelperUnchanged, HelperOnly, HelperReadable, Gone, Busy
<1>1. CASE HelperAccepts
  <2>1. toHelper # <<>> /\ toHelper' = Tail(toHelper) /\ Reply(<<Notice("auth_ok")>>)
        /\ server = "accept" /\ server' = "serve" /\ connection # "none"
    BY <1>1 DEF HelperAccepts, AnswerInv, Unconnected
  <2> QED
    BY <1>1, <2>1, Ordinary, HelperSpeaks DEF HelperAccepts, AnswerType
<1>2. CASE HelperGivesUp
  <2>1. toClient \in Seq(Response) /\ toClient' = toClient
    BY <1>2 DEF HelperGivesUp, Typed, TypeOK
  <2> QED
    BY <1>2, <2>1, Silence, HelperSpeaks DEF HelperGivesUp
<1>3. CASE HelperSeesEnd
  <2>1. toClient \in Seq(Response) /\ toClient' = toClient
    BY <1>3 DEF HelperSeesEnd, Typed, TypeOK
  <2> QED
    BY <1>3, <2>1, Silence, HelperSpeaks DEF HelperSeesEnd
<1> QED
  BY <1>1, <1>2, <1>3

(* It takes the request: there is no other, and no answer yet.               *)
LEMMA RequestTaken ==
  ASSUME AnswerInv, Typed, ~cancelRequested, connection = "open", HelperReadable,
         toHelper # <<>>, toHelper' = Tail(toHelper), Head(toHelper).what \in What
  PROVE  /\ Asked' = {} /\ Waiting /\ Head(toHelper).step = index
         /\ Finals(buffer) = {} /\ Finals(toClient) = {}
<1>1. 1 \in Asked /\ toHelper[1] = Head(toHelper)
      /\ \A n \in Asked' : n + 1 \in Asked /\ n + 1 # 1
  BY HeadAnswered DEF Typed, TypeOK
<1>2. \A n \in Asked : n = 1
  BY <1>1 DEF AnswerInv, OnItsWay
<1> QED
  BY <1>1, <1>2 DEF AnswerInv, OnItsWay, Answered

LEMMA AnswerFacts ==
  ASSUME NEW k \in Nat, NEW code \in Codes, NEW type \in {"finished", "rejected"}
  PROVE  /\ <<Answer(type, k, code)>> \in Seq(Response)
         /\ <<Notice("started"), Answer(type, k, code)>> \in Seq(Response)
         /\ Finals(<<Answer(type, k, code)>>) = {1} /\ NoCancelIn(<<Answer(type, k, code)>>)
         /\ Finals(<<Notice("started"), Answer(type, k, code)>>) = {2}
         /\ NoCancelIn(<<Notice("started"), Answer(type, k, code)>>)
         /\ <<Answer(type, k, code)>>[1].step = k
         /\ <<Notice("started"), Answer(type, k, code)>>[2].step = k
<1>1. Answer(type, k, code) \in Response /\ Notice("started") \in Response
  BY CodesFacts DEF Answer, Notice, Response, AnswerType
<1>2. /\ DOMAIN <<Answer(type, k, code)>> = {1}
      /\ DOMAIN <<Notice("started"), Answer(type, k, code)>> = {1, 2}
      /\ Answer(type, k, code).type = type /\ Answer(type, k, code).step = k
      /\ Notice("started").type = "started"
  BY DEF Answer, Notice
<1> QED
  BY <1>1, <1>2 DEF Finals, IsFinal, NoCancelIn

(* One answer to the current request, and nothing else, is under way.        *)
LEMMA AnswerSent ==
  ASSUME AnswerInv, Typed, ~cancelRequested, connection = "open", HelperOnly, NoCancelAsked',
         Asked' = {}, ~Busy', Waiting, Finals(buffer) = {}, Finals(toClient) = {},
         NEW answers \in Seq(Response), NEW k \in DOMAIN answers, Finals(answers) = {k},
         answers[k].step = index, NoCancelIn(answers), Reply(answers)
  PROVE  AnswerInv'
<1>1. toClient \in Seq(Response) /\ pc' = pc /\ index' = index
      /\ buffer' = buffer /\ connection' = connection /\ cancelRequested' = cancelRequested
  BY DEF Typed, TypeOK, HelperOnly, workerVars
<1>2. Finals(toClient') = {Len(toClient) + k} /\ toClient'[Len(toClient) + k] = answers[k]
  BY <1>1, FinalReply
<1>3. Unconnected'
  BY <1>1 DEF AnswerInv, Unconnected
<1>4. Answered'
  BY <1>1, <1>2 DEF Answered, Waiting
<1>5. NoCancel'
  BY <1>1, ReplyNoCancel DEF AnswerInv, NoCancel, NoCancelAsked
<1> QED
  BY <1>1, <1>3, <1>4, <1>5 DEF AnswerInv, OnItsWay, Served

(* With Stop pressed, or the client gone, little is left to keep.            *)
LEMMA NoConversation ==
  ASSUME AnswerInv, HelperOnly, connection # "none",
         connection # "open" => toClient' = toClient,
         \/ cancelRequested
         \/ connection # "open" /\ NoCancelAsked'
  PROVE  AnswerInv'
<1>1. pc' = pc /\ index' = index /\ buffer' = buffer /\ connection' = connection
      /\ cancelRequested' = cancelRequested
  BY DEF HelperOnly, workerVars
<1>2. Unconnected'
  BY <1>1 DEF AnswerInv, Unconnected
<1>3. ASSUME ~cancelRequested PROVE (NoCancel /\ OnItsWay /\ Served /\ Answered)'
  <2>1. connection # "open" /\ NoCancelAsked' /\ buffer' = <<>> /\ toClient' = <<>>
    BY <1>1, <1>3 DEF AnswerInv, Unconnected
  <2> QED
    BY <1>1, <2>1 DEF NoCancel, NoCancelAsked, NoCancelIn, OnItsWay, Served, Answered, Finals
<1> QED
  BY <1>1, <1>2, <1>3 DEF AnswerInv

LEMMA ExecutingStep ==
  ASSUME AnswerInv, Typed, server = "serve", toHelper # <<>>, toHelper' = Tail(toHelper),
         Head(toHelper).what \in What, HandleExecute(Head(toHelper)), HelperOnly
  PROVE  AnswerInv'
<1> DEFINE line == Head(toHelper)
<1>1. toHelper \in Seq(Request) /\ toClient \in Seq(Response) /\ line.step \in Nat
      /\ HelperReadable /\ connection # "none"
  BY HeadRequest DEF Typed, TypeOK, HelperReadable, Gone, AnswerInv, Unconnected
<1>2. ~cancelRequested => NoCancelAsked'
  BY <1>1, HeadAnswered DEF AnswerInv, NoCancel, NoCancelAsked
<1>3. CASE cancelRequested \/ connection # "open"
  <2>1. connection # "open" => toClient' = toClient
    BY DEF HandleExecute, Reply
  <2> QED
    BY <1>1, <1>2, <1>3, <2>1, NoConversation
<1>4. CASE ~cancelRequested /\ connection = "open"
  <2>1. Asked' = {} /\ Waiting /\ line.step = index /\ Finals(buffer) = {} /\ Finals(toClient) = {}
    BY <1>1, <1>4, RequestTaken
  <2>2. CASE Reply(<<Answer("rejected", line.step, Lost)>>) /\ server' = server
    <3>1. 1 \in DOMAIN <<Answer("rejected", line.step, Lost)>> /\ ~Busy'
      BY <2>2 DEF Busy
    <3> QED
      BY <1>1, <1>2, <1>4, <2>1, <2>2, <3>1, AnswerFacts, CodesFacts, AnswerSent
  <2>3. CASE Reply(<<Notice("started"), Answer("finished", line.step, Lost)>>) /\ server' = server
    <3>1. 2 \in DOMAIN <<Notice("started"), Answer("finished", line.step, Lost)>> /\ ~Busy'
      BY <2>3 DEF Busy
    <3> QED
      BY <1>1, <1>2, <1>4, <2>1, <2>3, <3>1, AnswerFacts, CodesFacts, AnswerSent
  <2>4. CASE Reply(<<Notice("started")>>) /\ server' = "pump" /\ request' = line
    <3>1. pc' = pc /\ index' = index /\ buffer' = buffer /\ connection' = connection
          /\ cancelRequested' = cancelRequested
      BY DEF HelperOnly, workerVars
    <3>2. Finals(toClient') = {} /\ NoCancelIn(toClient')
      <4>1. NoCancelIn(toClient)
        BY <1>4 DEF AnswerInv, NoCancel
      <4> QED
        BY <1>1, <2>1, <2>4, <4>1, Ordinary, OrdinaryReply, ReplyNoCancel DEF AnswerType
    <3>3. Unconnected'
      BY <1>4, <3>1 DEF AnswerInv, Unconnected
    <3>4. NoCancel'
      BY <1>2, <1>4, <3>1, <3>2 DEF AnswerInv, NoCancel, NoCancelAsked
    <3>5. Served' /\ OnItsWay'
      BY <2>1, <2>4, <3>1 DEF Served, OnItsWay, Waiting
    <3>6. Answered'
      BY <2>1, <3>1, <3>2 DEF Answered
    <3> QED
      BY <3>3, <3>4, <3>5, <3>6 DEF AnswerInv
  <2> QED
    BY <2>2, <2>3, <2>4 DEF HandleExecute
<1> QED
  BY <1>3, <1>4

LEMMA ReadingStep ==
  ASSUME AnswerInv, Typed, HelperReads
  PROVE  AnswerInv'
<1> DEFINE line == Head(toHelper)
<1>1. server = "serve" /\ toHelper # <<>> /\ toHelper' = Tail(toHelper) /\ HelperOnly
      /\ toHelper \in Seq(Request) /\ connection # "none"
  BY DEF HelperReads, HelperOnly, HelperUnchanged, Typed, TypeOK, AnswerInv, Unconnected
<1>2. CASE line.what \in What /\ HandleExecute(line)
  BY <1>1, <1>2, ExecutingStep
<1>3. CASE line.what = "shutdown" /\ Reply(<<Notice("shutdown_ack")>>) /\ server' = "exited"
  BY <1>1, <1>3, Ordinary, HelperSpeaks DEF AnswerType, HelperReadable, Gone, Busy
<1>4. CASE line.what = "cancel" /\ Reply(<<Notice("cancel_ack")>>)
  <2>1. cancelRequested
    BY <1>1, <1>4, HeadAnswered DEF AnswerInv, NoCancel, NoCancelAsked
  <2>2. connection # "open" => toClient' = toClient
    BY <1>4 DEF Reply
  <2> QED
    BY <1>1, <2>1, <2>2, NoConversation
<1> QED
  BY <1>2, <1>3, <1>4 DEF HelperReads

LEMMA PumpingStep ==
  ASSUME AnswerInv, Typed, HelperPumps
  PROVE  AnswerInv'
<1> DEFINE answers == [n \in 1..Cancels |-> Notice("cancel_ack")]
<1>1. HelperOnly /\ toHelper' = <<>> /\ NoCancelAsked' /\ Asked' = {} /\ Reply(answers)
      /\ connection # "none" /\ server = "pump" /\ server' = "reap" /\ request' = request
  BY DEF HelperPumps, HelperUnchanged, HelperOnly, AnswerInv, Unconnected, NoCancelAsked, Asked
<1>2. CASE cancelRequested \/ connection # "open"
  BY <1>1, <1>2, NoConversation DEF Reply
<1>3. CASE ~cancelRequested /\ connection = "open"
  <2>1. pc' = pc /\ index' = index /\ buffer' = buffer /\ connection' = connection
        /\ cancelRequested' = cancelRequested /\ toClient \in Seq(Response)
    BY <1>1 DEF HelperOnly, workerVars, Typed, TypeOK
  <2>2. {n \in DOMAIN toHelper : toHelper[n].what = "cancel"} = {}
    BY <1>3 DEF AnswerInv, NoCancel
  <2>3. Cancels = 0
    BY <2>2, FS_EmptySet DEF Cancels
  <2>4. answers \in Seq(Response) /\ DOMAIN answers = {}
    BY <2>3, AnswerTyped, CodesFacts DEF AnswerType
  <2>5. Finals(answers) = {} /\ NoCancelIn(answers)
    BY <2>4 DEF Finals, NoCancelIn
  <2>6. Waiting /\ request.step = index /\ Finals(buffer) = {} /\ Finals(toClient) = {}
    BY <1>1, <1>3 DEF AnswerInv, Served, Answered, Busy, HelperReadable, Gone
  <2>7. Finals(toClient') = {}
    BY <1>1, <2>1, <2>4, <2>5, <2>6, OrdinaryReply
  <2>8. NoCancel'
    BY <1>1, <1>3, <2>1, <2>4, <2>5, ReplyNoCancel DEF AnswerInv, NoCancel, NoCancelAsked
  <2>9. Unconnected'
    BY <1>3, <2>1 DEF AnswerInv, Unconnected
  <2>10. Served' /\ OnItsWay' /\ Answered'
    BY <1>1, <2>1, <2>6, <2>7 DEF Served, OnItsWay, Answered, Waiting
  <2> QED
    BY <2>8, <2>9, <2>10 DEF AnswerInv
<1> QED
  BY <1>2, <1>3

(* Whatever AnswerInv speaks of stays, or Stop was pressed. *)
LEMMA Kept ==
  ASSUME AnswerInv,
         UNCHANGED <<pc, index, toHelper, buffer, toClient, connection, request>>,
         server' = server \/ server' = "killed" \/ (Busy /\ server' = "pump"),
         cancelRequested' = cancelRequested \/ cancelRequested'
  PROVE  AnswerInv'
<1>1. Busy' => Busy
  BY DEF Busy
<1>2. HelperReadable' => HelperReadable
  BY DEF Busy, HelperReadable, Gone
<1>3. Unconnected'
  BY DEF AnswerInv, Unconnected, Busy
<1>4. ASSUME ~cancelRequested' PROVE (NoCancel /\ OnItsWay /\ Served /\ Answered)'
  <2>1. NoCancel /\ OnItsWay /\ Served /\ Answered
    BY <1>4 DEF AnswerInv
  <2>2. Asked' = Asked /\ Waiting' = Waiting
    BY DEF Asked, Waiting
  <2>3. NoCancel' /\ OnItsWay' /\ Served'
    BY <1>1, <1>2, <2>1, <2>2 DEF NoCancel, OnItsWay, Served
  <2>4. Answered'
    BY <1>1, <1>2, <2>1, <2>2 DEF Answered
  <2> QED
    BY <2>1, <2>3, <2>4
<1> QED
  BY <1>3, <1>4 DEF AnswerInv

LEMMA ReapingStep ==
  ASSUME AnswerInv, Typed, HelperReaps
  PROVE  AnswerInv'
<1>1. HelperOnly /\ toHelper' = toHelper /\ connection # "none" /\ server = "reap"
      /\ request' = request /\ request.step \in Nat /\ childCode \in Codes
  BY DEF HelperReaps, HelperUnchanged, HelperOnly, AnswerInv, Unconnected, Typed, TypeOK, Request
<1>2. CASE server' = "pump" /\ toClient' = toClient
  <2>1. UNCHANGED <<pc, index, toHelper, buffer, toClient, connection, request, cancelRequested>>
    BY <1>1, <1>2 DEF HelperOnly, workerVars
  <2> QED
    BY <1>1, <1>2, <2>1, Kept DEF Busy
<1>3. CASE Reply(<<Answer("finished", request.step, childCode)>>) /\ server' = "serve"
  <2>1. ~cancelRequested => NoCancelAsked'
    BY <1>1 DEF AnswerInv, NoCancel, NoCancelAsked
  <2>2. CASE cancelRequested \/ connection # "open"
    BY <1>1, <1>3, <2>1, <2>2, NoConversation DEF Reply
  <2>3. CASE ~cancelRequested /\ connection = "open"
    <3>1. Waiting /\ request.step = index /\ Asked = {} /\ Finals(buffer) = {}
          /\ Finals(toClient) = {}
      BY <1>1, <2>3 DEF AnswerInv, Served, Answered, Busy, HelperReadable, Gone
    <3>2. Asked' = {} /\ ~Busy' /\ 1 \in DOMAIN <<Answer("finished", request.step, childCode)>>
      BY <1>1, <1>3, <3>1 DEF Asked, Busy
    <3> QED
      BY <1>1, <1>3, <2>1, <2>3, <3>1, <3>2, AnswerFacts, AnswerSent
  <2> QED
    BY <2>2, <2>3
<1> QED
  BY <1>2, <1>3 DEF HelperReaps

------------------------------------------------------------------------------
(* The worker and the page *)

LEMMA HangsUp ==
  ASSUME AnswerInv, Close, pc' \notin {"launch", "connect"}, cancelRequested' = cancelRequested,
         NoCancelAsked => NoCancelAsked'
  PROVE  AnswerInv'
<1>1. Unconnected'
  BY DEF Close, Unconnected
<1>2. Finals(<<>>) = {} /\ NoCancelIn(<<>>)
  BY DEF Finals, NoCancelIn
<1>3. ASSUME ~cancelRequested PROVE (NoCancel /\ OnItsWay /\ Served /\ Answered)'
  BY <1>2, <1>3 DEF AnswerInv, Close, NoCancel, NoCancelAsked, OnItsWay, Served, Answered
<1> QED
  BY <1>1, <1>3 DEF AnswerInv

LEMMA ConnectingSteps ==
  ASSUME AnswerInv, Typed, LaunchSucceeds \/ Connect
  PROVE  AnswerInv'
<1>1. connection = "none" /\ toHelper = <<>> /\ buffer = <<>> /\ toClient = <<>>
      /\ cancelRequested' = cancelRequested /\ buffer' = <<>> /\ toClient' = <<>>
      /\ server' = "accept"
  BY DEF LaunchSucceeds, Connect, AnswerInv, Unconnected, serverVars
<1>2. Finals(<<>>) = {} /\ NoCancelIn(<<>>)
  BY DEF Finals, NoCancelIn
<1>3. /\ \/ toHelper' = <<>> /\ connection' = "none" /\ pc' = "connect"
         \/ toHelper' = <<Plain("auth")>> /\ connection' = "open" /\ pc' = "auth"
      /\ \A n \in DOMAIN toHelper' : toHelper'[n].what = "auth"
  BY <1>1 DEF LaunchSucceeds, Connect, Plain, Execute
<1>4. Unconnected'
  BY <1>1, <1>3 DEF Unconnected, Outside
<1>5. Asked' = {} /\ NoCancel' /\ ~Busy'
  BY <1>1, <1>2, <1>3 DEF Asked, NoCancel, What, Busy
<1>6. OnItsWay' /\ Served' /\ Answered'
  BY <1>1, <1>2, <1>5 DEF OnItsWay, Served, Answered
<1> QED
  BY <1>4, <1>5, <1>6 DEF AnswerInv

LEMMA AuthenticatedStep ==
  ASSUME AnswerInv, Authenticated
  PROVE  AnswerInv'
<1>1. ~Waiting /\ buffer' = <<>> /\ connection # "none" /\ pc' = "loop"
      /\ UNCHANGED <<toHelper, toClient, connection, server, request, cancelRequested>>
  BY DEF Authenticated, Waiting, AnswerInv, Unconnected, Outside, serverVars
<1>2. Unconnected'
  BY <1>1 DEF AnswerInv, Unconnected
<1>3. ASSUME ~cancelRequested PROVE (NoCancel /\ OnItsWay /\ Served /\ Answered)'
  <2>1. Finals(buffer') = {} /\ NoCancelIn(buffer')
    BY <1>1 DEF Finals, NoCancelIn
  <2>2. /\ Finals(toClient') = {}
        /\ connection' = "open" /\ HelperReadable' => Asked' = {}
        /\ connection' = "open" => ~Busy'
    BY <1>1, <1>3, NothingAsked DEF Asked, Busy, HelperReadable
  <2>3. NoCancel'
    BY <1>1, <1>3, <2>1 DEF AnswerInv, NoCancel
  <2> QED
    BY <2>1, <2>2, <2>3 DEF OnItsWay, Served, Answered
<1> QED
  BY <1>1, <1>2, <1>3 DEF AnswerInv

LEMMA SendingStep ==
  ASSUME AnswerInv, Typed, SendExecute
  PROVE  AnswerInv'
<1>1. /\ pc \in What /\ ~Waiting /\ connection # "none" /\ toHelper \in Seq(Request)
      /\ index \in Nat
      /\ UNCHANGED <<buffer, toClient, connection, server, request, cancelRequested>>
  BY DEF SendExecute, Waiting, AnswerInv, Unconnected, Outside, serverVars, What, Typed, TypeOK
<1>2. CASE ~HelperReadable
  <2>1. toHelper' = toHelper /\ pc' \in {"loop", "command"}
    BY <1>1, <1>2 DEF SendExecute, Return, NextStep
  <2> QED
    BY <1>1, <2>1, MovesOn
<1>3. CASE HelperReadable
  <2>1. toHelper' = Append(toHelper, Execute(index, pc)) /\ index' = index /\ Waiting'
        /\ pc' \notin {"launch", "connect"} /\ HelperReadable'
    BY <1>1, <1>3 DEF SendExecute, Waiting, HelperReadable
  <2>2. Unconnected'
    BY <1>1, <2>1 DEF AnswerInv, Unconnected
  <2>3. ASSUME ~cancelRequested PROVE (NoCancel /\ OnItsWay /\ Served /\ Answered)'
    <3>1. /\ Finals(buffer') = {} /\ Finals(toClient') = {}
          /\ connection' = "open" => Asked = {} /\ ~Busy'
      BY <1>1, <1>3, <2>3, NothingAsked DEF Busy
    <3>2. \A n \in DOMAIN toHelper' : \/ n \in DOMAIN toHelper /\ toHelper'[n] = toHelper[n]
                                      \/ n = Len(toHelper) + 1 /\ toHelper'[n] = Execute(index, pc)
      BY <1>1, <2>1
    <3>3. Execute(index, pc).what # "cancel" /\ Execute(index, pc).step = index
      BY <1>1 DEF Execute, What
    <3>4. NoCancel'
      BY <1>1, <2>3, <3>2, <3>3 DEF AnswerInv, NoCancel
    <3>5. connection' = "open" =>
            \A n \in Asked' : n = Len(toHelper) + 1 /\ toHelper'[n].step = index
      BY <3>1, <3>2, <3>3 DEF Asked
    <3>6. OnItsWay'
      BY <2>1, <3>5 DEF OnItsWay
    <3>7. Served' /\ Answered'
      BY <3>1 DEF Served, Answered
    <3> QED
      BY <3>4, <3>6, <3>7
  <2> QED
    BY <1>1, <2>2, <2>3 DEF AnswerInv
<1> QED
  BY <1>2, <1>3

(* The line the worker looks at: the answer, or one that is none.            *)
LEMMA TakingStep ==
  ASSUME AnswerInv, Typed, TakeLine
  PROVE  AnswerInv'
<1> DEFINE line == Head(buffer)
<1>1. /\ Waiting /\ buffer \in Seq(Response) /\ buffer # <<>> /\ buffer' = Tail(buffer)
      /\ connection = "open" /\ pc \notin {"launch", "connect"}
      /\ UNCHANGED <<toHelper, toClient, connection, server, request, cancelRequested>>
  BY DEF TakeLine, Waiting, AnswerInv, Unconnected, Outside, serverVars, Typed, TypeOK
<1>2. /\ \A n \in DOMAIN buffer' : n + 1 \in DOMAIN buffer /\ buffer'[n] = buffer[n + 1] /\ n \in Nat
      /\ 1 \in DOMAIN buffer /\ line = buffer[1]
  BY <1>1
<1>3. \/ line.type \in Ends /\ pc' \in {"loop", "command"}
      \/ line.type \notin Ends /\ pc' = pc /\ index' = index
  BY DEF TakeLine, Return, NextStep, Continue
<1>4. Unconnected'
  BY <1>1, <1>3 DEF Unconnected
<1>5. ASSUME ~cancelRequested PROVE (NoCancel /\ OnItsWay /\ Served /\ Answered)'
  <2>1. NoCancel /\ OnItsWay /\ Served /\ Answered /\ line.type # "cancel_ack"
    BY <1>2, <1>5 DEF AnswerInv, NoCancel, NoCancelIn
  <2>2. NoCancel'
    BY <1>1, <1>2, <2>1 DEF NoCancel, NoCancelIn
  <2>3. \A n \in Finals(buffer') : n + 1 \in Finals(buffer) /\ n + 1 # 1 /\ n \in Nat
    <3>1. \A n \in Nat : n + 1 # 1 \/ n = 0
      OBVIOUS
    <3>2. DOMAIN buffer' = 1..Len(buffer')
      BY <1>1
    <3>3. \A n \in DOMAIN buffer' : n # 0
      BY <3>2
    <3> QED
      BY <1>2, <3>1, <3>3 DEF Finals, IsFinal
  <2>4. Asked' = Asked /\ Busy' = Busy /\ HelperReadable' = HelperReadable
    BY <1>1 DEF Asked, Busy, HelperReadable
  <2>5. CASE line.type \in Ends
    <3>1. 1 \in Finals(buffer)
      BY <1>2, <2>1, <2>5 DEF Finals, IsFinal, Ends
    <3>2. Finals(buffer') = {} /\ Finals(toClient) = {} /\ Finals(toClient') = {}
      BY <1>1, <2>1, <2>3, <3>1 DEF Answered
    <3>3. HelperReadable => ~Busy /\ Asked = {}
      BY <2>1, <3>1 DEF Answered
    <3>4. ~Busy'
      BY <2>4, <3>3 DEF Busy, HelperReadable, Gone
    <3> QED
      BY <2>2, <2>4, <3>2, <3>3, <3>4 DEF OnItsWay, Served, Answered
  <2>6. CASE pc' = pc /\ index' = index
    <3>1. OnItsWay' /\ Served'
      BY <1>1, <2>1, <2>4, <2>6 DEF OnItsWay, Served, Waiting
    <3>2. \A n \in Finals(buffer') : buffer'[n].step = index
      <4> TAKE n \in Finals(buffer')
      <4>1. n + 1 \in Finals(buffer) /\ buffer'[n] = buffer[n + 1]
        BY <1>2, <2>3 DEF Finals
      <4> QED
        BY <2>1, <4>1 DEF Answered
    <3>3. \A m, n \in Finals(buffer') : m = n
      BY <2>1, <2>3 DEF Answered
    <3>4. Finals(buffer') # {} => Finals(buffer) # {}
      BY <2>3
    <3>5. Answered'
      BY <1>1, <2>1, <2>4, <2>6, <3>2, <3>3, <3>4 DEF Answered, Waiting
    <3> QED
      BY <2>2, <3>1, <3>5
  <2> QED
    BY <1>3, <2>5, <2>6
<1> QED
  BY <1>1, <1>4, <1>5 DEF AnswerInv

(* What arrived is cut in two, and the answer is in one of the parts.        *)
LEMMA ReceivingStep ==
  ASSUME AnswerInv, Typed, Receive
  PROVE  AnswerInv'
<1>1. /\ buffer = <<>> /\ toClient \in Seq(Response) /\ pc' = pc /\ index' = index
      /\ UNCHANGED <<toHelper, connection, server, request, cancelRequested>>
  BY DEF Receive, serverVars, Typed, TypeOK
<1>2. PICK k \in 1..Len(toClient) : /\ buffer' = SubSeq(toClient, 1, k)
                                    /\ toClient' = SubSeq(toClient, k + 1, Len(toClient))
  BY DEF Receive
<1>3. /\ DOMAIN buffer' = 1..k /\ \A n \in 1..k : buffer'[n] = toClient[n]
      /\ DOMAIN toClient = 1..Len(toClient) /\ k \in Nat /\ Len(toClient) \in Nat
  BY <1>1, <1>2
<1>4. \A n \in DOMAIN toClient' : /\ n \in Nat /\ n + k \in DOMAIN toClient /\ n + k \notin 1..k
                                  /\ toClient'[n] = toClient[n + k]
  BY <1>1, <1>2, <1>3
<1>5. Unconnected'
  <2>1. connection = "open"
    BY <1>2, <1>3 DEF AnswerInv, Unconnected
  <2> QED
    BY <1>1, <2>1 DEF AnswerInv, Unconnected
<1>6. ASSUME ~cancelRequested PROVE (NoCancel /\ OnItsWay /\ Served /\ Answered)'
  <2>1. NoCancel /\ OnItsWay /\ Served /\ Answered
    BY <1>6 DEF AnswerInv
  <2>2. NoCancel'
    BY <1>1, <1>3, <1>4, <2>1 DEF NoCancel, NoCancelIn
  <2>3. /\ \A n \in Finals(buffer') : n \in Finals(toClient) /\ n \in 1..k /\ buffer'[n] = toClient[n]
        /\ \A n \in Finals(toClient') : /\ n + k \in Finals(toClient) /\ n + k \notin 1..k /\ n \in Nat
                                        /\ toClient'[n] = toClient[n + k]
    BY <1>3, <1>4 DEF Finals, IsFinal
  <2>4. Asked' = Asked /\ Busy' = Busy /\ HelperReadable' = HelperReadable /\ Waiting' = Waiting
    BY <1>1 DEF Asked, Busy, HelperReadable, Waiting
  <2>5. OnItsWay' /\ Served'
    BY <1>1, <2>1, <2>4 DEF OnItsWay, Served
  <2>6. /\ \A m, n \in Finals(buffer') : m = n
        /\ \A m, n \in Finals(toClient') : m = n
        /\ Finals(buffer') # {} => Finals(toClient') = {}
        /\ Finals(buffer') \cup Finals(toClient') # {} => Finals(toClient) # {}
    BY <1>3, <2>1, <2>3 DEF Answered
  <2>7. /\ \A n \in Finals(buffer') : Waiting /\ buffer'[n].step = index
        /\ \A n \in Finals(toClient') : Waiting /\ toClient'[n].step = index
    BY <2>1, <2>3 DEF Answered
  <2>8. Answered'
    BY <1>1, <2>1, <2>4, <2>6, <2>7 DEF Answered
  <2> QED
    BY <2>2, <2>5, <2>8
<1> QED
  BY <1>1, <1>5, <1>6 DEF AnswerInv

LEMMA StopAndLossSteps ==
  ASSUME AnswerInv, Typed, SendCancel \/ ReceiveClosed
  PROVE  AnswerInv'
<1>1. pc \notin Outside /\ connection # "none" /\ pc' \notin {"launch", "connect"}
      /\ UNCHANGED <<buffer, toClient, connection, server, request, cancelRequested>>
  BY DEF SendCancel, ReceiveClosed, Return, NextStep, Waiting, Outside, AnswerInv, Unconnected,
         serverVars
<1>2. Unconnected'
  BY <1>1 DEF AnswerInv, Unconnected
<1>3. CASE cancelRequested
  BY <1>1, <1>2, <1>3 DEF AnswerInv
<1>4. CASE ~cancelRequested
  <2>1. toClient = <<>> /\ buffer = <<>> /\ ~HelperReadable /\ toHelper' = toHelper
    BY <1>4 DEF SendCancel, ReceiveClosed
  <2>2. NoCancel' /\ ~HelperReadable' /\ ~Busy' /\ Finals(buffer') = {} /\ Finals(toClient') = {}
    BY <1>1, <1>4, <2>1 DEF AnswerInv, NoCancel, HelperReadable, Gone, Busy, Finals
  <2> QED
    BY <1>2, <2>2 DEF AnswerInv, OnItsWay, Served, Answered
<1> QED
  BY <1>3, <1>4

LEMMA ClosingSteps ==
  ASSUME AnswerInv, Typed, AuthenticationFails \/ EndSession \/ GuiCrash
  PROVE  AnswerInv'
<1>1. cancelRequested' = cancelRequested /\ pc' \notin {"launch", "connect"}
  BY DEF AuthenticationFails, EndSession, GuiCrash
<1>2. NoCancelAsked => NoCancelAsked'
  <2>1. CASE toHelper' = toHelper
    BY <2>1 DEF NoCancelAsked
  <2>2. CASE toHelper' = Append(toHelper, Plain("shutdown"))
    <3>1. \A n \in DOMAIN toHelper' : \/ n \in DOMAIN toHelper /\ toHelper'[n] = toHelper[n]
                                      \/ toHelper'[n] = Plain("shutdown")
      BY <2>2 DEF Typed, TypeOK
    <3> QED
      BY <3>1 DEF NoCancelAsked, Plain, Execute
  <2> QED
    BY <2>1, <2>2 DEF AuthenticationFails, EndSession, GuiCrash
<1>3. CASE Close
  BY <1>1, <1>2, <1>3, HangsUp
<1>4. CASE GuiCrash /\ connection # "open"
  <2>1. /\ UNCHANGED <<toHelper, buffer, toClient, connection, server, request, cancelRequested>>
        /\ pc' = "crashed"
    BY <1>4 DEF GuiCrash, serverVars
  <2>2. Unconnected'
    BY <2>1 DEF AnswerInv, Unconnected, Outside
  <2>3. ~cancelRequested => NoCancel'
    BY <2>1 DEF AnswerInv, NoCancel
  <2>4. OnItsWay' /\ Served' /\ Finals(buffer') = {} /\ Finals(toClient') = {}
    BY <1>4, <2>1 DEF AnswerInv, Unconnected, OnItsWay, Served, Finals
  <2> QED
    BY <2>1, <2>2, <2>3, <2>4 DEF AnswerInv, Answered
<1> QED
  BY <1>3, <1>4 DEF AuthenticationFails, EndSession, GuiCrash

LEMMA MovingSteps ==
  ASSUME AnswerInv, LaunchFails \/ ConnectFails \/ SkipStep \/ BeginStep \/ RunLocal
                    \/ VerifyLocal \/ NoCommand \/ StopHelper
  PROVE  AnswerInv'
<1>1. /\ ~Waiting /\ pc' \notin {"launch", "connect"} /\ (pc \in Outside => pc' \in Outside)
      /\ UNCHANGED <<toHelper, buffer, toClient, connection, server, request, cancelRequested>>
  BY DEF LaunchFails, ConnectFails, SkipStep, BeginStep, RunLocal, VerifyLocal, NoCommand,
         StopHelper, NextStep, Waiting, Outside, serverVars
<1>2. connection = "none" => pc \in Outside
  BY DEF AnswerInv, Unconnected
<1> QED
  BY <1>1, <1>2, MovesOn

LEMMA QuietSteps ==
  ASSUME AnswerInv, Typed,
         Cancel \/ Deliver \/ HelperCrash \/ GraceElapses \/ ChildExits \/ UNCHANGED vars
  PROVE  AnswerInv'
<1>1. /\ UNCHANGED <<pc, index, toHelper, buffer, toClient, connection, request>>
      /\ server' = server \/ server' = "killed"
      /\ cancelRequested' = cancelRequested \/ cancelRequested'
  BY DEF Cancel, Deliver, HelperCrash, GraceElapses, ChildExits, HelperUnchanged, vars, workerVars,
         serverVars
<1> QED
  BY <1>1, Kept

LEMMA AnswerStep == AnswerInv /\ Typed /\ [Next]_vars => AnswerInv'
<1> SUFFICES ASSUME AnswerInv, Typed, [Next]_vars PROVE AnswerInv'
  OBVIOUS
<1>1. CASE Worker
  BY <1>1, MovingSteps, ConnectingSteps, AuthenticatedStep, ClosingSteps, SendingStep, TakingStep,
     ReceivingStep, StopAndLossSteps DEF Worker
<1>2. CASE Helper
  BY <1>2, SpeakingSteps, ReadingStep, PumpingStep, ReapingStep DEF Helper
<1>3. CASE GuiCrash
  BY <1>3, ClosingSteps
<1>4. CASE Cancel \/ Deliver \/ HelperCrash \/ GraceElapses \/ ChildExits \/ UNCHANGED vars
  BY <1>4, QuietSteps
<1> QED
  BY <1>1, <1>2, <1>3, <1>4 DEF Next, Terminated

LEMMA AnswerInvariant == Spec => []AnswerInv
<1>1. Init => AnswerInv
  BY DEF Init, AnswerInv, Unconnected, Outside, NoCancel, NoCancelIn, OnItsWay, Served, Answered,
         Finals, Asked, Busy
<1>2. QED
  BY <1>1, AnswerStep, TypedInvariant, PTL DEF Spec

(* As long as nobody pressed Stop, every answer on its way to the client is  *)
(* an answer to the request it waits for, for every plan: execute() and its  *)
(* readLine() never compare the requestId, and need not (helpersession.cpp). *)
THEOREM Current == Spec => []AnswersAreCurrent
<1>1. AnswerInv => AnswersAreCurrent
  BY DEF AnswerInv, Answered, AnswersAreCurrent, Finals, IsFinal
<1>2. QED
  BY <1>1, AnswerInvariant, PTL

------------------------------------------------------------------------------
(* What the session records of a step is what became of it.  AnswerInv says  *)
(* which request an answer is the answer to; here it is what the answer      *)
(* says, and what a request of a step that is over, which Stop leaves in the *)
(* socket, can still do.                                                     *)

(* After a step, where Stop lets nothing begin. *)
Parted == {"loop", "stop", "ended", "crashed"}

(* Something was done for step k, or still may be.                           *)
Tried(k) == \/ applied[steps[k].id] # "no"
            \/ child = "running" /\ request.step = k
            \/ \E n \in Asked : toHelper[n].step = k
            \/ pc \in InStep /\ index = k

Follows(j, k) == j < k /\ steps[j].id = steps[k].dependsOn /\ Effective(steps[j])

Distinct == \A j, k \in DOMAIN steps : steps[j].id = steps[k].id => j = k
Talking ==
  /\ pc \in InStep \cup {"auth", "loop"} => connection = "open"
  /\ pc \in InStep \ {"local", "verify"} => ~Now.local
Unbegun ==
  pc = "launch" => /\ steps = <<>> /\ index = 1 /\ child # "running"
                   /\ \A id \in StepId : applied[id] = "no" /\ stepOk[id] = "unset"
Untried ==
  \A k \in DOMAIN steps :
    k >= index => /\ stepOk[steps[k].id] = "unset"
                  /\ k > index \/ pc \notin InStep \cup {"crashed"} => ~Tried(k)
Recorded ==
  \A id \in StepId : stepOk[id] # "unset" => \E j \in DOMAIN steps : j < index /\ steps[j].id = id
RunningKnown == child = "running" => request.step \in DOMAIN steps

(* A request the helper has yet to read is for the current step, or for the  *)
(* one that Stop ended.                                                      *)
Requests ==
  HelperReadable => \A n \in Asked : LET k == toHelper[n].step IN
    /\ k \in DOMAIN steps
    /\ \/ k = index /\ pc \in InStep \cup {"crashed"}
       \/ /\ k = index - 1 /\ cancelRequested /\ pc \in Parted
          /\ index \in DOMAIN steps => ~Tried(index)

Followed ==
  \A k \in DOMAIN steps :
    Tried(k) /\ steps[k].dependsOn # NoStep => \E j \in DOMAIN steps : Follows(j, k)

OnlyTheLast ==
  Misreported # {} => cancelRequested /\ pc \in Parted /\ Misreported \subseteq {index - 1}

PlanInv == /\ Distinct /\ Talking /\ Unbegun /\ Untried /\ Recorded /\ RunningKnown /\ Requests
           /\ Followed /\ OnlyTheLast

(* What only the last of the steps so far, or the one Stop ended, can lose.  *)
Last(k) == /\ \A j \in DOMAIN steps : j > k => ~Tried(j)
           /\ k = index \/ (k = index - 1 /\ cancelRequested /\ pc \in Parted)

LEMMA StepTyped ==
  ASSUME Typed, NEW k \in DOMAIN steps
  PROVE  /\ steps[k] \in Step /\ k \in Nat /\ steps[k].id \in StepId
         /\ steps[k].dependsOn \in StepId \cup {NoStep}
<1>1. steps \in Seq(Step)
  BY DEF Typed, TypeOK
<1>2. steps[k] \in Step /\ k \in Nat
  BY <1>1
<1> QED
  BY <1>2 DEF Step

(* Steps of the session that neither begin nor end a step of the plan.       *)
Steady ==
  /\ UNCHANGED <<steps, index, stepOk>>
  /\ cancelRequested => cancelRequested'
  /\ pc \in InStep \cup {"crashed"} => pc' \in InStep \cup {"crashed"}
  /\ pc \in Parted => pc' \in Parted
  /\ pc' \in InStep => pc \in InStep
  /\ pc' \in InStep \ {"local", "verify"} => pc \in InStep \ {"local", "verify"}
  /\ pc' \in InStep \cup {"auth", "loop"} => connection' = "open"
  /\ pc' = "launch" => pc = "launch" /\ UNCHANGED <<child, applied>>
  /\ HelperReadable' => HelperReadable
  /\ \A n \in Asked' : \/ \E m \in Asked : toHelper[m].step = toHelper'[n].step
                       \/ pc \in InStep /\ toHelper'[n].step = index
  /\ child' = "running" => \/ child = "running" /\ request'.step = request.step
                           \/ request'.step \in DOMAIN steps /\ Tried(request'.step)
  /\ \A k \in DOMAIN steps : /\ applied'[steps[k].id] # "no" => Tried(k)
                             /\ Effective(steps[k]) /\ ~Last(k) => Effective(steps[k])'

LEMMA SteadyTried ==
  ASSUME Typed, Steady, NEW k \in DOMAIN steps, Tried(k)'
  PROVE  Tried(k)
<1>1. CASE applied'[steps[k].id] # "no"
  BY <1>1 DEF Steady
<1>2. CASE child' = "running" /\ request'.step = k
  BY <1>2 DEF Steady, Tried
<1>3. CASE \E n \in Asked' : toHelper'[n].step = k
  BY <1>3 DEF Steady, Tried
<1>4. CASE pc' \in InStep /\ index' = k
  BY <1>4 DEF Steady, Tried
<1> QED
  BY <1>1, <1>2, <1>3, <1>4 DEF Steady, Tried

LEMMA SteadyStep ==
  ASSUME Typed, PlanInv, Steady
  PROVE  PlanInv'
<1>1. \A k \in DOMAIN steps : Tried(k)' => Tried(k)
  BY SteadyTried
<1>2. steps' = steps /\ index' = index /\ stepOk' = stepOk /\ DOMAIN steps' = DOMAIN steps
      /\ index \in Nat
  BY DEF Steady, Typed, TypeOK
<1>3. Distinct' /\ Talking' /\ Unbegun'
  BY <1>2 DEF PlanInv, Distinct, Talking, Unbegun, Steady, Now, InStep
<1>4. Untried'
  BY <1>1, <1>2 DEF PlanInv, Untried, Steady
<1>5. Recorded' /\ RunningKnown'
  BY <1>2 DEF PlanInv, Recorded, RunningKnown, Steady
<1>6. Requests'
  <2> SUFFICES ASSUME HelperReadable', NEW n \in Asked'
               PROVE  LET k == toHelper'[n].step IN
                      /\ k \in DOMAIN steps
                      /\ \/ k = index /\ pc' \in InStep \cup {"crashed"}
                         \/ /\ k = index - 1 /\ cancelRequested' /\ pc' \in Parted
                            /\ index \in DOMAIN steps => ~Tried(index)'
    BY <1>2 DEF Requests
  <2>1. CASE pc \in InStep /\ toHelper'[n].step = index
    BY <2>1 DEF Steady, Typed, Located
  <2>2. CASE \E m \in Asked : toHelper[m].step = toHelper'[n].step
    <3>1. PICK m \in Asked : toHelper[m].step = toHelper'[n].step
      BY <2>2
    <3>2. HelperReadable
      BY DEF Steady
    <3> QED
      BY <1>1, <3>1, <3>2 DEF PlanInv, Requests, Steady
  <2> QED
    BY <2>1, <2>2 DEF Steady
<1>7. Followed'
  <2> SUFFICES ASSUME NEW k \in DOMAIN steps, Tried(k), steps[k].dependsOn # NoStep
               PROVE  \E j \in DOMAIN steps : Follows(j, k)'
    BY <1>1, <1>2 DEF Followed
  <2>1. PICK j \in DOMAIN steps : Follows(j, k)
    BY DEF PlanInv, Followed
  <2>2. Effective(steps[j])'
    BY <2>1 DEF Steady, Last, Follows
  <2> QED
    BY <1>2, <2>1, <2>2 DEF Follows
<1>8. OnlyTheLast'
  <2>1. \A k \in Misreported' : k \in Misreported \/ Last(k)
    BY <1>2 DEF Misreported, Steady
  <2>2. \A k \in DOMAIN steps : k \in Misreported' => k # index
    BY <1>2 DEF PlanInv, Untried, Misreported
  <2>3. Misreported' \subseteq DOMAIN steps
    BY <1>2 DEF Misreported
  <2>4. \A k \in Misreported' : k = index - 1 /\ cancelRequested /\ pc \in Parted
    BY <2>1, <2>2, <2>3 DEF PlanInv, OnlyTheLast, Last
  <2> QED
    BY <1>2, <2>4 DEF OnlyTheLast, Steady
<1> QED
  BY <1>3, <1>4, <1>5, <1>6, <1>7, <1>8 DEF PlanInv

LEMMA BeginKeepsPlan ==
  ASSUME Typed, PlanInv, BeginStep
  PROVE  PlanInv'
<1>1. /\ pc = "loop" /\ index \in DOMAIN steps /\ ~cancelRequested /\ DependencyMet
      /\ pc' \in {"local", "check", "command"} /\ (Now.local <=> pc' = "local") /\ index \in Nat
      /\ UNCHANGED <<steps, index, stepOk, cancelRequested, toHelper, connection, child, request,
                     server, applied>>
  BY DEF BeginStep, serverVars, Typed, TypeOK
<1>2. \A k \in DOMAIN steps : Tried(k)' => Tried(k) \/ k = index
  BY <1>1 DEF Tried, Asked
<1>3. Distinct' /\ Talking' /\ Unbegun' /\ Recorded' /\ RunningKnown'
  BY <1>1 DEF PlanInv, Distinct, Talking, Unbegun, Recorded, RunningKnown, Now, InStep
<1>4. Untried'
  BY <1>1, <1>2, StepTyped DEF PlanInv, Untried, InStep
<1>5. HelperReadable => Asked = {}
  BY <1>1 DEF PlanInv, Requests, InStep
<1>6. Requests'
  BY <1>1, <1>5 DEF Requests, Asked, HelperReadable
<1>7. Misreported = {} /\ \A k \in DOMAIN steps : Effective(steps[k])' = Effective(steps[k])
  BY <1>1 DEF PlanInv, OnlyTheLast, Effective
<1>8. OnlyTheLast'
  BY <1>1, <1>7 DEF OnlyTheLast, Misreported
<1>9. Followed'
  <2> SUFFICES ASSUME NEW k \in DOMAIN steps, Tried(k)', steps[k].dependsOn # NoStep
               PROVE  \E j \in DOMAIN steps : Follows(j, k)
    BY <1>1, <1>7 DEF Followed, Follows
  <2>1. CASE Tried(k)
    BY <2>1 DEF PlanInv, Followed
  <2>2. CASE k = index
    <3>1. stepOk[steps[k].dependsOn] = "ok" /\ steps[k].dependsOn \in StepId
      BY <1>1, <2>2, StepTyped DEF DependencyMet, Now
    <3>2. PICK j \in DOMAIN steps : j < index /\ steps[j].id = steps[k].dependsOn
      BY <3>1 DEF PlanInv, Recorded
    <3>3. Effective(steps[j])
      BY <1>7, <3>1, <3>2 DEF Misreported
    <3> QED
      BY <2>2, <3>2, <3>3 DEF Follows
  <2> QED
    BY <1>2, <2>1, <2>2
<1> QED
  BY <1>3, <1>4, <1>6, <1>8, <1>9 DEF PlanInv

LEMMA SkipKeepsPlan ==
  ASSUME Typed, PlanInv, SkipStep
  PROVE  PlanInv'
<1>1. /\ pc = "loop" /\ index \in DOMAIN steps /\ ~cancelRequested /\ pc' = pc
      /\ index' = index + 1 /\ index \in Nat
      /\ UNCHANGED <<steps, stepOk, cancelRequested, toHelper, connection, child, request,
                     server, applied>>
  BY DEF SkipStep, serverVars, Typed, TypeOK
<1>2. \A k \in DOMAIN steps : Tried(k)' = Tried(k)
  BY <1>1 DEF Tried, Asked, InStep
<1>3. Distinct' /\ Talking' /\ Unbegun' /\ RunningKnown'
  BY <1>1 DEF PlanInv, Distinct, Talking, Unbegun, RunningKnown, Now, InStep
<1>4. Untried' /\ Recorded'
  BY <1>1, <1>2, StepTyped DEF PlanInv, Untried, Recorded, InStep
<1>5. HelperReadable => Asked = {}
  BY <1>1 DEF PlanInv, Requests, InStep
<1>6. Requests'
  BY <1>1, <1>5 DEF Requests, Asked, HelperReadable
<1>7. Misreported = {} /\ \A k \in DOMAIN steps : Effective(steps[k])' = Effective(steps[k])
  BY <1>1 DEF PlanInv, OnlyTheLast, Effective
<1>8. OnlyTheLast' /\ Followed'
  BY <1>1, <1>2, <1>7 DEF PlanInv, OnlyTheLast, Misreported, Followed, Follows
<1> QED
  BY <1>3, <1>4, <1>6, <1>8 DEF PlanInv

(* A step ends with a mark.  Unless Stop was pressed nothing is left of it   *)
(* in the socket, and a good mark is deserved.                               *)
LEMMA EndKeepsPlan ==
  ASSUME Typed, PlanInv, pc \in InStep, NEW mark \in Settled, NextStep(mark),
         UNCHANGED <<steps, cancelRequested, toHelper, connection, child, request, server>>,
         \A k \in DOMAIN steps : k # index => applied'[steps[k].id] = applied[steps[k].id],
         ~cancelRequested /\ HelperReadable => Asked = {},
         ~cancelRequested /\ mark \in Good =>
           \A k \in DOMAIN steps : k = index => Effective(steps[k])'
  PROVE  PlanInv'
<1>1. /\ index \in DOMAIN steps /\ index \in Nat /\ index' = index + 1 /\ pc' = "loop"
      /\ Now = steps[index] /\ Now.id \in StepId
      /\ pc \notin Parted \cup {"crashed"}
  BY StepTyped DEF NextStep, Typed, TypeOK, Located, InStep, Parted, Now
<1>2. \A id \in StepId : stepOk'[id] = IF id = Now.id
                                       THEN IF mark \in Good THEN "ok" ELSE "failed"
                                       ELSE stepOk[id]
  BY <1>1 DEF NextStep, Typed, TypeOK
<1>3. \A k \in DOMAIN steps : /\ Tried(k)' => Tried(k)
                              /\ k > index => ~Tried(k)
                              /\ k # index => Effective(steps[k])' = Effective(steps[k])
                              /\ k # index => stepOk'[steps[k].id] = stepOk[steps[k].id]
  <2>1. \A k \in DOMAIN steps : Tried(k)' => Tried(k)
    BY <1>1 DEF Tried, Asked, InStep
  <2>2. \A k \in DOMAIN steps : k > index => ~Tried(k)
    BY <1>1, StepTyped DEF PlanInv, Untried
  <2>3. \A k \in DOMAIN steps : k # index => steps[k].id # Now.id /\ steps[k].id \in StepId
    BY <1>1, StepTyped DEF PlanInv, Distinct
  <2> QED
    BY <1>2, <2>1, <2>2, <2>3 DEF Effective
<1>4. Distinct' /\ Talking' /\ Unbegun' /\ RunningKnown'
  BY <1>1 DEF PlanInv, Distinct, Talking, Unbegun, RunningKnown, InStep
<1>5. Untried'
  BY <1>1, <1>3, StepTyped DEF PlanInv, Untried
<1>6. Recorded'
  <2> SUFFICES ASSUME NEW id \in StepId, stepOk'[id] # "unset"
               PROVE  \E j \in DOMAIN steps : j < index + 1 /\ steps[j].id = id
    BY <1>1 DEF Recorded
  <2>1. CASE id = Now.id
    BY <1>1, <2>1
  <2>2. CASE id # Now.id
    <3>1. PICK j \in DOMAIN steps : j < index /\ steps[j].id = id
      BY <1>2, <2>2 DEF PlanInv, Recorded
    <3> QED
      BY <1>1, <3>1, StepTyped
  <2> QED
    BY <2>1, <2>2
<1>7. Requests'
  <2>1. \A k \in DOMAIN steps : k = index' => ~Tried(k)'
    BY <1>1, <1>3, StepTyped
  <2>2. ASSUME HelperReadable', NEW n \in Asked'
        PROVE  toHelper'[n].step = index' - 1 /\ cancelRequested'
    <3>1. n \in Asked /\ HelperReadable /\ toHelper'[n] = toHelper[n]
      BY <2>2 DEF Asked, HelperReadable
    <3> QED
      BY <1>1, <3>1 DEF PlanInv, Requests
  <2> QED
    BY <1>1, <2>1, <2>2 DEF Requests, Parted, Tried
<1>8. Followed'
  <2> SUFFICES ASSUME NEW k \in DOMAIN steps, Tried(k), steps[k].dependsOn # NoStep
               PROVE  \E j \in DOMAIN steps : Follows(j, k)'
    BY <1>3 DEF Followed
  <2>1. PICK j \in DOMAIN steps : Follows(j, k)
    BY DEF PlanInv, Followed
  <2>2. j # index
    BY <1>1, <1>3, <2>1, StepTyped DEF Follows
  <2> QED
    BY <1>3, <2>1, <2>2 DEF Follows
<1>9. OnlyTheLast'
  <2>1. Misreported = {}
    BY <1>1 DEF PlanInv, OnlyTheLast
  <2>2. \A k \in Misreported' : k = index
    BY <1>3, <2>1 DEF Misreported
  <2>3. index \in Misreported' => cancelRequested
    BY <1>1, <1>2 DEF Misreported
  <2> QED
    BY <1>1, <2>2, <2>3 DEF OnlyTheLast, Parted
<1> QED
  BY <1>4, <1>5, <1>6, <1>7, <1>8, <1>9 DEF PlanInv

LEMMA LaunchKeepsPlan ==
  ASSUME Typed, PlanInv, AnswerInv, LaunchSucceeds
  PROVE  PlanInv'
<1>1. /\ pc = "launch" /\ pc' = "connect" /\ steps' \in Plans /\ connection = "none"
      /\ toHelper = <<>> /\ index = 1
      /\ UNCHANGED <<index, stepOk, cancelRequested, toHelper, connection, child, request, applied>>
  BY DEF LaunchSucceeds, AnswerInv, Unconnected, PlanInv, Unbegun
<1>2. Typed' /\ steps' \in Seq(Step)
  BY <1>1, ConnectionStepsTyped, PlansAssumption
<1>3. Distinct'
  BY <1>1, PlansAssumption DEF Distinct
<1>4. \A k \in DOMAIN steps' : /\ steps'[k].id \in StepId
                               /\ ~Tried(k)' /\ stepOk'[steps'[k].id] = "unset"
  <2> TAKE k \in DOMAIN steps'
  <2>1. \A plan \in Seq(Step) : \A n \in DOMAIN plan : plan[n] \in Step
    OBVIOUS
  <2>2. steps'[k] \in Step
    BY <1>2, <2>1
  <2>3. steps'[k].id \in StepId
    BY <2>2 DEF Step
  <2> QED
    BY <1>1, <2>3 DEF Tried, PlanInv, Unbegun, Asked, InStep
<1>5. Talking' /\ Unbegun' /\ Recorded' /\ RunningKnown'
  BY <1>1 DEF PlanInv, Talking, Unbegun, Recorded, RunningKnown, InStep
<1>6. Untried' /\ Requests' /\ Followed' /\ OnlyTheLast'
  BY <1>1, <1>4 DEF Untried, Requests, Asked, Followed, OnlyTheLast, Misreported
<1> QED
  BY <1>3, <1>5, <1>6 DEF PlanInv

------------------------------------------------------------------------------
(* Which steps of the session are steady *)

LEMMA AppendAsked ==
  ASSUME Typed, NEW line, toHelper' = Append(toHelper, line)
  PROVE  \A n \in Asked' : \/ \E m \in Asked : toHelper[m].step = toHelper'[n].step
                           \/ line.what \in What /\ toHelper'[n] = line
<1>1. \A n \in DOMAIN toHelper' : \/ n \in DOMAIN toHelper /\ toHelper'[n] = toHelper[n]
                                 \/ toHelper'[n] = line
  BY DEF Typed, TypeOK
<1> QED
  BY <1>1 DEF Asked

LEMMA SpeechIsSteady ==
  ASSUME Typed, PlanInv,
         \/ LaunchFails \/ ConnectFails \/ Connect \/ Authenticated \/ AuthenticationFails
         \/ EndSession \/ StopHelper \/ SendCancel \/ Receive \/ GuiCrash \/ Cancel \/ Deliver
         \/ UNCHANGED vars
  PROVE  Steady
<1>1. /\ UNCHANGED <<steps, index, stepOk, child, request, applied, server>>
      /\ cancelRequested => cancelRequested'
  BY DEF LaunchFails, ConnectFails, Connect, Authenticated, AuthenticationFails, EndSession,
         StopHelper, SendCancel, Receive, GuiCrash, Cancel, Deliver, vars, workerVars, serverVars
<1>2. \/ pc' = pc /\ connection' = connection
      \/ /\ pc \notin InStep /\ pc' \in {"ended", "stopFailed", "auth", "loop", "stop"}
         /\ pc \in Parted => pc' \in Parted
         /\ pc # "crashed"
         /\ pc' \in {"auth", "loop"} => connection' = "open"
      \/ pc' = "crashed"
  BY DEF LaunchFails, ConnectFails, Connect, Authenticated, AuthenticationFails, EndSession,
         StopHelper, SendCancel, Receive, GuiCrash, Cancel, Deliver, vars, workerVars, InStep, Parted,
         PlanInv, Talking
<1>3. /\ pc \in InStep \cup {"crashed"} => pc' \in InStep \cup {"crashed"}
      /\ pc \in Parted => pc' \in Parted
      /\ pc' \in InStep => pc' = pc
      /\ pc' \in InStep \cup {"auth", "loop"} => connection' = "open"
      /\ pc' = "launch" => pc = "launch"
  BY <1>2 DEF InStep, Parted, PlanInv, Talking
<1>4. \A n \in Asked' : \E m \in Asked : toHelper[m].step = toHelper'[n].step
  <2>1. CASE toHelper' = toHelper
    BY <2>1 DEF Asked
  <2>2. CASE \E what \in Simple : toHelper' = Append(toHelper, Plain(what))
    <3>1. PICK what \in Simple : toHelper' = Append(toHelper, Plain(what))
      BY <2>2
    <3>2. Plain(what).what \notin What
      BY DEF Plain, Execute, Simple, What
    <3> QED
      BY <3>1, <3>2, AppendAsked
  <2> QED
    BY <2>1, <2>2 DEF LaunchFails, ConnectFails, Connect, Authenticated, AuthenticationFails,
         EndSession, StopHelper, SendCancel, Receive, GuiCrash, Cancel, Deliver, vars, Simple
<1>5. \A k \in DOMAIN steps : /\ applied'[steps[k].id] # "no" => Tried(k)
                              /\ Effective(steps[k]) => Effective(steps[k])'
  BY <1>1 DEF Tried, Effective
<1>6. HelperReadable' => HelperReadable
  BY <1>1 DEF HelperReadable
<1> QED
  BY <1>1, <1>3, <1>4, <1>5, <1>6 DEF Steady

(* What a step of the helper, of its command or of the timer leaves alone.   *)
LEMMA ApartIsSteady ==
  ASSUME Typed, PlanInv, HelperUnchanged, HelperReadable' => HelperReadable,
         \A n \in Asked' : \E m \in Asked : toHelper[m].step = toHelper'[n].step,
         child' = "running" => \/ child = "running" /\ request'.step = request.step
                               \/ request'.step \in DOMAIN steps /\ Tried(request'.step),
         pc' = "launch" => UNCHANGED <<child, applied>>,
         \A k \in DOMAIN steps : /\ applied'[steps[k].id] # "no" => Tried(k)
                                 /\ Effective(steps[k]) /\ ~Last(k) => Effective(steps[k])'
  PROVE  Steady
BY DEF Steady, HelperUnchanged, workerVars, PlanInv, Talking

LEMMA SameApplied ==
  ASSUME UNCHANGED <<steps, applied>>
  PROVE  \A k \in DOMAIN steps : /\ applied'[steps[k].id] # "no" => Tried(k)
                                 /\ Effective(steps[k]) => Effective(steps[k])'
BY DEF Tried, Effective

LEMMA HelperIsSteady ==
  ASSUME Typed, PlanInv, AnswerInv,
         \/ HelperAccepts \/ HelperGivesUp \/ HelperSeesEnd \/ HelperPumps \/ HelperReaps
         \/ GraceElapses \/ HelperCrash
  PROVE  Steady
<1>1. /\ HelperUnchanged /\ UNCHANGED <<steps, applied, request>>
      /\ child' = child \/ (child' = "none" /\ server = "reap")
      /\ HelperReadable' => HelperReadable
  BY DEF HelperAccepts, HelperGivesUp, HelperSeesEnd, HelperPumps, HelperReaps, GraceElapses,
         HelperCrash, HelperUnchanged, workerVars, HelperReadable, Gone
<1>2. \A n \in Asked' : \E m \in Asked : toHelper[m].step = toHelper'[n].step
  <2>1. CASE toHelper' = toHelper \/ toHelper' = <<>>
    BY <2>1 DEF Asked
  <2>2. CASE toHelper # <<>> /\ toHelper' = Tail(toHelper)
    BY <2>2, HeadAnswered DEF Typed, TypeOK
  <2> QED
    BY <2>1, <2>2 DEF HelperAccepts, HelperGivesUp, HelperSeesEnd, HelperPumps, HelperReaps,
         GraceElapses, HelperCrash
<1>3. pc' = "launch" => UNCHANGED <<child, applied>>
  BY <1>1 DEF AnswerInv, Unconnected, HelperUnchanged, workerVars
<1> QED
  BY <1>1, <1>2, <1>3, SameApplied, ApartIsSteady

(* A request is read: its step is known, and the last one.                   *)
LEMMA ReadingIsSteady ==
  ASSUME Typed, PlanInv, AnswerInv, QuietInv, HelperReads
  PROVE  Steady
<1> DEFINE line == Head(toHelper)
<1>1. /\ HelperUnchanged /\ UNCHANGED steps /\ server = "serve" /\ HelperReadable /\ pc' = pc
      /\ toHelper # <<>> /\ toHelper' = Tail(toHelper) /\ toHelper \in Seq(Request)
  BY DEF HelperReads, HelperUnchanged, workerVars, HelperReadable, Gone, Typed, TypeOK
<1>2. \A n \in Asked' : \E m \in Asked : toHelper[m].step = toHelper'[n].step
  BY <1>1, HeadAnswered
<1>3. pc # "launch"
  BY <1>1 DEF AnswerInv, Unconnected
<1>4. CASE UNCHANGED <<child, request, applied>>
  BY <1>1, <1>2, <1>3, <1>4, SameApplied, ApartIsSteady
<1>5. CASE /\ line.what \in What /\ child' = "running" /\ request' = line
           /\ applied' = IF line.what = "command"
                         THEN [applied EXCEPT ![steps[line.step].id] = "begun"] ELSE applied
  <2>1. 1 \in Asked /\ toHelper[1] = line
    BY <1>1, <1>5, HeadAnswered
  <2>2. line.step \in DOMAIN steps /\ Tried(line.step) /\ line.step \in Nat
    BY <1>1, <2>1, StepTyped DEF PlanInv, Requests, Tried
  <2>3. Last(line.step)
    <3>0. \/ line.step = index
          \/ /\ line.step = index - 1 /\ cancelRequested /\ pc \in Parted
             /\ index \in DOMAIN steps => ~Tried(index)
      BY <1>1, <2>1 DEF PlanInv, Requests
    <3>1. CASE line.step = index
      BY <2>2, <3>1, StepTyped DEF PlanInv, Untried, Last
    <3>2. CASE line.step = index - 1 /\ cancelRequested /\ pc \in Parted
               /\ (index \in DOMAIN steps => ~Tried(index))
      <4>1. \A j \in DOMAIN steps : j > line.step => j = index \/ j > index
        BY <2>2, <3>2, StepTyped DEF Typed, TypeOK
      <4> QED
        BY <2>2, <3>2, <4>1, StepTyped DEF PlanInv, Untried, Last, Typed, TypeOK
    <3> QED
      BY <3>0, <3>1, <3>2
  <2>4. \A k \in DOMAIN steps : k # line.step => applied'[steps[k].id] = applied[steps[k].id]
    BY <1>5, <2>2, StepTyped DEF PlanInv, Distinct, Typed, TypeOK
  <2>5. \A k \in DOMAIN steps : /\ applied'[steps[k].id] # "no" => Tried(k)
                                /\ Effective(steps[k]) /\ ~Last(k) => Effective(steps[k])'
    BY <1>1, <2>2, <2>3, <2>4 DEF Tried, Effective
  <2> QED
    BY <1>1, <1>2, <1>3, <1>5, <2>2, <2>5, ApartIsSteady
<1>6. CASE request' = line /\ UNCHANGED <<child, applied>>
  <2>1. child' # "running"
    BY <1>1, <1>6 DEF QuietInv, CommandHasHelper
  <2> QED
    BY <1>1, <1>2, <1>3, <1>6, <2>1, SameApplied, ApartIsSteady
<1>7. CASE line.what \in What /\ HandleExecute(line)
  <2>1. CASE steps[line.step].permitted
    BY <1>5, <1>6, <1>7, <2>1 DEF HandleExecute
  <2>2. CASE ~steps[line.step].permitted
    BY <1>4, <1>7, <2>2 DEF HandleExecute
  <2> QED
    BY <2>1, <2>2
<1>8. CASE line.what \notin What
  BY <1>4, <1>8 DEF HelperReads
<1> QED
  BY <1>4, <1>7, <1>8 DEF HelperReads

LEMMA ExitFacts ==
  ASSUME Typed, PlanInv, ChildExits
  PROVE  /\ request.step \in DOMAIN steps /\ child = "running" /\ child' = "exited"
         /\ HelperUnchanged
         /\ UNCHANGED <<server, request, toHelper, toClient>>
         /\ childCode' \in Codes
         /\ \A k \in DOMAIN steps :
              applied'[steps[k].id] =
                IF k # request.step THEN applied[steps[k].id]
                ELSE IF request.what = "command"
                THEN IF childCode' \in Accepted(steps[k]) THEN "done" ELSE applied[steps[k].id]
                ELSE IF childCode' = 0 /\ applied[steps[k].id] = "no" THEN "found"
                ELSE applied[steps[k].id]
<1>1. request.step \in DOMAIN steps /\ child = "running" /\ child' = "exited"
      /\ HelperUnchanged /\ UNCHANGED <<server, request, toHelper, toClient>>
  BY DEF PlanInv, RunningKnown, ChildExits
<1>2. childCode' \in Codes
  BY CodesFacts DEF ChildExits
<1>3. \A k \in DOMAIN steps :
         /\ steps[k].id \in StepId /\ (k # request.step => steps[k].id # steps[request.step].id)
  BY <1>1, StepTyped DEF PlanInv, Distinct
<1> QED
  BY <1>1, <1>2, <1>3 DEF ChildExits, Typed, TypeOK

LEMMA ExitIsSteady ==
  ASSUME Typed, PlanInv, ChildExits
  PROVE  Steady
<1>1. /\ HelperUnchanged /\ UNCHANGED steps /\ child' # "running" /\ Tried(request.step)
      /\ (HelperReadable' => HelperReadable) /\ pc # "launch" /\ pc' = pc
  BY ExitFacts DEF HelperUnchanged, workerVars, Tried, HelperReadable, PlanInv, Unbegun
<1>2. \A n \in Asked' : \E m \in Asked : toHelper[m].step = toHelper'[n].step
  BY ExitFacts DEF Asked
<1>3. \A k \in DOMAIN steps : /\ applied'[steps[k].id] # "no" => Tried(k)
                              /\ Effective(steps[k]) => Effective(steps[k])'
  BY <1>1, ExitFacts DEF Tried, Effective
<1> QED
  BY <1>1, <1>2, <1>3, ApartIsSteady

------------------------------------------------------------------------------
(* What an answer tells of the step *)

Await(what) == IF what = "check" THEN "awaitCheck" ELSE "awaitCommand"
Checking == pc \in {"check", "awaitCheck"}

(* The worker may believe this code of the step it is at.                    *)
Tells(code) == IF Checking THEN code = 0 => applied[Now.id] \in {"found", "done"}
                           ELSE code \in Accepted(Now) => applied[Now.id] = "done"
Told(lines) == \A n \in DOMAIN lines : lines[n].type = "finished" => Tells(lines[n].code)

AskedTruly == connection = "open" /\ HelperReadable => \A n \in Asked : pc = Await(toHelper[n].what)
ServedTruly ==
  connection = "open" /\ Busy => /\ request.what \in What /\ pc = Await(request.what)
                                 /\ child = "exited" => Tells(childCode)
NotInstalledYet ==
  Checking => /\ applied[Now.id] \in {"no", "found"}
              /\ child = "running" /\ request.step = index => request.what = "check"

Truthful ==
  ~cancelRequested => /\ AskedTruly /\ ServedTruly /\ Told(buffer) /\ Told(toClient)
                      /\ NotInstalledYet

LEMMA LostTells ==
  ASSUME Typed, pc \in InStep
  PROVE  Tells(Lost)
<1>1. Now \in Step
  BY StepFacts
<1>2. Now.allowed \subseteq Nat
  BY <1>1, ExitCodesAssumption DEF Step
<1>3. Lost \notin Accepted(Now) /\ Lost # 0
  BY <1>2 DEF Accepted, Lost
<1> QED
  BY <1>3 DEF Tells

(* What the loop does with the value of execute() keeps the plan, if the     *)
(* value may be believed.                                                    *)
LEMMA ReturnKeepsPlan ==
  ASSUME Typed, PlanInv, pc \in InStep \ {"local", "verify"}, NEW code \in Codes, Return(code),
         UNCHANGED <<steps, cancelRequested, toHelper, connection, child, request, server, applied>>,
         ~cancelRequested /\ HelperReadable => Asked = {}, ~cancelRequested => Tells(code)
  PROVE  PlanInv'
<1>1. index \in DOMAIN steps /\ Now = steps[index] /\ index \in Nat /\ ~Now.local
  BY StepTyped DEF Typed, Located, Now, PlanInv, Talking
<1>2. \A k \in DOMAIN steps : k = index => steps[k] = Now
  BY <1>1
<1>3. CASE Checking /\ code = 0
  <2>1. NextStep("ALREADY INSTALLED") /\ "ALREADY INSTALLED" \in Settled
    BY <1>3 DEF Return, Checking, Settled, Good
  <2>2. ~cancelRequested => \A k \in DOMAIN steps : k = index => Effective(steps[k])'
    BY <1>2, <1>3 DEF Tells, Effective
  <2> QED
    BY <2>1, <2>2, EndKeepsPlan
<1>4. CASE Checking /\ code # 0
  <2>1. pc' = "command" /\ UNCHANGED <<steps, index, stepOk>>
    BY <1>4 DEF Return, Checking
  <2>2. \A n \in Asked' : \E m \in Asked : toHelper[m].step = toHelper'[n].step
    BY DEF Asked
  <2>3. HelperReadable' => HelperReadable
    BY DEF HelperReadable
  <2>4. pc \in InStep \ {"local", "verify"} /\ pc \notin Parted /\ pc # "launch" /\ pc # "crashed"
        /\ pc' \in InStep \ {"local", "verify"} /\ pc' \notin Parted /\ pc' # "launch"
        /\ connection = "open"
    BY <2>1 DEF InStep, Parted, PlanInv, Talking
  <2>5. Steady
    BY <2>1, <2>2, <2>3, <2>4, SameApplied DEF Steady
  <2> QED
    BY <2>5, SteadyStep
<1>5. CASE ~Checking
  <2> DEFINE mark == IF code \in Accepted(Now) THEN "OK" ELSE "FAILED"
  <2>1. NextStep(mark) /\ mark \in Settled /\ (mark \in Good => code \in Accepted(Now))
    BY <1>5 DEF Return, Checking, Settled, Good
  <2>2. ~cancelRequested /\ mark \in Good =>
          \A k \in DOMAIN steps : k = index => Effective(steps[k])'
    BY <1>2, <1>5, <2>1 DEF Tells, Effective
  <2> HIDE DEF mark
  <2> QED
    BY <2>1, <2>2, EndKeepsPlan
<1> QED
  BY <1>3, <1>4, <1>5

LEMMA LocalKeepsPlan ==
  ASSUME Typed, PlanInv, AnswerInv, RunLocal \/ VerifyLocal \/ NoCommand
  PROVE  PlanInv'
<1>1. /\ pc \in InStep /\ ~Waiting /\ connection = "open"
      /\ UNCHANGED <<steps, cancelRequested, toHelper, connection, child, request, server>>
  BY DEF RunLocal, VerifyLocal, NoCommand, InStep, Waiting, serverVars, PlanInv, Talking
<1>2. index \in DOMAIN steps /\ Now = steps[index] /\ index \in Nat /\ Now.id \in StepId
  BY <1>1, StepTyped DEF Typed, Located, Now
<1>3. ~cancelRequested /\ HelperReadable => Asked = {}
  BY <1>1, NothingAsked
<1>4. \A k \in DOMAIN steps : k # index => steps[k].id # Now.id /\ steps[k].id \in StepId
  BY <1>2, StepTyped DEF PlanInv, Distinct
<1>5. \A k \in DOMAIN steps : k # index => applied'[steps[k].id] = applied[steps[k].id]
  BY <1>4 DEF RunLocal, VerifyLocal, NoCommand, Typed, TypeOK
<1>6. \A k \in DOMAIN steps : k = index => steps[k] = Now
  BY <1>2
<1>7. CASE \E mark \in Settled : /\ NextStep(mark)
                                 /\ mark \in Good => \/ applied'[Now.id] = "done"
                                                     \/ ~Now.local /\ ~Now.command
  <2>1. PICK mark \in Settled : /\ NextStep(mark)
                                /\ mark \in Good => \/ applied'[Now.id] = "done"
                                                    \/ ~Now.local /\ ~Now.command
    BY <1>7
  <2>2. mark \in Good => \A k \in DOMAIN steps : k = index => Effective(steps[k])'
    BY <1>1, <1>6, <2>1 DEF Effective
  <2> QED
    BY <1>1, <1>3, <1>5, <2>1, <2>2, EndKeepsPlan
<1>8. CASE RunLocal /\ pc' = "verify" /\ UNCHANGED <<index, stepOk>>
  <2>1. pc \notin Parted /\ pc' \notin Parted /\ pc' \in InStep /\ pc' \notin InStep \ {"local", "verify"}
        /\ pc' # "launch"
    BY <1>1, <1>8 DEF InStep, Parted
  <2>2. \A n \in Asked' : \E m \in Asked : toHelper[m].step = toHelper'[n].step
    BY <1>1 DEF Asked
  <2>3. Last(index) /\ Tried(index)
    BY <1>1, <1>2, StepTyped DEF PlanInv, Untried, Last, Tried
  <2>4. \A k \in DOMAIN steps : /\ applied'[steps[k].id] # "no" => Tried(k)
                                /\ Effective(steps[k]) /\ ~Last(k) => Effective(steps[k])'
    BY <1>1, <1>5, <2>3 DEF Tried, Effective
  <2>5. HelperReadable' = HelperReadable
    BY <1>1 DEF HelperReadable
  <2>6. Steady
    BY <1>1, <1>8, <2>1, <2>2, <2>4, <2>5 DEF Steady
  <2> QED
    BY <2>6, SteadyStep
<1>9. CASE RunLocal
  <2>1. PICK code \in Codes :
          /\ applied' = [applied EXCEPT ![Now.id] =
                           IF code = 0 /\ ~Now.verify THEN "done" ELSE "begun"]
          /\ IF code = 0 /\ Now.verify
             THEN pc' = "verify" /\ UNCHANGED <<index, stepOk, errorCount, events>>
             ELSE NextStep(IF code = 0 THEN "OK" ELSE "FAILED")
    BY <1>9 DEF RunLocal
  <2>2. CASE code = 0 /\ Now.verify
    BY <1>8, <1>9, <2>1, <2>2
  <2>3. CASE code = 0 /\ ~Now.verify
    BY <1>2, <1>7, <2>1, <2>3 DEF Settled, Good, Typed, TypeOK
  <2>4. CASE code # 0
    BY <1>7, <2>1, <2>4 DEF Settled, Good
  <2> QED
    BY <2>2, <2>3, <2>4
<1>10. CASE VerifyLocal
  <2>1. PICK match \in BOOLEAN :
          /\ applied' = IF match THEN [applied EXCEPT ![Now.id] = "done"] ELSE applied
          /\ NextStep(IF match THEN "OK" ELSE "FAILED")
    BY <1>10 DEF VerifyLocal
  <2>2. CASE match
    BY <1>2, <1>7, <2>1, <2>2 DEF Settled, Good, Typed, TypeOK
  <2>3. CASE ~match
    BY <1>7, <2>1, <2>3 DEF Settled, Good
  <2> QED
    BY <2>2, <2>3
<1>11. CASE NoCommand
  BY <1>7, <1>11 DEF NoCommand, Settled, Good, PlanInv, Talking, InStep
<1> QED
  BY <1>9, <1>10, <1>11

LEMMA RequestKeepsPlan ==
  ASSUME Typed, PlanInv, AnswerInv, SendExecute
  PROVE  PlanInv'
<1>1. /\ pc \in InStep \ {"local", "verify"} /\ ~Waiting /\ connection = "open" /\ index \in Nat
      /\ UNCHANGED <<steps, cancelRequested, connection, child, request, server, applied>>
  BY DEF SendExecute, InStep, Waiting, serverVars, PlanInv, Talking, Typed, TypeOK
<1>2. CASE HelperReadable
  <2>1. toHelper' = Append(toHelper, Execute(index, pc)) /\ UNCHANGED <<index, stepOk>>
        /\ pc' \in {"awaitCheck", "awaitCommand"}
    BY <1>2 DEF SendExecute
  <2>2. \A n \in Asked' : \/ \E m \in Asked : toHelper[m].step = toHelper'[n].step
                          \/ toHelper'[n].step = index
    <3>1. Execute(index, pc).step = index
      BY DEF Execute
    <3> QED
      BY <2>1, <3>1, AppendAsked
  <2>3. pc \notin Parted /\ pc' \notin Parted /\ pc' \in InStep \ {"local", "verify"} /\ pc' # "launch"
    BY <1>1, <2>1 DEF InStep, Parted
  <2>4. HelperReadable' = HelperReadable
    BY <1>1 DEF HelperReadable
  <2>5. Steady
    BY <1>1, <2>1, <2>2, <2>3, <2>4, SameApplied DEF Steady
  <2> QED
    BY <2>5, SteadyStep
<1>3. CASE ~HelperReadable
  <2>1. Return(Lost) /\ toHelper' = toHelper
    BY <1>3 DEF SendExecute
  <2> QED
    BY <1>1, <1>3, <2>1, LostTells, CodesFacts, ReturnKeepsPlan
<1> QED
  BY <1>2, <1>3

LEMMA ClosedKeepsPlan ==
  ASSUME Typed, PlanInv, ReceiveClosed
  PROVE  PlanInv'
<1>1. /\ pc \in InStep \ {"local", "verify"} /\ ~HelperReadable /\ Return(Lost)
      /\ UNCHANGED <<steps, cancelRequested, toHelper, connection, child, request, server, applied>>
  BY DEF ReceiveClosed, Waiting, InStep, serverVars
<1> QED
  BY <1>1, LostTells, CodesFacts, ReturnKeepsPlan

LEMMA LineKeepsPlan ==
  ASSUME Typed, PlanInv, AnswerInv, Truthful, TakeLine
  PROVE  PlanInv'
<1> DEFINE line == Head(buffer)
<1>1. /\ pc \in InStep \ {"local", "verify"} /\ connection = "open"
      /\ UNCHANGED <<steps, cancelRequested, toHelper, connection, child, request, server, applied>>
      /\ buffer # <<>> /\ line = buffer[1] /\ 1 \in DOMAIN buffer /\ line \in Response
  BY DEF TakeLine, Waiting, InStep, serverVars, PlanInv, Talking, Typed, TypeOK
<1>2. CASE line.type \in Ends
  <2>1. CodeOf(line) \in Codes /\ Return(CodeOf(line))
    BY <1>1, <1>2, CodesFacts DEF TakeLine, CodeOf, Response
  <2>2. ~cancelRequested => Tells(CodeOf(line))
    BY <1>1, LostTells DEF Truthful, Told, CodeOf
  <2>3. ~cancelRequested => 1 \in Finals(buffer)
    BY <1>1, <1>2 DEF AnswerInv, NoCancel, NoCancelIn, Finals, IsFinal, Ends
  <2>4. ~cancelRequested /\ HelperReadable => Asked = {}
    BY <2>3 DEF AnswerInv, Answered
  <2> QED
    BY <1>1, <2>1, <2>2, <2>4, ReturnKeepsPlan
<1>3. CASE line.type \notin Ends
  <2>1. UNCHANGED <<pc, index, stepOk>>
    BY <1>3 DEF TakeLine, Continue
  <2>2. pc \notin Parted /\ pc # "launch"
    BY <1>1 DEF InStep, Parted
  <2>3. Asked' = Asked /\ HelperReadable' = HelperReadable
    BY <1>1 DEF Asked, HelperReadable
  <2>4. Steady
    BY <1>1, <2>1, <2>2, <2>3, SameApplied DEF Steady
  <2> QED
    BY <2>4, SteadyStep
<1> QED
  BY <1>2, <1>3

LEMMA PlanStep ==
  ASSUME Typed, QuietInv, AnswerInv, PlanInv, Truthful, [Next]_vars
  PROVE  PlanInv'
<1>1. CASE \/ LaunchFails \/ ConnectFails \/ Connect \/ Authenticated \/ AuthenticationFails
           \/ EndSession \/ StopHelper \/ SendCancel \/ Receive \/ GuiCrash \/ Cancel \/ Deliver
           \/ UNCHANGED vars
  BY <1>1, SpeechIsSteady, SteadyStep
<1>2. CASE LaunchSucceeds \/ BeginStep \/ SkipStep
  BY <1>2, LaunchKeepsPlan, BeginKeepsPlan, SkipKeepsPlan
<1>3. CASE RunLocal \/ VerifyLocal \/ NoCommand \/ SendExecute \/ ReceiveClosed \/ TakeLine
  BY <1>3, LocalKeepsPlan, RequestKeepsPlan, ClosedKeepsPlan, LineKeepsPlan
<1>4. CASE \/ HelperAccepts \/ HelperGivesUp \/ HelperSeesEnd \/ HelperPumps \/ HelperReaps
           \/ GraceElapses \/ HelperCrash \/ HelperReads \/ ChildExits
  BY <1>4, HelperIsSteady, ReadingIsSteady, ExitIsSteady, SteadyStep
<1> QED
  BY <1>1, <1>2, <1>3, <1>4 DEF Next, Worker, Helper, Terminated

------------------------------------------------------------------------------
(* Answers tell the truth as long as Stop was not pressed *)

(* Outside a request there is nobody to be told.                             *)
LEMMA TruthOutside ==
  ASSUME AnswerInv', ~Waiting', NotInstalledYet'
  PROVE  Truthful'
<1>1. ASSUME ~cancelRequested'
      PROVE  (AskedTruly /\ ServedTruly /\ Told(buffer) /\ Told(toClient))'
  <2>1. /\ Finals(buffer') = {} /\ Finals(toClient') = {}
        /\ connection' = "open" /\ HelperReadable' => Asked' = {}
        /\ connection' = "open" => ~Busy'
    BY <1>1 DEF AnswerInv, OnItsWay, Served, Answered
  <2> QED
    BY <2>1 DEF AskedTruly, ServedTruly, Told, Finals, IsFinal
<1> QED
  BY <1>1 DEF Truthful

(* The worker and the system stay as they are.                               *)
LEMMA TruthKept ==
  ASSUME Truthful,
         cancelRequested => cancelRequested',
         UNCHANGED <<pc, index, steps, applied, connection>>,
         ~cancelRequested => AskedTruly' /\ ServedTruly' /\ Told(buffer') /\ Told(toClient'),
         ~cancelRequested /\ Checking /\ child' = "running" /\ request'.step = index
            => request'.what = "check"
  PROVE  Truthful'
<1>1. \A code : Tells(code)' <=> Tells(code)
  BY DEF Tells, Checking, Now
<1>2. Told(buffer') /\ Told(toClient') => Told(buffer)' /\ Told(toClient)'
  BY <1>1 DEF Told
<1>3. ~cancelRequested => NotInstalledYet'
  BY DEF Truthful, NotInstalledYet, Checking, Now
<1> QED
  BY <1>2, <1>3 DEF Truthful

LEMMA ReplyTold ==
  ASSUME Typed, NEW answers \in Seq(Response), Reply(answers), Told(toClient), Told(answers)
  PROVE  Told(toClient')
<1>1. CASE connection = "open"
  <2>1. toClient' = toClient \o answers /\ toClient \in Seq(Response)
    BY <1>1 DEF Reply, Typed, TypeOK
  <2>2. /\ Len(toClient') = Len(toClient) + Len(answers) /\ toClient' \in Seq(Response)
        /\ \A n \in 1..Len(toClient) : toClient'[n] = toClient[n]
        /\ \A n \in Len(toClient) + 1 .. Len(toClient') : toClient'[n] = answers[n - Len(toClient)]
    BY <2>1
  <2>3. \A n \in DOMAIN toClient' :
          \/ n \in DOMAIN toClient /\ toClient'[n] = toClient[n]
          \/ n - Len(toClient) \in DOMAIN answers /\ toClient'[n] = answers[n - Len(toClient)]
    <3> SUFFICES ASSUME NEW n \in DOMAIN toClient', n \notin DOMAIN toClient
                 PROVE  /\ n - Len(toClient) \in DOMAIN answers
                        /\ toClient'[n] = answers[n - Len(toClient)]
      BY <2>1, <2>2
    <3>1. n \in Len(toClient) + 1 .. Len(toClient')
      BY <2>1, <2>2
    <3> QED
      BY <2>1, <2>2, <3>1
  <2> QED
    BY <2>3 DEF Told
<1>2. CASE connection # "open"
  BY <1>2 DEF Reply
<1> QED
  BY <1>1, <1>2

(* Nothing the helper says but a code says anything about the step.          *)
LEMMA SaysNothing ==
  /\ \A type \in AnswerType \ {"finished"} : Told(<<Notice(type)>>)
  /\ \A k \in Nat : Told(<<Answer("rejected", k, Lost)>>)
  /\ Told(<<>>) /\ Told([n \in 1..Cancels |-> Notice("cancel_ack")])
<1>1. \A type : Notice(type).type = type
  BY DEF Notice, Answer
<1>2. \A k \in Nat : Answer("rejected", k, Lost).type = "rejected"
  BY DEF Answer
<1>3. \A lines \in {<<x>> : x \in {Notice(type) : type \in AnswerType \ {"finished"}}} : Told(lines)
  BY <1>1 DEF Told
<1>4. \A k \in Nat : DOMAIN <<Answer("rejected", k, Lost)>> = {1}
  OBVIOUS
<1> QED
  BY <1>1, <1>2, <1>3, <1>4 DEF Told

LEMMA BeginTruth ==
  ASSUME Typed, PlanInv, AnswerInv', BeginStep
  PROVE  Truthful'
<1>1. /\ pc = "loop" /\ index \in DOMAIN steps /\ pc' \in {"local", "check", "command"}
      /\ UNCHANGED <<steps, index, applied, child, request>> /\ index \in Nat
  BY DEF BeginStep, serverVars, Typed, TypeOK
<1>2. ~Tried(index)
  BY <1>1 DEF PlanInv, Untried, InStep
<1>3. applied[steps[index].id] = "no" /\ ~(child = "running" /\ request.step = index)
  BY <1>2 DEF Tried
<1>4. NotInstalledYet'
  BY <1>1, <1>3 DEF NotInstalledYet, Now
<1> QED
  BY <1>1, <1>4, TruthOutside DEF Waiting

(* Elsewhere the worker leaves the request, or never was in one.             *)
LEMMA OutsideTruth ==
  ASSUME AnswerInv',
         \/ LaunchFails \/ LaunchSucceeds \/ ConnectFails \/ Connect \/ Authenticated
         \/ AuthenticationFails \/ SkipStep \/ RunLocal \/ VerifyLocal \/ NoCommand
         \/ ReceiveClosed \/ EndSession \/ StopHelper \/ GuiCrash
  PROVE  Truthful'
<1>1. pc' \notin {"check", "awaitCheck", "awaitCommand"}
  BY DEF LaunchFails, LaunchSucceeds, ConnectFails, Connect, Authenticated, AuthenticationFails,
         SkipStep, RunLocal, VerifyLocal, NoCommand, ReceiveClosed, Waiting, Return, NextStep,
         EndSession, StopHelper, GuiCrash
<1> QED
  BY <1>1, TruthOutside DEF Waiting, NotInstalledYet, Checking

LEMMA SendingTruth ==
  ASSUME Typed, AnswerInv, AnswerInv', PlanInv, Truthful, SendExecute
  PROVE  Truthful'
<1>1. /\ pc \in What /\ ~Waiting /\ connection = "open" /\ toHelper \in Seq(Request)
      /\ UNCHANGED <<buffer, toClient, connection, server, request, child, steps, applied,
                     cancelRequested>>
  BY DEF SendExecute, Waiting, serverVars, PlanInv, Talking, InStep, Typed, TypeOK, What
<1>2. CASE ~HelperReadable
  <2>1. pc' \notin {"check", "awaitCheck", "awaitCommand"}
    BY <1>1, <1>2 DEF SendExecute, Return, NextStep
  <2> QED
    BY <2>1, TruthOutside DEF Waiting, NotInstalledYet, Checking
<1>3. CASE HelperReadable /\ ~cancelRequested
  <2>1. toHelper' = Append(toHelper, Execute(index, pc)) /\ index' = index /\ pc' = Await(pc)
    BY <1>1, <1>3 DEF SendExecute, Await
  <2>2. Asked = {} /\ ~Busy /\ Finals(buffer) = {} /\ Finals(toClient) = {}
    BY <1>1, <1>3, NothingAsked
  <2>3. \A n \in Asked' : toHelper'[n].what = pc
    <3>1. Execute(index, pc).what = pc
      BY DEF Execute
    <3> QED
      BY <2>1, <2>2, <3>1, AppendAsked
  <2>4. AskedTruly' /\ ServedTruly'
    BY <1>1, <2>1, <2>2, <2>3 DEF AskedTruly, ServedTruly, Busy
  <2>5. Told(buffer)' /\ Told(toClient)'
    BY <1>1, <2>2 DEF Told, Finals, IsFinal
  <2>6. Checking' => Checking
    BY <1>1, <2>1 DEF Checking, Await, What
  <2>7. NotInstalledYet'
    BY <1>1, <1>3, <2>1, <2>6 DEF Truthful, NotInstalledYet, Now
  <2> QED
    BY <2>4, <2>5, <2>7 DEF Truthful
<1>4. CASE cancelRequested
  BY <1>1, <1>4 DEF Truthful
<1> QED
  BY <1>2, <1>3, <1>4

LEMMA TakingTruth ==
  ASSUME Typed, AnswerInv', Truthful, TakeLine
  PROVE  Truthful'
<1>1. /\ buffer \in Seq(Response) /\ buffer # <<>> /\ buffer' = Tail(buffer)
      /\ UNCHANGED <<toHelper, toClient, connection, server, request, child, childCode, steps,
                     applied, cancelRequested>>
  BY DEF TakeLine, serverVars, Typed, TypeOK
<1>2. CASE Head(buffer).type \in Ends
  <2>1. pc' \notin {"check", "awaitCheck", "awaitCommand"}
    BY <1>2 DEF TakeLine, Return, NextStep, Waiting
  <2> QED
    BY <2>1, TruthOutside DEF Waiting, NotInstalledYet, Checking
<1>3. CASE Head(buffer).type \notin Ends
  <2>1. UNCHANGED <<pc, index>>
    BY <1>3 DEF TakeLine, Continue
  <2>2. \A n \in DOMAIN buffer' : n + 1 \in DOMAIN buffer /\ buffer'[n] = buffer[n + 1]
    BY <1>1
  <2>3. Told(buffer) => Told(buffer')
    BY <2>2 DEF Told
  <2>4. ~cancelRequested => AskedTruly' /\ ServedTruly'
    <3>1. \A code : Tells(code)' <=> Tells(code)
      BY <1>1, <2>1 DEF Tells, Checking, Now
    <3>2. Asked' = Asked /\ HelperReadable' = HelperReadable /\ Busy' = Busy
      BY <1>1 DEF Asked, HelperReadable, Busy
    <3> QED
      BY <1>1, <2>1, <3>1, <3>2 DEF Truthful, AskedTruly, ServedTruly
  <2>5. ~cancelRequested /\ Checking /\ child' = "running" /\ request'.step = index
          => request'.what = "check"
    BY <1>1 DEF Truthful, NotInstalledYet
  <2> QED
    BY <1>1, <2>1, <2>3, <2>4, <2>5, TruthKept DEF Truthful
<1> QED
  BY <1>2, <1>3

LEMMA ReceivingTruth ==
  ASSUME Typed, Truthful, Receive
  PROVE  Truthful'
<1>1. /\ toClient \in Seq(Response)
      /\ UNCHANGED <<pc, index, toHelper, connection, server, request, child, childCode, steps,
                     applied, cancelRequested>>
  BY DEF Receive, serverVars, Typed, TypeOK
<1>2. PICK k \in 1..Len(toClient) : /\ buffer' = SubSeq(toClient, 1, k)
                                    /\ toClient' = SubSeq(toClient, k + 1, Len(toClient))
  BY DEF Receive
<1>3. /\ \A n \in DOMAIN buffer' : n \in DOMAIN toClient /\ buffer'[n] = toClient[n]
      /\ \A n \in DOMAIN toClient' : n + k \in DOMAIN toClient /\ toClient'[n] = toClient[n + k]
  BY <1>1, <1>2
<1>4. Told(toClient) => Told(buffer') /\ Told(toClient')
  BY <1>3 DEF Told
<1>5. ~cancelRequested => AskedTruly' /\ ServedTruly'
  <2>1. \A code : Tells(code)' <=> Tells(code)
    BY <1>1 DEF Tells, Checking, Now
  <2>2. Asked' = Asked /\ HelperReadable' = HelperReadable /\ Busy' = Busy
    BY <1>1 DEF Asked, HelperReadable, Busy
  <2> QED
    BY <1>1, <2>1, <2>2 DEF Truthful, AskedTruly, ServedTruly
<1>6. ~cancelRequested /\ Checking /\ child' = "running" /\ request'.step = index
        => request'.what = "check"
  BY <1>1 DEF Truthful, NotInstalledYet
<1> QED
  BY <1>1, <1>4, <1>5, <1>6, TruthKept DEF Truthful

LEMMA UserTruth ==
  ASSUME Truthful, Cancel \/ Deliver \/ SendCancel \/ UNCHANGED vars
  PROVE  Truthful'
<1>1. CASE Cancel \/ SendCancel
  BY <1>1 DEF Cancel, SendCancel, Truthful
<1>2. CASE Deliver \/ UNCHANGED vars
  <2>1. UNCHANGED <<pc, index, toHelper, toClient, buffer, connection, server, request, child,
                    childCode, steps, applied, cancelRequested>>
    BY <1>2 DEF Deliver, vars, workerVars, serverVars
  <2>2. \A code : Tells(code)' <=> Tells(code)
    BY <2>1 DEF Tells, Checking, Now
  <2>3. Asked' = Asked /\ HelperReadable' = HelperReadable /\ Busy' = Busy
    BY <2>1 DEF Asked, HelperReadable, Busy
  <2>4. (Told(buffer) => Told(buffer')) /\ (Told(toClient) => Told(toClient'))
    BY <2>1
  <2>5. ~cancelRequested => AskedTruly' /\ ServedTruly'
    BY <2>1, <2>2, <2>3 DEF Truthful, AskedTruly, ServedTruly
  <2>6. ~cancelRequested /\ Checking /\ child' = "running" /\ request'.step = index
          => request'.what = "check"
    BY <2>1 DEF Truthful, NotInstalledYet
  <2> QED
    BY <2>1, <2>4, <2>5, <2>6, TruthKept DEF Truthful
<1> QED
  BY <1>1, <1>2

(* A step of the helper that changes nothing on the system: who asked and is *)
(* served stays, and what it says is true.                                   *)
LEMMA SpokenTruth ==
  ASSUME Typed, Truthful, HelperUnchanged, UNCHANGED applied,
         HelperReadable' => HelperReadable,
         \A n \in Asked' : \E m \in Asked : toHelper[m].what = toHelper'[n].what,
         Busy' => Busy /\ UNCHANGED <<request, child, childCode>>,
         child' = "running" => child = "running" /\ UNCHANGED request,
         NEW answers \in Seq(Response), Reply(answers),
         ~cancelRequested /\ connection = "open" => Told(answers)
  PROVE  Truthful'
<1>1. UNCHANGED <<pc, index, steps, applied, connection, buffer, cancelRequested>>
  BY DEF HelperUnchanged, workerVars
<1>2. \A code : Tells(code)' <=> Tells(code)
  BY <1>1 DEF Tells, Checking, Now
<1>3. ~cancelRequested => AskedTruly'
  <2>1. ~cancelRequested => AskedTruly
    BY DEF Truthful
  <2> QED
    BY <1>1, <2>1 DEF AskedTruly
<1>4. ~cancelRequested => ServedTruly'
  <2>1. ~cancelRequested => ServedTruly
    BY DEF Truthful
  <2> QED
    BY <1>1, <1>2, <2>1 DEF ServedTruly
<1>5. ~cancelRequested => Told(buffer') /\ Told(toClient')
  <2>1. CASE connection = "open"
    BY <1>1, <2>1, ReplyTold DEF Truthful
  <2>2. CASE connection # "open"
    BY <1>1, <2>2 DEF Truthful, Reply
  <2> QED
    BY <2>1, <2>2
<1>6. ~cancelRequested /\ Checking /\ child' = "running" /\ request'.step = index
        => request'.what = "check"
  BY DEF Truthful, NotInstalledYet
<1> QED
  BY <1>1, <1>3, <1>4, <1>5, <1>6, TruthKept DEF Truthful

LEMMA TailAsked ==
  ASSUME Typed, \/ toHelper' = toHelper \/ toHelper' = <<>>
                \/ toHelper # <<>> /\ toHelper' = Tail(toHelper)
  PROVE  \A n \in Asked' : \E m \in Asked : toHelper[m].what = toHelper'[n].what
<1>1. CASE toHelper' = toHelper \/ toHelper' = <<>>
  BY <1>1 DEF Asked
<1>2. CASE toHelper # <<>> /\ toHelper' = Tail(toHelper)
  BY <1>2, HeadAnswered DEF Typed, TypeOK
<1> QED
  BY <1>1, <1>2

LEMMA HelperTruth ==
  ASSUME Typed, Truthful, \/ HelperAccepts \/ HelperGivesUp \/ HelperSeesEnd \/ HelperPumps
                          \/ GraceElapses \/ HelperCrash
  PROVE  Truthful'
<1>1. /\ HelperUnchanged /\ UNCHANGED <<applied, request, child, childCode>>
      /\ HelperReadable' => HelperReadable
      /\ Busy' => Busy
  BY DEF HelperAccepts, HelperGivesUp, HelperSeesEnd, HelperPumps, GraceElapses, HelperCrash,
         HelperUnchanged, HelperReadable, Gone, Busy
<1>2. \A n \in Asked' : \E m \in Asked : toHelper[m].what = toHelper'[n].what
  BY TailAsked DEF HelperAccepts, HelperGivesUp, HelperSeesEnd, HelperPumps, GraceElapses, HelperCrash
<1>3. \E answers \in Seq(Response) : Reply(answers) /\ Told(answers)
  <2>1. CASE HelperAccepts
    BY <2>1, Ordinary, SaysNothing DEF HelperAccepts, AnswerType
  <2>2. CASE HelperPumps
    <3>1. [n \in 1..Cancels |-> Notice("cancel_ack")] \in Seq(Response)
      <4>1. Notice("cancel_ack") \in Response /\ Cancels \in Nat
        BY CancelsNat, CodesFacts DEF Notice, Answer, Response, AnswerType, Typed, TypeOK
      <4> QED
        BY <4>1
    <3> QED
      BY <2>2, <3>1, SaysNothing DEF HelperPumps
  <2>3. CASE HelperGivesUp \/ HelperSeesEnd \/ GraceElapses \/ HelperCrash
    <3>1. toClient \in Seq(Response) /\ toClient' = toClient
      BY <2>3 DEF HelperGivesUp, HelperSeesEnd, GraceElapses, HelperCrash, Typed, TypeOK
    <3> QED
      BY <3>1, Silence, SaysNothing
  <2> QED
    BY <2>1, <2>2, <2>3
<1> QED
  BY <1>1, <1>2, <1>3, SpokenTruth

(* The command ended: its code is true, for the step being served is the     *)
(* worker's.                                                                 *)
LEMMA ReapingTruth ==
  ASSUME Typed, AnswerInv, PlanInv, Truthful, HelperReaps
  PROVE  Truthful'
<1>1. /\ HelperUnchanged /\ UNCHANGED <<applied, request, childCode>> /\ toHelper' = toHelper
      /\ HelperReadable /\ Busy /\ request.step \in Nat /\ childCode \in Codes
      /\ toClient \in Seq(Response)
  BY DEF HelperReaps, HelperReadable, Gone, Busy, Typed, TypeOK, Request
<1>2. \A n \in Asked' : \E m \in Asked : toHelper[m].what = toHelper'[n].what
  BY <1>1, TailAsked
<1>3. CASE Reaped
  <2>1. /\ Reply(<<Answer("finished", request.step, childCode)>>) /\ child = "exited"
        /\ child' = "none" /\ server' = "serve"
    BY <1>3 DEF HelperReaps, Reaped
  <2>2. ~cancelRequested /\ connection = "open" => Tells(childCode)
    BY <1>1, <2>1 DEF Truthful, ServedTruly
  <2>3. /\ DOMAIN <<Answer("finished", request.step, childCode)>> = {1}
        /\ <<Answer("finished", request.step, childCode)>>[1].code = childCode
        /\ <<Answer("finished", request.step, childCode)>> \in Seq(Response)
    <3>1. Answer("finished", request.step, childCode).code = childCode
      BY DEF Answer
    <3>2. /\ DOMAIN <<Answer("finished", request.step, childCode)>> = {1}
          /\ <<Answer("finished", request.step, childCode)>>[1]
               = Answer("finished", request.step, childCode)
      OBVIOUS
    <3>3. <<Answer("finished", request.step, childCode)>> \in Seq(Response)
      BY <1>1, AnswerFacts
    <3> QED
      BY <3>1, <3>2, <3>3
  <2>4. ~cancelRequested /\ connection = "open"
          => Told(<<Answer("finished", request.step, childCode)>>)
    BY <2>2, <2>3 DEF Told
  <2>5. ~Busy'
    BY <2>1 DEF Busy
  <2> QED
    BY <1>1, <1>2, <2>1, <2>3, <2>4, <2>5, SpokenTruth
<1>4. CASE ~Reaped
  <2>1. toClient' = toClient /\ child' = child
    BY <1>4 DEF HelperReaps
  <2> QED
    BY <1>1, <1>2, <2>1, Silence, SaysNothing, SpokenTruth
<1> QED
  BY <1>3, <1>4

LEMMA ReadingTruth ==
  ASSUME Typed, QuietInv, AnswerInv, AnswerInv', PlanInv, Truthful, HelperReads
  PROVE  Truthful'
<1> DEFINE line == Head(toHelper)
<1>1. /\ HelperUnchanged /\ server = "serve" /\ HelperReadable /\ toHelper # <<>>
      /\ toHelper' = Tail(toHelper) /\ toHelper \in Seq(Request) /\ ~Busy /\ line.step \in Nat
      /\ UNCHANGED <<pc, index, steps, connection, buffer, cancelRequested>>
  BY HeadRequest DEF HelperReads, HelperUnchanged, workerVars, HelperReadable, Gone, Busy, Typed,
                     TypeOK
<1>2. \A n \in Asked' : \E m \in Asked : toHelper[m].what = toHelper'[n].what
  BY <1>1, TailAsked
<1>3. child # "running"
  BY <1>1 DEF QuietInv, CommandHasHelper
<1>4. CASE /\ UNCHANGED <<child, applied>> /\ ~Busy'
           /\ \E answers \in Seq(Response) :
                Reply(answers) /\ (~cancelRequested /\ connection = "open" => Told(answers))
  BY <1>1, <1>2, <1>3, <1>4, SpokenTruth
<1>5. CASE line.what = "shutdown" \/ line.what = "cancel"
  <2>1. CASE line.what = "shutdown"
    BY <1>1, <1>4, <2>1, Ordinary, SaysNothing DEF HelperReads, AnswerType, Busy, HandleExecute, What
  <2>2. CASE line.what = "cancel"
    <3>1. <<Notice("cancel_ack")>> \in Seq(Response) /\ Told(<<Notice("cancel_ack")>>)
      BY AnswerTyped, CodesFacts, SaysNothing DEF AnswerType
    <3> QED
      BY <1>1, <1>4, <2>2, <3>1 DEF HelperReads, Busy, What
  <2> QED
    BY <1>5, <2>1, <2>2
<1>6. CASE line.what \in What /\ HandleExecute(line)
  <2>1. CASE ~steps[line.step].permitted
    <3>1. <<Answer("rejected", line.step, Lost)>> \in Seq(Response)
      BY <1>1, AnswerFacts, CodesFacts
    <3> QED
      BY <1>1, <1>4, <1>6, <2>1, <3>1, SaysNothing DEF HandleExecute, Busy
  <2>2. CASE Reply(<<Notice("started"), Answer("finished", line.step, Lost)>>)
             /\ UNCHANGED <<server, child, applied>>
    <3>1. <<Notice("started"), Answer("finished", line.step, Lost)>> \in Seq(Response)
      BY <1>1, AnswerFacts, CodesFacts
    <3>2. ~cancelRequested /\ connection = "open" => pc \in InStep
      BY <1>1, <1>6, RequestTaken DEF Waiting, InStep
    <3>3. pc \in InStep => Told(<<Notice("started"), Answer("finished", line.step, Lost)>>)
      <4>1. /\ DOMAIN <<Notice("started"), Answer("finished", line.step, Lost)>> = {1, 2}
            /\ Notice("started").type = "started" /\ Answer("finished", line.step, Lost).code = Lost
        BY DEF Notice, Answer
      <4> QED
        BY <4>1, LostTells DEF Told
    <3> QED
      BY <1>1, <1>4, <2>2, <3>1, <3>2, <3>3 DEF Busy
  <2>3. CASE /\ Reply(<<Notice("started")>>) /\ server' = "pump" /\ child' = "running"
             /\ request' = line
             /\ applied' = IF line.what = "command"
                           THEN [applied EXCEPT ![steps[line.step].id] = "begun"] ELSE applied
    <3>1. CASE ~Waiting
      <4>1. Checking => pc = "check"
        BY <3>1 DEF Waiting, Checking
      <4>2. ~cancelRequested /\ Checking => FALSE
        BY <1>1, <1>6, <3>1, <4>1, RequestTaken DEF PlanInv, Talking, InStep
      <4>3. NotInstalledYet' \/ cancelRequested'
        BY <1>1, <4>2 DEF NotInstalledYet, Checking
      <4> QED
        BY <1>1, <3>1, <4>3, TruthOutside DEF Waiting, Truthful
    <3>2. CASE cancelRequested
      BY <1>1, <3>2 DEF Truthful
    <3>3. CASE Waiting /\ ~cancelRequested
      <4>1. connection = "open"
        BY <3>3 DEF PlanInv, Talking, Waiting, InStep
      <4>2. Asked' = {} /\ line.step = index /\ Finals(buffer) = {} /\ Finals(toClient) = {}
        BY <1>1, <1>6, <3>3, <4>1, RequestTaken
      <4>3. pc = Await(line.what)
        BY <1>1, <1>6, <3>3, <4>1, HeadAnswered DEF Truthful, AskedTruly
      <4>4. Finals(toClient') = {}
        BY <2>3, <4>2, Ordinary, OrdinaryReply DEF AnswerType, Typed, TypeOK
      <4>5. Told(buffer)' /\ Told(toClient)'
        BY <1>1, <4>2, <4>4 DEF Told, Finals, IsFinal
      <4>6. AskedTruly' /\ ServedTruly'
        BY <1>1, <1>6, <2>3, <4>2, <4>3 DEF AskedTruly, ServedTruly
      <4>7. NotInstalledYet'
        BY <1>1, <1>6, <2>3, <3>3, <4>3 DEF Truthful, NotInstalledYet, Checking, Await, Now, What
      <4> QED
        BY <4>5, <4>6, <4>7 DEF Truthful
    <3> QED
      BY <3>1, <3>2, <3>3
  <2> QED
    BY <1>6, <2>1, <2>2, <2>3 DEF HandleExecute
<1> QED
  BY <1>5, <1>6 DEF HelperReads

LEMMA ExitTruth ==
  ASSUME Typed, AnswerInv, PlanInv, Truthful, ChildExits
  PROVE  Truthful'
<1>1. /\ child = "running" /\ child' = "exited" /\ request.step \in DOMAIN steps
      /\ UNCHANGED <<pc, index, steps, connection, buffer, cancelRequested, server, request,
                     toHelper, toClient>>
  BY ExitFacts DEF HelperUnchanged, workerVars
<1>2. CASE cancelRequested
  BY <1>1, <1>2 DEF Truthful
<1>3. CASE ~cancelRequested
  <2>1. AskedTruly /\ ServedTruly /\ Told(buffer) /\ Told(toClient) /\ NotInstalledYet
    BY <1>3 DEF Truthful
  <2>2. AskedTruly'
    BY <1>1, <2>1 DEF AskedTruly, Asked, HelperReadable
  <2>3. pc \in InStep => index \in DOMAIN steps
    BY DEF Typed, Located
  <2>4. index \in DOMAIN steps =>
          /\ applied[Now.id] \in {"found", "done"} => applied'[Now.id] \in {"found", "done"}
          /\ applied[Now.id] = "done" => applied'[Now.id] = "done"
    BY ExitFacts DEF Now
  <2>5. \A code : pc \in InStep /\ Tells(code) => Tells(code)'
    BY <1>1, <2>3, <2>4 DEF Tells, Checking, Now
  <2>6. ~Waiting => Told(buffer)' /\ Told(toClient)'
    BY <1>1, <1>3, NothingAsked DEF Told, Finals, IsFinal
  <2>7. Waiting => Told(buffer)' /\ Told(toClient)'
    BY <1>1, <2>1, <2>5 DEF Told, Waiting, InStep
  <2>8. NotInstalledYet'
    <3>1. CASE Checking
      <4>1. index \in DOMAIN steps
        BY <2>3, <3>1 DEF Checking, InStep
      <4>2. applied[steps[index].id] \in {"no", "found"}
            /\ (request.step = index => request.what = "check")
        BY <1>1, <2>1, <3>1 DEF NotInstalledYet, Now
      <4>3. applied'[steps[index].id] \in {"no", "found"}
        BY <4>1, <4>2, ExitFacts
      <4> QED
        BY <1>1, <4>3 DEF NotInstalledYet, Now
    <3>2. CASE ~Checking
      BY <1>1, <3>2 DEF NotInstalledYet, Checking
    <3> QED
      BY <3>1, <3>2
  <2>9. ServedTruly'
    <3> SUFFICES ASSUME connection = "open", Busy
                 PROVE  request.what \in What /\ pc = Await(request.what) /\ Tells(childCode)'
      BY <1>1 DEF ServedTruly, Busy
    <3>1. /\ request.what \in What /\ pc = Await(request.what) /\ request.step = index
          /\ pc \in InStep
      BY <1>3, <2>1 DEF ServedTruly, AnswerInv, Served, Waiting, InStep
    <3>2. index \in DOMAIN steps
      BY <2>3, <3>1
    <3>3. CASE request.what = "check"
      <4>1. Checking /\ applied[steps[index].id] \in {"no", "found"}
        BY <2>1, <3>1, <3>3 DEF NotInstalledYet, Now, Await, Checking
      <4>2. childCode' = 0 => applied'[steps[index].id] = "found"
        BY <3>1, <3>2, <3>3, <4>1, ExitFacts
      <4> QED
        BY <1>1, <3>1, <4>1, <4>2 DEF Tells, Now, Checking
    <3>4. CASE request.what # "check"
      <4>1. ~Checking
        BY <3>1, <3>4 DEF Await, Checking
      <4>2. childCode' \in Accepted(steps[index]) => applied'[steps[index].id] = "done"
        BY <3>1, <3>2, <3>4, <4>1, ExitFacts DEF What
      <4> QED
        BY <1>1, <3>1, <4>1, <4>2 DEF Tells, Now, Checking
    <3> QED
      BY <3>1, <3>3, <3>4
  <2> QED
    BY <2>2, <2>6, <2>7, <2>8, <2>9 DEF Truthful
<1> QED
  BY <1>2, <1>3

------------------------------------------------------------------------------
HonestInv == PlanInv /\ Truthful

LEMMA TruthStep ==
  ASSUME Typed, QuietInv, AnswerInv, AnswerInv', PlanInv, Truthful, [Next]_vars
  PROVE  Truthful'
<1>1. CASE \/ LaunchFails \/ LaunchSucceeds \/ ConnectFails \/ Connect \/ Authenticated
           \/ AuthenticationFails \/ SkipStep \/ RunLocal \/ VerifyLocal \/ NoCommand
           \/ ReceiveClosed \/ EndSession \/ StopHelper \/ GuiCrash
  BY <1>1, OutsideTruth
<1>2. CASE BeginStep \/ SendExecute \/ TakeLine \/ Receive
  BY <1>2, BeginTruth, SendingTruth, TakingTruth, ReceivingTruth
<1>3. CASE Cancel \/ Deliver \/ SendCancel \/ UNCHANGED vars
  BY <1>3, UserTruth
<1>4. CASE \/ HelperAccepts \/ HelperGivesUp \/ HelperSeesEnd \/ HelperPumps \/ GraceElapses
           \/ HelperCrash \/ HelperReaps \/ HelperReads \/ ChildExits
  BY <1>4, HelperTruth, ReapingTruth, ReadingTruth, ExitTruth
<1> QED
  BY <1>1, <1>2, <1>3, <1>4 DEF Next, Worker, Helper, Terminated

LEMMA HonestInvariant == Spec => []HonestInv
<1>1. Init => HonestInv
  <2> SUFFICES ASSUME Init PROVE HonestInv
    OBVIOUS
  <2>1. pc = "launch" /\ steps = <<>> /\ index = 1 /\ connection = "none" /\ child = "none"
        /\ toHelper = <<>> /\ toClient = <<>> /\ buffer = <<>> /\ server = "none"
        /\ \A id \in StepId : applied[id] = "no" /\ stepOk[id] = "unset"
    BY DEF Init
  <2>2. Asked = {}
    BY <2>1 DEF Asked
  <2>3. Distinct /\ Talking /\ Unbegun /\ Untried /\ Recorded /\ RunningKnown /\ Followed
    BY <2>1 DEF Distinct, Talking, Unbegun, Untried, Recorded, RunningKnown, Followed, InStep
  <2>4. Requests /\ OnlyTheLast
    BY <2>1, <2>2 DEF Requests, OnlyTheLast, Misreported
  <2>5. Truthful
    BY <2>1 DEF Truthful, AskedTruly, ServedTruly, Told, NotInstalledYet, Checking
  <2> QED
    BY <2>3, <2>4, <2>5 DEF HonestInv, PlanInv
<1>2. HonestInv /\ Typed /\ QuietInv /\ AnswerInv /\ AnswerInv' /\ [Next]_vars => HonestInv'
  BY PlanStep, TruthStep DEF HonestInv
<1>3. QED
  BY <1>1, <1>2, TypedInvariant, QuietInvariant, AnswerInvariant, PTL DEF Spec

(* A step the session records as ok is carried out, for every plan: its      *)
(* command ended with an accepted code, or its check found it.  Only the     *)
(* step Stop interrupts may be recorded wrongly (execute() takes the first   *)
(* finished line, and the step loop of helpersession.cpp).                   *)
THEOREM Honest == Spec => []HonestUntilStopped
<1>1. HonestInv => HonestUntilStopped
  BY DEF HonestInv, PlanInv, OnlyTheLast, HonestUntilStopped
<1>2. QED
  BY <1>1, HonestInvariant, PTL

(* Nothing of a dependent step is done on the system unless the step it      *)
(* depends on really succeeded, for every plan, also when Stop leaves a      *)
(* request in the socket (helpersession.cpp:391-399).                        *)
THEOREM Dependents == Spec => []DependentsFollowSuccess
<1>1. HonestInv => DependentsFollowSuccess
  BY DEF HonestInv, PlanInv, Followed, Tried, Follows, DependentsFollowSuccess
<1>2. QED
  BY <1>1, HonestInvariant, PTL

-----------------------------------------------------------------------------
(* What the page sees.  The worker's posts are numbered; each is a step of   *)
(* InstallRun over what was posted before it, and the page shows the posts   *)
(* delivered so far.                                                         *)

(* Among the first n posts, or among all, is one of the step with a mark.    *)
Shows(id, marks, n) == \E m \in 1..n : events[m].id = id /\ events[m].mark \in marks
Shown(id, marks) == \E m \in DOMAIN events : events[m].id = id /\ events[m].mark \in marks

FailuresBy(n) == {k \in DOMAIN steps : ~steps[k].optional /\ Shows(steps[k].id, {"FAILED"}, n)}
Failures == {k \in DOMAIN steps : ~steps[k].optional /\ Shown(steps[k].id, {"FAILED"})}

Begun == Settled \cup {"RUNNING"}
Outcome == Good \cup {"FAILED"}

(* Post n is a step of the session over the posts before it.                 *)
StepEvent(n) ==
  \E k \in DOMAIN steps :
    /\ steps[k].id = events[n].id
    /\ \A j \in 1..k-1 : Shows(steps[j].id, Settled, n-1)
    /\ \/ /\ events[n].mark = "RUNNING" /\ ~Shows(steps[k].id, Begun, n-1)
          /\ steps[k].dependsOn # NoStep => Shows(steps[k].dependsOn, Good, n-1)
       \/ /\ events[n].mark = "SKIPPED" /\ ~Shows(steps[k].id, Begun, n-1)
          /\ steps[k].dependsOn # NoStep /\ ~Shows(steps[k].dependsOn, Good, n-1)
       \/ /\ events[n].mark \in Outcome
          /\ Shows(steps[k].id, {"RUNNING"}, n-1) /\ ~Shows(steps[k].id, Settled, n-1)
DoneEvent(n) ==
  \/ events[n].count = 1 /\ n = 1
  \/ /\ events[n].count = Cardinality(FailuresBy(n-1))
     /\ \A id \in StepId : Shows(id, {"RUNNING"}, n-1) => Shows(id, Settled, n-1)
Legal(n) ==
  /\ \A m \in 1..n-1 : events[m].id # NoStep
  /\ events[n].id = NoStep => DoneEvent(n)
  /\ events[n].id # NoStep => StepEvent(n)
AllLegal == \A n \in DOMAIN events : Legal(n)

(* What the posts say of the worker's own record of the steps.               *)
Chosen == steps = <<>> \/ steps \in Plans
Progress ==
  \A k \in DOMAIN steps :
    /\ k < index => Shown(steps[k].id, Settled)
    /\ k >= index => ~Shown(steps[k].id, Settled)
    /\ k >= index /\ Shown(steps[k].id, {"RUNNING"}) => k = index /\ pc \in InStep \cup {"crashed"}
    /\ k = index /\ pc \in InStep => Shown(steps[k].id, {"RUNNING"})
Noted == \A id \in StepId : stepOk[id] = "ok" <=> Shown(id, Good)
Counted == errorCount = Cardinality(Failures)
Clean ==
  errorCount = 0 => \A k \in DOMAIN steps : k < index => steps[k].optional \/ stepOk[steps[k].id] = "ok"

Before == {"launch", "connect", "auth"}
Live == Before \cup InStep \cup {"loop", "stop"}
NotDone == pc \in Live => \A m \in DOMAIN events : events[m].id # NoStep
NothingPosted == pc \in Before => events = <<>>
Through == cancelRequested \/ index > Len(steps)
NoErrors ==
  /\ pc = "stop" => Through
  /\ \A m \in DOMAIN events : events[m].id = NoStep /\ events[m].count = 0
                              => pc = "ended" /\ errorCount = 0 /\ Through

WorkInv == /\ AllLegal /\ Chosen /\ Progress /\ Noted /\ Counted /\ Clean
           /\ NotDone /\ NothingPosted /\ NoErrors

(* What the page shows is what was delivered.                                *)
ChipsShown ==
  \A id \in StepId :
    /\ Shows(id, Settled, delivered) => chips[id] \in Settled /\ Shows(id, {chips[id]}, delivered)
    /\ ~Shows(id, Settled, delivered) =>
         chips[id] = IF Shows(id, {"RUNNING"}, delivered) THEN "RUNNING" ELSE "WAITING"
ResultShown ==
  \/ result = Pending /\ \A m \in 1..delivered : events[m].id # NoStep
  \/ \E m \in 1..delivered : events[m].id = NoStep /\ result = events[m].count
PageInv == ChipsShown /\ ResultShown

------------------------------------------------------------------------------
(* Posts *)

LEMMA Posted ==
  ASSUME Typed, NEW event, Post(event)
  PROVE  /\ Len(events) \in Nat /\ Len(events') = Len(events) + 1
         /\ DOMAIN events = 1..Len(events) /\ DOMAIN events' = 1..Len(events) + 1
         /\ \A n \in DOMAIN events : events'[n] = events[n]
         /\ \A n \in DOMAIN events' : n \in DOMAIN events \/ n = Len(events) + 1
         /\ events'[Len(events) + 1] = event
BY DEF Typed, TypeOK, Post

LEMMA ShowsKept ==
  ASSUME Typed, NEW event, Post(event)
  PROVE  \A n \in 0..Len(events) : \A id, marks : Shows(id, marks, n)' <=> Shows(id, marks, n)
<1>1. \A n \in 0..Len(events) : \A m \in 1..n : events'[m] = events[m]
  BY Posted
<1> QED
  BY <1>1 DEF Shows

LEMMA ShownGrows ==
  ASSUME Typed, NEW event, Post(event)
  PROVE  \A id, marks : Shown(id, marks)' <=> \/ Shown(id, marks)
                                              \/ event.id = id /\ event.mark \in marks
<1>1. DOMAIN events \subseteq DOMAIN events' /\ Len(events) + 1 \in DOMAIN events'
  BY Posted
<1> QED
  BY <1>1, Posted DEF Shown

LEMMA ShowsAll ==
  ASSUME Typed
  PROVE  \A n : n = Len(events) => /\ FailuresBy(n) = Failures
                                   /\ \A id, marks : Shows(id, marks, n) <=> Shown(id, marks)
<1>1. DOMAIN events = 1..Len(events)
  BY DEF Typed, TypeOK
<1> QED
  BY <1>1 DEF Shows, Shown, FailuresBy, Failures

LEMMA LegalKept ==
  ASSUME Typed, AllLegal, UNCHANGED steps, NEW event, Post(event)
  PROVE  \A n \in DOMAIN events : Legal(n)'
<1> TAKE n \in DOMAIN events
<1>1. /\ n \in Nat /\ n - 1 \in 0..Len(events) /\ events'[n] = events[n]
      /\ \A m \in 1..n-1 : events'[m] = events[m]
  BY Posted
<1>2. \A id, marks : Shows(id, marks, n-1)' <=> Shows(id, marks, n-1)
  BY <1>1, ShowsKept
<1>3. FailuresBy(n-1)' = FailuresBy(n-1)
  BY <1>2 DEF FailuresBy
<1>4. Legal(n)
  BY DEF AllLegal
<1>5. DoneEvent(n) => DoneEvent(n)'
  BY <1>1, <1>2, <1>3 DEF DoneEvent
<1>6. StepEvent(n) => StepEvent(n)'
  BY <1>1, <1>2 DEF StepEvent
<1> QED
  BY <1>1, <1>4, <1>5, <1>6 DEF Legal

(* The new post is legal over all the posts there are.                       *)
Fits(event) ==
  \E k \in DOMAIN steps :
    /\ steps[k].id = event.id
    /\ \A j \in 1..k-1 : Shown(steps[j].id, Settled)
    /\ \/ /\ event.mark = "RUNNING" /\ ~Shown(steps[k].id, Begun)
          /\ steps[k].dependsOn # NoStep => Shown(steps[k].dependsOn, Good)
       \/ /\ event.mark = "SKIPPED" /\ ~Shown(steps[k].id, Begun)
          /\ steps[k].dependsOn # NoStep /\ ~Shown(steps[k].dependsOn, Good)
       \/ /\ event.mark \in Outcome
          /\ Shown(steps[k].id, {"RUNNING"}) /\ ~Shown(steps[k].id, Settled)
Sums(event) ==
  \/ event.count = 1 /\ events = <<>>
  \/ /\ event.count = Cardinality(Failures)
     /\ \A id \in StepId : Shown(id, {"RUNNING"}) => Shown(id, Settled)

LEMMA LegalGrows ==
  ASSUME Typed, AllLegal, UNCHANGED steps, NEW event, Post(event),
         \A m \in DOMAIN events : events[m].id # NoStep,
         event.id = NoStep => Sums(event), event.id # NoStep => Fits(event)
  PROVE  AllLegal'
<1>1. \A n \in DOMAIN events : Legal(n)'
  BY LegalKept
<1>2. ASSUME NEW n, n = Len(events) + 1 PROVE Legal(n)'
  <2>1. n - 1 = Len(events) /\ n - 1 \in 0..Len(events) /\ events'[n] = event
    BY <1>2, Posted
  <2>2. \A id, marks : Shows(id, marks, n-1)' <=> Shown(id, marks)
    BY <2>1, ShowsKept, ShowsAll
  <2>3. FailuresBy(n-1)' = Failures
    BY <2>2 DEF FailuresBy, Failures
  <2>4. \A m \in 1..n-1 : events'[m].id # NoStep
    BY <2>1, Posted
  <2>5. event.id = NoStep => DoneEvent(n)'
    <3>1. events = <<>> => n = 1
      BY <1>2
    <3> QED
      BY <2>1, <2>2, <2>3, <3>1 DEF DoneEvent, Sums
  <2>6. event.id # NoStep => StepEvent(n)'
    BY <2>1, <2>2 DEF StepEvent, Fits
  <2> QED
    BY <2>1, <2>4, <2>5, <2>6 DEF Legal
<1> QED
  BY <1>1, <1>2, Posted DEF AllLegal

(* A settled step gets no further post.                                      *)
LEMMA SettledOnce ==
  ASSUME Typed, AllLegal, NEW m \in DOMAIN events, NEW n \in DOMAIN events, m < n,
         events[m].id = events[n].id, events[m].id # NoStep
  PROVE  events[m].mark \notin Settled
<1>1. m \in 1..n-1
  BY DEF Typed, TypeOK
<1>2. StepEvent(n)
  BY DEF AllLegal, Legal
<1>3. ~Shows(events[n].id, Settled, n-1)
  BY <1>2 DEF StepEvent, Shows, Begun
<1> QED
  BY <1>1, <1>3 DEF Shows

------------------------------------------------------------------------------
(* The worker *)

(* It posts nothing and notes nothing. *)
LEMMA NothingNoted ==
  ASSUME Typed, WorkInv, UNCHANGED <<steps, index, stepOk, errorCount, events>>,
         cancelRequested => cancelRequested',
         pc \in InStep \cup {"crashed"} => pc' \in InStep \cup {"crashed"},
         pc' \in InStep => pc \in InStep, pc' \in Live => pc \in Live,
         pc' \in Before => pc \in Before, pc = "ended" => pc' = "ended",
         pc' = "stop" => pc = "stop" \/ Through
  PROVE  WorkInv'
<1>1. \A id, marks : Shown(id, marks)' <=> Shown(id, marks)
  BY DEF Shown
<1>2. AllLegal'
  <2>1. \A n \in DOMAIN events : Legal(n) => Legal(n)'
    BY DEF Legal, DoneEvent, StepEvent, FailuresBy, Shows
  <2> QED
    BY <2>1 DEF WorkInv, AllLegal
<1>3. Failures' = Failures
  BY <1>1 DEF Failures
<1>4. Progress'
  BY <1>1 DEF WorkInv, Progress
<1>5. Noted'
  BY <1>1 DEF WorkInv, Noted
<1>6. Chosen' /\ Clean' /\ NotDone' /\ NothingPosted' /\ Counted'
  BY <1>3 DEF WorkInv, Chosen, Clean, NotDone, NothingPosted, Counted
<1>7. NoErrors'
  BY DEF WorkInv, NoErrors, Through
<1> QED
  BY <1>2, <1>4, <1>5, <1>6, <1>7 DEF WorkInv

(* The last post. *)
LEMMA EndKeepsWork ==
  ASSUME Typed, WorkInv, pc \in Live, NEW n \in Nat, Post(Done(n)), Sums(Done(n)),
         UNCHANGED <<steps, index, stepOk, errorCount, cancelRequested>>,
         pc' \in {"stopFailed", "ended"}, pc \notin InStep,
         n = 0 => pc' = "ended" /\ errorCount = 0 /\ Through
  PROVE  WorkInv'
<1>1. Done(n).id = NoStep /\ Done(n).count = n /\ Done(n).mark = "WAITING"
  BY DEF Done
<1>2. \A m \in DOMAIN events : events[m].id # NoStep
  BY DEF WorkInv, NotDone
<1>3. AllLegal'
  BY <1>1, <1>2, LegalGrows DEF WorkInv
<1>4. \A id, marks : id \in StepId => (Shown(id, marks)' <=> Shown(id, marks))
  BY <1>1, ShownGrows, NamesAssumption
<1>5. \A k \in DOMAIN steps : steps[k].id \in StepId
  BY StepTyped
<1>6. Failures' = Failures
  BY <1>4, <1>5 DEF Failures
<1>7. Progress'
  BY <1>4, <1>5 DEF WorkInv, Progress, InStep, Live, Before
<1>8. Noted' /\ Chosen' /\ Clean' /\ Counted'
  BY <1>4, <1>6 DEF WorkInv, Noted, Chosen, Clean, Counted
<1>9. NotDone' /\ NothingPosted'
  BY DEF NotDone, NothingPosted, Live, Before, InStep
<1>10. NoErrors'
  BY <1>1, <1>2, Posted DEF NoErrors, Through
<1> QED
  BY <1>3, <1>7, <1>8, <1>9, <1>10 DEF WorkInv

LEMMA FailingKeepsWork ==
  ASSUME Typed, WorkInv, LaunchFails \/ ConnectFails \/ AuthenticationFails
  PROVE  WorkInv'
<1>1. /\ pc \in Before /\ Post(Done(1)) /\ pc' \in {"stopFailed", "ended"}
      /\ UNCHANGED <<steps, index, stepOk, errorCount, cancelRequested>>
  BY DEF LaunchFails, ConnectFails, AuthenticationFails, Before
<1>2. Sums(Done(1))
  BY <1>1 DEF WorkInv, NothingPosted, Sums, Done
<1> QED
  BY <1>1, <1>2, EndKeepsWork DEF Live, Before, InStep

(* Who posted of an id is a step of the plan.                                *)
LEMMA PostOfStep ==
  ASSUME AllLegal, NEW id \in StepId, NEW marks, Shown(id, marks)
  PROVE  \E k \in DOMAIN steps : steps[k].id = id
BY NamesAssumption DEF AllLegal, Legal, StepEvent, Shown

LEMMA StoppingKeepsWork ==
  ASSUME Typed, WorkInv, StopHelper
  PROVE  WorkInv'
<1>1. CASE pc = "stop"
  <2>1. /\ Post(Done(errorCount)) /\ pc' = "ended" /\ errorCount \in Nat /\ index \in Nat
        /\ UNCHANGED <<steps, index, stepOk, errorCount, cancelRequested>>
    BY <1>1 DEF StopHelper, Typed, TypeOK
  <2>2. \A id \in StepId : Shown(id, {"RUNNING"}) => Shown(id, Settled)
    <3> SUFFICES ASSUME NEW id \in StepId, Shown(id, {"RUNNING"})
                 PROVE  Shown(id, Settled)
      OBVIOUS
    <3>1. PICK k \in DOMAIN steps : steps[k].id = id
      BY PostOfStep DEF WorkInv
    <3>2. k < index
      BY <1>1, <2>1, <3>1, StepTyped DEF WorkInv, Progress, InStep
    <3> QED
      BY <3>1, <3>2 DEF WorkInv, Progress
  <2>3. Sums(Done(errorCount))
    BY <2>2 DEF WorkInv, Counted, Sums, Done
  <2> QED
    BY <1>1, <2>1, <2>3, EndKeepsWork DEF Live, InStep, WorkInv, NoErrors
<1>2. CASE pc # "stop"
  <2>1. UNCHANGED <<steps, index, stepOk, errorCount, events, cancelRequested>> /\ pc = "stopFailed"
        /\ pc' = "ended"
    BY <1>2 DEF StopHelper
  <2> QED
    BY <2>1, NothingNoted DEF Live, Before, InStep
<1> QED
  BY <1>1, <1>2

LEMMA ChipFacts ==
  ASSUME Typed, WorkInv, index \in DOMAIN steps, NEW mark \in Begun, Post(Chip(Now.id, mark)),
         pc \in Live, Distinct
  PROVE  /\ Now = steps[index] /\ Now.id \in StepId /\ Now.id # NoStep /\ index \in Nat
         /\ Chip(Now.id, mark).id = Now.id /\ Chip(Now.id, mark).mark = mark
         /\ \A m \in DOMAIN events : events[m].id # NoStep
         /\ \A m \in DOMAIN events' : events'[m].id # NoStep
         /\ \A k \in DOMAIN steps : k # index => steps[k].id # Now.id
         /\ \A id, marks : Shown(id, marks)' <=> Shown(id, marks) \/ (Now.id = id /\ mark \in marks)
         /\ \A j \in 1..index-1 : Shown(steps[j].id, Settled)
         /\ events' # <<>>
<1>1. Now = steps[index] /\ Now.id \in StepId /\ Now.id # NoStep /\ index \in Nat
      /\ Chip(Now.id, mark).id = Now.id /\ Chip(Now.id, mark).mark = mark
  BY StepTyped, NamesAssumption DEF Now, Chip
<1>2. \A m \in DOMAIN events : events[m].id # NoStep
  BY DEF WorkInv, NotDone
<1>3. \A m \in DOMAIN events' : events'[m].id # NoStep
  BY <1>1, <1>2, Posted
<1>4. \A k \in DOMAIN steps : k # index => steps[k].id # Now.id
  BY <1>1 DEF Distinct
<1>5. \A id, marks : Shown(id, marks)' <=> Shown(id, marks) \/ (Now.id = id /\ mark \in marks)
  BY <1>1, ShownGrows
<1>6. \A j \in 1..index-1 : j \in DOMAIN steps /\ j < index
  BY <1>1 DEF Typed, TypeOK
<1>7. events' # <<>>
  BY Posted
<1> QED
  BY <1>1, <1>2, <1>3, <1>4, <1>5, <1>6, <1>7 DEF WorkInv, Progress

LEMMA BeginKeepsWork ==
  ASSUME Typed, PlanInv, WorkInv, BeginStep
  PROVE  WorkInv'
<1>1. /\ pc = "loop" /\ index \in DOMAIN steps /\ Post(Chip(Now.id, "RUNNING")) /\ DependencyMet
      /\ pc' \in InStep /\ pc \in Live /\ Distinct /\ "RUNNING" \in Begun
      /\ UNCHANGED <<steps, index, stepOk, errorCount, cancelRequested>>
  BY DEF BeginStep, InStep, Live, Typed, TypeOK, PlanInv, Begun
<1>2. /\ Now = steps[index] /\ Now.id \in StepId /\ Now.id # NoStep /\ index \in Nat
      /\ Chip(Now.id, "RUNNING").id = Now.id /\ Chip(Now.id, "RUNNING").mark = "RUNNING"
      /\ \A m \in DOMAIN events : events[m].id # NoStep
      /\ \A m \in DOMAIN events' : events'[m].id # NoStep
      /\ \A k \in DOMAIN steps : k # index => steps[k].id # Now.id
      /\ \A id, marks : Shown(id, marks)' <=> Shown(id, marks) \/ (Now.id = id /\ "RUNNING" \in marks)
      /\ \A j \in 1..index-1 : Shown(steps[j].id, Settled)
  BY <1>1, ChipFacts
<1>3. ~Shown(Now.id, Settled) /\ ~Shown(Now.id, {"RUNNING"})
  BY <1>1, <1>2 DEF WorkInv, Progress, InStep
<1>4. ~Shown(Now.id, Begun)
  BY <1>3 DEF Shown, Begun
<1>5. Now.dependsOn # NoStep => Shown(Now.dependsOn, Good)
  BY <1>1, <1>2, StepTyped DEF DependencyMet, WorkInv, Noted
<1>6. Fits(Chip(Now.id, "RUNNING"))
  BY <1>1, <1>2, <1>4, <1>5 DEF Fits
<1>7. AllLegal'
  BY <1>1, <1>2, <1>6, LegalGrows DEF WorkInv
<1>8. \A id : /\ Shown(id, Settled)' <=> Shown(id, Settled)
              /\ Shown(id, Good)' <=> Shown(id, Good)
              /\ Shown(id, {"FAILED"})' <=> Shown(id, {"FAILED"})
  BY <1>2 DEF Settled, Good
<1>9. Progress'
  BY <1>1, <1>2, <1>8 DEF WorkInv, Progress
<1>10. Noted' /\ Counted' /\ Failures' = Failures
  BY <1>1, <1>8 DEF WorkInv, Noted, Counted, Failures
<1>11. Chosen' /\ Clean' /\ NotDone' /\ NothingPosted' /\ NoErrors'
  BY <1>1, <1>2 DEF WorkInv, Chosen, Clean, NotDone, NothingPosted, NoErrors, InStep, Before
<1> QED
  BY <1>7, <1>9, <1>10, <1>11 DEF WorkInv

(* The step at index is settled, and the loop goes on with the next.         *)
LEMMA SettleKeepsWork ==
  ASSUME Typed, PlanInv, WorkInv, pc \in InStep \cup {"loop"}, index \in DOMAIN steps,
         NEW mark \in Settled, Post(Chip(Now.id, mark)), Fits(Chip(Now.id, mark)),
         pc' = "loop", index' = index + 1, UNCHANGED <<steps, cancelRequested>>,
         stepOk'[Now.id] = "ok" <=> mark \in Good,
         \A id \in StepId : id # Now.id => stepOk'[id] = stepOk[id],
         errorCount' = IF mark = "FAILED" /\ ~Now.optional THEN errorCount + 1 ELSE errorCount,
         errorCount' = 0 => Now.optional \/ mark \in Good
  PROVE  WorkInv'
<1>1. pc \in Live /\ Distinct /\ mark \in Begun /\ mark # "RUNNING"
  BY DEF Live, PlanInv, Begun, Settled, Good
<1>2. /\ Now = steps[index] /\ Now.id \in StepId /\ Now.id # NoStep /\ index \in Nat
      /\ Chip(Now.id, mark).id = Now.id /\ Chip(Now.id, mark).mark = mark
      /\ \A m \in DOMAIN events : events[m].id # NoStep
      /\ \A m \in DOMAIN events' : events'[m].id # NoStep
      /\ \A k \in DOMAIN steps : k # index => steps[k].id # Now.id
      /\ \A id, marks : Shown(id, marks)' <=> Shown(id, marks) \/ (Now.id = id /\ mark \in marks)
      /\ events' # <<>>
  BY <1>1, ChipFacts
<1>3. AllLegal'
  BY <1>2, LegalGrows DEF WorkInv
<1>4. ~Shown(Now.id, Settled)
  BY <1>2 DEF WorkInv, Progress
<1>5. \A k \in DOMAIN steps : k \in Nat /\ steps[k].id \in StepId
  BY StepTyped
<1>6. Progress'
  <2> SUFFICES ASSUME NEW k \in DOMAIN steps
               PROVE  /\ k < index + 1 => Shown(steps[k].id, Settled)'
                      /\ k >= index + 1 => /\ ~Shown(steps[k].id, Settled)'
                                           /\ ~Shown(steps[k].id, {"RUNNING"})'
    BY DEF Progress, InStep
  <2>1. CASE k < index
    BY <1>2, <1>5, <2>1 DEF WorkInv, Progress
  <2>2. CASE k = index
    BY <1>2, <1>5, <2>2
  <2>3. CASE k > index
    BY <1>1, <1>2, <1>5, <2>3 DEF WorkInv, Progress
  <2> QED
    BY <1>2, <1>5, <2>1, <2>2, <2>3
<1>7. Noted'
  <2>1. ~Shown(Now.id, Good)
    BY <1>4 DEF Shown, Settled
  <2> QED
    BY <1>2, <2>1 DEF WorkInv, Noted
<1>8. Counted'
  <2>1. IsFiniteSet(Failures) /\ index \notin Failures
    <3>1. Failures \subseteq 1..Len(steps) /\ Len(steps) \in Nat
      BY DEF Failures, Typed, TypeOK
    <3>2. IsFiniteSet(1..Len(steps))
      <4>1. 1 \in Int /\ Len(steps) \in Int
        BY <3>1
      <4> QED
        BY ONLY <4>1, FS_Interval
    <3>3. ~Shown(Now.id, {"FAILED"})
      BY <1>4 DEF Shown, Settled
    <3> QED
      BY <1>2, <3>1, <3>2, <3>3, FS_Subset DEF Failures
  <2>2. Failures' = IF mark = "FAILED" /\ ~Now.optional THEN Failures \cup {index} ELSE Failures
    BY <1>2 DEF Failures
  <2> QED
    BY <2>1, <2>2, FS_AddElement DEF WorkInv, Counted
<1>9. Clean'
  <2> SUFFICES ASSUME errorCount' = 0, NEW k \in DOMAIN steps, k < index + 1
               PROVE  steps[k].optional \/ stepOk'[steps[k].id] = "ok"
    BY DEF Clean
  <2>1. errorCount = 0
    BY DEF Typed, TypeOK
  <2>2. CASE k = index
    BY <1>2, <2>2
  <2>3. CASE k # index
    BY <1>2, <1>5, <2>1, <2>3 DEF WorkInv, Clean
  <2> QED
    BY <2>2, <2>3
<1>10. Chosen' /\ NotDone' /\ NothingPosted' /\ NoErrors'
  BY <1>2 DEF WorkInv, Chosen, NotDone, NothingPosted, NoErrors, Before
<1> QED
  BY <1>3, <1>6, <1>7, <1>8, <1>9, <1>10 DEF WorkInv

LEMMA SkipKeepsWork ==
  ASSUME Typed, PlanInv, WorkInv, SkipStep
  PROVE  WorkInv'
<1>1. /\ pc = "loop" /\ index \in DOMAIN steps /\ Post(Chip(Now.id, "SKIPPED")) /\ ~DependencyMet
      /\ pc' = "loop" /\ index' = index + 1 /\ "SKIPPED" \in Settled /\ "SKIPPED" \notin Good
      /\ UNCHANGED <<steps, stepOk, errorCount, cancelRequested>>
  BY DEF SkipStep, Typed, TypeOK, Settled, Good
<1>2. /\ Now = steps[index] /\ Now.id \in StepId /\ Now.id # NoStep /\ index \in Nat
      /\ Now.dependsOn \in StepId /\ stepOk[Now.dependsOn] # "ok" /\ Now.dependsOn # NoStep
  BY <1>1, StepTyped, NamesAssumption DEF DependencyMet, Now
<1>3. ~Shown(Now.id, Settled) /\ ~Shown(Now.id, {"RUNNING"})
  BY <1>1, <1>2 DEF WorkInv, Progress, InStep
<1>4. ~Shown(Now.id, Begun) /\ ~Shown(Now.id, Good) /\ ~Shown(Now.dependsOn, Good)
  BY <1>2, <1>3 DEF Shown, Begun, Settled, WorkInv, Noted
<1>5. stepOk'[Now.id] = "ok" <=> "SKIPPED" \in Good
  BY <1>1, <1>2, <1>4 DEF WorkInv, Noted
<1>6. Fits(Chip(Now.id, "SKIPPED"))
  <2>1. \A j \in 1..index-1 : j \in DOMAIN steps /\ j < index
    BY <1>1, <1>2 DEF Typed, TypeOK
  <2>2. \A j \in 1..index-1 : Shown(steps[j].id, Settled)
    BY <2>1 DEF WorkInv, Progress
  <2>3. Chip(Now.id, "SKIPPED").id = Now.id /\ Chip(Now.id, "SKIPPED").mark = "SKIPPED"
    BY DEF Chip
  <2> QED
    BY <1>1, <1>2, <1>4, <2>2, <2>3 DEF Fits
<1>7. errorCount # 0
  <2>1. steps \in Plans
    BY <1>1 DEF WorkInv, Chosen
  <2>2. PICK j \in 1..index-1 : steps[j].id = Now.dependsOn /\ ~steps[j].optional
    BY <1>1, <1>2, <2>1, DependenciesAssumption
  <2>3. j \in DOMAIN steps /\ j < index
    BY <1>1, <1>2 DEF Typed, TypeOK
  <2> QED
    BY <1>2, <2>2, <2>3 DEF WorkInv, Clean
<1> QED
  BY <1>1, <1>5, <1>6, <1>7, SettleKeepsWork

LEMMA NextKeepsWork ==
  ASSUME Typed, PlanInv, WorkInv, pc \in InStep, NEW mark \in Outcome, NextStep(mark),
         UNCHANGED <<steps, cancelRequested>>
  PROVE  WorkInv'
<1>1. /\ index \in DOMAIN steps /\ Now = steps[index] /\ Now.id \in StepId /\ index \in Nat
      /\ mark \in Settled
  BY StepTyped DEF Typed, Located, Now, Outcome, Settled
<1>2. /\ Post(Chip(Now.id, mark)) /\ pc' = "loop" /\ index' = index + 1
      /\ errorCount' = IF mark = "FAILED" /\ ~Now.optional THEN errorCount + 1 ELSE errorCount
  BY DEF NextStep, Counts
<1>3. \A id \in StepId : stepOk'[id] = IF id = Now.id
                                       THEN IF mark \in Good THEN "ok" ELSE "failed"
                                       ELSE stepOk[id]
  BY <1>1 DEF NextStep, Typed, TypeOK
<1>4. Fits(Chip(Now.id, mark))
  <2>1. \A j \in 1..index-1 : j \in DOMAIN steps /\ j < index
    BY <1>1 DEF Typed, TypeOK
  <2>2. \A j \in 1..index-1 : Shown(steps[j].id, Settled)
    BY <2>1 DEF WorkInv, Progress
  <2>3. Chip(Now.id, mark).id = Now.id /\ Chip(Now.id, mark).mark = mark
    BY DEF Chip
  <2>4. Shown(Now.id, {"RUNNING"}) /\ ~Shown(Now.id, Settled)
    BY <1>1 DEF WorkInv, Progress
  <2> QED
    BY <1>1, <2>2, <2>3, <2>4 DEF Fits
<1>5. errorCount' = 0 => Now.optional \/ mark \in Good
  BY <1>2 DEF Typed, TypeOK, Outcome
<1> QED
  BY <1>1, <1>2, <1>3, <1>4, <1>5, SettleKeepsWork

LEMMA ReturnKeepsWork ==
  ASSUME Typed, PlanInv, WorkInv, pc \in InStep, NEW code, Return(code),
         UNCHANGED <<steps, cancelRequested>>
  PROVE  WorkInv'
<1>1. CASE pc' = "command" /\ UNCHANGED <<index, stepOk, errorCount, events>>
  BY <1>1, NothingNoted DEF Live, Before, InStep
<1>2. CASE \E mark \in Outcome : NextStep(mark)
  BY <1>2, NextKeepsWork
<1> QED
  BY <1>1, <1>2 DEF Return, Outcome, Good

LEMMA StepsKeepWork ==
  ASSUME Typed, PlanInv, WorkInv,
         RunLocal \/ VerifyLocal \/ NoCommand \/ SendExecute \/ TakeLine \/ ReceiveClosed
  PROVE  WorkInv'
<1>1. pc \in InStep /\ UNCHANGED <<steps, cancelRequested>>
  BY DEF RunLocal, VerifyLocal, NoCommand, SendExecute, TakeLine, ReceiveClosed, Waiting, InStep
<1>2. \/ \E mark \in Outcome : NextStep(mark)
      \/ \E code : Return(code)
      \/ pc' \in InStep /\ UNCHANGED <<index, stepOk, errorCount, events>>
  <2>1. CASE RunLocal
    BY <2>1 DEF RunLocal, Outcome, Good, InStep
  <2>2. CASE VerifyLocal
    BY <2>2 DEF VerifyLocal, Outcome, Good
  <2>3. CASE NoCommand
    BY <2>3 DEF NoCommand, Outcome, Good
  <2>4. CASE SendExecute
    BY <2>4 DEF SendExecute, InStep
  <2>5. CASE TakeLine
    BY <1>1, <2>5 DEF TakeLine, Continue
  <2>6. CASE ReceiveClosed
    BY <2>6 DEF ReceiveClosed
  <2> QED
    BY <2>1, <2>2, <2>3, <2>4, <2>5, <2>6
<1>3. CASE pc' \in InStep /\ UNCHANGED <<index, stepOk, errorCount, events>>
  BY <1>1, <1>3, NothingNoted DEF Live, Before, InStep
<1> QED
  BY <1>1, <1>2, <1>3, NextKeepsWork, ReturnKeepsWork

LEMMA LaunchKeepsWork ==
  ASSUME Typed, PlanInv, WorkInv, LaunchSucceeds
  PROVE  WorkInv'
<1>1. /\ pc = "launch" /\ pc' = "connect" /\ steps = <<>> /\ steps' \in Plans /\ index = 1
      /\ events = <<>> /\ DOMAIN events = {} /\ DOMAIN events' = {}
      /\ UNCHANGED <<index, stepOk, errorCount, events, cancelRequested>>
      /\ Failures = {}
  BY DEF LaunchSucceeds, PlanInv, Unbegun, WorkInv, NothingPosted, Before, Failures
<1>2. \A id, marks : ~Shown(id, marks) /\ ~Shown(id, marks)'
  BY <1>1 DEF Shown
<1>3. Failures' = {}
  BY <1>2 DEF Failures
<1>4. Progress'
  <2>1. steps' \in Seq(Step)
    BY <1>1, PlansAssumption
  <2>2. \A k \in DOMAIN steps' : k >= index
    BY <1>1, <2>1
  <2> QED
    BY <1>1, <1>2, <2>2 DEF Progress, InStep
<1>5. Clean'
  <2>1. steps' \in Seq(Step)
    BY <1>1, PlansAssumption
  <2>2. \A k \in DOMAIN steps' : ~(k < index)
    BY <1>1, <2>1
  <2> QED
    BY <1>1, <2>2 DEF Clean
<1>6. Noted' /\ Counted' /\ Chosen'
  BY <1>1, <1>2, <1>3 DEF WorkInv, Noted, Counted, Chosen
<1>7. AllLegal' /\ NotDone' /\ NothingPosted' /\ NoErrors'
  BY <1>1 DEF AllLegal, NotDone, NothingPosted, NoErrors
<1> QED
  BY <1>4, <1>5, <1>6, <1>7 DEF WorkInv

LEMMA SilentSteps ==
  ASSUME Typed, WorkInv,
         \/ Connect \/ Authenticated \/ SendCancel \/ Receive \/ EndSession \/ Cancel \/ Deliver
         \/ GuiCrash \/ Helper \/ GraceElapses \/ ChildExits \/ HelperCrash \/ UNCHANGED vars
  PROVE  WorkInv'
<1>1. /\ UNCHANGED <<steps, index, stepOk, errorCount, events>>
      /\ cancelRequested => cancelRequested'
      /\ \/ pc' = pc
         \/ pc = "connect" /\ pc' = "auth"
         \/ pc = "auth" /\ pc' = "loop"
         \/ pc = "loop" /\ pc' = "stop" /\ (index > Len(steps) \/ cancelRequested)
         \/ pc # "ended" /\ pc' = "crashed"
  BY DEF Connect, Authenticated, SendCancel, Receive, EndSession, Cancel, Deliver, GuiCrash, Helper,
         HelperAccepts, HelperGivesUp, HelperReads, HelperSeesEnd, HelperPumps, HelperReaps,
         GraceElapses, ChildExits, HelperCrash, HelperUnchanged, vars, workerVars
<1> QED
  BY <1>1, NothingNoted DEF InStep, Live, Before, Through

LEMMA WorkStep ==
  ASSUME Typed, PlanInv, WorkInv, [Next]_vars
  PROVE  WorkInv'
<1>1. CASE LaunchFails \/ ConnectFails \/ AuthenticationFails \/ StopHelper
  BY <1>1, FailingKeepsWork, StoppingKeepsWork
<1>2. CASE BeginStep \/ SkipStep \/ LaunchSucceeds
  BY <1>2, BeginKeepsWork, SkipKeepsWork, LaunchKeepsWork
<1>3. CASE RunLocal \/ VerifyLocal \/ NoCommand \/ SendExecute \/ TakeLine \/ ReceiveClosed
  BY <1>3, StepsKeepWork
<1>4. CASE \/ Connect \/ Authenticated \/ SendCancel \/ Receive \/ EndSession \/ Cancel \/ Deliver
           \/ GuiCrash \/ Helper \/ GraceElapses \/ ChildExits \/ HelperCrash \/ UNCHANGED vars
  BY <1>4, SilentSteps
<1> QED
  BY <1>1, <1>2, <1>3, <1>4 DEF Next, Worker, Terminated

LEMMA WorkInvariant == Spec => []WorkInv
<1>1. Init => WorkInv
  <2> SUFFICES ASSUME Init PROVE WorkInv
    OBVIOUS
  <2>1. /\ pc = "launch" /\ steps = <<>> /\ events = <<>> /\ DOMAIN events = {} /\ DOMAIN steps = {}
        /\ errorCount = 0 /\ \A id \in StepId : stepOk[id] = "unset"
    BY DEF Init
  <2>2. \A id, marks : ~Shown(id, marks)
    BY <2>1 DEF Shown
  <2>3. Counted
    <3>1. Failures = {}
      BY <2>1 DEF Failures
    <3> QED
      BY <2>1, <3>1, FS_EmptySet DEF Counted
  <2>4. AllLegal /\ Chosen /\ Progress /\ Noted /\ Clean
    BY <2>1, <2>2 DEF AllLegal, Chosen, Progress, Noted, Clean
  <2>5. NotDone /\ NothingPosted /\ NoErrors
    BY <2>1 DEF NotDone, NothingPosted, NoErrors
  <2> QED
    BY <2>3, <2>4, <2>5 DEF WorkInv
<1>2. WorkInv /\ Typed /\ HonestInv /\ [Next]_vars => WorkInv'
  BY WorkStep DEF HonestInv
<1>3. QED
  BY <1>1, <1>2, TypedInvariant, HonestInvariant, PTL DEF Spec

------------------------------------------------------------------------------
(* The page *)

(* The next post to deliver. *)
LEMMA NextPost ==
  ASSUME Typed, WorkInv, Deliver, NEW n, n = delivered + 1
  PROVE  /\ n \in DOMAIN events /\ Legal(n) /\ n - 1 = delivered /\ delivered' = n /\ n \in Nat \ {0}
         /\ events[n] \in Event /\ UNCHANGED <<events, steps>>
         /\ events[n].id # NoStep =>
              events[n].id \in StepId /\ result' = result
                /\ chips' = [chips EXCEPT ![events[n].id] = events[n].mark]
         /\ events[n].id = NoStep => chips' = chips /\ result' = events[n].count
         /\ \A id, marks : Shows(id, marks, n) <=> \/ Shows(id, marks, n - 1)
                                                   \/ events[n].id = id /\ events[n].mark \in marks
<1>1. n \in DOMAIN events /\ n - 1 = delivered /\ delivered' = n /\ n \in Nat \ {0}
      /\ events[n] \in Event
      /\ UNCHANGED <<events, steps>>
  BY DEF Deliver, Typed, TypeOK, workerVars
<1>2. Legal(n)
  BY <1>1 DEF WorkInv, AllLegal
<1>3. events[n].id \in StepId \cup {NoStep}
  BY <1>1 DEF Event
<1>4. /\ \A m \in 1..n : m \in 1..n-1 \/ m = n
      /\ \A m \in 1..n-1 : m \in 1..n
      /\ n \in 1..n
  BY <1>1
<1>5. \A id, marks : Shows(id, marks, n) <=> \/ Shows(id, marks, n - 1)
                                             \/ events[n].id = id /\ events[n].mark \in marks
  BY <1>1, <1>4 DEF Shows
<1> QED
  BY <1>1, <1>2, <1>3, <1>5 DEF Deliver

LEMMA DeliverKeepsPage ==
  ASSUME Typed, WorkInv, PageInv, Deliver
  PROVE  PageInv'
<1>1. PICK n : n = delivered + 1
  OBVIOUS
<1>2. /\ n \in DOMAIN events /\ Legal(n) /\ n - 1 = delivered /\ delivered' = n /\ n \in Nat \ {0}
      /\ UNCHANGED <<events, steps>>
      /\ events[n].id # NoStep =>
           events[n].id \in StepId /\ result' = result
             /\ chips' = [chips EXCEPT ![events[n].id] = events[n].mark]
      /\ events[n].id = NoStep => chips' = chips /\ result' = events[n].count
      /\ \A id, marks : Shows(id, marks, n) <=> \/ Shows(id, marks, n - 1)
                                                \/ events[n].id = id /\ events[n].mark \in marks
  BY <1>1, NextPost
<1>3. \A id, marks : Shows(id, marks, delivered)' <=> Shows(id, marks, n)
  BY <1>2 DEF Shows
<1>4. ChipsShown'
  <2> SUFFICES ASSUME NEW id \in StepId
               PROVE  /\ Shows(id, Settled, n) => chips'[id] \in Settled /\ Shows(id, {chips'[id]}, n)
                      /\ ~Shows(id, Settled, n) =>
                           chips'[id] = IF Shows(id, {"RUNNING"}, n) THEN "RUNNING" ELSE "WAITING"
    BY <1>3 DEF ChipsShown
  <2>1. /\ Shows(id, Settled, n-1) => chips[id] \in Settled /\ Shows(id, {chips[id]}, n-1)
        /\ ~Shows(id, Settled, n-1) =>
             chips[id] = IF Shows(id, {"RUNNING"}, n-1) THEN "RUNNING" ELSE "WAITING"
    BY <1>2 DEF PageInv, ChipsShown
  <2>2. CASE events[n].id # id
    <3>1. chips'[id] = chips[id]
      BY <1>2, <2>2 DEF Typed, TypeOK
    <3>2. \A marks : Shows(id, marks, n) <=> Shows(id, marks, n-1)
      BY <1>2, <2>2
    <3> QED
      BY <2>1, <3>1, <3>2
  <2>3. CASE events[n].id = id
    <3>1. chips'[id] = events[n].mark /\ StepEvent(n)
      BY <1>2, <2>3, NamesAssumption DEF Typed, TypeOK, Legal
    <3>2. /\ events[n].mark \in Settled \cup {"RUNNING"}
          /\ events[n].mark = "RUNNING" => ~Shows(id, Begun, n-1)
      BY <2>3, <3>1 DEF StepEvent, Settled, Outcome, Good
    <3>3. CASE events[n].mark = "RUNNING"
      <4>1. ~Shows(id, Settled, n-1) /\ "RUNNING" \notin Settled
        BY <3>2, <3>3 DEF Shows, Begun, Settled, Good
      <4> QED
        BY <1>2, <2>3, <3>1, <3>3, <4>1
    <3>4. CASE events[n].mark \in Settled
      BY <1>2, <2>3, <3>1, <3>4
    <3> QED
      BY <3>2, <3>3, <3>4
  <2> QED
    BY <2>2, <2>3
<1>5. ResultShown'
  <2>1. \A m \in 1..n : m \in 1..n-1 \/ m = n
    BY <1>2
  <2>2. n \in 1..n /\ \A m \in 1..n-1 : m \in 1..n
    BY <1>2
  <2> QED
    BY <1>2, <2>1, <2>2 DEF PageInv, ResultShown
<1> QED
  BY <1>4, <1>5 DEF PageInv

(* Every other step leaves the page alone, and posts at most once.           *)
LEMMA PostsAtMost ==
  ASSUME [Next]_vars
  PROVE  \/ Deliver
         \/ UNCHANGED pageVars /\ (events' = events \/ \E event : Post(event))
<1>1. CASE Worker
  BY <1>1 DEF Worker, LaunchFails, LaunchSucceeds, ConnectFails, Connect, Authenticated,
     AuthenticationFails, SkipStep, BeginStep, RunLocal, VerifyLocal, NoCommand, SendExecute,
     TakeLine, SendCancel, Receive, ReceiveClosed, EndSession, StopHelper, NextStep, Return, Continue
<1>2. CASE Helper \/ GraceElapses \/ ChildExits \/ HelperCrash
  BY <1>2 DEF Helper, HelperAccepts, HelperGivesUp, HelperReads, HelperSeesEnd, HelperPumps,
     HelperReaps, GraceElapses, ChildExits, HelperCrash, HelperUnchanged
<1>3. CASE Cancel \/ GuiCrash \/ UNCHANGED vars
  BY <1>3 DEF Cancel, GuiCrash, vars
<1> QED
  BY <1>1, <1>2, <1>3 DEF Next, Terminated

LEMMA PageStep ==
  ASSUME Typed, WorkInv, PageInv, [Next]_vars
  PROVE  PageInv'
<1>1. CASE Deliver
  BY <1>1, DeliverKeepsPage
<1>2. CASE UNCHANGED pageVars /\ (events' = events \/ \E event : Post(event))
  <2>1. delivered' = delivered /\ result' = result /\ chips' = chips /\ delivered \in 0..Len(events)
        /\ DOMAIN events = 1..Len(events) /\ Len(events) \in Nat
    BY <1>2 DEF pageVars, Typed, TypeOK
  <2>2. \A m \in 1..delivered : events'[m] = events[m]
    BY <1>2, <2>1, Posted
  <2>3. \A id, marks : Shows(id, marks, delivered)' <=> Shows(id, marks, delivered)
    BY <2>1, <2>2 DEF Shows
  <2> QED
    BY <2>1, <2>2, <2>3 DEF PageInv, ChipsShown, ResultShown
<1> QED
  BY <1>1, <1>2, PostsAtMost

LEMMA PageInvariant == Spec => []PageInv
<1>1. Init => PageInv
  BY DEF Init, PageInv, ChipsShown, ResultShown, Shows
<1>2. PageInv /\ WorkInv /\ Typed /\ [Next]_vars => PageInv'
  BY PageStep
<1>3. QED
  BY <1>1, <1>2, TypedInvariant, WorkInvariant, PTL DEF Spec

(* A chip tells which posts of its step were delivered.                      *)
LEMMA ChipTells ==
  ASSUME Typed, WorkInv, PageInv, NEW id \in StepId
  PROVE  /\ chips[id] \in Settled <=> Shows(id, Settled, delivered)
         /\ chips[id] \in Good <=> Shows(id, Good, delivered)
         /\ chips[id] = "FAILED" <=> Shows(id, {"FAILED"}, delivered)
         /\ chips[id] = "RUNNING" <=> Shows(id, {"RUNNING"}, delivered)
                                        /\ ~Shows(id, Settled, delivered)
         /\ ~Shows(id, Begun, delivered) => chips[id] = "WAITING"
<1>1. /\ Shows(id, Settled, delivered) => chips[id] \in Settled /\ Shows(id, {chips[id]}, delivered)
      /\ ~Shows(id, Settled, delivered) =>
           chips[id] = IF Shows(id, {"RUNNING"}, delivered) THEN "RUNNING" ELSE "WAITING"
  BY DEF PageInv, ChipsShown
<1>2. "RUNNING" \notin Settled /\ "WAITING" \notin Settled /\ Good \subseteq Settled
      /\ "FAILED" \in Settled /\ "FAILED" \notin Good /\ "RUNNING" # "WAITING"
  BY DEF Settled, Good
<1>3. \A mark \in Settled : Shows(id, {mark}, delivered) => chips[id] = mark
  <2> SUFFICES ASSUME NEW mark \in Settled, Shows(id, {mark}, delivered)
               PROVE  chips[id] = mark
    OBVIOUS
  <2>1. PICK m \in 1..delivered : events[m].id = id /\ events[m].mark = mark
    BY DEF Shows
  <2>2. chips[id] \in Settled /\ Shows(id, {chips[id]}, delivered)
    BY <1>1, <2>1 DEF Shows
  <2>3. PICK l \in 1..delivered : events[l].id = id /\ events[l].mark = chips[id]
    BY <2>2 DEF Shows
  <2>4. m \in DOMAIN events /\ l \in DOMAIN events /\ id # NoStep /\ m \in Nat /\ l \in Nat
    BY NamesAssumption DEF Typed, TypeOK
  <2>5. ~(m < l) /\ ~(l < m)
    BY <2>1, <2>2, <2>3, <2>4, SettledOnce DEF WorkInv
  <2> QED
    BY <2>1, <2>3, <2>4, <2>5
<1>4. /\ \A mark : Shows(id, {mark}, delivered) /\ mark \in Settled => Shows(id, Settled, delivered)
      /\ Shows(id, Good, delivered) => \E mark \in Good : Shows(id, {mark}, delivered)
      /\ \A mark \in Good : Shows(id, {mark}, delivered) => Shows(id, Good, delivered)
      /\ ~Shows(id, Begun, delivered) => /\ ~Shows(id, {"RUNNING"}, delivered)
                                         /\ ~Shows(id, Settled, delivered)
  BY DEF Shows, Begun
<1> QED
  BY <1>1, <1>2, <1>3, <1>4

------------------------------------------------------------------------------
(* The steps of InstallRun *)

(* The instance has a Cardinality of its own.                                *)
LEMMA SameCardinality == \A S : Run!Cardinality(S) = Cardinality(S)
BY DEF Run!Cardinality, Cardinality

LEMMA DeliverIsAStep ==
  ASSUME Typed, PlanInv, WorkInv, PageInv, Deliver
  PROVE  Run!Next
<1> USE DEF Run!InTurn, Run!ChipOf, Run!Settled, Run!Good, Run!Pending, Settled, Good, Pending
<1>1. PICK n : n = delivered + 1
  OBVIOUS
<1>2. /\ n \in DOMAIN events /\ Legal(n) /\ n - 1 = delivered
      /\ UNCHANGED <<events, steps>>
      /\ events[n].id # NoStep =>
           events[n].id \in StepId /\ result' = result
             /\ chips' = [chips EXCEPT ![events[n].id] = events[n].mark]
      /\ events[n].id = NoStep => chips' = chips /\ result' = events[n].count
  BY <1>1, NextPost
<1>3. result = Pending
  BY <1>2 DEF PageInv, ResultShown, Legal
<1>4. CASE events[n].id = NoStep
  <2>1. DoneEvent(n) /\ chips' = chips /\ result' = events[n].count
    BY <1>2, <1>4 DEF Legal
  <2>2. CASE events[n].count = 1 /\ n = 1
    <3>1. \A id, marks : ~Shows(id, marks, delivered)
      BY <1>2, <2>2 DEF Shows
    <3>2. \A id \in StepId : chips[id] = "WAITING"
      BY <3>1, ChipTells
    <3>3. Run!Fail
      BY <1>2, <1>3, <2>1, <2>2, <3>2 DEF Run!Fail
    <3> QED
      BY <3>3 DEF Run!Next
  <2>3. CASE /\ events[n].count = Cardinality(FailuresBy(n-1))
             /\ \A id \in StepId : Shows(id, {"RUNNING"}, n-1) => Shows(id, Settled, n-1)
    <3>1. \A k \in DOMAIN steps : steps[k].id \in StepId
      BY StepTyped
    <3>2. \A k \in DOMAIN steps : chips[steps[k].id] # "RUNNING"
      BY <1>2, <2>3, <3>1, ChipTells
    <3>3. \A k \in DOMAIN steps :
            chips[steps[k].id] = "FAILED" <=> Shows(steps[k].id, {"FAILED"}, delivered)
      BY <3>1, ChipTells
    <3>4. FailuresBy(n-1) = {k \in DOMAIN steps : Run!ChipOf(k) = "FAILED" /\ ~steps[k].optional}
      BY <1>2, <3>3 DEF FailuresBy
    <3>5. Run!Finish
      BY <1>2, <1>3, <2>1, <2>3, <3>2, <3>4, SameCardinality DEF Run!Finish, Run!Errors
    <3> QED
      BY <3>5 DEF Run!Next
  <2> QED
    BY <2>1, <2>2, <2>3 DEF DoneEvent
<1>5. CASE events[n].id # NoStep
  <2>1. PICK k \in DOMAIN steps :
          /\ steps[k].id = events[n].id
          /\ \A j \in 1..k-1 : Shows(steps[j].id, Settled, delivered)
          /\ \/ /\ events[n].mark = "RUNNING" /\ ~Shows(steps[k].id, Begun, delivered)
                /\ steps[k].dependsOn # NoStep => Shows(steps[k].dependsOn, Good, delivered)
             \/ /\ events[n].mark = "SKIPPED" /\ ~Shows(steps[k].id, Begun, delivered)
                /\ steps[k].dependsOn # NoStep /\ ~Shows(steps[k].dependsOn, Good, delivered)
             \/ /\ events[n].mark \in Outcome
                /\ Shows(steps[k].id, {"RUNNING"}, delivered) /\ ~Shows(steps[k].id, Settled, delivered)
    BY <1>2, <1>5 DEF Legal, StepEvent
  <2>2. steps[k].id \in StepId /\ steps[k].dependsOn \in StepId \cup {NoStep} /\ k \in Nat
        /\ \A j \in 1..k-1 : j \in DOMAIN steps /\ steps[j].id \in StepId
    <3>1. \A j \in 1..k-1 : j \in DOMAIN steps
      BY DEF Typed, TypeOK
    <3> QED
      BY <3>1, StepTyped
  <2>3. \A j \in 1..k-1 : chips[steps[j].id] \in Settled
    BY <2>1, <2>2, ChipTells
  <2>4. Run!InTurn(k)
    BY <1>3, <2>3
  <2>5. chips' = [chips EXCEPT ![steps[k].id] = events[n].mark] /\ result' = result
    BY <1>2, <1>5, <2>1
  <2>6. steps[k].dependsOn # NoStep =>
          (chips[steps[k].dependsOn] \in Good <=> Shows(steps[k].dependsOn, Good, delivered))
    BY <2>2, ChipTells
  <2>7. CASE events[n].mark \in {"RUNNING", "SKIPPED"}
    <3>1. chips[steps[k].id] = "WAITING" /\ (events[n].mark = "RUNNING" <=> Run!DependencyMet(k))
      BY <2>1, <2>2, <2>6, <2>7, ChipTells DEF Run!DependencyMet, Outcome
    <3>2. Run!Begin(k) \/ Run!Skip(k)
      BY <1>2, <2>4, <2>5, <2>7, <3>1 DEF Run!Begin, Run!Skip
    <3> QED
      BY <3>2 DEF Run!Next
  <2>8. CASE events[n].mark \in Outcome
    <3>1. chips[steps[k].id] = "RUNNING"
      BY <2>1, <2>2, <2>8, ChipTells DEF Outcome
    <3>2. Run!Settle(k)
      BY <1>2, <2>4, <2>5, <2>8, <3>1 DEF Run!Settle, Outcome
    <3> QED
      BY <3>2 DEF Run!Next
  <2> QED
    BY <2>1, <2>7, <2>8
<1> QED
  BY <1>4, <1>5

LEMMA BuildIsAStep ==
  ASSUME Typed, PlanInv, WorkInv, PageInv, LaunchSucceeds
  PROVE  Run!Build
<1>1. steps = <<>> /\ events = <<>> /\ steps' \in Plans /\ UNCHANGED <<chips, result>>
  BY DEF LaunchSucceeds, PlanInv, Unbegun, WorkInv, NothingPosted, Before, pageVars
<1>2. delivered = 0
  BY <1>1 DEF Typed, TypeOK
<1>3. result = Pending
  BY <1>2 DEF PageInv, ResultShown
<1> QED
  BY <1>1, <1>3 DEF Run!Build, Run!Pending, Pending

LEMMA PlanIsKept ==
  ASSUME [Next]_vars, ~LaunchSucceeds
  PROVE  UNCHANGED steps
<1>1. CASE Worker
  BY <1>1 DEF Worker, LaunchFails, ConnectFails, Connect, Authenticated, AuthenticationFails, SkipStep,
     BeginStep, RunLocal, VerifyLocal, NoCommand, SendExecute, TakeLine, SendCancel, Receive,
     ReceiveClosed, EndSession, StopHelper
<1>2. CASE Helper \/ GraceElapses \/ ChildExits \/ HelperCrash
  BY <1>2 DEF Helper, HelperAccepts, HelperGivesUp, HelperReads, HelperSeesEnd, HelperPumps,
     HelperReaps, GraceElapses, ChildExits, HelperCrash, HelperUnchanged, workerVars
<1>3. CASE Cancel \/ Deliver \/ GuiCrash \/ UNCHANGED vars
  BY <1>3 DEF Cancel, Deliver, GuiCrash, vars, workerVars
<1> QED
  BY <1>1, <1>2, <1>3 DEF Next, Terminated

(* The Install Now page always sees a run of InstallRun, for every plan,     *)
(* whatever the helper, the commands, Stop and crashes do: chips settle in   *)
(* plan order and once, a dependent step is begun only over a success, and   *)
(* the summary is last and counts the failed steps (helpersession.cpp:383-   *)
(* 481, installpage.cpp:96-171).                                             *)
THEOREM Refines == Spec => KeepsPromise
<1>1. Init => Run!Init
  BY DEF Init, Run!Init, Run!Pending, Pending
<1>2. Typed /\ HonestInv /\ WorkInv /\ PageInv /\ [Next]_vars => [Run!Next]_Run!vars
  <2> SUFFICES ASSUME Typed, PlanInv, WorkInv, PageInv, [Next]_vars
               PROVE  [Run!Next]_Run!vars
    BY DEF HonestInv
  <2>1. CASE Deliver
    BY <2>1, DeliverIsAStep
  <2>2. CASE LaunchSucceeds
    BY <2>2, BuildIsAStep DEF Run!Next
  <2>3. CASE ~Deliver /\ ~LaunchSucceeds
    BY <2>3, PostsAtMost, PlanIsKept DEF pageVars, Run!vars
  <2> QED
    BY <2>1, <2>2, <2>3
<1>3. QED
  BY <1>1, <1>2, TypedInvariant, HonestInvariant, WorkInvariant, PageInvariant, PTL
     DEF Spec, KeepsPromise, Run!Spec

(* "All selected packages and tools are installed." (donepage.cpp:72) is     *)
(* true unless Stop was pressed, for every plan whose steps depend on        *)
(* earlier steps that count: with no errors every step that is not optional  *)
(* is marked done, and is done.                                              *)
THEOREM Installed == Spec => []NoErrorsMeansInstalled
<1>1. Typed /\ HonestInv /\ WorkInv /\ PageInv => NoErrorsMeansInstalled
  <2> SUFFICES ASSUME Typed, HonestInv, WorkInv, PageInv, result = 0, ~cancelRequested,
                      NEW k \in DOMAIN steps, ~steps[k].optional
               PROVE  chips[steps[k].id] \in Good /\ Effective(steps[k])
    BY DEF NoErrorsMeansInstalled
  <2>1. steps[k].id \in StepId /\ k \in Nat /\ index \in Nat /\ delivered \in 0..Len(events)
        /\ DOMAIN events = 1..Len(events) /\ Len(events) \in Nat /\ DOMAIN steps = 1..Len(steps)
        /\ Len(steps) \in Nat
    BY StepTyped DEF Typed, TypeOK
  <2>2. PICK m \in 1..delivered : events[m].id = NoStep /\ events[m].count = 0
    BY DEF PageInv, ResultShown, Pending
  <2>3. errorCount = 0 /\ k < index
    BY <2>1, <2>2 DEF WorkInv, NoErrors, Through
  <2>4. stepOk[steps[k].id] = "ok"
    BY <2>3 DEF WorkInv, Clean
  <2>5. Effective(steps[k])
    BY <2>4 DEF HonestInv, PlanInv, OnlyTheLast, Misreported
  <2>6. PICK l \in DOMAIN events : events[l].id = steps[k].id /\ events[l].mark \in Good
    BY <2>1, <2>4 DEF WorkInv, Noted, Shown
  <2>7. l <= delivered
    <3>1. ~(m < l)
      <4>1. m < l => m \in 1..l-1
        BY <2>1, <2>2
      <4>2. \A i \in 1..l-1 : events[i].id # NoStep
        BY <2>6 DEF WorkInv, AllLegal, Legal
      <4> QED
        BY <2>2, <4>1, <4>2
    <3> QED
      BY <2>1, <3>1
  <2>8. Shows(steps[k].id, Good, delivered)
    BY <2>1, <2>6, <2>7 DEF Shows
  <2> QED
    BY <2>1, <2>5, <2>8, ChipTells
<1>2. QED
  BY <1>1, TypedInvariant, HonestInvariant, WorkInvariant, PageInvariant, PTL
=============================================================================
