---------------------------- MODULE Launch_proofs ----------------------------
(***************************************************************************)
(* Theorems about Launch, for any number of sessions and of strangers.     *)
(***************************************************************************)
EXTENDS Launch, TLAPS

Stages == Root \cup Gone \cup {"none", "pkexec"}

(* Only the latest process is alive, and the worker has waited for it where  *)
(* it ends and where it is going to make another.                            *)
Waited == {"none", "launch", "pause", "finished"}
AloneInv ==
  /\ stage \in [Process -> Stages] /\ child \in Nat
  /\ \A p \in Process : p # child => ~Alive(p)
  /\ pc \in Waited => \A p \in Process : ~Alive(p)

(* Who helps or crashes was alive, so it is the latest; none comes to life.  *)
Onward(p) ==
  /\ stage[p] \in Root \cup {"pkexec"} /\ pc' = pc /\ child' = child
  /\ \E to \in Root \cup Gone : stage' = [stage EXCEPT ![p] = to]

LEMMA HelperMoves ==
  ASSUME AloneInv, NEW p \in Process, Answer(p) \/ Helper(p) \/ CommandEnds(p) \/ HelperCrash(p)
  PROVE  Onward(p)
<1> USE DEF Onward, AloneInv, Root, Gone, Stages, BesideHelper, workerVars, Becomes
<1>1. CASE Answer(p)
  BY <1>1 DEF Answer
<1>2. CASE SetUp(p)
  <2>1. CASE stage[p] = "starting" /\ UNCHANGED stage
    <3>1. stage' = [stage EXCEPT ![p] = "starting"]
      BY <2>1
    <3> QED
      BY <1>2, <2>1, <3>1 DEF SetUp
  <2>2. CASE Becomes(p, "starting", "cleaning")
    BY <1>2, <2>2 DEF SetUp
  <2> QED
    BY <1>2, <2>1, <2>2 DEF SetUp
<1>3. CASE Announce(p)
  BY <1>3 DEF Announce
<1>4. CASE Accept(p)
  <2>1. CASE stage[p] = "accepting" /\ UNCHANGED stage
    <3>1. stage' = [stage EXCEPT ![p] = "accepting"]
      BY <2>1
    <3> QED
      BY <1>4, <2>1, <3>1 DEF Accept
  <2>2. CASE Becomes(p, "accepting", "reading")
    BY <1>4, <2>2 DEF Accept
  <2> QED
    BY <1>4, <2>1, <2>2 DEF Accept
<1>5. CASE AcceptTimesOut(p)
  BY <1>5 DEF AcceptTimesOut
<1>6. CASE ReadNonce(p)
  BY <1>6 DEF ReadNonce
<1>7. CASE Refuse(p)
  BY <1>7 DEF Refuse
<1>8. CASE ServeEnds(p)
  BY <1>8 DEF ServeEnds
<1>9. CASE Cleanup(p)
  BY <1>9 DEF Cleanup
<1>10. CASE HelperCrash(p)
  BY <1>10 DEF HelperCrash
<1>11. CASE Execute(p)
  <2>1. CASE Becomes(p, "serving", "executing")
    BY <1>11, <2>1 DEF Execute
  <2>2. CASE stage[p] = "serving" /\ UNCHANGED stage
    <3>1. stage' = [stage EXCEPT ![p] = "serving"]
      BY <2>2
    <3> QED
      BY <1>11, <2>2, <3>1 DEF Execute
  <2> QED
    BY <1>11, <2>1, <2>2 DEF Execute
<1>12. CASE CommandEnds(p)
  BY <1>12 DEF CommandEnds
<1> QED
  BY <1>1, <1>2, <1>3, <1>4, <1>5, <1>6, <1>7, <1>8, <1>9, <1>10, <1>11, <1>12 DEF Helper

LEMMA StageUpdated ==
  ASSUME NEW f \in [Process -> Stages], NEW p, NEW to \in Stages
  PROVE  [f EXCEPT ![p] = to] \in [Process -> Stages]
OBVIOUS

(* The worker's steps that change a process.                                 *)
LEMMA WorkerKeepsAlone == AloneInv /\ Worker => AloneInv'
<1> SUFFICES ASSUME AloneInv, Worker PROVE AloneInv'
  OBVIOUS
<1> USE DEF AloneInv, Alive, Root, Gone, Stages, Waited
<1>1. CASE NoProcess
  BY <1>1 DEF NoProcess, GiveUp, helperVars
<1>2. CASE Fork
  <2>1. /\ pc = "launch" /\ pc' = "ask" /\ child' = child + 1
        /\ stage' = [stage EXCEPT ![child + 1] = "pkexec"]
    BY <1>2 DEF Fork
  <2>2. \A p \in Process : p # child' => ~Alive(p)'
    BY <2>1
  <2>3. stage' \in [Process -> Stages]
    BY <2>1, StageUpdated
  <2>4. child' \in Nat
    BY <2>1
  <2> QED
    BY <2>1, <2>2, <2>3, <2>4
<1>3. CASE AskEnds
  BY <1>3 DEF AskEnds, AfterSignal
<1>4. CASE AskAnswered
  BY <1>4 DEF AskAnswered
<1>5. CASE Reap \/ StopHelper
  <2>1. child' = child /\ stage[child] \in Gone /\ stage' = Collected
    BY <1>5 DEF Reap, StopHelper, ChildGone
  <2>2. stage' \in [Process -> Stages] /\ \A p \in Process : ~Alive(p)'
    BY <2>1 DEF Collected
  <2> QED
    BY <2>1, <2>2
<1>6. CASE Pause
  BY <1>6 DEF Pause, GiveUp, helperVars
<1>7. CASE Connect \/ ConnectFails
  BY <1>7 DEF Connect, ConnectFails, helperVars
<1>8. CASE SendNonce \/ Authenticated \/ NotAuthenticated \/ SendRequest \/ SessionOver
  BY <1>8 DEF SendNonce, Authenticated, NotAuthenticated, SendRequest, SessionOver, helperVars,
     workerVars
<1> QED
  BY <1>1, <1>2, <1>3, <1>4, <1>5, <1>6, <1>7, <1>8 DEF Worker

THEOREM Alone == Spec => []AloneInv
<1>1. Init => AloneInv
  BY DEF Init, AloneInv, Alive, Root, Gone, Stages
<1>2. AloneInv /\ [Next]_vars => AloneInv'
  <2> SUFFICES ASSUME AloneInv, [Next]_vars PROVE AloneInv'
    OBVIOUS
  <2> USE DEF AloneInv, Alive, Waited
  <2>1. CASE Start \/ Cancel \/ Destroy
    BY <2>1 DEF Start, Cancel, Destroy, workerVars, helperVars
  <2>2. CASE Main
    BY <2>2 DEF Main, Joined, Drain, Destroyed, WorkerEnded, BeginWorker, workerVars, helperVars
  <2>3. CASE Worker
    BY <2>3, WorkerKeepsAlone
  <2>4. ASSUME NEW p \in Process, Answer(p) \/ Helper(p) \/ CommandEnds(p) \/ HelperCrash(p) PROVE AloneInv'
    <3>1. Onward(p)
      BY <2>4, HelperMoves
    <3>2. PICK to \in Root \cup Gone : stage' = [stage EXCEPT ![p] = to]
      BY <3>1 DEF Onward
    <3>3. Alive(p) /\ pc' = pc /\ child' = child
      BY <3>1 DEF Onward
    <3> QED
      BY <3>2, <3>3 DEF Root, Gone, Stages
  <2>5. CASE GuiCrash
    BY <2>5 DEF GuiCrash, helperVars
  <2>6. CASE Stranger \/ Rest \/ UNCHANGED vars
    BY <2>6 DEF Stranger, Rest, vars, helperVars, workerVars
  <2> QED
    BY <2>1, <2>2, <2>3, <2>4, <2>5, <2>6 DEF Next
<1> QED
  BY <1>1, <1>2, PTL DEF Spec

(* No two pkexec or root helpers, and none once the worker has ended.        *)
THEOREM OneAtATime == Spec => []OneHelperAtATime
<1>1. AloneInv => OneHelperAtATime
  BY DEF AloneInv, OneHelperAtATime, WorkerEnded, Waited
<1> QED
  BY <1>1, Alone, PTL

------------------------------------------------------------------------------
(* Every session has two attempts, so the processes do not run out.          *)
Begun == IF mainAt = "joining" THEN starts - 1 ELSE starts
CountInv ==
  /\ starts \in 0..MaxSessions /\ attempt \in 0..1 /\ child \in Nat
  /\ mainAt = "joining" => starts >= 1
  /\ pc = "none" => child = 0
  /\ child <= 2 * Begun
  /\ pc = "launch" => child <= 2 * Begun - 2 + attempt
  /\ pc \in {"ask", "reap"} => child <= 2 * Begun - 1 + attempt
  /\ pc = "pause" => child <= 2 * Begun - 1

THEOREM Counted == Spec => []CountInv
<1> USE LaunchAssumption DEF CountInv, Begun
<1>1. Init => CountInv
  BY DEF Init
<1>2. CountInv /\ [Next]_vars => CountInv'
  <2> SUFFICES ASSUME CountInv, [Next]_vars PROVE CountInv'
    OBVIOUS
  <2>1. CASE Start
    BY <2>1 DEF Start, workerVars
  <2>2. CASE Cancel \/ Destroy \/ Drain \/ Destroyed
    BY <2>2 DEF Cancel, Destroy, Drain, Destroyed, workerVars
  <2>3. CASE Joined
    BY <2>3 DEF Joined, BeginWorker, WorkerEnded
  <2>4. CASE NoProcess \/ Fork
    BY <2>4 DEF NoProcess, Fork, GiveUp, mainVars
  <2>5. CASE AskEnds \/ AskAnswered
    BY <2>5 DEF AskEnds, AskAnswered, mainVars
  <2>6. CASE Reap
    BY <2>6 DEF Reap, GiveUp
  <2>7. CASE Pause
    BY <2>7 DEF Pause, GiveUp
  <2>8. CASE Connect \/ ConnectFails \/ SendNonce \/ Authenticated \/ NotAuthenticated
                 \/ SendRequest \/ SessionOver
    BY <2>8 DEF Connect, ConnectFails, SendNonce, Authenticated, NotAuthenticated, SendRequest,
       SessionOver, mainVars, workerVars
  <2>9. CASE StopHelper
    BY <2>9 DEF StopHelper
  <2>10. ASSUME NEW p \in Process, Answer(p) \/ Helper(p) \/ CommandEnds(p) \/ HelperCrash(p) PROVE CountInv'
    <3>1. UNCHANGED <<mainVars, workerVars>>
      BY <2>10 DEF Answer, Helper, HelperCrash, SetUp, Announce, Accept, AcceptTimesOut, ReadNonce,
         Refuse, Execute, CommandEnds, ServeEnds, Cleanup, BesideHelper
    <3> QED
      BY <3>1 DEF mainVars, workerVars
  <2>11. CASE GuiCrash
    BY <2>11 DEF GuiCrash
  <2>12. CASE Stranger \/ Rest \/ UNCHANGED vars
    BY <2>12 DEF Stranger, Rest, vars, mainVars, workerVars
  <2> QED
    BY <2>1, <2>2, <2>3, <2>4, <2>5, <2>6, <2>7, <2>8, <2>9, <2>10, <2>11, <2>12 DEF Next, Main, Worker
<1> QED
  BY <1>1, <1>2, PTL DEF Spec

(* pkexec has made no directory, and a helper that has gone has left none.   *)
DirectoryInv ==
  /\ setUp \in Nat
  /\ child # 0 /\ stage[child] = "pkexec" => setUp = 0
  /\ child # 0 /\ stage[child] \in Gone /\ ~killed => setUp = 0

LEMMA HelpersCleanUp ==
  ASSUME AloneInv, CountInv, DirectoryInv, NEW p \in Process,
         Answer(p) \/ Helper(p) \/ CommandEnds(p) \/ HelperCrash(p)
  PROVE  DirectoryInv'
<1>1. p = child /\ Alive(p) /\ child' = child
  BY HelperMoves DEF Onward, Alive, AloneInv
<1>2. stage \in [Process -> Stages]
  BY DEF AloneInv
<1> USE DEF DirectoryInv, Root, Gone, Stages, Becomes
<1>3. CASE Answer(p)
  BY <1>1, <1>2, <1>3 DEF Answer
<1>4. CASE SetUp(p)
  BY <1>1, <1>2, <1>4 DEF SetUp
<1>5. CASE \/ Announce(p) \/ AcceptTimesOut(p) \/ ReadNonce(p) \/ Refuse(p)
           \/ Execute(p) \/ CommandEnds(p) \/ ServeEnds(p)
  BY <1>1, <1>2, <1>5 DEF Announce, AcceptTimesOut, ReadNonce, Refuse, Execute, CommandEnds, ServeEnds
<1>6. CASE Accept(p)
  BY <1>1, <1>2, <1>6 DEF Accept
<1>7. CASE Cleanup(p)
  BY <1>1, <1>2, <1>7 DEF Cleanup
<1>8. CASE HelperCrash(p)
  BY <1>1, <1>2, <1>8 DEF HelperCrash
<1> QED
  BY <1>3, <1>4, <1>5, <1>6, <1>7, <1>8 DEF Helper

LEMMA DirectoryStep ==
  AloneInv /\ CountInv /\ DirectoryInv /\ [Next]_vars => DirectoryInv'
<1> SUFFICES ASSUME AloneInv, CountInv, DirectoryInv, [Next]_vars PROVE DirectoryInv'
  OBVIOUS
<1>0. stage \in [Process -> Stages] /\ child \in Nat
  BY DEF AloneInv
<1> USE DEF DirectoryInv, Root, Gone, Stages
<1>1. CASE Start \/ Cancel \/ Destroy \/ Main \/ GuiCrash \/ Stranger \/ Rest \/ UNCHANGED vars
  BY <1>1 DEF Start, Cancel, Destroy, Main, Joined, Drain, Destroyed, GuiCrash, Stranger, Rest, vars,
     workerVars, helperVars
<1>2. CASE Fork
  <2>1. child + 1 \in Process
    BY <1>2, LaunchAssumption DEF Fork, CountInv, Begun, Process
  <2>2. /\ child' = child + 1 /\ setUp' = 0
        /\ stage' = [stage EXCEPT ![child + 1] = "pkexec"]
    BY <1>2 DEF Fork
  <2> QED
    BY <1>0, <2>1, <2>2
<1>3. CASE AskEnds
  BY <1>0, <1>3 DEF AskEnds, AfterSignal
<1>4. CASE Reap \/ StopHelper
  <2>1. /\ child' = child /\ setUp' = setUp /\ killed' = killed /\ stage[child] \in Gone
        /\ stage' = Collected
    BY <1>4 DEF Reap, StopHelper, ChildGone
  <2> QED
    BY <1>0, <2>1 DEF Collected
<1>5. CASE NoProcess \/ AskAnswered \/ Pause \/ Connect \/ ConnectFails
  BY <1>5 DEF NoProcess, AskAnswered, Pause, Connect, ConnectFails, helperVars
<1>6. CASE SendNonce \/ Authenticated \/ NotAuthenticated \/ SendRequest \/ SessionOver
  BY <1>6 DEF SendNonce, Authenticated, NotAuthenticated, SendRequest, SessionOver, workerVars,
     helperVars
<1>7. ASSUME NEW p \in Process, Answer(p) \/ Helper(p) \/ CommandEnds(p) \/ HelperCrash(p) PROVE DirectoryInv'
  BY <1>7, HelpersCleanUp
<1> QED
  BY <1>1, <1>2, <1>3, <1>4, <1>5, <1>6, <1>7 DEF Next, Worker

(* No directory stays behind unless the helper was killed.                   *)
THEOREM Removed == Spec => []DirectoryRemoved
<1>1. Init => DirectoryInv
  BY DEF Init, DirectoryInv
<1>2. DirectoryInv => DirectoryRemoved
  BY DEF DirectoryInv, DirectoryRemoved, HasDirectory
<1> QED
  BY <1>1, <1>2, DirectoryStep, Alone, Counted, PTL DEF Spec
=============================================================================
