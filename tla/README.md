# LGL System Loadout in TLA+

LGL System Loadout is a GTK wizard that sets up a freshly installed Fedora
system: it updates the system, lets its user choose packages and tools, checks
what is installed already, and installs the rest. It runs as the user and
starts one helper as root, with pkexec, for each session that needs it. It is
the successor of a Qt program that the repository keeps, in `legacy/qt`, as the
reference for what it installs.

This directory holds TLA+ modules translated from the C++ sources, the TLC
configurations that check them on small instances, and proofs of some of their
properties for every instance. `PROJECT.json` lists components, runs, mutants,
findings, hazards and theorems, and says for each definition which lines of the
code it stands for.

    tlc -workers 2 -config MCSession.cfg MCSession
    tlapm Session_proofs.tla

## The system

Two processes, four kinds of threads, and the commands.

    main thread (GTK)                       worker thread of a HelperSession
    +--------------------------------+      +-------------------------------+
    | Window: navigation             |      | run(): launch, connect,       |
    | pages: update, selection,      |start | authenticate, step loop,      |
    |   review, install, done        |----->| stopHelper                    |
    | Selection (shared)             |cancel|   local steps: runCommand     |
    | drain() <- posted tasks        |<-----| post()                        |
    +--------------------------------+      +-------------------------------+
        |  request       ^ posted                |  Unix socket, JSON lines
        v                | answers               v
    +--------------------------------+      +-------------------------------+
    | Checker thread: probes         |      | root helper: Server, Executor |
    +--------------------------------+      |   child process: a command    |
                                            +-------------------------------+

| Component | State | Operations | Talks to | What is hard |
|---|---|---|---|---|
| Session, client side (`ui/helpersession.cpp`) | the plan, the step the loop is at, the results of steps, the errors, the Stop flag, a receive buffer, the queue of posted tasks | start, cancel, launch, connect, authenticate, run, execute, local steps, post, drain, stopHelper | the page by posted tasks; the helper by the socket and its process | Stop at any moment, meaning something else at each place; answers matched by their order alone; either process may die |
| Helper (`helper/server.cpp`, `executor.cpp`) | where it stands, the request, the Stop flag, the signals sent, the child | accept, authenticate, serve, execute, pumpClient, signals, reap, cleanup | the client; the child by signals and pipes | a command that ignores SIGTERM; a Stop between two commands; the client gone while a command runs |
| Window (`ui/window.cpp`) | the current page, what the sidebar offers, Continue | showStep, updateNavigation | the pages by signals | the only thing that keeps an update and an installation apart |
| System Update page | phase, busy, complete, the kernels before | update, Flatpak, skip, reboot, continue | a session of its own | buttons that stay usable after a failure |
| Install Now page | the plan shown, chips, started, running, done, errors | prepare, start, Stop | a session of its own; the shared Selection | the plan is built twice, once to show and once to run |
| Setup Complete page | the message | setSummary, reboot | a session of its own | speaks of a session it has not seen |
| Checker (`ui/checker.cpp`) and the pages that ask it | jobs, posted answers, the counter, the requested keys, badges, spinners | request, work, drain, refresh, the destructor | its thread by a mutex and a condition; the pages by a signal | answers that are old when they are shown |
| Selection and its pages | keys and choices | toggle, select all or none, select what is required, choose, choose a GPU | every page shows the same Selection | a selection hidden from its page |
| Catalogue and plan (`core/catalog.cpp`, `core/plan.cpp`) | none | buildPlan, needsFlatpak, unmetRequirements, estimateDiskMb | | 90 conditional steps ordered by hand |
| Review page (`ui/pages/reviewpage.cpp`) | disk estimate, Proceed Anyway | rebuild | the plan, the file system | an answer that outlives its question |
| Local runner (`core/process.cpp`) | the child, the deadline, the Stop flag | runCommand | the child by a pipe | deadline, Stop and the end of the child in any order |
| Protocol (`core/protocol.cpp`) | none; its callers keep buffers | format, parse, split lines | | long and partial lines, in any cut |
| Policy (`core/policy.cpp`) | none | validate a command | the helper asks it before everything it runs | knows neither the catalogue nor the plan |
| System information (`core/system.cpp`) | none | detectSystem, availableDiskMb | rpm, uname, logname, df | answers that are missing, odd or about another user |
| The retired program (`legacy/qt`) | as above, in Qt's event loops | | | the helper hears nothing while a command runs |
| Settings, theme, cards, help | small | reading files, drawing | | |

What makes each correct:

- **Session**: what it records and shows of a step is what happened to the
  system; a dependent step is carried out over a success only; the summary
  comes once, last and at all; nothing runs any more when it comes.
- **Helper**: there is one at a time; it goes away when its client does, or when
  none comes, with everything it has made; a command it is told to stop stops.
- **Local runner, protocol**: what they return is what happened, and all of it,
  however the bytes came.
- **Window and pages**: no update beside an installation; what runs is what was
  shown; no way past the update without an update; no lock without a release.
- **Checker**: no badge from an older probe over one from a newer; a spinner
  only while something is to come; the window closes.
- **Selection and plan**: exactly the steps of what is selected, each once,
  each after what it builds on.
- **Plan, policy, checks, system**: four places that name the same packages and
  users agree: nothing planned is refused, what is installed is seen, what is
  skipped is there. And they agree with the program this one replaces.
- **Review**: Continue is offered, and held back, for a reason.

## The modules

| Module | What it is | Proofs |
|---|---|---|
| `InstallRun` | the promise of a session to the page that shows it: an abstract specification | |
| `Session` | one session end to end: worker, page, socket, helper, command. Implements `InstallRun` | `Session_proofs` |
| `Launch` | the life of a session object and its helpers: start, two attempts at pkexec, the socket, authentication, cleanup | `Launch_proofs` |
| `Process` | `runCommand()`: one command, its pipe, a time limit, a Stop flag | `Checker_proofs` |
| `Framing` | four loops that make lines of a stream | `Framing_proofs` |
| `Wizard` | the window, the three pages that own sessions, their dialogs | `Wizard_proofs` |
| `Checker` | the checker, its thread, the pages' requests and badges | `Checker_proofs` |
| `Review` | the review page's comparison with the disk | `Review_proofs` |
| `Plan` | the catalogue and `buildPlan()`, as a table | `Plan_proofs` |
| `Selection` | everything that changes the selection; the plan of each selection | `Plan_proofs` |
| `Commands` | the command of every step, the allow-list, the check of every item, `detectSystem()` | `Plan_proofs` |
| `Effects` | what the programs that the commands run add and remove: external | |
| `Apply` | a plan carried out on a system | `Plan_proofs` |
| `LegacyPlan` | the plan and the allow-list of the retired program | |
| `Parity` | the two plans side by side, on top of `Selection` | `Plan_proofs` |
| `CatalogueFacts` | what the tables must be like for the theorems about plans: assumptions that TLC decides | |
| `LegacySession` | the sessions of the retired program: pages, worker, helper | `LegacySession_proofs` |

`MC...` modules hold constants for TLC. Each state machine states its `TypeOK`.
It is proved for `Session`, `Checker`, `Selection` and `Process`, and implied
wherever a proof needs it; no run is spent on it. `Checker_proofs` is about both
things that wait for a program: the checker, and the runner it calls.

The state machines meet in these places. `Launch` takes what `Session` is about
for one command, which need not end, and `Session` takes a launch for a step
that succeeds or fails. `Wizard` takes a session for what `Session`,
`InstallRun` and `Launch` show it to be: it runs until one task reports the
errors, it is ignored if started twice, and it ends (`SessionEnds`,
`EveryStartIsAnswered`). `Session` and `Checker` take a local command for
something that returns and tells what happened, which is `Process`, and a socket
for something that carries messages, which is `Framing`. `Session` takes any
plan that satisfies `PlansAssumption`, and `Plan_proofs!Runnable` proves what it
says of ids and dependencies of every plan that `buildPlan()` makes. `Apply`
extends `Effects`, that extends `Commands`, and that extends `Plan`; `Parity`
extends `Selection` and `LegacyPlan`. `Wizard` has two items for what
`Selection` has in full.

### Session

`pc` is where `run()` stands. One action is the code between two points at
which another thread or process can be noticed: taking a line from the buffer,
receiving, sending a request, running a local command.

| Code | Here |
|---|---|
| `launch()`, then the builder on the worker | `LaunchFails`, `LaunchSucceeds` |
| `connectSocket()`, `authenticate()` | `Connect`, `ConnectFails`, `Authenticated`, `AuthenticationFails` |
| the loop over the plan: the Stop flag, `dependsOn`, local steps, check, command | `Close`, `SkipStep`, `BeginStep`, `RunLocal`, `VerifyLocal`, `NoCommand`, `SendExecute`, `Return` |
| `readLine()`: the buffer, then the Stop flag and one cancel, then the socket | `TakeLine`, `SendCancel`, `Receive`, `ReceiveClosed` |
| `stopHelper()` | `EndSession`, `StopHelper` |
| `post()` and `drain()`, the page's handlers | `events`, `Deliver` |
| `Server::serve()`, `handle()`, `pumpClient()` | `HelperReads`, `HelperSeesEnd`, `HelperPumps` |
| `Executor::run()`: pump, SIGTERM, SIGKILL, `waitpid` | `HelperPumps`, `GraceElapses`, `HelperReaps`, `ChildExits` |
| death of a process | `GuiCrash`, `HelperCrash` |

A message is a record, not a line of JSON. Output lines are left out; they
reach the log only. A command is what `applied` keeps of it: nothing, found by
its check, begun, done. `applied` is a history variable: no action of the
program reads it.

Three details are kept exactly, because results depend on them. `readLine()`
looks at its buffer before it looks at the Stop flag, so `buffer` is not part of
`toClient`. `execute()` takes any `finished` or `cancel_ack` for its answer and
compares no request id. `cancelSent` is new for each `execute()`.

### Wizard

One action is one handler: a click, a dialog's answer, the end of a session.
Every handler that ends in `stateChanged()` includes `UpdateNavigation`, and
the others do not. A dialog is modal, so clicks need `dialog = "none"`, while
sessions end whether one is open or not. `UpdateSessionEnds` branches on
`phase`, as the handler does, and not on the job that really ended.

`Select` is one page for all the selection pages and the review: they differ
only in their content. `updated` and `skipped` are history.

Of an installation's session `Wizard` has what the last page depends on. The worker
builds its plan from the selection (`BuildPlan`), then goes through the items
(`InstallItem`, `FailItem`) until all are done or it sees Stop, and `InstallEnds` reports
whether an error was counted; one that never got as far as the first step reports
one error. Not every failure is counted: an optional step, `--skip-unavailable`, which
exits with 0 over what it did not find, and an allowed exit code make a step that
left nothing behind a success, or no error (helpersession.cpp:444, 467;
plan.cpp:141, 166, 362). Items with such a step are `Uncounted`.

### Checker

`Show` and `Refresh` are `requestMissingChecks()` with every `submit()` in it:
both are on the main thread, and the thread they start is only free to move
afterwards. The thread takes a job, probes outside the lock, posts. `Drain`
shows all posted answers in order and lowers the counter once for each.
`Change` is the system changing behind all this. A probe that hits its time
limit may answer either way: the keys in `Slow`.

### Plan and Selection

All 77 items, the groups, the requirements and the order of the plan are there.
A command is what it needs before it and what it leaves behind: `dnf copr
enable` needs the dnf plugins and leaves a repository, `mv part target` needs
the part. What a package needs is the source that its own step names, or that
the catalogue names for it.

`buildPlan()` tests conditions one after the other and adds steps. `Offers` is the
list of these tests in their order: a step, and the items and options any of
which asks for it. `BuildPlan` goes through that list and keeps what is asked
for (`AskedFor`: the selected items, without drivers unless AMD is chosen, and
the chosen options). No test in the code asks for the absence of an item, so
that nothing else is needed. There is one list for either side of Fedora 44.

`Selection` changes the selection as the pages do;
cards that are not on the screen cannot be clicked, but what they set stays
(`ChooseGpu`). The Fedora release and the architecture are one of `Systems`,
fixed at the start: the release decides where two drivers come from, the
architecture whether Epic has a card.

### Launch

`Session` begins where a launch has succeeded. `Launch` is what comes before and
around it, for as many sessions as one object is asked for. Processes are
numbered; a process is `pkexec` until its dialog is answered and a root helper
after that, which is why a signal ends it before and not after. `setUp` is how
far `Server::start()` has come and so what `cleanup()` has to undo; `queue` is
the socket's backlog, in which other processes may stand too.

| Code | Here |
|---|---|
| `start()`: the test of `m_running`, the join, the new worker | `Start`, `Joined` |
| the destructor, `cancel()`, `drain()` | `Destroy`, `Destroyed`, `Cancel`, `Drain` |
| `launch()`: fork, wait for two lines with a limit, SIGTERM, `waitpid()`, the pause, again | `Fork`, `AskAnswered`, `AskEnds`, `Reap`, `Pause`, `NoProcess` |
| `connectSocket()`, `authenticate()`, `stopHelper()` | `Connect`, `SendNonce`, `Authenticated`, their failures, `StopHelper` |
| the session: a request, its answer, the end | `SendRequest`, `SessionOver` |
| `Server::start()`, `main()`, `acceptClient()`, `authenticate()`, `serve()`, `cleanup()` | `SetUp`, `Announce`, `Accept`, `AcceptTimesOut`, `ReadNonce`, `Refuse`, `ServeEnds`, `Cleanup` |
| `handle()`, `Executor::run()` | `Execute`, `CommandEnds` |
| the dialog, other processes, deaths | `Answer`, `Stranger`, `HelperCrash`, `GuiCrash` |

One command stands for those of a plan. It need not end, and while it runs its
helper takes no notice of anything, so that nothing that `Session` shows of Stop is
repeated here.

### Process

`runCommand()` reads until the pipe ends, then waits for the child. Output is
counted in chunks, as what is kept is a prefix of what was written. The pipe
ends when the last process that has it closes it: `holders`. One grandchild
stands for any number.

### Framing

`Readers` are `readMessage()`, `pumpClient()`, `readLine()` and `flushLines()`.
The first and third differ in their limit only. `stream` is a history variable,
everything that was read, and the properties compare what came out with what the
same operators make of the whole stream at once: `TakeLines` and `LogLines` are
the reference, and for the log also `Written`, the stream without its breaks; the
loops with their buffers are what is checked. A byte is one of
the two that are looked at or one of two others.

### Review

`Rebuild` is `rebuild()` with the question put to `df`. `seen` keeps what it saw.
The estimate and the 15% with 500 MB are computed as the code does. A `banner`
is the text that the page shows, one of four.

### Commands and Apply

`Commands` has the words of each command, apart from paths of programs. The
allow-list is a set of sequences of words and rules. `CheckFor` gives the things
that show an item to be installed. `Apply` takes one card or option, has the
plan's steps carried out, failing, skipped, or doing nothing and saying 0, and
keeps in `there` what is on the system. What a program does is external, in
`Effects`: `dnf install` leaves the packages it names. `found` is what `detectSystem()` may
come upon, and `self` the user pkexec reports.

### LegacyPlan, Parity and LegacySession

`LegacyPlan` is `buildSteps()` of `legacy/qt` with its allow-list, in `Commands`'
words, as a list of offers like `Plan`'s; `LegacyCarried` is what of it the old helper
let through, `Carried` what the new one lets through of the new one. `Parity`
compares the two plans, in every state of
`Selection`.

In `LegacySession` the worker writes to the socket and looks at everything that
is there at once, taking the first answer in it. `handle` is what `QProcess` says
of the helper, which is not what `helper` is until the event loop has run. The
helper carries commands out inside its event loop, so it reads nothing
while one runs: its code for ending a command is never reached.

No page of it is a commit page, and the wizard enables Back again, so that the
install page is entered any number of times: `Install` where no worker is
alive, and `InstallOver` where one is, which the page cancels and does not wait for
(installpage.cpp:107-111). `entry` is history and says how the page was entered
last: `"alone"`, `"not launched"` when there was no helper for it, `"mixed"` when another
worker was still to be heard of. Which of two workers keeps the helper depends on who
connects first. The other one is in `stray`, the counts it may still report. After a
mixed entry the list of steps, which both workers write to by ids, is left out
(`chips` is empty), the selection is the one there was, and there is one stray worker at
a time. A helper that `kill()` cannot reach because it is root already is left out:
it listens, and nobody is ever told its address.

## The runs

All are checked for deadlock; `Terminated`, `Rest`, `Ended` and `Done` are the
stuttering that stands for an end. Ten runs pass. Two refute a sentence of the
documentation each.

### Session

| Run | Shows | Instance |
|---|---|---|
| `session` | safety, liveness and refinement, below | 6 plans of up to 3 steps, exit codes 0 and 1, both processes may die, commands need not end and may ignore SIGTERM; 136,000 states |
| `session_marks` | refuted: "marks each step as it runs" (HELP.md:120) | one optional step with a check |

`session` checks

- `HonestUntilStopped`: the session records a step as done only if it was done,
  but for the one step that Stop interrupts;
- `DependentsFollowSuccess`: nothing is built on a step that failed;
- `AnswersAreCurrent`: without Stop, no answer on its way is an old one;
- `QuietWhenDone`: no command runs when the summary is shown, unless the helper
  was killed, which leaves its command behind;
- `NoErrorsMeansInstalled`: a summary of no errors means that every step which
  is not optional was carried out, if Stop was not pressed;
- `KeepsPromise`: `Session` implements `InstallRun`;
- `SessionEnds`, `HelperLeaves`: if commands end, the page gets its summary and
  the root helper goes away, whoever died;
- `StoppedCommandDies`: a command that the helper was told to stop ends by
  SIGTERM or by SIGKILL.

The plans are the shapes that `buildPlan()` makes: a step with a check, an
optional step with a check and an allowed exit code, an AppImage (verified
download, publish, chmod, each depending on the one before), a step with no
command, one that the policy rejects, an optional one, and the empty plan.
Three steps are the longest chain of dependencies in the catalogue. A stale
answer reaches at most the next request, so two requests in a row, a check and
its command, and a step after them show what it can do. Exit codes matter only
as accepted or not.

`session_marks`. Stop during a check is answered with `cancel_ack`, which ends
`execute()`. The step goes on to its command. The check's own `finished` is
still on its way and is taken for the command's. With exit code 1 allowed, as
for `toolkit_scx_scheds`, "not installed" becomes OK. `HonestUntilStopped` says
how far this goes.

### Launch, Process, Framing

| Run | Shows | Instance |
|---|---|---|
| `launch` | `OneHelperAtATime`, `DirectoryRemoved`, `EveryStartIsAnswered`, `RootLeaves` | 2 sessions of 2 attempts, 2 strangers, a command that may run for ever; 43,000 states |
| `process` | `ResultTellsWhatHappened`, `SuccessIsComplete`, `Returns` | 4 chunks written, 2 kept, one grandchild; 25,000 states |
| `framing` | `CutDoesNotMatter`, `LimitIsForLongLines`, `LogIsTheOutput` | streams of 7 bytes in reads of 1 or 2, limit 4, the last read of any length; 201,000 states |

Two sessions show what one leaves to the next, in its object and in its helper;
two strangers can stand before and behind the client. The two theorems about
`Launch` are for any number of both. In `process` something is lost at the limit
and something is not, a read takes a part or all of what is there, and the
theorems are for any limit and amount. `framing`'s limit is two reads, as no
smaller one tells a line at the limit from a buffer at the limit, and seven bytes
hold a line over the limit with complete ones on either side.

### Wizard

| Run | Shows | Instance |
|---|---|---|
| `wizard` | `UpdateExcludesInstall`, `NothingRunsUnseen`, `NavigationInSync`, `SummaryIsTrue`, `NavigationUnlocks` | 2 items, one of them `Uncounted`, 2 kernels; 447,000 states |
| `wizard_unlock` | refuted: steps stay hidden "until the update has run or has been explicitly skipped" (CHANGELOG.md:12) | 2 items, 1 kernel |

Two items tell a selection from a changed one, neither empty nor full, and an item
whose failure counts from one whose failure does not. Two kernels are needed for an update run again that does, or does not, bring
another. `wizard_unlock`: after an update that never started (the password
dialog dismissed), the Flatpak question is shown all the same, and No completes
the page.

### Checker

`checker` shows `SpinnerOnlyWhileChecking`, `LastAnswerStands`, `AnswersArrive`
and `QuitEnds` for 3 cards on 2 pages, 1 refresh and 1 change; 353,000 states. A
refresh puts two jobs for one card on their way, before and after a change; a
third would come after one whose answer is the same. The two pages differ in
whether they have a spinner. The theorems are for any number of both.

### Selection, Review, Apply

| Run | Shows | Instance |
|---|---|---|
| `selection` | `PlanSuitsSession`, `PlanIsTheSelection`, `SourcesComeFirst`, `SameAsBefore` | Fedora 44 on x86_64 and Fedora 43 on aarch64, the whole catalogue; 204,000 states |
| `review` | `GateHolds`, `AlarmIsTrue` | a driver, a Flatpak, another item; a disk just large enough and one MB short for every sum of them; 213,000 states |
| `apply` | `NothingRejected`, `InstalledIsSeen`, `SkippedIsThere` | every card and option, 6 systems, up to 2 of the packages asked for missing; 166,000 states |

`MaxItems`, `MaxPages` and `MaxChoices` bound a selection to two items picked by
hand or one whole page, and two choices. `buildPlan()` asks about one key, or
about any of a set of keys, and never about the absence of one. A plan grows
with the selection, so two steps that should not meet, or meet in the wrong
order, are there already for the two items they come from; what a step lacks,
it lacks already for its own item alone. The theorems have no such bound: they
are about every selection. `SourcesComeFirst` supposes that
no requirement is left unmet: the pages and the review point these out, and
let the user go on.

`SameAsBefore` leaves out cards that the old program did not have and two that
install something else now. Everything else, in every selection, is the same
sequence of commands with the same checks: what `legacy/qt/README.md` calls
"the reference for behaviour parity".

The six systems of `apply` differ in each question of `detectSystem()`: either
release and architecture, answers that are missing, a login that is not the
process's user (after `su`), a name that the rules for user names refuse, and
root by `sudo`. The bound on missing packages is enough because a check asks for
all of its packages at once; the theorems are for whatever is missing and for any
names. All facts in `CatalogueFacts` are evaluated by this run.

### The retired program

`legacysession` shows `ShownIsTrue`, `OneMoreAfterClose` and `EverythingEnds` for
2 plans of 2 steps, the update's and the Flatpak's sessions, both reboots, two
entries of the install page, the helper dying at any moment; 966,000 states. Two
steps are one to be interrupted and one after it. The four steps of the two plans
are of the four kinds there are: with a check, with an allowed exit code,
optional, and unknown to the allow-list. Two entries are one that leaves a worker, a count
or a helper, and one that finds it; `OneMoreAfterClose` and `EverythingEnds` are checked
of mixed entries too.

### What passing properties say of the code's limits

Passing properties carry exceptions. Each is a deviation of the code from a
sentence written about it, or a limit worth knowing, and TLC finds a
counterexample when the exception is left out.

| Property | Exception | Why |
|---|---|---|
| `NoErrorsMeansInstalled` | Stop was pressed | the loop ends at the Stop flag (helpersession.cpp:386) and the steps left out are no errors, so that the last page can say "All selected packages and tools are installed." |
| `SummaryIsTrue` | nothing was started, or Stop was pressed | the last page reads the summary of an installation that was never started, no errors, and says the same (window.cpp:373, donepage.cpp:72); for Stop see above |
| `SummaryIsTrue` | items that fail without an error | a step that is optional, whose exit code is allowed, or that exits 0 over a package it skipped is not counted (helpersession.cpp:444, 467; plan.cpp:141, 166, 362): an installation that ran to its end without Stop can leave such an item out, and the last page says "All selected packages and tools are installed." (donepage.cpp:72) |
| `HelperLeaves`, `RootLeaves`, `EveryStartIsAnswered` | commands end | nothing limits a command's time (executor.cpp:106-144), so that a helper whose client died stays, as root, for as long as its command runs. `pumpClient()` ends its loop at the end of the stream as at an empty one (server.cpp:289); server.h:33 says of `serve()` "Blocks until shutdown or the client disconnects." |
| `UpdateExcludesInstall` | says nothing of the page's reboot | the reboot does not make the page busy, so that an installation can be started before it; CHANGELOG.md:38: "locks navigation while it is running" |
| `SourcesComeFirst` | Spotify alone has no Flathub | `needsFlatpak()` does not have it (plan.cpp:395); catalog.cpp:787: "Flatpak and the Flathub remote are configured automatically if any Flatpak item is selected". Heroic, a COPR package now, still is there, against the name of the test at plan_test.cpp:121, "installsFlatpakOnlyWhenNeeded" |
| `SourcesComeFirst` | the CachyOS headers alone have no COPR | only the kernel enables it (plan.cpp:354); HELP.md:76 offers "the kernel or its matching headers" |
| `SameAsBefore` | Spotify alone; Chrome alone | the first had Flathub then and has not now, the second has it now and had not (mainwizard.cpp:215) |
| `GateHolds` | Proceed Anyway was ever pressed; nothing at all is free | `m_proceeded` is never cleared (reviewpage.cpp:50), and 0 MB is taken for no answer (system.cpp:110) |
| `AlarmIsTrue` | drivers selected for AMD, then another GPU | the estimate counts what the plan leaves out (plan.cpp:571) |
| `NothingRejected` | steps for a user, where the login is another user's or the name is unusual | `logname` is not pkexec's user (system.cpp:78), and policy.cpp has its own rule for names |
| `InstalledIsSeen` | packages that dnf may leave out without failing | `--skip-unavailable` |
| `SkippedIsThere` | scx-scheds | another package stands in for it, on purpose |
| `CutDoesNotMatter` | after a burst over the limit during a command | `pumpClient()` forgets complete lines with it (server.cpp:292) |
| `LogIsTheOutput` | output with carriage returns | of a line that is overwritten only the last text is meant to be kept, and a read that ends between two of them reports both (executor.cpp:41) |
| `DirectoryRemoved` | the helper was killed | nobody else removes its directory |
| `ShownIsTrue` | of an entry without a helper | nothing is written to "install/errorCount", which the last page then reads as 0, or as an earlier entry left it, and says "All selected packages and tools have been installed." (legacy/qt/src/pages/donepage.cpp:61-67, installpage.cpp:126) |
| `ShownIsTrue` | from an entry over a live worker on | the cancelled worker's count, 0 if it was at an optional step, is taken for the new worker's (legacy/qt/src/pages/installpage.cpp:107-111), and the last page says the same |
| `OneMoreAfterClose` | one command | a check that was cut short leads on to the command (installworker.cpp:137) |
| `EverythingEnds` | a helper that never had a client | its `main()` gives the start no limit (legacy/qt/src/helper/main.cpp:59) |

More of the same kind is in the models and in no property:

- A Stop that the helper reads just after a check has ended is answered, and
  forgotten when the command starts (server.cpp:350). Nobody sends it again: the
  answer was the client's sign that it had been heard.
- An update brings a kernel and fails; the second one takes the list of kernels
  again and finds nothing new, so that the gate does not appear
  (updatepage.cpp:184).
- After an installation the pages show the old badges until Refresh: a key in
  `m_requested` is not asked for again (selectpage.cpp:264).
- A command that has ended while another process keeps its pipe open is waited for
  until the time limit, and reported as timed out (process.cpp:69).
  `ResultTellsWhatHappened` and `Returns` allow it.
- Short lines in `pumpClient()`'s buffer go with it when it is over the limit
  (server.cpp:292). `CutDoesNotMatter` ends there.
- `SameAsBefore` compares commands, checks and what the allow-lists let through, and
  not which steps are optional.
- A password dialog that is dismissed is shown a second time
  (helpersession.cpp:175), where HELP.md:97-98 says that each session "asks once".

## Fairness

- `Session!Scheduled`: weak fairness of the worker, the helper, the main loop
  and the grace timer. Each waits with a time limit or on a descriptor, so a
  step that stays possible is taken. A command that was sent SIGKILL dies.
- That commands end is not assumed: the code gives them no time limit. It is the
  premise `CommandsEnd` of `SessionEnds` and `HelperLeaves`, and in `Launch` of
  `EveryStartIsAnswered` and `RootLeaves`; `StoppedCommandDies` does without it.
- Nothing is assumed of the user: `Cancel`, clicks and dialogs have no fairness.
- `Launch!FairSpec`: the worker, the helper and the main loop go on; every wait of
  theirs has a limit but those for each other, which are what is checked, and the
  helper's for its command, which has no fairness. Nothing is assumed of the password dialog, which
  may stay for ever, nor of other processes at the socket.
- `Process!ProcessFairSpec`: the caller's thread goes on, the clock reaches the limit,
  a process sent SIGKILL dies. The command need not do anything.
- `LegacySession!FairSpec`: as for `Session`, but that commands end is assumed,
  since nothing in that program ends one. A Stop goes out when 300 ms pass
  without output, which is assumed only while no command runs.
- `Wizard!FairSpec`: sessions go on and end, which is `Session!SessionEnds` with its
  premise that commands end.
- `Checker!FairSpec`: the thread runs, its probes having a limit of 8 s, and
  the dispatcher wakes the main loop. An emission is lost on no path
  (`AnswersArrive`).

## What is proved

The theorems hold for every value of the constants that satisfies the `ASSUME`s
of the module. These say that names are distinct, exit codes are naturals with
0 among them, a plan has no two steps with one id, only a step of an AppImage
depends on another, which is earlier and not optional (plan.cpp:60-93), pages
share no cards, the catalogue is finite, the retired program's plans are sequences of
its steps, and bounds and limits are naturals, a read being shorter than a line may be. `Runnable` proves of
`buildPlan()` itself that ids are different and dependencies earlier. Of the users
it is assumed that `root` is no name the two rules for names accept, and that
the wizard is not set-user-id (`EnvironmentsAssumption`); of the systems, that a
release is a natural and the architecture one of two. `Plan_proofs` also rests on
`CatalogueFacts`, see below.

| Theorem | Says | Argument |
|---|---|---|
| `Session_proofs!Typing` | `TypeOK` | `Typed`: `TypeOK` and that inside a step `index` is one of the plan |
| `Session_proofs!Quiet` | `QuietWhenDone` | `QuietInv`, below |
| `Session_proofs!Current` | `AnswersAreCurrent` | `AnswerInv` of that module, below |
| `Session_proofs!Honest` | `HonestUntilStopped` | `PlanInv` with `Truthful`, below |
| `Session_proofs!Dependents` | `DependentsFollowSuccess` | `PlanInv`: what was tried of a dependent step follows a success (`Followed`), and only the last step tried can lose one |
| `Session_proofs!Refines` | `KeepsPromise`: `Session` implements `InstallRun` | `WorkInv` and `PageInv`, below |
| `Session_proofs!Installed` | `NoErrorsMeansInstalled` | `Clean` and `NoErrors`: what is counted, with `HonestUntilStopped` for what is true |
| `Wizard_proofs!Apart` | `UpdateExcludesInstall` | `HeldApart`: an update's session makes the page busy, and a busy page is the current one; so is a page with a running installation. The current page is one |
| `Wizard_proofs!Shown` | `NothingRunsUnseen` | `PlanAsShown`: once started, `displayed` is `selected`, since the page cannot be left before the end; it is built while it runs |
| `Wizard_proofs!InSync` | `NavigationInSync` | it is inductive: an action either includes `UpdateNavigation` or changes nothing that it reads |
| `Wizard_proofs!Summarised` | `SummaryIsTrue` | `SummaryInv`, below |
| `Checker_proofs!Typing` | `TypeOK`, with `pending \in Nat` | `CountInv` |
| `Checker_proofs!SpinnerEnds` | `SpinnerOnlyWhileChecking` | `CountInv`: `pending` is `Outstanding`, and a spinner needs it positive |
| `Checker_proofs!LastAnswer` | `LastAnswerStands` | `AnswerInv`, below |
| `Checker_proofs!Tells` | `ResultTellsWhatHappened` | `FlagsInv`: where the caller stands says what has become of the child, and a flag that is set has its reason |
| `Checker_proofs!Whole` | `SuccessIsComplete` | `WholeInv`, below |
| `Checker_proofs!OutputBounded` | `ProcessTypeOK`: what is kept of the output is never over the limit | inductive |
| `Plan_proofs!Typing` | `Selection!TypeOK` | every click sets cards of a page and options of a group |
| `Plan_proofs!Runnable` | `PlanSuitsSession` | `IdsDiffer`, `DependsOnEarlier` |
| `Plan_proofs!Complete` | `PlanIsTheSelection` | `StepsOffered`, `OfferedForItem` |
| `Plan_proofs!SourcesBefore` | `SourcesComeFirst` | `SourcesOffered` |
| `Plan_proofs!AsBefore` | `SameAsBefore` | `TablesMatch`, below |
| `Plan_proofs!Allowed` | `NothingRejected` | `StepsAllowed` and `ForItsUser`, below |
| `Plan_proofs!LeftOutIsThere` | `SkippedIsThere` | `ApplyInv` with `LittleTaken`, below |
| `Plan_proofs!InstalledItIs` | `InstalledIsSeen` | `ApplyInv` with `StepsSeen`, `PipxSeen`, `AppImagesSeen`, below |
| `Launch_proofs!OneAtATime` | `OneHelperAtATime` | `AloneInv`: only the latest child can be alive, and not where the worker is between `waitpid()` and the next `fork()` |
| `Launch_proofs!Removed` | `DirectoryRemoved` | `DirectoryInv`, below |
| `Review_proofs!Gate` | `GateHolds` | `GateInv`: what was found at the last `rebuild()` is what `diskOk` says; and a sum grows with the set it is over, below |
| `Review_proofs!Alarm` | `AlarmIsTrue` | `AlarmInv`: the banner, `diskOk` and the button were set together, and nothing sets one of them alone |
| `Framing_proofs!Cuts` | `CutDoesNotMatter` | `FramingInv` with `Whole`, below |
| `Framing_proofs!Limit` | `LimitIsForLongLines` | `FramingInv` with `Taken`, below |
| `Framing_proofs!Logged` | `LogIsTheOutput` | `LogInv`, below |
| `LegacySession_proofs!OneMore` | `OneMoreAfterClose`, until a mixed entry | `LastCommand`: a command that was begun late, or whose request is in the socket, is one the worker asks for nothing after |
| `LegacySession_proofs!Shown` | `ShownIsTrue` | `OneRequest`, `AnswerTells`, `ShownInv`, below |

`QuietWhenDone` is not inductive: it says nothing of the way to the summary.
`QuietInv` adds that the summary is posted before it is shown, that it is
posted only where the worker has ended or waits for a helper without a session,
that outside a helper at work, or one that was killed, no command runs, and
that the helper is waited for before the last post.

`AnswersAreCurrent` speaks of lines that are already on their way back, so it
says nothing of the request that caused them. `AnswerInv` in `Session_proofs`
follows a request: without Stop it is in the socket (`OnItsWay`), or the helper
serves it (`Served`), or its answer is in the socket or the client's buffer
(`Answered`); it is in one of the three at most, and always that of the step at
which the worker waits. Nobody sends a cancel (`NoCancel`), so the worker leaves
`execute()` only with that answer, or when the helper is gone and nothing is left
to read: then a later request finds an empty conversation. `Unconnected` says
that nothing is exchanged outside a connection.

`HonestUntilStopped` relates three places: what a command did to the system,
the answer on its way, and what the worker recorded. `PlanInv` says of each step
of the plan whether anything was, or still can be, done for it (`Tried`): nothing
before the loop is at it (`Untried`), and nothing after it is over but for the
request that Stop left in the socket (`Requests`). `Truthful` says of the answer
that it agrees with what became of the step, and where it is taken it is the
current one, as `AnswerInv` has it. `Steady` names what most actions have in
common, that no step of the plan begins or ends, so that they are dealt with
once. With Stop a step may be recorded wrongly, and `OnlyTheLast` says that it is
the one before `index` and that nothing begins after it, which is also why no
dependent step is begun over it.

`KeepsPromise` is proved over the posts. `WorkInv` says that each post is a step
of `InstallRun` over those before it (`AllLegal`), and relates the posts to the
worker's record of the steps: `Progress` for the step it is at, `Noted` for
`stepOk`, `Counted` for `errorCount`. `PageInv` says that the page shows what was
delivered of them. Then `Deliver` is a step of `InstallRun` since its post is
legal, `LaunchSucceeds` is the one that builds the plan, and every other action
leaves the page alone.

`NoErrorsMeansInstalled` needs that a step that is skipped for its dependency is
no silent omission: the step it depends on failed and counts, which is what the
assumption about dependencies is for. `Clean` is that argument, and `NoErrors`
says that a count of 0 is posted only at the end of the plan or after Stop.

`SummaryInv` follows the count. `Counted`: while no error is counted, every item the
worker has been through is installed or may fail without one. `EndedComplete`: a
session that ended without errors or Stop built its plan and went through all of it.
With `PlanAsShown` that plan is the one on the page, and `MessageHolds` says that the
message on the last page is that of the count there is: nothing runs while it is
shown.

`LastAnswerStands` says what holds when nothing is under way. `AnswerInv` says
what the badge is going to show: a job for the card is still queued, or the
thread has it and, once it has an answer, has the right one, or what is posted,
shown in order, ends in the right one. A change of the system takes the card
out of `asked`, and a request puts it back together with a job.

`SuccessIsComplete` needs the whole account of the bytes. `WholeInv` says that
while the caller reads, what it has kept is all that was written but for what is
still in the pipe, cut at the limit (`Amounts`), and that once it has stopped
reading without a kill or an error, nobody holds the pipe and everything was
kept (`ReadToTheEnd`): so nothing can be added after the last read.

`DirectoryRemoved` speaks of the latest child only, and so does `setUp`. With
`AloneInv` no older one is alive to disturb it, `CountInv` bounds the number of
children by two for each session begun, so that the next is always a new one, and
`DirectoryInv` says that pkexec has not made a directory yet.

`GateHolds` compares the estimate for the selection, which `rebuild()` makes, with
that for the plan, which is a part of the selection. So `SizeGrows` is needed: a sum
over a set is no smaller than one over a part of it. The sum is a recursive
function over the subsets of a set (`MapThenSumSet`), and what holds of it is an
induction. The library's induction theorems have an operator for a parameter and
cannot be cited; but that strict inclusion is well founded on the subsets of a
finite set (`FS_StrictSubsetOrderingWellFounded`), and that a set of such
subsets has a minimal element (`WFMin`), have none. `SubsetInduction` is made of
these two, and from it follow that the function exists (`SizesObey`) and is the
only one (`Unique`), that it does not matter which item comes first
(`SizeWithout`), and `SizeGrows`.

`CutDoesNotMatter` is what `Whole` says of each reader: what it handed on, followed
by the lines of what it keeps, is the lines of the whole stream. `LinesGrow` is
the fact behind it: the lines of `a \o b` are those of `a`, then those of what `a`
leaves behind with `b` appended. Lines are a recursive function of the length of
a text, so that is an induction over naturals, with `LineMoves` for the step: a
line that ends in `b` is the same line in both texts. `Induction` is made of
`SubsetInduction`, as in `Review_proofs`, by way of the greatest member of a finite
set of naturals (`Greatest`). For
`LimitIsForLongLines`, `Taken` says that a reader that looks for lines after every
read keeps no more than the unfinished line. What is over the limit with one read
more is then a line of the whole stream, or the beginning of one (`RestIsOfALine`).

`LogIsTheOutput` is about output without `"\r"`, on which the log's lines are the
lines of messages (`LogLinesPlain`), so that `LinesGrow` serves here too. `LogInv`
says that what was reported, put together, and what is kept are what was written,
and that without a line over the limit the report is exactly the lines so far.
Behind it are `FlatConcat`, for sequences that are put together, `WrittenLines`, that the
lines of a text and what follows them are all of its bytes but the breaks, and
`CutJoins`, that a line that is cut at the limit loses nothing.

The invariant of the retired program, `LegacyInv`, is that the install page was entered
over a live worker (`"mixed"`), or all the rest: once mixed it stays so (`MixedStays`),
and a step that does not make it so is one of a single worker (`ApartStep`). Entering
the page again with no worker alive begins anew, and what the last page said of
the entry before is no longer claimed.

`ShownIsTrue` is about a program that matches answers to requests by their order
and reads away what comes after the first. `OneRequest` is why that is no harm while the
window is open: no cancel is sent, and of what the worker waits for there is one
request or one answer, in the socket or with the helper (`Together` says which
page goes with which worker). `AnswerTells` says that this answer is what
happened. When the window closes, answers and requests no longer fit, but then
nothing is shown any more (`Working`); what remains is that the marks on the page and the
count stay true. `Over(n)` is what makes them final: nothing that is under way is
about step `n`, which is behind the loop, so that no command begins for
it (`OverKept`). A mark of success or failure, a posted one (`EventTrue`), and a
step that counts as there (`There`) each include it.

A plan is decided by a fixed table and a selection. TLC cannot go through all
selections, of 77 items, and the provers cannot compute the table. So the proofs
are cut between the two. `CatalogueFacts` says of the table alone what every plan
rests on: that no id is offered twice, that what a step needs is offered before it
for all that ask for the step, that the old table and the new one have the same
commands. These are named assumptions with no variable in them, nor anything
of a selection; TLC decides each in the run `apply`, the table being the
whole of the code's, not an instance of it. Of the constants only `ValidNames`
occurs in them, for one valid user, `User`, that stands for any. What they mean
for the plan of every selection is then proved.

`AddedIsChosen` is the fact behind it: a plan is the offers that something asks for,
in their order and each once (`Places`, which has the offer of each step as
`at`). `AddedFor` is a recursive function, so that is an induction over the length of
the list, made of `WFMin` as in `Review_proofs`. From there, two steps of a plan with
one id are two offers with one id; a step a plan depends on is offered earlier
for the same item and so is in the plan, and earlier there. For `SourcesBefore` a
step's source is asked for by the same item, by all, or by an item that it
requires, which is selected since no requirement is unmet.

`AsBefore` compares the choices from two tables. `TablesMatch` has a map of one onto
the other that keeps the order and the commands; `SameChosen` says that, but for
what needs Flathub, the same places are asked for on either side, and `OneWayThrough`
that two increasing ways through the same places are one, which is again an
induction.

For what a plan does to a system `ApplyInv` is inductive: what was decided before
the first step still holds (`Given`), results are of the steps in turn
(`Recorded`), each says whether the helper permitted the command and whether the step has a check (`Meant`),
what a step has left stays unless a later one takes it (`Stays`), what one has taken
stays away unless one brings it (`StaysAway`), and what is there was there or is
what a step brings (`Origin`). It does not use what the commands are. What they are
comes in after: most steps have one command for all users (`ForAnyUser`), and
`ReleasesAlike` says that one release stands for all of its set, so that the
facts about two systems are enough; the commands with a user's name or home in
them are looked at by themselves (`UserCommand`, `LocalCommand`).

`Allowed` is then `Meant` with `StepsAllowed`, for a user whom no rule accepts;
for the others, `ForItsUser` says that `TargetUser` is the expected one where the
user is ordinary. In `LeftOutIsThere` only ffmpeg-free and a unit are ever taken
(`LittleTaken`), no check asks for either, so that what was there when a step was
skipped still is. `InstalledItIs` has three parts. Most items have a step that
leaves behind what their check looks for, and nothing takes it, or that takes
away what it must not find (`MostAreSeen`). A pipx tool belongs to a user, and
only if that is pkexec's user has the step been permitted (`PipxIsSeen`). An
AppImage is executable after the last of its four steps, and no later step of
the plan publishes it anew (`AppImagesAreSeen`).

### Checked by TLC only

Liveness: `SessionEnds`, `HelperLeaves`, `StoppedCommandDies`,
`EveryStartIsAnswered`, `RootLeaves`, `Returns`, `NavigationUnlocks`,
`AnswersArrive`, `QuitEnds`, `EverythingEnds`. Fairness is out of the prover's
reach.

The facts about the tables, which are assumptions of the theorems in `Plan_proofs`.
Keys and ids are strings put together of others, which the provers take for
opaque, so that they cannot compute what a table holds. TLC can.

`OneMoreAfterClose` after an entry over a live worker: the theorem ends there, the run
does not.

Two properties that the code does not have: `MarksAreTrue` and
`UnlockedByUpdateOrSkip`. Every other safety property that a run finds to hold is
proved as it is checked.

## What is not modelled

- JSON, and the wording of messages, errors and the log: a message is a record.
- The character classes of the policy's rules. A rule is the set of those words
  that it matches which occur in any command of the program; that it matches
  nothing else is a statement about strings.
- What a nonce is: the helper's comparison succeeds for the client that was told
  it, and a stranger's line is another one.
- `/proc`, environment, file descriptors and file modes; `SIGPIPE` is ignored,
  as it is in a GTK process.
- The connection test of the welcome page and the help text.
- Settings, theme, theme watcher, cards, grids, desktop integration:
  presentation.
- Of `legacy/qt`: the selection pages, the installed checks, the disk estimate,
  the connection test. The rest is modelled for what it says of the new program.

## The plan

In this order; all are done.

- A. `InstallRun`, `Session`: the core, with `Typing`, `Quiet`, `Current`,
  `Honest`, `Dependents`, `Installed`, and `Refines` for the one over the other.
- B. `Wizard`, with `Apart`, `Shown`, `InSync`, `Summarised`.
- C. `Checker`, with `SpinnerEnds`, `LastAnswer`.
- D. `Plan`, `Selection`.
- E. `Framing`.
- F, G. `Launch`, with `OneAtATime` and `Removed`: the helper's start, accept and
  cleanup, and the client's attempts, are one module, since each waits for the
  other.
- H. `Process`, with `Tells` and `Whole`.
- I. `Review`.
- J. `Commands` and `Apply`; `LegacyPlan`, `Parity` and `LegacySession`.
- K. `Review_proofs`, with `Gate` and `Alarm`; `LegacySession_proofs`, with `OneMore`
  and `Shown`.
- L. `Framing_proofs`, with `Cuts`, `Limit` and `Logged`. With it every safety
  property of the state machines is proved but those about the catalogue.
- M. `Effects`, `CatalogueFacts` and `Plan_proofs`, with `Runnable`, `Complete`,
  `SourcesBefore`, `AsBefore`, `Allowed`, `LeftOutIsThere` and `InstalledItIs`: the
  catalogue's properties for all selections, users and systems.
- N. What the first models took for simpler than it is: failures that are no errors in
  `Wizard`, commands that never end in `Launch`, the retired install page entered
  again in `LegacySession`, with their proofs.
