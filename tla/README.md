# Mihenk: a formal model

Mihenk is a platform for programming courses and exams. A student writes a program in the browser,
the API (Express) stores it as a row of `submissions` and puts a job on a BullMQ queue in Redis,
one of several grading workers compiles it and runs it against the problem's test cases in a
sandbox, writes the verdict back to Postgres, and the student learns of it over a WebSocket or by
polling. Around that path are courses with owners, assistants and enrolments, exams with papers,
rosters, deals of random problems and extra time, drafts, account tokens, an integrity report and a
migration runner.

Paths below are relative to `src/`; `backend/src/x.js:10` is a line of the repository.

## 1. Inventory

| Component | State it keeps | Operations | Talks to | Hard behaviour | What makes it correct | Module |
|---|---|---|---|---|---|---|
| Submission and queue (`routes/submissions`, `queue/`) | `submissions` rows, BullMQ jobs and locks | submit, enqueue with a time limit, refuse | Postgres, Redis | time-out racing a late answer, crash between INSERT and enqueue | a refused submission is not graded, an accepted one settles | `GradingPipeline` |
| Grading worker (`worker.js`) | gradings in hand, handlers under way | mark, read, grade, save, report, fail, shut down | queue, Postgres, sandbox | kills between any two steps, redelivery, lost locks | a result is final, a failure is recorded, one grader at a time | `GradingPipeline` |
| Worker pool (`workerPool.js`) | map of child processes, quiet ticks | tick, spawn, stop one, exit handler, stop | BullMQ counts, OS processes | await between reading and acting, overlapping ticks | between min and max workers, back to min after deaths | `WorkerPool` |
| Code execution (`codeExecution`, `sandbox`, `verdict`) | work directory, child process, container, cached probe | resolve backend, compile, run, kill, classify | Docker daemon | four clocks and limits racing the program's end | the verdict the program deserves, nothing left behind | `Execution` |
| Exam session (`services/examSession`, `routes/exams`) | `exam_assignments`, `exam_problems`, `exam_roster` | view, submit, deal, edit paper, edit roster | Postgres | check-then-deal without a transaction, two tabs, edits under way | one stable deal per student, nothing dealt early | `ExamSession` |
| Solve page and drafts (`ProblemSolve.jsx`, `routes/drafts`, `useSubmissionSocket`, `ws/hub`) | editor, pending submission, poll timer, draft row | load, restore, autosave, run, submit, push, poll | API, WebSocket | calls served in another order, push before the id is known | every submission is answered with its own result, work is not lost | `SolvePage` |
| Exam results (`routes/exams`: results, overrides, accommodations) | overrides, extra time | window, late stamp, best attempt, penalty | Postgres | a reschedule between two queries, rounding in doubles, better late attempt | each submission is held to its own deadline, a grade does not move by itself | `ExamResults` |
| Marks page (`ExamAdmin.jsx`) | inputs of each cell and row, table of marks | open, type, save, revert, reload | API | reload overtaken by a reload, inputs older than the table | the last click decides, an untouched Save is harmless | `GradeDesk` |
| Course access (`services/courseAccess`, `routes/courses`, `problems`, `exams`) | staff, enrolments, archived flag, join code, papers, rosters | join, appoint, import, unenrol, archive, edit, submit | Postgres | check-then-act between queries of two requests | no way in but the guarded ones, staff are not students, archived means closed | `CourseAccess` |
| Course pages (`Courses.jsx`, `CourseEditor.jsx`, `CourseRoster.jsx`) | list, editor, roster, busy flags | load, edit, regenerate, import, appoint, dismiss, unenrol | API | a reload unmounts the editor, unguarded buttons, lost answers | a settled page shows what is stored, typed text is kept | `CoursePages` |
| Problem editor (`ProblemForm.jsx`, `TestCaseEditor.jsx`, `TeacherPanel.jsx`) | form, list of test cases | load, type, save, add and remove a case | API | fields saved late and together, cases at once, two tabs | typed text is kept, nothing is emptied unseen | `ProblemEditor` |
| Exam form (`ExamForm.jsx`) | course, paper, marks, sitters | choose, order, mark, select, save | API | rosters arriving out of order, choices hidden by another choice | the exam is the one that was shown | `ExamForm` |
| Accounts (`routes/auth`, `services/authToken`, `roles`) | users, one-use tokens | register, issue, redeem, reset, verify | Postgres, mail | two requests at once, failure after redeeming | a link works once and dies when replaced | `Accounts` |
| Browser session (`AuthContext`, `axios`, `ProtectedRoute`) | localStorage, user shown per tab | sign in, sign out, call, 401 | API, other tabs | storage shared, state not | a tab acts as the person it shows | `BrowserSession` |
| Migrations (`backend/scripts/migrate.js`) | `schema_migrations`, the schema | bootstrap, adopt, apply | Postgres | several runners, kills | each file once and in order, no data dropped | `Migrations` |
| Checkers and marking (`checker`, `verdict`, `codeExecution`) | the test cases read | compare, weigh, group, summarize | Postgres | the worker reads cases and problem in two queries | every case judged by its own checker, marks add up | `Judging` |
| Similarity (`services/similarity`) | none | winnow, compare, report | - | window boundaries, colliding hashes | a shared run of the guaranteed length is seen, a class alike is not accused | `Similarity` |
| Integrity archive (`routes/integrity`) | `archived_submissions` | archive a course, screen, list, delete | Postgres | row by row without a transaction | a cohort is whole, or is known to be broken | `Archive` |

Listed in `PROJECT.json` as not modelled: process wiring and validation, logging, metrics, mail and the
API description (pure output), analytics and the user directory (read-only queries), the read-only
pages of the frontend, operator scripts.

How the parts interact: a request inserts a row and hands `add()` to ioredis (call with a time
limit); Redis hands jobs with a lock to a slot of a worker (messages, at least once); workers and
request handlers share the rows of Postgres (each statement atomic, no transaction around a
grading); a job's completion reaches the API as a QueueEvents callback, which pushes to the sockets
of the user; the page polls the row meanwhile. The pool only reads the queue's counts and starts and
signals processes.

## 2. Modules

Conventions. One action is the code between two awaits, so a step of any other actor may come
between any two. A transaction (`BEGIN ... COMMIT`) is one action, at its commit. A fault is an
action guarded by `Strike(kind)`, which needs the kind to be among the constants `FaultKinds` and
fewer than `MaxFaults` faults so far. Variables that no code has (what was struck, seen or typed) are
history variables; no guard of a modelled action reads them, except the bounds. Where the check
needs a plausible bug of a definition, the changed form stands before it, commented `Mutant:`; no
next-state relation uses it.

### GradingPipeline, SubmissionLifecycle

State: one row (`status`, `result`), one request (`request`, `command`) and one job (`job`, `holder`,
`stalls`, `returnvalue`) per submission; per slot of a worker process what it has in hand (`on`,
`pc`, `out`); per process `proc`; the `failed` handlers under way (`pendingError`).

| Action | Code |
|---|---|
| `Insert`, `Accept`, `EnqueueTimeout`, `AddRejected`, `Refuse` | `routes/submissions.routes.js:105-145`, `queue/gradingQueue.js:16-29` |
| `AddApplied` | Redis running the `add`, also after the handler gave up on it |
| `Fetch`, `MarkRunning`, `ReadRow`, `Grade`, `Save`, `Complete` | `worker.js:54-165`, one action per await |
| `Throw`, `ReportFailure`, `FailedHandler` | a rejection before the last UPDATE, BullMQ's moveToFailed, `worker.js:171-179` |
| `LockLapses`, `StalledCheck` | BullMQ: lock expiry and stalled sweep (external; defaults, as the code sets none) |
| `Sigterm`, `Exit`, `Die`, `Restart` | `worker.js:190-214`, sudden death, the pool or service manager |
| `ApiDies`, `RowDeleted` | end of the API process, `ON DELETE CASCADE` |

`SubmissionLifecycle` is the abstract promise about one row: created, marked, settled once; the
`disturbed` parameter is instantiated with "a process was cut short, a lock lost or an enqueue timed
out", after which the promise is void. `FollowsLifecycle` is the refinement.

### WorkerPool

Workers are counted by what became of them: `fresh` and `signalled` (running, in the map), `leaving`
(running, taken out by `stopOne`), `dead` and `gone` (exited, event still to come). `TickBegins` and
`Tick`/`TickFails` are the two halves of `tick()` around `await backlog()`; `ticks` counts those in
between, since `setInterval` does not wait. The number a tick reads is any of `0 .. MaxBacklog`. `Stop`,
`ExitEvent`, `Dies`, `Leaves` are `stop()`, the exit handler and the processes.

### Execution

One grading: `Resolve`/`Refuse` (`resolveBackend` and the cached probe), `Prepare`, then for the
compile (run 0) and each test case `Spawn`, the race inside `spawnCollect`, and `Compiles`,
`CompileError` or `Judge`; `Cleanup` is the `finally`. What runs is abstracted to a behaviour (answers
right or wrong, crashes, exhausts memory, loops, floods, bursts, ignores SIGTERM). The docker client
and its container are two things: killing the one leaves the other, which is what the code's comment
is about. On the host the program holds the pipes that `close` waits for.

### ExamSession

One exam. A request walks `access`, `gate`, `size`, `pool`, `existing`, `dealing` (one INSERT per
step), `answer`; every query is a step, as none of these handlers runs in a transaction. `PutExam` and
`PutRoster` are the teacher's transactions, `Clock` the passage of time. `alone` and `current` remember
whether another request or an edit has met a request, for the properties.

### ExamResults

One student, one problem, one exam. A submission's request walks `ReadWindow` and `ReadDeadline` (the two
queries of `isWindowOpen`), `CountCases` and `Store`; `Load` and `Save` are what the worker reads and
writes; `PutExam`, `Accommodate`, `AddCase`, `DeleteCase`, `PutGrade` and `DeleteGrade` are the teacher. The
table of results is not state but the function `Final` of the rows, as in the code. `met` remembers the
requests an edit of the schedule fell into. The clock counts minutes; `Penalised` is
`Math.ceil` in doubles: exact, except that some products which should be whole come out just above
(the pairs in `DoublesAbove`; over every score to 3000 and every penalty it is never below, and one mark
when above).

### SolvePage

The page of one student. Texts are version numbers in the order in which they were typed (0 empty, 1
starter code). Calls are in flight in a sequence, in the order of sending; `Serve` lets the server
answer any of them, `Handle` the browser take any answer. `from` says whether the page that sent a
call is still there, was left through the router (its callbacks still run, without effect) or is gone.
The grading itself is one step (`Grade`) that pushes if the socket is connected and the grading did
not throw. `mishap` names the first event by which a draft can be lost: `lost` (an autosave or
the GET of the draft failed), `overtaken` (draft calls served in another order), `ahead` (the DELETE
of a submit met a newer draft), `unrestored` (typed before the draft was back).


### GradeDesk

`pages/ExamAdmin.jsx` in several visits, over the routes for results, overrides and extra time. A box is a grade
cell or a row of extra time; `Mounted` gives it the inputs of the first answer it is shown with, as
`useState` does, while `LoadArrives` replaces the table each time. `Clicked`, `ServeChange` and `ChangeEnds`
are the three parts of a save: sent, applied (or not, or applied and not heard of), answered. `last`,
`mover` and `slipped` are history.

### CourseAccess

Every route that writes what belongs to a course: the course itself, staff, enrolment by code and by
import, the join code, problems and test cases, exams with papers and rosters, and the checks of POST
/submissions. A request in a slot of `req` has done some of its queries: `...Asks` is the access check,
`...Checks` the query after it, `...Writes` the last. A transaction is one step. `via`, `opened` and `barred` are
history: how someone was enrolled, what they could open, who was put out before the code changed.

### Accounts, BrowserSession

`Accounts` is one account and its links: `Redeem`, `Issue...`, `Reset...` are the queries of two handlers, with
bcrypt's hashing in the gap before a password is stored. `BrowserSession` is `localStorage` shared by tabs
against each tab's own React state.

### Migrations

Each runner walks look, bootstrap, read, apply; each migration is a transaction with its row of
`schema_migrations`, whose primary key stops the second runner with the same file. A runner may be killed
between any two statements and started again.

### Judging

A text is a short sequence of characters; `check` is the six checkers, translated step by step, and the
property compares them with `RightAnswer`, which is written without those steps (the float checker, whose
rule is its own definition, with its own answer both ways round). Around it the worker
reads the test cases and then the problem, in two queries, while a teacher edits both. Numbers are
naturals without sign, point or exponent; the tolerance is any fraction, negative ones included.

### Similarity, Archive

`Similarity` screens sequences of tokens with an arbitrary hash: `winnow`, `compareFingerprints`, spans, the
report on a class with its median, the archive's one-sided score. `Archive` is the table of archived
submissions, with the insert loop of one request interleaved with submissions, other archivings,
deletions and crashes.

### ProblemEditor, ExamForm, CoursePages

Three pages of the teacher. In each, a request is sent, served and answered in separate steps, and
answers arrive in any order. `ExamForm` has the choices of the form and what it shows of them; `post` keeps
what was on screen when Save was clicked. `CoursePages` has the list of courses and the roster page:
`Hidden` and `Rendered` are `setLoading`, which unmounts an editor and mounts it anew, `PartsOf` the answers
one load waits for.

`ProblemEditor` has tabs on one problem. `owed` is, for each tab and field, the last text that was typed there. It
is kept after it has been stored, and ends only when it is given up: its form is cancelled, or it is typed over
in a form that had read it. `lost` says how it was lost, if it was, and names five ways:

- `left`: the panel unmounts the form without a question, on its other tab, on Edit of another problem or
  on "new problem" (`TeacherPanel.jsx:62`, `67`, `108`; action `LeaveForm`);
- `reload`: the problem is loaded again over it, after a test case changed or because the language did
  (`useT` gives a new `t`, on which the form's effect depends; action `SwitchLanguage`);
- `late`: it was typed while a save was under way that then closed the form;
- `earlier`: the save of an earlier form was answered, and `onSaved` closed this one;
- `stale`: another form, loaded before, was saved over it. PUT replaces the whole row, so a form reverts
  columns that its teacher never touched.

`TypedIsKept` says that there is no sixth: a refusal keeps the form as it is, an accepted save has stored what it
sent, and a save leaves alone what its form had read and its teacher did not change (the mutant `TypedFields`, a
partial body, breaks that). It does not say that teachers do not overwrite one another: they do. A form of another
problem, or of a new one, appears only as what unmounts this one. The draft of a new test case is lost with
the `TestCaseEditor` too (`loading`, `LeaveForm`) and is not followed. The server refuses before it changes
anything, and the problem itself is not deleted meanwhile.

### The modules that compose

`MCGrading`, `MCClassroom`, `MCOperations` and `MCTeaching` put components that share no state side by side: `part` is
chosen in the initial state, one component runs and the others stay as they start. That is a union of
instances and claims no interaction; it keeps one run for each group of related questions. Fairness is
stated for the one part of each that had it. `SolvePage` runs alone. Components that do interact are in one
module (student, API, worker, queue and sockets in `GradingPipeline`; page, API and hub in `SolvePage`;
courses, problems, exams and submissions in `CourseAccess`).


## 3. Runs

Deadlock is not checked in any run, because every one of these systems may rightly stop: a bounded
environment runs out of submissions, edits, faults or clicks.

| Run | Bounds | What it shows |
|---|---|---|
| `pipeline_faults` | 2 submissions, 2 processes with a slot each, 2 faults of any of the ten kinds | `TypeOK`; `DeliveryInv`: until its job stalls a submission has one delivery and only that delivery completes it; `SoleGrader`: one grader at a time until a lock is lost; `AnnouncedIsStored`: what was pushed is what the row holds; `FailureIsRecorded`; `ResultIsFinal`; refinement `FollowsLifecycle` |
| `pipeline_settles` | 1 submission, 2 processes with a slot each, 3 faults of any kind, fairness | `AcceptedSettles`: what was answered with 202 ends up settled, for good, unless the UPDATE that settles it is itself lost |
| `forced_restarts` | 1 submission, 1 slot, up to 6 stops and forced exits, fairness | violation: `RestartNeverStrands` (finding 1) |
| `pool` | pool: Min 2, Max 4, backlog to 9, 3 ticks in flight, 3 deaths, 2 leaving. Migrations: 3 runners, 3 files, 2 starts each. Accounts: 1 password, 2 handlers, 3 tokens. Browser: 2 people, 2 tabs, 4 calls. Archive: 2 owners, 1 course, 2 students, 2 codes, 2 requests at once, 4 in all | `OperationsTypeOK`, `WithinBounds`, `OnlyLateTicksFork`, `RecoversMin`, `MigrationsKeepData`, `LinksDieInTime`, `TabShowsItsUser`, `CohortsAreWhole` |
| `execution` | execution: 2 test cases, 4 compilers, 8 programs, 3 modes, 2 faults, fairness. Judging: texts of up to 3 characters out of 5, all checkers, 2 test cases, 2 edits. Screening: pairs of up to 5 tokens out of 2 under every hash to 0 and 1, classes of 3 | `GradingTypeOK`, `VerdictIsDeserved`, `NothingLeftBehind`, `GradingsEnd`, `JudgedAsWritten`, `ScreeningIsSound` |
| `stray_container` | 1 test case, Docker, no fault | violation: `GivenUpIsKilled` (finding 2) |
| `exam_session` | session: 1 student, 3 problems, 2 requests at once, 1 edit, 1 failed request. Exam form: 2 courses, 2 students, 4 problems, 5 touches. Problem editor: 2 tabs, 2 fields, 3 texts, 3 test cases, 4 clicks. Course pages: a list, a roster, 2 titles, 3 clicks that change something or failures | `TypeOK`, `NothingDealtEarly`, `DealsFollowEdits`, `ShownAndHandedIn`, `FormStands`, `TeachersEditsStand` |
| `two_tabs` | the session alone, no edit, no failure | violation: `FirstDealWins` (finding 3) |
| `exam_results` | results: 2 submissions, 2 schedules, 2 test cases weighing 3 and 7, 2 edits, 3 minutes. Course: an owner, an assistant, a student, 2 problems, 2 requests at once, 4 in all, 2 join codes. Marks page: 2 visits, a cell and a row of extra time, 3 clicks, texts, gradings and failures | `ClassroomTypeOK`, `HeldToDeadline`, `MarkIsFair`, `GradesDoNotMove`, `NoSecondWayIn`, `StaffAreNotStudents`, `ClosedTakesNothing`, `MarksStand` |
| `late_docks` | 2 submissions, 1 schedule, equal weights, no edit | violation: `LateNeverDocks` (finding 5) |
| `solve_page` | 4 acts (visits, edits, clicks, failures), 2 calls in flight, fairness | `TypeOK`, `ShownIsStored`, `WorkIsKept`, `SubmitIsAnswered` |
| `lost_draft` | the same, without fairness | violation: `WrittenSinceSubmitIsKept` (finding 4) |

Why the bounds are enough.

- Pipeline. The actions touch one submission each; two of them, and two slots, are what it takes for
  a slot to be busy elsewhere, for a job to be redelivered to another process, and for two slots to
  be on one job. Two faults give every pair of kinds in both orders, which covers the counterexamples
  met while modelling (lost lock and kill, time-out and lost update). The proofs take the safety
  properties beyond the bound.
- Settling. `AcceptedSettles` excludes what it names in `Unrecorded`: a swallowed error, a lost lock, a
  failure followed by the death of the process that was to record it, and more deaths than the stall
  limit and its failed job account for. Three faults reach every one of those exclusions, so the run
  covers what lies just short of each. Submissions do not wait for one another beyond the slot they
  share, which a second process stands for; no symmetry is used, as it is unsound for liveness.
- Pool. Min 2 and Max 4 leave room to grow and shrink by one and by two; 3 ticks are one more than
  the two that overlap; a backlog of 9 asks for more than Max.
- Execution. With two test cases the second meets what the first left behind; every behaviour occurs
  in both, and two faults strike in either.
- Exam session. Dealing concerns one student at a time (every query names one), and two overlapping
  requests with three problems of which two are dealt already give different choices.
- Exam results. The minutes before the start, in time, in the window and after it all occur under one
  of the two schedules, with and without extra time; two edits in either order put a schedule, an extra
  minute, a test case or an override anywhere between two queries; 10 marks less 70 % is a pair for
  which doubles round up.
- Solve page. Four acts reach visit, edit, submit, edit and visit, edit, leave, return; two calls in
  flight are overtaking. With five acts the state space passes the time limit.
- Course. Every hazard found is between two requests; the accounts are one of each kind (owner, another
  teacher, student), and four requests are enough to put a student in, take one out, replace the code and
  join again. The students are interchangeable, which the symmetry uses.
- Marks page. Two visits and three touches reach save and save again, save in one visit and revert in the
  other, and a reload that is overtaken. Each further touch multiplies the states by ten.
- Problem editor. Four clicks are open in both tabs, save in one and save in the other, the stale save;
  also open, add a case, reload; and open, save, leave, open, with the late answer closing the second form. Every
  value of `lost` is reached. Of three texts one is stored at first, so a tab types twice or two tabs once.
- Pages of the teacher. Three deeds and two titles reach type, save, fail, and two overlapping reloads; the
  same module was run alone with four deeds (1.1 million states), and with two lists.
- Migrations. Three runners are one more than it takes to bootstrap twice; three files have one in between.
- Accounts and browser. Two requests, three tokens: two that overlap and one after. Two people in two tabs
  are all the disagreement there can be.
- Judging. Three characters hold a word, a line ending and a space in every order, so lines and tokens
  differ in number, order and case; the tolerance of a half separates 1 from neither neighbour by rounding.
- Similarity. With K = W = 2 a guaranteed run is three tokens; five leave room on each side of it and for
  windows that overlap; a hash to two values collides as often as a hash can.

### Fairness, and why the code justifies it

- Pipeline: every `await` resolves (`pg` and Redis answer or reject), ioredis reconnects and sends what
  it has queued, a lock nobody renews expires after 30 s, every live worker sweeps for stalled jobs
  every 30 s, and a stopped process is started again (pool, Compose `restart`). Not assumed: that any
  fault happens, or that a request is made. A slot is fair only in steps that strike no fault.
- Pool: the exit event of a process that has exited is delivered. Nothing is assumed of ticks.
- Execution (within `MCGrading`): Node runs what is due, timers fire, the daemon acts on what it was asked.
- Solve page: the server answers some call, the browser handles some answer, the interval ticks, the
  pipeline settles what it accepted (which is `AcceptedSettles`). The socket is never assumed to
  deliver.
- Everything added beside them (courses, accounts, editors, migrations, archive, screening) has safety
  properties only, and no fairness.

## 4. Findings

1. `forced_restarts`. `backend/README.md:107` says that a restart never strands a submission in
   `running`. Each exit forced by the 30 s timer (`backend/src/worker.js:196`) is a stall to the queue,
   and a stopped process cannot run its `failed` handler: forced out at the wrong moments the row
   says `running` for ever, which the run shows. A graceful stop does keep the promise
   (`FailureIsRecorded`).
2. `stray_container`. `codeExecution.service.js:125-127` says the container must be killed by name or
   it runs on after it was given up on; the output limit kills only the client.
3. `two_tabs`. `examSession.service.js:48-50` says that of two deals the first wins; rows are inserted
   one by one, so the student ends up with the union of both choices.
4. `lost_draft`. `ProblemSolve.jsx:105-106` promises that a refresh loses nothing written since the last
   submit; the DELETE sent when the submission is accepted takes with it what was autosaved since.
5. `late_docks`. `exams.routes.js:437-439` says that a late resubmission does not retroactively dock an
   on-time answer. The attempt that counts is the one with the most test cases passed before the
   penalty: 4 of 5 on time and 5 of 5 late at 50 % give 3, where the on-time answer alone gives 4. The
   shortest trace shows the tie: an on-time request that is slower than a late one is second in
   `submitted_at`, so of two equal answers the late one counts.

Disagreements met but stated in prose only: a submission refused with 503 may be graded later, as the
`add` is not withdrawn (`submissions.routes.js:124` says nothing ever will); a daemon that goes away
after the first successful probe turns runs into runtime errors of the student's program, where
`backend/README.md:615` has submissions "error out"; removing someone from a roster keeps their extra
time (`exams.routes.js:395`); `stopOne` lets more processes run than `WORKER_POOL_MAX`; with unequal weights
the attempt with the most test cases passed may earn less than another, so a later answer can lower
the mark (`exams.routes.js:433`); a problem that loses its last test case while a submission waits is
graded `accepted` over no case.

Of courses and accounts: POST /join asks neither role nor staff, so a teacher, an assistant of the course
too, can enrol with the code; an assistant cannot open an exam (404 at GET /exams/:id) and sees none in the
list; `GET /courses` and `GET /courses/:id` give an assistant the join code, where a comment
(`courses.routes.js:82-83`) says only the owner sees it; whether the course is archived is not asked when
a problem, a paper, a roster, the staff or an enrolment is changed, only when one is added; DELETE of a
problem cascades, so its "in use" error never happens; `REQUIRE_EMAIL_VERIFICATION` (`env.js:110-116`) is
read by nothing, and `purgeExpired` is called by nothing; a reset whose UPDATE fails has used up its link;
screening against the archive does not leave out the same course or student; two courses with the same
title and term share a cohort.

Of the pages: a problem can be emptied from a single tab, as its buttons are enabled before the list is
loaded anew; a form whose problem failed to load saves empty columns; a form that was loaded before another
tab's save puts back every column that one had changed (`ProblemForm.jsx:111-113`); another language loads the
problem over what was typed, and the panel unmounts a form without asking; after "revert to auto" the cell
still holds the override, so that an untouched Save brings it back (`ExamAdmin.jsx:97-98`), and rows of extra
time never follow a reload; nothing stops an older answer from replacing a newer one, so a replaced join
code may stay on its card (`Courses.jsx:91-99`); any reload of the list unmounts an open editor with what
was typed in it, and an error of its save is then shown nowhere; the editor sends `archived` as it was when
it was mounted, so that an old one un-archives a course.

## 5. Proofs

A proof module has the modules it is about under it, and holds for all values of their constants that
satisfy the named assumption of each: any number of submissions, slots, processes, requests, students,
runners, tabs, visits, tokens and faults. The bounds on faults, ticks, clicks and edits are constants too, so
the proofs are for every bound. `MCGrading`, `MCClassroom`, `MCOperations` and `MCTeaching` put components side
by side, and their proof modules first prove each component by its own specification, then that each
behaviour of the whole is a behaviour of each part (`GradingParts`, `ClassroomParts`, `TeachingParts`...).

| Proof module | About | Assumptions on the constants |
|---|---|---|
| `GradingPipelineProofs` | `GradingPipeline`, `SubmissionLifecycle` | `PipelineAssumption` |
| `OperationsProofs` | `WorkerPool`, `Migrations`, `Accounts`, `BrowserSession`, `Archive` | `PoolAssumption`, `FilesAssumption`, `AccountsAssumption`, `BrowserAssumption`, `ArchiveAssumption` |
| `GradingProofs` | `Execution`, `Judging`, `Similarity` | `ExecutionAssumption`, `JudgingAssumption`, `SizesAssumption` |
| `SolvePageProofs` | `SolvePage` | `PageAssumption` (the marks Waiting and Failed are no row's state) |
| `ExamResultsProofs` | `ExamResults` | `ResultsAssumption` |
| `ClassroomProofs` | `ExamResults`, `CourseAccess`, `GradeDesk` | also `RolesAssumption` (an account has one role), `BoundsAssumption`, `DeskAssumption` |
| `TeachingProofs` | `ExamSession`, `ExamForm`, `ProblemEditor`, `CoursePages` | `SessionAssumption`, `FormAssumption`, `EditorAssumption`, `TitlesAssumption` |
| `FiniteInduction` | lemmas on sums over finite sets and folds over sequences | none |

| Theorem | Says | Argument |
|---|---|---|
| `Typing` | `Spec => []TypeOK` | `TypeInv` adds `SlotInv` (a slot is idle exactly if it has nothing in hand), without which a step could write under the name `NoSub` |
| `Delivery` | `Spec => []DeliveryInv` | inductive given `TypeInv`; `FirstDelivery` ties the row, the job and the one slot together until the first stall |
| `ResultFinality` | `Spec => ResultIsFinal` | of the six steps that write a status, `Insert` finds a request still idle and so no job, `MarkRunning` and `Save` are by the one slot, which has not saved before, and `FailedHandler` meets a row not completed; `RowDeleted` and `Refuse` are the exceptions stated |
| `OneGrader` | `Spec => []SoleGrader` | `HoldsLock`: a slot with a submission in hand holds its lock, preserved because a job that can be fetched is not active and so, by `LockInv`, unlocked |
| `Announcements` | `Spec => []AnnouncedIsStored` | `AnnouncedInv`: from its save to its report a slot finds its own grading in the row; needs `HoldsLock`, `FailedStays` and, for the catch branch, `CatchInv` |
| `FailuresAreRecorded` | `Spec => []FailureIsRecorded` | a slot with a submission is in a process that is not down (`Manned`), so the handler a failure leaves behind is alive, and `Exit` waits for it; nobody else writes the row of a failed job |
| `ImplementsLifecycle` | `Spec => FollowsLifecycle` | the refinement: undisturbed, an active job is always in a slot's hand and so never stalls (`Forward`), and how far the row is follows from where the slot is (`InStep`); each step is one of `SubmissionLifecycle` or a stutter |
| `PoolWithinBounds` | `Spec => []WithinBounds` | inductive with naturals for counts; overlapping ticks read the size when they act, in one turn |
| `LateForks` | `Spec => OnlyLateTicksFork` | of the steps only a tick past its await and the exit handler fork, and the latter looks at `stopping` in the same turn |
| `DataIsKept` | `MigrationSpec => []MigrationsKeepData` | the schema is at a level, and what a runner has in hand starts at most one above it |
| `LinksDie` | `AccountSpec => []LinksDieInTime` | a reset about to store holds a redeemed link nobody else holds; an INSERT is above all links held |
| `TabsAgree` | `BrowserSpec => []TabShowsItsUser` | who writes the storage shows what it wrote |
| `CohortsStayWhole` | `ArchiveSpec => []CohortsAreWhole` | a request that is archiving has a name of its own (`NamesAreOwn`), has inserted what it counts and has no student left twice (`RequestsCount`), unless a deletion cut through its cohort; so the number it tells at its end is that of its rows (`RowsAreTold`) |
| `OperationsTyping` | `OperationsSpec => []OperationsTypeOK` | the types of the five parts |
| `ExecutionTyping`, `VerdictsAreDeserved` | `Spec => []TypeOK`, `Spec => []VerdictIsDeserved` | an invariant says of each place in the run what is known of the program, the clocks and the faults that struck, and of each verdict stored that it is accounted for |
| `NothingIsLeftUnknown` | `Spec => []NothingLeftBehind` | the work directory is there exactly between `Prepare` and `Cleanup`; a container that outlives its client was told to stop or flooded |
| `JudgingTyping` | `JudgingSpec => []JudgingTypeOK` | what the worker has read are test cases there were |
| `JudgedRightly` | `JudgingSpec => []JudgedAsWritten` | `Judged`: the report is what `runTestCases` makes of the test cases read, and these are none only if they were all gone once. The rest is about that report: what `split`, `withoutTail` and `normalize` leave of any text is exactly what `LooksLike` looks at, lowering commutes with all three, the counts of `sameMultiset` match two sequences one by one, the float checker is symmetric, and the folds of `weigh` are sums whose sections are a partition |
| `CopiesAreSeen` | `ScreenSpec => []ScreeningIsSound` | a rightmost minimum exists in every window and lies in the shared run; equal windows have their minimum at the same distance, so the run leaves an equal fingerprint on both sides; a median has half of the pairs at or below it (by counting, `FiniteInduction`) |
| `GradingTyping` | `GradingSpec => []GradingTypeOK` | the types of the three parts |
| `SolveTyping`, `TheAnswerIsTheLastOnes` | `Spec => []TypeOK`, `Spec => []ShownIsStored` | each call in flight names a click and a row that exist; what is shown came from a row that is settled, and rows settle once |
| `WorkIsNotLost` | `Spec => []WorkIsKept` | while no mishap has struck, the newest version is in the editor, or the draft calls in flight are in order and the last of them carries it, or it has been submitted |
| `DeadlineHonoured` | `Spec => []HeldToDeadline` | `JudgedInv` says of each place in the handler what is known of the minute a request came in, `StampInv` that the row repeats it |
| `ResultsTyping` | `Spec => []ResultsTypeOK` | sums of weights over finite sets are naturals (`FiniteInduction`) |
| `MarksAreFair` | `Spec => []MarkIsFair` | `RowsAreSound`: in every attempt earned is at most total and passed at most count, as a sum over some of the cases is at most the sum over all; the rounding of `Penalised`, its exceptions included, by arithmetic |
| `GradesStay` | `Spec => GradesDoNotMove` | a row that is stored, read by the worker or not changed leaves the best attempt what it was and the best scores what they were (`SameScores`): an attempt that is not graded scores nothing and does not overtake |
| `RolesApart` | `CourseSpec => []StaffAreNotStudents` | `PeopleInv`: only the code ever enrols a teacher; `Carries` keeps what a request was checked for until it writes |
| `OnlyWaysIn` | `CourseSpec => []NoSecondWayIn` | `EntryInv` says of each request under way what it was let through with; `VettedStays`: what was vetted stays so while histories grow and bars are lifted, and replacing the code bars nobody who is about to come in |
| `ClosedIsClosed` | `CourseSpec => ClosedTakesNothing` | `OpenInv`: a request that is past the question has seen the course open, and every request sees it opened again |
| `CourseTyping` | `CourseSpec => []CourseTypeOK` | each request carries what its place in the handler needs |
| `MarksAlwaysStand`, `DeskTyping` | `DeskSpec => []MarksStand`, `DeskSpec => []DeskTypeOK` | a box with a click under way is busy and has exactly one message; the click decides when it is served; a table is as old as the answer it came from, and a change that a visit was told of is followed by a load that reads it; inputs of an open cell are those of a row that was stored |
| `ClassroomTyping` | `ClassroomSpec => []ClassroomTypeOK` | the types of the three parts |
| `SessionTyping` | `Spec => []TypeOK` | `problems_per_student` narrows the paper or is 0 |
| `DealtOnceOpen` | `Spec => []NothingDealtEarly` | a request past the gate has found the exam open |
| `EditsGovernDeals` | `Spec => []DealsFollowEdits` | `CurrentInv`: what a request no edit has met is about to store lies in the paper |
| `OnePaperEach` | `Spec => []ShownAndHandedIn` | `SeenInv`: once a calm view was shown a deal nobody is dealing to its student any more; `Informed` says of each place in the handler what a request no edit has met knows, `AloneInv` that a calm view meets no other request of its student |
| `FormIsHonest`, `FormsStand` | `FormSpec => [](FormTypeOK /\ ExamIsAsShown)`, `TeachingSpec => []FormStands` | the form stays of its shape and what was posted is what was shown (`SentAsShown`); that the even split adds up to 100 by induction on the length of the paper |
| `EditorKeepsEdits` | `EditorSpec => [](EditorTypeOK /\ EditsAreKept)` | a message is of a tab's present form or of a form that is gone (`Mine`); what a tab owes is in its fields, in the row, or lost in a named way (`TypedInv`); a save under way carries what its form sent last, and a text that an answered one carried is stored or lost in a named way (`SentInv`); what a save carries unlike the problem its form had read was typed (`Carries`), so that one which replaces a stored text has read it and typed over it, or has not read it and is stale; a test case and the text of every column remain unless a tab acted blind (`CasesInv`) or saved a form it had not read (`RowsInv`) |
| `CoursePagesStand` | `CoursePagesSpec => [](CoursePagesTypeOK /\ CoursesStand)` | `BehindInv`: what is shown or under way is the course at an age, and equal ages are equal contents; `ToldInv`: a change the page was told of is in an answer to come, in a load under way that has not read that part or read it as it is, or shown; `CoursesOpen` for the editor |
| `EditsStand` | `TeachingSpec => []TeachersEditsStand` | the two above, side by side |

Induction over data. The library's induction theorems take an operator as a parameter, which the
installed provers cannot instantiate, so `FiniteInduction` proves by itself, from the least natural
number without a property, what the models' sums need: the recursive function behind `MapThenFoldSet`
exists and is the only one, a sum over a set with one more member is the sum plus that member's, sums of
naturals are naturals and grow with the set, and a finite set of naturals has a greatest. For the marks
and the checkers it adds that a sum may be taken section by section and under other names, and that
`FoldLeft` of any sequence runs through its steps: each use of a fold (`split`, `words`, `tokens`, `Number`,
`Total`) gets one lemma in `GradingProofs` that turns it into such a run. To stay within those facts,
`Judging` filters words with a fold and not with `SelectSeq`, which is recursive in the standard module.
`SizesAssumption` and the others are what the code's own constants satisfy (a gram has a token, a paper
has a problem); none is needed to rule a hazard out.

Two statements are weaker than they were first written, in order to be true for every value of the
constants. A tolerance may be below zero (neither the form nor the route refuses one), and no number is then
close to itself: `JudgedAsWritten` counts "float" among the checkers that accept whatever looks right
(`Accommodating`) only from a tolerance of zero on. And a shared run is scored above zero
only if one of the two documents has at most 2000 fingerprints. The route rounds to a tenth of a percent
(`integrity.routes.js`), so one fingerprint in common of more than 2000 is shown as 0.0, which no small
instance reaches.

Only model-checked:

- liveness (`AcceptedSettles`, `RecoversMin`, `GradingsEnd`, `SubmitIsAnswered`): liveness under fairness is
  beyond the installed provers, and so is ENABLED, which fairness is made of.

Every other property of a passing run, each invariant and each statement of what a step may never do, is
a theorem.

No module declares a RECURSIVE operator.

## 6. What is not modelled

- Payloads: code and messages; outputs beyond three characters; results beyond what `Judging` says of them.
- The interaction of components that are only put side by side (section 2): one exam's deals and its
  results, a course's pages and the same course's requests by others, the editor and the judging.
- Infinite numbers in `numbersClose` (`checker.service.js:115`): the tokens of `Judging` are naturals or no numbers.
  That a token which is no number is close to none is in the model's `checkFloat`.
- Of the solve page: a submission deleted while it is polled for, whose 404s the poll would meet for ever. No
  route deletes a submission, but deleting its problem does.
- Of the problem form: creating a problem, a problem deleted while it is edited, and text in the draft of a
  test case.
- V8's regular expressions, hashes, tokens and JWTs: values, or arbitrary functions.
- Read-only routes and pages, analytics, the user directory, logging, metrics, mail, the generated API
  description, request validation (the modules enumerate what it lets through), operator scripts.
- Real time. Clocks are nondeterministic choices, constrained where one provably precedes another.
- Two pages of one student at once (the hub sends to all sockets; a page ignores results of
  submissions it is not waiting for), and the composition of the page with the full pipeline: the
  page uses the pipeline's guarantee, as one step.
- Postgres isolation beyond atomic statements and transactions taken at their commit: the only
  transactions are the teacher's, and no modelled handler reads between their statements.
- BullMQ is external: modelled from the guarantees the code uses (one add, a lock per delivery, the
  stall count, `attempts` 1), not from its scripts.

## 7. What is left

- Integrity events and their summary; tokenizing; a student's pages of courses and exams; the sizes and
  times of the exam form.
- The composition of the solve page with the pipeline, of the problem editor with gradings, and of
  the session's deals with the results; each takes the other's guarantee as a step.
