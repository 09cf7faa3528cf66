----------------------------- MODULE TestRunner -----------------------------
(***************************************************************************)
(* test.py: the main thread builds the tree, asks test-runner for its      *)
(* suites, queues one job per suite and example, and collects the results  *)
(* that one worker thread per processor sends back; an interrupt asks the  *)
(* workers to return the remaining jobs unrun.  A test stands for its Job: *)
(* its names, directories and commands are left out.                       *)
(***************************************************************************)
EXTENDS Integers, Sequences, FiniteSets, SequencesExt

CONSTANTS Suites, Examples, PyExamples,  \* what there is to run
          GrindSkips,   \* the ones that are to be skipped under valgrind
          Workers,      \* one per processor
          None          \* an option that is not given

Tests == Suites \cup Examples \cup PyExamples

ASSUME TestsAssumption ==
    /\ Suites \cap Examples = {} /\ Suites \cap PyExamples = {} /\ Examples \cap PyExamples = {}
    /\ GrindSkips \subseteq Suites \cup Examples
    /\ None \notin Tests
ASSUME FiniteAssumption == IsFiniteSet(Tests) /\ IsFiniteSet(Workers) /\ Workers # {}

VARIABLES options,      \* the command line, and whether the bindings were configured
          main,         \* what run_tests is doing
          todo,         \* tests selected and still to be queued
          input_queue, output_queue,
          worker,       \* what each worker thread is doing, and its job
          sigint,       \* an interrupt: none, pending, or handled
          jobs,         \* jobs queued, equal to total_tests
          got,          \* results collected: the i of the loop
          tally,        \* passed_tests, skipped_tests, ...
          xml,          \* the entries of results.xml
          exit,         \* the process's exit status
          outcome       \* history: what running each test gave

vars == <<options, main, todo, input_queue, output_queue, worker, sigint, jobs, got, tally,
          xml, exit, outcome>>

BREAK == "break"
Statuses == {"PASS", "FAIL", "VALGR", "CRASH", "SKIP"}
Options == [list: BOOLEAN, valgrind: BOOLEAN, bindings: BOOLEAN,
            suite: Suites \cup {None}, example: Examples \cup {None},
            pyexample: PyExamples \cup {None},
            constrain: {"", "core", "example", "pyexample"}]

(* A finished program: its return code (3 stands for every code other than *)
(* 0, 1 and 2), the state it left its results file in, and whether valgrind *)
(* printed a leak summary.                                                  *)
Files == {"none", "empty", "PASS", "FAIL", "corrupt"}
Outcomes == [rc: 0 .. 3, file: Files, leak: BOOLEAN]
NotRun == [rc |-> -1, file |-> "none", leak |-> FALSE]
Job(t) == [test |-> t, broken |-> FALSE, rc |-> 0, file |-> "none"]
NoJob == Job(None)
Jobs == [test: Tests, broken: BOOLEAN, rc: -1 .. 3, file: Files]

thread_exit == sigint = "handled"

Unselected == options.suite = None /\ options.example = None /\ options.pyexample = None

(* --constrain, and the bindings, are not looked at once a test is named *)
Init == /\ options \in Options
        /\ ~Unselected => options.constrain = "" /\ options.bindings
        /\ options.list => Unselected /\ options.constrain = ""
        /\ main = "build"
        /\ todo = {}
        /\ input_queue = << >>
        /\ output_queue = << >>
        /\ worker = [w \in Workers |-> [pc |-> "off", job |-> NoJob]]
        /\ sigint = "none"
        /\ jobs = 0
        /\ got = 0
        /\ tally = [s \in Statuses |-> 0]
        /\ xml = << >>
        /\ exit = None
        /\ outcome = [t \in Tests |-> NotRun]

Queues == <<input_queue, output_queue>>
Results == <<got, tally, xml>>

-----------------------------------------------------------------------------
(* The main thread, up to the collection of results *)

(* ./waf, or --nowaf: when it fails nothing is run and its code is returned *)
Build ==
    /\ main = "build"
    /\ \/ main' = "list" /\ UNCHANGED exit
       \/ main' = "done" /\ exit' = 1
    /\ UNCHANGED <<options, todo, Queues, worker, sigint, jobs, Results, outcome>>

(* --list and --kinds print what test-runner says and return *)
PrintOnly ==
    /\ main = "list" /\ options.list
    /\ main' = "done" /\ exit' = 0
    /\ UNCHANGED <<options, todo, Queues, worker, sigint, jobs, Results, outcome>>

(* the suites test-runner lists: it knows no kind pyexample, and filters none of them *)
Listed(kind) == IF kind = "example" THEN {} ELSE Suites

(* --suite, or the listing; the code of the process that lists is not *)
(* looked at, so one that dies leaves a part of the list              *)
SuiteLists ==
    IF options.suite # None THEN {{options.suite}}
    ELSE IF options.example = None /\ options.pyexample = None
         THEN SUBSET Listed(options.constrain)
         ELSE {{}}

ExampleList ==
    IF Unselected
    THEN IF options.constrain \in {"", "example"} THEN Examples ELSE {}
    ELSE {options.example} \ {None}

PyExampleList ==
    IF Unselected
    THEN IF options.constrain \in {"", "pyexample"} THEN PyExamples ELSE {}
    ELSE {options.pyexample} \ {None}

(* make the lists and start the threads *)
Prepare ==
    /\ main = "list" /\ ~options.list
    /\ main' = "dispatch"
    /\ \E suites \in SuiteLists : todo' = suites \cup ExampleList \cup PyExampleList
    /\ worker' = [w \in Workers |-> [pc |-> "get", job |-> NoJob]]
    /\ UNCHANGED <<options, Queues, sigint, jobs, Results, exit, outcome>>

Kind(t) == IF t \in Suites THEN 1 ELSE IF t \in Examples THEN 2 ELSE 3

(* set_is_skip: examples named on the command line are run regardless *)
IsSkip(t) ==
    \/ t \in Suites /\ options.valgrind /\ t \in GrindSkips
    \/ t \in Examples /\ Unselected /\ options.valgrind /\ t \in GrindSkips
    \/ t \in PyExamples /\ Unselected /\ (options.valgrind \/ ~options.bindings)

(* the suites, then the examples, then the Python examples, in no known order *)
Dispatch ==
    /\ main = "dispatch"
    /\ \E t \in todo :
         /\ \A u \in todo : Kind(t) <= Kind(u)
         /\ input_queue' = Append(input_queue, Job(t))
         /\ todo' = todo \ {t}
    /\ jobs' = jobs + 1
    /\ UNCHANGED <<options, main, output_queue, worker, sigint, Results, exit, outcome>>

BreakJob == [test |-> None, broken |-> TRUE, rc |-> 0, file |-> "none"]
Breaks(n) == [i \in 1 .. n |-> BreakJob]
OneBreakTooFew == Breaks(Cardinality(Workers) - 1)
BreakJobs == Breaks(Cardinality(Workers))

(* one break job per worker, behind all of the tests *)
QueueBreaks ==
    /\ main = "dispatch" /\ todo = {}
    /\ main' = "collect"
    /\ input_queue' = input_queue \o BreakJobs
    /\ UNCHANGED <<options, todo, output_queue, worker, sigint, jobs, Results, exit, outcome>>

-----------------------------------------------------------------------------
(* worker_thread.run *)

Idle == [pc |-> "get", job |-> NoJob]

Get(w) ==
    /\ worker[w].pc = "get" /\ input_queue # << >>
    /\ input_queue' = Tail(input_queue)
    /\ worker' = [worker EXCEPT ![w] =
                    IF Head(input_queue).broken THEN [pc |-> "exited", job |-> NoJob]
                    ELSE [pc |-> "check", job |-> Head(input_queue)]]
    /\ UNCHANGED <<options, main, todo, output_queue, sigint, jobs, Results, exit, outcome>>

(* after an interrupt the job goes back unrun *)
DropWhenInterrupted(w) ==
    /\ worker[w].pc = "check" /\ thread_exit
    /\ worker' = [worker EXCEPT ![w] = Idle]
    /\ UNCHANGED <<options, main, todo, Queues, sigint, jobs, Results, exit, outcome>>
Interrupted(w) ==
    /\ worker[w].pc = "check" /\ thread_exit
    /\ output_queue' = Append(output_queue, [worker[w].job EXCEPT !.broken = TRUE])
    /\ worker' = [worker EXCEPT ![w] = Idle]
    /\ UNCHANGED <<options, main, todo, input_queue, sigint, jobs, Results, exit, outcome>>

Skip(w) ==
    /\ worker[w].pc = "check" /\ ~thread_exit /\ IsSkip(worker[w].job.test)
    /\ output_queue' = Append(output_queue, worker[w].job)
    /\ worker' = [worker EXCEPT ![w] = Idle]
    /\ UNCHANGED <<options, main, todo, input_queue, sigint, jobs, Results, exit, outcome>>

Launch(w) ==
    /\ worker[w].pc = "check" /\ ~thread_exit /\ ~IsSkip(worker[w].job.test)
    /\ worker' = [worker EXCEPT ![w].pc = "run"]
    /\ UNCHANGED <<options, main, todo, Queues, sigint, jobs, Results, exit, outcome>>

(* What the child process may return.  A suite that test-runner does not    *)
(* know fails with an empty file; the file may be missing whatever the code *)
(* (a full disk, valgrind giving up before it runs the suite).              *)
Programs(t) ==
    {o \in Outcomes :
        /\ o.leak => options.valgrind /\ o.rc \in {0, 2}
        /\ IF t \notin Suites THEN o.file = "none"
           ELSE CASE o.rc = 0 -> o.file \in {"PASS", "none"}
                  [] o.rc = 1 -> o.file \in {"FAIL", "empty", "none"}
                  [] o.rc = 2 -> options.valgrind /\ o.file \in {"PASS", "FAIL", "none"}
                  [] OTHER    -> o.file = "corrupt"}

(* run_job_synchronously: a leak that valgrind reports turns success into 2 *)
LeakIgnored(valgrind, rc, leak) == rc
Retval(valgrind, rc, leak) == IF valgrind /\ rc = 0 /\ leak THEN 2 ELSE rc

Run(w) ==
    /\ worker[w].pc = "run"
    /\ \E o \in Programs(worker[w].job.test) :
         /\ output_queue' = Append(output_queue,
                               [worker[w].job EXCEPT !.rc = Retval(options.valgrind, o.rc, o.leak),
                                                     !.file = o.file])
         /\ outcome' = [outcome EXCEPT ![worker[w].job.test] = o]
    /\ worker' = [worker EXCEPT ![w] = Idle]
    /\ UNCHANGED <<options, main, todo, input_queue, sigint, jobs, Results, exit>>

(* Popen raises (no more processes): the thread ends and its job with it *)
Die(w) ==
    /\ worker[w].pc = "run"
    /\ worker' = [worker EXCEPT ![w] = [pc |-> "dead", job |-> NoJob]]
    /\ UNCHANGED <<options, main, todo, Queues, sigint, jobs, Results, exit, outcome>>

-----------------------------------------------------------------------------
(* Interrupts, and the collection of results *)

(* in Python 2 a thread that waits for a lock runs no signal handler *)
Blocked == \/ main = "collect" /\ got < jobs /\ output_queue = << >>
           \/ main = "collect" /\ got = jobs /\ \E w \in Workers : worker[w].pc \notin {"exited", "dead"}
           \/ main \in {"done", "raised"}

SigInt ==
    /\ sigint = "none" /\ main \notin {"done", "raised"}
    /\ sigint' = "pending"
    /\ UNCHANGED <<options, main, todo, Queues, worker, jobs, Results, exit, outcome>>

sigint_hook ==
    /\ sigint = "pending" /\ ~Blocked
    /\ sigint' = "handled"
    /\ UNCHANGED <<options, main, todo, Queues, worker, jobs, Results, exit, outcome>>

StatusOf(job) ==
    IF IsSkip(job.test) THEN "SKIP"
    ELSE CASE job.rc = 0 -> "PASS" [] job.rc = 1 -> "FAIL" [] job.rc = 2 -> "VALGR"
           [] OTHER -> "CRASH"

ReadsFile(job) == job.test \in Suites /\ ~IsSkip(job.test) /\ job.rc \in 0 .. 2

(* A suite's own file holds its entry; main writes those of examples, of    *)
(* skipped suites and of crashed ones.  The VALGR entry of a suite is in    *)
(* the branch of the codes other than 0, 1 and 2, which 2 does not reach.   *)
CrashUnreported(job) ==
    IF ~ReadsFile(job) /\ job.rc = 3 THEN << >>
    ELSE IF job.file = "empty" THEN << >>
    ELSE << [test |-> job.test, result |-> IF ReadsFile(job) THEN job.file ELSE StatusOf(job)] >>
EntriesOf(job) ==
    IF ~ReadsFile(job) THEN << [test |-> job.test, result |-> StatusOf(job)] >>
    ELSE IF job.file = "empty" THEN << >>
    ELSE << [test |-> job.test, result |-> job.file] >>

(* a job that came back unrun counts for nothing *)
CollectBroken ==
    /\ main = "collect" /\ got < jobs /\ output_queue # << >>
    /\ Head(output_queue).broken
    /\ output_queue' = Tail(output_queue)
    /\ got' = got + 1
    /\ UNCHANGED <<options, main, todo, input_queue, worker, sigint, jobs, tally, xml, exit, outcome>>

(* opening a results file that is not there raises; the tally is already made *)
CollectResult ==
    /\ main = "collect" /\ got < jobs /\ output_queue # << >>
    /\ LET job == Head(output_queue) IN
       /\ ~job.broken
       /\ tally' = [tally EXCEPT ![StatusOf(job)] = @ + 1]
       /\ IF ReadsFile(job) /\ job.file = "none"
          THEN main' = "raised" /\ exit' = 1 /\ UNCHANGED xml
          ELSE xml' = xml \o EntriesOf(job) /\ UNCHANGED <<main, exit>>
    /\ output_queue' = Tail(output_queue)
    /\ got' = got + 1
    /\ UNCHANGED <<options, todo, input_queue, worker, sigint, jobs, outcome>>

Verdict == IF tally["PASS"] + tally["SKIP"] = jobs THEN 0 ELSE 1

(* join the threads, close the document, delete the temporary files *)
Finish ==
    /\ main = "collect" /\ got = jobs
    /\ \A w \in Workers : worker[w].pc \in {"exited", "dead"}
    /\ main' = "done"
    /\ exit' = Verdict
    /\ UNCHANGED <<options, todo, Queues, worker, sigint, jobs, Results, outcome>>

-----------------------------------------------------------------------------
MainThread == Build \/ PrintOnly \/ Prepare \/ Dispatch \/ QueueBreaks
              \/ CollectBroken \/ CollectResult \/ Finish
Worker(w) == Get(w) \/ Interrupted(w) \/ Skip(w) \/ Launch(w) \/ Run(w)

Next == MainThread \/ SigInt \/ sigint_hook \/ \E w \in Workers : Worker(w) \/ Die(w)

Spec == Init /\ [][Next]_vars

(* the threads are scheduled, and the programs they run come to an end *)
FairSpec == Spec /\ WF_vars(MainThread) /\ \A w \in Workers : WF_vars(Worker(w))

-----------------------------------------------------------------------------
(* The types; a job in the output queue or with a worker is that of a test. *)
TypeOK ==
    /\ options \in Options
    /\ main \in {"build", "list", "dispatch", "collect", "done", "raised"}
    /\ todo \subseteq Tests
    /\ input_queue \in Seq(Jobs \cup {BreakJob})
    /\ output_queue \in Seq(Jobs)
    /\ worker \in [Workers -> [pc: {"off", "get", "check", "run", "exited", "dead"},
                               job: Jobs \cup {NoJob}]]
    /\ sigint \in {"none", "pending", "handled"}
    /\ jobs \in 0 .. Cardinality(Tests) /\ got \in 0 .. jobs
    /\ tally \in [Statuses -> 0 .. jobs]
    /\ xml \in Seq([test: Tests, result: Statuses])
    /\ exit \in {None, 0, 1}
    /\ outcome \in [Tests -> Outcomes \cup {NotRun}]

(* A queued job is in exactly one place until main has counted it: in a     *)
(* queue, with a worker, or lost with the worker that died running it;      *)
(* otherwise output_queue.get would wait for a job that nobody will send,   *)
(* or return with results still to come.  The types hold as well.           *)
NoneLost ==
    /\ TypeOK
    /\ jobs = Cardinality({i \in DOMAIN input_queue : ~input_queue[i].broken})
              + Cardinality({w \in Workers : worker[w].pc \in {"check", "run", "dead"}})
              + Len(output_queue) + got

Clean(t) == outcome[t].rc = 0 /\ ~outcome[t].leak
Named == ({options.suite} \ {None}) \cup ExampleList \cup PyExampleList

(* The exit status 0 means that whatever was named or listed was run and    *)
(* succeeded without a leak, or is one of the tests the configuration       *)
(* skips, whenever the run was interrupted and whichever workers died.      *)
VerdictHonest ==
    main = "done" /\ exit = 0 /\ ~options.list =>
        /\ \A t \in Tests : t \in Named \/ outcome[t] # NotRun => Clean(t) \/ IsSkip(t)
        /\ jobs = Cardinality({t \in Tests : Clean(t)}) + tally["SKIP"]

(* The report has one entry for every job that was run or skipped, but for  *)
(* an unknown suite, and jobs go missing from it only after an interrupt;   *)
(* a run that succeeds reports nothing but passes and skips.                *)
ReportComplete ==
    /\ \A i, j \in DOMAIN xml : xml[i].test = xml[j].test => i = j
    /\ main = "done" /\ ~thread_exit =>
           Len(xml) + Cardinality({t \in Tests : outcome[t].file = "empty"}) = jobs
    /\ main = "done" /\ exit = 0 =>
           \A i \in DOMAIN xml : xml[i].result \in {"PASS", "SKIP"}

(* The program ends and takes its threads with it, interrupted or not, even *)
(* when the main thread stops at a missing results file; unless a worker    *)
(* died, in which case the main thread waits for its job for ever.          *)
Finishes ==
    <>(\/ main \in {"done", "raised"} /\ \A w \in Workers : worker[w].pc \in {"off", "exited"}
       \/ \E w \in Workers : worker[w].pc = "dead")

-----------------------------------------------------------------------------
(* The parts of the inductive invariant *)

Queued == {input_queue[i].test : i \in {k \in DOMAIN input_queue : ~input_queue[k].broken}}
Busy == {w \in Workers : worker[w].pc \in {"check", "run"}}
Held == {worker[w].job.test : w \in Busy}
Back == {output_queue[i].test : i \in DOMAIN output_queue}
Reported == {xml[i].test : i \in DOMAIN xml}
Ran(t) == outcome[t] # NotRun
Failures == tally["FAIL"] + tally["VALGR"] + tally["CRASH"]
Distinct(q) == \A i, j \in DOMAIN q : q[i].test = q[j].test => i = j
Count(q, S) == Cardinality({i \in DOMAIN q : q[i] \in S})

(* nothing exists before the threads are started, and nothing moves after the end *)
PhaseInv ==
    /\ main \in {"build", "list"} =>
          /\ todo = {} /\ input_queue = << >> /\ output_queue = << >> /\ xml = << >>
          /\ jobs = 0 /\ got = 0 /\ \A t \in Tests : ~Ran(t)
          /\ \A w \in Workers : worker[w].pc = "off"
    /\ main = "collect" => todo = {}
    /\ main = "done" => \A w \in Workers : worker[w].pc \in {"off", "exited", "dead"}
    /\ jobs + Cardinality(todo) <= Cardinality(Tests)

OnceQueued == \A i, j \in DOMAIN input_queue :
    ~input_queue[i].broken /\ ~input_queue[j].broken
    /\ input_queue[i].test = input_queue[j].test => i = j
OnceHeld == \A v, w \in Busy : worker[v].job.test = worker[w].job.test => v = w

(* a test is in one place only, and has no result before it comes back *)
PlaceInv ==
    /\ todo \cap (Queued \cup Held \cup Back \cup Reported) = {}
    /\ Queued \cap (Held \cup Back \cup Reported) = {}
    /\ Held \cap (Back \cup Reported) = {} /\ Back \cap Reported = {}
    /\ \A t \in todo \cup Queued \cup Held : ~Ran(t)
    /\ OnceQueued /\ OnceHeld
    /\ Distinct(output_queue) /\ Distinct(xml)

(* what a job carries is what its test gave *)
Truthful(job) ==
    /\ job.broken => thread_exit /\ ~Ran(job.test) /\ job.file = "none"
    /\ ~job.broken /\ IsSkip(job.test) => job.file = "none"
    /\ ~job.broken /\ ~IsSkip(job.test) =>
          /\ Ran(job.test) /\ job.file = outcome[job.test].file
          /\ job.rc = Retval(options.valgrind, outcome[job.test].rc, outcome[job.test].leak)

HeldInv ==
    \A w \in Busy : /\ worker[w].job.test \in Tests /\ ~worker[w].job.broken
                    /\ worker[w].job.file = "none"
                    /\ worker[w].pc = "run" => ~IsSkip(worker[w].job.test)

QueuedInv == \A i \in DOMAIN input_queue : input_queue[i].file = "none"

ResultInv ==
    /\ \A i \in DOMAIN output_queue : Truthful(output_queue[i])
    /\ \A t \in Tests : Ran(t) => outcome[t] \in Programs(t) /\ ~IsSkip(t)

JobInv == HeldInv /\ QueuedInv /\ ResultInv

(* the tally accounts for what came back *)
Passing == {j \in Jobs : ~j.broken /\ StatusOf(j) = "PASS"}
Empty == {j \in Jobs : j.file = "empty"}
TallyInv ==
    /\ Failures + tally["PASS"] + tally["SKIP"] <= got
    /\ ~thread_exit => Failures + tally["PASS"] + tally["SKIP"] = got
    /\ \A t \in Tests : Ran(t) => t \in Back \/ Clean(t) \/ Failures > 0
    /\ Cardinality({t \in Tests : Clean(t)}) = tally["PASS"] + Count(output_queue, Passing)

(* a test that was asked for is on its way, done with, or lost to a reason that shows *)
NamedInv == main \in {"dispatch", "collect"} => \A t \in Named :
    \/ t \in todo \cup Queued \cup Held \cup Back
    \/ Ran(t) \/ IsSkip(t)
    \/ Failures + tally["PASS"] + tally["SKIP"] < got
    \/ \E w \in Workers : worker[w].pc = "dead"

ReportInv ==
    /\ \A i \in DOMAIN xml : xml[i].result \in {"PASS", "SKIP"} \/ Failures > 0
    /\ ~thread_exit /\ main # "raised" =>
          Len(xml) + Cardinality({t \in Tests : outcome[t].file = "empty"})
              = got + Count(output_queue, Empty)

IInv == /\ NoneLost /\ PhaseInv /\ PlaceInv /\ JobInv /\ TallyInv /\ NamedInv /\ ReportInv
        /\ VerdictHonest /\ ReportComplete
====
