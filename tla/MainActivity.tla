------------------------------ MODULE MainActivity ------------------------------
(***************************************************************************)
(* The Android front end, MainActivity.java: the main thread handles       *)
(* clicks, posted messages and the recreation of the activity; each        *)
(* activity has a scheduler with one thread that runs the native exec.     *)
(*                                                                         *)
(* `running`, `txt` and the label are shared between the two threads       *)
(* without a lock.  A late view of `running` on the main thread is the     *)
(* same as an earlier click or tick: posting a message orders the write    *)
(* before the message, and until then the main thread touches nothing the  *)
(* worker reads.  So the accesses are modelled as atomic.                  *)
(***************************************************************************)
EXTENDS Integers, Sequences, FiniteSets

CONSTANTS
    MAX_ACTIVITIES,  \* bound of the model: how often the activity is created
    MAX_RUNS         \* bound of the model: how many clicks are accepted

ASSUME ActivityAssumption == MAX_ACTIVITIES \in Nat \ {0} /\ MAX_RUNS \in Nat

Activity == 1 .. MAX_ACTIVITIES
Run == 1 .. MAX_RUNS

VARIABLES
    current,         \* the activity on screen
    runs,            \* runs accepted so far; a run's number names its result
    tasks,           \* per activity: the runs its scheduler still holds
    worker,          \* per activity: where its thread is, and in which run
    running,         \* per activity: the flag
    txt,             \* per activity: the text the last exec returned
    label,           \* per activity: what sampleText shows
    posted,          \* messages of the main looper that are due, in order
    delayed          \* per activity: ticks posted with a delay

activity_vars == <<current, runs, tasks, worker, running, txt, label, posted, delayed>>

NoRun == 0

\* What sampleText shows: a fixed text ("Running unzip...", "Already running...
\* please wait.") or the result of a run, and whether dots were appended to it.
Shows(text) == [text |-> text, run |-> NoRun, dotted |-> FALSE]
ShowsResult(r) == [text |-> "result", run |-> r, dotted |-> FALSE]

Idle == [pc |-> "idle", run |-> NoRun]

\* onCreate: a scheduler with one thread, a fresh label.
ActivityInit ==
    /\ current = 1
    /\ runs = 0
    /\ tasks = [a \in Activity |-> <<>>]
    /\ worker = [a \in Activity |-> Idle]
    /\ running = [a \in Activity |-> FALSE]
    /\ txt = [a \in Activity |-> NoRun]
    /\ label = [a \in Activity |-> Shows("hello")]
    /\ posted = <<>>
    /\ delayed = [a \in Activity |-> 0]

--------------------------------------------------------------------------------
(***************************************************************************)
(* The main thread.                                                        *)
(***************************************************************************)
\* runCommand schedules a run unless one is seen running.  The flag is only
\* set once the scheduled task starts.
ClickAccepted ==
    /\ ~running[current]
    /\ runs < MAX_RUNS
    /\ runs' = runs + 1
    /\ tasks' = [tasks EXCEPT ![current] = Append(@, runs + 1)]
    /\ label' = [label EXCEPT ![current] = Shows("running")]
    /\ UNCHANGED <<current, worker, running, txt, posted, delayed>>

ClickRefused ==
    /\ running[current]
    /\ label' = [label EXCEPT ![current] = Shows("refused")]
    /\ UNCHANGED <<current, runs, tasks, worker, running, txt, posted, delayed>>

\* Mutant of Recreate: onDestroy drops the tasks not yet started (shutdownNow).
RecreateDropsTasks ==
    /\ current < MAX_ACTIVITIES
    /\ current' = current + 1
    /\ tasks' = [tasks EXCEPT ![current] = <<>>]
    /\ UNCHANGED <<runs, worker, running, txt, label, posted, delayed>>

\* The system recreates the activity (a rotation).  onDestroy shuts the
\* scheduler down, which takes no new task but still runs the delayed ones it
\* holds; the new instance has a scheduler and a flag of its own.
Recreate ==
    /\ current < MAX_ACTIVITIES
    /\ current' = current + 1
    /\ UNCHANGED <<runs, tasks, worker, running, txt, label, posted, delayed>>

\* Mutants of Tick: the dot outside the test; posted regardless.
DotAlways(a, others) ==
    /\ label' = [label EXCEPT ![a].dotted = TRUE]
    /\ delayed' = [delayed EXCEPT ![a] = IF running[a] THEN others + 1 ELSE others]

TickForever(a, others) ==
    /\ label' = [label EXCEPT ![a].dotted = label[a].dotted \/ running[a]]
    /\ delayed' = [delayed EXCEPT ![a] = others + 1]

\* The ticker: a dot, and again in half a second, as long as the flag is set.
\* `others` ticks are posted besides this one.
Tick(a, others) ==
    IF running[a]
    THEN /\ label' = [label EXCEPT ![a].dotted = TRUE]
         /\ delayed' = [delayed EXCEPT ![a] = others + 1]
    ELSE /\ delayed' = [delayed EXCEPT ![a] = others]
         /\ UNCHANGED label

HandleTick ==
    /\ posted # <<>> /\ Head(posted).what = "tick"
    /\ posted' = Tail(posted)
    /\ Tick(Head(posted).activity, delayed[Head(posted).activity])
    /\ UNCHANGED <<current, runs, tasks, worker, running, txt>>

\* The result shown is the one txt holds now.
HandleResult ==
    /\ posted # <<>> /\ Head(posted).what = "result"
    /\ posted' = Tail(posted)
    /\ label' = [label EXCEPT ![Head(posted).activity] = ShowsResult(txt[Head(posted).activity])]
    /\ UNCHANGED <<current, runs, tasks, worker, running, txt, delayed>>

DelayedTick(a) ==
    /\ delayed[a] > 0
    /\ Tick(a, delayed[a] - 1)
    /\ UNCHANGED <<current, runs, tasks, worker, running, txt, posted>>

--------------------------------------------------------------------------------
(***************************************************************************)
(* The scheduler's thread: the Runnable of runCommand.                     *)
(***************************************************************************)
Message(what, a) == [what |-> what, activity |-> a]

Goto(a, pc) == worker' = [worker EXCEPT ![a].pc = pc]

\* The thread is free: also after a task that ended in an Error, which the
\* task's ScheduledFuture keeps and nobody looks at.
Free(a) == worker[a].pc \in {"idle", "failed"}

\* Mutant of TaskStarts: the scheduler's task of the last click goes first.
LastTaskStarts(a) ==
    /\ Free(a) /\ tasks[a] # <<>>
    /\ worker' = [worker EXCEPT ![a] = [pc |-> "started", run |-> tasks[a][Len(tasks[a])]]]
    /\ tasks' = [tasks EXCEPT ![a] = SubSeq(@, 1, Len(@) - 1)]
    /\ running' = [running EXCEPT ![a] = TRUE]
    /\ UNCHANGED <<current, runs, txt, label, posted, delayed>>

TaskStarts(a) ==
    /\ Free(a) /\ tasks[a] # <<>>
    /\ worker' = [worker EXCEPT ![a] = [pc |-> "started", run |-> Head(tasks[a])]]
    /\ tasks' = [tasks EXCEPT ![a] = Tail(@)]
    /\ running' = [running EXCEPT ![a] = TRUE]
    /\ UNCHANGED <<current, runs, txt, label, posted, delayed>>

PostTick(a) ==
    /\ worker[a].pc = "started" /\ Goto(a, "exec")
    /\ posted' = Append(posted, Message("tick", a))
    /\ UNCHANGED <<current, runs, tasks, running, txt, label, delayed>>

\* exec returned the output of the run, or threw an Exception ("Error 5674").
ExecReturns(a) ==
    /\ worker[a].pc = "exec" /\ Goto(a, "returned")
    /\ txt' = [txt EXCEPT ![a] = worker[a].run]
    /\ UNCHANGED <<current, runs, tasks, running, label, posted, delayed>>

\* exec throws what is no Exception, an OutOfMemoryError of NewStringUTF for
\* instance: it leaves the Runnable at once, past the assignment to `running`.
ExecThrowsError(a) ==
    /\ worker[a].pc = "exec" /\ Goto(a, "failed")
    /\ UNCHANGED <<current, runs, tasks, running, txt, label, posted, delayed>>

\* Mutant of ClearRunning: the flag stays set when exec threw an Exception.
ClearRunningOnSuccess(a) ==
    /\ worker[a].pc = "returned" /\ Goto(a, "cleared")
    /\ \/ running' = [running EXCEPT ![a] = FALSE]
       \/ UNCHANGED running
    /\ UNCHANGED <<current, runs, tasks, txt, label, posted, delayed>>

ClearRunning(a) ==
    /\ worker[a].pc = "returned" /\ Goto(a, "cleared")
    /\ running' = [running EXCEPT ![a] = FALSE]
    /\ UNCHANGED <<current, runs, tasks, txt, label, posted, delayed>>

PostResult(a) ==
    /\ worker[a].pc = "cleared"
    /\ worker' = [worker EXCEPT ![a] = Idle]
    /\ posted' = Append(posted, Message("result", a))
    /\ UNCHANGED <<current, runs, tasks, running, txt, label, delayed>>

Worker(a) ==
    \/ TaskStarts(a) \/ PostTick(a) \/ ExecReturns(a) \/ ExecThrowsError(a)
    \/ ClearRunning(a) \/ PostResult(a)

ActivityNext ==
    \/ ClickAccepted \/ ClickRefused \/ Recreate
    \/ HandleTick \/ HandleResult
    \/ \E a \in Activity : DelayedTick(a) \/ Worker(a)

\* The scheduler's threads and the looper keep running, and exec returns (see
\* module Exec).  Nobody has to click.
Fairness ==
    /\ WF_activity_vars(HandleTick) /\ WF_activity_vars(HandleResult)
    /\ \A a \in Activity : WF_activity_vars(Worker(a)) /\ WF_activity_vars(DelayedTick(a))

ActivitySpec == ActivityInit /\ [][ActivityNext]_activity_vars /\ Fairness

--------------------------------------------------------------------------------
(***************************************************************************)
(* Properties                                                              *)
(***************************************************************************)
ActivityTypeOK ==
    /\ current \in Activity
    /\ runs \in 0 .. MAX_RUNS
    /\ tasks \in [Activity -> Seq(Run)]
    /\ worker \in [Activity -> [pc : {"idle", "started", "exec", "returned", "cleared", "failed"},
                                run : Run \cup {NoRun}]]
    /\ running \in [Activity -> BOOLEAN]
    /\ txt \in [Activity -> Run \cup {NoRun}]
    /\ label \in [Activity -> [text : {"hello", "running", "refused", "result"},
                               run : Run \cup {NoRun}, dotted : BOOLEAN]]
    /\ posted \in Seq([what : {"tick", "result"}, activity : Activity])
    /\ delayed \in [Activity -> 0 .. MAX_RUNS]

\* An activity whose thread has nothing left to do, its last run having come to
\* its end, and whose results were handled; ticks may still be due.
Quiet(a) ==
    /\ worker[a].pc = "idle" /\ tasks[a] = <<>>
    /\ \A i \in 1 .. Len(posted) : posted[i] # Message("result", a)

\* When an activity is quiet its label is the result of its last run that
\* returned, and stays so: no tick, refusal or earlier result is written over it,
\* however clicks, ticks and the worker interleave; every message is of its type,
\* and no activity has more tickers than runs.
ShowsLastResult ==
    /\ ActivityTypeOK
    /\ \A a \in Activity : Quiet(a) /\ txt[a] # NoRun => label[a] = ShowsResult(txt[a])

\* A flag left set would refuse every later click.  Once set it is cleared again,
\* whatever exec returned, whichever Exception it threw and whatever became of
\* the activity; only an Error leaves it set, for good unless another run is
\* already in the queue.
FlagIsCleared == \A a \in Activity : running[a] ~> (~running[a] \/ worker[a].pc = "failed")

\* Results are shown in the order of the clicks, also when a second click is
\* accepted before the first run sets the flag.
ResultsInOrder ==
    [][\A a \in Activity : label'[a].text = "result"
          => label'[a].run >= label[a].run /\ label'[a].run # NoRun]_activity_vars

\* Every accepted click leads to its own result or a later one in the label of
\* its activity, even when the activity was destroyed meanwhile and nobody sees
\* it; or its run ended in an Error.
EveryRunEnds ==
    \A a \in Activity, r \in Run :
        (\E i \in 1 .. Len(tasks[a]) : tasks[a][i] = r)
            ~> (label[a].run >= r \/ worker[a] = [pc |-> "failed", run |-> r])

\* The tickers of all runs stop when no run is left and the last came to its end;
\* those of an earlier run, one that ended in an Error among them, may live on in
\* the next.
TickersStop ==
    \A a \in Activity :
        <>[](worker[a].pc = "idle" /\ tasks[a] = <<>>) => <>[](delayed[a] = 0)
================================================================================
