---------------------------------- MODULE Exec ----------------------------------
(***************************************************************************)
(* The native method exec (native-lib.c): it forks a child that runs hwzip *)
(* with its output on a pipe, collects the output and reaps the child.     *)
(*                                                                         *)
(* Several threads may be in exec at once, one per activity that was       *)
(* created (see MainActivity).  They share the process's descriptors: a    *)
(* child inherits the pipes of the other calls as well as its own, since   *)
(* nothing closes them, and end of file is only seen when every holder of  *)
(* the write end is gone.                                                  *)
(***************************************************************************)
EXTENDS Integers, FiniteSets

CONSTANTS
    Caller,          \* the threads that call exec
    CHUNK,           \* 1024 in the code: bytes asked of read, and growth of buf
    MAX_CALLS,       \* bound of the model: calls of each thread
    MAX_OUTPUT,      \* bound of the model: bytes a child writes
    MAX_FAILED,      \* bound of the model: reads that fail in a call
    PIPE_CAP,        \* room in a pipe
    FD_LIMIT         \* descriptors the process may have open

ASSUME ExecAssumption ==
    /\ CHUNK \in Nat \ {0} /\ PIPE_CAP \in Nat \ {0}
    /\ MAX_CALLS \in Nat /\ MAX_OUTPUT \in Nat /\ MAX_FAILED \in Nat /\ FD_LIMIT \in Nat

\* The pipe of a thread's n-th call.
Pipe == Caller \X (1 .. MAX_CALLS)

VARIABLES
    pc,              \* where each thread is in exec
    calls,           \* calls each thread has made
    read_ends,       \* pipes whose read end (link[0]) the process has open
    write_ends,      \* pipes whose write end (link[1]) the process has open
    in_pipe,         \* bytes in each pipe
    child,           \* the child of each thread's call
    pid,             \* is each thread's pid still positive
    llen,            \* bytes collected, as the code counts them
    nbytes,          \* what the last read returned, -1 if it failed
    failed,          \* reads of each call that failed (history)
    alloced,         \* size of buf
    result           \* what each thread's last call returned

exec_vars == <<pc, calls, read_ends, write_ends, in_pipe, child, pid, llen, nbytes,
               failed, alloced, result>>

\* A child: its state, the write ends it holds, what it has written.
NoChild == [state |-> "none", holds |-> {}, written |-> 0]

link(c) == <<c, calls[c]>>

ExecInit ==
    /\ pc = [c \in Caller |-> "idle"]
    /\ calls = [c \in Caller |-> 0]
    /\ read_ends = {} /\ write_ends = {}
    /\ in_pipe = [p \in Pipe |-> 0]
    /\ child = [c \in Caller |-> NoChild]
    /\ pid = [c \in Caller |-> FALSE]
    /\ llen = [c \in Caller |-> 0]
    /\ nbytes = [c \in Caller |-> 0]
    /\ failed = [c \in Caller |-> 0]
    /\ alloced = [c \in Caller |-> 0]
    /\ result = [c \in Caller |-> "none"]

Proceed(c, to) == pc' = [pc EXCEPT ![c] = to]

Return(c, r) == Proceed(c, "idle") /\ result' = [result EXCEPT ![c] = r]

OpenDescriptors == Cardinality(read_ends) + Cardinality(write_ends)

--------------------------------------------------------------------------------
(***************************************************************************)
(* The call.                                                               *)
(***************************************************************************)
Call(c) ==
    /\ pc[c] = "idle" /\ calls[c] < MAX_CALLS
    /\ calls' = [calls EXCEPT ![c] = @ + 1]
    /\ Proceed(c, "pipe")
    /\ child' = [child EXCEPT ![c] = NoChild]
    /\ result' = [result EXCEPT ![c] = "none"]
    /\ failed' = [failed EXCEPT ![c] = 0]
    /\ UNCHANGED <<read_ends, write_ends, in_pipe, pid, llen, nbytes, alloced>>

MakePipe(c) ==
    /\ pc[c] = "pipe"
    /\ IF OpenDescriptors + 2 > FD_LIMIT
       THEN Return(c, "pipe_failed") /\ UNCHANGED <<read_ends, write_ends>>
       ELSE /\ Proceed(c, "fork")
            /\ read_ends' = read_ends \cup {link(c)}
            /\ write_ends' = write_ends \cup {link(c)}
            /\ UNCHANGED result
    /\ UNCHANGED <<calls, in_pipe, child, pid, llen, nbytes, failed, alloced>>

\* The child has every write end the process has at this moment: its own
\* becomes its standard output and error, the others stay open unnoticed.
Fork(c) ==
    /\ pc[c] = "fork"
    /\ Proceed(c, "close")
    /\ child' = [child EXCEPT ![c] =
                    [state |-> "running", holds |-> write_ends, written |-> 0]]
    /\ pid' = [pid EXCEPT ![c] = TRUE]
    /\ UNCHANGED <<calls, read_ends, write_ends, in_pipe, llen, nbytes, failed, alloced, result>>

\* Both ends stay open.
ForkFails(c) ==
    /\ pc[c] = "fork"
    /\ Return(c, "fork_failed")
    /\ UNCHANGED <<calls, read_ends, write_ends, in_pipe, child, pid, llen, nbytes, failed, alloced>>

\* Mutant of CloseWriteEnd: the parent keeps link[1].
KeepWriteEnd(c) ==
    /\ pc[c] = "close"
    /\ Proceed(c, "loop")
    /\ llen' = [llen EXCEPT ![c] = 0]
    /\ nbytes' = [nbytes EXCEPT ![c] = 0]
    /\ alloced' = [alloced EXCEPT ![c] = CHUNK]
    /\ UNCHANGED <<calls, read_ends, write_ends, in_pipe, child, pid, failed, result>>

CloseWriteEnd(c) ==
    /\ pc[c] = "close"
    /\ Proceed(c, "loop")
    /\ write_ends' = write_ends \ {link(c)}
    /\ llen' = [llen EXCEPT ![c] = 0]
    /\ nbytes' = [nbytes EXCEPT ![c] = 0]
    /\ alloced' = [alloced EXCEPT ![c] = CHUNK]
    /\ UNCHANGED <<calls, read_ends, in_pipe, child, pid, failed, result>>

\* Mutant of Grown: room for what was read only.
GrownTooLate(n, size) == IF n > size THEN size + CHUNK ELSE size

\* The size of buf once there is room behind n bytes for the next read.
Grown(n, size) ==
    LET missing == n + CHUNK - size
    IN  IF missing <= 0 THEN size
        ELSE size + CHUNK * ((missing + CHUNK - 1) \div CHUNK)

\* The top of the loop: count the bytes just read, make room for the next.
CountBytes(c) ==
    LET n == llen[c] + nbytes[c]
    IN  /\ pc[c] = "loop"
        /\ Proceed(c, "wait")
        /\ llen' = [llen EXCEPT ![c] = n]
        /\ alloced' = [alloced EXCEPT ![c] = Grown(n, @)]
        /\ UNCHANGED <<calls, read_ends, write_ends, in_pipe, child, pid, nbytes, failed, result>>

\* waitpid(WNOHANG)
Reap(c) ==
    /\ pc[c] = "wait"
    /\ Proceed(c, "read")
    /\ IF pid[c] /\ child[c].state = "exited"
       THEN /\ pid' = [pid EXCEPT ![c] = FALSE]
            /\ child' = [child EXCEPT ![c].state = "reaped"]
       ELSE UNCHANGED <<pid, child>>
    /\ UNCHANGED <<calls, read_ends, write_ends, in_pipe, llen, nbytes, failed, alloced, result>>

\* Mutant of Again: stop as soon as the child is gone.
AgainWhileAlive(c, n) == pid[c]

\* The loop goes on while something was read or the child was not reaped.
Again(c, n) == n > 0 \/ pid[c]

HasWriter(p) == p \in write_ends \/ \E d \in Caller : p \in child[d].holds

\* read blocks while the pipe is empty and somebody could still write to it.
Read(c) ==
    /\ pc[c] = "read"
    /\ in_pipe[link(c)] > 0 \/ ~HasWriter(link(c))
    /\ LET n == IF in_pipe[link(c)] < CHUNK THEN in_pipe[link(c)] ELSE CHUNK
       IN  /\ nbytes' = [nbytes EXCEPT ![c] = n]
           /\ in_pipe' = [in_pipe EXCEPT ![link(c)] = @ - n]
           /\ IF Again(c, n)
              THEN Proceed(c, "loop") /\ UNCHANGED result
              ELSE Return(c, "output")
    /\ UNCHANGED <<calls, read_ends, write_ends, child, pid, llen, failed, alloced>>

\* read fails, interrupted by a signal for instance, blocked or not.  Its -1 is
\* added to llen like any other count.
ReadFails(c) ==
    /\ pc[c] = "read" /\ failed[c] < MAX_FAILED
    /\ nbytes' = [nbytes EXCEPT ![c] = -1]
    /\ failed' = [failed EXCEPT ![c] = @ + 1]
    /\ IF Again(c, -1)
       THEN Proceed(c, "loop") /\ UNCHANGED result
       ELSE Return(c, "output")
    /\ UNCHANGED <<calls, read_ends, write_ends, in_pipe, child, pid, llen, alloced>>

--------------------------------------------------------------------------------
(***************************************************************************)
(* The child.  It ends when it has written all it has to say, when execv   *)
(* failed (exit(0), nothing written), or by a signal.                      *)
(***************************************************************************)
ChildWrites(c) ==
    /\ child[c].state = "running"
    /\ child[c].written < MAX_OUTPUT
    /\ in_pipe[link(c)] < PIPE_CAP
    /\ child' = [child EXCEPT ![c].written = @ + 1]
    /\ in_pipe' = [in_pipe EXCEPT ![link(c)] = @ + 1]
    /\ UNCHANGED <<pc, calls, read_ends, write_ends, pid, llen, nbytes, failed, alloced, result>>

\* The system closes what the child held; it stays a zombie until it is waited for.
ChildExits(c) ==
    /\ child[c].state = "running"
    /\ child' = [child EXCEPT ![c].state = "exited", ![c].holds = {}]
    /\ UNCHANGED <<pc, calls, read_ends, write_ends, in_pipe, pid, llen, nbytes, failed, alloced, result>>

Thread(c) ==
    \/ MakePipe(c) \/ Fork(c) \/ ForkFails(c) \/ CloseWriteEnd(c)
    \/ CountBytes(c) \/ Reap(c) \/ Read(c)

ExecNext ==
    \E c \in Caller : Call(c) \/ Thread(c) \/ ReadFails(c) \/ ChildWrites(c) \/ ChildExits(c)

\* Threads run, and a child ends: hwzip has no loop that waits for anything.
\* That a read fails is nobody's duty.
ExecSpec ==
    /\ ExecInit /\ [][ExecNext]_exec_vars
    /\ \A c \in Caller : WF_exec_vars(Thread(c)) /\ WF_exec_vars(ChildExits(c))

--------------------------------------------------------------------------------
(***************************************************************************)
(* Properties                                                              *)
(***************************************************************************)
ExecTypeOK ==
    /\ pc \in [Caller -> {"idle", "pipe", "fork", "close", "loop", "wait", "read"}]
    /\ calls \in [Caller -> 0 .. MAX_CALLS]
    /\ read_ends \subseteq Pipe /\ write_ends \subseteq Pipe
    /\ in_pipe \in [Pipe -> 0 .. PIPE_CAP]
    /\ child \in [Caller -> [state : {"none", "running", "exited", "reaped"},
                             holds : SUBSET Pipe, written : 0 .. MAX_OUTPUT]]
    /\ pid \in [Caller -> BOOLEAN]
    /\ llen \in [Caller -> -MAX_FAILED .. MAX_OUTPUT]
    /\ nbytes \in [Caller -> -1 .. CHUNK]
    /\ failed \in [Caller -> 0 .. MAX_FAILED]
    /\ alloced \in [Caller -> 0 .. MAX_OUTPUT + 2 * CHUNK - 1]
    /\ result \in [Caller -> {"none", "output", "pipe_failed", "fork_failed"}]

Collecting == {c \in Caller : pc[c] \in {"loop", "wait", "read"}}

\* A call returns only after the child has exited and was waited for, and all
\* that the child has written: a child that exits between the waitpid and the
\* read of one round is caught in a later one, and output that arrives after the
\* exit was seen is still read.  No byte is lost or counted twice on the way, but
\* that each read that fails takes one off the count, to be written over, and one
\* that fails after the child was reaped ends the call with what there is.
NoOutputLost ==
    \A c \in Caller :
        /\ result[c] = "output" =>
              /\ child[c].state = "reaped"
              /\ failed[c] = 0 => llen[c] = child[c].written
        /\ c \in Collecting =>
              child[c].written =
                  llen[c] + (IF pc[c] = "loop" THEN nbytes[c] ELSE 0) + in_pipe[link(c)] + failed[c]

\* What is read fits the buffer, and so does the 0 written behind it; the buffer
\* grows no further than the output needs.  Reading begins at the buffer or, by
\* the code's count, at most as far before it as reads have failed.
BufferFits ==
    /\ ExecTypeOK
    /\ \A c \in Caller :
        /\ c \in Collecting => llen[c] + nbytes[c] <= alloced[c]
        /\ pc[c] = "read" => -failed[c] <= llen[c] /\ llen[c] + CHUNK <= alloced[c]

\* A reader whose own child is gone waits for nobody but a running child of
\* another call, one forked while this call's write end was open (close(link[1])
\* comes after the fork): the process itself never keeps its own reader waiting.
WaitsForOthersOnly ==
    \A c \in Collecting :
        child[c].state # "running" /\ HasWriter(link(c)) =>
            \E d \in Caller \ {c} : child[d].state = "running" /\ link(c) \in child[d].holds

\* Every call returns, although its read may have to wait for the children of
\* other calls that inherited its pipe.
CallReturns == \A c \in Caller : pc[c] # "idle" ~> pc[c] = "idle"
================================================================================
