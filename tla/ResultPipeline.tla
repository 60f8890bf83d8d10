--------------------------- MODULE ResultPipeline ---------------------------
(***************************************************************************)
(* How results reach the output file: MiningContext::execute_tasks, the    *)
(* WriterProxy its tasks emit through, and the ResultWriter.               *)
(*                                                                         *)
(* With one thread the tasks run one after another and write to the file   *)
(* themselves.  With more, Rayon workers take the tasks in any order and   *)
(* send to a bounded channel that a writer thread drains.  A result is     *)
(* <<t, i>>, the i-th that task t emits.                                   *)
(*                                                                         *)
(* A result is a line, written in pieces.  A write that fails between two  *)
(* of them leaves a line that has begun and does not end, and the result   *)
(* that is written next continues it.                                      *)
(***************************************************************************)
EXTENDS Integers, Sequences, FiniteSets

CONSTANTS
  NTasks,       \* length of the vector of tasks
  Count,        \* how many results each task emits
  ThreadCounts, \* values of ctx.threads
  Capacity,     \* bound of the channel: 100_000
  Faults        \* of "create", "write", "flush" (the output file) and "task" (a panic)

Tasks == 1..NTasks
NoTask == 0

ASSUME PipelineAssumption ==
  /\ NTasks \in Nat
  /\ Count \in [Tasks -> Nat]
  /\ ThreadCounts \subseteq Nat \ {0}
  /\ Capacity \in Nat \ {0}
  /\ Faults \subseteq {"create", "write", "flush", "task"}

VARIABLES
  threads,  \* ctx.threads
  todo,     \* tasks not started
  task,     \* the task of each worker, or NoTask
  sent,     \* how many results each task has emitted
  broken,   \* a task has panicked, the others still run
  main,     \* the caller of execute_tasks
  writer,   \* the ResultWriter: the writer thread's, or the caller's own
  queue,    \* the channel
  hand,     \* what the writer thread has received and not written
  buffer,   \* lines in the BufWriter, with the one of which only a part is on disk
  file,     \* lines on disk
  failed,   \* results whose write returned an error, kept for the properties
  torn      \* those of them whose line has begun

output == <<queue, hand, buffer, file, failed, torn>>
vars == <<threads, todo, task, sent, broken, main, writer, output>>

Workers == 1..threads
Parallel == threads > 1

Init ==
  /\ threads \in ThreadCounts
  /\ todo = Tasks
  /\ task = [w \in Workers |-> NoTask]
  /\ sent = [t \in Tasks |-> 0]
  /\ broken = FALSE
  /\ main = "running" /\ writer = "opening"
  /\ queue = <<>> /\ hand = <<>> /\ buffer = <<>> /\ file = <<>>
  /\ failed = {} /\ torn = {}

-----------------------------------------------------------------------------
(* The ResultWriter *)

\* ResultWriter::new truncates the file.  Its failure ends the thread it runs on.
Open ==
  /\ writer = "opening" /\ main \in {"running", "joining"}
  /\ writer' = "open"
  /\ UNCHANGED <<threads, todo, task, sent, broken, main, output>>

OpenFails ==
  /\ "create" \in Faults
  /\ writer = "opening" /\ main \in {"running", "joining"}
  /\ writer' = "dead"
  /\ main' = IF Parallel THEN main ELSE "panicked"
  /\ UNCHANGED <<threads, todo, task, sent, broken, output>>

\* write_hui: the buffer goes to the file first if the line does not fit.
Write(r) ==
  \/ /\ buffer' = Append(buffer, r)
     /\ UNCHANGED file
  \/ /\ file' = file \o buffer
     /\ buffer' = <<r>>

\* Of the lines s, those before some point reach the file and the others are buffered.
Moves(s) ==
  \E k \in 0..Len(s) :
    /\ file' = file \o SubSeq(s, 1, k)
    /\ buffer' = SubSeq(s, k + 1, Len(s))

\* write_hui returns an error: a piece of the line did not fit and the file refused what
\* was in the buffer, or a part of it.  If it was not the first piece, those before it
\* are among the lines s that the BufWriter still has.
WriteFails(r, s) ==
  /\ "write" \in Faults
  /\ s \in {buffer, Append(buffer, r)}
  /\ failed' = failed \cup {r}
  /\ torn' = IF s = buffer THEN torn ELSE torn \cup {r}

\* The last flush, that of finalize or of the BufWriter's drop, which tries again.
Closes(s) ==
  /\ Moves(s)
  /\ \/ buffer' = <<>> /\ writer' = "closed"
     \/ "flush" \in Faults /\ writer' = "dead"

-----------------------------------------------------------------------------
(* The tasks *)

Idle == \A w \in Workers : task[w] = NoTask

\* Rayon gives any task to any worker; the sequential loop follows the vector.
Take(w, t) ==
  /\ main = "running" /\ task[w] = NoTask /\ t \in todo
  /\ ~Parallel => writer = "open" /\ \A u \in todo : t <= u
  /\ task' = [task EXCEPT ![w] = t]
  /\ todo' = todo \ {t}
  /\ UNCHANGED <<threads, sent, broken, main, writer, output>>

Emits(w) == main = "running" /\ task[w] # NoTask /\ sent[task[w]] < Count[task[w]]

NextResult(w) == <<task[w], sent[task[w]] + 1>>
Emitted(t) == sent' = [sent EXCEPT ![t] = @ + 1]

\* Mutant of Emit: a full channel drops the result.
EmitOrDrop(w) ==
  /\ Emits(w) /\ Emitted(task[w])
  /\ IF Parallel
       THEN /\ writer # "dead"
            /\ queue' = IF Len(queue) < Capacity THEN Append(queue, NextResult(w)) ELSE queue
            /\ UNCHANGED <<buffer, file>>
       ELSE Write(NextResult(w)) /\ UNCHANGED queue
  /\ UNCHANGED <<threads, todo, task, broken, main, writer, hand, failed, torn>>

\* WriterProxy::write_hui: send blocks while the channel is full.
Emit(w) ==
  /\ Emits(w) /\ Emitted(task[w])
  /\ IF Parallel
       THEN /\ writer # "dead" /\ Len(queue) < Capacity
            /\ queue' = Append(queue, NextResult(w))
            /\ UNCHANGED <<buffer, file>>
       ELSE Write(NextResult(w)) /\ UNCHANGED queue
  /\ UNCHANGED <<threads, todo, task, broken, main, writer, hand, failed, torn>>

\* A panic ends the task.  The sequential caller unwinds, and its BufWriter flushes the
\* lines s it has; Rayon lets the other workers go on and raises the panic again in the
\* caller.
Panic(w, s) ==
  /\ task' = [task EXCEPT ![w] = NoTask]
  /\ broken' = TRUE
  /\ IF Parallel
       THEN UNCHANGED <<main, writer, buffer, file>>
       ELSE main' = "panicked" /\ Closes(s)
  /\ UNCHANGED <<threads, todo, queue, hand>>

\* The send finds the receiver gone, with the writer thread, and is unwrapped.
SendFails(w) ==
  /\ Emits(w) /\ Parallel /\ writer = "dead"
  /\ Panic(w, buffer)
  /\ UNCHANGED <<sent, failed, torn>>

\* The sequential proxy hands the error to the task: the FHM family and TKO unwrap
\* it, EFIM, TwoPhase and the trees go on without the result.
SequentialWriteFails(w) ==
  /\ Emits(w) /\ ~Parallel /\ Emitted(task[w])
  /\ \E s \in {buffer, Append(buffer, NextResult(w))} :
       /\ WriteFails(NextResult(w), s)
       /\ \/ Panic(w, s)
          \/ Moves(s) /\ UNCHANGED <<threads, todo, task, broken, main, writer, queue, hand>>

TaskPanics(w) ==
  /\ "task" \in Faults
  /\ main = "running" /\ task[w] # NoTask
  /\ Panic(w, buffer)
  /\ UNCHANGED <<sent, failed, torn>>

TaskEnds(w) ==
  /\ main = "running" /\ task[w] # NoTask /\ sent[task[w]] = Count[task[w]]
  /\ task' = [task EXCEPT ![w] = NoTask]
  /\ UNCHANGED <<threads, todo, sent, broken, main, writer, output>>

\* A panic skips the rest of the range of tasks its worker was going through.
Skip ==
  /\ main = "running" /\ Parallel /\ broken
  /\ \E T \in SUBSET todo : T # {} /\ todo' = todo \ T
  /\ UNCHANGED <<threads, task, sent, broken, main, writer, output>>

-----------------------------------------------------------------------------
(* The writer thread *)

Recv ==
  /\ Parallel /\ writer = "open" /\ hand = <<>> /\ queue # <<>>
  /\ hand' = <<Head(queue)>> /\ queue' = Tail(queue)
  /\ UNCHANGED <<threads, todo, task, sent, broken, main, writer, buffer, file, failed, torn>>

WriterWrites ==
  /\ hand # <<>>
  /\ Write(Head(hand))
  /\ hand' = <<>>
  /\ UNCHANGED <<threads, todo, task, sent, broken, main, writer, queue, failed, torn>>

\* Mutant of WriterWriteFails: the line is tried again, though its first pieces are buffered.
WriterWritesAgain ==
  /\ hand # <<>>
  /\ \E s \in {buffer, Append(buffer, Head(hand))} : WriteFails(Head(hand), s) /\ Moves(s)
  /\ UNCHANGED <<threads, todo, task, sent, broken, main, writer, queue, hand>>

\* The writer thread discards the error, and counts the result as written.
WriterWriteFails ==
  /\ hand # <<>>
  /\ \E s \in {buffer, Append(buffer, Head(hand))} : WriteFails(Head(hand), s) /\ Moves(s)
  /\ hand' = <<>>
  /\ UNCHANGED <<threads, todo, task, sent, broken, main, writer, queue>>

\* Mutant of Disconnected: the caller keeps its sender while it joins.
DisconnectedLate == main \in {"returned", "panicked"}

\* The caller's sender and those of the tasks are all dropped.
Disconnected == main # "running"

\* recv fails: every sender is gone and the channel is empty.
Drained == Disconnected /\ hand = <<>> /\ queue = <<>>

\* finalize, the result of the thread.
WriterFinalizes ==
  /\ Parallel /\ writer = "open" /\ Drained
  /\ Closes(buffer)
  /\ UNCHANGED <<threads, todo, task, sent, broken, main, queue, hand, failed, torn>>

-----------------------------------------------------------------------------
(* The caller *)

\* install returns, or raises the panic of a task, with every task over.
InstallEnds ==
  /\ main = "running" /\ Parallel /\ todo = {} /\ Idle
  /\ main' = IF broken THEN "panicked" ELSE "joining"
  /\ UNCHANGED <<threads, todo, task, sent, broken, writer, output>>

\* Mutant of Join: the caller returns without waiting for the writer thread.
JoinNothing ==
  /\ main = "joining"
  /\ main' = IF writer = "dead" THEN "panicked" ELSE "returned"
  /\ UNCHANGED <<threads, todo, task, sent, broken, writer, output>>

\* join().unwrap().unwrap()
Join ==
  /\ main = "joining" /\ writer \in {"closed", "dead"}
  /\ main' = IF writer = "closed" THEN "returned" ELSE "panicked"
  /\ UNCHANGED <<threads, todo, task, sent, broken, writer, output>>

SequentialFinalize ==
  /\ main = "running" /\ ~Parallel /\ writer = "open" /\ todo = {} /\ Idle
  /\ Closes(buffer)
  /\ main' = IF writer' = "closed" THEN "returned" ELSE "panicked"
  /\ UNCHANGED <<threads, todo, task, sent, broken, queue, hand, failed, torn>>

Worker(w) ==
  \/ \E t \in Tasks : Take(w, t)
  \/ Emit(w) \/ SendFails(w) \/ SequentialWriteFails(w) \/ TaskPanics(w) \/ TaskEnds(w)

Writer == Open \/ OpenFails \/ Recv \/ WriterWrites \/ WriterWriteFails \/ WriterFinalizes

Caller == InstallEnds \/ Join \/ SequentialFinalize

Next == (\E w \in Workers : Worker(w)) \/ Skip \/ Writer \/ Caller

Spec == Init /\ [][Next]_vars

\* The system runs every worker, the writer thread and the caller.
FairSpec ==
  /\ Spec
  /\ \A w \in UNION {1..n : n \in ThreadCounts} : WF_vars(w \in Workers /\ Worker(w))
  /\ WF_vars(Writer) /\ WF_vars(Caller)

-----------------------------------------------------------------------------
(* Properties *)

Members(s) == {s[i] : i \in DOMAIN s}

TypeOK ==
  /\ threads \in ThreadCounts
  /\ todo \subseteq Tasks
  /\ task \in [Workers -> Tasks \cup {NoTask}]
  /\ sent \in [Tasks -> Nat]
  /\ broken \in BOOLEAN
  /\ main \in {"running", "joining", "returned", "panicked"}
  /\ writer \in {"opening", "open", "closed", "dead"}
  /\ queue \in Seq(Tasks \X Nat) /\ hand \in Seq(Tasks \X Nat)
  /\ buffer \in Seq(Tasks \X Nat) /\ file \in Seq(Tasks \X Nat)
  /\ failed \subseteq Tasks \X Nat /\ torn \subseteq failed

AllResults == UNION {{t} \X (1..Count[t]) : t \in Tasks}

\* A line of its own: it begins where a line ends, and ends.
Legible(r) ==
  \E i \in DOMAIN file : file[i] = r /\ r \notin torn /\ (i > 1 => file[i - 1] \notin torn)

\* The line of r continues that of f, whose write failed.
Continues(r, f) ==
  \E i \in DOMAIN file : i > 1 /\ file[i] = r /\ file[i - 1] = f /\ f \in torn

\* When execute_tasks returns, every result of every task is on a line of its own in the
\* file, but for those whose write failed and for the one that comes next after such a
\* failure and continues the line it left: each failed write costs at most one other
\* result, and no worker's panic, no failure to open or flush the file, no result still in
\* the channel when the tasks end, goes unnoticed.
NothingLost ==
  main = "returned" =>
    \A r \in AllResults : Legible(r) \/ r \in failed \/ \E f \in failed : Continues(r, f)

\* execute_tasks does not return from a write that failed (the sequential mode of the
\* FHM family panics): it does with a writer thread, which discards the error.
WriteErrorsSurface == main = "returned" => failed = {}

\* No result is written twice, not even in part, and a task's results are in the file in
\* the order it emitted them, whatever other tasks wrote between them.
InTaskOrder ==
  \A i, j \in DOMAIN file : i < j /\ file[i][1] = file[j][1] => file[i][2] < file[j][2]

\* The call ends: no worker waits for ever on a full channel and the writer thread
\* always sees the channel close, even when a task or the output file fails.
Ends == <>(main \in {"returned", "panicked"})

-----------------------------------------------------------------------------
(* What the proof of NothingLost carries from step to step *)

\* A task that is over has emitted all its results, unless one has panicked.
TasksFinish ==
  ~broken => \A t \in Tasks \ todo :
               (\A w \in Workers : task[w] # t) => sent[t] >= Count[t]

\* The caller waits for the tasks, then for the writer, which closes with nothing left.
Phases ==
  /\ main \in {"joining", "returned"} => todo = {} /\ Idle /\ ~broken
  /\ main = "returned" => writer = "closed"
  /\ ~Parallel /\ (broken \/ writer = "dead") => main = "panicked"
  /\ writer = "closed" => main # "running" /\ queue = <<>> /\ hand = <<>> /\ buffer = <<>>
  /\ ~Parallel => queue = <<>> /\ hand = <<>>
  /\ Len(hand) <= 1

Kept == Members(queue) \cup Members(hand) \cup Members(buffer) \cup Members(file)

\* What was emitted is in the channel, in the writer's hands, buffered or in the file, if
\* its write has not failed.
Conserved ==
  writer # "dead" => \A r \in AllResults : r[2] <= sent[r[1]] => r \in Kept \cup failed

PipelineInv == TypeOK /\ TasksFinish /\ Phases /\ Conserved
=============================================================================
