------------------------ MODULE ResultPipelineProofs ------------------------
(* Proofs about ResultPipeline, for any tasks, workers, capacity and faults. *)
EXTENDS ResultPipeline, SequenceTheorems, TLAPS

LEMMA MembersOfAppend ==
  ASSUME NEW T, NEW s \in Seq(T), NEW e \in T
  PROVE  Append(s, e) \in Seq(T) /\ Members(Append(s, e)) = Members(s) \cup {e}
<1>1. /\ Append(s, e) \in Seq(T) /\ Len(s) \in Nat
      /\ DOMAIN Append(s, e) = 1..(Len(s) + 1) /\ DOMAIN s = 1..Len(s)
      /\ \A i \in 1..Len(s) : Append(s, e)[i] = s[i]
      /\ Append(s, e)[Len(s) + 1] = e
  OBVIOUS
<1>2. 1..(Len(s) + 1) = (1..Len(s)) \cup {Len(s) + 1}
  BY <1>1
<1> QED
  BY <1>1, <1>2 DEF Members

LEMMA MembersOfConcat ==
  ASSUME NEW T, NEW s \in Seq(T), NEW u \in Seq(T)
  PROVE  s \o u \in Seq(T) /\ Members(s \o u) = Members(s) \cup Members(u)
<1>1. /\ s \o u \in Seq(T) /\ Len(s) \in Nat /\ Len(u) \in Nat
      /\ DOMAIN (s \o u) = 1..(Len(s) + Len(u))
      /\ DOMAIN s = 1..Len(s) /\ DOMAIN u = 1..Len(u)
      /\ \A i \in 1..(Len(s) + Len(u)) :
           (s \o u)[i] = IF i <= Len(s) THEN s[i] ELSE u[i - Len(s)]
  OBVIOUS
<1>2. Members(s \o u) \subseteq Members(s) \cup Members(u)
  <2> SUFFICES ASSUME NEW i \in 1..(Len(s) + Len(u))
               PROVE  (s \o u)[i] \in Members(s) \cup Members(u)
    BY <1>1 DEF Members
  <2>1. CASE i <= Len(s)
    BY <1>1, <2>1 DEF Members
  <2>2. CASE ~(i <= Len(s))
    <3>1. i - Len(s) \in 1..Len(u)
      BY <1>1, <2>2
    <3> QED
      BY <1>1, <2>2, <3>1 DEF Members
  <2> QED
    BY <2>1, <2>2
<1>3. Members(s) \subseteq Members(s \o u)
  <2> SUFFICES ASSUME NEW i \in 1..Len(s)
               PROVE  s[i] \in Members(s \o u)
    BY <1>1 DEF Members
  <2>1. i \in 1..(Len(s) + Len(u)) /\ (s \o u)[i] = s[i]
    BY <1>1
  <2> QED
    BY <1>1, <2>1 DEF Members
<1>4. Members(u) \subseteq Members(s \o u)
  <2> SUFFICES ASSUME NEW i \in 1..Len(u)
               PROVE  u[i] \in Members(s \o u)
    BY <1>1 DEF Members
  <2>1. i + Len(s) \in 1..(Len(s) + Len(u)) /\ (s \o u)[i + Len(s)] = u[i]
    BY <1>1
  <2> QED
    BY <1>1, <2>1 DEF Members
<1> QED
  BY <1>1, <1>2, <1>3, <1>4

LEMMA MembersOfHeadTail ==
  ASSUME NEW T, NEW s \in Seq(T), s # <<>>
  PROVE  /\ Tail(s) \in Seq(T) /\ Head(s) \in T
         /\ <<Head(s)>> \in Seq(T) /\ Members(<<Head(s)>>) = {Head(s)}
         /\ Members(s) = {Head(s)} \cup Members(Tail(s))
<1>1. /\ Tail(s) \in Seq(T) /\ Head(s) \in T /\ Head(s) = s[1]
      /\ Len(s) \in Nat \ {0} /\ Len(Tail(s)) = Len(s) - 1
      /\ DOMAIN Tail(s) = 1..(Len(s) - 1) /\ DOMAIN s = 1..Len(s)
      /\ \A i \in 1..(Len(s) - 1) : Tail(s)[i] = s[i + 1]
  OBVIOUS
<1>2. <<Head(s)>> \in Seq(T) /\ Members(<<Head(s)>>) = {Head(s)}
  BY <1>1 DEF Members
<1>3. Members(Tail(s)) \subseteq Members(s)
  BY <1>1 DEF Members
<1>4. \A i \in 1..Len(s) : i = 1 \/ (i - 1 \in 1..(Len(s) - 1) /\ Tail(s)[i - 1] = s[i])
  BY <1>1
<1>5. Members(s) \subseteq {Head(s)} \cup Members(Tail(s))
  <2> SUFFICES ASSUME NEW i \in 1..Len(s)
               PROVE  s[i] \in {Head(s)} \cup Members(Tail(s))
    BY <1>1 DEF Members
  <2>1. CASE i = 1
    BY <1>1, <2>1
  <2>2. CASE i # 1
    <3>1. i - 1 \in DOMAIN Tail(s) /\ Tail(s)[i - 1] = s[i]
      BY <1>1, <1>4, <2>2
    <3> QED
      BY <3>1 DEF Members
  <2> QED
    BY <2>1, <2>2
<1>6. Head(s) \in Members(s)
  BY <1>1 DEF Members
<1> QED
  BY <1>1, <1>2, <1>3, <1>5, <1>6

LEMMA MembersOfEmpty == Members(<<>>) = {}
  BY DEF Members

\* The two parts of a sequence that is cut after k.
LEMMA CutInTwo ==
  ASSUME NEW T, NEW s \in Seq(T), NEW k \in 0..Len(s)
  PROVE  /\ SubSeq(s, 1, k) \in Seq(T) /\ DOMAIN SubSeq(s, 1, k) = 1..k
         /\ \A i \in 1..k : i \in DOMAIN s /\ SubSeq(s, 1, k)[i] = s[i]
         /\ SubSeq(s, k + 1, Len(s)) \in Seq(T)
         /\ DOMAIN SubSeq(s, k + 1, Len(s)) = 1..(Len(s) - k)
         /\ \A i \in 1..(Len(s) - k) :
              k + i \in DOMAIN s /\ SubSeq(s, k + 1, Len(s))[i] = s[k + i]
<1>1. Len(s) \in Nat /\ DOMAIN s = 1..Len(s) /\ \A i \in 1..Len(s) : s[i] \in T
  OBVIOUS
<1>2. /\ SubSeq(s, 1, k) \in Seq(T) /\ Len(SubSeq(s, 1, k)) = k
      /\ \A i \in 1..k : SubSeq(s, 1, k)[i] = s[i]
  BY <1>1, SMTT(30)
<1>3. /\ SubSeq(s, k + 1, Len(s)) \in Seq(T) /\ Len(SubSeq(s, k + 1, Len(s))) = Len(s) - k
      /\ \A i \in 1..(Len(s) - k) : SubSeq(s, k + 1, Len(s))[i] = s[k + i]
  <2>1. k + 1 \in Int /\ Len(s) \in Int /\ \A i \in (k + 1)..Len(s) : s[i] \in T
    BY <1>1
  <2>2. /\ SubSeq(s, k + 1, Len(s)) \in Seq(T)
        /\ Len(SubSeq(s, k + 1, Len(s))) =
             IF k + 1 <= Len(s) THEN Len(s) - (k + 1) + 1 ELSE 0
        /\ \A i \in 1..(Len(s) - (k + 1) + 1) : SubSeq(s, k + 1, Len(s))[i] = s[(k + 1) + i - 1]
    BY <2>1, SubSeqProperties
  <2>3. /\ Len(s) - (k + 1) + 1 = Len(s) - k
        /\ (IF k + 1 <= Len(s) THEN Len(s) - (k + 1) + 1 ELSE 0) = Len(s) - k
        /\ \A i \in 1..(Len(s) - k) : (k + 1) + i - 1 = k + i
    <3> DEFINE n == Len(s)
    <3>1. n \in Nat /\ k \in 0..n
      BY <1>1
    <3> HIDE DEF n
    <3>2. n - (k + 1) + 1 = n - k /\ (k + 1 <= n \/ n - k = 0)
      BY <3>1
    <3>3. \A i \in 1..(n - k) : (k + 1) + i - 1 = k + i
      BY <3>1
    <3> QED
      BY <3>2, <3>3 DEF n
  <2> QED
    BY <2>2, <2>3, ZenonT(30)
<1>4. DOMAIN SubSeq(s, 1, k) = 1..k /\ \A i \in 1..k : i \in DOMAIN s
  BY <1>1, <1>2
<1>5. /\ DOMAIN SubSeq(s, k + 1, Len(s)) = 1..(Len(s) - k)
      /\ \A i \in 1..(Len(s) - k) : k + i \in DOMAIN s
  <2> DEFINE b == SubSeq(s, k + 1, Len(s))
  <2>1. b \in Seq(T) /\ Len(b) = Len(s) - k
    BY <1>3
  <2> HIDE DEF b
  <2>2. DOMAIN b = 1..(Len(s) - k)
    BY <2>1
  <2>3. \A i \in 1..(Len(s) - k) : k + i \in DOMAIN s
    BY <1>1
  <2> QED
    BY <2>2, <2>3 DEF b
<1> QED
  BY <1>2, <1>3, <1>4, <1>5

LEMMA MembersOfCut ==
  ASSUME NEW T, NEW s \in Seq(T), NEW k \in 0..Len(s)
  PROVE  Members(s) = Members(SubSeq(s, 1, k)) \cup Members(SubSeq(s, k + 1, Len(s)))
<1> DEFINE a == SubSeq(s, 1, k)
           b == SubSeq(s, k + 1, Len(s))
<1>1. /\ Len(s) \in Nat /\ DOMAIN s = 1..Len(s) /\ DOMAIN a = 1..k /\ DOMAIN b = 1..(Len(s) - k)
      /\ \A i \in 1..k : i \in DOMAIN s /\ a[i] = s[i]
      /\ \A i \in 1..(Len(s) - k) : k + i \in DOMAIN s /\ b[i] = s[k + i]
  BY CutInTwo
<1> HIDE DEF a, b
<1>2. Members(a) \subseteq Members(s) /\ Members(b) \subseteq Members(s)
  BY <1>1 DEF Members
<1>3. ASSUME NEW i \in DOMAIN s
      PROVE  s[i] \in Members(a) \cup Members(b)
  <2>1. CASE i <= k
    <3>1. i \in DOMAIN a /\ a[i] = s[i]
      BY <1>1, <2>1
    <3> QED
      BY <3>1 DEF Members
  <2>2. CASE ~(i <= k)
    <3>1. i - k \in 1..(Len(s) - k) /\ k + (i - k) = i
      BY <1>1, <2>2
    <3>2. i - k \in DOMAIN b /\ b[i - k] = s[i]
      BY <1>1, <3>1
    <3> QED
      BY <3>2 DEF Members
  <2> QED
    BY <2>1, <2>2
<1>4. Members(s) \subseteq Members(a) \cup Members(b)
  BY <1>3 DEF Members
<1> QED
  BY <1>2, <1>4 DEF a, b

-----------------------------------------------------------------------------
(* Types and phases *)

Base == TypeOK /\ TasksFinish /\ Phases

LEMMA BaseInit == Init => Base
<1> SUFFICES ASSUME Init
             PROVE  Base
  OBVIOUS
<1>1. <<>> \in Seq(Tasks \X Nat) /\ Len(<<>>) = 0
  OBVIOUS
<1>2. TypeOK
  BY <1>1 DEF Init, TypeOK
<1>3. TasksFinish
  BY DEF Init, TasksFinish
<1>4. Phases
  BY <1>1 DEF Init, Phases
<1> QED
  BY <1>2, <1>3, <1>4 DEF Base

\* What one write does to the types of the two ends of the file.
LEMMA WriteType ==
  ASSUME TypeOK, NEW r \in Tasks \X Nat, Write(r)
  PROVE  /\ buffer' \in Seq(Tasks \X Nat) /\ file' \in Seq(Tasks \X Nat)
         /\ Members(buffer)' \cup Members(file)' = Members(buffer) \cup Members(file) \cup {r}
<1>1. buffer \in Seq(Tasks \X Nat) /\ file \in Seq(Tasks \X Nat)
  BY DEF TypeOK
<1>2. CASE buffer' = Append(buffer, r) /\ file' = file
  <2>1. /\ Append(buffer, r) \in Seq(Tasks \X Nat)
        /\ Members(Append(buffer, r)) = Members(buffer) \cup {r}
    BY <1>1, MembersOfAppend, SMTT(30)
  <2>2. Members(buffer)' = Members(Append(buffer, r)) /\ Members(file)' = Members(file)
    BY <1>2 DEF Members
  <2> QED
    BY <1>1, <1>2, <2>1, <2>2
<1>3. CASE buffer' = <<r>> /\ file' = file \o buffer
  <2>1. <<r>> \in Seq(Tasks \X Nat) /\ Members(<<r>>) = {r}
    BY DEF Members
  <2> QED
    BY <1>1, <1>3, <2>1, MembersOfConcat
<1> QED
  BY <1>2, <1>3 DEF Write

LEMMA MovesType ==
  ASSUME TypeOK, NEW s \in Seq(Tasks \X Nat), Moves(s)
  PROVE  /\ buffer' \in Seq(Tasks \X Nat) /\ file' \in Seq(Tasks \X Nat)
         /\ Members(buffer)' \cup Members(file)' = Members(s) \cup Members(file)
<1>1. file \in Seq(Tasks \X Nat)
  BY DEF TypeOK
<1>2. PICK k \in 0..Len(s) : /\ file' = file \o SubSeq(s, 1, k)
                             /\ buffer' = SubSeq(s, k + 1, Len(s))
  BY DEF Moves
<1>3. SubSeq(s, 1, k) \in Seq(Tasks \X Nat) /\ SubSeq(s, k + 1, Len(s)) \in Seq(Tasks \X Nat)
  BY CutInTwo
<1>4. /\ file' \in Seq(Tasks \X Nat)
      /\ Members(file') = Members(file) \cup Members(SubSeq(s, 1, k))
  <2> DEFINE a == SubSeq(s, 1, k)
  <2>1. a \in Seq(Tasks \X Nat) /\ file' = file \o a
    BY <1>2, <1>3
  <2> HIDE DEF a
  <2>2. file' \in Seq(Tasks \X Nat) /\ Members(file') = Members(file) \cup Members(a)
    BY <1>1, <2>1, MembersOfConcat
  <2> QED
    BY <2>2 DEF a
<1>5. Members(s) = Members(SubSeq(s, 1, k)) \cup Members(SubSeq(s, k + 1, Len(s)))
  BY MembersOfCut
<1>6. Members(buffer)' = Members(SubSeq(s, k + 1, Len(s))) /\ Members(file)' = Members(file')
  BY <1>2 DEF Members
<1> QED
  BY <1>2, <1>3, <1>4, <1>5, <1>6

\* A write that fails: what the buffer may have then, and what is known of it.
LEMMA FailType ==
  ASSUME TypeOK, NEW r \in Tasks \X Nat, NEW s, WriteFails(r, s)
  PROVE  /\ s \in Seq(Tasks \X Nat) /\ Members(buffer) \subseteq Members(s)
         /\ s = buffer \/ s = Append(buffer, r)
         /\ failed' = failed \cup {r} /\ failed' \subseteq Tasks \X Nat /\ torn' \subseteq failed'
<1>1. buffer \in Seq(Tasks \X Nat) /\ (s = buffer \/ s = Append(buffer, r))
  BY DEF TypeOK, WriteFails
<1>2. s \in Seq(Tasks \X Nat) /\ Members(buffer) \subseteq Members(s)
  <2>1. CASE s = buffer
    BY <1>1, <2>1
  <2>2. CASE s = Append(buffer, r)
    <3>1. /\ Append(buffer, r) \in Seq(Tasks \X Nat)
          /\ Members(Append(buffer, r)) = Members(buffer) \cup {r}
      BY <1>1, MembersOfAppend, SMTT(30)
    <3> QED
      BY <2>2, <3>1
  <2> QED
    BY <1>1, <2>1, <2>2
<1>3. failed' = failed \cup {r} /\ (torn' = torn \/ torn' = torn \cup {r})
  BY DEF WriteFails
<1> QED
  BY <1>1, <1>2, <1>3 DEF TypeOK

\* A panic keeps the invariant, whatever the task had emitted.
LEMMA PanicKeeps ==
  ASSUME Base, NEW w \in Workers, main = "running",
         NEW s \in Seq(Tasks \X Nat), Panic(w, s),
         sent' \in [Tasks -> Nat], failed' \subseteq Tasks \X Nat, torn' \subseteq failed'
  PROVE  Base'
<1>1. /\ TypeOK /\ Phases
      /\ task' = [task EXCEPT ![w] = NoTask] /\ broken' = TRUE
      /\ UNCHANGED <<threads, todo, queue, hand>>
  BY DEF Base, Panic
<1>2. TasksFinish'
  BY <1>1 DEF TasksFinish
<1>3. CASE Parallel
  <2>1. UNCHANGED <<main, writer, buffer, file>>
    BY <1>3 DEF Panic
  <2>2. TypeOK'
    BY <1>1, <2>1 DEF TypeOK, Workers
  <2>3. Phases'
    BY <1>1, <1>3, <2>1 DEF Phases, Parallel
  <2> QED
    BY <1>2, <2>2, <2>3 DEF Base
<1>4. CASE ~Parallel
  <2>1. /\ main' = "panicked" /\ Moves(s) /\ writer' \in {"closed", "dead"}
        /\ writer' = "closed" => buffer' = <<>>
    BY <1>4 DEF Panic, Closes
  <2>2. buffer' \in Seq(Tasks \X Nat) /\ file' \in Seq(Tasks \X Nat)
    BY <1>1, <2>1, MovesType
  <2>3. TypeOK'
    BY <1>1, <2>1, <2>2 DEF TypeOK, Workers
  <2>4. Phases'
    BY <1>1, <1>4, <2>1 DEF Phases, Parallel
  <2> QED
    BY <1>2, <2>3, <2>4 DEF Base
<1> QED
  BY <1>3, <1>4

\* So does the end of the writer, with the file flushed or not.
LEMMA FinalizeKeeps ==
  ASSUME Base, WriterFinalizes \/ SequentialFinalize
  PROVE  Base'
<1>1. /\ TypeOK /\ TasksFinish /\ Phases
      /\ UNCHANGED <<threads, todo, task, sent, broken, queue, hand, failed, torn>>
  BY DEF Base, WriterFinalizes, SequentialFinalize
<1>2. Closes(buffer) /\ buffer \in Seq(Tasks \X Nat)
  BY <1>1 DEF WriterFinalizes, SequentialFinalize, TypeOK
<1>3. /\ buffer' \in Seq(Tasks \X Nat) /\ file' \in Seq(Tasks \X Nat)
      /\ writer' \in {"closed", "dead"} /\ (writer' = "closed" => buffer' = <<>>)
  BY <1>1, <1>2, MovesType DEF Closes
<1>4. main' \in {"running", "joining", "returned", "panicked"}
  BY <1>1 DEF WriterFinalizes, SequentialFinalize, TypeOK
<1>5. TypeOK'
  BY <1>1, <1>3, <1>4 DEF TypeOK, Workers
<1>6. TasksFinish'
  BY <1>1 DEF TasksFinish, Workers
<1>7. CASE WriterFinalizes
  <2>1. main' = main /\ main # "running" /\ Parallel /\ hand = <<>> /\ queue = <<>>
        /\ writer = "open"
    BY <1>7 DEF WriterFinalizes, Drained, Disconnected
  <2>2. Phases'
    BY <1>1, <1>3, <2>1 DEF Phases, Parallel, Idle, Workers
  <2> QED
    BY <1>5, <1>6, <2>2 DEF Base
<1>8. CASE SequentialFinalize
  <2>1. /\ main = "running" /\ ~Parallel /\ todo = {} /\ Idle
        /\ \/ writer' = "closed" /\ main' = "returned"
           \/ writer' = "dead" /\ main' = "panicked"
    BY <1>3, <1>8 DEF SequentialFinalize
  <2>2. Phases'
    BY <1>1, <1>3, <2>1 DEF Phases, Parallel, Idle, Workers
  <2> QED
    BY <1>5, <1>6, <2>2 DEF Base
<1> QED
  BY <1>7, <1>8

LEMMA BaseStep == Base /\ [Next]_vars => Base'
<1> SUFFICES ASSUME Base, [Next]_vars
             PROVE  Base'
  OBVIOUS
<1>0. TypeOK /\ TasksFinish /\ Phases /\ NTasks \in Nat /\ Count \in [Tasks -> Nat]
  BY PipelineAssumption DEF Base
<1> USE <1>0 DEF output
<1>1. CASE UNCHANGED vars
  BY <1>1 DEF vars, Base, TypeOK, TasksFinish, Phases, Workers, Idle, Parallel
<1>2. CASE Open \/ OpenFails
  <2>1. TypeOK'
    BY <1>2 DEF Open, OpenFails, TypeOK, Workers
  <2>2. TasksFinish' /\ Phases'
    BY <1>2 DEF Open, OpenFails, TasksFinish, Phases, Workers, Idle, Parallel
  <2> QED
    BY <2>1, <2>2 DEF Base
<1>3. ASSUME NEW w \in Workers, NEW t \in Tasks, Take(w, t)
      PROVE  Base'
  <2>1. TypeOK'
    BY <1>3 DEF Take, TypeOK, Workers
  <2>2. Phases'
    BY <1>3 DEF Take, Phases, Parallel
  <2>3. \A x \in Tasks : x # NoTask
    BY DEF Tasks, NoTask
  <2>4. TasksFinish'
    BY <1>3, <2>3 DEF Take, TasksFinish, TypeOK, Workers
  <2> QED
    BY <2>1, <2>2, <2>4 DEF Base
<1>4. ASSUME NEW w \in Workers, Emit(w)
      PROVE  Base'
  <2>1. task[w] \in Tasks /\ NextResult(w) \in Tasks \X Nat /\ main = "running"
    BY <1>4 DEF Emit, Emits, NextResult, TypeOK, NoTask
  <2>2. sent' \in [Tasks -> Nat] /\ \A t \in Tasks : sent'[t] >= sent[t]
    BY <1>4, <2>1, SMTT(30) DEF Emit, Emitted, TypeOK
  <2>3. UNCHANGED <<threads, todo, task, broken, main, writer, hand, failed, torn>>
    BY <1>4 DEF Emit
  <2>4. /\ queue' \in Seq(Tasks \X Nat) /\ buffer' \in Seq(Tasks \X Nat)
        /\ file' \in Seq(Tasks \X Nat)
        /\ ~Parallel => queue' = queue
    <3>1. CASE Parallel
      <4>1. queue' = Append(queue, NextResult(w)) /\ UNCHANGED <<buffer, file>>
        BY <1>4, <3>1 DEF Emit
      <4>2. queue \in Seq(Tasks \X Nat)
        BY DEF TypeOK
      <4>3. Append(queue, NextResult(w)) \in Seq(Tasks \X Nat)
        BY <2>1, <4>2, MembersOfAppend
      <4> QED
        BY <3>1, <4>1, <4>3 DEF TypeOK
    <3>2. CASE ~Parallel
      BY <1>4, <2>1, <3>2, WriteType DEF Emit, TypeOK
    <3> QED
      BY <3>1, <3>2
  <2>5. TypeOK'
    BY <2>2, <2>3, <2>4 DEF TypeOK, Workers
  <2>6. TasksFinish'
    <3> SUFFICES ASSUME ~broken', NEW t \in Tasks \ todo', \A v \in Workers' : task'[v] # t
                 PROVE  sent'[t] >= Count[t]
      BY DEF TasksFinish
    <3>1. sent[t] >= Count[t]
      BY <2>3 DEF TasksFinish, Workers
    <3> QED
      BY <2>2, <3>1 DEF TypeOK
  <2>7. Phases'
    BY <2>1, <2>3, <2>4 DEF Phases, Parallel
  <2> QED
    BY <2>5, <2>6, <2>7 DEF Base
<1>5. ASSUME NEW w \in Workers, SendFails(w)
      PROVE  Base'
  <2>1. buffer \in Seq(Tasks \X Nat) /\ torn' \subseteq failed' /\ failed' \subseteq Tasks \X Nat
    BY <1>5 DEF SendFails, TypeOK
  <2>2. sent' \in [Tasks -> Nat] /\ main = "running" /\ Panic(w, buffer)
    BY <1>5 DEF SendFails, Emits, TypeOK
  <2> QED
    BY <2>1, <2>2, PanicKeeps
<1>6. ASSUME NEW w \in Workers, SequentialWriteFails(w)
      PROVE  Base'
  <2>1. task[w] \in Tasks /\ NextResult(w) \in Tasks \X Nat /\ main = "running"
    BY <1>6 DEF SequentialWriteFails, Emits, NextResult, TypeOK, NoTask
  <2>2. sent' \in [Tasks -> Nat] /\ \A t \in Tasks : sent'[t] >= sent[t]
    BY <1>6, <2>1 DEF SequentialWriteFails, Emitted, TypeOK
  <2>0. PICK s \in {buffer, Append(buffer, NextResult(w))} :
          /\ WriteFails(NextResult(w), s)
          /\ \/ Panic(w, s)
             \/ Moves(s) /\ UNCHANGED <<threads, todo, task, broken, main, writer, queue, hand>>
    BY <1>6 DEF SequentialWriteFails
  <2>3. s \in Seq(Tasks \X Nat) /\ failed' \subseteq Tasks \X Nat /\ torn' \subseteq failed'
    BY <2>0, <2>1, FailType
  <2>4. CASE Panic(w, s)
    BY <2>1, <2>2, <2>3, <2>4, PanicKeeps
  <2>5. CASE Moves(s) /\ UNCHANGED <<threads, todo, task, broken, main, writer, queue, hand>>
    <3>0. buffer' \in Seq(Tasks \X Nat) /\ file' \in Seq(Tasks \X Nat)
      BY <2>3, <2>5, MovesType
    <3>1. TypeOK'
      BY <2>2, <2>3, <2>5, <3>0 DEF TypeOK, Workers
    <3>2. TasksFinish'
      <4> SUFFICES ASSUME ~broken', NEW t \in Tasks \ todo', \A v \in Workers' : task'[v] # t
                   PROVE  sent'[t] >= Count[t]
        BY DEF TasksFinish
      <4>1. sent[t] >= Count[t]
        BY <2>5 DEF TasksFinish, Workers
      <4> QED
        BY <2>2, <4>1 DEF TypeOK
    <3>3. Phases'
      BY <2>1, <2>5 DEF Phases, Parallel, Idle, Workers
    <3> QED
      BY <3>1, <3>2, <3>3 DEF Base
  <2> QED
    BY <2>0, <2>4, <2>5
<1>7. ASSUME NEW w \in Workers, TaskPanics(w)
      PROVE  Base'
  <2>1. buffer \in Seq(Tasks \X Nat) /\ torn' \subseteq failed' /\ failed' \subseteq Tasks \X Nat
    BY <1>7 DEF TaskPanics, TypeOK
  <2>2. sent' \in [Tasks -> Nat] /\ main = "running" /\ Panic(w, buffer)
    BY <1>7 DEF TaskPanics, TypeOK
  <2> QED
    BY <2>1, <2>2, PanicKeeps
<1>8. ASSUME NEW w \in Workers, TaskEnds(w)
      PROVE  Base'
  <2>1. TypeOK'
    BY <1>8 DEF TaskEnds, TypeOK, Workers
  <2>2. Phases'
    BY <1>8 DEF TaskEnds, Phases, Parallel
  <2>3. task[w] \in Tasks /\ sent[task[w]] >= Count[task[w]]
    BY <1>8 DEF TaskEnds, TypeOK
  <2>4. TasksFinish'
    BY <1>8, <2>3 DEF TaskEnds, TasksFinish, TypeOK, Workers
  <2> QED
    BY <2>1, <2>2, <2>4 DEF Base
<1>9. CASE Skip
  BY <1>9 DEF Skip, Base, TypeOK, TasksFinish, Phases, Workers, Idle, Parallel
<1>10. CASE Recv
  <2>1. /\ queue \in Seq(Tasks \X Nat) /\ queue # <<>> /\ writer = "open" /\ Parallel
        /\ queue' = Tail(queue) /\ hand' = <<Head(queue)>>
        /\ UNCHANGED <<threads, todo, task, sent, broken, main, writer, buffer, file, failed, torn>>
    BY <1>10 DEF Recv, TypeOK
  <2>2. queue' \in Seq(Tasks \X Nat) /\ hand' \in Seq(Tasks \X Nat) /\ Len(hand') = 1
    BY <2>1, MembersOfHeadTail
  <2>3. TypeOK'
    BY <2>1, <2>2 DEF TypeOK, Workers
  <2>4. TasksFinish' /\ Phases'
    BY <2>1, <2>2 DEF TasksFinish, Phases, Workers, Idle, Parallel
  <2> QED
    BY <2>3, <2>4 DEF Base
<1>11. CASE WriterWrites \/ WriterWriteFails
  <2>1. /\ hand' = <<>> /\ hand # <<>> /\ Head(hand) \in Tasks \X Nat
        /\ UNCHANGED <<threads, todo, task, sent, broken, main, writer, queue>>
    BY <1>11, MembersOfHeadTail DEF WriterWrites, WriterWriteFails, TypeOK
  <2>3. /\ buffer' \in Seq(Tasks \X Nat) /\ file' \in Seq(Tasks \X Nat)
        /\ failed' \subseteq Tasks \X Nat /\ torn' \subseteq failed'
    <3>1. CASE WriterWrites
      <4>1. Write(Head(hand)) /\ UNCHANGED <<failed, torn>>
        BY <3>1 DEF WriterWrites
      <4> QED
        BY <2>1, <4>1, WriteType DEF TypeOK
    <3>2. CASE WriterWriteFails
      <4>1. PICK s : WriteFails(Head(hand), s) /\ Moves(s)
        BY <3>2 DEF WriterWriteFails
      <4>2. s \in Seq(Tasks \X Nat) /\ failed' \subseteq Tasks \X Nat /\ torn' \subseteq failed'
        BY <2>1, <4>1, FailType
      <4> QED
        BY <4>1, <4>2, MovesType
    <3> QED
      BY <1>11, <3>1, <3>2
  <2>4. <<>> \in Seq(Tasks \X Nat) /\ Len(<<>>) = 0
    OBVIOUS
  <2>5. TypeOK'
    BY <2>1, <2>3, <2>4 DEF TypeOK, Workers
  <2>6. TasksFinish' /\ Phases'
    BY <2>1, <2>4 DEF TasksFinish, Phases, Workers, Idle, Parallel
  <2> QED
    BY <2>5, <2>6 DEF Base
<1>12. CASE WriterFinalizes
  BY <1>12, FinalizeKeeps DEF WriterFinalizes
<1>13. CASE InstallEnds
  BY <1>13 DEF InstallEnds, Base, TypeOK, TasksFinish, Phases, Workers, Idle, Parallel
<1>14. CASE Join
  BY <1>14 DEF Join, Base, TypeOK, TasksFinish, Phases, Workers, Idle, Parallel
<1>15. CASE SequentialFinalize
  BY <1>15, FinalizeKeeps DEF SequentialFinalize
<1> HIDE <1>0 DEF Base
<1> QED
  BY <1>1, <1>2, <1>3, <1>4, <1>5, <1>6, <1>7, <1>8, <1>9, <1>10, <1>11, <1>12, <1>13,
     <1>14, <1>15 DEF Next, Worker, Writer, Caller

LEMMA BaseCorrect == Spec => []Base
  BY BaseInit, BaseStep, PTL DEF Spec

\* Every variable keeps its type.
THEOREM PipelineTypeOK == Spec => []TypeOK
<1>1. Base => TypeOK
  BY DEF Base
<1> QED
  BY <1>1, BaseCorrect, PTL

-----------------------------------------------------------------------------
(* No result is lost on its way *)

\* A step that emits nothing and drops nothing.
LEMMA KeepsAll ==
  ASSUME Conserved, sent' = sent, Kept \cup failed \subseteq Kept' \cup failed',
         writer' # "dead" => writer # "dead"
  PROVE  Conserved'
BY DEF Conserved

\* A step that emits the next result of a task and puts it somewhere.
LEMMA KeepsNew ==
  ASSUME TypeOK, Conserved, NEW t \in Tasks,
         sent' = [sent EXCEPT ![t] = @ + 1], <<t, sent[t] + 1>> \in Kept' \cup failed',
         Kept \cup failed \subseteq Kept' \cup failed',
         writer' # "dead" => writer # "dead"
  PROVE  Conserved'
<1> SUFFICES ASSUME writer' # "dead", NEW r \in AllResults, r[2] <= sent'[r[1]]
             PROVE  r \in Kept' \cup failed'
  BY DEF Conserved
<1>1. PICK x \in Tasks : r \in {x} \X (1..Count[x])
  BY DEF AllResults
<1>2. r = <<x, r[2]>> /\ r[1] = x /\ r[2] \in Nat
  BY <1>1, PipelineAssumption
<1>3. CASE r[2] <= sent[x]
  BY <1>2, <1>3 DEF Conserved
<1>4. CASE ~(r[2] <= sent[x])
  <2>1. x = t /\ r[2] = sent[t] + 1
    BY <1>2, <1>4 DEF TypeOK
  <2> QED
    BY <1>2, <2>1
<1> QED
  BY <1>3, <1>4

LEMMA ConservedInit == Init => Conserved
<1> SUFFICES ASSUME Init, NEW r \in AllResults, r[2] <= sent[r[1]]
             PROVE  FALSE
  BY DEF Conserved
<1>1. PICK x \in Tasks : r \in {x} \X (1..Count[x])
  BY DEF AllResults
<1> QED
  BY <1>1, PipelineAssumption DEF Init

\* Moving lines to the file loses none, and a panic does no more than that.
LEMMA MovesKeep ==
  ASSUME TypeOK, NEW s \in Seq(Tasks \X Nat), Members(buffer) \subseteq Members(s), Moves(s),
         UNCHANGED <<queue, hand>>
  PROVE  Kept \subseteq Kept'
<1>1. Members(queue)' = Members(queue) /\ Members(hand)' = Members(hand)
  BY DEF Members
<1>2. Members(buffer)' \cup Members(file)' = Members(s) \cup Members(file)
  BY MovesType
<1> QED
  BY <1>1, <1>2 DEF Kept

LEMMA PanicKeepsAll ==
  ASSUME Base, NEW w \in Workers, main = "running", NEW s \in Seq(Tasks \X Nat),
         Members(buffer) \subseteq Members(s), Panic(w, s)
  PROVE  Kept \subseteq Kept' /\ (writer' # "dead" => writer # "dead")
<1>1. CASE Parallel
  BY <1>1 DEF Panic, Kept, Members
<1>2. CASE ~Parallel
  <2>1. Moves(s) /\ UNCHANGED <<queue, hand>> /\ TypeOK
    BY <1>2 DEF Panic, Closes, Base
  <2>2. writer # "dead"
    BY <1>2 DEF Base, Phases
  <2> QED
    BY <2>1, <2>2, MovesKeep
<1> QED
  BY <1>1, <1>2

LEMMA EmitKeeps ==
  ASSUME Base, Conserved, NEW w \in Workers, Emit(w)
  PROVE  Conserved'
<1>1. /\ TypeOK /\ task[w] \in Tasks /\ NextResult(w) \in Tasks \X Nat
      /\ sent' = [sent EXCEPT ![task[w]] = @ + 1]
      /\ UNCHANGED <<writer, hand, failed>>
  <2>1. TypeOK
    BY DEF Base
  <2>2. task[w] # NoTask /\ Emitted(task[w]) /\ UNCHANGED <<writer, hand, failed>>
    BY DEF Emit, Emits
  <2>3. task[w] \in Tasks
    <3>1. task \in [Workers -> Tasks \cup {NoTask}]
      BY <2>1 DEF TypeOK
    <3> QED
      BY <2>2, <3>1
  <2>4. sent[task[w]] \in Nat
    <3>1. sent \in [Tasks -> Nat]
      BY <2>1 DEF TypeOK
    <3> QED
      BY <2>3, <3>1
  <2>5. NextResult(w) \in Tasks \X Nat
    BY <2>3, <2>4 DEF NextResult
  <2> QED
    BY <2>1, <2>2, <2>3, <2>5 DEF Emitted
<1>2. Kept' = Kept \cup {NextResult(w)}
  <2>1. CASE Parallel
    <3>1. queue' = Append(queue, NextResult(w)) /\ UNCHANGED <<buffer, file, hand>>
      BY <1>1, <2>1 DEF Emit
    <3>2. Members(Append(queue, NextResult(w))) = Members(queue) \cup {NextResult(w)}
      <4>1. queue \in Seq(Tasks \X Nat)
        BY <1>1 DEF TypeOK
      <4> QED
        BY <1>1, <4>1, MembersOfAppend
    <3>3. /\ Members(queue)' = Members(Append(queue, NextResult(w)))
          /\ Members(hand)' = Members(hand) /\ Members(buffer)' = Members(buffer)
          /\ Members(file)' = Members(file)
      BY <3>1 DEF Members
    <3> QED
      BY <3>2, <3>3 DEF Kept
  <2>2. CASE ~Parallel
    <3>1. Write(NextResult(w)) /\ UNCHANGED <<queue, hand>>
      BY <1>1, <2>2 DEF Emit
    <3>2. Members(queue)' = Members(queue) /\ Members(hand)' = Members(hand)
      BY <3>1 DEF Members
    <3> QED
      BY <1>1, <3>1, <3>2, WriteType DEF Kept
  <2> QED
    BY <2>1, <2>2
<1>3. <<task[w], sent[task[w]] + 1>> \in Kept' \cup failed'
  BY <1>2 DEF NextResult
<1>4. Kept \cup failed \subseteq Kept' \cup failed'
  BY <1>1, <1>2
<1> QED
  BY <1>1, <1>3, <1>4, KeepsNew

LEMMA SequentialFailKeeps ==
  ASSUME Base, Conserved, NEW w \in Workers, SequentialWriteFails(w)
  PROVE  Conserved'
<1>1. /\ TypeOK /\ task[w] \in Tasks /\ main = "running"
      /\ sent' = [sent EXCEPT ![task[w]] = @ + 1] /\ NextResult(w) \in Tasks \X Nat
  BY DEF Base, SequentialWriteFails, Emits, Emitted, NextResult, TypeOK, NoTask
<1>2. PICK s \in {buffer, Append(buffer, NextResult(w))} :
        /\ WriteFails(NextResult(w), s)
        /\ \/ Panic(w, s)
           \/ Moves(s) /\ UNCHANGED <<threads, todo, task, broken, main, writer, queue, hand>>
  BY DEF SequentialWriteFails
<1>3. /\ s \in Seq(Tasks \X Nat) /\ Members(buffer) \subseteq Members(s)
      /\ failed' = failed \cup {NextResult(w)}
  BY <1>1, <1>2, FailType
<1>4. Kept \subseteq Kept' /\ (writer' # "dead" => writer # "dead")
  <2>1. CASE Panic(w, s)
    BY <1>1, <1>3, <2>1, PanicKeepsAll
  <2>2. CASE Moves(s) /\ UNCHANGED <<threads, todo, task, broken, main, writer, queue, hand>>
    BY <1>1, <1>3, <2>2, MovesKeep
  <2> QED
    BY <1>2, <2>1, <2>2
<1>5. Kept \cup failed \subseteq Kept' \cup failed' /\ <<task[w], sent[task[w]] + 1>> \in failed'
  BY <1>3, <1>4 DEF NextResult
<1> QED
  BY <1>1, <1>4, <1>5, KeepsNew

LEMMA RecvKeeps ==
  ASSUME Base, Conserved, Recv
  PROVE  Conserved'
<1>1. /\ queue \in Seq(Tasks \X Nat) /\ queue # <<>> /\ hand = <<>>
      /\ queue' = Tail(queue) /\ hand' = <<Head(queue)>>
      /\ UNCHANGED <<sent, writer, buffer, file, failed>>
  BY DEF Base, Recv, TypeOK
<1>2. /\ Members(queue) = {Head(queue)} \cup Members(Tail(queue))
      /\ Members(<<Head(queue)>>) = {Head(queue)} /\ Members(<<>>) = {}
  BY <1>1, MembersOfHeadTail, MembersOfEmpty
<1>3. /\ Members(queue)' = Members(Tail(queue)) /\ Members(hand)' = Members(<<Head(queue)>>)
      /\ Members(buffer)' = Members(buffer) /\ Members(file)' = Members(file)
  BY <1>1 DEF Members
<1>4. Kept \subseteq Kept'
  BY <1>1, <1>2, <1>3 DEF Kept
<1> QED
  BY <1>1, <1>4, KeepsAll

LEMMA WriterWritesKeep ==
  ASSUME Base, Conserved, WriterWrites \/ WriterWriteFails
  PROVE  Conserved'
<1>1. /\ TypeOK /\ hand \in Seq(Tasks \X Nat) /\ hand # <<>> /\ hand' = <<>>
      /\ Len(hand) <= 1
      /\ UNCHANGED <<sent, writer, queue>>
  BY DEF Base, Phases, WriterWrites, WriterWriteFails, TypeOK
<1>2. Head(hand) \in Tasks \X Nat /\ Members(hand) = {Head(hand)}
  <2>1. Len(hand) = 1 /\ DOMAIN hand = 1..1 /\ Head(hand) = hand[1]
    <3>1. Len(hand) \in Nat \ {0} /\ DOMAIN hand = 1..Len(hand) /\ Head(hand) = hand[1]
      BY <1>1
    <3> QED
      BY <1>1, <3>1
  <2> QED
    BY <1>1, <2>1, MembersOfHeadTail DEF Members
<1>3. Members(queue)' = Members(queue) /\ Members(hand)' = {}
  BY <1>1, MembersOfEmpty DEF Members
<1>4. CASE WriterWrites
  <2>1. Write(Head(hand)) /\ UNCHANGED failed
    BY <1>4 DEF WriterWrites
  <2>2. Kept \subseteq Kept'
    BY <1>1, <1>2, <1>3, <2>1, WriteType DEF Kept
  <2> QED
    BY <1>1, <2>1, <2>2, KeepsAll
<1>5. CASE WriterWriteFails
  <2>1. PICK s : WriteFails(Head(hand), s) /\ Moves(s)
    BY <1>5 DEF WriterWriteFails
  <2>2. /\ s \in Seq(Tasks \X Nat) /\ Members(buffer) \subseteq Members(s)
        /\ failed' = failed \cup {Head(hand)}
    BY <1>1, <1>2, <2>1, FailType
  <2>3. Members(buffer)' \cup Members(file)' = Members(s) \cup Members(file)
    BY <1>1, <2>1, <2>2, MovesType
  <2>4. Kept \cup failed \subseteq Kept' \cup failed'
    BY <1>2, <1>3, <2>2, <2>3 DEF Kept
  <2> QED
    BY <1>1, <2>4, KeepsAll
<1> QED
  BY <1>4, <1>5

LEMMA FinalizeKeepsAll ==
  ASSUME Base, Conserved, WriterFinalizes \/ SequentialFinalize
  PROVE  Conserved'
<1>1. /\ TypeOK /\ writer = "open" /\ UNCHANGED <<sent, queue, hand, failed>>
      /\ Moves(buffer)
  BY DEF Base, WriterFinalizes, SequentialFinalize, Closes
<1>2. Kept \subseteq Kept'
  BY <1>1, MovesKeep DEF TypeOK
<1> QED
  BY <1>1, <1>2, KeepsAll

LEMMA ConservedStep == Base /\ Conserved /\ [Next]_vars => Conserved'
<1> SUFFICES ASSUME Base, Conserved, [Next]_vars
             PROVE  Conserved'
  OBVIOUS
<1>1. ASSUME UNCHANGED <<sent, output>>, writer' # "dead" => writer # "dead"
      PROVE  Conserved'
  BY <1>1, KeepsAll DEF output, Kept, Members
<1>2. CASE UNCHANGED vars
  BY <1>1, <1>2 DEF vars
<1>3. CASE Open \/ OpenFails
  BY <1>1, <1>3 DEF Open, OpenFails
<1>4. ASSUME NEW w \in Workers, NEW t \in Tasks, Take(w, t)
      PROVE  Conserved'
  BY <1>1, <1>4 DEF Take
<1>5. ASSUME NEW w \in Workers, SendFails(w) \/ TaskPanics(w)
      PROVE  Conserved'
  <2>1. main = "running" /\ Panic(w, buffer) /\ UNCHANGED <<sent, failed>>
    BY <1>5 DEF SendFails, TaskPanics, Emits
  <2>2. buffer \in Seq(Tasks \X Nat)
    BY DEF Base, TypeOK
  <2> QED
    BY <2>1, <2>2, PanicKeepsAll, KeepsAll
<1>6. ASSUME NEW w \in Workers, TaskEnds(w)
      PROVE  Conserved'
  BY <1>1, <1>6 DEF TaskEnds
<1>7. CASE Skip \/ InstallEnds \/ Join
  BY <1>1, <1>7 DEF Skip, InstallEnds, Join
<1> QED
  BY <1>2, <1>3, <1>4, <1>5, <1>6, <1>7, EmitKeeps, SequentialFailKeeps, RecvKeeps,
     WriterWritesKeep, FinalizeKeepsAll DEF Next, Worker, Writer, Caller

\* What is in the file, and did not fail, is on a line of its own or continues one that did.
LEMMA InFile ==
  ASSUME TypeOK, NEW r \in Members(file), r \notin failed
  PROVE  Legible(r) \/ \E f \in failed : Continues(r, f)
<1>1. PICK i \in DOMAIN file : file[i] = r
  BY DEF Members
<1>2. torn \subseteq failed /\ r \notin torn
  BY DEF TypeOK
<1>3. CASE i > 1 => file[i - 1] \notin torn
  BY <1>1, <1>2, <1>3 DEF Legible
<1>4. CASE i > 1 /\ file[i - 1] \in torn
  BY <1>1, <1>2, <1>4 DEF Continues
<1> QED
  BY <1>3, <1>4

\* execute_tasks returns only with every result on a line of its own in the file, but for
\* those whose write failed and those that continue the torn line of one whose write
\* failed: for any number of tasks and threads, any capacity, and with panics of tasks and
\* failures of the file wherever they happen.
THEOREM PipelineNothingLost == Spec => []NothingLost
<1>1. Base /\ Conserved => NothingLost
  <2> SUFFICES ASSUME Base, Conserved, main = "returned", NEW r \in AllResults
               PROVE  Legible(r) \/ r \in failed \/ \E f \in failed : Continues(r, f)
    BY DEF NothingLost
  <2>1. /\ todo = {} /\ Idle /\ ~broken /\ writer = "closed"
        /\ queue = <<>> /\ hand = <<>> /\ buffer = <<>>
    BY DEF Base, Phases
  <2>2. PICK x \in Tasks : r \in {x} \X (1..Count[x])
    BY DEF AllResults
  <2>3. sent[x] >= Count[x]
    <3>1. \A w \in Workers : task[w] # x
      BY <2>1, <2>2 DEF Idle, Tasks, NoTask
    <3> QED
      BY <2>1, <3>1 DEF Base, TasksFinish
  <2>4. r[1] = x /\ r[2] <= sent[r[1]]
    BY <2>2, <2>3, PipelineAssumption DEF Base, TypeOK
  <2>5. r \in Kept \cup failed
    BY <2>1, <2>4 DEF Conserved
  <2>6. r \in Members(file) \cup failed
    BY <2>1, <2>5, MembersOfEmpty DEF Kept
  <2> QED
    BY <2>6, InFile DEF Base
<1> QED
  BY <1>1, BaseCorrect, ConservedInit, ConservedStep, PTL DEF Spec

\* The invariant that carries the proof, in the form the runs check.
THEOREM PipelineInvariant == Spec => []PipelineInv
<1>1. Base /\ Conserved => PipelineInv
  BY DEF Base, PipelineInv
<1> QED
  BY <1>1, BaseCorrect, ConservedInit, ConservedStep, PTL DEF Spec

-----------------------------------------------------------------------------
(* Results keep the order of their task on their way to the file *)

Results == Tasks \X Nat

Ordered(s) ==
  \A i, j \in DOMAIN s : i < j /\ s[i][1] = s[j][1] => s[i][2] < s[j][2]

\* Of one task, what is in A was emitted before what is in B.
Earlier(A, B) == \A a \in A : \A b \in B : a[1] = b[1] => a[2] < b[2]

LEMMA OrderedShort ==
  /\ Ordered(<<>>)
  /\ \A r \in Results : Ordered(<<r>>)
<1>1. Ordered(<<>>)
  BY DEF Ordered
<1>2. ASSUME NEW r \in Results
      PROVE  Ordered(<<r>>)
  <2>1. DOMAIN <<r>> = 1..1
    OBVIOUS
  <2>2. \A i, j \in 1..1 : ~(i < j)
    OBVIOUS
  <2> QED
    BY <2>1, <2>2 DEF Ordered
<1> QED
  BY <1>1, <1>2

LEMMA OrderedAppend ==
  ASSUME NEW s \in Seq(Results), NEW r \in Results, Ordered(s), Earlier(Members(s), {r})
  PROVE  Ordered(Append(s, r))
<1> DEFINE long == Append(s, r)
<1>1. /\ Len(s) \in Nat /\ DOMAIN long = 1..(Len(s) + 1) /\ DOMAIN s = 1..Len(s)
      /\ \A i \in 1..Len(s) : long[i] = s[i]
      /\ long[Len(s) + 1] = r
  OBVIOUS
<1> HIDE DEF long
<1>2. SUFFICES ASSUME NEW i \in DOMAIN long, NEW j \in DOMAIN long, i < j,
                      long[i][1] = long[j][1]
               PROVE  long[i][2] < long[j][2]
  BY DEF Ordered, long
<1>3. i \in 1..Len(s) /\ long[i] = s[i] /\ s[i] \in Members(s)
  BY <1>1, <1>2 DEF Members
<1>4. CASE j \in 1..Len(s)
  BY <1>1, <1>2, <1>3, <1>4 DEF Ordered
<1>5. CASE j = Len(s) + 1
  BY <1>1, <1>2, <1>3, <1>5 DEF Earlier
<1> QED
  BY <1>1, <1>4, <1>5

LEMMA OrderedConcat ==
  ASSUME NEW s \in Seq(Results), NEW u \in Seq(Results), Ordered(s), Ordered(u),
         Earlier(Members(s), Members(u))
  PROVE  Ordered(s \o u)
<1> DEFINE long == s \o u
<1>1. /\ Len(s) \in Nat /\ Len(u) \in Nat /\ DOMAIN long = 1..(Len(s) + Len(u))
      /\ DOMAIN s = 1..Len(s) /\ DOMAIN u = 1..Len(u)
      /\ \A i \in 1..(Len(s) + Len(u)) :
           long[i] = IF i <= Len(s) THEN s[i] ELSE u[i - Len(s)]
  OBVIOUS
<1> HIDE DEF long
<1>2. SUFFICES ASSUME NEW i \in DOMAIN long, NEW j \in DOMAIN long, i < j,
                      long[i][1] = long[j][1]
               PROVE  long[i][2] < long[j][2]
  BY DEF Ordered, long
<1>3. CASE j <= Len(s)
  <2>1. i \in 1..Len(s) /\ j \in 1..Len(s) /\ long[i] = s[i] /\ long[j] = s[j]
    BY <1>1, <1>2, <1>3
  <2> QED
    BY <1>1, <1>2, <2>1 DEF Ordered
<1>4. CASE i <= Len(s) /\ ~(j <= Len(s))
  <2>1. /\ i \in DOMAIN s /\ long[i] = s[i]
        /\ j - Len(s) \in DOMAIN u /\ long[j] = u[j - Len(s)]
    BY <1>1, <1>2, <1>4
  <2>2. s[i] \in Members(s) /\ u[j - Len(s)] \in Members(u)
    BY <2>1 DEF Members
  <2> QED
    BY <1>2, <2>1, <2>2 DEF Earlier
<1>5. CASE ~(i <= Len(s))
  <2>1. /\ i - Len(s) \in DOMAIN u /\ long[i] = u[i - Len(s)]
        /\ j - Len(s) \in DOMAIN u /\ long[j] = u[j - Len(s)]
        /\ i - Len(s) < j - Len(s)
    BY <1>1, <1>2, <1>5
  <2> QED
    BY <1>2, <2>1 DEF Ordered
<1> QED
  BY <1>1, <1>3, <1>4, <1>5

LEMMA OrderedTail ==
  ASSUME NEW s \in Seq(Results), s # <<>>, Ordered(s)
  PROVE  Ordered(Tail(s)) /\ Earlier({Head(s)}, Members(Tail(s)))
<1>1. /\ Head(s) = s[1] /\ Len(s) \in Nat \ {0} /\ DOMAIN s = 1..Len(s)
      /\ DOMAIN Tail(s) = 1..(Len(s) - 1)
      /\ \A i \in 1..(Len(s) - 1) : Tail(s)[i] = s[i + 1]
  OBVIOUS
<1>2. \A i \in DOMAIN Tail(s) : i + 1 \in DOMAIN s /\ 1 < i + 1 /\ Tail(s)[i] = s[i + 1]
  BY <1>1
<1>3. 1 \in DOMAIN s
  BY <1>1
<1>4. Earlier({Head(s)}, Members(Tail(s)))
  BY <1>1, <1>2, <1>3 DEF Earlier, Members, Ordered
<1>5. ASSUME NEW i \in DOMAIN Tail(s), NEW j \in DOMAIN Tail(s), i < j,
             Tail(s)[i][1] = Tail(s)[j][1]
      PROVE  Tail(s)[i][2] < Tail(s)[j][2]
  <2>1. i + 1 < j + 1
    BY <1>1, <1>5
  <2> QED
    BY <1>2, <1>5, <2>1 DEF Ordered
<1> QED
  BY <1>4, <1>5 DEF Ordered

LEMMA OrderedCut ==
  ASSUME NEW s \in Seq(Results), NEW k \in 0..Len(s), Ordered(s)
  PROVE  /\ Ordered(SubSeq(s, 1, k)) /\ Ordered(SubSeq(s, k + 1, Len(s)))
         /\ Earlier(Members(SubSeq(s, 1, k)), Members(SubSeq(s, k + 1, Len(s))))
<1> DEFINE a == SubSeq(s, 1, k)
           b == SubSeq(s, k + 1, Len(s))
<1>1. /\ Len(s) \in Nat /\ DOMAIN s = 1..Len(s) /\ DOMAIN a = 1..k /\ DOMAIN b = 1..(Len(s) - k)
      /\ \A i \in 1..k : i \in DOMAIN s /\ a[i] = s[i]
      /\ \A i \in 1..(Len(s) - k) : k + i \in DOMAIN s /\ b[i] = s[k + i]
  BY CutInTwo
<1> HIDE DEF a, b
<1>2. Ordered(a)
  BY <1>1 DEF Ordered
<1>3. ASSUME NEW i \in DOMAIN b, NEW j \in DOMAIN b, i < j, b[i][1] = b[j][1]
      PROVE  b[i][2] < b[j][2]
  <2>1. /\ k + i < k + j /\ k + i \in DOMAIN s /\ k + j \in DOMAIN s
        /\ b[i] = s[k + i] /\ b[j] = s[k + j]
    BY <1>1, <1>3
  <2> QED
    BY <1>3, <2>1, ZenonT(30) DEF Ordered
<1>4. ASSUME NEW i \in DOMAIN a, NEW j \in DOMAIN b, a[i][1] = b[j][1]
      PROVE  a[i][2] < b[j][2]
  <2>1. /\ i < k + j /\ i \in DOMAIN s /\ k + j \in DOMAIN s
        /\ a[i] = s[i] /\ b[j] = s[k + j]
    BY <1>1
  <2> QED
    BY <1>4, <2>1, ZenonT(30) DEF Ordered
<1>5. Earlier(Members(a), Members(b))
  BY <1>4 DEF Earlier, Members
<1>6. Ordered(b)
  BY <1>3 DEF Ordered
<1> QED
  BY <1>2, <1>5, <1>6 DEF a, b

\* The parts of the way are in order, one after the other, and nothing on it was emitted
\* after the last result of its task.
InOrder ==
  /\ Ordered(queue) /\ Ordered(hand) /\ Ordered(buffer) /\ Ordered(file)
  /\ Earlier(Members(file), Members(buffer))
  /\ Earlier(Members(file) \cup Members(buffer), Members(hand) \cup Members(queue))
  /\ Earlier(Members(hand), Members(queue))
  /\ \A r \in Kept : r[2] <= sent[r[1]]

LEMMA KeptType ==
  ASSUME TypeOK
  PROVE  Kept \subseteq Results
BY DEF TypeOK, Kept, Members, Results

LEMMA OrderInit == Init => InOrder
  BY MembersOfEmpty, OrderedShort DEF Init, InOrder, Earlier, Kept

\* A write of what comes after all that was written.
LEMMA WriteOrder ==
  ASSUME TypeOK, NEW r \in Results, Write(r), Ordered(buffer), Ordered(file),
         Earlier(Members(file), Members(buffer)),
         Earlier(Members(file) \cup Members(buffer), {r})
  PROVE  Ordered(buffer)' /\ Ordered(file)' /\ Earlier(Members(file)', Members(buffer)')
<1>1. buffer \in Seq(Results) /\ file \in Seq(Results)
  BY DEF TypeOK, Results
<1>2. Earlier(Members(file), {r}) /\ Earlier(Members(buffer), {r})
  BY DEF Earlier
<1>3. CASE buffer' = Append(buffer, r) /\ file' = file
  <2>1. Ordered(Append(buffer, r)) /\ Members(Append(buffer, r)) = Members(buffer) \cup {r}
    BY <1>1, <1>2, OrderedAppend, MembersOfAppend
  <2>2. Earlier(Members(file), Members(buffer) \cup {r})
    BY <1>2 DEF Earlier
  <2> QED
    BY <1>3, <2>1, <2>2
<1>4. CASE buffer' = <<r>> /\ file' = file \o buffer
  <2>1. Ordered(file \o buffer) /\ Members(file \o buffer) = Members(file) \cup Members(buffer)
    BY <1>1, OrderedConcat, MembersOfConcat
  <2>2. Ordered(<<r>>) /\ Members(<<r>>) = {r}
    BY OrderedShort DEF Members
  <2> QED
    BY <1>4, <2>1, <2>2
<1> QED
  BY <1>3, <1>4 DEF Write

\* A step that moves nothing.
LEMMA StillInOrder ==
  ASSUME TypeOK, InOrder, UNCHANGED <<queue, hand, buffer, file>>,
         \A t \in Tasks : sent'[t] >= sent[t] /\ sent'[t] \in Nat
  PROVE  InOrder'
<1>1. Kept' = Kept
  BY DEF Kept
<1>2. ASSUME NEW r \in Kept
      PROVE  r[2] <= sent'[r[1]]
  <2>1. r \in Results
    BY KeptType
  <2>2. r[1] \in Tasks /\ r[2] \in Nat /\ r[2] <= sent[r[1]] /\ sent[r[1]] \in Nat
    BY <2>1 DEF InOrder, Results, TypeOK
  <2> QED
    BY <2>2
<1> QED
  BY <1>1, <1>2 DEF InOrder

\* Lines that come after those of the file are divided between the file and the buffer.
LEMMA MovesOrder ==
  ASSUME TypeOK, NEW s \in Seq(Results), Moves(s), Ordered(file), Ordered(s),
         Earlier(Members(file), Members(s))
  PROVE  Ordered(buffer)' /\ Ordered(file)' /\ Earlier(Members(file)', Members(buffer)')
<1>1. file \in Seq(Results)
  BY DEF TypeOK, Results
<1>2. PICK k \in 0..Len(s) : /\ file' = file \o SubSeq(s, 1, k)
                             /\ buffer' = SubSeq(s, k + 1, Len(s))
  BY DEF Moves
<1> DEFINE a == SubSeq(s, 1, k)
           b == SubSeq(s, k + 1, Len(s))
<1>3. a \in Seq(Results) /\ Ordered(a) /\ Ordered(b) /\ Earlier(Members(a), Members(b))
  BY CutInTwo, OrderedCut
<1>4. Members(s) = Members(a) \cup Members(b)
  BY MembersOfCut
<1>5. file' = file \o a /\ buffer' = b
  BY <1>2
<1> HIDE DEF a, b
<1>6. Earlier(Members(file), Members(a)) /\ Earlier(Members(file), Members(b))
  BY <1>4 DEF Earlier
<1>7. Ordered(file \o a) /\ Members(file \o a) = Members(file) \cup Members(a)
  BY <1>1, <1>3, <1>6, OrderedConcat, MembersOfConcat
<1>8. Earlier(Members(file) \cup Members(a), Members(b))
  BY <1>3, <1>6 DEF Earlier
<1> QED
  BY <1>3, <1>5, <1>7, <1>8

\* What was emitted stays so.
LEMMA StillEmitted ==
  ASSUME TypeOK, InOrder, \A t \in Tasks : sent'[t] >= sent[t] /\ sent'[t] \in Nat
  PROVE  \A r \in Kept : r[2] <= sent'[r[1]]
<1> SUFFICES ASSUME NEW r \in Kept
             PROVE  r[2] <= sent'[r[1]]
  OBVIOUS
<1>1. r \in Results
  BY KeptType
<1>2. r[1] \in Tasks /\ r[2] \in Nat /\ r[2] <= sent[r[1]] /\ sent[r[1]] \in Nat
  BY <1>1 DEF InOrder, Results, TypeOK
<1> QED
  BY <1>2

\* The buffer goes to the file, or a part of it.
LEMMA FlushOrder ==
  ASSUME TypeOK, InOrder, Moves(buffer), UNCHANGED <<queue, hand>>,
         \A t \in Tasks : sent'[t] >= sent[t] /\ sent'[t] \in Nat
  PROVE  InOrder'
<1>1. buffer \in Seq(Results)
  BY DEF TypeOK, Results
<1>2. Ordered(buffer)' /\ Ordered(file)' /\ Earlier(Members(file)', Members(buffer)')
  BY <1>1, MovesOrder DEF InOrder
<1>3. Members(buffer)' \cup Members(file)' = Members(buffer) \cup Members(file)
  BY <1>1, MovesType DEF Results
<1>4. Kept' = Kept
  BY <1>3 DEF Kept
<1>5. Members(file)' \cup Members(buffer)' = Members(file) \cup Members(buffer)
  BY <1>3
<1> QED
  BY <1>2, <1>4, <1>5, StillEmitted DEF InOrder

\* What the buffer may have after a write of r has failed is in order as the buffer was.
LEMMA FailOrder ==
  ASSUME TypeOK, NEW r \in Results, NEW s, WriteFails(r, s), Ordered(buffer), Ordered(file),
         Earlier(Members(file), Members(buffer)),
         Earlier(Members(file) \cup Members(buffer), {r})
  PROVE  /\ s \in Seq(Results) /\ Ordered(s) /\ Earlier(Members(file), Members(s))
         /\ Members(s) \subseteq Members(buffer) \cup {r}
<1>1. buffer \in Seq(Results) /\ (s = buffer \/ s = Append(buffer, r))
  BY DEF TypeOK, Results, WriteFails
<1>2. Earlier(Members(file), {r}) /\ Earlier(Members(buffer), {r})
  BY DEF Earlier
<1>3. CASE s = buffer
  BY <1>1, <1>3
<1>4. CASE s = Append(buffer, r)
  <2>1. /\ s \in Seq(Results) /\ Ordered(s) /\ Members(s) = Members(buffer) \cup {r}
    BY <1>1, <1>2, <1>4, OrderedAppend, MembersOfAppend
  <2> QED
    BY <1>2, <2>1 DEF Earlier
<1> QED
  BY <1>1, <1>3, <1>4

\* A task emits its next result.
LEMMA EmitOrder ==
  ASSUME Base, InOrder, NEW w \in Workers, Emit(w)
  PROVE  InOrder'
<1> DEFINE r == NextResult(w)
           t == task[w]
<1>1. /\ TypeOK /\ t \in Tasks /\ sent[t] \in Nat
      /\ sent' = [sent EXCEPT ![t] = @ + 1] /\ UNCHANGED hand
  <2>1. t # NoTask /\ Emitted(t) /\ UNCHANGED hand
    BY DEF Emit, Emits
  <2>2. TypeOK
    BY DEF Base
  <2>3. t \in Tasks
    BY <2>1, <2>2 DEF TypeOK
  <2> QED
    BY <2>1, <2>2, <2>3 DEF Emitted, TypeOK
<1>2. r = <<t, sent[t] + 1>> /\ r \in Results
  BY <1>1 DEF NextResult, Results
<1> HIDE DEF r, t
<1>3. r[1] = t /\ r[2] = sent[t] + 1
  BY <1>2
<1>4. ASSUME NEW a \in Kept
      PROVE  /\ a[1] = t => a[2] < r[2]
             /\ a[2] <= sent'[a[1]]
  <2>1. a \in Results
    BY <1>1, KeptType
  <2>2. a[1] \in Tasks /\ a[2] \in Nat /\ a[2] <= sent[a[1]] /\ sent[a[1]] \in Nat
    BY <1>1, <2>1 DEF InOrder, Results, TypeOK
  <2>3. sent'[a[1]] = IF a[1] = t THEN sent[t] + 1 ELSE sent[a[1]]
    BY <1>1, <2>2 DEF TypeOK
  <2> QED
    BY <1>1, <1>3, <2>2, <2>3
<1>5. Earlier(Kept, {r})
  BY <1>3, <1>4 DEF Earlier
<1>6. r[2] <= sent'[r[1]]
  BY <1>1, <1>3 DEF TypeOK
<1>7. CASE Parallel
  <2>1. queue' = Append(queue, r) /\ UNCHANGED <<buffer, file, hand>>
    BY <1>1, <1>7 DEF Emit, r
  <2>2. queue \in Seq(Results)
    BY <1>1 DEF TypeOK, Results
  <2>3. Earlier(Members(queue), {r})
    BY <1>5 DEF Earlier, Kept
  <2>4. Ordered(Append(queue, r)) /\ Members(Append(queue, r)) = Members(queue) \cup {r}
    BY <1>2, <2>2, <2>3, OrderedAppend, MembersOfAppend DEF InOrder
  <2>5. Kept' = Kept \cup {r}
    BY <2>1, <2>4 DEF Kept
  <2>6. /\ Earlier(Members(file) \cup Members(buffer), Members(hand) \cup Members(queue) \cup {r})
        /\ Earlier(Members(hand), Members(queue) \cup {r})
    BY <1>5 DEF Earlier, InOrder, Kept
  <2>7. \A a \in Kept' : a[2] <= sent'[a[1]]
    BY <1>4, <1>6, <2>5
  <2>8. Members(hand) \cup (Members(queue) \cup {r}) = Members(hand) \cup Members(queue) \cup {r}
    OBVIOUS
  <2> QED
    BY <2>1, <2>4, <2>6, <2>7, <2>8 DEF InOrder
<1>8. CASE ~Parallel
  <2>1. Write(r) /\ UNCHANGED <<queue, hand>> /\ queue = <<>> /\ hand = <<>>
    BY <1>1, <1>8 DEF Emit, r, Base, Phases
  <2>2. Earlier(Members(file) \cup Members(buffer), {r})
    BY <1>5 DEF Earlier, Kept
  <2>3. Ordered(buffer)' /\ Ordered(file)' /\ Earlier(Members(file)', Members(buffer)')
    BY <1>1, <1>2, <2>1, <2>2, WriteOrder DEF InOrder
  <2>4. Kept' = Kept \cup {r}
    <3>1. Members(buffer)' \cup Members(file)' = Members(buffer) \cup Members(file) \cup {r}
      BY <1>1, <1>2, <2>1, WriteType DEF Results
    <3> QED
      BY <2>1, <3>1 DEF Kept
  <2>5. \A a \in Kept' : a[2] <= sent'[a[1]]
    BY <1>4, <1>6, <2>4
  <2>6. Members(hand)' = {} /\ Members(queue)' = {} /\ \A A : Earlier(A, {}) /\ Earlier({}, A)
    BY <2>1, MembersOfEmpty DEF Earlier
  <2>7. Ordered(queue)' /\ Ordered(hand)'
    BY <2>1, OrderedShort
  <2> QED
    BY <2>3, <2>5, <2>6, <2>7 DEF InOrder
<1> QED
  BY <1>7, <1>8

LEMMA PanicOrder ==
  ASSUME Base, InOrder, NEW w \in Workers, Panic(w, buffer),
         \A t \in Tasks : sent'[t] >= sent[t] /\ sent'[t] \in Nat
  PROVE  InOrder'
<1>1. TypeOK /\ UNCHANGED <<queue, hand>>
  BY DEF Base, Panic
<1>2. UNCHANGED <<buffer, file>> \/ Moves(buffer)
  BY DEF Panic, Closes
<1> QED
  BY <1>1, <1>2, StillInOrder, FlushOrder

\* A sequential task whose write fails, and that panics or goes on.
LEMMA SequentialFailOrder ==
  ASSUME Base, InOrder, NEW w \in Workers, SequentialWriteFails(w)
  PROVE  InOrder'
<1> DEFINE r == NextResult(w)
           t == task[w]
<1>1. /\ TypeOK /\ t \in Tasks /\ sent[t] \in Nat
      /\ sent' = [sent EXCEPT ![t] = @ + 1]
      /\ queue = <<>> /\ hand = <<>>
  <2>1. t # NoTask /\ Emitted(t) /\ ~Parallel
    BY DEF SequentialWriteFails, Emits
  <2>2. TypeOK /\ queue = <<>> /\ hand = <<>>
    BY <2>1 DEF Base, Phases
  <2>3. t \in Tasks
    BY <2>1, <2>2 DEF TypeOK
  <2> QED
    BY <2>1, <2>2, <2>3 DEF Emitted, TypeOK
<1>2. r = <<t, sent[t] + 1>> /\ r \in Results
  BY <1>1 DEF NextResult, Results
<1>3. PICK s : WriteFails(r, s) /\ Moves(s) /\ UNCHANGED <<queue, hand>>
  BY DEF SequentialWriteFails, Panic, Closes
<1> HIDE DEF r, t
<1>4. r[1] = t /\ r[2] = sent[t] + 1
  BY <1>2
<1>5. \A x \in Tasks : sent'[x] >= sent[x] /\ sent'[x] \in Nat
  BY <1>1 DEF TypeOK
<1>6. ASSUME NEW a \in Kept, a[1] = t
      PROVE  a[2] < r[2]
  <2>1. a \in Results /\ a[2] <= sent[a[1]]
    BY <1>1, KeptType DEF InOrder
  <2>2. a[2] \in Nat
    BY <2>1 DEF Results
  <2> QED
    BY <1>1, <1>4, <1>6, <2>1, <2>2
<1>7. Earlier(Members(file) \cup Members(buffer), {r})
  BY <1>4, <1>6 DEF Earlier, Kept
<1>8. /\ s \in Seq(Results) /\ Ordered(s) /\ Earlier(Members(file), Members(s))
      /\ Members(s) \subseteq Members(buffer) \cup {r}
  BY <1>1, <1>2, <1>3, <1>7, FailOrder DEF InOrder
<1>9. Ordered(buffer)' /\ Ordered(file)' /\ Earlier(Members(file)', Members(buffer)')
  BY <1>1, <1>3, <1>8, MovesOrder DEF InOrder
<1>10. Members(buffer)' \cup Members(file)' = Members(s) \cup Members(file)
  BY <1>1, <1>3, <1>8, MovesType DEF Results
<1>11. Kept' \subseteq Kept \cup {r}
  BY <1>3, <1>8, <1>10 DEF Kept
<1>12. \A a \in Kept' : a[2] <= sent'[a[1]]
  <2>1. r[2] <= sent'[r[1]]
    BY <1>1, <1>4 DEF TypeOK
  <2>2. \A a \in Kept : a[2] <= sent'[a[1]]
    BY <1>1, <1>5, StillEmitted
  <2> QED
    BY <1>11, <2>1, <2>2
<1>13. /\ Members(hand)' = {} /\ Members(queue)' = {} /\ \A A : Earlier(A, {}) /\ Earlier({}, A)
       /\ Ordered(queue)' /\ Ordered(hand)'
  BY <1>1, <1>3, MembersOfEmpty, OrderedShort DEF Earlier
<1> QED
  BY <1>9, <1>12, <1>13 DEF InOrder

\* The first result of the channel comes to the hands of the writer thread.
LEMMA RecvOrder ==
  ASSUME Base, InOrder, Recv
  PROVE  InOrder'
<1>1. /\ TypeOK /\ hand = <<>> /\ queue # <<>> /\ queue \in Seq(Results)
      /\ hand' = <<Head(queue)>> /\ queue' = Tail(queue) /\ UNCHANGED <<sent, buffer, file>>
  BY DEF Base, Recv, TypeOK, Results
<1>2. /\ Members(queue) = {Head(queue)} \cup Members(Tail(queue)) /\ Head(queue) \in Results
      /\ Members(<<Head(queue)>>) = {Head(queue)}
  BY <1>1, MembersOfHeadTail
<1>3. Ordered(Tail(queue)) /\ Earlier({Head(queue)}, Members(Tail(queue)))
  BY <1>1, OrderedTail DEF InOrder
<1>4. Ordered(<<Head(queue)>>) /\ Members(hand) = {}
  BY <1>1, <1>2, OrderedShort, MembersOfEmpty
<1>5. Members(hand') \cup Members(queue') = Members(hand) \cup Members(queue)
  BY <1>1, <1>2, <1>4
<1>6. Kept' = Kept
  BY <1>1, <1>5 DEF Kept
<1> QED
  BY <1>1, <1>2, <1>3, <1>4, <1>5, <1>6 DEF InOrder

\* The writer thread writes what it has in its hands, or a part of it.
LEMMA WriterOrder ==
  ASSUME Base, InOrder, WriterWrites \/ WriterWriteFails
  PROVE  InOrder'
<1> DEFINE r == Head(hand)
<1>1. /\ TypeOK /\ hand \in Seq(Results) /\ hand # <<>> /\ hand' = <<>>
      /\ UNCHANGED <<sent, queue>>
      /\ Write(r) \/ \E s : WriteFails(r, s) /\ Moves(s)
  BY DEF Base, WriterWrites, WriterWriteFails, TypeOK, Results
<1>2. r \in Results /\ r \in Members(hand)
  BY <1>1, MembersOfHeadTail, ZenonT(30)
<1> HIDE DEF r
<1>3. Ordered(<<>>) /\ Members(<<>>) = {} /\ \A A : Earlier({}, A)
  BY OrderedShort, MembersOfEmpty DEF Earlier
<1>4. Earlier(Members(file) \cup Members(buffer), {r})
  BY <1>2 DEF InOrder, Earlier
<1>5. /\ Ordered(buffer)' /\ Ordered(file)' /\ Earlier(Members(file)', Members(buffer)')
      /\ Members(buffer)' \cup Members(file)' \subseteq Members(buffer) \cup Members(file) \cup {r}
  <2>1. CASE Write(r)
    <3>1. Ordered(buffer)' /\ Ordered(file)' /\ Earlier(Members(file)', Members(buffer)')
      BY <1>1, <1>2, <1>4, <2>1, WriteOrder DEF InOrder
    <3>2. Members(buffer)' \cup Members(file)' = Members(buffer) \cup Members(file) \cup {r}
      BY <1>1, <1>2, <2>1, WriteType DEF Results
    <3> QED
      BY <3>1, <3>2
  <2>2. ASSUME NEW s, WriteFails(r, s), Moves(s)
        PROVE  /\ Ordered(buffer)' /\ Ordered(file)' /\ Earlier(Members(file)', Members(buffer)')
               /\ Members(buffer)' \cup Members(file)'
                    \subseteq Members(buffer) \cup Members(file) \cup {r}
    <3>1. /\ s \in Seq(Results) /\ Ordered(s) /\ Earlier(Members(file), Members(s))
          /\ Members(s) \subseteq Members(buffer) \cup {r}
      BY <1>1, <1>2, <1>4, <2>2, FailOrder DEF InOrder
    <3>2. Ordered(buffer)' /\ Ordered(file)' /\ Earlier(Members(file)', Members(buffer)')
      BY <1>1, <2>2, <3>1, MovesOrder DEF InOrder
    <3>3. Members(buffer)' \cup Members(file)' = Members(s) \cup Members(file)
      BY <1>1, <2>2, <3>1, MovesType DEF Results
    <3> QED
      BY <3>1, <3>2, <3>3
  <2> QED
    BY <1>1, <2>1, <2>2
<1>6. Earlier(Members(file)' \cup Members(buffer)', Members(queue))
  BY <1>2, <1>5 DEF InOrder, Earlier
<1>7. Kept' \subseteq Kept
  BY <1>1, <1>2, <1>3, <1>5 DEF Kept
<1> QED
  BY <1>1, <1>3, <1>5, <1>6, <1>7 DEF InOrder

LEMMA OrderStep == Base /\ InOrder /\ [Next]_vars => InOrder'
<1> SUFFICES ASSUME Base, InOrder, [Next]_vars
             PROVE  InOrder'
  OBVIOUS
<1>0. TypeOK /\ \A t \in Tasks : sent[t] \in Nat /\ sent[t] >= sent[t]
  BY DEF Base, TypeOK
<1>1. ASSUME UNCHANGED <<sent, output>>
      PROVE  InOrder'
  BY <1>0, <1>1, StillInOrder DEF output
<1>2. CASE UNCHANGED vars
  BY <1>1, <1>2 DEF vars
<1>3. CASE Open \/ OpenFails
  BY <1>1, <1>3 DEF Open, OpenFails
<1>4. ASSUME NEW w \in Workers, NEW t \in Tasks, Take(w, t)
      PROVE  InOrder'
  BY <1>1, <1>4 DEF Take
<1>5. ASSUME NEW w \in Workers, SendFails(w) \/ TaskPanics(w)
      PROVE  InOrder'
  <2>1. Panic(w, buffer) /\ UNCHANGED sent
    BY <1>5 DEF SendFails, TaskPanics
  <2> QED
    BY <1>0, <2>1, PanicOrder
<1>6. ASSUME NEW w \in Workers, TaskEnds(w)
      PROVE  InOrder'
  BY <1>1, <1>6 DEF TaskEnds
<1>7. CASE Skip \/ InstallEnds \/ Join
  BY <1>1, <1>7 DEF Skip, InstallEnds, Join
<1>8. ASSUME NEW w \in Workers, SequentialWriteFails(w)
      PROVE  InOrder'
  BY <1>8, SequentialFailOrder
<1>9. CASE WriterFinalizes \/ SequentialFinalize
  <2>1. UNCHANGED <<sent, queue, hand>> /\ Moves(buffer)
    BY <1>9 DEF WriterFinalizes, SequentialFinalize, Closes
  <2> QED
    BY <1>0, <2>1, FlushOrder
<1> QED
  BY <1>2, <1>3, <1>4, <1>5, <1>6, <1>7, <1>8, <1>9, EmitOrder, RecvOrder, WriterOrder
     DEF Next, Worker, Writer, Caller

\* No result is written twice and those of a task are in the file in the order it emitted
\* them: for any number of tasks and threads, with panics and failures of the file.
THEOREM PipelineInTaskOrder == Spec => []InTaskOrder
<1>1. InOrder => InTaskOrder
  BY DEF InOrder, Ordered, InTaskOrder
<1> QED
  BY <1>1, BaseCorrect, OrderInit, OrderStep, PTL DEF Spec
=============================================================================
