----------------------------- MODULE PageStore -----------------------------
(***************************************************************************)
(* What the buffer pool promises its clients: pages that are created once, *)
(* opened by pin or pin_mut, changed only through an open pin_mut guard,   *)
(* and found unchanged by the next one to open them.                       *)
(***************************************************************************)
CONSTANTS Threads, Pages, Val, Absent

VARIABLES mem,   \* contents of each page
          open   \* each thread's guard: {} or {<<page, writable>>}

vars == <<mem, open>>

Init ==
  /\ mem = [p \in Pages |-> Absent]
  /\ open = [t \in Threads |-> {}]

Create(p, v) ==
  /\ mem[p] = Absent
  /\ mem' = [mem EXCEPT ![p] = v]
  /\ UNCHANGED open

Open(t, p, w) ==
  /\ open[t] = {}
  /\ mem[p] # Absent
  /\ open' = [open EXCEPT ![t] = {<<p, w>>}]
  /\ UNCHANGED mem

Write(t, p, v) ==
  /\ <<p, TRUE>> \in open[t]
  /\ mem' = [mem EXCEPT ![p] = v]
  /\ UNCHANGED open

Close(t) ==
  /\ open[t] # {}
  /\ open' = [open EXCEPT ![t] = {}]
  /\ UNCHANGED mem

Next ==
  \/ \E p \in Pages, v \in Val : Create(p, v)
  \/ \E t \in Threads, p \in Pages :
       \/ \E w \in BOOLEAN : Open(t, p, w)
       \/ \E v \in Val : Write(t, p, v)
  \/ \E t \in Threads : Close(t)

Spec == Init /\ [][Next]_vars
=============================================================================
