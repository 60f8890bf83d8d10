------------------------------- MODULE HuimMmu -------------------------------
(***************************************************************************)
(* HUIM-MMU: FHM on each window of a stream of transactions, and again     *)
(* once half of the window has been replaced.  What FHM writes for a       *)
(* window goes to a file of its own and from there to the end of the       *)
(* output.  An error of that copy is ignored and may leave a part of it,   *)
(* cut inside a line; what is copied next continues that line.  With more  *)
(* than one thread the same is true of FHM's own writes (ResultPipeline).  *)
(*                                                                         *)
(* FHM is what Huim promises, but for the pairs of items it takes from the *)
(* memory guard for its co-occurrence structure and never gives back: once *)
(* they are used up, it may find less.                                     *)
(***************************************************************************)
EXTENDS UtilityLists, Sequences

CONSTANTS
  Streams,       \* the databases to mine, transactions in the order of tids
  Thresholds,    \* ctx.min_utility
  WindowSize,
  PairRoom       \* pairs of items the memory guard has room for

ASSUME StreamAssumption ==
  /\ Tids = 0..(Cardinality(Tids) - 1)
  /\ Streams \subseteq Databases /\ Thresholds \subseteq Int
  /\ WindowSize \in Nat \ {0, 1} /\ PairRoom \in Nat

VARIABLES
  db, minUtility, good,  \* the stream, and how many lines there are before a malformed one
  next,                  \* transactions read
  window,
  pairs,                 \* pairs the guard has granted
  curtailed,             \* a request for a pair was refused
  output,                \* the lines of the output file that are as FHM meant them
  spoiled,               \* how many others it has, whatever they say
  torn,                  \* it ends inside a line, one of those
  lost,                  \* writes of results that failed
  huis_found, total,     \* FHM's running count, and the sum of what it returned
  outcome                \* "running", "ok" or "error"

stream == <<db, minUtility, good>>
copied == <<output, spoiled, torn, lost>>
streamVars ==
  <<stream, next, window, pairs, curtailed, copied, huis_found, total, outcome>>

StreamInit ==
  /\ db \in Streams /\ minUtility \in Thresholds /\ good \in 0..Cardinality(Tids)
  /\ next = 0 /\ window = <<>> /\ pairs = 0 /\ curtailed = FALSE
  /\ output = {} /\ spoiled = 0 /\ torn = FALSE /\ lost = 0
  /\ huis_found = 0 /\ total = 0 /\ outcome = "running"

-----------------------------------------------------------------------------
(* FHM on a window *)

\* The file the window is written to, as a database.
Written(w) ==
  [t \in Tids |-> IF \E i \in DOMAIN w : w[i] = t THEN db[t] ELSE [x \in Items |-> 0]]

\* Mutant of FhmResults: the threshold is lowered for a window.
FhmResultsLow(w) ==
  {[itemset |-> S, utility |-> Utility(Written(w), S)] :
     S \in {T \in (SUBSET Items) \ {{}} : Utility(Written(w), T) >= minUtility \div 2}}

\* What Fhm::run writes for a window: Huim's Results, of this database.
FhmResults(w) ==
  {[itemset |-> S, utility |-> Utility(Written(w), S)] :
     S \in {T \in (SUBSET Items) \ {{}} :
              Supporting(Written(w), T) # {} /\ Utility(Written(w), T) >= minUtility}}

\* The pairs of the co-occurrence structure.
PairsIn(w) ==
  {p \in SUBSET DOMAIN TwuFilter(Written(w), minUtility) :
     Cardinality(p) = 2 /\ Supporting(Written(w), p) # {}}

\* What comes next on a line that was cut: the first result, if there is one.
Swallowed(found) == IF torn /\ found # {} THEN {{e} : e \in found} ELSE {{}}

\* The results on their way to the end of the output.  n writes fail, of FHM's to the file
\* of the window and of the copy: each spoils at most the one line that it leaves unended.
Copy(found) ==
  \E n \in 0..Cardinality(found) + 1, first \in Swallowed(found) :
    \E part \in SUBSET (found \ first) :
      /\ output' = output \cup part
      /\ spoiled' \in spoiled..spoiled + n
      /\ lost' = lost + n
      /\ torn' \in BOOLEAN
      /\ torn' => spoiled' > spoiled \/ (torn /\ part = {})
      /\ n = 0 => part = found \ first
      /\ n = 0 \/ found = {} => torn' = (torn /\ found = {})

\* All that happens with a full window, or with what is left in the end: Fhm::run, whose
\* results are found, and the copy of what it wrote.
Mine(found) ==
  LET wanted == pairs + Cardinality(PairsIn(window))
      all == FhmResults(window)
  IN  /\ pairs' = IF wanted > PairRoom THEN PairRoom ELSE wanted
      /\ curtailed' = (curtailed \/ wanted > PairRoom)
      /\ found \subseteq all /\ (wanted <= PairRoom => found = all)
      /\ huis_found' = huis_found + Cardinality(found)
      /\ total' = total + huis_found'
      /\ Copy(found)

\* A file cannot be created, or FHM returns an error or panics: so does the run.
Fails ==
  /\ outcome' = "error"
  /\ UNCHANGED <<window, pairs, curtailed, copied, huis_found, total>>

-----------------------------------------------------------------------------
(* The stream *)

\* The loop reads on until the window is full, and ends at a line it cannot parse.
Read ==
  /\ outcome = "running" /\ next < good /\ Len(window) < WindowSize
  /\ window' = Append(window, next)
  /\ next' = next + 1
  /\ UNCHANGED <<stream, pairs, curtailed, copied, huis_found, total, outcome>>

\* Mutant of Slid: the next window starts where this one ends.
SlidWhole(w) == <<>>

\* The older half is dropped.
Slid(w) == SubSeq(w, WindowSize \div 2 + 1, Len(w))

Slide ==
  /\ outcome = "running" /\ Len(window) = WindowSize
  /\ \/ /\ \E found \in SUBSET FhmResults(window) : Mine(found)
        /\ window' = Slid(window)
        /\ UNCHANGED outcome
     \/ Fails
  /\ UNCHANGED <<stream, next>>

Finish ==
  /\ outcome = "running" /\ next = good /\ Len(window) < WindowSize
  /\ \/ /\ window = <<>> /\ outcome' = "ok"
        /\ UNCHANGED <<window, pairs, curtailed, copied, huis_found, total>>
     \/ /\ window # <<>>
        /\ \E found \in SUBSET FhmResults(window) : Mine(found)
        /\ outcome' = "ok"
        /\ UNCHANGED window
     \/ window # <<>> /\ Fails
  /\ UNCHANGED <<stream, next>>

StreamNext == Read \/ Slide \/ Finish

StreamSpec == StreamInit /\ [][StreamNext]_streamVars

-----------------------------------------------------------------------------
(* Properties *)

Overlap == WindowSize - WindowSize \div 2

\* A run in which no write failed and that has not wanted for memory has found every itemset that
\* reaches the threshold in a stretch of the stream that is at most one longer than the
\* part of a window that stays: no stretch of that length falls between two windows,
\* wherever the stream ends.
StretchesMined ==
  outcome = "ok" /\ lost = 0 /\ ~curtailed =>
    \A i \in 0..good - 1 :
      LET stretch == [k \in 1..Overlap + 1 |-> i + k - 1] IN
      i + Overlap < good =>
        \A e \in FhmResults(stretch) :
          \E f \in output : f.itemset = e.itemset /\ f.utility >= e.utility

\* Whatever fails, all lines of the output but at most one for each write that failed are of
\* itemsets that reach the threshold, and no window counts a transaction more than once.
OutputSound ==
  /\ \A e \in output : minUtility <= e.utility /\ e.utility <= Utility(db, e.itemset)
  /\ spoiled <= lost
=============================================================================
