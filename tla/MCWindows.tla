------------------------------ MODULE MCWindows ------------------------------
(* The memory guard with callers that free what they hold, and in behaviours of its  *)
(* own a caller that does not: HUIM-MMU, whose constants and properties these are.   *)
EXTENDS MCMemoryGuard, HuimMmu

VARIABLE streams   \* whether this is a behaviour of HUIM-MMU

MCItems == 1..2
MCTids == 0..5

\* Streams of six transactions, of which three vary.
MCStreams ==
  {[t \in MCTids |-> <<<<1, 1>>, a, <<0, 2>>, b, <<1, 0>>, c>>[t + 1]] :
     a, b, c \in {<<1, 0>>, <<1, 1>>, <<0, 2>>}}

LedgerInit ==
  /\ Init /\ StreamInit
  /\ streams \in BOOLEAN
  /\ ~streams => good = 0 /\ db[1] = db[3] /\ db[3] = db[5] /\ db[1] = <<1, 1>>

LedgerNext ==
  \/ ~streams /\ Next /\ UNCHANGED <<streams, streamVars>>
  \/ streams /\ StreamNext /\ UNCHANGED <<streams, vars>>
  \/ streams /\ outcome # "running" /\ UNCHANGED <<streams, streamVars, vars>>

LedgerSpec == LedgerInit /\ [][LedgerNext]_<<vars, streamVars, streams>>
=============================================================================
