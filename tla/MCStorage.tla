------------------------------ MODULE MCStorage ------------------------------
(* The two clients of the chunk store, each in behaviours of its own: the buffer pool *)
(* and the chunker, whose constants and properties these are.                         *)
EXTENDS MCBufferPool, Chunker

VARIABLE chunks   \* whether this is a behaviour of the chunker

MCTransactions == {0, 1, 3, 4, 6}
MCTxBytes == [t \in MCTransactions |-> CASE t = 1 -> 16 [] t = 3 -> 48 [] OTHER -> 32]
MCPageSizes == {36, 68, 100}

StorageInit ==
  /\ Init /\ ChunkerInit
  /\ chunks \in BOOLEAN /\ (~chunks => page_size_bytes = 36)
  /\ chunks => budget_bytes = 1

StorageNext ==
  \/ ~chunks /\ Next /\ UNCHANGED <<chunks, chunkerVars>>
  \/ chunks /\ ChunkerNext /\ UNCHANGED <<chunks, vars>>

StorageSpec == StorageInit /\ [][StorageNext]_<<vars, chunkerVars, chunks>>
=============================================================================
