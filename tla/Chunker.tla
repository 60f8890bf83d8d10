------------------------------- MODULE Chunker -------------------------------
(***************************************************************************)
(* Transactions packed into pages of the chunk store, and the directory    *)
(* that finds the page of a transaction (preprocessing/chunker.rs).  A     *)
(* write of the store may fail: the call that wanted it returns the error, *)
(* and may be made again.                                                  *)
(***************************************************************************)
EXTENDS Integers, Sequences, Functions, Footprints

CONSTANTS
  Transactions,   \* tids, handed over in ascending order
  TxBytes,        \* bytes of each transaction on a page
  MaxTxBytes,     \* no transaction has more of them
  PageSizes       \* page_size_bytes of the chunker

ASSUME ChunkerAssumption ==
  /\ Transactions \subseteq Nat
  /\ MaxTxBytes \in Nat /\ TxBytes \in [Transactions -> 0..MaxTxBytes]
  /\ PageSizes \subseteq Nat

VARIABLES
  page_size_bytes,
  current_page_buf,    \* the transactions in it
  current_page_start_tid, current_page_end_tid,
  current_page_id,
  pages,               \* the store: page ids to transactions, or to Unwritten
  directory,           \* tids at which a page starts to its last tid and its id
  given,               \* transactions add_transaction has taken
  returned             \* what finalize has returned: "ok", "error" or nothing yet

tidVars == <<current_page_start_tid, current_page_end_tid>>
pageVars == <<pages, directory, current_page_id>>
chunkerVars == <<page_size_bytes, current_page_buf, tidVars, pageVars, given, returned>>

HeaderBytes == 4
Unwritten == <<-1>>

ChunkerInit ==
  /\ page_size_bytes \in PageSizes
  /\ current_page_buf = <<>> /\ current_page_start_tid = 0 /\ current_page_end_tid = 0
  /\ current_page_id = 0
  /\ pages = [p \in {} |-> <<>>] /\ directory = [t \in {} |-> [end |-> 0, page |-> 0]]
  /\ given = {} /\ returned = "nothing"

Put(f, x, y) == [z \in DOMAIN f \cup {x} |-> IF z = x THEN y ELSE f[z]]

-----------------------------------------------------------------------------
(* Pages *)

BytesOf(txs) == HeaderBytes + Footprint(Range(txs), TxBytes, MaxTxBytes)

\* Mutant of Full: the transaction itself is not counted.
FullBefore(t) == current_page_buf # <<>> /\ BytesOf(current_page_buf) > page_size_bytes

\* A page with transactions takes no other that would not fit; an empty one takes any.
Full(t) ==
  current_page_buf # <<>> /\ BytesOf(current_page_buf) + TxBytes[t] > page_size_bytes

Entry == [end |-> current_page_end_tid, page |-> current_page_id]

\* Mutant of WritePage: the entry goes under the last tid of the page.
WritePageLast ==
  /\ pages' = Put(pages, current_page_id, current_page_buf)
  /\ directory' = Put(directory, current_page_end_tid, Entry)
  /\ current_page_id' = current_page_id + 1

\* The buffer is written and listed, and the next page has a new id.
WritePage ==
  /\ pages' = Put(pages, current_page_id, current_page_buf)
  /\ directory' = Put(directory, current_page_start_tid, Entry)
  /\ current_page_id' = current_page_id + 1

\* The file is created and not written; nothing else has changed.
WriteFails ==
  /\ pages' = Put(pages, current_page_id, Unwritten)
  /\ UNCHANGED <<directory, current_page_id>>

\* The transaction is appended to what the buffer has been left with.
Taken(txs, t) ==
  /\ current_page_buf' = Append(txs, t)
  /\ current_page_start_tid' = IF txs = <<>> THEN t ELSE current_page_start_tid
  /\ current_page_end_tid' = t
  /\ given' = given \cup {t}

add_transaction(t) ==
  /\ returned = "nothing"
  /\ \A u \in given : u < t
  /\ \/ ~Full(t) /\ Taken(current_page_buf, t) /\ UNCHANGED pageVars
     \/ Full(t) /\ WritePage /\ Taken(<<>>, t)
     \/ Full(t) /\ WriteFails /\ UNCHANGED <<current_page_buf, tidVars, given>>
  /\ UNCHANGED <<page_size_bytes, returned>>

flush_page ==
  /\ returned = "nothing" /\ current_page_buf # <<>>
  /\ \/ WritePage /\ current_page_buf' = <<>>
     \/ WriteFails /\ UNCHANGED current_page_buf
  /\ UNCHANGED <<page_size_bytes, tidVars, given, returned>>

\* The chunker is consumed, whether its last page could be written or not.
finalize ==
  /\ returned = "nothing"
  /\ \/ /\ current_page_buf = <<>> /\ returned' = "ok"
        /\ UNCHANGED <<current_page_buf, pageVars>>
     \/ /\ current_page_buf # <<>> /\ WritePage
        /\ current_page_buf' = <<>> /\ returned' = "ok"
     \/ /\ current_page_buf # <<>> /\ WriteFails
        /\ returned' = "error" /\ UNCHANGED current_page_buf
  /\ UNCHANGED <<page_size_bytes, tidVars, given>>

ChunkerNext == (\E t \in Transactions : add_transaction(t)) \/ flush_page \/ finalize

ChunkerSpec == ChunkerInit /\ [][ChunkerNext]_chunkerVars

-----------------------------------------------------------------------------
(* Properties *)

\* find_page: the entry with the largest start that is not above the tid, if it reaches it.
find_page(t) ==
  LET before == {s \in DOMAIN directory : s <= t} IN
  {e \in {directory[s] : s \in {u \in before : \A v \in before : v <= u}} : t <= e.end}

\* Every transaction that was taken is in the buffer, or else the page the directory
\* finds for it is a whole page that holds it: writes that fail and are tried again, and
\* pages of one large transaction, lose none.
Findable ==
  \A t \in given :
    \/ t \in Range(current_page_buf) /\ returned # "ok"
    \/ \E e \in find_page(t) : pages[e.page] # Unwritten /\ t \in Range(pages[e.page])

\* A page in the directory is larger than the page size only if it is one transaction.
PagesFit ==
  \A s \in DOMAIN directory :
    LET txs == pages[directory[s].page] IN
    BytesOf(txs) <= page_size_bytes \/ Len(txs) = 1
=============================================================================
