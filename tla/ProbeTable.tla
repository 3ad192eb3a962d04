----------------------------- MODULE ProbeTable -----------------------------
(***************************************************************************)
(* The open-addressing table of the connection groups.  The affinities of  *)
(* a pipeline, the registry of pipelines and the transfers of a client     *)
(* group are all kept this way: an entry is EMPTY, USED or a TOMBSTONE, a  *)
(* search starts at the hash of the key and goes round the table.          *)
(***************************************************************************)
EXTENDS Naturals, FiniteSets, FiniteSetsExt

NoEntry == [state |-> "EMPTY", key |-> 0, value |-> 0]

EmptyTable(capacity) == [i \in 0 .. capacity - 1 |-> NoEntry]

Used(table) == {i \in DOMAIN table : table[i].state = "USED"}

\* The search stops at the first EMPTY entry, or after a full round.  It finds
\* the key before it stops, or it names the entry an insertion takes: the
\* first tombstone it passed, else the EMPTY entry, else none.
TableFind(table, start, key) ==
  LET n == Cardinality(DOMAIN table)
      At(offset) == (start + offset) % n
      Is(state) == {o \in 0 .. n - 1 : table[At(o)].state = state}
      stop == Min(Is("EMPTY") \cup {n})
      hits == {o \in Is("USED") : o < stop /\ table[At(o)].key = key}
      free == {o \in Is("TOMBSTONE") : o < stop} \cup ({stop} \ {n})
  IN  [found |-> hits # {},
       slot |-> {At(o) : o \in hits},
       insert |-> IF free = {} THEN {} ELSE {At(Min(free))}]

Insert(table, i, key, value) ==
  [table EXCEPT ![i] = [state |-> "USED", key |-> key, value |-> value]]

\* Removal leaves a tombstone, so that searches go on past it.
Bury(table, entries) ==
  [i \in DOMAIN table |->
     IF i \in entries THEN [NoEntry EXCEPT !.state = "TOMBSTONE"] ELSE table[i]]

\* The table as the map it stands for: what a search finds for each key.
Content(table) == {<<table[i].key, table[i].value>> : i \in Used(table)}
=============================================================================
