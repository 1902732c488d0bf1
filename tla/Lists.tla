-------------------------------- MODULE Lists --------------------------------
(***************************************************************************)
(* The pages of a list: PageQuery and Paginated of                         *)
(* crates/bunker-models/src/pagination.rs, and what `order by ... limit ...*)
(* offset' makes of them.                                                  *)
(*                                                                         *)
(* A list is a set of rows and an order, given by their keys: the tuple of *)
(* the columns of `order by', a descending one negated.  A row's place is  *)
(* the number of rows before it.  Rows with one key would share a place,   *)
(* which is how an order that is not total shows here.                     *)
(***************************************************************************)
LOCAL INSTANCE Integers
LOCAL INSTANCE Sequences
LOCAL INSTANCE FiniteSets

\* k comes before l: smaller in the first column where they differ.
Before(k, l) ==
  \E i \in DOMAIN k : k[i] < l[i] /\ \A j \in 1..i-1 : k[j] = l[j]

Limit(query)  == query.size
\* A bug: pages counted from zero.
OffsetFromZero(query) == query.page * query.size
Offset(query) == (query.page - 1) * query.size

PageOf(rows, key, query) ==
  LET Place(row) == Cardinality({other \in rows : Before(key[other], key[row])})
  IN  {row \in rows : Place(row) \in Offset(query) .. Offset(query) + Limit(query) - 1}

\* div_ceil
TotalPages(total, query) == (total + query.size - 1) \div query.size

\* The total counts every row the list is about; items is the page of the rows
\* the page's own query selects.
Paginated(total, rows, key, query) ==
  [items |-> PageOf(rows, key, query), total |-> total, pages |-> TotalPages(total, query)]
================================================================================
