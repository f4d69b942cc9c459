------------------------------- MODULE Paging -------------------------------
(***************************************************************************)
(* How every list is cut into pages (shared/paging.py and each service's    *)
(* core/paging.py): a statement with a WHERE, an ORDER BY and a LIMIT, and  *)
(* a cursor that names the page's last row.                                 *)
(***************************************************************************)
EXTENDS Integers, Sequences, SequencesExt

\* The cursor of a first page, and the next cursor of a last one.
None == <<>>

\* The rows a WHERE left, in an ORDER BY that no two rows tie in.
InOrder(rows, Precedes(_, _)) ==
  CHOOSE s \in SetToSeqs(rows) : \A i, j \in DOMAIN s : i < j => Precedes(s[i], s[j])

\* LIMIT limit + 1 of them.
Fetched(sorted, limit) == SubSeq(sorted, 1, Min({limit + 1, Len(sorted)}))

\* page_cut_of: of the rows fetched, those that are shown, and the row the
\* cursor names if the extra one was there.
Cut(fetched, limit) ==
  [rows |-> SubSeq(fetched, 1, Min({limit, Len(fetched)})),
   next |-> IF Len(fetched) > limit THEN <<fetched[limit]>> ELSE None]
=============================================================================
