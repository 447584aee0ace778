----------------------------- MODULE Pagination ------------------------------
(***************************************************************************)
(* paginateAtlassian: a list of Jira is read page by page.  The cursor is  *)
(* the local state of the loop between two awaited pages.                  *)
(***************************************************************************)
EXTENDS Naturals, Sequences

\* pages: how many were fetched; total: what the first one reported.
Start == [items |-> <<>>, total |-> 0, pages |-> 0]

\* startAt grows by the items of every page.
StartAt(c) == Len(c.items)

\* What a server answers that holds list: at most size items from position
\* start on, the length of the list, and whether nothing follows.
ServedPage(list, start, size) ==
  LET end == IF start + size < Len(list) THEN start + size ELSE Len(list)
  IN  [items |-> SubSeq(list, start + 1, end), total |-> Len(list),
       isLast |-> end = Len(list)]

\* An endpoint without pages is wrapped: everything is its first and last page.
FlatPage(list) == [items |-> list, total |-> Len(list), isLast |-> TRUE]

Advance(c, page) ==
  [items |-> c.items \o page.items,
   total |-> IF c.pages = 0 THEN page.total ELSE c.total,
   pages |-> c.pages + 1]

\* An empty page, the word of the server, a short page or the total end the loop,
\* where maxResults is the size asked for and c the cursor after the page.
Terminates(c, page, maxResults) ==
  \/ Len(page.items) = 0
  \/ page.isLast
  \/ Len(page.items) < maxResults
  \/ Len(c.items) >= c.total
=============================================================================
