------------------------- MODULE ProjectSearchProofs ------------------------
(* Proofs about ProjectSearch, for any runs, projects, queries, filters and  *)
(* page size, and any number of requests.                                    *)
(*                                                                           *)
(* Every answer is a page of a list that only grows at its end: the issues   *)
(* of one run that match.  The invariant says which list and which page the  *)
(* table shows, and that nothing else is shown while requests do not overlap.*)
EXTENDS ProjectSearch, ListProofs, FiniteSetTheorems

\* The list when the run has appended all.
Whole(p, n) == Upto(p, n, Len(Runs[n].entries))

\* rows is a list, and the page.
IsPage(rows, list, skip) == Listed(rows) /\ PageOf(rows, list, skip)

\* How many of its entries match by then.
Listing(p, n, pts) == Len(Upto(p, n, SizeOf(pts, n)))

\* The answer a to p is what run a.run had to say when it had m entries.
ServedAt(a, p, m) ==
  a.total = Len(Upto(p, a.run, m)) /\ IsPage(a.rows, Upto(p, a.run, m), p.offset)

Serves(a, p, pts) ==
  /\ a.run \in 1..Len(pts)
  /\ \E m \in 0..SizeOf(pts, a.run) : ServedAt(a, p, m)

AnswerOK(f, pts) ==
  f.at = "served" => IF f.answer.status = 200 THEN Serves(f.answer, f.params, pts)
                     ELSE f.answer.run = 0

\* The table as an answer.
Table == [rows |-> panel.rows, total |-> panel.total, run |-> shown.run]

-----------------------------------------------------------------------------
(* The invariant.                                                          *)

PanelRecord(s) == s = [raw |-> s.raw, timer |-> s.timer, filters |-> s.filters,
                       params |-> s.params, rows |-> s.rows, total |-> s.total, load |-> s.load]
FetchRecord(f) == f = [params |-> f.params, at |-> f.at, alone |-> f.alone, answer |-> f.answer]

Types ==
  /\ PointsOK
  /\ mounted \in BOOLEAN /\ mixed \in BOOLEAN
  /\ PanelRecord(panel)
  /\ panel.raw \in Queries /\ panel.timer \in BOOLEAN /\ panel.filters \in FilterChoices
  /\ panel.params \in Params /\ panel.load \in {"idle", "loading", "loaded", "error"}
  /\ Listed(panel.rows) /\ Listed(fetches)
  /\ \A k \in DOMAIN fetches : /\ FetchRecord(fetches[k])
                               /\ fetches[k].params \in Params
                               /\ fetches[k].params.project # ""
                               /\ fetches[k].at \in {"sent", "served"}
                               /\ fetches[k].alone \in BOOLEAN
  /\ shown = [params |-> shown.params, run |-> shown.run, alone |-> shown.alone]
  /\ shown.params \in Params /\ shown.alone \in BOOLEAN

\* The numbers. The request that the pause will end in has its place.
Bounds ==
  /\ panel.total \in Nat /\ Len(panel.rows) <= PageSize
  /\ sent \in Nat /\ Len(fetches) <= sent
  /\ sent <= MaxFetches /\ (panel.timer = TRUE /\ panel.params.project # "" => sent < MaxFetches)
  /\ shown.run \in 0..Len(points)

\* What was asked for is what the text and the filters say.
ParamsFollow ==
  /\ panel.filters = panel.params.filters
  /\ ~panel.timer => panel.raw = panel.params.query
  /\ panel.params.project = "" => panel.params.offset = 0

\* An answer on its way, and the table, say what a run has said.
AnswersTrue == \A k \in DOMAIN fetches : AnswerOK(fetches[k], points)
TableTrue ==
  /\ panel.load = "loaded" => Serves(Table, shown.params, points)
  /\ shown.run # 0 /\ panel.rows # <<>>
       => \E m \in 0..SizeOf(points, shown.run) :
            IsPage(panel.rows, Upto(shown.params, shown.run, m), shown.params.offset)

\* A request on its own, and the answer to it, are to what is asked for now.
AloneIsCurrent ==
  /\ panel.params.project # "" =>
       /\ \A k \in DOMAIN fetches : fetches[k].alone => fetches[k].params = panel.params
       /\ panel.load = "loaded" /\ shown.alone => shown.params = panel.params

\* As long as nothing is mixed, one request at a time is under way, and the page asked
\* for begins inside the list the table was taken from.
OneAtATime ==
  ~mixed => /\ shown.alone /\ Len(fetches) <= 1
            /\ \A k \in DOMAIN fetches : fetches[k].alone
PageInside ==
  ~mixed => /\ panel.params.offset # 0 =>
                 /\ shown.run # 0
                 /\ panel.params.offset < Listing(panel.params, shown.run, points)
            /\ \A k \in DOMAIN fetches :
                 /\ fetches[k].at = "served" /\ fetches[k].params = panel.params
                 /\ fetches[k].answer.status = 200
                 /\ shown.run \in {0, fetches[k].answer.run}
                 => panel.params.offset = 0 \/ panel.params.offset < fetches[k].answer.total

NoEmptyPage == EmptyPageIsExplained

PInv == /\ Types /\ Bounds /\ ParamsFollow /\ AnswersTrue /\ TableTrue
        /\ AloneIsCurrent /\ OneAtATime /\ PageInside /\ NoEmptyPage

-----------------------------------------------------------------------------
(* The lists.                                                              *)

\* What matched stays where it was in the list as the run goes on.
LEMMA UptoGrows ==
  ASSUME NEW p, NEW n \in 1..Len(Runs), NEW h \in 0..Len(Runs[n].entries), NEW m \in 0..h
  PROVE  /\ Upto(p, n, h) \in Seq(Hits(p, n)) /\ Upto(p, n, m) \in Seq(Hits(p, n))
         /\ Len(Upto(p, n, m)) \in Nat /\ Len(Upto(p, n, m)) <= Len(Upto(p, n, h))
         /\ \A i \in 1..Len(Upto(p, n, m)) : Upto(p, n, h)[i] = Upto(p, n, m)[i]
<1> DEFINE E == Runs[n].entries
           A == Elements(E)
           S == Hits(p, n)
<1>1. E \in Seq(A)
  BY RunsAssumption
<1> HIDE DEF E, A, S
<1>2. /\ SubSeq(E, 1, h) \in Seq(A) /\ SubSeq(E, 1, m) \in Seq(A)
      /\ SubSeq(E, m + 1, h) \in Seq(A)
      /\ SubSeq(E, 1, h) = SubSeq(E, 1, m) \o SubSeq(E, m + 1, h)
  <2>1. h \in 0..Len(E)
    BY DEF E
  <2> QED BY <1>1, <2>1, Cut
<1>3. ASSUME NEW t \in Seq(A) PROVE Filter(t, S) \in Seq(S)
  <2>1. Filter(t, S) \in Seq(A) /\ Elements(Filter(t, S)) \subseteq S
    BY FilterElements
  <2>2. \A i \in DOMAIN Filter(t, S) : Filter(t, S)[i] \in S
    BY <2>1 DEF Elements
  <2> QED BY <2>1, <2>2
<1>4. Filter(SubSeq(E, 1, h), S)
        = Filter(SubSeq(E, 1, m), S) \o Filter(SubSeq(E, m + 1, h), S)
  <2> DEFINE u == SubSeq(E, 1, m)
             v == SubSeq(E, m + 1, h)
  <2>1. u \in Seq(A) /\ v \in Seq(A) /\ SubSeq(E, 1, h) = u \o v
    BY <1>2
  <2> HIDE DEF u, v
  <2>2. Filter(u \o v, S) = Filter(u, S) \o Filter(v, S)
    BY <2>1, FilterJoin
  <2> QED BY <2>1, <2>2 DEF u, v
<1> DEFINE a == Filter(SubSeq(E, 1, h), S)
           b == Filter(SubSeq(E, 1, m), S)
           c == Filter(SubSeq(E, m + 1, h), S)
<1>5. a \in Seq(S) /\ b \in Seq(S) /\ c \in Seq(S) /\ a = b \o c
  BY <1>2, <1>3, <1>4
<1>6. Upto(p, n, h) = a /\ Upto(p, n, m) = b
  BY DEF Upto, E, S
<1> HIDE DEF a, b, c
<1>7. Len(b) \in Nat /\ Len(b) <= Len(a) /\ \A i \in 1..Len(b) : a[i] = b[i]
  BY <1>5, ConcatProperties
<1> QED BY <1>5, <1>6, <1>7 DEF S

\* What the handler matches.
LEMMA MatchedIsUpto ==
  ASSUME NEW r, NEW p, r.project = p.project, r.query = p.query, r.filters = p.filters,
         NEW q, q.run \in 1..Len(Runs), q.size \in 0..Len(Runs[q.run].entries)
  PROVE  Matched(r, q) = Upto(p, q.run, q.size)
<1> DEFINE E == Runs[q.run].entries
           A == Elements(E)
           s == SubSeq(E, 1, q.size)
           S == Hits(p, q.run)
           R == {e \in Elements(EntriesOf(q)) : /\ IsIssueOf(e, r.project)
                                                /\ SearchHit(e, r.query)
                                                /\ FilterHit(e, r.filters)}
<1>1. E \in Seq(A)
  BY RunsAssumption
<1>2. s \in Seq(A)
  <2> HIDE DEF A
  <2> QED BY <1>1, Cut
<1>3. Elements(s) \subseteq A
  BY <1>2 DEF Elements
<1>4. EntriesOf(q) = s
  BY DEF EntriesOf
<1>5. Elements(s) \cap R = Elements(s) \cap S
  BY <1>3, <1>4 DEF Hits
<1> HIDE DEF A, s, S, R
<1>6. Filter(s, R) = Filter(s, S)
  BY <1>2, <1>5, FilterSame
<1>7. Matched(r, q) = Filter(s, R)
  BY <1>4 DEF Matched, R
<1> QED BY <1>6, <1>7 DEF Upto, s, S

-----------------------------------------------------------------------------
(* The answers.                                                            *)

\* The rows of a slice are a page.
LEMMA SliceIsPage ==
  ASSUME NEW S, NEW list \in Seq(S), NEW skip \in Nat,
         NEW page, page = Slice(list, skip, PageSize)
  PROVE  IsPage([i \in DOMAIN page |-> Row(page[i])], list, skip)
<1> DEFINE L == Len(list)
           e == IF skip + PageSize < L THEN skip + PageSize ELSE L
           rows == [i \in DOMAIN page |-> Row(page[i])]
           n == IF skip + PageSize < L THEN PageSize ELSE IF skip < L THEN L - skip ELSE 0
<1>1. page = SubSeq(list, skip + 1, e)
  BY DEF Slice
<1>2. L \in Nat /\ e \in Nat /\ e <= L /\ PageSize \in Nat /\ PageSize >= 1 /\ n \in Nat
  <2>1. L \in Nat
    OBVIOUS
  <2>2. PageSize \in 1..200
    BY PanelAssumption
  <2> HIDE DEF L
  <2> QED BY <2>1, <2>2
<1>3. /\ \A i \in (skip + 1)..e : list[i] \in S
      /\ skip + 1 \in Int /\ e \in Int
  BY <1>2
<1>4. IF skip + 1 <= e + 1 THEN n = e - (skip + 1) + 1 ELSE n = 0
  BY <1>2
<1> HIDE DEF e, L
<1>5. page \in Seq(S) /\ Len(page) = n
  BY <1>1, <1>2, <1>3, <1>4, SubSeqProperties
<1>6. \A i \in 1..n : skip + i \in 1..L /\ page[i] = list[skip + i]
  <2> SUFFICES ASSUME NEW i \in 1..n PROVE skip + i \in 1..L /\ page[i] = list[skip + i]
    OBVIOUS
  <2>1. i \in 1..(e - (skip + 1) + 1) /\ (skip + 1) + i - 1 = skip + i /\ skip + i \in 1..L
    BY <1>2, <1>4 DEF e
  <2> HIDE DEF n
  <2>2. page[i] = list[(skip + 1) + i - 1]
    <3> DEFINE b == skip + 1
    <3>1. b \in 1..(L + 1) /\ e \in (b - 1)..L /\ i \in 1..(e - b + 1)
      BY <1>2, <1>3, <2>1
    <3> HIDE DEF b, e, L
    <3>2. SubSeq(list, b, e)[i] = list[b + i - 1]
      BY <1>3, <3>1, SubSeqProperties DEF L, b
    <3> QED BY <1>1, <3>2 DEF b
  <2> QED BY <2>1, <2>2
<1> HIDE DEF n
<1>7. DOMAIN page = 1..n
  BY <1>5
<1>8. rows \in [1..n -> {Row(page[i]) : i \in 1..n}] /\ \A i \in 1..n : rows[i] = Row(page[i])
  BY <1>7
<1> HIDE DEF rows
<1>9. Listed(rows) /\ Len(rows) = n
  <2> DEFINE T == {Row(page[i]) : i \in 1..n}
  <2> HIDE DEF T
  <2>1. rows \in [1..n -> T]
    BY <1>8 DEF T
  <2>2. rows \in Seq(T) /\ Len(rows) = n
    BY <1>2, <2>1
  <2> QED BY <2>2 DEF Listed
<1>10. n = IF skip + PageSize < L THEN PageSize ELSE IF skip < L THEN L - skip ELSE 0
  BY DEF n
<1> QED BY <1>6, <1>8, <1>9, <1>10 DEF IsPage, PageOf, rows, L

\* PointsOK of a value of points.
Fine(pts) ==
  /\ pts \in Seq(PointState)
  /\ Len(pts) <= Len(Runs)
  /\ \A k \in DOMAIN pts : /\ pts[k].run = Len(pts) - k + 1
                           /\ pts[k].size <= Len(Runs[pts[k].run].entries)

\* The points of the database.
LEMMA PointFacts ==
  ASSUME NEW pts, Fine(pts), NEW n \in 1..Len(pts)
  PROVE  /\ Len(pts) \in Nat /\ n \in 1..Len(Runs)
         /\ SizeOf(pts, n) \in 0..Len(Runs[n].entries) /\ Len(Runs[n].entries) \in Nat
         /\ pts[Len(pts) - n + 1].run = n
<1> DEFINE k == Len(pts) - n + 1
<1>1. Len(pts) \in Nat /\ pts \in Seq(PointState) /\ Len(pts) <= Len(Runs)
      /\ Len(Runs) \in Nat
  BY RunsAssumption DEF Fine
<1>2. k \in 1..Len(pts) /\ k \in DOMAIN pts /\ Len(pts) - k + 1 = n
  BY <1>1
<1>3. n \in 1..Len(Runs)
  BY <1>1
<1>4. Runs[n].entries \in Seq(Elements(Runs[n].entries))
  BY <1>3, RunsAssumption
<1>5. Len(Runs[n].entries) \in Nat
  <2> DEFINE A == Elements(Runs[n].entries)
  <2> HIDE DEF A
  <2>1. Runs[n].entries \in Seq(A)
    BY <1>4 DEF A
  <2> QED BY <2>1
<1> HIDE DEF k
<1>6. pts[k].run = n /\ pts[k].size <= Len(Runs[n].entries) /\ pts[k] \in PointState
  BY <1>1, <1>2 DEF Fine
<1>7. pts[k].size \in Nat
  BY <1>6 DEF PointState
<1>8. SizeOf(pts, n) = pts[k].size
  BY DEF SizeOf, k
<1> QED BY <1>1, <1>3, <1>5, <1>6, <1>7, <1>8 DEF k

\* a is a page of what the newest run has so far, or a refusal.
OfNewest(a, p) ==
  IF a.status = 200
  THEN /\ points # <<>> /\ a.run = Len(points) /\ a.run \in 1..Len(points)
       /\ ServedAt(a, p, SizeOf(points, a.run))
  ELSE a.run = 0

\* The handler answers with a page of what the newest run has so far, or refuses.
LEMMA Answered ==
  ASSUME PointsOK, NEW p \in Params
  PROVE  OfNewest(ProjectIssues(Asked(p)), p)
<1> SUFFICES ASSUME NEW a, a = ProjectIssues(Asked(p)) PROVE OfNewest(a, p)
  OBVIOUS
<1> USE DEF OfNewest
<1> DEFINE r == Asked(p)
           list == Matched(r, points[1])
           page == Slice(list, OffsetOf(r.offset), LimitOf(r.limit))
           rows == [i \in DOMAIN page |-> Row(page[i])]
<1>1. CASE \E status \in {400, 404} : a = Refused(status)
  BY <1>1 DEF Refused
<1>2. CASE ~\E status \in {400, 404} : a = Refused(status)
  <2>1. points # <<>> /\ a = [status |-> 200, rows |-> rows, total |-> Len(list),
                              run |-> points[1].run]
    BY <1>2 DEF ProjectIssues
  <2>2. p.offset \in Nat /\ OffsetOf(r.offset) = p.offset /\ LimitOf(r.limit) = PageSize
    <3>1. p.offset \in Nat /\ PageSize \in 1..200
      BY PanelAssumption DEF Params
    <3>2. r.offset = p.offset /\ r.limit = PageSize
      BY DEF Asked
    <3> HIDE DEF r
    <3> QED BY <3>1, <3>2 DEF OffsetOf, LimitOf
  <2>3. r.project = p.project /\ r.query = p.query /\ r.filters = p.filters
    BY DEF Asked
  <2> DEFINE n == Len(points)
  <2>4. n \in 1..Len(points)
    BY <2>1 DEF PointsOK
  <2>5. n - n + 1 = 1
    BY <2>4
  <2>6. /\ points[1].run = n /\ SizeOf(points, n) = points[1].size /\ n \in 1..Len(Runs)
        /\ SizeOf(points, n) \in 0..Len(Runs[n].entries) /\ Len(Runs[n].entries) \in Nat
    BY <2>4, <2>5, PointFacts DEF SizeOf, PointsOK, Fine
  <2> HIDE DEF n, r
  <2>7. list = Upto(p, n, SizeOf(points, n))
    BY <2>3, <2>6, MatchedIsUpto
  <2>8. Upto(p, n, SizeOf(points, n)) \in Seq(Hits(p, n))
    BY <2>6, UptoGrows
  <2>9. page = Slice(list, p.offset, PageSize)
    BY <2>2
  <2> HIDE DEF list, page
  <2>10. IsPage(rows, list, p.offset)
    BY <2>2, <2>7, <2>8, <2>9, SliceIsPage
  <2> HIDE DEF rows
  <2>11. a.status = 200 /\ a.run = n /\ a.total = Len(list) /\ a.rows = rows
    BY <2>1, <2>6
  <2> QED BY <2>1, <2>4, <2>7, <2>10, <2>11 DEF ServedAt, n
<1> QED BY <1>1, <1>2

-----------------------------------------------------------------------------
(* The backup beside.                                                      *)

\* The newer points know the runs of the older ones, and as much of each.
Grown(old, new) ==
  /\ Len(old) <= Len(new)
  /\ \A n \in 1..Len(old) : SizeOf(old, n) <= SizeOf(new, n)

\* A step of the backup.
LEMMA BackupGrows ==
  ASSUME PointsOK, Backup
  PROVE  PointsOK' /\ Grown(points, points')
<1> DEFINE L == Len(points)
<1>1. points \in Seq(PointState) /\ L \in Nat /\ L <= Len(Runs) /\ Len(Runs) \in Nat
  BY RunsAssumption DEF PointsOK
<1>2. \A k \in 1..L : /\ points[k] \in PointState /\ points[k].run = L - k + 1
                      /\ points[k].size <= Len(Runs[points[k].run].entries)
  BY <1>1 DEF PointsOK
<1>3. \A n \in 1..L : L - n + 1 \in 1..L /\ points[L - n + 1].size \in Nat
  BY <1>1, <1>2 DEF PointState
<1>4. CASE CreatePoint
  <2> DEFINE new == [run |-> L + 1, size |-> 0, listed |-> FALSE]
  <2>1. L < Len(Runs) /\ points' = <<new>> \o points
    BY <1>4 DEF CreatePoint
  <2>2. new \in PointState
    BY <1>1, <2>1 DEF PointState
  <2>3. Len(Runs[L + 1].entries) >= 0
    <3> DEFINE A == Elements(Runs[L + 1].entries)
    <3>1. Runs[L + 1].entries \in Seq(A)
      BY <1>1, <2>1, RunsAssumption
    <3> HIDE DEF A
    <3> QED BY <3>1
  <2>4. new.run = L + 1 /\ new.size = 0
    OBVIOUS
  <2> HIDE DEF new, L
  <2>5. /\ points' \in Seq(PointState) /\ Len(points') = L + 1
        /\ \A k \in 1..(L + 1) : points'[k] = IF k = 1 THEN new ELSE points[k - 1]
    BY <1>1, <2>1, <2>2, Prepended DEF L
  <2>6. ASSUME NEW k \in 1..(L + 1)
        PROVE  /\ points'[k].run = (L + 1) - k + 1
               /\ points'[k].size <= Len(Runs[points'[k].run].entries)
    <3>1. CASE k = 1
      BY <1>1, <2>3, <2>4, <2>5, <3>1
    <3>2. CASE k # 1
      <4>1. k - 1 \in 1..L /\ points'[k] = points[k - 1] /\ L - (k - 1) + 1 = (L + 1) - k + 1
        BY <1>1, <2>5, <3>2
      <4> QED BY <1>2, <4>1
    <3> QED BY <3>1, <3>2
  <2>7. PointsOK'
    <3>1. Len(points') <= Len(Runs) /\ DOMAIN points' = 1..(L + 1)
      BY <1>1, <2>1, <2>5
    <3> QED BY <2>5, <2>6, <3>1 DEF PointsOK
  <2>8. ASSUME NEW n \in 1..L PROVE SizeOf(points, n) = SizeOf(points', n)
    <3>1. /\ (L + 1) - n + 1 \in 1..(L + 1) /\ (L + 1) - n + 1 # 1
          /\ ((L + 1) - n + 1) - 1 = L - n + 1
      BY <1>1
    <3>2. points'[(L + 1) - n + 1] = points[L - n + 1]
      BY <2>5, <3>1
    <3> QED BY <2>5, <3>2 DEF SizeOf, L
  <2>9. ASSUME NEW n \in 1..L PROVE SizeOf(points, n) <= SizeOf(points', n)
    <3>1. SizeOf(points, n) \in Nat
      BY <1>3 DEF SizeOf, L
    <3> QED BY <2>8, <3>1
  <2> QED BY <1>1, <2>5, <2>7, <2>9 DEF Grown, L
<1>5. CASE InsertEntry \/ WriteManifest
  <2>1. points # <<>> /\ 1 \in DOMAIN points /\ 1 \in 1..L
    BY <1>1, <1>5 DEF InsertEntry, WriteManifest
  <2>2. PICK q \in PointState : /\ points' = [points EXCEPT ![1] = q]
                                /\ q.run = points[1].run /\ points[1].size <= q.size
                                /\ q.size <= Len(Runs[q.run].entries)
    <3>1. CASE InsertEntry
      <4> DEFINE q == [points[1] EXCEPT !.size = @ + 1]
      <4>1. points' = [points EXCEPT ![1] = q]
        BY <3>1 DEF InsertEntry
      <4>2. /\ q \in PointState /\ q.run = points[1].run /\ points[1].size <= q.size
            /\ q.size = points[1].size + 1
        <5>1. points[1] \in PointState /\ points[1].size \in Nat
          BY <1>2, <2>1 DEF PointState
        <5>2. q.run = points[1].run /\ q.size = points[1].size + 1
          BY <5>1 DEF PointState
        <5>3. q \in PointState
          BY <5>1 DEF PointState
        <5> HIDE DEF q
        <5> QED BY <5>1, <5>2, <5>3
      <4>3. points[1].size < Len(Runs[points[1].run].entries)
        BY <3>1 DEF InsertEntry
      <4>4. points[1].size \in Nat /\ Len(Runs[points[1].run].entries) \in Nat
        <5> DEFINE A == Elements(Runs[points[1].run].entries)
        <5>1. points[1].run \in 1..Len(Runs) /\ points[1].size \in Nat
          BY <1>2, <2>1 DEF PointState
        <5>2. Runs[points[1].run].entries \in Seq(A)
          BY <5>1, RunsAssumption
        <5> HIDE DEF A
        <5> QED BY <5>1, <5>2
      <4> HIDE DEF q
      <4>5. q.size <= Len(Runs[q.run].entries)
        BY <4>2, <4>3, <4>4
      <4> QED BY <4>1, <4>2, <4>5
    <3>2. CASE WriteManifest
      <4> DEFINE q == [points[1] EXCEPT !.listed = TRUE]
      <4>1. points' = [points EXCEPT ![1] = q]
        BY <3>2 DEF WriteManifest
      <4>2. q \in PointState /\ q.run = points[1].run /\ points[1].size <= q.size
            /\ q.size = points[1].size
        <5>1. points[1] \in PointState /\ points[1].size \in Nat
          BY <1>2, <2>1 DEF PointState
        <5>2. q.run = points[1].run /\ q.size = points[1].size /\ q \in PointState
          BY <5>1 DEF PointState
        <5> HIDE DEF q
        <5> QED BY <5>1, <5>2
      <4> HIDE DEF q
      <4> QED BY <1>2, <2>1, <4>1, <4>2
    <3> QED BY <1>5, <3>1, <3>2
  <2>3. /\ points' \in Seq(PointState) /\ Len(points') = L
        /\ \A k \in 1..L : points'[k] = IF k = 1 THEN q ELSE points[k]
    <3>1. DOMAIN points = 1..L
      BY <1>1
    <3> QED BY <1>1, <2>1, <2>2, <3>1, Replaced
  <2> HIDE DEF L
  <2>4. PointsOK'
    <3>1. DOMAIN points' = 1..L
      BY <1>1, <2>3
    <3>2. ASSUME NEW k \in 1..L
          PROVE  /\ points'[k].run = L - k + 1
                 /\ points'[k].size <= Len(Runs[points'[k].run].entries)
      BY <1>2, <2>1, <2>2, <2>3
    <3> QED BY <1>1, <2>3, <3>1, <3>2 DEF PointsOK
  <2>5. ASSUME NEW n \in 1..L PROVE SizeOf(points, n) <= SizeOf(points', n)
    <3> DEFINE k == L - n + 1
    <3>1. k \in 1..L /\ SizeOf(points, n) = points[k].size /\ points[k].size \in Nat
      BY <1>3 DEF SizeOf, L
    <3>2. SizeOf(points', n) = points'[k].size
      BY <2>3 DEF SizeOf
    <3> HIDE DEF k
    <3>3. CASE k = 1
      BY <2>2, <2>3, <3>1, <3>2, <3>3
    <3>4. CASE k # 1
      BY <2>3, <3>1, <3>2, <3>4
    <3> QED BY <3>3, <3>4
  <2> QED BY <1>1, <2>3, <2>4, <2>5 DEF Grown, L
<1> QED BY <1>4, <1>5 DEF Backup

\* What a run has said it still says, and it has no fewer matches.
LEMMA GrownKeeps ==
  ASSUME NEW old, NEW new, Fine(old), Fine(new), Grown(old, new)
  PROVE  /\ \A a, p : Serves(a, p, old) => Serves(a, p, new)
         /\ \A p : \A n \in 1..Len(old) : Listing(p, n, old) <= Listing(p, n, new)
         /\ \A n \in 1..Len(old) : n \in 1..Len(new) /\ 0..SizeOf(old, n) \subseteq 0..SizeOf(new, n)
<1>1. ASSUME NEW n \in 1..Len(old)
      PROVE  /\ n \in 1..Len(new) /\ n \in 1..Len(Runs) /\ Len(Runs[n].entries) \in Nat
             /\ SizeOf(new, n) \in 0..Len(Runs[n].entries)
             /\ SizeOf(old, n) \in 0..SizeOf(new, n)
  <2>1. Len(old) \in Nat /\ Len(new) \in Nat
    BY DEF Fine
  <2>2. n \in 1..Len(new) /\ SizeOf(old, n) <= SizeOf(new, n)
    BY <2>1 DEF Grown
  <2>3. SizeOf(old, n) \in 0..Len(Runs[n].entries) /\ n \in 1..Len(Runs)
    BY PointFacts
  <2>4. SizeOf(new, n) \in 0..Len(Runs[n].entries) /\ Len(Runs[n].entries) \in Nat
    BY <2>2, PointFacts
  <2> QED BY <2>2, <2>3, <2>4
<1>2. ASSUME NEW n \in 1..Len(old)
      PROVE  n \in 1..Len(new) /\ 0..SizeOf(old, n) \subseteq 0..SizeOf(new, n)
  BY <1>1
<1>3. ASSUME NEW p, NEW n \in 1..Len(old) PROVE Listing(p, n, old) <= Listing(p, n, new)
  BY <1>1, UptoGrows DEF Listing
<1>4. ASSUME NEW a, NEW p, Serves(a, p, old) PROVE Serves(a, p, new)
  BY <1>2, <1>4 DEF Serves
<1> QED BY <1>2, <1>3, <1>4

\* How long a page is, in numbers alone.
LEMMA PageLength ==
  ASSUME NEW r, NEW o \in Nat, NEW z \in 1..200, NEW L \in Nat,
         r = IF o + z < L THEN z ELSE IF o < L THEN L - o ELSE 0
  PROVE  r <= z /\ (o < L => r # 0)
<1>1. CASE o + z < L
  BY <1>1
<1>2. CASE ~(o + z < L)
  BY <1>2
<1> QED BY <1>1, <1>2

\* What an answer says of the list.
LEMMA ServedFacts ==
  ASSUME NEW pts, Fine(pts), NEW a, NEW p \in Params, Serves(a, p, pts)
  PROVE  /\ a.run \in 1..Len(pts) /\ a.run # 0 /\ a.total \in Nat
         /\ a.total <= Listing(p, a.run, pts)
         /\ Listed(a.rows) /\ Len(a.rows) <= PageSize
         /\ p.offset < a.total => a.rows # <<>>
         /\ p.offset = 0 /\ 0 < a.total => a.rows # <<>>
<1>1. PICK m \in 0..SizeOf(pts, a.run) : ServedAt(a, p, m)
  BY DEF Serves
<1>2. a.run \in 1..Len(pts)
  BY DEF Serves
<1>3. /\ a.run \in 1..Len(Runs) /\ SizeOf(pts, a.run) \in 0..Len(Runs[a.run].entries)
      /\ Len(Runs[a.run].entries) \in Nat /\ Len(pts) \in Nat
  BY <1>2, PointFacts
<1> DEFINE L == Len(Upto(p, a.run, m))
<1>4. L \in Nat /\ L <= Listing(p, a.run, pts)
  BY <1>1, <1>3, UptoGrows DEF Listing
<1>5. a.total = L /\ IsPage(a.rows, Upto(p, a.run, m), p.offset)
  BY <1>1 DEF ServedAt
<1>6. /\ Listed(a.rows)
      /\ Len(a.rows) = IF p.offset + PageSize < L THEN PageSize
                       ELSE IF p.offset < L THEN L - p.offset ELSE 0
  BY <1>5 DEF IsPage, PageOf
<1>7. p.offset \in Nat /\ PageSize \in 1..200
  BY PanelAssumption DEF Params
<1> HIDE DEF L
<1>8. Len(a.rows) <= PageSize /\ (p.offset < L => Len(a.rows) # 0)
  BY <1>4, <1>6, <1>7, PageLength
<1>9. ASSUME p.offset < L PROVE a.rows # <<>>
  <2>1. Len(a.rows) # 0
    BY <1>8, <1>9
  <2>2. Len(<<>>) = 0
    OBVIOUS
  <2> QED BY <2>1, <2>2
<1> QED BY <1>2, <1>4, <1>5, <1>6, <1>8, <1>9

\* The rows of a page are rows of the list of all that the run finds.
LEMMA PageOfWhole ==
  ASSUME NEW n \in 1..Len(Runs), NEW m \in 0..Len(Runs[n].entries), NEW p, NEW rows,
         IsPage(rows, Upto(p, n, m), p.offset)
  PROVE  /\ Listed(rows) /\ DOMAIN rows = 1..Len(rows) /\ Len(rows) \in Nat
         /\ \A i \in DOMAIN rows : /\ p.offset + i \in 1..Len(Whole(p, n))
                                   /\ rows[i] = Row(Whole(p, n)[p.offset + i])
                                   /\ Whole(p, n)[p.offset + i] \in Hits(p, n)
<1>1. Len(Runs[n].entries) \in Nat
  <2> DEFINE A == Elements(Runs[n].entries)
  <2>1. Runs[n].entries \in Seq(A)
    BY RunsAssumption
  <2> HIDE DEF A
  <2> QED BY <2>1
<1>2. Listed(rows) /\ DOMAIN rows = 1..Len(rows) /\ Len(rows) \in Nat
  BY DEF IsPage, PageOf, Listed
<1> DEFINE u == Upto(p, n, m)
           w == Whole(p, n)
<1>3. /\ w \in Seq(Hits(p, n)) /\ Len(u) \in Nat /\ Len(u) <= Len(w)
      /\ \A i \in 1..Len(u) : w[i] = u[i]
  <2> DEFINE h == Len(Runs[n].entries)
  <2>1. h \in 0..Len(Runs[n].entries) /\ m \in 0..h
    BY <1>1
  <2>2. w = Upto(p, n, h)
    BY DEF Whole
  <2> HIDE DEF h, w
  <2> QED BY <2>1, <2>2, UptoGrows
<1>4. \A i \in 1..Len(rows) : p.offset + i \in 1..Len(u) /\ rows[i] = Row(u[p.offset + i])
  BY DEF IsPage, PageOf
<1> HIDE DEF u, w
<1>5. ASSUME NEW i \in DOMAIN rows
      PROVE  /\ p.offset + i \in 1..Len(w) /\ rows[i] = Row(w[p.offset + i])
             /\ w[p.offset + i] \in Hits(p, n)
  <2> DEFINE j == p.offset + i
  <2>1. j \in 1..Len(u) /\ rows[i] = Row(u[j])
    BY <1>2, <1>4
  <2> HIDE DEF j
  <2>2. j \in 1..Len(w) /\ w[j] = u[j]
    BY <1>3, <2>1
  <2>3. w[j] \in Hits(p, n)
    BY <1>3, <2>2
  <2> QED BY <2>1, <2>2, <2>3 DEF j
<1> QED BY <1>2, <1>5 DEF w

-----------------------------------------------------------------------------
(* The steps.                                                              *)

\* The two numbers.
LEMMA Sizes == PageSize \in Nat /\ 1 <= PageSize /\ PageSize <= 200 /\ MaxFetches \in Nat
<1>1. PageSize \in 1..200
  BY PanelAssumption
<1>2. MaxFetches \in Nat
  BY PanelAssumption
<1> QED BY <1>1, <1>2

\* The panel as it is mounted first.
LEMMA PInvInit == Init => PInv
<1> SUFFICES ASSUME Init PROVE PInv
  OBVIOUS
<1>1. /\ points = <<>> /\ panel = Fresh /\ mounted = TRUE /\ fetches = <<>> /\ sent = 0
      /\ shown = NothingShown /\ mixed = FALSE
  BY DEF Init
<1>2. Len(points) = 0 /\ DOMAIN points = {} /\ points \in Seq(PointState) /\ Len(points) \in Nat
  BY <1>1
<1>3. PointsOK
  BY <1>2, RunsAssumption DEF PointsOK
<1>4. /\ panel.raw = {} /\ panel.timer = TRUE /\ panel.filters = NoFilters /\ panel.rows = <<>>
      /\ panel.total = 0 /\ panel.load = "idle" /\ PanelRecord(panel)
      /\ panel.params = Fresh.params
  BY <1>1 DEF Fresh, PanelRecord
<1>5. /\ Fresh.params \in Params /\ Fresh.params.project = "" /\ Fresh.params.offset = 0
      /\ Fresh.params.query = {} /\ Fresh.params.filters = NoFilters
  BY PanelAssumption DEF Fresh, Params
<1>6. /\ shown = [params |-> shown.params, run |-> shown.run, alone |-> shown.alone]
      /\ shown.params = Fresh.params /\ shown.run = 0 /\ shown.alone = TRUE
  BY <1>1 DEF NothingShown
<1>7. Listed(<<>>) /\ Len(<<>>) = 0 /\ DOMAIN <<>> = {}
  BY NoList
<1>8. PageSize \in Nat /\ MaxFetches \in Nat
  BY Sizes
<1>9. Types
  <2>1. {} \in Queries /\ NoFilters \in FilterChoices
    BY PanelAssumption
  <2> QED BY <1>1, <1>3, <1>4, <1>5, <1>6, <1>7, <2>1 DEF Types
<1>13. Bounds
  <2>1. Len(panel.rows) = 0 /\ Len(fetches) = 0 /\ sent = 0 /\ Len(points) = 0
    BY <1>1, <1>4
  <2>2. panel.total = 0 /\ shown.run = 0
    BY <1>4, <1>6
  <2>7. panel.params.project = ""
    BY <1>4, <1>5
  <2>3. panel.total \in Nat /\ Len(panel.rows) <= PageSize
    BY <2>1, <2>2, Sizes
  <2>4. sent \in Nat /\ Len(fetches) <= sent
    BY <2>1, <2>2, Sizes
  <2>5. sent <= MaxFetches
    BY <2>1, <2>2, Sizes
  <2>6. shown.run \in 0..Len(points)
    BY <2>1, <2>2, Sizes
  <2> QED BY <2>3, <2>4, <2>5, <2>6, <2>7 DEF Bounds
<1>10. ParamsFollow
  BY <1>4, <1>5 DEF ParamsFollow
<1>11. AnswersTrue /\ TableTrue /\ AloneIsCurrent
  BY <1>1, <1>4, <1>5, <1>6, <1>7 DEF AnswersTrue, TableTrue, AloneIsCurrent
<1>12. OneAtATime /\ PageInside /\ NoEmptyPage
  <2>1. DOMAIN fetches = {} /\ Len(fetches) <= 1
    BY <1>1
  <2> QED BY <1>4, <1>5, <1>6, <2>1
          DEF OneAtATime, PageInside, NoEmptyPage, EmptyPageIsExplained
<1> QED BY <1>9, <1>10, <1>11, <1>12, <1>13 DEF PInv

\* list is the requests under way and one more.
OneMore(list, new) ==
  /\ Listed(list) /\ Len(list) = Len(fetches) + 1 /\ Len(fetches) \in Nat
  /\ DOMAIN list = 1..(Len(fetches) + 1) /\ DOMAIN fetches = 1..Len(fetches)
  /\ list[Len(fetches) + 1] = new
  /\ \A k \in DOMAIN fetches : /\ k # Len(fetches) + 1
                               /\ list[k].params = fetches[k].params
                               /\ list[k].at = fetches[k].at
                               /\ list[k].answer = fetches[k].answer
                               /\ list[k].alone = FALSE /\ FetchRecord(list[k])

\* The requests when one more is sent.
LEMMA FetchList ==
  ASSUME Types, NEW new
  PROVE  OneMore(Append(Overtaken, new), new)
<1> DEFINE list == Append(Overtaken, new)
           old == [k \in DOMAIN fetches |-> [fetches[k] EXCEPT !.alone = FALSE]]
           T == {[fetches[k] EXCEPT !.alone = FALSE] : k \in DOMAIN fetches}
           L == Len(fetches)
<1>1. L \in Nat /\ DOMAIN fetches = 1..L
  <2>1. PICK A : fetches \in Seq(A)
    BY DEF Types, Listed
  <2> QED BY <2>1
<1>2. \A k \in DOMAIN fetches : /\ old[k] = [fetches[k] EXCEPT !.alone = FALSE]
                                /\ old[k] \in T
  OBVIOUS
<1>3. DOMAIN old = 1..L /\ old \in [1..L -> T]
  BY <1>1
<1>4. \A k \in DOMAIN fetches : fetches[k] = [params |-> fetches[k].params, at |-> fetches[k].at,
                                              alone |-> fetches[k].alone,
                                              answer |-> fetches[k].answer]
  BY DEF Types, FetchRecord
<1>5. ASSUME NEW k \in DOMAIN fetches
      PROVE  /\ old[k].params = fetches[k].params /\ old[k].at = fetches[k].at
             /\ old[k].answer = fetches[k].answer /\ old[k].alone = FALSE
             /\ FetchRecord(old[k])
  BY <1>2, <1>4 DEF FetchRecord
<1> HIDE DEF old, T
<1>6. old \in Seq(T) /\ Len(old) = L
  BY <1>1, <1>3
<1>7. list = Append(old, new)
  BY DEF old, Overtaken
<1> HIDE DEF L, list
<1>8. /\ Listed(list) /\ Len(list) = L + 1 /\ DOMAIN list = 1..(L + 1)
      /\ \A i \in 1..(L + 1) : list[i] = IF i <= L THEN old[i] ELSE new
  <2>1. Listed(old)
    BY <1>6 DEF Listed
  <2>2. /\ Listed(Append(old, new)) /\ Len(Append(old, new)) = Len(old) + 1
        /\ DOMAIN Append(old, new) = 1..(Len(old) + 1)
        /\ \A i \in 1..(Len(old) + 1) :
             Append(old, new)[i] = IF i <= Len(old) THEN old[i] ELSE new
    BY <2>1, Appended1
  <2>3. Len(old) = L
    BY <1>6
  <2> QED BY <1>7, <2>2, <2>3
<1>9. list[L + 1] = new
  BY <1>1, <1>8
<1>10. \A k \in DOMAIN fetches : k # L + 1 /\ list[k] = old[k]
  BY <1>1, <1>8
<1>11. OneMore(list, new)
  BY <1>1, <1>5, <1>8, <1>9, <1>10 DEF L, OneMore
<1> QED BY <1>11 DEF list

\* What holds when the panel asks for p, its state set to s.
Asking(p, s) ==
  /\ Fetch(p, s) /\ UNCHANGED <<points, mounted>>
  /\ p \in Params /\ PanelRecord(s)
  /\ s.raw \in Queries /\ s.timer \in BOOLEAN /\ s.filters \in FilterChoices
  /\ s.rows = panel.rows /\ s.total = panel.total /\ s.load = panel.load
  /\ s.filters = p.filters /\ (~s.timer => s.raw = p.query)
  /\ p.project = "" => p.offset = 0
  /\ ~mixed /\ p.offset # 0 => shown.run # 0 /\ p.offset < Listing(p, shown.run, points)
  /\ p.project # "" => sent < MaxFetches /\ (s.timer = TRUE => sent + 1 < MaxFetches)

\* A request for p is sent, or the table cleared.
LEMMA FetchKeeps ==
  ASSUME PInv, NEW p, NEW s, Asking(p, s)
  PROVE  PInv'
<1> DEFINE new == [params |-> p, at |-> "sent", alone |-> fetches = <<>>, answer |-> Refused(0)]
<1>1. UNCHANGED shown /\ Types /\ UNCHANGED <<points, mounted>>
  BY DEF Fetch, PInv, Asking
<1>4. /\ p \in Params /\ s.raw \in Queries /\ s.timer \in BOOLEAN /\ s.filters \in FilterChoices
      /\ s.rows = panel.rows /\ s.total = panel.total /\ s.filters = p.filters
      /\ ~s.timer => s.raw = p.query
      /\ p.project = "" => p.offset = 0
  BY DEF Asking
<1>2. CASE p.project = ""
  <2>1. /\ panel' = [s EXCEPT !.params = p, !.rows = <<>>, !.total = 0, !.load = "idle"]
        /\ UNCHANGED <<fetches, sent, mixed>>
    BY <1>2 DEF Fetch, Asking
  <2>2. /\ PanelRecord(panel') /\ panel'.raw = s.raw /\ panel'.timer = s.timer
        /\ panel'.filters = s.filters /\ panel'.params = p /\ panel'.rows = <<>>
        /\ panel'.total = 0 /\ panel'.load = "idle"
    BY <2>1 DEF PanelRecord, Asking
  <2>3. Bounds'
    <3>1. Len(panel'.rows) = 0
      BY <2>2, NoList
    <3>2. /\ sent <= MaxFetches /\ sent \in Nat /\ Len(fetches) <= sent
          /\ shown.run \in 0..Len(points)
      BY DEF PInv, Bounds
    <3>3. panel'.total \in Nat /\ Len(panel'.rows) <= PageSize
      <4>1. panel'.total = 0
        BY <2>2
      <4> QED BY <3>1, <4>1, Sizes
    <3>4. panel'.params.project = ""
      BY <1>2, <2>2
    <3>5. UNCHANGED <<fetches, sent, points, shown>>
      BY <1>1, <2>1
    <3> QED BY <3>2, <3>3, <3>4, <3>5 DEF Bounds
  <2>4. Types'
    <3>1. Listed(panel'.rows) /\ panel'.load \in {"idle", "loading", "loaded", "error"}
      BY <2>2, NoList
    <3> QED BY <1>1, <1>4, <2>1, <2>2, <3>1 DEF Types, PointsOK
  <2>5. ParamsFollow'
    BY <1>2, <1>4, <2>2 DEF ParamsFollow
  <2>6. AnswersTrue' /\ TableTrue' /\ AloneIsCurrent'
    BY <1>1, <1>2, <2>1, <2>2 DEF PInv, AnswersTrue, TableTrue, AloneIsCurrent
  <2>7. OneAtATime' /\ PageInside' /\ NoEmptyPage'
    BY <1>1, <1>2, <1>4, <2>1, <2>2
       DEF PInv, OneAtATime, PageInside, NoEmptyPage, EmptyPageIsExplained
  <2> QED BY <2>3, <2>4, <2>5, <2>6, <2>7 DEF PInv
<1>3. CASE p.project # ""
  <2>1. /\ panel' = [s EXCEPT !.params = p, !.load = "loading"]
        /\ fetches' = Append(Overtaken, new)
        /\ sent' = sent + 1 /\ mixed' = (mixed \/ fetches # <<>>)
    BY <1>3 DEF Fetch, Asking
  <2>2. /\ PanelRecord(panel') /\ panel'.raw = s.raw /\ panel'.timer = s.timer
        /\ panel'.filters = s.filters /\ panel'.params = p /\ panel'.rows = s.rows
        /\ panel'.total = s.total /\ panel'.load = "loading"
    BY <2>1 DEF PanelRecord, Asking
  <2>3. /\ FetchRecord(new) /\ new.params = p /\ new.at = "sent" /\ new.alone \in BOOLEAN
        /\ (fetches = <<>> => new.alone)
    BY DEF FetchRecord
  <2> HIDE DEF new
  <2> DEFINE L == Len(fetches)
  <2>4. /\ Listed(fetches') /\ Len(fetches') = L + 1 /\ L \in Nat
        /\ DOMAIN fetches' = 1..(L + 1) /\ DOMAIN fetches = 1..L
        /\ fetches'[L + 1] = new
        /\ \A k \in DOMAIN fetches : /\ k # L + 1
                                     /\ fetches'[k].params = fetches[k].params
                                     /\ fetches'[k].at = fetches[k].at
                                     /\ fetches'[k].answer = fetches[k].answer
                                     /\ fetches'[k].alone = FALSE /\ FetchRecord(fetches'[k])
    <3>1. OneMore(Append(Overtaken, new), new)
      BY <1>1, FetchList
    <3> QED BY <2>1, <3>1 DEF OneMore
  <2> HIDE DEF L
  <2>5. \A k \in DOMAIN fetches' : k = L + 1 \/ k \in DOMAIN fetches
    <3>1. L \in Nat /\ DOMAIN fetches' = 1..(L + 1) /\ DOMAIN fetches = 1..L
      BY <2>4
    <3> QED BY <3>1
  <2>6. Types'
    <3>1. ASSUME NEW k \in DOMAIN fetches'
          PROVE  /\ FetchRecord(fetches'[k]) /\ fetches'[k].params \in Params
                 /\ fetches'[k].params.project # "" /\ fetches'[k].at \in {"sent", "served"}
                 /\ fetches'[k].alone \in BOOLEAN
      <4>1. CASE k = L + 1
        BY <1>3, <1>4, <2>3, <2>4, <4>1
      <4>2. CASE k \in DOMAIN fetches
        BY <1>1, <2>4, <4>2 DEF Types
      <4> QED BY <2>5, <4>1, <4>2
    <3>2. mixed' \in BOOLEAN
      BY <1>1, <2>1 DEF Types
    <3> QED BY <1>1, <1>4, <2>2, <2>4, <3>1, <3>2 DEF Types, PointsOK
  <2>15. Bounds'
    <3>1. /\ sent \in Nat /\ L <= sent /\ shown.run \in 0..Len(points)
          /\ panel.total \in Nat /\ Len(panel.rows) <= PageSize
      BY DEF PInv, Bounds, L
    <3>2. Len(fetches') = L + 1 /\ L \in Nat
      BY <2>4
    <3>3. Len(fetches') <= sent' /\ sent' \in Nat
      <4>1. sent' = sent + 1
        BY <2>1
      <4> QED BY <3>1, <3>2, <4>1
    <3>4. sent' <= MaxFetches /\ (panel'.timer = TRUE /\ panel'.params.project # "" => sent' < MaxFetches)
      <4>1. s.timer = TRUE => sent + 1 < MaxFetches
        BY <1>3 DEF Asking
      <4>2. panel'.timer = s.timer /\ panel'.params.project # "" /\ sent' = sent + 1
        BY <1>3, <2>1, <2>2
      <4>3. sent' <= MaxFetches
        <5>1. sent < MaxFetches /\ sent \in Nat
          BY <1>3, <3>1 DEF Asking
        <5>2. sent' = sent + 1
          BY <4>2
        <5> QED BY <5>1, <5>2, Sizes
      <4> QED BY <4>1, <4>2, <4>3
    <3>5. UNCHANGED <<points, shown>> /\ panel'.rows = panel.rows /\ panel'.total = panel.total
      BY <1>1, <1>4, <2>2
    <3> QED BY <3>1, <3>3, <3>4, <3>5 DEF Bounds
  <2>7. ParamsFollow'
    BY <1>3, <1>4, <2>2 DEF ParamsFollow
  <2>8. AnswersTrue'
    <3>1. ASSUME NEW k \in DOMAIN fetches' PROVE AnswerOK(fetches'[k], points)
      <4>1. CASE k = L + 1
        BY <2>3, <2>4, <4>1 DEF AnswerOK
      <4>2. CASE k \in DOMAIN fetches
        <5>1. AnswerOK(fetches[k], points)
          BY <4>2 DEF PInv, AnswersTrue
        <5> QED BY <2>4, <4>2, <5>1 DEF AnswerOK
      <4> QED BY <2>5, <4>1, <4>2
    <3> QED BY <1>1, <3>1 DEF AnswersTrue
  <2>9. TableTrue'
    BY <1>1, <1>4, <2>2 DEF PInv, TableTrue
  <2>10. AloneIsCurrent'
    <3>1. ASSUME NEW k \in DOMAIN fetches', fetches'[k].alone PROVE fetches'[k].params = p
      BY <2>3, <2>4, <2>5, <3>1
    <3> QED BY <2>2, <3>1 DEF AloneIsCurrent
  <2>11. ASSUME ~mixed' PROVE /\ ~mixed /\ L = 0 /\ shown.alone /\ DOMAIN fetches = {}
                              /\ \A k \in DOMAIN fetches' : k = L + 1
                              /\ new.alone
    <3>1. ~mixed /\ fetches = <<>>
      BY <2>1, <2>11
    <3>2. L = 0 /\ DOMAIN fetches = {}
      BY <3>1, NoList DEF L
    <3> QED BY <2>3, <2>5, <3>1, <3>2 DEF PInv, OneAtATime
  <2>12. OneAtATime'
    <3>1. ASSUME ~mixed' PROVE Len(fetches') <= 1
      <4>1. L = 0 /\ Len(fetches') = L + 1
        BY <2>4, <2>11, <3>1
      <4> QED BY <4>1
    <3> QED BY <1>1, <2>4, <2>11, <3>1 DEF OneAtATime
  <2>13. PageInside'
    <3>1. ASSUME ~mixed', NEW k \in DOMAIN fetches' PROVE fetches'[k].at = "sent"
      BY <2>3, <2>4, <2>11, <3>1
    <3>2. ASSUME ~mixed', p.offset # 0
          PROVE  shown.run # 0 /\ p.offset < Listing(p, shown.run, points)
      BY <2>11, <3>2 DEF Asking
    <3> QED BY <1>1, <2>2, <3>1, <3>2 DEF PageInside
  <2>14. NoEmptyPage'
    BY <2>2 DEF NoEmptyPage, EmptyPageIsExplained
  <2> QED BY <2>6, <2>7, <2>8, <2>9, <2>10, <2>12, <2>13, <2>14, <2>15 DEF PInv
<1> QED BY <1>2, <1>3

\* The list does not depend on the page.
LEMMA SameList ==
  ASSUME NEW p, NEW q, p.project = q.project, p.query = q.query, p.filters = q.filters
  PROVE  \A n : /\ Hits(p, n) = Hits(q, n) /\ Whole(p, n) = Whole(q, n)
                /\ \A pts : Listing(p, n, pts) = Listing(q, n, pts)
<1> SUFFICES ASSUME NEW n
             PROVE  /\ Hits(p, n) = Hits(q, n) /\ Whole(p, n) = Whole(q, n)
                    /\ \A pts : Listing(p, n, pts) = Listing(q, n, pts)
  OBVIOUS
<1>1. Hits(p, n) = Hits(q, n)
  BY DEF Hits
<1>2. \A m : Upto(p, n, m) = Upto(q, n, m)
  BY <1>1 DEF Upto
<1> QED BY <1>1, <1>2 DEF Whole, Listing

\* What the panel asks for, as it changes.
LEMMA ParamsRecord ==
  ASSUME PInv
  PROVE  /\ panel.params = [project |-> panel.params.project, query |-> panel.params.query,
                            filters |-> panel.params.filters, offset |-> panel.params.offset]
         /\ panel.params.project \in Keys \cup {""} /\ panel.params.query \in Queries
         /\ panel.params.filters \in FilterChoices /\ panel.params.offset \in Nat
<1>1. panel.params \in Params
  BY DEF PInv, Types
<1> QED BY <1>1 DEF Params

\* There is room for one more request, and for the one the pause will end in.
LEMMA RoomIs ==
  ASSUME PInv, Room
  PROVE  sent < MaxFetches /\ (panel.timer = TRUE => sent + 1 < MaxFetches)
<1>1. sent \in Nat /\ MaxFetches \in Nat
  BY Sizes DEF PInv, Bounds
<1>2. panel.timer \in BOOLEAN
  BY DEF PInv, Types
<1>3. CASE panel.timer = TRUE
  <2>1. sent + 1 < MaxFetches
    BY <1>3 DEF Room
  <2>2. sent < MaxFetches
    BY <1>1, <2>1
  <2> QED BY <2>1, <2>2
<1>4. CASE panel.timer = FALSE
  <2>1. sent + 0 < MaxFetches
    BY <1>4 DEF Room
  <2>2. sent < MaxFetches
    BY <1>1, <2>1
  <2> QED BY <1>4, <2>2
<1> QED BY <1>2, <1>3, <1>4

\* The requests that begin at the first page.
LEMMA FirstPageAsked ==
  ASSUME PInv,
         \/ Debounce
         \/ \E f \in FilterChoices : SetFilters(f)
         \/ \E key \in Keys \cup {""} : CommitProjectKey(key)
  PROVE  PInv'
<1>1. /\ PanelRecord(panel) /\ panel.raw \in Queries /\ panel.timer \in BOOLEAN
      /\ panel.filters \in FilterChoices /\ panel.filters = panel.params.filters
      /\ ~panel.timer => panel.raw = panel.params.query
  BY DEF PInv, Types, ParamsFollow
<1>3. ASSUME Room PROVE sent < MaxFetches /\ (panel.timer = TRUE => sent + 1 < MaxFetches)
  BY <1>3, RoomIs
<1>4. CASE Debounce
  <2>1. PICK p : p = DebouncedParams(panel)
    OBVIOUS
  <2>2. PICK s : s = [panel EXCEPT !.timer = FALSE]
    OBVIOUS
  <2>3. Fetch(p, s) /\ UNCHANGED <<points, mounted>> /\ panel.timer = TRUE
    BY <1>1, <1>4, <2>1, <2>2 DEF Debounce
  <2>4. /\ p.project = panel.params.project /\ p.query = panel.raw
        /\ p.filters = panel.params.filters /\ p.offset = 0 /\ p \in Params
    BY <1>1, <2>1, ParamsRecord DEF DebouncedParams, Params
  <2>5. /\ PanelRecord(s) /\ s.raw = panel.raw /\ s.timer = FALSE /\ s.filters = panel.filters
        /\ s.rows = panel.rows /\ s.total = panel.total /\ s.load = panel.load
    BY <1>1, <2>2 DEF PanelRecord
  <2>6. p.project # "" => sent < MaxFetches
    BY <2>3, <2>4 DEF PInv, Bounds
  <2>7. Asking(p, s)
    BY <1>1, <2>3, <2>4, <2>5, <2>6 DEF Asking
  <2> QED BY <2>7, FetchKeeps
<1>5. ASSUME NEW f \in FilterChoices, SetFilters(f) PROVE PInv'
  <2>1. PICK p : p = [panel.params EXCEPT !.filters = f, !.offset = 0]
    OBVIOUS
  <2>2. PICK s : s = [panel EXCEPT !.filters = f]
    OBVIOUS
  <2>3. Fetch(p, s) /\ UNCHANGED <<points, mounted>> /\ Room
    BY <1>5, <2>1, <2>2 DEF SetFilters
  <2>4. /\ p.query = panel.params.query /\ p.filters = f /\ p.offset = 0 /\ p \in Params
    BY <2>1, ParamsRecord DEF Params
  <2>5. /\ PanelRecord(s) /\ s.raw = panel.raw /\ s.timer = panel.timer /\ s.filters = f
        /\ s.rows = panel.rows /\ s.total = panel.total /\ s.load = panel.load
    BY <1>1, <2>2 DEF PanelRecord
  <2>6. sent < MaxFetches /\ (s.timer = TRUE => sent + 1 < MaxFetches)
    BY <1>3, <2>3, <2>5
  <2>7. Asking(p, s)
    BY <1>1, <2>3, <2>4, <2>5, <2>6 DEF Asking
  <2> QED BY <2>7, FetchKeeps
<1>6. ASSUME NEW key \in Keys \cup {""}, CommitProjectKey(key) PROVE PInv'
  <2>1. PICK p : p = CommittedParams(key)
    OBVIOUS
  <2>2. PICK s : s = panel
    OBVIOUS
  <2>3. Fetch(p, s) /\ UNCHANGED <<points, mounted>> /\ Room
    BY <1>6, <2>1, <2>2 DEF CommitProjectKey
  <2>4. /\ p.query = panel.raw /\ p.filters = panel.filters /\ p.offset = 0 /\ p \in Params
    BY <1>1, <2>1 DEF Params, CommittedParams
  <2>5. sent < MaxFetches /\ (s.timer = TRUE => sent + 1 < MaxFetches)
    BY <1>3, <2>2, <2>3
  <2>6. Asking(p, s)
    BY <1>1, <2>2, <2>3, <2>4, <2>5 DEF Asking
  <2> QED BY <2>6, FetchKeeps
<1> QED BY <1>4, <1>5, <1>6

\* The list of a run that was shown has a length.
LEMMA ListingIsNat ==
  ASSUME PInv
  PROVE  \A p : shown.run # 0 => Listing(p, shown.run, points) \in Nat
<1> SUFFICES ASSUME NEW p, shown.run # 0 PROVE Listing(p, shown.run, points) \in Nat
  OBVIOUS
<1>1. Fine(points) /\ shown.run \in 0..Len(points)
  BY DEF PInv, Types, Bounds, PointsOK, Fine
<1>2. shown.run \in 1..Len(points)
  <2>1. Len(points) \in Nat
    BY <1>1 DEF Fine
  <2> QED BY <1>1, <2>1
<1> DEFINE n == shown.run
<1> HIDE DEF n
<1>3. n \in 1..Len(points)
  BY <1>2 DEF n
<1>4. /\ n \in 1..Len(Runs) /\ Len(Runs[n].entries) \in Nat
      /\ SizeOf(points, n) \in 0..Len(Runs[n].entries)
  BY <1>1, <1>3, PointFacts
<1>5. Listing(p, n, points) \in Nat
  BY <1>4, UptoGrows DEF Listing
<1> QED BY <1>5 DEF n

\* As long as nothing is mixed, the table is the answer to what is asked for now.
LEMMA TableIsCurrent ==
  ASSUME PInv, PagesShown
  PROVE  ~mixed => /\ shown.run # 0
                   /\ panel.total <= Listing(panel.params, shown.run, points)
<1>1. Serves(Table, shown.params, points) /\ shown.params \in Params /\ Fine(points)
  BY DEF PInv, TableTrue, Types, PagesShown, PointsOK, Fine
<1>2. Table.run = shown.run /\ Table.total = panel.total
  BY DEF Table
<1>3. shown.run # 0 /\ panel.total <= Listing(shown.params, shown.run, points)
  BY <1>1, <1>2, ServedFacts
<1>4. ~mixed => shown.params = panel.params
  BY DEF PInv, OneAtATime, AloneIsCurrent, PagesShown, Scoped
<1> QED BY <1>3, <1>4

\* The next page begins before the end of the list, the previous one before this one.
LEMMA PageTurned ==
  ASSUME PInv, NextPage \/ PreviousPage
  PROVE  PInv'
<1>1. /\ PanelRecord(panel) /\ panel.raw \in Queries /\ panel.timer \in BOOLEAN
      /\ panel.filters \in FilterChoices /\ panel.filters = panel.params.filters
      /\ ~panel.timer => panel.raw = panel.params.query
  BY DEF PInv, Types, ParamsFollow
<1>2. sent \in Nat /\ panel.total \in Nat
  BY DEF PInv, Bounds
<1>3. PagesShown /\ Room /\ panel.params.project # ""
  BY DEF NextPage, PreviousPage, PagesShown, Scoped
<1>4. sent < MaxFetches /\ (panel.timer = TRUE => sent + 1 < MaxFetches)
  BY <1>3, RoomIs
<1> DEFINE o == IF NextPage THEN panel.params.offset + PageSize
                ELSE IF panel.params.offset < PageSize THEN 0
                ELSE panel.params.offset - PageSize
<1>5. PICK p : p = [panel.params EXCEPT !.offset = o]
  OBVIOUS
<1>6. Fetch(p, panel) /\ UNCHANGED <<points, mounted>>
  BY <1>5 DEF NextPage, PreviousPage
<1>7. panel.params.offset \in Nat
  BY ParamsRecord
<1>8. o \in Nat
  BY <1>7, Sizes
<1>9. ASSUME ~mixed, o # 0
      PROVE  shown.run # 0 /\ o < Listing(panel.params, shown.run, points)
  <2>1. CASE NextPage
    <3>1. panel.params.offset + PageSize < panel.total
      BY <2>1 DEF NextPage, HasNextPage
    <3>2. shown.run # 0 /\ panel.total <= Listing(panel.params, shown.run, points)
      BY <1>3, <1>9, TableIsCurrent
    <3>3. Listing(panel.params, shown.run, points) \in Nat
      BY <3>2, ListingIsNat
    <3>4. o = panel.params.offset + PageSize
      BY <2>1
    <3> HIDE DEF o
    <3> QED BY <1>2, <1>7, <3>1, <3>2, <3>3, <3>4, Sizes
  <2>2. CASE ~NextPage
    <3>1. o <= panel.params.offset /\ panel.params.offset # 0
      BY <1>7, <1>9, <2>2, Sizes
    <3>2. shown.run # 0 /\ panel.params.offset < Listing(panel.params, shown.run, points)
      BY <1>9, <3>1 DEF PInv, PageInside
    <3>3. Listing(panel.params, shown.run, points) \in Nat
      BY <3>2, ListingIsNat
    <3> HIDE DEF o
    <3> QED BY <1>7, <1>8, <3>1, <3>2, <3>3
  <2> QED BY <2>1, <2>2
<1> HIDE DEF o
<1>10. /\ p.project = panel.params.project /\ p.query = panel.params.query
       /\ p.filters = panel.params.filters /\ p.offset = o /\ p \in Params
  BY <1>5, <1>8, ParamsRecord DEF Params
<1>11. Listing(p, shown.run, points) = Listing(panel.params, shown.run, points)
  BY <1>10, SameList
<1>12. Asking(p, panel)
  BY <1>1, <1>3, <1>4, <1>6, <1>9, <1>10, <1>11 DEF Asking
<1>13. PICK s : s = panel
  OBVIOUS
<1>14. Asking(p, s)
  BY <1>12, <1>13 DEF Asking
<1> QED BY <1>14, FetchKeeps

\* There is a number of points.
LEMMA PointCount == ASSUME PInv PROVE Len(points) \in Nat
<1>1. points \in Seq(PointState)
  BY DEF PInv, Types, PointsOK
<1> QED BY <1>1

\* Typing only begins the pause anew.
LEMMA TypingKeeps ==
  ASSUME PInv, NEW q \in Queries, TypeQuery(q)
  PROVE  PInv'
<1>1. /\ panel' = [panel EXCEPT !.raw = q, !.timer = TRUE] /\ (panel.timer \/ Room) /\ Scoped
      /\ UNCHANGED <<points, mounted, fetches, sent, shown, mixed>>
  BY DEF TypeQuery
<1>2. /\ PanelRecord(panel') /\ panel'.raw = q /\ panel'.timer = TRUE
      /\ panel'.filters = panel.filters /\ panel'.params = panel.params
      /\ panel'.rows = panel.rows /\ panel'.total = panel.total /\ panel'.load = panel.load
  BY <1>1 DEF PInv, Types, PanelRecord
<1>3. sent < MaxFetches
  <2>1. CASE panel.timer
    BY <1>1, <2>1 DEF PInv, Bounds, Scoped
  <2>2. CASE ~panel.timer
    BY <1>1, <2>2, RoomIs
  <2> QED BY <2>1, <2>2
<1>4. Types'
  BY <1>1, <1>2 DEF PInv, Types, PointsOK
<1>5. Bounds'
  <2>1. sent <= MaxFetches /\ sent \in Nat
    BY DEF PInv, Bounds
  <2> QED BY <1>1, <1>2, <1>3, <2>1 DEF PInv, Bounds
<1>6. ParamsFollow' /\ AnswersTrue' /\ AloneIsCurrent' /\ OneAtATime'
  BY <1>1, <1>2 DEF PInv, ParamsFollow, AnswersTrue, AloneIsCurrent, OneAtATime
<1>7. TableTrue'
  BY <1>1, <1>2 DEF PInv, TableTrue, Table
<1>8. PageInside'
  <2>1. PageInside
    BY DEF PInv
  <2>2. panel.params' = panel.params /\ UNCHANGED <<points, fetches, shown, mixed>>
    BY <1>1, <1>2
  <2> QED BY <2>1, <2>2 DEF PageInside, Listing
<1>9. NoEmptyPage'
  BY <1>1, <1>2 DEF PInv, NoEmptyPage, EmptyPageIsExplained, Scoped
<1> QED BY <1>4, <1>5, <1>6, <1>7, <1>8, <1>9 DEF PInv

\* The panel goes, and comes back as it was first.
LEMMA SelectionKeeps ==
  ASSUME PInv, SelectOther \/ SelectIssues
  PROVE  PInv'
<1>1. Fresh.params \in Params /\ {} \in Queries /\ NoFilters \in FilterChoices
  BY PanelAssumption DEF Fresh, Params
<1>2. /\ panel'.raw = {} /\ panel'.timer \in BOOLEAN /\ panel'.filters = NoFilters
      /\ panel'.rows = <<>> /\ panel'.total = 0 /\ panel'.load = "idle" /\ PanelRecord(panel')
      /\ panel'.params = Fresh.params
  <2>1. /\ Fresh.raw = {} /\ Fresh.timer = TRUE /\ Fresh.filters = NoFilters
        /\ Fresh.rows = <<>> /\ Fresh.total = 0 /\ Fresh.load = "idle" /\ PanelRecord(Fresh)
    BY DEF Fresh, PanelRecord
  <2>2. PICK f : f = Fresh
    OBVIOUS
  <2>3. panel' = f \/ panel' = [f EXCEPT !.timer = FALSE]
    BY <2>2 DEF SelectOther, SelectIssues
  <2> QED BY <2>1, <2>2, <2>3 DEF PanelRecord
<1>3. /\ Fresh.params.project = "" /\ Fresh.params.offset = 0
      /\ Fresh.params.query = {} /\ Fresh.params.filters = NoFilters
  BY DEF Fresh
<1>4. UNCHANGED <<points, sent>> /\ mounted' \in BOOLEAN
  BY DEF SelectOther, SelectIssues
<1>5. \/ fetches' = <<>> /\ shown' = NothingShown /\ mixed' = FALSE
      \/ UNCHANGED <<fetches, shown, mixed>>
  BY DEF SelectOther, SelectIssues
<1>6. /\ NothingShown.params = Fresh.params /\ NothingShown.run = 0 /\ NothingShown.alone = TRUE
      /\ NothingShown = [params |-> NothingShown.params, run |-> NothingShown.run,
                         alone |-> NothingShown.alone]
  BY DEF NothingShown
<1>7. Types'
  <2>1. Listed(panel'.rows)
    BY <1>2, NoList
  <2>2. CASE fetches' = <<>> /\ shown' = NothingShown /\ mixed' = FALSE
    BY <1>1, <1>2, <1>4, <1>6, <2>1, <2>2, NoList DEF PInv, Types, PointsOK
  <2>3. CASE UNCHANGED <<fetches, shown, mixed>>
    BY <1>1, <1>2, <1>4, <2>1, <2>3 DEF PInv, Types, PointsOK
  <2> QED BY <1>5, <2>2, <2>3
<1>8. Bounds'
  <2>1. /\ sent' = sent /\ sent \in Nat /\ sent <= MaxFetches /\ Len(fetches) <= sent
        /\ shown.run \in 0..Len(points) /\ UNCHANGED points
    BY <1>4 DEF PInv, Bounds
  <2>2. panel'.total \in Nat /\ Len(panel'.rows) <= PageSize
    <3>1. panel'.total = 0 /\ Len(panel'.rows) = 0
      BY <1>2, NoList
    <3> QED BY <3>1, Sizes
  <2>3. Len(fetches') <= sent' /\ shown'.run \in 0..Len(points')
    <3>1. CASE fetches' = <<>> /\ shown' = NothingShown
      <4>1. Len(fetches') = 0 /\ shown'.run = 0
        BY <1>6, <3>1, NoList
      <4>2. Len(points) \in Nat
        BY PointCount
      <4> QED BY <2>1, <4>1, <4>2
    <3>2. CASE UNCHANGED <<fetches, shown>>
      BY <2>1, <3>2
    <3> QED BY <1>5, <3>1, <3>2
  <2>4. panel'.params.project = ""
    BY <1>2, <1>3
  <2> QED BY <2>1, <2>2, <2>3, <2>4 DEF Bounds
<1>9. ParamsFollow' /\ AloneIsCurrent'
  BY <1>2, <1>3 DEF ParamsFollow, AloneIsCurrent
<1>10. AnswersTrue' /\ TableTrue'
  BY <1>2, <1>4, <1>5, NoList DEF PInv, AnswersTrue, TableTrue
<1>11. OneAtATime' /\ PageInside'
  <2>1. CASE fetches' = <<>> /\ shown' = NothingShown /\ mixed' = FALSE
    <3>1. Len(fetches') <= 1 /\ DOMAIN fetches' = {}
      BY <2>1, NoList
    <3> QED BY <1>2, <1>3, <1>6, <2>1, <3>1 DEF OneAtATime, PageInside
  <2>2. CASE UNCHANGED <<fetches, shown, mixed>>
    BY <1>2, <1>3, <1>4, <2>2 DEF PInv, OneAtATime, PageInside
  <2> QED BY <1>5, <2>1, <2>2
<1>12. NoEmptyPage'
  BY <1>2 DEF NoEmptyPage, EmptyPageIsExplained
<1> QED BY <1>7, <1>8, <1>9, <1>10, <1>11, <1>12 DEF PInv

\* The backup appends, and nothing of the panel is less true.
LEMMA GrowKeeps ==
  ASSUME PInv, Grow
  PROVE  PInv'
<1>1. Backup /\ UNCHANGED <<panel, mounted, fetches, sent, shown, mixed>>
  BY DEF Grow
<1>2. PointsOK' /\ Grown(points, points') /\ Fine(points) /\ Fine(points')
  BY <1>1, BackupGrows DEF PInv, Types, PointsOK, Fine
<1> DEFINE new == points'
<1> HIDE DEF new
<1>3. Fine(new) /\ Grown(points, new)
  BY <1>2 DEF new
<1>4. /\ \A a, p : Serves(a, p, points) => Serves(a, p, new)
      /\ \A p : \A n \in 1..Len(points) : Listing(p, n, points) <= Listing(p, n, new)
      /\ \A n \in 1..Len(points) : /\ n \in 1..Len(new)
                                   /\ 0..SizeOf(points, n) \subseteq 0..SizeOf(new, n)
  BY <1>2, <1>3, GrownKeeps
<1>5. Types'
  BY <1>1, <1>2 DEF PInv, Types
<1>6. shown.run \in 0..Len(points) /\ Len(points) \in Nat
  BY PointCount DEF PInv, Bounds
<1>7. shown.run # 0 => shown.run \in 1..Len(points)
  BY <1>6
<1>8. Bounds'
  <2>1. shown.run \in 0..Len(points')
    <3>1. Len(points) <= Len(points') /\ Len(points') \in Nat
      BY <1>2 DEF Grown, Fine
    <3> QED BY <1>6, <3>1
  <2> QED BY <1>1, <2>1 DEF PInv, Bounds
<1>9. ParamsFollow' /\ AloneIsCurrent' /\ OneAtATime' /\ NoEmptyPage'
  BY <1>1 DEF PInv, ParamsFollow, AloneIsCurrent, OneAtATime, NoEmptyPage, EmptyPageIsExplained,
              Scoped
<1>10. AnswersTrue'
  <2>1. ASSUME NEW k \in DOMAIN fetches PROVE AnswerOK(fetches[k], new)
    BY <1>4 DEF PInv, AnswersTrue, AnswerOK
  <2> QED BY <1>1, <2>1 DEF AnswersTrue, new
<1>11. TableTrue'
  <2>1. panel.load = "loaded" => Serves(Table, shown.params, new)
    BY <1>4 DEF PInv, TableTrue
  <2>2. shown.run # 0 /\ panel.rows # <<>>
          => \E m \in 0..SizeOf(new, shown.run) :
               IsPage(panel.rows, Upto(shown.params, shown.run, m), shown.params.offset)
    BY <1>4, <1>7 DEF PInv, TableTrue
  <2> QED BY <1>1, <2>1, <2>2 DEF TableTrue, Table, new
<1>12. PageInside'
  <2>1. ASSUME ~mixed, panel.params.offset # 0
        PROVE  shown.run # 0 /\ panel.params.offset < Listing(panel.params, shown.run, new)
    <3>1. shown.run # 0 /\ panel.params.offset < Listing(panel.params, shown.run, points)
      BY <2>1 DEF PInv, PageInside
    <3>2. Listing(panel.params, shown.run, points) <= Listing(panel.params, shown.run, new)
      BY <1>4, <1>7, <3>1
    <3>3. Listing(panel.params, shown.run, points) \in Nat
      BY <3>1, ListingIsNat
    <3>4. Listing(panel.params, shown.run, new) \in Nat
      <4> DEFINE n == shown.run
      <4>1. n \in 1..Len(new)
        BY <1>4, <1>7, <3>1
      <4> HIDE DEF n
      <4>2. /\ n \in 1..Len(Runs) /\ Len(Runs[n].entries) \in Nat
            /\ SizeOf(new, n) \in 0..Len(Runs[n].entries)
        BY <1>3, <4>1, PointFacts
      <4>3. \A p : Listing(p, n, new) \in Nat
        BY <4>2, UptoGrows DEF Listing
      <4> QED BY <4>3 DEF n
    <3>5. panel.params.offset \in Nat
      BY ParamsRecord
    <3> QED BY <3>1, <3>2, <3>3, <3>4, <3>5
  <2> QED BY <1>1, <2>1 DEF PInv, PageInside, new
<1> QED BY <1>5, <1>8, <1>9, <1>10, <1>11, <1>12 DEF PInv

\* A request is served: its answer is a page of the newest run, or a refusal.
LEMMA ServeKeeps ==
  ASSUME PInv, NEW k \in DOMAIN fetches, Serve(k)
  PROVE  PInv'
<1> DEFINE p == fetches[k].params
<1>1. PICK a : a = ProjectIssues(Asked(p))
  OBVIOUS
<1>2. PICK new : new = [fetches[k] EXCEPT !.at = "served", !.answer = a]
  OBVIOUS
<1>3. /\ UNCHANGED <<points, panel, mounted, sent, shown, mixed>>
      /\ fetches' = [fetches EXCEPT ![k] = new]
  BY <1>1, <1>2 DEF Serve
<1>4. /\ FetchRecord(new) /\ new.params = p /\ new.at = "served" /\ new.answer = a
      /\ new.alone = fetches[k].alone
  <2>1. PICK f : f = fetches[k]
    OBVIOUS
  <2>2. FetchRecord(f) /\ new = [f EXCEPT !.at = "served", !.answer = a]
    BY <1>2, <2>1 DEF PInv, Types
  <2> QED BY <2>1, <2>2 DEF FetchRecord
<1>5. /\ Listed(fetches') /\ DOMAIN fetches' = DOMAIN fetches /\ Len(fetches') = Len(fetches)
      /\ \A i \in DOMAIN fetches : fetches'[i] = IF i = k THEN new ELSE fetches[i]
  <2>1. PICK S : fetches \in Seq(S)
    BY DEF PInv, Types, Listed
  <2>2. fetches \in Seq(S \cup {new}) /\ new \in S \cup {new}
    BY <2>1
  <2> DEFINE A == S \cup {new}
  <2> HIDE DEF A
  <2>3. fetches \in Seq(A) /\ new \in A
    BY <2>2 DEF A
  <2>4. /\ [fetches EXCEPT ![k] = new] \in Seq(A)
        /\ Len([fetches EXCEPT ![k] = new]) = Len(fetches)
        /\ \A i \in DOMAIN fetches :
             [fetches EXCEPT ![k] = new][i] = IF i = k THEN new ELSE fetches[i]
    BY <2>3, Replaced
  <2> QED BY <1>3, <2>4 DEF Listed
<1> HIDE DEF p
<1>6. p \in Params /\ p.project # ""
  BY DEF PInv, Types, p
<1>7. IF a.status = 200
      THEN /\ points # <<>> /\ a.run = Len(points) /\ a.run \in 1..Len(points)
           /\ ServedAt(a, p, SizeOf(points, a.run))
      ELSE a.run = 0
  <2>1. PointsOK
    BY DEF PInv, Types
  <2>2. OfNewest(ProjectIssues(Asked(p)), p)
    BY <1>6, <2>1, Answered
  <2> QED BY <1>1, <2>2 DEF OfNewest
<1>8. Types'
  BY <1>3, <1>4, <1>5, <1>6 DEF PInv, Types, PointsOK
<1>9. Bounds'
  BY <1>3, <1>5 DEF PInv, Bounds
<1>10. ParamsFollow' /\ TableTrue' /\ NoEmptyPage'
  BY <1>3 DEF PInv, ParamsFollow, TableTrue, Table, NoEmptyPage, EmptyPageIsExplained, Scoped
<1>11. ASSUME a.status = 200
       PROVE  Serves(a, p, points) /\ a.total = Listing(p, a.run, points)
  <2>1. a.run \in 1..Len(points) /\ ServedAt(a, p, SizeOf(points, a.run))
    BY <1>7, <1>11
  <2>2. Fine(points)
    BY DEF PInv, Types, PointsOK, Fine
  <2> DEFINE n == a.run
  <2> HIDE DEF n
  <2>3. n \in 1..Len(points)
    BY <2>1 DEF n
  <2>4. SizeOf(points, n) \in 0..Len(Runs[n].entries)
    BY <2>2, <2>3, PointFacts
  <2>5. SizeOf(points, n) \in 0..SizeOf(points, n)
    BY <2>4
  <2> QED BY <2>1, <2>5 DEF Serves, ServedAt, Listing, n
<1>12. AnswersTrue'
  <2>1. ASSUME NEW i \in DOMAIN fetches PROVE AnswerOK(fetches'[i], points)
    <3>1. CASE i = k
      BY <1>4, <1>5, <1>7, <1>11, <3>1 DEF AnswerOK
    <3>2. CASE i # k
      BY <1>5, <3>2 DEF PInv, AnswersTrue
    <3> QED BY <3>1, <3>2
  <2> QED BY <1>3, <1>5, <2>1 DEF AnswersTrue
<1>13. AloneIsCurrent' /\ OneAtATime'
  BY <1>3, <1>4, <1>5 DEF PInv, AloneIsCurrent, OneAtATime, p
<1>14. PageInside'
  <2>1. ASSUME ~mixed, NEW i \in DOMAIN fetches,
               fetches'[i].at = "served", fetches'[i].params = panel.params,
               fetches'[i].answer.status = 200,
               shown.run \in {0, fetches'[i].answer.run}
        PROVE  panel.params.offset = 0 \/ panel.params.offset < fetches'[i].answer.total
    <3>1. CASE i = k
      <4>1. panel.params = p /\ fetches'[i].answer = a /\ a.status = 200
        BY <1>4, <1>5, <2>1, <3>1
      <4>2. ASSUME panel.params.offset # 0
            PROVE  panel.params.offset < Listing(panel.params, shown.run, points)
                   /\ shown.run = a.run
        BY <2>1, <4>1, <4>2 DEF PInv, PageInside
      <4> QED BY <1>11, <4>1, <4>2
    <3>2. CASE i # k
      BY <1>5, <2>1, <3>2 DEF PInv, PageInside
    <3> QED BY <3>1, <3>2
  <2> QED BY <1>3, <1>5, <2>1 DEF PInv, PageInside
<1> QED BY <1>8, <1>9, <1>10, <1>12, <1>13, <1>14 DEF PInv

\* One request less.
LEMMA OneLess ==
  ASSUME PInv, NEW k \in DOMAIN fetches, fetches' = RemoveAt(fetches, k)
  PROVE  /\ Listed(fetches') /\ Len(fetches') = Len(fetches) - 1 /\ Len(fetches) \in Nat
         /\ \A i \in DOMAIN fetches' : \E m \in DOMAIN fetches : fetches'[i] = fetches[m]
         /\ ~mixed => DOMAIN fetches' = {}
<1> DEFINE list == RemoveAt(fetches, k)
<1>1. Listed(fetches)
  BY DEF PInv, Types
<1>2. /\ Listed(list) /\ Len(list) = Len(fetches) - 1 /\ Len(fetches) \in Nat
      /\ \A i \in DOMAIN list : \E m \in DOMAIN fetches : list[i] = fetches[m]
  BY <1>1, Removed
<1> HIDE DEF list
<1>3. ASSUME ~mixed PROVE DOMAIN list = {}
  <2>1. Len(fetches) <= 1
    BY <1>3 DEF PInv, OneAtATime
  <2>2. PICK S : list \in Seq(S)
    BY <1>2 DEF Listed
  <2>3. Len(list) <= 0
    BY <1>2, <2>1
  <2>4. DOMAIN list = 1..Len(list) /\ Len(list) \in Nat
    BY <2>2
  <2> QED BY <2>3, <2>4
<1> QED BY <1>2, <1>3 DEF list

\* A request or its answer is lost.
LEMMA LoseKeeps ==
  ASSUME PInv, NEW k \in DOMAIN fetches, Lose(k)
  PROVE  PInv'
<1>1. /\ panel' = [panel EXCEPT !.load = "error"] /\ fetches' = RemoveAt(fetches, k)
      /\ UNCHANGED <<points, mounted, sent, shown, mixed>>
  BY DEF Lose
<1>2. /\ PanelRecord(panel') /\ panel'.raw = panel.raw /\ panel'.timer = panel.timer
      /\ panel'.filters = panel.filters /\ panel'.params = panel.params
      /\ panel'.rows = panel.rows /\ panel'.total = panel.total /\ panel'.load = "error"
  BY <1>1 DEF PInv, Types, PanelRecord
<1>3. /\ Listed(fetches') /\ Len(fetches') = Len(fetches) - 1 /\ Len(fetches) \in Nat
      /\ \A i \in DOMAIN fetches' : \E m \in DOMAIN fetches : fetches'[i] = fetches[m]
      /\ ~mixed => DOMAIN fetches' = {}
  BY <1>1, OneLess
<1>4. Types'
  <2>1. ASSUME NEW i \in DOMAIN fetches'
        PROVE  /\ FetchRecord(fetches'[i]) /\ fetches'[i].params \in Params
               /\ fetches'[i].params.project # "" /\ fetches'[i].at \in {"sent", "served"}
               /\ fetches'[i].alone \in BOOLEAN
    BY <1>3 DEF PInv, Types
  <2> QED BY <1>1, <1>2, <1>3, <2>1 DEF PInv, Types, PointsOK
<1>5. Bounds'
  <2>1. Len(fetches') <= sent
    <3>1. Len(fetches') = Len(fetches) - 1 /\ Len(fetches) \in Nat
      BY <1>3
    <3>2. Len(fetches) <= sent /\ sent \in Nat
      BY DEF PInv, Bounds
    <3> QED BY <3>1, <3>2
  <2> QED BY <1>1, <1>2, <2>1 DEF PInv, Bounds
<1>6. ParamsFollow' /\ TableTrue' /\ NoEmptyPage'
  BY <1>1, <1>2 DEF PInv, ParamsFollow, TableTrue, NoEmptyPage, EmptyPageIsExplained
<1>7. AnswersTrue'
  BY <1>1, <1>3 DEF PInv, AnswersTrue
<1>8. AloneIsCurrent'
  <2>1. ASSUME NEW i \in DOMAIN fetches', fetches'[i].alone, panel.params.project # ""
        PROVE  fetches'[i].params = panel.params
    BY <1>3, <2>1 DEF PInv, AloneIsCurrent
  <2> QED BY <1>1, <1>2, <2>1 DEF AloneIsCurrent
<1>9. OneAtATime'
  <2>1. ~mixed => Len(fetches') <= 1
    <3>1. ~mixed => Len(fetches) <= 1
      BY DEF PInv, OneAtATime
    <3>2. Len(fetches') = Len(fetches) - 1 /\ Len(fetches) \in Nat
      BY <1>3
    <3>3. ASSUME Len(fetches) <= 1 PROVE Len(fetches') <= 1
      BY <3>2, <3>3
    <3> QED BY <3>1, <3>3
  <2> QED BY <1>1, <1>3, <2>1 DEF PInv, OneAtATime
<1>10. PageInside'
  BY <1>1, <1>2, <1>3 DEF PInv, PageInside
<1> QED BY <1>4, <1>5, <1>6, <1>7, <1>8, <1>9, <1>10 DEF PInv

\* An answer is shown.
LEMMA DeliverKeeps ==
  ASSUME PInv, NEW k \in DOMAIN fetches, Deliver(k)
  PROVE  PInv'
<1>1. PICK f : f = fetches[k]
  OBVIOUS
<1>2. PICK a : a = f.answer
  OBVIOUS
<1>3. /\ panel' = Delivered(panel, a) /\ fetches' = RemoveAt(fetches, k) /\ f.at = "served"
      /\ shown' = [params |-> f.params, run |-> a.run, alone |-> f.alone]
      /\ mixed' = (mixed \/ (shown.run # 0 /\ a.run # shown.run))
      /\ UNCHANGED <<points, mounted, sent>>
  BY <1>1, <1>2 DEF Deliver
<1>4. /\ f.params \in Params /\ f.alone \in BOOLEAN /\ (~mixed => f.alone)
      /\ (f.alone /\ panel.params.project # "" => f.params = panel.params)
  BY <1>1 DEF PInv, Types, OneAtATime, AloneIsCurrent
<1>5. IF a.status = 200 THEN Serves(a, f.params, points) ELSE a.run = 0
  BY <1>1, <1>2, <1>3 DEF PInv, AnswersTrue, AnswerOK
<1>6. /\ Listed(fetches') /\ Len(fetches') = Len(fetches) - 1 /\ Len(fetches) \in Nat
      /\ \A i \in DOMAIN fetches' : \E m \in DOMAIN fetches : fetches'[i] = fetches[m]
      /\ ~mixed => DOMAIN fetches' = {}
  BY <1>3, OneLess
<1>7. /\ PanelRecord(panel') /\ panel'.raw = panel.raw /\ panel'.timer = panel.timer
      /\ panel'.filters = panel.filters /\ panel'.params = panel.params
  BY <1>3 DEF PInv, Types, PanelRecord, Delivered
<1>8. /\ shown' = [params |-> shown'.params, run |-> shown'.run, alone |-> shown'.alone]
      /\ shown'.params = f.params /\ shown'.run = a.run /\ shown'.alone = f.alone
  BY <1>3
<1>9. Fine(points) /\ Len(points) \in Nat
  BY PointCount DEF PInv, Types, PointsOK, Fine
<1>10. ASSUME a.status = 200
       PROVE  /\ panel'.rows = a.rows /\ panel'.total = a.total /\ panel'.load = "loaded"
              /\ a.run \in 1..Len(points) /\ a.run # 0 /\ a.total \in Nat
              /\ Listed(a.rows) /\ Len(a.rows) <= PageSize
              /\ f.params.offset < a.total => a.rows # <<>>
              /\ f.params.offset = 0 /\ 0 < a.total => a.rows # <<>>
  <2>1. panel'.rows = a.rows /\ panel'.total = a.total /\ panel'.load = "loaded"
    BY <1>3, <1>10 DEF PInv, Types, PanelRecord, Delivered
  <2>2. Serves(a, f.params, points)
    BY <1>5, <1>10
  <2> QED BY <1>4, <1>9, <2>1, <2>2, ServedFacts
<1>11. ASSUME a.status # 200
       PROVE  /\ panel'.rows = panel.rows /\ panel'.total = panel.total /\ panel'.load = "error"
              /\ a.run = 0
  BY <1>3, <1>5, <1>11 DEF PInv, Types, PanelRecord, Delivered
<1>12. Types'
  <2>1. ASSUME NEW i \in DOMAIN fetches'
        PROVE  /\ FetchRecord(fetches'[i]) /\ fetches'[i].params \in Params
               /\ fetches'[i].params.project # "" /\ fetches'[i].at \in {"sent", "served"}
               /\ fetches'[i].alone \in BOOLEAN
    BY <1>6 DEF PInv, Types
  <2>2. Listed(panel'.rows) /\ panel'.load \in {"idle", "loading", "loaded", "error"}
    BY <1>10, <1>11 DEF PInv, Types
  <2>3. mixed' \in BOOLEAN
    BY <1>3 DEF PInv, Types
  <2> QED BY <1>3, <1>4, <1>6, <1>7, <1>8, <2>1, <2>2, <2>3 DEF PInv, Types, PointsOK
<1>13. Bounds'
  <2>1. Len(fetches') <= sent
    <3>1. Len(fetches') = Len(fetches) - 1 /\ Len(fetches) \in Nat
      BY <1>6
    <3>2. Len(fetches) <= sent /\ sent \in Nat
      BY DEF PInv, Bounds
    <3> QED BY <3>1, <3>2
  <2>2. panel'.total \in Nat /\ Len(panel'.rows) <= PageSize
    BY <1>10, <1>11 DEF PInv, Bounds
  <2>3. shown'.run \in 0..Len(points)
    <3>1. a.run \in 1..Len(points) \/ a.run = 0
      BY <1>10, <1>11
    <3> QED BY <1>8, <1>9, <3>1
  <2> QED BY <1>3, <1>7, <2>1, <2>2, <2>3 DEF PInv, Bounds
<1>14. ParamsFollow'
  BY <1>7 DEF PInv, ParamsFollow
<1>15. AnswersTrue'
  BY <1>3, <1>6 DEF PInv, AnswersTrue
<1>16. TableTrue'
  <2>1. CASE a.status = 200
    <3>1. Serves(a, f.params, points)
      BY <1>5, <2>1
    <3>2. PICK t : t = Table'
      OBVIOUS
    <3>3. t.rows = a.rows /\ t.total = a.total /\ t.run = a.run
      BY <1>8, <1>10, <2>1, <3>2 DEF Table
    <3>4. Serves(t, f.params, points)
      BY <3>1, <3>3 DEF Serves, ServedAt
    <3>5. \E m \in 0..SizeOf(points, a.run) :
             IsPage(a.rows, Upto(f.params, a.run, m), f.params.offset)
      BY <3>1 DEF Serves, ServedAt
    <3> QED BY <1>3, <1>8, <1>10, <2>1, <3>2, <3>4, <3>5 DEF TableTrue
  <2>2. CASE a.status # 200
    BY <1>8, <1>11, <2>2 DEF TableTrue
  <2> QED BY <2>1, <2>2
<1>17. AloneIsCurrent'
  <2>1. ASSUME NEW i \in DOMAIN fetches', fetches'[i].alone, panel.params.project # ""
        PROVE  fetches'[i].params = panel.params
    BY <1>6, <2>1 DEF PInv, AloneIsCurrent
  <2> QED BY <1>4, <1>7, <1>8, <2>1 DEF AloneIsCurrent
<1>18. OneAtATime'
  <2>1. ~mixed => Len(fetches') <= 1
    <3>1. ~mixed => Len(fetches) <= 1
      BY DEF PInv, OneAtATime
    <3>2. Len(fetches') = Len(fetches) - 1 /\ Len(fetches) \in Nat
      BY <1>6
    <3>3. ASSUME Len(fetches) <= 1 PROVE Len(fetches') <= 1
      BY <3>2, <3>3
    <3> QED BY <3>1, <3>3
  <2> QED BY <1>3, <1>4, <1>6, <1>8, <2>1 DEF OneAtATime
<1>19. PageInside'
  <2>1. ASSUME ~mixed', panel.params.offset # 0
        PROVE  a.run # 0 /\ panel.params.offset < Listing(panel.params, a.run, points)
    <3>1. ~mixed /\ (shown.run = 0 \/ a.run = shown.run)
      BY <1>3, <2>1
    <3>2. shown.run # 0 /\ panel.params.offset < Listing(panel.params, shown.run, points)
      BY <2>1, <3>1 DEF PInv, PageInside
    <3> QED BY <3>1, <3>2
  <2>2. ~mixed' => DOMAIN fetches' = {}
    BY <1>3, <1>6
  <2> QED BY <1>3, <1>7, <1>8, <2>1, <2>2 DEF PageInside
<1>20. NoEmptyPage'
  <2>1. ASSUME panel'.params.project # "", panel'.load = "loaded", panel'.rows = <<>>,
               panel'.total > 0, ~mixed'
        PROVE  FALSE
    <3>1. a.status = 200
      BY <1>11, <2>1
    <3>2. ~mixed /\ shown.run \in {0, a.run}
      BY <1>3, <2>1
    <3>3. f.params = panel.params
      BY <1>4, <1>7, <2>1, <3>2
    <3>4. panel.params.offset = 0 \/ panel.params.offset < a.total
      BY <1>1, <1>2, <1>3, <3>1, <3>2, <3>3 DEF PInv, PageInside
    <3>5. 0 < a.total
      <4>1. a.total > 0
        BY <1>10, <2>1, <3>1
      <4>2. a.total \in Nat
        BY <1>10, <3>1
      <4> QED BY <4>1, <4>2
    <3>6. a.rows # <<>>
      BY <1>10, <3>1, <3>3, <3>4, <3>5
    <3> QED BY <1>10, <2>1, <3>1, <3>6
  <2> QED BY <2>1 DEF NoEmptyPage, EmptyPageIsExplained, Scoped
<1> QED BY <1>12, <1>13, <1>14, <1>15, <1>16, <1>17, <1>18, <1>19, <1>20 DEF PInv

-----------------------------------------------------------------------------
(* The theorems.                                                           *)

\* Every step keeps the invariant.
LEMMA PInvStep == PInv /\ [Next]_vars => PInv'
<1> SUFFICES ASSUME PInv, Next \/ UNCHANGED vars PROVE PInv'
  OBVIOUS
<1>1. CASE UNCHANGED vars
  <2>1. Types'
    BY <1>1 DEF vars, PInv, Types, PointsOK
  <2>2. Bounds' /\ ParamsFollow'
    BY <1>1 DEF vars, PInv, Bounds, ParamsFollow
  <2>3. AnswersTrue' /\ TableTrue'
    BY <1>1 DEF vars, PInv, AnswersTrue, TableTrue, Table
  <2>4. AloneIsCurrent' /\ OneAtATime'
    BY <1>1 DEF vars, PInv, AloneIsCurrent, OneAtATime
  <2>5. PageInside'
    BY <1>1 DEF vars, PInv, PageInside
  <2>6. NoEmptyPage'
    BY <1>1 DEF vars, PInv, NoEmptyPage, EmptyPageIsExplained, Scoped
  <2> QED BY <2>1, <2>2, <2>3, <2>4, <2>5, <2>6 DEF PInv
<1>2. ASSUME NEW k \in 1..MaxFetches, Serve(k) \/ Deliver(k) \/ Lose(k) PROVE PInv'
  <2>1. k \in DOMAIN fetches
    BY <1>2 DEF Serve, Deliver, Lose
  <2> QED BY <1>2, <2>1, ServeKeeps, DeliverKeeps, LoseKeeps
<1>3. CASE Grow
  BY <1>3, GrowKeeps
<1>4. CASE User \/ Debounce
  <2>1. NoFilters \in FilterChoices
    BY PanelAssumption
  <2> QED BY <1>4, <2>1, TypingKeeps, FirstPageAsked, PageTurned, SelectionKeeps
          DEF User, UpdateFilter, ClearAllFilters
<1> QED BY <1>1, <1>2, <1>3, <1>4 DEF Next

\* What the table shows is always a page of what one run has found: the invariant.
THEOREM SearchInvariant == Spec => []PInv
<1> QED BY PInvInit, PInvStep, PTL DEF Spec

\* The panel, its requests and its history have their types, whatever is typed, turned,
\* lost or overtaken.
THEOREM SearchTypes == Spec => []TypeOK
<1>1. PInv => TypeOK
  <2> SUFFICES ASSUME PInv PROVE TypeOK
    OBVIOUS
  <2>1. [raw |-> panel.raw, timer |-> panel.timer, filters |-> panel.filters,
         params |-> panel.params, load |-> panel.load] \in Panel
    BY DEF PInv, Types, Panel
  <2>2. shown.run \in 0..Len(Runs)
    <3>1. shown.run \in 0..Len(points) /\ Len(points) \in Nat
      BY PointCount DEF PInv, Bounds
    <3>2. Len(points) <= Len(Runs) /\ Len(Runs) \in Nat
      BY RunsAssumption DEF PInv, Types, PointsOK
    <3> QED BY <3>1, <3>2
  <2>3. {shown.alone, mixed} \subseteq BOOLEAN
    BY DEF PInv, Types
  <2> QED BY <2>1, <2>2, <2>3 DEF PInv, Types, Bounds, TypeOK
<1> QED BY <1>1, SearchInvariant, PTL

\* A table without rows under a page count is shown only after answers overtook each other
\* or another point became the newest: paging alone never leads past the end.
THEOREM EmptyPageProved == Spec => []EmptyPageIsExplained
<1>1. PInv => EmptyPageIsExplained
  BY DEF PInv, NoEmptyPage
<1> QED BY <1>1, SearchInvariant, PTL

\* rows is a page of what run n had when these were the points.
OnPage(rows, p, n, pts) ==
  \E m \in 0..SizeOf(pts, n) : IsPage(rows, Upto(p, n, m), p.offset)

\* From the offset on, rows stand in the list of all that the run finds.
InList(rows, p, n) ==
  \A i \in DOMAIN rows : /\ p.offset + i \in 1..Len(Whole(p, n))
                         /\ rows[i] = Row(Whole(p, n)[p.offset + i])
                         /\ Whole(p, n)[p.offset + i] \in Hits(p, n)

\* The rows of a page stand in that list.
LEMMA RowsOfWhole ==
  ASSUME NEW pts, Fine(pts), NEW n \in 1..Len(pts), NEW p, NEW rows, OnPage(rows, p, n, pts)
  PROVE  InList(rows, p, n)
<1> USE DEF OnPage, InList
<1>1. PICK m \in 0..SizeOf(pts, n) : IsPage(rows, Upto(p, n, m), p.offset)
  OBVIOUS
<1>2. n \in 1..Len(Runs) /\ m \in 0..Len(Runs[n].entries)
  <2>1. /\ n \in 1..Len(Runs) /\ SizeOf(pts, n) \in 0..Len(Runs[n].entries)
        /\ Len(Runs[n].entries) \in Nat
    BY PointFacts
  <2> QED BY <2>1
<1> QED BY <1>1, <1>2, PageOfWhole

\* When requests do not overlap, the table is a page of the issues that match the project
\* asked for, the chips above it, and the text in the box once the pause is over: all of
\* them that the run had at some time, in its order, whatever page it is.
THEOREM SettledProved == Spec => []SettledViewIsTrue
<1>1. PInv => SettledViewIsTrue
  <2> SUFFICES ASSUME PInv, Settled PROVE \E m \in 0..SizeOf(points, shown.run) : TrueAt(m)
    BY DEF SettledViewIsTrue
  <2> DEFINE n == shown.run
             p == shown.params
  <2>1. p = panel.params
    BY DEF PInv, AloneIsCurrent, Settled, Scoped
  <2>2. Serves(Table, p, points)
    BY DEF PInv, TableTrue, Settled
  <2>3. PICK m \in 0..SizeOf(points, n) :
          panel.total = Len(Upto(p, n, m)) /\ IsPage(panel.rows, Upto(p, n, m), p.offset)
    BY <2>2 DEF Serves, ServedAt, Table
  <2>4. /\ Inputs.project = p.project /\ Inputs.query = p.query /\ Inputs.filters = p.filters
    <3>1. panel.filters = panel.params.filters /\ (~panel.timer => panel.raw = panel.params.query)
      BY DEF PInv, ParamsFollow
    <3> QED BY <2>1, <3>1 DEF Inputs
  <2>5. Upto(Inputs, n, m) = Upto(p, n, m)
    BY <2>4 DEF Upto, Hits
  <2>6. TrueAt(m)
    BY <2>1, <2>3, <2>5 DEF TrueAt, IsPage
  <2> QED BY <2>3, <2>6
<1> QED BY <1>1, SearchInvariant, PTL

\* Every row shown stands where its page puts it in the list of all that its run will
\* find: that list is the same for all pages of a search, and however far the run is.
RowsInPlace == shown.run # 0 => InList(panel.rows, shown.params, shown.run)

\* The invariant says so.
LEMMA InvInPlace == PInv => RowsInPlace
<1> SUFFICES ASSUME PInv PROVE RowsInPlace
  OBVIOUS
<1>1. PICK p, n, rows : p = shown.params /\ n = shown.run /\ rows = panel.rows
  OBVIOUS
<1>2. PICK pts : pts = points
  OBVIOUS
<1>3. Fine(pts) /\ n \in 0..Len(pts)
  <2>1. PointsOK /\ shown.run \in 0..Len(points)
    BY DEF PInv, Types, Bounds
  <2> QED BY <1>1, <1>2, <2>1 DEF PointsOK, Fine
<1>4. n # 0 /\ rows # <<>> => OnPage(rows, p, n, pts)
  BY <1>1, <1>2 DEF PInv, TableTrue, OnPage
<1>5. ASSUME n # 0 PROVE InList(rows, p, n)
  <2>1. n \in 1..Len(pts)
    <3>1. Len(pts) \in Nat
      BY <1>3 DEF Fine
    <3> QED BY <1>3, <1>5, <3>1
  <2>2. CASE rows = <<>>
    BY <2>2, NoList DEF InList
  <2>3. CASE rows # <<>>
    BY <1>3, <1>4, <1>5, <2>1, <2>3, RowsOfWhole
  <2> QED BY <2>2, <2>3
<1> QED BY <1>1, <1>5 DEF RowsInPlace

\* Rows are where the pages say, whatever a run enters twice.
THEOREM PlacesProved == Spec => []RowsInPlace
BY InvInPlace, SearchInvariant, PTL

\* A run enters an issue once, as BackupJob!BooksAgree says of the items of a run whose
\* search answers with every issue once.
OneEntryEach ==
  \A n \in 1..Len(Runs) : \A i, j \in DOMAIN Runs[n].entries :
    LET e == Runs[n].entries[i]
        f == Runs[n].entries[j]
    IN  e.type = "JiraIssue" /\ ~e.sub /\ f.type = "JiraIssue" /\ ~f.sub /\ e.key = f.key
          => i = j

\* Then a row stands at one place of the list.
LEMMA OnePlace ==
  ASSUME OneEntryEach, NEW p, NEW n \in 1..Len(Runs)
  PROVE  \A i, j \in 1..Len(Whole(p, n)) : Row(Whole(p, n)[i]) = Row(Whole(p, n)[j]) => i = j
<1> DEFINE E == Runs[n].entries
           A == Elements(E)
           S == Hits(p, n)
           s == SubSeq(E, 1, Len(E))
           K == [e \in A |-> Row(e)]
<1>1. E \in Seq(A)
  BY RunsAssumption
<1>2. S \subseteq A /\ \A e \in S : e.type = "JiraIssue" /\ ~e.sub
  BY DEF Hits, IsIssueOf
<1> HIDE DEF A, S, E
<1>3. s \in Seq(A) /\ Len(s) = Len(E) /\ Len(E) \in Nat /\ \A i \in 1..Len(E) : s[i] = E[i]
  <2>1. \A i \in 1..Len(E) : E[i] \in A
    BY <1>1
  <2>2. Len(E) \in Nat
    BY <1>1
  <2> QED BY <1>1, <2>1, <2>2, SubSeqProperties
<1>4. DOMAIN s = 1..Len(E) /\ DOMAIN E = 1..Len(E)
  BY <1>1, <1>3
<1> HIDE DEF s
<1>5. ASSUME NEW i \in DOMAIN s, NEW j \in DOMAIN s,
             s[i] \in S, s[j] \in S, K[s[i]] = K[s[j]]
      PROVE  i = j
  <2>1. s[i] = E[i] /\ s[j] = E[j] /\ i \in DOMAIN E /\ j \in DOMAIN E
    BY <1>3, <1>4
  <2>2. Row(E[i]) = Row(E[j])
    BY <1>2, <1>5, <2>1
  <2>3. E[i].key = E[j].key
    BY <2>2 DEF Row
  <2>4. E[i].type = "JiraIssue" /\ ~E[i].sub /\ E[j].type = "JiraIssue" /\ ~E[j].sub
    BY <1>2, <1>5, <2>1
  <2> QED BY <2>1, <2>3, <2>4 DEF OneEntryEach, E
<1> HIDE DEF K
<1> DEFINE w == Filter(s, S)
<1>6. \A i, j \in DOMAIN w : K[w[i]] = K[w[j]] => i = j
  BY <1>3, <1>5, FilterApart
<1>7. w \in Seq(A) /\ DOMAIN w = 1..Len(w)
  BY <1>3, FilterElements
<1>8. w = Whole(p, n)
  BY DEF Whole, Upto, s, S, E
<1> HIDE DEF w
<1>9. \A i \in DOMAIN w : K[w[i]] = Row(w[i])
  BY <1>7 DEF K
<1> QED BY <1>6, <1>7, <1>8, <1>9

\* Pages turned while the backup appends fit together, if a run enters an issue once: none
\* of its rows is on two pages.
THEOREM PagesProved == ASSUME OneEntryEach PROVE Spec => PagesAgree
<1> DEFINE Fit == SamePoint /\ SameSearch =>
                    \A row \in Elements(panel.rows) \cup Elements(panel'.rows) :
                      Cardinality(Position(panel.rows, shown.params, row)
                                  \cup Position(panel'.rows, shown'.params, row)) = 1
<1>1. PInv /\ PInv' => RowsInPlace /\ RowsInPlace'
  BY InvInPlace, PTL
<1>2. PInv /\ PInv' => Fit
  <2> SUFFICES ASSUME PInv, PInv', SamePoint, SameSearch,
                      NEW row \in Elements(panel.rows) \cup Elements(panel'.rows)
               PROVE  Cardinality(Position(panel.rows, shown.params, row)
                                  \cup Position(panel'.rows, shown'.params, row)) = 1
    OBVIOUS
  <2>1. PICK p, q, n : p = shown.params /\ q = shown'.params /\ n = shown.run
    OBVIOUS
  <2>2. n # 0 /\ shown'.run = n
    BY <2>1 DEF SamePoint
  <2>3. p \in Params /\ q \in Params
    BY <2>1 DEF PInv, Types
  <2>4. p.project = q.project /\ p.query = q.query /\ p.filters = q.filters
    <3>1. [p EXCEPT !.offset = 0] = [q EXCEPT !.offset = 0]
      BY <2>1 DEF SameSearch
    <3> QED BY <2>3, <3>1 DEF Params
  <2>5. Whole(p, n) = Whole(q, n)
    BY <2>4, SameList
  <2>6. PICK w : w = Whole(p, n)
    OBVIOUS
  <2>7. PICK old, new : old = panel.rows /\ new = panel'.rows
    OBVIOUS
  <2>8. InList(old, p, n) /\ InList(new, q, n)
    <3>1. RowsInPlace /\ RowsInPlace'
      BY <1>1
    <3> QED BY <2>1, <2>2, <2>7, <3>1 DEF RowsInPlace
  <2>9. \A i \in DOMAIN old : p.offset + i \in 1..Len(w) /\ old[i] = Row(w[p.offset + i])
    BY <2>6, <2>8 DEF InList
  <2>10. \A i \in DOMAIN new : q.offset + i \in 1..Len(w) /\ new[i] = Row(w[q.offset + i])
    BY <2>5, <2>6, <2>8 DEF InList
  <2>11. \A x, y \in 1..Len(w) : Row(w[x]) = row /\ Row(w[y]) = row => x = y
    <3>1. n \in 1..Len(Runs)
      <4>1. n \in 0..Len(points) /\ PointsOK
        BY <2>1 DEF PInv, Types, Bounds
      <4>2. Len(points) \in Nat /\ Len(points) <= Len(Runs)
        BY <4>1 DEF PointsOK
      <4> QED BY <2>2, <4>1, <4>2, RunsAssumption
    <3> QED BY <2>6, <3>1, OnePlace
  <2> DEFINE B == Position(old, p, row) \cup Position(new, q, row)
  <2>12. \A x \in B : x \in 1..Len(w) /\ Row(w[x]) = row
    BY <2>9, <2>10 DEF Position
  <2>13. B # {}
    <3>1. CASE row \in Elements(old)
      <4>1. PICK i \in DOMAIN old : old[i] = row
        BY <3>1 DEF Elements
      <4> QED BY <4>1 DEF Position
    <3>2. CASE row \in Elements(new)
      <4>1. PICK i \in DOMAIN new : new[i] = row
        BY <3>2 DEF Elements
      <4> QED BY <4>1 DEF Position
    <3> QED BY <2>7, <3>1, <3>2
  <2> HIDE DEF B
  <2>14. PICK x : B = {x}
    <3>1. PICK x : x \in B
      BY <2>13
    <3>2. \A y \in B : y = x
      BY <2>11, <2>12, <3>1
    <3>3. B = {x}
      BY <3>1, <3>2
    <3> QED BY <3>3
  <2>15. Cardinality(B) = 1
    BY <2>14, FS_Singleton
  <2> QED BY <2>1, <2>7, <2>15 DEF B
<1>3. PInv /\ PInv' => [Fit]_vars
  BY <1>2
<1>4. Spec => [][Fit]_vars
  BY <1>3, SearchInvariant, PTL
<1> QED BY <1>4 DEF PagesAgree
=============================================================================
