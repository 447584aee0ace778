------------------------- MODULE GlobalSearchProofs -------------------------
(* Proofs about GlobalSearch, for any runs, words and number of searches.  *)
EXTENDS GlobalSearch, ListProofs, FiniteSetTheorems

\* A search on its own asked for the text in the box, unless the pause has begun anew.
AloneIsCurrent ==
  \A k \in DOMAIN searches :
    searches[k].alone /\ ~bar.timer => searches[k].word = bar.query

\* What the dropdown shows, or would show on a focus, was found for that text.
ShownIsCurrent ==
  ~bar.timer /\ ~bar.error /\ searches = <<>> /\ shown.alone /\ (bar.open \/ bar.results # {})
    => bar.query = shown.word

Bar(b) == b = [query |-> b.query, timer |-> b.timer, results |-> b.results, open |-> b.open,
               loading |-> b.loading, error |-> b.error]
Request(s) == s = [word |-> s.word, at |-> s.at, results |-> s.results, run |-> s.run,
                   alone |-> s.alone]

BarInv ==
  /\ Bar(bar) /\ Listed(searches) /\ \A k \in DOMAIN searches : Request(searches[k])
  /\ AloneIsCurrent /\ ShownIsCurrent

\* The bar before anything is typed.
LEMMA BarInvInit == Init => BarInv
<1> SUFFICES ASSUME Init PROVE BarInv
  OBVIOUS
<1>1. <<>> \in Seq({})
  OBVIOUS
<1>2. Listed(searches) /\ DOMAIN searches = {}
  <2>1. searches = <<>>
    BY DEF Init
  <2> QED BY <1>1, <2>1 DEF Listed
<1>3. Bar(bar)
  BY DEF Init, Bar
<1>4. bar.timer
  BY DEF Init
<1> QED BY <1>2, <1>3, <1>4 DEF BarInv, AloneIsCurrent, ShownIsCurrent

\* The searches that a new one overtakes.
LEMMA OvertakenTypes ==
  ASSUME BarInv
  PROVE  /\ Listed(Overtaken) /\ DOMAIN Overtaken = DOMAIN searches
         /\ \A k \in DOMAIN searches : Request(Overtaken[k]) /\ ~Overtaken[k].alone
<1>1. PICK n \in Nat : DOMAIN searches = 1..n
  BY DEF BarInv, Listed
<1>2. \A k \in DOMAIN searches : Overtaken[k] = [searches[k] EXCEPT !.alone = FALSE]
  BY DEF Overtaken
<1>3. \A k \in DOMAIN searches : Request(Overtaken[k]) /\ ~Overtaken[k].alone
  BY <1>2 DEF BarInv, Request
<1> DEFINE T == {[searches[k] EXCEPT !.alone = FALSE] : k \in DOMAIN searches}
<1>4. Overtaken \in [1..n -> T]
  BY <1>1 DEF Overtaken
<1> HIDE DEF T
<1>5. Overtaken \in Seq(T)
  BY <1>4
<1> QED BY <1>1, <1>3, <1>4, <1>5 DEF Listed

\* Steps that send nothing and take no answer.
LEMMA BoxSteps ==
  ASSUME BarInv,
         \/ \E w \in Typed \cup {""} : TypeWord(w)
         \/ Focus \/ ClickOutside \/ \E card \in bar.results : Navigate(card)
         \/ ServeSummary \/ ShowSummary \/ LoseSummary \/ Grow \/ UNCHANGED vars
  PROVE  BarInv'
<1> USE DEF BarInv, AloneIsCurrent, ShownIsCurrent, Bar, Listed, Request
<1>1. UNCHANGED <<searches, shown>>
  BY DEF TypeWord, Focus, ClickOutside, Navigate, ServeSummary, ShowSummary, LoseSummary, Grow,
         barVars, vars
<1>2. CASE \E w \in Typed \cup {""} : TypeWord(w)
  BY <1>1, <1>2 DEF TypeWord
<1>3. CASE Focus \/ ClickOutside
  BY <1>1, <1>3 DEF Focus, ClickOutside
<1>4. CASE \E card \in bar.results : Navigate(card)
  BY <1>1, <1>4 DEF Navigate
<1>5. CASE ServeSummary \/ ShowSummary \/ LoseSummary \/ Grow \/ UNCHANGED vars
  BY <1>1, <1>5 DEF ServeSummary, ShowSummary, LoseSummary, Grow, barVars, vars
<1> QED BY <1>2, <1>3, <1>4, <1>5

\* Steps that run a search or take an answer.
LEMMA SearchSteps ==
  ASSUME BarInv,
         RunEmpty \/ RunSearch \/ \E k \in DOMAIN searches : Serve(k) \/ Deliver(k) \/ Lose(k)
  PROVE  BarInv'
<1>1. CASE RunEmpty
  BY <1>1, OvertakenTypes
     DEF RunEmpty, Cleared, BarInv, AloneIsCurrent, ShownIsCurrent, Bar
<1>2. CASE RunSearch
  <2> DEFINE new == [word |-> bar.query, at |-> "sent", results |-> {}, run |-> 0,
                     alone |-> searches = <<>>]
  <2>1. /\ bar' = [bar EXCEPT !.timer = FALSE, !.loading = TRUE, !.error = FALSE]
        /\ searches' = Append(Overtaken, new) /\ UNCHANGED shown
    BY <1>2 DEF RunSearch
  <2>2. Request(new) /\ new.word = bar.query
    BY DEF Request
  <2> HIDE DEF new
  <2>3. PICK S : Overtaken \in Seq(S)
    BY OvertakenTypes DEF Listed
  <2>4. Overtaken \in Seq(S \cup {new})
    BY <2>3
  <2>5. /\ searches' \in Seq(S \cup {new}) /\ searches' # <<>>
        /\ \A k \in DOMAIN searches' : \/ k \in DOMAIN searches /\ searches'[k] = Overtaken[k]
                                       \/ searches'[k] = new
    BY <2>1, <2>4, OvertakenTypes, AppendProperties
  <2>6. bar'.query = bar.query /\ Bar(bar')
    BY <2>1 DEF BarInv, Bar
  <2>7. AloneIsCurrent'
    BY <2>2, <2>5, <2>6, OvertakenTypes DEF AloneIsCurrent
  <2> QED BY <2>2, <2>5, <2>6, <2>7, OvertakenTypes DEF BarInv, ShownIsCurrent, Listed
<1>3. ASSUME NEW k \in DOMAIN searches, Serve(k) PROVE BarInv'
  <2>1. /\ UNCHANGED <<bar, shown>> /\ DOMAIN searches' = DOMAIN searches
        /\ \A i \in DOMAIN searches : /\ Request(searches'[i])
                                      /\ searches'[i].word = searches[i].word
                                      /\ searches'[i].alone = searches[i].alone
    <3>1. PICK found, run : searches' = [searches EXCEPT ![k].at = "served", ![k].results = found,
                                                         ![k].run = run]
      BY <1>3 DEF Serve
    <3>2. ASSUME NEW i \in DOMAIN searches
          PROVE  searches'[i] = IF i = k THEN [searches[i] EXCEPT !.at = "served", !.results = found,
                                                                   !.run = run]
                                ELSE searches[i]
      BY <3>1
    <3>3. UNCHANGED <<bar, shown>> /\ DOMAIN searches' = DOMAIN searches
      BY <1>3, <3>1 DEF Serve
    <3> QED BY <3>2, <3>3 DEF BarInv, Request
  <2>2. Listed(searches)'
    <3>1. PICK n \in Nat : DOMAIN searches = 1..n
      BY DEF BarInv, Listed
    <3>2. searches' \in [1..n -> {searches'[i] : i \in 1..n}]
      BY <1>3, <3>1 DEF Serve
    <3> DEFINE T == {searches'[i] : i \in 1..n}
    <3> HIDE DEF T
    <3>3. searches' \in Seq(T)
      BY <3>2 DEF T
    <3> QED BY <3>3 DEF Listed
  <2>3. searches' # <<>>
    BY <2>1
  <2> QED BY <2>1, <2>2, <2>3 DEF BarInv, AloneIsCurrent, ShownIsCurrent
<1>4. ASSUME NEW k \in DOMAIN searches, Deliver(k) \/ Lose(k) PROVE BarInv'
  <2>1. searches' = RemoveAt(searches, k)
    BY <1>4 DEF Deliver, Lose
  <2>2. /\ Listed(searches')
        /\ \A i \in DOMAIN searches' : \E m \in DOMAIN searches : searches'[i] = searches[m]
    BY <2>1, Removed DEF BarInv
  <2>3. Bar(bar') /\ bar'.query = bar.query /\ bar'.timer = bar.timer
    BY <1>4 DEF Deliver, Lose, Delivered, BarInv, Bar
  <2>4. AloneIsCurrent' /\ \A i \in DOMAIN searches' : Request(searches'[i])
    BY <2>2, <2>3 DEF BarInv, AloneIsCurrent
  <2>5. ShownIsCurrent'
    <3>1. CASE Deliver(k)
      BY <2>3, <3>1 DEF Deliver, BarInv, AloneIsCurrent, ShownIsCurrent
    <3>2. CASE Lose(k)
      BY <3>2 DEF Lose, BarInv, Bar, ShownIsCurrent
    <3> QED BY <1>4, <3>1, <3>2
  <2> QED BY <2>2, <2>3, <2>4, <2>5 DEF BarInv
<1> QED BY <1>1, <1>2, <1>3, <1>4

\* An open dropdown lists what was found for the text in the box, once the pause is over
\* and when searches did not overlap, however many were lost or shown before.
THEOREM DropdownProved == Spec => []DropdownAnswersTheBox
<1>1. BarInv /\ [Next]_vars => BarInv'
  <2> SUFFICES ASSUME BarInv, Next \/ UNCHANGED vars PROVE BarInv'
    OBVIOUS
  <2>1. ASSUME NEW k \in 1..MaxSearches, Serve(k) \/ Deliver(k) \/ Lose(k) PROVE k \in DOMAIN searches
    BY <2>1 DEF Serve, Deliver, Lose
  <2> QED BY <2>1, BoxSteps, SearchSteps DEF Next
<1>2. BarInv => DropdownAnswersTheBox
  BY DEF BarInv, ShownIsCurrent, DropdownAnswersTheBox
<1> QED BY <1>1, <1>2, BarInvInit, PTL DEF Spec

-----------------------------------------------------------------------------
(* Types.                                                                  *)

\* The pause that will end in a search has its place among the searches.
RoomKept ==
  /\ sent \in Nat /\ Len(searches) <= sent /\ sent <= MaxSearches
  /\ bar.timer = TRUE /\ bar.query # "" => sent < MaxSearches

Side(s) == s = [load |-> s.load, served |-> s.served, run |-> s.run, counts |-> s.counts]

GTypes ==
  /\ PointsOK
  /\ bar.query \in Typed \cup {""} /\ bar.timer \in BOOLEAN /\ bar.results \in Found
  /\ bar.open \in BOOLEAN /\ bar.loading \in BOOLEAN /\ bar.error \in BOOLEAN
  /\ \A k \in DOMAIN searches : /\ searches[k].word \in Typed
                                /\ searches[k].at \in {"sent", "served"}
                                /\ searches[k].results \in Found
                                /\ searches[k].run \in 0..Len(Runs)
                                /\ searches[k].alone \in BOOLEAN
  /\ Side(side) /\ side.load \in {"loading", "loaded", "error"} /\ side.served \in BOOLEAN
  /\ side.run \in 0..Len(Runs) /\ side.counts \in [ObjectTypes -> Nat]
  /\ shown.word \in Typed \cup {""} /\ shown.alone \in BOOLEAN /\ shown.run \in 0..Len(Runs)

GInv == BarInv /\ GTypes /\ RoomKept

\* The entries that are there are entries of the run, and the nodes nodes of it.
LEMMA NewestPoint ==
  ASSUME PointsOK, points # <<>>
  PROVE  /\ points[1].run \in 1..Len(Runs) /\ points[1].size \in Nat
         /\ DOMAIN EntriesOf(points[1]) = 1..points[1].size
         /\ \A e \in Elements(EntriesOf(points[1])) : e.key \in STRING
         /\ \A n \in Elements(NodesOf(points[1])) : n.key \in STRING
<1>1. points \in Seq(PointState) /\ 1 \in DOMAIN points
  BY DEF PointsOK
<1>2. /\ points[1].run \in 1..Len(Runs) /\ points[1].size \in Nat
      /\ points[1].size <= Len(Runs[points[1].run].entries)
  <2>1. points[1].size <= Len(Runs[points[1].run].entries)
    BY <1>1 DEF PointsOK
  <2>2. points[1] \in PointState
    BY <1>1
  <2> QED BY <2>1, <2>2 DEF PointState
<1> DEFINE E == Runs[points[1].run].entries
           N == Runs[points[1].run].nodes
           A == Elements(E)
<1>3. E \in Seq(A) /\ (\A e \in A : e.key \in STRING) /\ \A n \in Elements(N) : n.key \in STRING
  BY <1>2, RunsAssumption
<1> HIDE DEF A
<1>4. points[1].size \in 0..Len(E)
  <2> HIDE DEF E
  <2>1. Len(E) \in Nat
    BY <1>3
  <2> QED BY <1>2, <2>1 DEF E
<1>5. EntriesOf(points[1]) \in Seq(A)
  BY <1>3, <1>4, Cut DEF EntriesOf
<1>6. Len(EntriesOf(points[1])) = points[1].size
  <2> DEFINE m == points[1].size
  <2> HIDE DEF E, m
  <2>1. \A i \in 1..m : E[i] \in A
    BY <1>3, <1>4 DEF m
  <2>2. m \in Nat
    BY <1>2 DEF m
  <2>3. Len(SubSeq(E, 1, m)) = m
    BY <2>1, <2>2, SubSeqProperties
  <2> QED BY <2>3 DEF E, m, EntriesOf
<1>7. \A e \in Elements(EntriesOf(points[1])) : e.key \in STRING
  BY <1>3, <1>5 DEF Elements
<1>8. \A n \in Elements(NodesOf(points[1])) : n.key \in STRING
  BY <1>3 DEF NodesOf, Elements
<1> QED BY <1>2, <1>5, <1>6, <1>7, <1>8

\* What a search finds are cards.
LEMMA SearchFinds ==
  ASSUME PointsOK, NEW w
  PROVE  Search(w) \in Found
<1>1. CASE NoPoints
  BY <1>1 DEF Search, Found
<1>2. CASE ~NoPoints
  <2>1. /\ \A e \in Elements(EntriesOf(points[1])) : e.key \in STRING
        /\ \A n \in Elements(NodesOf(points[1])) : n.key \in STRING
    BY <1>2, NewestPoint DEF NoPoints
  <2>2. \A x : x.type \in ObjectTypes /\ x.key \in STRING
                 => Card(x) \in [type : ObjectTypes, key : STRING]
    BY DEF Card
  <2>3. \A n \in Nodes(w, ObjectTypes \ {"JiraIssue"}) :
          n.type \in ObjectTypes /\ n.key \in STRING
    BY <2>1 DEF Nodes
  <2>4. \A e \in Issues(w) : e.type \in ObjectTypes /\ e.key \in STRING
    BY <2>1 DEF Issues, ObjectTypes
  <2> QED BY <1>2, <2>2, <2>3, <2>4 DEF Search, Found
<1> QED BY <1>1, <1>2

\* The summary counts what there is.
LEMMA SummaryCounts ==
  ASSUME PointsOK
  PROVE  Summary.run \in 0..Len(Runs) /\ Summary.counts \in [ObjectTypes -> Nat]
<1>1. Len(Runs) \in Nat
  BY RunsAssumption
<1>2. CASE NoPoints
  BY <1>1, <1>2 DEF Summary
<1>3. CASE ~NoPoints
  <2>1. /\ points[1].run \in 1..Len(Runs) /\ points[1].size \in Nat
        /\ DOMAIN EntriesOf(points[1]) = 1..points[1].size
    BY <1>3, NewestPoint DEF NoPoints
  <2>2. ASSUME NEW t
        PROVE  Cardinality({i \in DOMAIN EntriesOf(points[1]) :
                              EntriesOf(points[1])[i].type = t}) \in Nat
    <3> DEFINE I == 1..points[1].size
               B == {i \in DOMAIN EntriesOf(points[1]) : EntriesOf(points[1])[i].type = t}
    <3>1. IsFiniteSet(I)
      BY <2>1, FS_Interval
    <3>2. B \subseteq I
      BY <2>1
    <3> HIDE DEF B, I
    <3>3. IsFiniteSet(B)
      BY <3>1, <3>2, FS_Subset
    <3>4. Cardinality(B) \in Nat
      BY <3>3, FS_CardinalityType
    <3> QED BY <3>4 DEF B
  <2>3. Summary.counts \in [ObjectTypes -> Nat]
    BY <1>3, <2>2 DEF Summary
  <2>4. Summary.run = points[1].run
    BY <1>3 DEF Summary
  <2> QED BY <1>1, <2>1, <2>3, <2>4
<1> QED BY <1>2, <1>3

\* The points stay points of the runs, newest first, whatever the backup writes.
LEMMA PointsKept ==
  ASSUME PointsOK, Backup
  PROVE  PointsOK'
<1> DEFINE L == Len(points)
<1>1. points \in Seq(PointState) /\ L \in Nat /\ L <= Len(Runs) /\ Len(Runs) \in Nat
  BY RunsAssumption DEF PointsOK
<1>2. \A k \in 1..L : /\ points[k] \in PointState /\ points[k].run = L - k + 1
                      /\ points[k].size <= Len(Runs[points[k].run].entries)
  BY <1>1 DEF PointsOK
<1>3. CASE CreatePoint
  <2> DEFINE new == [run |-> L + 1, size |-> 0, listed |-> FALSE]
  <2>1. L < Len(Runs) /\ points' = <<new>> \o points
    BY <1>3 DEF CreatePoint
  <2>2. new \in PointState
    BY <1>1, <2>1 DEF PointState
  <2>3. Len(Runs[L + 1].entries) >= 0
    <3> DEFINE A == Elements(Runs[L + 1].entries)
    <3>1. Runs[L + 1].entries \in Seq(A)
      BY <1>1, <2>1, RunsAssumption
    <3> HIDE DEF A
    <3> QED BY <3>1
  <2>4. new.run = L + 1 /\ new.size = 0
    OBVIOUS
  <2> HIDE DEF new, L
  <2>5. /\ points' \in Seq(PointState) /\ Len(points') = L + 1
        /\ \A k \in 1..(L + 1) : points'[k] = IF k = 1 THEN new ELSE points[k - 1]
    BY <1>1, <2>1, <2>2, Prepended DEF L
  <2>6. ASSUME NEW k \in 1..(L + 1)
        PROVE  /\ points'[k].run = (L + 1) - k + 1
               /\ points'[k].size <= Len(Runs[points'[k].run].entries)
    <3>1. CASE k = 1
      BY <1>1, <2>3, <2>4, <2>5, <3>1
    <3>2. CASE k # 1
      <4>1. k - 1 \in 1..L /\ points'[k] = points[k - 1] /\ L - (k - 1) + 1 = (L + 1) - k + 1
        BY <1>1, <2>5, <3>2
      <4> QED BY <1>2, <4>1
    <3> QED BY <3>1, <3>2
  <2>7. Len(points') <= Len(Runs) /\ DOMAIN points' = 1..(L + 1)
    BY <1>1, <2>1, <2>5
  <2> QED BY <2>5, <2>6, <2>7 DEF PointsOK
<1>4. CASE InsertEntry \/ WriteManifest
  <2>1. points # <<>> /\ 1 \in DOMAIN points /\ 1 \in 1..L
    BY <1>1, <1>4 DEF InsertEntry, WriteManifest
  <2>2. points[1] \in PointState /\ points[1].size \in Nat /\ points[1].run \in 1..Len(Runs)
    BY <1>2, <2>1 DEF PointState
  <2>3. PICK q \in PointState : /\ points' = [points EXCEPT ![1] = q]
                                /\ q.run = points[1].run
                                /\ q.size <= Len(Runs[q.run].entries)
    <3>1. CASE InsertEntry
      <4> DEFINE q == [points[1] EXCEPT !.size = @ + 1]
      <4>1. points' = [points EXCEPT ![1] = q]
        BY <3>1 DEF InsertEntry
      <4>2. q.run = points[1].run /\ q.size = points[1].size + 1 /\ q \in PointState
        BY <2>2 DEF PointState
      <4>3. points[1].size < Len(Runs[points[1].run].entries)
        BY <3>1 DEF InsertEntry
      <4>4. Len(Runs[points[1].run].entries) \in Nat
        <5> DEFINE A == Elements(Runs[points[1].run].entries)
        <5>1. Runs[points[1].run].entries \in Seq(A)
          BY <2>2, RunsAssumption
        <5> HIDE DEF A
        <5> QED BY <5>1
      <4> HIDE DEF q
      <4>5. q.size <= Len(Runs[q.run].entries)
        BY <2>2, <4>2, <4>3, <4>4
      <4> QED BY <4>1, <4>2, <4>5
    <3>2. CASE WriteManifest
      <4> DEFINE q == [points[1] EXCEPT !.listed = TRUE]
      <4>1. points' = [points EXCEPT ![1] = q]
        BY <3>2 DEF WriteManifest
      <4>2. q.run = points[1].run /\ q.size = points[1].size /\ q \in PointState
        BY <2>2 DEF PointState
      <4> HIDE DEF q
      <4> QED BY <1>2, <2>1, <4>1, <4>2
    <3> QED BY <1>4, <3>1, <3>2
  <2>4. /\ points' \in Seq(PointState) /\ Len(points') = L
        /\ \A k \in 1..L : points'[k] = IF k = 1 THEN q ELSE points[k]
    BY <1>1, <2>1, <2>3, Replaced
  <2>5. ASSUME NEW k \in 1..L
        PROVE  /\ points'[k].run = L - k + 1
               /\ points'[k].size <= Len(Runs[points'[k].run].entries)
    BY <1>2, <2>1, <2>3, <2>4
  <2> HIDE DEF L
  <2> QED BY <1>1, <2>4, <2>5 DEF PointsOK
<1> QED BY <1>3, <1>4 DEF Backup

\* The bar and the sidebar when the view opens.
LEMMA GInit == Init => GInv
<1> SUFFICES ASSUME Init PROVE GInv
  OBVIOUS
<1>1. BarInv
  BY BarInvInit
<1>2. Len(Runs) \in Nat
  BY RunsAssumption
<1>3. PointsOK
  <2>1. points = <<>>
    BY DEF Init
  <2>2. points \in Seq(PointState) /\ Len(points) = 0 /\ DOMAIN points = {}
    BY <2>1
  <2> QED BY <1>2, <2>1, <2>2 DEF PointsOK
<1>4. searches = <<>> /\ sent = 0
  BY DEF Init
<1>5. Len(searches) = 0 /\ DOMAIN searches = {}
  BY <1>4, NoList
<1>6. 0 \in 0..Len(Runs)
  BY <1>2
<1>7. NoCounts \in [ObjectTypes -> Nat]
  BY DEF NoCounts
<1>8. GTypes
  BY <1>3, <1>5, <1>6, <1>7 DEF Init, GTypes, Found, Side, NothingShown
<1>9. bar.query = ""
  BY DEF Init
<1>10. RoomKept
  <2>1. sent \in Nat /\ Len(searches) <= sent /\ sent <= MaxSearches
    <3>1. sent = 0 /\ Len(searches) = 0 /\ MaxSearches \in Nat
      BY <1>4, <1>5, BarAssumption
    <3> QED BY <3>1
  <2> QED BY <1>9, <2>1 DEF RoomKept
<1> QED BY <1>1, <1>8, <1>10 DEF GInv

\* The types of a request, and of all requests but for one that is new or gone.
Typing(s) ==
  /\ s.word \in Typed /\ s.at \in {"sent", "served"} /\ s.results \in Found
  /\ s.run \in 0..Len(Runs) /\ s.alone \in BOOLEAN

\* Steps of the box that send nothing and take no answer.
LEMMA BoxTypes ==
  ASSUME GInv,
         \/ \E w \in Typed \cup {""} : TypeWord(w)
         \/ Focus \/ ClickOutside \/ \E card \in bar.results : Navigate(card)
  PROVE  GTypes' /\ RoomKept'
<1>1. UNCHANGED <<points, searches, sent, side, shown>>
  BY DEF TypeWord, Focus, ClickOutside, Navigate
<1>2. /\ bar'.query \in Typed \cup {""} /\ bar'.timer \in BOOLEAN /\ bar'.results \in Found
      /\ bar'.open \in BOOLEAN /\ bar'.loading \in BOOLEAN /\ bar'.error \in BOOLEAN
  BY DEF TypeWord, Focus, ClickOutside, Navigate, GInv, GTypes, BarInv, Bar
<1>3. GTypes'
  BY <1>1, <1>2 DEF GInv, GTypes, PointsOK
<1>4. bar'.timer = TRUE /\ bar'.query # "" => sent < MaxSearches
  BY DEF TypeWord, Focus, ClickOutside, Navigate, GInv, RoomKept, BarInv, Bar
<1>5. RoomKept'
  BY <1>1, <1>4 DEF GInv, RoomKept
<1> QED BY <1>3, <1>5

\* The pause ends: nothing is searched, or one search is sent.
LEMMA RunTypes ==
  ASSUME GInv, RunEmpty \/ RunSearch
  PROVE  GTypes' /\ RoomKept'
<1>1. /\ Listed(Overtaken) /\ DOMAIN Overtaken = DOMAIN searches
      /\ \A k \in DOMAIN Overtaken : Typing(Overtaken[k])
  <2>1. \A k \in DOMAIN searches : Overtaken[k] = [searches[k] EXCEPT !.alone = FALSE]
    BY DEF Overtaken
  <2>2. \A k \in DOMAIN searches : Typing(Overtaken[k])
    BY <2>1 DEF GInv, BarInv, Request, GTypes, Typing
  <2> QED BY <2>2, OvertakenTypes DEF GInv
<1>2. Len(Overtaken) = Len(searches)
  BY <1>1 DEF GInv, BarInv, Listed
<1>3. CASE RunEmpty
  <2>1. UNCHANGED <<points, sent, side>> /\ searches' = Overtaken
    BY <1>3 DEF RunEmpty
  <2>2. /\ bar'.query \in Typed \cup {""} /\ bar'.timer = FALSE /\ bar'.results \in Found
        /\ bar'.open \in BOOLEAN /\ bar'.loading \in BOOLEAN /\ bar'.error \in BOOLEAN
    BY <1>3 DEF RunEmpty, Cleared, GInv, GTypes, BarInv, Bar, Found
  <2>3. 0 \in 0..Len(Runs)
    BY RunsAssumption
  <2>4. /\ shown'.word \in Typed \cup {""} /\ shown'.alone \in BOOLEAN
        /\ shown'.run \in 0..Len(Runs)
    BY <1>3, <2>3 DEF RunEmpty, GInv, GTypes, NothingShown
  <2>5. GTypes'
    BY <1>1, <2>1, <2>2, <2>4 DEF GInv, GTypes, PointsOK, Typing
  <2>6. RoomKept'
    BY <1>2, <2>1, <2>2 DEF GInv, RoomKept
  <2> QED BY <2>5, <2>6
<1>4. CASE RunSearch
  <2> DEFINE new == [word |-> bar.query, at |-> "sent", results |-> {}, run |-> 0,
                     alone |-> searches = <<>>]
  <2>1. /\ bar' = [bar EXCEPT !.timer = FALSE, !.loading = TRUE, !.error = FALSE]
        /\ searches' = Append(Overtaken, new) /\ sent' = sent + 1
        /\ UNCHANGED <<points, side, shown>> /\ bar.timer /\ bar.query # ""
    BY <1>4 DEF RunSearch
  <2>2. 0 \in 0..Len(Runs)
    BY RunsAssumption
  <2>3. Typing(new)
    BY <2>1, <2>2 DEF Typing, GInv, GTypes, Found
  <2> HIDE DEF new
  <2>4. /\ Len(searches') = Len(searches) + 1 /\ DOMAIN searches' = 1..(Len(searches) + 1)
        /\ DOMAIN Overtaken = 1..Len(searches) /\ Len(searches) \in Nat
        /\ \A k \in 1..(Len(searches) + 1) :
             searches'[k] = IF k <= Len(searches) THEN Overtaken[k] ELSE new
    <3>1. /\ Len(Append(Overtaken, new)) = Len(Overtaken) + 1 /\ Len(Overtaken) \in Nat
          /\ DOMAIN Overtaken = 1..Len(Overtaken)
          /\ DOMAIN Append(Overtaken, new) = 1..(Len(Overtaken) + 1)
          /\ \A k \in 1..(Len(Overtaken) + 1) :
               Append(Overtaken, new)[k] = IF k <= Len(Overtaken) THEN Overtaken[k] ELSE new
      BY <1>1, Appended1
    <3> QED BY <1>2, <2>1, <3>1
  <2>5. \A k \in 1..(Len(searches) + 1) : k <= Len(searches) => k \in 1..Len(searches)
    BY <2>4
  <2>6. \A k \in DOMAIN searches' : \/ k \in DOMAIN Overtaken /\ searches'[k] = Overtaken[k]
                                    \/ searches'[k] = new
    BY <2>4, <2>5
  <2>7. \A k \in DOMAIN searches' : Typing(searches'[k])
    BY <1>1, <2>3, <2>6
  <2>8. /\ bar'.query \in Typed \cup {""} /\ bar'.timer = FALSE /\ bar'.results \in Found
        /\ bar'.open \in BOOLEAN /\ bar'.loading \in BOOLEAN /\ bar'.error \in BOOLEAN
    BY <2>1 DEF GInv, GTypes, BarInv, Bar
  <2>9. GTypes'
    BY <2>1, <2>7, <2>8 DEF GInv, GTypes, PointsOK, Typing
  <2>10. bar.timer = TRUE
    BY <2>1 DEF GInv, GTypes
  <2>11. sent < MaxSearches
    BY <2>1, <2>10 DEF GInv, RoomKept
  <2>12. sent \in Nat /\ Len(searches) <= sent
    BY DEF GInv, RoomKept
  <2>13. sent' \in Nat /\ Len(searches') <= sent' /\ sent' <= MaxSearches
    <3>1. /\ sent' = sent + 1 /\ Len(searches') = Len(searches) + 1 /\ Len(searches) \in Nat
          /\ MaxSearches \in Nat
      BY <2>1, <2>4, BarAssumption
    <3> QED BY <2>11, <2>12, <3>1
  <2> QED BY <2>8, <2>9, <2>13 DEF RoomKept
<1> QED BY <1>3, <1>4

\* A search is answered, shown or lost.
LEMMA AnswerTypes ==
  ASSUME GInv, NEW k \in DOMAIN searches, Serve(k) \/ Deliver(k) \/ Lose(k)
  PROVE  GTypes' /\ RoomKept'
<1>1. CASE Serve(k)
  <2> DEFINE run == IF NoPoints THEN 0 ELSE points[1].run
             found == Search(searches[k].word)
  <2>1. /\ searches' = [searches EXCEPT ![k].at = "served", ![k].results = found, ![k].run = run]
        /\ UNCHANGED <<points, bar, sent, side, shown>>
    BY <1>1 DEF Serve
  <2>2. run \in 0..Len(Runs)
    <3>1. Len(Runs) \in Nat
      BY RunsAssumption
    <3>2. CASE NoPoints
      BY <3>1, <3>2
    <3>3. CASE ~NoPoints
      <4>1. points[1].run \in 1..Len(Runs)
        BY <3>3, NewestPoint DEF GInv, GTypes, NoPoints
      <4> QED BY <3>1, <3>3, <4>1
    <3> QED BY <3>2, <3>3
  <2>3. found \in Found
    BY SearchFinds DEF GInv, GTypes
  <2> HIDE DEF run, found
  <2>4. /\ DOMAIN searches' = DOMAIN searches
        /\ \A i \in DOMAIN searches :
             searches'[i] = IF i = k THEN [searches[k] EXCEPT !.at = "served", !.results = found,
                                                               !.run = run]
                            ELSE searches[i]
    BY <2>1
  <2>5. ASSUME NEW i \in DOMAIN searches PROVE Typing(searches'[i])
    BY <2>2, <2>3, <2>4 DEF GInv, BarInv, GTypes, Request, Typing
  <2>6. GTypes'
    <3>1. PointsOK'
      BY <2>1 DEF GInv, GTypes, PointsOK
    <3>2. \A i \in DOMAIN searches' : Typing(searches'[i])
      BY <2>4, <2>5
    <3>3. \A i \in DOMAIN searches' : /\ searches'[i].word \in Typed
                                      /\ searches'[i].at \in {"sent", "served"}
                                      /\ searches'[i].results \in Found
                                      /\ searches'[i].run \in 0..Len(Runs)
                                      /\ searches'[i].alone \in BOOLEAN
      BY <3>2 DEF Typing
    <3>4. GTypes /\ UNCHANGED <<bar, side, shown>>
      BY <2>1 DEF GInv
    <3> QED BY <3>1, <3>3, <3>4 DEF GTypes, Side
  <2>7. Len(searches') = Len(searches)
    <3>1. DOMAIN searches = 1..Len(searches) /\ Len(searches) \in Nat
      BY DEF GInv, BarInv, Listed
    <3> QED BY <2>4, <3>1
  <2>8. RoomKept'
    BY <2>1, <2>7 DEF GInv, RoomKept
  <2> QED BY <2>6, <2>8
<1>2. CASE Deliver(k) \/ Lose(k)
  <2>1. searches' = RemoveAt(searches, k) /\ UNCHANGED <<points, sent, side>>
    BY <1>2 DEF Deliver, Lose
  <2>2. /\ Len(searches') = Len(searches) - 1 /\ Len(searches) \in Nat
        /\ \A i \in DOMAIN searches' : \E m \in DOMAIN searches : searches'[i] = searches[m]
    BY <2>1, Removed DEF GInv, BarInv
  <2>3. \A i \in DOMAIN searches' : Typing(searches'[i])
    BY <2>2 DEF GInv, GTypes, Typing
  <2>4. /\ bar'.query = bar.query /\ bar'.timer = bar.timer /\ bar'.results \in Found
        /\ bar'.open \in BOOLEAN /\ bar'.loading \in BOOLEAN /\ bar'.error \in BOOLEAN
    BY <1>2 DEF Deliver, Lose, Delivered, GInv, GTypes, BarInv, Bar
  <2>5. /\ shown'.word \in Typed \cup {""} /\ shown'.alone \in BOOLEAN
        /\ shown'.run \in 0..Len(Runs)
    <3>1. CASE Deliver(k)
      <4>1. /\ shown'.word = searches[k].word /\ shown'.run = searches[k].run
            /\ shown'.alone = searches[k].alone
        BY <3>1 DEF Deliver
      <4> QED BY <4>1 DEF GInv, GTypes
    <3>2. CASE Lose(k)
      BY <3>2 DEF Lose, GInv, GTypes
    <3> QED BY <1>2, <3>1, <3>2
  <2>6. GTypes'
    BY <2>1, <2>3, <2>4, <2>5 DEF GInv, GTypes, PointsOK, Typing
  <2>7. sent' \in Nat /\ Len(searches') <= sent' /\ sent' <= MaxSearches
    <3>1. sent \in Nat /\ Len(searches) <= sent /\ sent <= MaxSearches /\ MaxSearches \in Nat
      BY BarAssumption DEF GInv, RoomKept
    <3> QED BY <2>1, <2>2, <3>1
  <2>8. RoomKept'
    BY <2>1, <2>4, <2>7 DEF GInv, RoomKept
  <2> QED BY <2>6, <2>8
<1> QED BY <1>1, <1>2

\* The sidebar reads its counts, and the backup goes on.
LEMMA SideTypes ==
  ASSUME GInv, ServeSummary \/ ShowSummary \/ LoseSummary \/ Grow \/ UNCHANGED vars
  PROVE  GTypes' /\ RoomKept'
<1>1. UNCHANGED barVars
  BY DEF ServeSummary, ShowSummary, LoseSummary, Grow, vars, barVars
<1>2. RoomKept'
  BY <1>1 DEF GInv, RoomKept, barVars
<1>3. PointsOK'
  BY PointsKept DEF ServeSummary, ShowSummary, LoseSummary, Grow, vars, PointsOK, GInv, GTypes
<1>4. /\ Side(side') /\ side'.load \in {"loading", "loaded", "error"} /\ side'.served \in BOOLEAN
      /\ side'.run \in 0..Len(Runs) /\ side'.counts \in [ObjectTypes -> Nat]
  <2>1. CASE ServeSummary
    <3>1. Summary.run \in 0..Len(Runs) /\ Summary.counts \in [ObjectTypes -> Nat]
      BY SummaryCounts DEF GInv, GTypes
    <3> DEFINE summary == Summary
    <3>2. side' = [side EXCEPT !.served = TRUE, !.run = summary.run, !.counts = summary.counts]
      BY <2>1 DEF ServeSummary
    <3> HIDE DEF summary
    <3>3. /\ side'.load = side.load /\ side'.served = TRUE /\ side'.run = summary.run
          /\ side'.counts = summary.counts /\ Side(side')
      BY <3>2 DEF GInv, GTypes, Side
    <3> QED BY <3>1, <3>3 DEF GInv, GTypes, summary
  <2>2. CASE ShowSummary
    BY <2>2 DEF ShowSummary, GInv, GTypes, Side
  <2>3. CASE LoseSummary
    <3>1. NoCounts \in [ObjectTypes -> Nat]
      BY DEF NoCounts
    <3>2. 0 \in 0..Len(Runs)
      BY RunsAssumption
    <3> QED BY <2>3, <3>1, <3>2 DEF LoseSummary, GInv, GTypes, Side
  <2>4. CASE Grow \/ UNCHANGED vars
    BY <2>4 DEF Grow, vars, GInv, GTypes, Side
  <2> QED BY <2>1, <2>2, <2>3, <2>4
<1>5. GTypes'
  BY <1>1, <1>3, <1>4 DEF GInv, GTypes, barVars
<1> QED BY <1>2, <1>5

\* The bar, its searches and the counts have their types, and the bound on the searches
\* leaves room for the one that the pause will end in.
THEOREM BarTypes == Spec => []TypeOK
<1>1. GInv /\ [Next]_vars => GInv'
  <2> SUFFICES ASSUME GInv, Next \/ UNCHANGED vars PROVE GInv'
    OBVIOUS
  <2>1. ASSUME NEW k \in 1..MaxSearches, Serve(k) \/ Deliver(k) \/ Lose(k)
        PROVE  k \in DOMAIN searches
    BY <2>1 DEF Serve, Deliver, Lose
  <2>2. BarInv'
    BY <2>1, BoxSteps, SearchSteps DEF Next, GInv
  <2>3. GTypes' /\ RoomKept'
    BY <2>1, BoxTypes, RunTypes, AnswerTypes, SideTypes DEF Next
  <2> QED BY <2>2, <2>3 DEF GInv
<1>2. GInv => TypeOK
  BY DEF GInv, GTypes, RoomKept, TypeOK
<1> QED BY <1>1, <1>2, GInit, PTL DEF Spec
=============================================================================
