---------------------------- MODULE GlobalSearch ----------------------------
(***************************************************************************)
(* GlobalSearchBar and InventorySidebar, the two parts of InventoryView    *)
(* that are always there: a search over all types behind a pause of 300    *)
(* ms, its dropdown, and the counts that are read once, when the view      *)
(* opens.  No search is withdrawn, and every answer opens the dropdown.    *)
(***************************************************************************)
EXTENDS Inventory, SequencesExt

CONSTANTS
  Typed,      \* what the user may type: words
  MaxSearches \* bound: searches sent

ASSUME BarAssumption == "" \notin Typed /\ MaxSearches \in Nat

VARIABLES
  bar,      \* the state of GlobalSearchBar
  searches, \* its requests under way, in the order they were sent
  sent,     \* number of requests sent
  side,     \* the state of InventorySidebar, and where its one request is
  shown     \* history: what was searched for the results in the bar, on which run,
            \* and whether runSearch was not called again before the answer came

vars == <<points, bar, searches, sent, side, shown>>
barVars == <<bar, searches, sent, shown>>

Found == SUBSET [type : ObjectTypes, key : STRING]
NoCounts == [t \in ObjectTypes |-> 0]

TypeOK ==
  /\ PointsOK
  /\ bar.query \in Typed \cup {""}
  /\ {bar.timer, bar.open, bar.loading, bar.error} \subseteq BOOLEAN
  /\ bar.results \in Found
  /\ Len(searches) <= sent /\ sent <= MaxSearches
  /\ \A k \in DOMAIN searches : /\ searches[k].word \in Typed
                                /\ searches[k].at \in {"sent", "served"}
                                /\ searches[k].results \in Found
                                /\ searches[k].alone \in BOOLEAN
  /\ side.load \in {"loading", "loaded", "error"} /\ side.served \in BOOLEAN
  /\ side.run \in 0..Len(Runs) /\ side.counts \in [ObjectTypes -> Nat]
  /\ shown.word \in Typed \cup {""} /\ shown.alone \in BOOLEAN
  /\ shown.run \in 0..Len(Runs)

NothingShown == [word |-> "", run |-> 0, alone |-> TRUE]

Init ==
  /\ points = <<>>
  /\ bar = [query |-> "", timer |-> TRUE, results |-> {}, open |-> FALSE,
            loading |-> FALSE, error |-> FALSE]
  /\ searches = <<>>
  /\ sent = 0
  /\ side = [load |-> "loading", served |-> FALSE, run |-> 0, counts |-> NoCounts]
  /\ shown = NothingShown

-----------------------------------------------------------------------------
(* GlobalSearchBar                                                         *)

\* Typing, or clearing the box, starts the pause anew.
TypeWord(w) ==
  /\ w # bar.query /\ (w = "" \/ sent < MaxSearches)
  /\ bar' = [bar EXCEPT !.query = w, !.timer = TRUE]
  /\ UNCHANGED <<points, searches, sent, side, shown>>

ClearClosesOnly(b) ==  \* mutant: the results stay behind the closed dropdown
  [b EXCEPT !.open = FALSE, !.loading = FALSE, !.error = FALSE]

Cleared(b) ==
  [b EXCEPT !.results = {}, !.open = FALSE, !.loading = FALSE, !.error = FALSE]

Overtaken == [k \in DOMAIN searches |-> [searches[k] EXCEPT !.alone = FALSE]]

\* runSearch on an empty box: nothing is sent, and nothing under way is withdrawn.
RunEmpty ==
  /\ bar.timer /\ bar.query = ""
  /\ bar' = [Cleared(bar) EXCEPT !.timer = FALSE]
  /\ shown' = IF bar'.results = {} THEN NothingShown ELSE shown
  /\ searches' = Overtaken
  /\ UNCHANGED <<points, sent, side>>

RunSearch ==
  /\ bar.timer /\ bar.query # ""
  /\ bar' = [bar EXCEPT !.timer = FALSE, !.loading = TRUE, !.error = FALSE]
  /\ searches' = Append(Overtaken,
                        [word |-> bar.query, at |-> "sent", results |-> {}, run |-> 0,
                         alone |-> searches = <<>>])
  /\ sent' = sent + 1
  /\ UNCHANGED <<points, side, shown>>

\* The handler runs to its end on the points of now.
Serve(k) ==
  /\ k \in DOMAIN searches /\ searches[k].at = "sent"
  /\ searches' = [searches EXCEPT ![k].at = "served",
                                  ![k].results = Search(searches[k].word),
                                  ![k].run = IF NoPoints THEN 0 ELSE points[1].run]
  /\ UNCHANGED <<points, bar, sent, side, shown>>

Delivered(b, s) ==
  [b EXCEPT !.results = s.results, !.open = TRUE, !.loading = FALSE]

Deliver(k) ==
  /\ k \in DOMAIN searches /\ searches[k].at = "served"
  /\ bar' = Delivered(bar, searches[k])
  /\ shown' = [word |-> searches[k].word, run |-> searches[k].run, alone |-> searches[k].alone]
  /\ searches' = RemoveAt(searches, k)
  /\ UNCHANGED <<points, sent, side>>

\* A search fails: the dropdown is not opened to say so.
Lose(k) ==
  /\ k \in DOMAIN searches
  /\ bar' = [bar EXCEPT !.error = TRUE, !.loading = FALSE]
  /\ searches' = RemoveAt(searches, k)
  /\ UNCHANGED <<points, sent, side, shown>>

Focus ==
  /\ ~bar.open /\ bar.results # {}
  /\ bar' = [bar EXCEPT !.open = TRUE]
  /\ UNCHANGED <<points, searches, sent, side, shown>>

ClickOutside ==
  /\ bar.open
  /\ bar' = [bar EXCEPT !.open = FALSE]
  /\ UNCHANGED <<points, searches, sent, side, shown>>

\* A card is chosen: the box is emptied, and with it, after the pause, the results.
Navigate(card) ==
  /\ bar.open /\ ~bar.error /\ card \in bar.results
  /\ bar' = [bar EXCEPT !.open = FALSE, !.query = "", !.timer = @ \/ bar.query # ""]
  /\ UNCHANGED <<points, searches, sent, side, shown>>

-----------------------------------------------------------------------------
(* InventorySidebar                                                        *)

ServeSummary ==
  /\ side.load = "loading" /\ ~side.served
  /\ side' = [side EXCEPT !.served = TRUE, !.run = Summary.run, !.counts = Summary.counts]
  /\ UNCHANGED <<points, barVars>>

\* Without a backup point the counts stay unknown: a dash.
ShowSummary ==
  /\ side.load = "loading" /\ side.served
  /\ side' = [side EXCEPT !.load = "loaded"]
  /\ UNCHANGED <<points, barVars>>

LoseSummary ==
  /\ side.load = "loading"
  /\ side' = [side EXCEPT !.load = "error", !.run = 0, !.counts = NoCounts]
  /\ UNCHANGED <<points, barVars>>

-----------------------------------------------------------------------------
Grow == Backup /\ UNCHANGED <<barVars, side>>

Next ==
  \/ \E w \in Typed \cup {""} : TypeWord(w)
  \/ RunEmpty \/ RunSearch \/ Focus \/ ClickOutside
  \/ \E card \in bar.results : Navigate(card)
  \/ \E k \in 1..MaxSearches : Serve(k) \/ Deliver(k) \/ Lose(k)
  \/ ServeSummary \/ ShowSummary \/ LoseSummary
  \/ Grow

Spec == Init /\ [][Next]_vars

-----------------------------------------------------------------------------
(* Properties.                                                             *)

\* When searches do not overlap, an open dropdown lists what was found for the text in
\* the box, once the pause is over: neither a chosen card nor a cleared box leaves the
\* results of the text before behind (handleNavigate, onFocus).
DropdownAnswersTheBox ==
  bar.open /\ ~bar.error /\ ~bar.timer /\ searches = <<>> /\ shown.alone
    => bar.query = shown.word
=============================================================================
