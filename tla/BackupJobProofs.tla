--------------------------- MODULE BackupJobProofs ---------------------------
(* Proofs about BackupJob, for any projects, intervals and bounds.          *)
EXTENDS BackupJob, FiniteSetTheorems, TLAPS

-----------------------------------------------------------------------------
(* Places                                                                  *)

\* Item x is where a run can be that awaits q.
Place(q, x) ==
  \/ q = "search" /\ \E p \in DOMAIN Content : x = <<p, 0, 0>>
  \/ q = "fetch" /\ x \in Issues
  \/ q \in {"download", "scan"} /\ \E y \in Issues : x \in AttachmentsOf(y)

\* The projects, their issues and their numbers of attachments are lists of numbers.
LEMMA ContentType ==
  /\ Len(Content) \in Nat /\ DOMAIN Content = 1..Len(Content)
  /\ \A p \in DOMAIN Content :
       /\ Len(Content[p]) \in Nat /\ DOMAIN Content[p] = 1..Len(Content[p])
       /\ \A i \in DOMAIN Content[p] : Content[p][i] \in Nat
BY ContentAssumption

\* An issue is a place in a project, with its attachments behind it.
LEMMA IssueShape ==
  ASSUME NEW x \in Issues
  PROVE  \E p \in DOMAIN Content : \E i \in DOMAIN Content[p] :
           /\ x = <<p, i, 0>> /\ IssueOf(x) = x
           /\ AttachmentsOf(x) = {<<p, i, a>> : a \in 1..Content[p][i]}
BY DEF Issues, IssueOf, AttachmentsOf, AttachmentCount

\* Every place of a project is an issue.
LEMMA IssueIn ==
  ASSUME NEW p \in DOMAIN Content, NEW i \in DOMAIN Content[p]
  PROVE  <<p, i, 0>> \in Issues
BY DEF Issues

\* An attachment is told apart by its number and knows its issue.
LEMMA AttachmentShape ==
  ASSUME NEW y \in Issues, NEW x \in AttachmentsOf(y)
  PROVE  \E p \in DOMAIN Content : \E i \in DOMAIN Content[p] : \E a \in 1..Content[p][i] :
           /\ x = <<p, i, a>> /\ y = <<p, i, 0>> /\ IssueOf(x) = y
           /\ AttachmentsOf(x) = AttachmentsOf(y)
           /\ AttachmentCount(x) = Content[p][i]
BY DEF Issues, IssueOf, AttachmentsOf, AttachmentCount

\* Where the run awaits an item, it is at an item.
LEMMA PlaceIsItem ==
  ASSUME NEW q \in Awaiting, NEW x, Place(q, x)
  PROVE  /\ x \in Nat \X Nat \X Nat
         /\ q # "search" => x \in Items /\ IssueOf(x) \in Issues
<1>1. CASE q = "search"
  BY <1>1, ContentType DEF Place
<1>2. CASE q = "fetch"
  <2>1. x \in Issues
    BY <1>2 DEF Place
  <2>2. PICK p \in DOMAIN Content :
          \E i \in DOMAIN Content[p] : x = <<p, i, 0>> /\ IssueOf(x) = x
    BY <2>1, IssueShape
  <2>3. PICK i \in DOMAIN Content[p] : x = <<p, i, 0>> /\ IssueOf(x) = x
    BY <2>2
  <2> QED BY <2>1, <2>3, ContentType DEF Items
<1>3. CASE q \in {"download", "scan"}
  <2>1. PICK y \in Issues : x \in AttachmentsOf(y)
    BY <1>3 DEF Place
  <2>2. PICK p \in DOMAIN Content :
          \E i \in DOMAIN Content[p] : \E a \in 1..Content[p][i] : x = <<p, i, a>> /\ IssueOf(x) = y
    BY <2>1, AttachmentShape
  <2>3. PICK i \in DOMAIN Content[p] : \E a \in 1..Content[p][i] : x = <<p, i, a>> /\ IssueOf(x) = y
    BY <2>2
  <2>4. PICK a \in 1..Content[p][i] : x = <<p, i, a>> /\ IssueOf(x) = y
    BY <2>3
  <2>5. p \in Nat /\ i \in Nat /\ a \in Nat
    BY ContentType
  <2>6. x \in Nat \X Nat \X Nat
    BY <2>4, <2>5
  <2>7. x \in Items
    BY <2>1 DEF Items
  <2> QED BY <2>4, <2>6, <2>7
<1> QED BY <1>1, <1>2, <1>3 DEF Awaiting

\* The loops of the run end it or go on to a place.
LEMMA NextProjectGoes ==
  ASSUME NEW p \in Nat, NEW e, NEW ticked, NextProject(p, e, ticked)
  PROVE  \/ Return
         \/ \E x : Place("search", x) /\ x[1] = p + 1 /\ Await("search", x, e, ticked)
<1>1. CASE p < Len(Content)
  <2>1. Place("search", <<p + 1, 0, 0>>)
    BY <1>1, ContentType DEF Place
  <2> QED BY <1>1, <2>1 DEF NextProject
<1>2. CASE ~(p < Len(Content))
  BY <1>2 DEF NextProject
<1> QED BY <1>1, <1>2

\* From an issue the run goes to the next one, to a later project, or returns.
LEMMA NextIssueGoes ==
  ASSUME NEW p \in DOMAIN Content, NEW i \in Nat, NEW e, NEW ticked, NextIssue(p, i, e, ticked)
  PROVE  \/ Return
         \/ \E q \in {"search", "fetch"} : \E x :
              /\ Place(q, x) /\ Await(q, x, e, ticked)
              /\ x[1] = p + 1 \/ (q = "fetch" /\ x[1] = p /\ x[2] = i + 1)
<1>1. CASE i < Len(Content[p])
  <2>1. <<p, i + 1, 0>> \in Issues
    BY <1>1, ContentType, IssueIn
  <2>2. Await("fetch", <<p, i + 1, 0>>, e, ticked)
    BY <1>1 DEF NextIssue
  <2> QED BY <2>1, <2>2 DEF Place
<1>2. CASE ~(i < Len(Content[p]))
  <2>1. NextProject(p, e, ticked) /\ p \in Nat
    BY <1>2, ContentType DEF NextIssue
  <2> QED BY <2>1, NextProjectGoes
<1> QED BY <1>1, <1>2

\* What follows an issue that was captured, or one of its attachments.
LEMMA AfterGoes ==
  ASSUME NEW p \in DOMAIN Content, NEW i \in DOMAIN Content[p], NEW a \in 0..Content[p][i],
         NEW e, NEW log, NEW stored, After(<<p, i, a>>, e, log, stored)
  PROVE  \/ /\ entries' = log /\ a < Content[p][i]
            /\ Place("download", <<p, i, a + 1>>)
            /\ Await("download", <<p, i, a + 1>>, e, TRUE)
         \/ /\ entries' = log /\ a = Content[p][i]
            /\ Place("scan", <<p, i, a>>)
            /\ Await("scan", <<p, i, a>>, e, TRUE)
         \/ /\ entries' = Append(log, Okay(<<p, i, 0>>)) /\ a = Content[p][i]
            /\ NextIssue(p, i, e, TRUE)
<1> DEFINE x == <<p, i, a>>
<1>1. Content[p][i] \in Nat /\ AttachmentCount(x) = Content[p][i] /\ IssueOf(x) = <<p, i, 0>>
  BY ContentType DEF AttachmentCount, IssueOf
<1>2. AttachmentsOf(<<p, i, 0>>) = {<<p, i, b>> : b \in 1..Content[p][i]}
  BY DEF AttachmentsOf, AttachmentCount
<1>3. AttachmentsOf(x) = {<<p, i, b>> : b \in 1..Content[p][i]}
  BY DEF AttachmentsOf, AttachmentCount
<1>4. <<p, i, 0>> \in Issues
  BY IssueIn
<1>5. CASE MoreAttachments(x)
  <2>1. a < Content[p][i]
    BY <1>1, <1>5 DEF MoreAttachments
  <2>2. <<p, i, a + 1>> \in AttachmentsOf(<<p, i, 0>>)
    BY <1>1, <1>2, <2>1
  <2>3. Place("download", <<p, i, a + 1>>)
    BY <1>4, <2>2 DEF Place
  <2>4. entries' = log /\ Await("download", <<p, i, a + 1>>, e, TRUE)
    BY <1>5 DEF After
  <2> QED BY <2>1, <2>3, <2>4
<1>6. CASE ~MoreAttachments(x)
  <2>1. a = Content[p][i]
    BY <1>1, <1>6 DEF MoreAttachments
  <2>2. CASE Scanning /\ AttachmentsOf(x) \cap stored # {}
    <3>1. entries' = log /\ Await("scan", x, e, TRUE)
      BY <1>6, <2>2 DEF After
    <3>2. x \in AttachmentsOf(<<p, i, 0>>)
      BY <1>1, <1>2, <1>3, <2>1, <2>2
    <3> QED BY <1>4, <2>1, <3>1, <3>2 DEF Place
  <2>3. CASE ~(Scanning /\ AttachmentsOf(x) \cap stored # {})
    <3>1. entries' = Append(log, Okay(IssueOf(x))) /\ NextIssue(p, i, e, TRUE)
      BY <1>6, <2>3 DEF After
    <3> QED BY <1>1, <2>1, <3>1
  <2> QED BY <2>2, <2>3
<1> QED BY <1>5, <1>6

-----------------------------------------------------------------------------
(* Turns                                                                   *)

\* The run is where it can be.
Placed == pc \in Awaiting => Place(pc, at)

\* How a turn of the run ends: it goes on to a place, or returns.
Turn(e, ticked) ==
  \/ Return
  \/ \E q \in Awaiting : \E x : Place(q, x) /\ Await(q, x, e, ticked)

Counts == [done : Nat, failed : Nat]

\* So that is the end of a turn.
LEMMA NextIssueTurn ==
  ASSUME NEW p \in DOMAIN Content, NEW i \in Nat, NEW e, NEW ticked, NextIssue(p, i, e, ticked)
  PROVE  Turn(e, ticked)
<1>1. {"search", "fetch"} \subseteq Awaiting
  BY DEF Awaiting
<1> QED BY <1>1, NextIssueGoes DEF Turn

\* After an attachment the turn ends too, and the issue is entered if it was the last.
LEMMA AfterTurn ==
  ASSUME NEW x, NEW p \in DOMAIN Content, NEW i \in DOMAIN Content[p],
         NEW a \in 0..Content[p][i], x = <<p, i, a>>,
         NEW e, NEW log, NEW stored, After(x, e, log, stored)
  PROVE  /\ Turn(e, TRUE)
         /\ entries' \in {log, Append(log, Okay(<<p, i, 0>>))}
<1>1. {"download", "scan"} \subseteq Awaiting /\ i \in Nat
  BY ContentType DEF Awaiting
<1> QED BY <1>1, AfterGoes, NextIssueTurn DEF Turn

\* The item of an issue under way, and what the run may be at.
LEMMA AtIssue ==
  ASSUME pc = "fetch", Placed
  PROVE  \E p \in DOMAIN Content : \E i \in DOMAIN Content[p] :
           at = <<p, i, 0>> /\ at \in Issues /\ at \in Items
<1>1. at \in Issues
  BY DEF Placed, Place, Awaiting
<1> QED BY <1>1, IssueShape DEF Items

\* A run that downloads or scans is at an attachment of an issue.
LEMMA AtAttachment ==
  ASSUME pc \in {"download", "scan"}, Placed
  PROVE  \E p \in DOMAIN Content : \E i \in DOMAIN Content[p] : \E a \in 1..Content[p][i] :
           at = <<p, i, a>> /\ <<p, i, 0>> \in Issues /\ IssueOf(at) = <<p, i, 0>> /\ at \in Items
<1>1. PICK y \in Issues : at \in AttachmentsOf(y)
  BY DEF Placed, Place, Awaiting
<1>2. at \in Items
  BY <1>1 DEF Items
<1> QED BY <1>1, <1>2, AttachmentShape

\* The books stay well typed, whatever is entered.
LEMMA EntryType ==
  ASSUME NEW log \in Seq(Entry), NEW x \in Items
  PROVE  /\ Append(log, Okay(x)) \in Seq(Entry)
         /\ Append(log, Failed(x)) \in Seq(Entry)
<1>1. Okay(x) \in Entry /\ Failed(x) \in Entry
  BY DEF Okay, Failed, Entry
<1> QED BY <1>1

\* Counting keeps counts in their type.
LEMMA CountType ==
  ASSUME NEW e \in Counts
  PROVE  /\ [e EXCEPT !.done = @ + 1] \in Counts
         /\ [e EXCEPT !.failed = @ + 1] \in Counts
BY DEF Counts

\* One count goes up by one, the other stays.
LEMMA CountSteps ==
  ASSUME NEW e \in Counts
  PROVE  /\ [e EXCEPT !.done = @ + 1].done = e.done + 1
         /\ [e EXCEPT !.done = @ + 1].failed = e.failed
         /\ [e EXCEPT !.failed = @ + 1].done = e.done
         /\ [e EXCEPT !.failed = @ + 1].failed = e.failed + 1
         /\ e.done \in Nat /\ e.failed \in Nat /\ e.done + 1 > 0
BY DEF Counts

WorkTypes ==
  /\ emitter' \in Counts /\ total' \in [captured : Nat, errors : Nat]
  /\ entries' \in Seq(Entry) /\ errors' \in Seq(Items) /\ files' \in SUBSET Items

\* A step of the work is a turn that leaves the rest of the system alone.
LEMMA WorkTurn ==
  ASSUME TypeOK, Placed, Work
  PROVE  /\ pc \in Awaiting
         /\ UNCHANGED <<point, processVars, tracked>>
         /\ WorkTypes
         /\ \/ pc' = "rejected" /\ UNCHANGED <<row, age, logged, at, armed, clientVars>>
            \/ \E e \in Counts, ticked \in BOOLEAN : Turn(e, ticked)
<1> DEFINE Goal ==
      /\ pc \in Awaiting
      /\ UNCHANGED <<point, processVars, tracked>>
      /\ WorkTypes
      /\ \/ pc' = "rejected" /\ UNCHANGED <<row, age, logged, at, armed, clientVars>>
         \/ \E e \in Counts, ticked \in BOOLEAN : Turn(e, ticked)
<1>0. /\ emitter \in Counts /\ total \in [captured : Nat, errors : Nat]
      /\ entries \in Seq(Entry) /\ errors \in Seq(Items) /\ files \in SUBSET Items
  BY DEF TypeOK, Counts
<1>1. CASE Found
  <2>1. pc = "search" /\ pc \in Awaiting
    BY <1>1 DEF Found, Awaiting
  <2>2. PICK p \in DOMAIN Content : at = <<p, 0, 0>>
    BY <2>1 DEF Placed, Place
  <2>3. NextIssue(p, 0, emitter, FALSE)
    BY <1>1, <2>2 DEF Found
  <2>4. Turn(emitter, FALSE)
    BY <2>3, NextIssueTurn
  <2>5. UNCHANGED <<point, processVars, tracked>> /\ WorkTypes
    BY <1>0, <1>1 DEF Found, diskVars, WorkTypes
  <2> QED BY <1>0, <2>1, <2>4, <2>5
<1>2. CASE SearchRejected
  <2>1. pc \in Awaiting /\ UNCHANGED <<point, processVars, tracked>> /\ WorkTypes
    BY <1>0, <1>2 DEF SearchRejected, Awaiting, diskVars, WorkTypes
  <2> QED BY <1>2, <2>1 DEF SearchRejected
<1>3. CASE Captured
  <2>1. pc = "fetch" /\ pc \in Awaiting
    BY <1>3 DEF Captured, Awaiting
  <2>2. PICK p \in DOMAIN Content :
          \E i \in DOMAIN Content[p] : at = <<p, i, 0>> /\ at \in Issues /\ at \in Items
    BY <2>1, AtIssue
  <2>3. PICK i \in DOMAIN Content[p] : at = <<p, i, 0>> /\ at \in Issues /\ at \in Items
    BY <2>2
  <2>4. 0 \in 0..Content[p][i]
    BY ContentType
  <2> DEFINE e == [emitter EXCEPT !.done = @ + 1]
  <2>5. emitter' = e /\ After(at, e, entries, files) /\ e \in Counts
    BY <1>0, <1>3, CountType DEF Captured
  <2>6. Turn(e, TRUE) /\ entries' \in {entries, Append(entries, Okay(at))}
    BY <2>3, <2>4, <2>5, AfterTurn
  <2>7. entries' \in Seq(Entry)
    BY <1>0, <2>3, <2>6, EntryType
  <2>8. UNCHANGED <<point, processVars, tracked>> /\ WorkTypes
    <3>1. total' \in [captured : Nat, errors : Nat]
      <4>1. total' = [total EXCEPT !.captured = @ + 1]
        BY <1>3 DEF Captured
      <4> QED BY <1>0, <4>1
    <3>2. files' \in SUBSET Items
      BY <1>0, <1>3, <2>3 DEF Captured
    <3> QED BY <1>0, <1>3, <2>5, <2>7, <3>1, <3>2 DEF Captured, WorkTypes
  <2> HIDE DEF e
  <2> QED BY <2>1, <2>5, <2>6, <2>8
<1>4. CASE NotCaptured
  <2>1. pc = "fetch" /\ pc \in Awaiting
    BY <1>4 DEF NotCaptured, Awaiting
  <2>2. PICK p \in DOMAIN Content :
          \E i \in DOMAIN Content[p] : at = <<p, i, 0>> /\ at \in Issues /\ at \in Items
    BY <2>1, AtIssue
  <2>3. PICK i \in DOMAIN Content[p] : at = <<p, i, 0>> /\ at \in Issues /\ at \in Items
    BY <2>2
  <2>4. i \in Nat
    BY ContentType
  <2> DEFINE e == [emitter EXCEPT !.failed = @ + 1]
  <2>5. emitter' = e /\ NextIssue(p, i, e, TRUE) /\ e \in Counts
    BY <1>0, <1>4, <2>3, CountType DEF NotCaptured
  <2>6. Turn(e, TRUE)
    BY <2>4, <2>5, NextIssueTurn
  <2>7. entries' \in Seq(Entry) /\ errors' \in Seq(Items)
    BY <1>0, <1>4, <2>3, EntryType DEF NotCaptured, WithError
  <2>8. UNCHANGED <<point, processVars, tracked>> /\ WorkTypes
    BY <1>0, <1>4, <2>5, <2>7 DEF NotCaptured, WorkTypes
  <2> HIDE DEF e
  <2> QED BY <2>1, <2>5, <2>6, <2>8
<1>5. CASE Downloaded \/ NotDownloaded
  <2>1. pc = "download" /\ pc \in Awaiting
    BY <1>5 DEF Downloaded, NotDownloaded, Awaiting
  <2>2. PICK p \in DOMAIN Content :
          \E i \in DOMAIN Content[p] : \E a \in 1..Content[p][i] :
            at = <<p, i, a>> /\ <<p, i, 0>> \in Issues /\ at \in Items
    BY <2>1, AtAttachment
  <2>3. PICK i \in DOMAIN Content[p] :
          \E a \in 1..Content[p][i] :
            at = <<p, i, a>> /\ <<p, i, 0>> \in Issues /\ at \in Items
    BY <2>2
  <2>4. PICK a \in 1..Content[p][i] :
          at = <<p, i, a>> /\ <<p, i, 0>> \in Issues /\ at \in Items
    BY <2>3
  <2>5. a \in 0..Content[p][i] /\ <<p, i, 0>> \in Items
    BY <2>4, ContentType DEF Items
  <2> DEFINE d == [emitter EXCEPT !.done = @ + 1]
             f == [emitter EXCEPT !.failed = @ + 1]
             g == [f EXCEPT !.done = @ + 1]
  <2>6. d \in Counts /\ f \in Counts /\ g \in Counts
    BY <1>0, CountType
  <2>7. CASE Downloaded
    <3>1. After(at, d, Append(entries, Okay(at)), files \cup {at})
      BY <2>7 DEF Downloaded
    <3>2. /\ Turn(d, TRUE)
          /\ entries' \in {Append(entries, Okay(at)),
                           Append(Append(entries, Okay(at)), Okay(<<p, i, 0>>))}
      BY <2>4, <2>5, <3>1, AfterTurn
    <3>3. entries' \in Seq(Entry)
      <4>1. Append(entries, Okay(at)) \in Seq(Entry)
        BY <1>0, <2>4, EntryType
      <4>2. Append(Append(entries, Okay(at)), Okay(<<p, i, 0>>)) \in Seq(Entry)
        BY <2>5, <4>1, EntryType
      <4> QED BY <3>2, <4>1, <4>2
    <3>4. UNCHANGED <<point, processVars, tracked>> /\ WorkTypes
      BY <1>0, <2>4, <2>6, <2>7, <3>3 DEF Downloaded, WorkTypes
    <3> HIDE DEF d
    <3> QED BY <2>1, <2>6, <3>2, <3>4
  <2>8. CASE NotDownloaded
    <3>1. After(at, f, Append(entries, Failed(at)), files)
      BY <2>8 DEF NotDownloaded
    <3>2. /\ Turn(f, TRUE)
          /\ entries' \in {Append(entries, Failed(at)),
                           Append(Append(entries, Failed(at)), Okay(<<p, i, 0>>))}
      BY <2>4, <2>5, <3>1, AfterTurn
    <3>3. entries' \in Seq(Entry)
      <4>1. Append(entries, Failed(at)) \in Seq(Entry)
        BY <1>0, <2>4, EntryType
      <4>2. Append(Append(entries, Failed(at)), Okay(<<p, i, 0>>)) \in Seq(Entry)
        BY <2>5, <4>1, EntryType
      <4> QED BY <3>2, <4>1, <4>2
    <3>4. emitter' = g
      BY <2>8 DEF NotDownloaded
    <3>5. UNCHANGED <<point, processVars, tracked>> /\ WorkTypes
      BY <1>0, <2>4, <2>6, <2>8, <3>3, <3>4 DEF NotDownloaded, WorkTypes, WithError
    <3> HIDE DEF f
    <3> QED BY <2>1, <2>6, <3>2, <3>5
  <2> QED BY <1>5, <2>7, <2>8
<1>6. CASE Scanned
  <2>1. pc = "scan" /\ pc \in Awaiting
    BY <1>6 DEF Scanned, Awaiting
  <2>2. PICK p \in DOMAIN Content :
          \E i \in DOMAIN Content[p] : \E a \in 1..Content[p][i] :
            at = <<p, i, a>> /\ <<p, i, 0>> \in Issues /\ IssueOf(at) = <<p, i, 0>>
    BY <2>1, AtAttachment
  <2>3. PICK i \in DOMAIN Content[p] :
          \E a \in 1..Content[p][i] :
            at = <<p, i, a>> /\ <<p, i, 0>> \in Issues /\ IssueOf(at) = <<p, i, 0>>
    BY <2>2
  <2>4. at[1] = p /\ at[2] = i /\ IssueOf(at) \in Items /\ i \in Nat
    BY <2>3, ContentType DEF Items
  <2>5. NextIssue(p, i, emitter, FALSE)
    BY <1>6, <2>4 DEF Scanned
  <2>6. Turn(emitter, FALSE)
    BY <2>4, <2>5, NextIssueTurn
  <2>7. entries' \in Seq(Entry)
    BY <1>0, <1>6, <2>4, EntryType DEF Scanned
  <2>8. UNCHANGED <<point, processVars, tracked>> /\ WorkTypes
    BY <1>0, <1>6, <2>7 DEF Scanned, WorkTypes
  <2> QED BY <1>0, <2>1, <2>6, <2>8
<1> QED BY <1>1, <1>2, <1>3, <1>4, <1>5, <1>6 DEF Work

\* A turn ends at a place; it has given the verdict, or at most let a beat be heard.
Heartbeat(e) == row' = Heard(e) /\ age' = 0 /\ logged' = "heartbeat"

\* However a turn ends, the run is placed, and it completed the row or left it but for a beat.
LEMMA TurnEnds ==
  ASSUME NEW e, NEW ticked, Turn(e, ticked)
  PROVE  /\ Placed'
         /\ \/ pc' = "returned" /\ Complete /\ at' = at
            \/ /\ pc' \in Awaiting /\ UNCHANGED <<armed, clientVars>>
               /\ at' \in Nat \X Nat \X Nat
               /\ UNCHANGED <<row, age, logged>> \/ Heartbeat(e)
<1>1. CASE Return
  <2>1. pc' \notin Awaiting
    BY <1>1 DEF Return, Awaiting
  <2> QED BY <1>1, <2>1 DEF Return, Placed
<1>2. ASSUME NEW q \in Awaiting, NEW x, Place(q, x), Await(q, x, e, ticked)
      PROVE  /\ Placed'
             /\ pc' \in Awaiting /\ UNCHANGED <<armed, clientVars>>
             /\ at' \in Nat \X Nat \X Nat
             /\ UNCHANGED <<row, age, logged>> \/ Heartbeat(e)
  <2>1. pc' = q /\ at' = x /\ Place(pc, at)'
    BY <1>2 DEF Await, Place
  <2>2. Placed'
    BY <2>1 DEF Placed
  <2>3. UNCHANGED <<row, age, logged>> \/ Heartbeat(e)
    BY <1>2 DEF Await, Ticked, Heartbeat
  <2> QED BY <1>2, <2>1, <2>2, <2>3, PlaceIsItem DEF Await
<1> QED BY <1>1, <1>2 DEF Turn

-----------------------------------------------------------------------------
(* Types                                                                   *)

RowType == [status : {"none"} \cup Active \cup Ended, processed : Nat, failed : Nat,
            stalled : BOOLEAN]

\* What the store writes to the row is a row.
LEMMA RowWrites ==
  ASSUME NEW r \in RowType, NEW e \in Counts
  PROVE  /\ [r EXCEPT !.processed = e.done, !.failed = e.failed, !.stalled = FALSE] \in RowType
         /\ [status |-> Verdict(e), processed |-> e.done, failed |-> e.failed, stalled |-> FALSE]
              \in RowType
         /\ [r EXCEPT !.stalled = TRUE, !.status = "stalled"] \in RowType
         /\ [r EXCEPT !.stalled = FALSE, !.status = "running"] \in RowType
         /\ [r EXCEPT !.status = "running"] \in RowType
         /\ Verdict(e) \in Ended
<1>1. Verdict(e) \in Ended
  BY DEF Verdict, Ended
<1> QED BY <1>1 DEF RowType, Counts, Active

\* A run that has not begun is well typed.
LEMMA BackupTypeInit == Init => TypeOK /\ Placed
<1> SUFFICES ASSUME Init PROVE TypeOK /\ Placed
  OBVIOUS
<1>1. row \in RowType
  BY DEF Init, RowType
<1>2. age \in 0..(StaleThreshold + 1) /\ crashes \in 0..MaxCrashes
  BY ClockAssumption, CrashAssumption DEF Init
<1>3. errors \in Seq(Items) /\ entries \in Seq(Entry) /\ files \in SUBSET Items
  BY DEF Init
<1>4. pc \in PC /\ at \in Nat \X Nat \X Nat
  BY DEF Init, PC
<1>5. total \in [captured : Nat, errors : Nat] /\ emitter \in [done : Nat, failed : Nat]
  BY DEF Init
<1>6. Placed
  BY DEF Init, Placed, Awaiting
<1> QED BY <1>1, <1>2, <1>3, <1>4, <1>5, <1>6 DEF Init, TypeOK, RowType

\* Every step keeps the types and the place of the run.
LEMMA BackupTypeStep == TypeOK /\ Placed /\ [Next]_vars => TypeOK' /\ Placed'
<1> SUFFICES ASSUME TypeOK, Placed, [Next]_vars PROVE TypeOK' /\ Placed'
  OBVIOUS
<1>0. row \in RowType /\ emitter \in Counts /\ 0 \in 0..(StaleThreshold + 1)
  BY ClockAssumption DEF TypeOK, RowType, Counts
<1>1. CASE Start
  <2>1. CASE Content = <<>>
    <3>1. Return /\ UNCHANGED <<diskVars, point, processVars, total, emitter, tracked>>
      BY <1>1, <2>1 DEF Start
    <3>2. row' \in RowType
      BY <1>0, <3>1, RowWrites DEF Return, Complete
    <3>3. stream' \in {"closed", "live", "late", "ended"} /\ told' \in BOOLEAN
      BY <3>1 DEF TypeOK, Return, Complete
    <3>4. pc' \in PC /\ pc' \notin Awaiting
      BY <3>1 DEF Return, PC, Awaiting
    <3> QED BY <3>1, <3>2, <3>3, <3>4
            DEF TypeOK, Placed, Return, Complete, RowType, diskVars, processVars
  <2>2. CASE Content # <<>>
    <3>1. /\ UNCHANGED <<diskVars, point, processVars, total, emitter, tracked, logged, clientVars>>
          /\ pc' = "search" /\ at' = <<1, 0, 0>> /\ row' = Created /\ age' = 0 /\ armed' = TRUE
      BY <1>1, <2>2 DEF Start
    <3>2. row' \in RowType
      BY <1>0, <3>1, RowWrites DEF Created
    <3>3. 1 \in DOMAIN Content
      BY <2>2, ContentType, ContentAssumption
    <3>4. Placed'
      BY <3>1, <3>3 DEF Placed, Place
    <3>5. pc' \in PC /\ at' \in Nat \X Nat \X Nat
      BY <3>1 DEF PC
    <3> QED BY <1>0, <3>1, <3>2, <3>4, <3>5
            DEF TypeOK, RowType, diskVars, processVars, clientVars
  <2> QED BY <2>1, <2>2
<1>2. CASE Work
  <2>1. UNCHANGED <<point, processVars, tracked>> /\ WorkTypes
    BY <1>2, WorkTurn
  <2>2. CASE pc' = "rejected" /\ UNCHANGED <<row, age, logged, at, armed, clientVars>>
    <3>1. pc' \in PC /\ pc' \notin Awaiting
      BY <2>2 DEF PC, Awaiting
    <3> QED BY <2>1, <2>2, <3>1 DEF TypeOK, Placed, WorkTypes, Counts, processVars, clientVars
  <2>3. ASSUME NEW e \in Counts, NEW ticked \in BOOLEAN, Turn(e, ticked)
        PROVE  TypeOK' /\ Placed'
    <3>1. Placed'
      BY <2>3, TurnEnds
    <3>2. CASE pc' = "returned" /\ Complete /\ at' = at
      <4>1. row' \in RowType
        BY <1>0, <2>1, <3>2, RowWrites DEF Complete, WorkTypes
      <4>2. stream' \in {"closed", "live", "late", "ended"} /\ told' \in BOOLEAN
        BY <3>2 DEF TypeOK, Complete
      <4>3. pc' \in PC
        BY <3>2 DEF PC
      <4> QED BY <2>1, <3>1, <3>2, <4>1, <4>2, <4>3
              DEF TypeOK, Complete, RowType, WorkTypes, Counts, processVars
    <3>3. CASE /\ pc' \in Awaiting /\ UNCHANGED <<armed, clientVars>>
               /\ at' \in Nat \X Nat \X Nat
               /\ UNCHANGED <<row, age, logged>> \/ Heartbeat(e)
      <4>1. /\ row' \in RowType /\ age' \in 0..(StaleThreshold + 1)
            /\ logged' \in {"none", "heartbeat", "terminal"}
        <5>1. [row EXCEPT !.processed = e.done, !.failed = e.failed, !.stalled = FALSE] \in RowType
          BY <1>0, RowWrites
        <5>2. CASE UNCHANGED <<row, age, logged>>
          BY <1>0, <5>2 DEF TypeOK
        <5>3. CASE Heartbeat(e)
          BY <1>0, <5>1, <5>3 DEF Heartbeat, Heard
        <5> QED BY <3>3, <5>2, <5>3
      <4>2. pc' \in PC
        BY <3>3 DEF PC, Awaiting
      <4> QED BY <2>1, <3>1, <3>3, <4>1, <4>2
              DEF TypeOK, RowType, WorkTypes, Counts, processVars, clientVars
    <3> QED BY <2>3, <3>2, <3>3, TurnEnds
  <2> QED BY <1>2, <2>2, <2>3, WorkTurn
<1>3. CASE Beat
  <2>1. row' \in RowType
    BY <1>0, <1>3, RowWrites DEF Beat, Heard
  <2> QED BY <1>0, <1>3, <2>1
          DEF TypeOK, Placed, Place, Beat, RowType, diskVars, processVars, clientVars
<1>4. CASE Finalize
  BY <1>4 DEF TypeOK, Placed, Place, Finalize, diskVars, processVars, clientVars
<1>5. CASE Check
  <2>1. row' \in RowType /\ tracked' \in BOOLEAN
    BY <1>0, <1>5, RowWrites DEF Check, Flagged
  <2> QED BY <1>5, <2>1
          DEF TypeOK, Placed, Place, Check, RowType, diskVars, processVars, clientVars
<1>6. CASE Subscribe
  BY <1>6 DEF TypeOK, Placed, Place, Subscribe, diskVars, processVars
<1>7. CASE Disconnect
  <2>1. /\ stream' \in {"closed", "live", "late", "ended"} /\ told' \in BOOLEAN
        /\ UNCHANGED <<row, age, logged, diskVars, point, processVars, pc, at, total, emitter,
                       armed, tracked>>
    BY <1>7 DEF Disconnect
  <2> QED BY <2>1 DEF TypeOK, Placed, Place, diskVars, processVars
<1>8. CASE Tick
  <2>1. age' \in 0..(StaleThreshold + 1)
    BY <1>8, ClockAssumption DEF TypeOK, Tick
  <2> QED BY <1>8, <2>1 DEF TypeOK, Placed, Place, Tick, diskVars, processVars, clientVars
<1>9. CASE Crash
  <2>1. pc' \in PC /\ pc' \notin Awaiting
    BY <1>9 DEF TypeOK, Crash, PC, Awaiting
  <2>2. crashes' \in 0..MaxCrashes
    BY <1>9, CrashAssumption DEF TypeOK, Crash
  <2>3. stream' \in {"closed", "live", "late", "ended"} /\ told' \in BOOLEAN
    BY <1>9 DEF TypeOK, Crash
  <2> QED BY <1>9, <2>1, <2>2, <2>3 DEF TypeOK, Placed, Crash, diskVars
<1>10. CASE Restart
  BY <1>10 DEF TypeOK, Placed, Place, Restart, diskVars, clientVars
<1>11. CASE UNCHANGED vars
  BY <1>11 DEF TypeOK, Placed, Place, vars, diskVars, processVars, clientVars
<1> QED
  BY <1>1, <1>2, <1>3, <1>4, <1>5, <1>6, <1>7, <1>8, <1>9, <1>10, <1>11 DEF Next

\* The variables keep their types (TypeOK).
THEOREM BackupTypes == Spec => []TypeOK
BY BackupTypeInit, BackupTypeStep, PTL DEF Spec

-----------------------------------------------------------------------------
(* The row, the detector and the stream                                    *)

\* What the row says of the run: it is there once the run has begun, active while
\* the run goes on, and ended when it has returned; then the event of the end is the
\* latest, and no timer is left to write another.
Life ==
  /\ pc = "idle" => row.status = "none"
  /\ pc \in Awaiting \cup {"rejected"} => row.status \in Active
  /\ pc = "returned" => Terminal
  /\ pc = "gone" => row.status # "none"
  /\ armed => pc \in Awaiting \cup {"rejected"}
  /\ Terminal => logged = "terminal"
  /\ tracked => row.status # "none"

\* A stream that was opened late, or ended, is of a job that has ended.
StreamIsDue == stream \in {"late", "ended"} => Terminal

RowInv == Life /\ StreamIsDue /\ EndIsTold /\ StallAgreement

\* A row keeps what is said of it when a beat is heard.
LEMMA HeardRow ==
  ASSUME NEW e, row \in RowType
  PROVE  Heard(e).status = row.status /\ Heard(e).stalled = FALSE
BY DEF Heard, RowType

\* The end of a run.
LEMMA CompleteRow ==
  ASSUME emitter' \in Counts, Complete
  PROVE  /\ Terminal' /\ row'.status \in Ended /\ row'.stalled = FALSE
         /\ armed' = FALSE /\ logged' = "terminal"
         /\ stream = "live" => stream' = "ended" /\ told' = TRUE
         /\ stream # "live" => stream' = stream /\ (told => told')
<1>1. row'.status = Verdict(emitter') /\ Verdict(emitter') \in Ended
  BY DEF Complete, Verdict, Ended
<1> QED BY <1>1 DEF Complete, Terminal

\* The turn that completes the job ends what lives with the row.
LEMMA CompleteKeeps ==
  ASSUME RowInv, emitter' \in Counts, Complete, pc' = "returned", ~Terminal, tracked' = tracked
  PROVE  RowInv'
<1>1. /\ Terminal' /\ row'.status \in Ended /\ row'.stalled = FALSE
      /\ armed' = FALSE /\ logged' = "terminal"
      /\ stream = "live" => stream' = "ended" /\ told' = TRUE
      /\ stream # "live" => stream' = stream /\ (told => told')
  BY CompleteRow
<1>2. row'.status \notin {"none", "running", "stalled"}
  BY <1>1 DEF Ended
<1>3. pc' \notin Awaiting \cup {"idle", "gone", "rejected"}
  BY DEF Awaiting
<1> QED BY <1>1, <1>2, <1>3 DEF RowInv, Life, StreamIsDue, EndIsTold, StallAgreement

\* A beat changes neither the status nor the stream.
LEMMA BeatKeeps ==
  ASSUME RowInv, row \in RowType, NEW e, Heartbeat(e), ~Terminal, pc \in Awaiting \cup {"rejected"},
         pc' \in Awaiting \cup {"rejected"}, UNCHANGED <<armed, clientVars, tracked>>
  PROVE  RowInv'
<1>1. row'.status = row.status /\ row'.stalled = FALSE
  BY HeardRow DEF Heartbeat
<1>2. "gone" \notin Awaiting /\ "idle" \notin Awaiting /\ "returned" \notin Awaiting
  BY DEF Awaiting
<1> QED BY <1>1, <1>2
        DEF RowInv, Life, StreamIsDue, EndIsTold, StallAgreement, Terminal, clientVars

\* A step that leaves row, detector and stream alone, and moves the run only while
\* it goes on.
LEMMA RowFrame ==
  ASSUME RowInv, UNCHANGED <<row, logged, armed, clientVars, tracked>>,
         age' >= age,
         age \in Nat, age' \in Nat, StaleThreshold \in Nat,
         \/ pc' = pc
         \/ pc \in Awaiting \cup {"rejected"} /\ pc' \in Awaiting \cup {"rejected"}
  PROVE  RowInv'
<1>1. age > StaleThreshold => age' > StaleThreshold
  OBVIOUS
<1>2. "gone" \notin Awaiting /\ "idle" \notin Awaiting /\ "returned" \notin Awaiting
  BY DEF Awaiting
<1> QED BY <1>1, <1>2
        DEF RowInv, Life, StreamIsDue, EndIsTold, StallAgreement, Terminal, clientVars

\* Every step keeps the agreement of row, timer, stream and detector.
LEMMA RowStep == TypeOK /\ Placed /\ RowInv /\ [Next]_vars => RowInv'
<1> SUFFICES ASSUME TypeOK, Placed, RowInv, [Next]_vars PROVE RowInv'
  OBVIOUS
<1>0. /\ row \in RowType /\ emitter \in Counts /\ TypeOK'
      /\ age \in Nat /\ age' \in Nat /\ StaleThreshold \in Nat
  <2>1. TypeOK'
    BY BackupTypeStep
  <2> QED BY <2>1, ClockAssumption DEF TypeOK, RowType, Counts
<1>1. CASE Start
  <2>1. pc = "idle" /\ row.status = "none" /\ ~Terminal /\ ~tracked /\ tracked' = tracked
        /\ emitter' = emitter
    BY <1>1 DEF Start, RowInv, Life, Terminal, Ended
  <2>2. CASE Content = <<>>
    BY <1>0, <1>1, <2>1, <2>2, CompleteKeeps DEF Start, Return
  <2>3. CASE Content # <<>>
    <3>1. /\ UNCHANGED <<logged, clientVars, tracked>>
          /\ pc' = "search" /\ row' = Created /\ age' = 0 /\ armed' = TRUE
      BY <1>1, <2>3 DEF Start
    <3>2. row'.status = "running" /\ row'.stalled = row.stalled
      BY <1>0, <2>1, <3>1 DEF Created, RowType
    <3>3. row.stalled = FALSE
      BY <1>0, <2>1 DEF RowInv, StallAgreement, RowType
    <3> QED BY <2>1, <3>1, <3>2, <3>3
            DEF RowInv, Life, StreamIsDue, EndIsTold, StallAgreement, Terminal, Ended, Active,
                Awaiting, clientVars
  <2> QED BY <2>2, <2>3
<1>2. CASE Work
  <2>1. pc \in Awaiting /\ tracked' = tracked /\ WorkTypes
    BY <1>2, WorkTurn
  <2>2. ~Terminal
    BY <2>1 DEF RowInv, Life, Terminal, Active, Ended
  <2>3. CASE pc' = "rejected" /\ UNCHANGED <<row, age, logged, at, armed, clientVars>>
    BY <1>0, <2>1, <2>3, RowFrame
  <2>4. ASSUME NEW e \in Counts, NEW ticked \in BOOLEAN, Turn(e, ticked)
        PROVE  RowInv'
    <3>1. CASE pc' = "returned" /\ Complete
      BY <2>1, <2>2, <3>1, CompleteKeeps DEF WorkTypes
    <3>2. CASE pc' \in Awaiting /\ UNCHANGED <<armed, clientVars>> /\ UNCHANGED <<row, age, logged>>
      BY <1>0, <2>1, <3>2, RowFrame
    <3>3. CASE pc' \in Awaiting /\ UNCHANGED <<armed, clientVars>> /\ Heartbeat(e)
      BY <1>0, <2>1, <2>2, <3>3, BeatKeeps
    <3> QED BY <2>4, <3>1, <3>2, <3>3, TurnEnds
  <2> QED BY <1>2, <2>3, <2>4, WorkTurn
<1>3. CASE Beat
  <2>1. /\ armed /\ Heartbeat(emitter) /\ pc' = pc
        /\ UNCHANGED <<armed, clientVars, tracked>>
    BY <1>3 DEF Beat, Heartbeat
  <2>2. pc \in Awaiting \cup {"rejected"} /\ ~Terminal
    BY <2>1 DEF RowInv, Life, Terminal, Active, Ended
  <2> QED BY <1>0, <2>1, <2>2, BeatKeeps
<1>4. CASE Finalize
  BY <1>0, <1>4, RowFrame DEF Finalize
<1>5. CASE Check
  <2>1. UNCHANGED <<age, logged, pc, armed, clientVars>>
    BY <1>5 DEF Check
  <2>2. CASE row.status \in Active /\ age > StaleThreshold
    <3>1. tracked' = TRUE /\ row' = Flagged(TRUE)
      BY <1>5, <2>2 DEF Check
    <3>2. row'.stalled = TRUE /\ row'.status = "stalled"
      BY <1>0, <3>1 DEF Flagged, RowType
    <3> QED BY <2>1, <2>2, <3>1, <3>2
            DEF RowInv, Life, StreamIsDue, EndIsTold, StallAgreement, Terminal, Active, Ended,
                clientVars
  <2>3. CASE ~(row.status \in Active /\ age > StaleThreshold) /\ row.status \in Active
    <3>1. tracked' = FALSE /\ row' = Flagged(FALSE)
      BY <1>5, <2>3 DEF Check
    <3>2. row'.stalled = FALSE /\ row'.status = "running"
      BY <1>0, <3>1 DEF Flagged, RowType
    <3> QED BY <2>1, <2>3, <3>1, <3>2
            DEF RowInv, Life, StreamIsDue, EndIsTold, StallAgreement, Terminal, Active, Ended,
                clientVars
  <2>4. CASE row.status \notin Active
    <3>1. tracked' = FALSE /\ row' = row
      BY <1>5, <2>4 DEF Check
    <3> QED BY <2>1, <2>4, <3>1
            DEF RowInv, Life, StreamIsDue, EndIsTold, StallAgreement, Terminal, Active, clientVars
  <2> QED BY <2>2, <2>3, <2>4
<1>6. CASE Subscribe
  BY <1>6 DEF Subscribe, RowInv, Life, StreamIsDue, EndIsTold, StallAgreement, Terminal
<1>7. CASE Disconnect
  <2>1. stream' = "closed" /\ UNCHANGED <<row, age, logged, pc, armed, tracked>>
    BY <1>7 DEF Disconnect
  <2> QED BY <2>1 DEF RowInv, Life, StreamIsDue, EndIsTold, StallAgreement, Terminal
<1>8. CASE Tick
  BY <1>0, <1>8, RowFrame DEF Tick
<1>9. CASE Crash
  <2>1. UNCHANGED <<row, age, logged>> /\ tracked' = FALSE /\ armed' = FALSE
    BY <1>9 DEF Crash
  <2>2. \/ pc = "idle" /\ pc' = "idle"
        \/ pc # "idle" /\ pc' = "gone"
    BY <1>9 DEF Crash
  <2>3. \/ stream = "ended" /\ stream' = "ended" /\ told' = told
        \/ stream # "ended" /\ stream' = "closed"
    BY <1>9 DEF TypeOK, Crash
  <2>4. pc # "idle" => row.status # "none"
    BY DEF TypeOK, PC, RowInv, Life, Terminal, Active, Ended, Awaiting
  <2> QED BY <2>1, <2>2, <2>3, <2>4
          DEF RowInv, Life, StreamIsDue, EndIsTold, StallAgreement, Terminal, Awaiting
<1>10. CASE Restart
  BY <1>0, <1>10, RowFrame DEF Restart
<1>11. CASE UNCHANGED vars
  BY <1>0, <1>11, RowFrame DEF vars
<1> QED
  BY <1>1, <1>2, <1>3, <1>4, <1>5, <1>6, <1>7, <1>8, <1>9, <1>10, <1>11 DEF Next

\* It holds before the run.
LEMMA RowInit == Init => RowInv
BY DEF Init, RowInv, Life, StreamIsDue, EndIsTold, StallAgreement, Terminal, Ended, Awaiting

\* Whoever opens the stream of a job learns that it ended, live or by replay, and a
\* stream opened before the end is ended by it (HeartbeatEmitter.complete, JobRouter).
THEOREM EndProved == Spec => []EndIsTold
<1>1. RowInv => EndIsTold
  BY DEF RowInv
<1> QED BY <1>1, RowInit, RowStep, BackupTypeInit, BackupTypeStep, PTL DEF Spec

\* The row and the detector agree on what is stalled, and a row that is flagged has
\* been silent, whatever beats, checks, crashes and restarts there are
\* (StalledJobDetector.check, JobStore.updateHeartbeat).
THEOREM StallAgreementProved == Spec => []StallAgreement
<1>1. RowInv => StallAgreement
  BY DEF RowInv
<1> QED BY <1>1, RowInit, RowStep, BackupTypeInit, BackupTypeStep, PTL DEF Spec

-----------------------------------------------------------------------------
(* The books                                                               *)

\* Every item is entered once, and every failure both ways.
Recorded(log, errs) ==
  /\ \A j, k \in DOMAIN log : log[j].item = log[k].item => j = k
  /\ Cardinality({k \in DOMAIN log : ~log[k].ok}) = Len(errs)
  /\ \A k \in DOMAIN errs : \E e \in DOMAIN log : ~log[e].ok /\ log[e].item = errs[k]

\* What OkIsOnDisk says.
Durable(log, stored) ==
  \A k \in DOMAIN log :
    log[k].ok => /\ log[k].item \in stored
                 /\ log[k].item \in Issues =>
                      \A a \in AttachmentsOf(log[k].item) :
                        \E h \in DOMAIN log : log[h].item = a /\ h < k

Sums(log, errs, stored, e) ==
  /\ log \in Seq(Entry) /\ errs \in Seq(Items) /\ e \in Counts
  /\ Recorded(log, errs) /\ Durable(log, stored) /\ e.failed = Len(errs)

\* Nothing is counted as done exactly as long as nothing is ok.
DoneIsOk(log, e) == e.done = 0 <=> \A k \in DOMAIN log : ~log[k].ok

\* Issue i of project p is the last of which anything is entered.
UpTo(x, p, i) == x[1] < p \/ (x[1] = p /\ x[2] <= i)
Between(log, errs, stored, e, p, i) ==
  /\ Sums(log, errs, stored, e) /\ DoneIsOk(log, e)
  /\ \A k \in DOMAIN log : UpTo(log[k].item, p, i)

\* Of issue i of project p the attachments up to a are entered, and nothing else.
Amid(x, p, i, a) == x[1] < p \/ (x[1] = p /\ (x[2] < i \/ (x[2] = i /\ x[3] \in 1..a)))
Mid(log, errs, stored, e, p, i, a) ==
  /\ Sums(log, errs, stored, e) /\ e.done > 0 /\ <<p, i, 0>> \in stored
  /\ \A k \in DOMAIN log : Amid(log[k].item, p, i, a)
  /\ \A b \in 1..a : \E h \in DOMAIN log : log[h].item = <<p, i, b>>

\* Items are triples of numbers.
LEMMA ItemType == Items \subseteq Nat \X Nat \X Nat
<1>1. ASSUME NEW x \in Issues PROVE x \in Nat \X Nat \X Nat
  <2>1. PICK p \in DOMAIN Content : \E i \in DOMAIN Content[p] : x = <<p, i, 0>>
    BY IssueShape
  <2> QED BY <2>1, ContentType
<1>2. ASSUME NEW y \in Issues, NEW x \in AttachmentsOf(y) PROVE x \in Nat \X Nat \X Nat
  <2>1. PICK p \in DOMAIN Content :
          \E i \in DOMAIN Content[p] : \E a \in 1..Content[p][i] : x = <<p, i, a>>
    BY AttachmentShape
  <2>2. PICK i \in DOMAIN Content[p] : \E a \in 1..Content[p][i] : x = <<p, i, a>>
    BY <2>1
  <2>3. p \in Nat /\ i \in Nat /\ Content[p][i] \in Nat
    BY ContentType
  <2> QED BY <2>2, <2>3
<1> QED BY <1>1, <1>2 DEF Items

\* A log has finitely many errors.
LEMMA ErrorsAreFinite ==
  ASSUME NEW log \in Seq(Entry)
  PROVE  /\ IsFiniteSet({k \in DOMAIN log : ~log[k].ok})
         /\ Cardinality({k \in DOMAIN log : ~log[k].ok}) \in Nat
<1>1. IsFiniteSet(1..Len(log))
  BY FS_Interval
<1>2. {k \in DOMAIN log : ~log[k].ok} \subseteq 1..Len(log)
  OBVIOUS
<1> QED BY <1>1, <1>2, FS_Subset, FS_CardinalityType

\* An item that was not entered is, as ok or as an error.
LEMMA RecordOkay ==
  ASSUME NEW log \in Seq(Entry), NEW errs \in Seq(Items), Recorded(log, errs), NEW x \in Items,
         \A k \in DOMAIN log : log[k].item # x
  PROVE  Recorded(Append(log, Okay(x)), errs)
<1> DEFINE new == Append(log, Okay(x))
<1>1. /\ DOMAIN new = (DOMAIN log) \cup {Len(log) + 1} /\ Len(log) + 1 \notin DOMAIN log
      /\ \A k \in DOMAIN log : new[k] = log[k]
      /\ new[Len(log) + 1] = Okay(x)
  OBVIOUS
<1>2. Okay(x).item = x /\ Okay(x).ok
  BY DEF Okay
<1> HIDE DEF new
<1>3. {k \in DOMAIN new : ~new[k].ok} = {k \in DOMAIN log : ~log[k].ok}
  BY <1>1, <1>2
<1>4. \A j, k \in DOMAIN new : new[j].item = new[k].item => j = k
  BY <1>1, <1>2 DEF Recorded
<1>5. \A k \in DOMAIN errs : \E e \in DOMAIN new : ~new[e].ok /\ new[e].item = errs[k]
  BY <1>1, <1>2 DEF Recorded
<1>6. Recorded(new, errs)
  BY <1>3, <1>4, <1>5 DEF Recorded
<1> QED BY <1>6 DEF new

\* An error that is entered and recorded keeps entries and error rows alike.
LEMMA RecordFailed ==
  ASSUME NEW log \in Seq(Entry), NEW errs \in Seq(Items), Recorded(log, errs), NEW x \in Items,
         \A k \in DOMAIN log : log[k].item # x
  PROVE  Recorded(Append(log, Failed(x)), Append(errs, x))
<1> DEFINE new == Append(log, Failed(x))
           more == Append(errs, x)
           bad == {k \in DOMAIN log : ~log[k].ok}
<1>1. /\ DOMAIN new = (DOMAIN log) \cup {Len(log) + 1} /\ Len(log) + 1 \notin DOMAIN log
      /\ \A k \in DOMAIN log : new[k] = log[k]
      /\ new[Len(log) + 1] = Failed(x)
  OBVIOUS
<1>2. Failed(x).item = x /\ ~Failed(x).ok
  BY DEF Failed
<1>3. /\ DOMAIN more = (DOMAIN errs) \cup {Len(errs) + 1} /\ Len(more) = Len(errs) + 1
      /\ \A k \in DOMAIN errs : more[k] = errs[k]
      /\ more[Len(errs) + 1] = x
  OBVIOUS
<1> HIDE DEF new, more
<1>4. {k \in DOMAIN new : ~new[k].ok} = bad \cup {Len(log) + 1} /\ Len(log) + 1 \notin bad
  BY <1>1, <1>2
<1>5. IsFiniteSet(bad) /\ Cardinality(bad) = Len(errs)
  BY ErrorsAreFinite DEF Recorded
<1>6. Cardinality(bad \cup {Len(log) + 1}) = Cardinality(bad) + 1
  BY <1>4, <1>5, FS_AddElement
<1>7. \A j, k \in DOMAIN new : new[j].item = new[k].item => j = k
  BY <1>1, <1>2 DEF Recorded
<1>8. \A k \in DOMAIN more : \E e \in DOMAIN new : ~new[e].ok /\ new[e].item = more[k]
  <2>1. ASSUME NEW k \in DOMAIN errs PROVE \E e \in DOMAIN new : ~new[e].ok /\ new[e].item = more[k]
    <3>1. PICK e \in DOMAIN log : ~log[e].ok /\ log[e].item = errs[k]
      BY <2>1 DEF Recorded
    <3>2. e \in DOMAIN new /\ new[e] = log[e] /\ more[k] = errs[k]
      BY <1>1, <1>3, <2>1
    <3> QED BY <3>1, <3>2
  <2> QED BY <1>1, <1>2, <1>3, <2>1
<1>9. Recorded(new, more)
  BY <1>3, <1>4, <1>5, <1>6, <1>7, <1>8 DEF Recorded
<1> QED BY <1>9 DEF new, more

\* An entry is durable if what it says is on disk and what it refers to is entered.
LEMMA DurableOkay ==
  ASSUME NEW log \in Seq(Entry), NEW stored, Durable(log, stored), NEW x \in Items, x \in stored,
         x \in Issues => \A a \in AttachmentsOf(x) : \E h \in DOMAIN log : log[h].item = a
  PROVE  Durable(Append(log, Okay(x)), stored)
<1> DEFINE new == Append(log, Okay(x))
<1>1. /\ DOMAIN new = (DOMAIN log) \cup {Len(log) + 1}
      /\ \A k \in DOMAIN log : new[k] = log[k] /\ k < Len(log) + 1
      /\ new[Len(log) + 1] = Okay(x)
  OBVIOUS
<1>2. Okay(x).item = x
  BY DEF Okay
<1> HIDE DEF new
<1>3. ASSUME NEW k \in DOMAIN new, new[k].ok
      PROVE  /\ new[k].item \in stored
             /\ new[k].item \in Issues =>
                  \A a \in AttachmentsOf(new[k].item) :
                    \E h \in DOMAIN new : new[h].item = a /\ h < k
  <2>1. CASE k \in DOMAIN log
    <3>1. new[k] = log[k] /\ log[k].ok
      BY <1>1, <1>3, <2>1
    <3>2. new[k].item \in stored
      BY <2>1, <3>1 DEF Durable
    <3>3. ASSUME NEW a \in AttachmentsOf(new[k].item), new[k].item \in Issues
          PROVE  \E h \in DOMAIN new : new[h].item = a /\ h < k
      <4>1. PICK h \in DOMAIN log : log[h].item = a /\ h < k
        BY <2>1, <3>1, <3>3 DEF Durable
      <4> QED BY <1>1, <4>1
    <3> QED BY <3>2, <3>3
  <2>2. CASE k = Len(log) + 1
    BY <1>1, <1>2, <2>2
  <2> QED BY <1>1, <2>1, <2>2
<1>4. Durable(new, stored)
  BY <1>3 DEF Durable
<1> QED BY <1>4 DEF new

\* An error that is entered claims nothing of the disk.
LEMMA DurableFailed ==
  ASSUME NEW log \in Seq(Entry), NEW stored, Durable(log, stored), NEW x \in Items
  PROVE  Durable(Append(log, Failed(x)), stored)
<1> DEFINE new == Append(log, Failed(x))
<1>1. /\ DOMAIN new = (DOMAIN log) \cup {Len(log) + 1}
      /\ \A k \in DOMAIN log : new[k] = log[k]
      /\ new[Len(log) + 1] = Failed(x)
  OBVIOUS
<1>2. ~Failed(x).ok
  BY DEF Failed
<1> HIDE DEF new
<1>3. ASSUME NEW k \in DOMAIN new, new[k].ok
      PROVE  /\ new[k].item \in stored
             /\ new[k].item \in Issues =>
                  \A a \in AttachmentsOf(new[k].item) :
                    \E h \in DOMAIN new : new[h].item = a /\ h < k
  <2>1. k \in DOMAIN log /\ new[k] = log[k] /\ log[k].ok
    BY <1>1, <1>2, <1>3
  <2>2. new[k].item \in stored
    BY <2>1 DEF Durable
  <2>3. ASSUME NEW a \in AttachmentsOf(new[k].item), new[k].item \in Issues
        PROVE  \E h \in DOMAIN new : new[h].item = a /\ h < k
    <3>1. PICK h \in DOMAIN log : log[h].item = a /\ h < k
      BY <2>1, <2>3 DEF Durable
    <3> QED BY <1>1, <3>1
  <2> QED BY <2>2, <2>3
<1>4. Durable(new, stored)
  BY <1>3 DEF Durable
<1> QED BY <1>4 DEF new

\* More on disk takes nothing back.
LEMMA DurableMore ==
  ASSUME NEW log, NEW stored, NEW more, Durable(log, stored), stored \subseteq more
  PROVE  Durable(log, more)
BY DEF Durable

\* What VerdictIsHonest says of the manifest.
Honest(status, log) ==
  /\ status = "completed" => \A k \in DOMAIN log : log[k].ok
  /\ status = "failed" => (\A k \in DOMAIN log : ~log[k].ok) /\ DOMAIN log # {}
  /\ status = "completed_with_errors" =>
       (\E k \in DOMAIN log : log[k].ok) /\ (\E k \in DOMAIN log : ~log[k].ok)

Books ==
  /\ Sums(entries, errors, files, emitter) /\ total.errors = Len(errors)
  /\ pc = "idle" => entries = <<>> /\ emitter.done = 0
  /\ pc = "search" => Between(entries, errors, files, emitter, at[1], 0)
  /\ pc = "fetch" => Between(entries, errors, files, emitter, at[1], at[2] - 1)
  /\ pc = "download" => Mid(entries, errors, files, emitter, at[1], at[2], at[3] - 1)
  /\ pc = "scan" => /\ Mid(entries, errors, files, emitter, at[1], at[2], at[3])
                    /\ at[3] = Content[at[1]][at[2]]
  /\ Terminal => row.failed = Len(errors) /\ Honest(row.status, entries)

\* What an entry names is an item.
LEMMA EntryItem ==
  ASSUME NEW log \in Seq(Entry), NEW k \in DOMAIN log
  PROVE  log[k].item \in Nat \X Nat \X Nat /\ log[k].ok \in BOOLEAN
<1>1. log[k] \in Entry
  OBVIOUS
<1> QED BY <1>1, ItemType DEF Entry

\* The end of an issue is in front of the issue that follows.
LEMMA BetweenOn ==
  ASSUME NEW log, NEW errs, NEW stored, NEW e, NEW p \in Nat, NEW i \in Nat,
         Between(log, errs, stored, e, p, i), NEW q \in Nat, NEW j \in Int,
         q = p + 1 \/ (q = p /\ j = i)
  PROVE  Between(log, errs, stored, e, q, j)
<1>1. ASSUME NEW k \in DOMAIN log PROVE UpTo(log[k].item, q, j)
  <2>1. UpTo(log[k].item, p, i) /\ log[k].item \in Nat \X Nat \X Nat
    BY EntryItem DEF Between, Sums
  <2> QED BY <2>1 DEF UpTo
<1> QED BY <1>1 DEF Between

\* The verdict of a run that is between two issues.
LEMMA VerdictTells ==
  ASSUME NEW log, NEW errs, NEW stored, NEW e, NEW p, NEW i, Between(log, errs, stored, e, p, i)
  PROVE  Honest(Verdict(e), log)
<1> DEFINE bad == {k \in DOMAIN log : ~log[k].ok}
<1>1. /\ log \in Seq(Entry) /\ e.failed = Cardinality(bad) /\ e.failed \in Nat /\ e.done \in Nat
      /\ e.done = 0 <=> \A k \in DOMAIN log : ~log[k].ok
  BY DEF Between, Sums, Recorded, DoneIsOk, Counts
<1>2. IsFiniteSet(bad)
  BY <1>1, ErrorsAreFinite
<1>3. e.failed = 0 <=> bad = {}
  BY <1>1, <1>2, FS_EmptySet
<1>4. CASE e.failed = 0
  BY <1>3, <1>4 DEF Honest, Verdict
<1>5. CASE e.failed # 0 /\ e.done = 0
  BY <1>1, <1>3, <1>5 DEF Honest, Verdict
<1>6. CASE e.failed # 0 /\ e.done # 0
  BY <1>1, <1>3, <1>6 DEF Honest, Verdict
<1> QED BY <1>4, <1>5, <1>6

\* A turn that ends between two issues keeps the books.
LEMMA BetweenGoes ==
  ASSUME NEW p \in DOMAIN Content, NEW i \in Nat, NEW e, NEW ticked,
         Between(entries', errors', files', emitter', p, i), NextIssue(p, i, e, ticked),
         total'.errors = Len(errors'), row \in RowType, ~Terminal
  PROVE  Books'
<1>0. p \in Nat
  BY ContentType
<1>1. Sums(entries', errors', files', emitter')
  BY DEF Between
<1>2. CASE Return
  <2>1. /\ pc' = "returned" /\ row'.status = Verdict(emitter') /\ row'.failed = emitter'.failed
    BY <1>2 DEF Return, Complete
  <2>2. Honest(row'.status, entries') /\ row'.failed = Len(errors')
    BY <1>1, <2>1, VerdictTells DEF Sums
  <2> QED BY <1>1, <2>1, <2>2 DEF Books
<1>3. ASSUME NEW q \in {"search", "fetch"}, NEW x, Place(q, x), Await(q, x, e, ticked),
             x[1] = p + 1 \/ (q = "fetch" /\ x[1] = p /\ x[2] = i + 1)
      PROVE  Books'
  <2>1. pc' = q /\ at' = x /\ row'.status = row.status
    BY <1>3, HeardRow DEF Await, Ticked
  <2>2. ~Terminal'
    BY <2>1 DEF Terminal
  <2>3. x \in Nat \X Nat \X Nat
    BY <1>3, PlaceIsItem DEF Awaiting
  <2>4. CASE q = "search"
    <3>1. x[1] = p + 1 /\ x[1] \in Nat
      BY <1>3, <2>3, <2>4
    <3>2. Between(entries', errors', files', emitter', x[1], 0)
      BY <1>0, <3>1, BetweenOn
    <3> QED BY <1>1, <2>1, <2>2, <2>4, <3>2 DEF Books
  <2>5. CASE q = "fetch"
    <3>1. /\ x[1] \in Nat /\ x[2] - 1 \in Int
          /\ x[1] = p + 1 \/ (x[1] = p /\ x[2] - 1 = i)
      BY <1>3, <2>3
    <3>2. Between(entries', errors', files', emitter', x[1], x[2] - 1)
      BY <1>0, <3>1, BetweenOn
    <3> QED BY <1>1, <2>1, <2>2, <2>5, <3>2 DEF Books
  <2> QED BY <2>4, <2>5
<1> QED BY <1>2, <1>3, NextIssueGoes

\* An issue whose attachments are all entered is entered as ok.
LEMMA MidCloses ==
  ASSUME NEW p \in DOMAIN Content, NEW i \in DOMAIN Content[p], NEW log, NEW errs, NEW stored,
         NEW e, Mid(log, errs, stored, e, p, i, Content[p][i])
  PROVE  Between(Append(log, Okay(<<p, i, 0>>)), errs, stored, e, p, i)
<1> DEFINE x == <<p, i, 0>>
           new == Append(log, Okay(x))
<1>1. x \in Issues /\ x \in Items /\ p \in Nat /\ i \in Nat /\ Content[p][i] \in Nat
  BY IssueIn, ContentType DEF Items
<1>2. /\ log \in Seq(Entry) /\ errs \in Seq(Items) /\ e \in Counts /\ x \in stored
      /\ Recorded(log, errs) /\ Durable(log, stored) /\ e.failed = Len(errs) /\ e.done > 0
  BY DEF Mid, Sums
<1>3. ASSUME NEW k \in DOMAIN log PROVE log[k].item # x /\ UpTo(log[k].item, p, i)
  <2>1. Amid(log[k].item, p, i, Content[p][i]) /\ log[k].item \in Nat \X Nat \X Nat
    BY <1>2, EntryItem DEF Mid
  <2>2. x[1] = p /\ x[2] = i /\ x[3] = 0
    OBVIOUS
  <2> HIDE DEF x
  <2> QED BY <1>1, <2>1, <2>2 DEF Amid, UpTo
<1>4. \A a \in AttachmentsOf(x) : \E h \in DOMAIN log : log[h].item = a
  <2>1. AttachmentsOf(x) = {<<p, i, b>> : b \in 1..Content[p][i]}
    BY DEF AttachmentsOf, AttachmentCount
  <2> QED BY <2>1 DEF Mid
<1>5. Recorded(new, errs) /\ Durable(new, stored) /\ new \in Seq(Entry)
  <2> HIDE DEF x
  <2> QED BY <1>1, <1>2, <1>3, <1>4, RecordOkay, DurableOkay, EntryType
<1>6. /\ DOMAIN new = (DOMAIN log) \cup {Len(log) + 1}
      /\ \A k \in DOMAIN log : new[k] = log[k]
      /\ new[Len(log) + 1].item = x /\ new[Len(log) + 1].ok
  BY <1>2 DEF Okay
<1>7. DoneIsOk(new, e)
  BY <1>2, <1>6 DEF DoneIsOk, Counts
<1>8. UpTo(x, p, i)
  BY <1>1 DEF UpTo
<1> HIDE DEF x, new
<1>9. \A k \in DOMAIN new : UpTo(new[k].item, p, i)
  BY <1>3, <1>6, <1>8
<1>10. Between(new, errs, stored, e, p, i)
  BY <1>2, <1>5, <1>7, <1>9 DEF Between, Sums
<1> QED BY <1>10 DEF x, new

\* A turn that ends amid the attachments of an issue, or closes it, keeps the books.
LEMMA MidGoes ==
  ASSUME NEW p \in DOMAIN Content, NEW i \in DOMAIN Content[p], NEW a \in 0..Content[p][i],
         NEW e, NEW log, NEW stored,
         Mid(log, errors', files', emitter', p, i, a), After(<<p, i, a>>, e, log, stored),
         total'.errors = Len(errors'), row \in RowType, ~Terminal
  PROVE  Books'
<1>1. Sums(log, errors', files', emitter') /\ a \in Nat /\ i \in Nat
  BY ContentType DEF Mid
<1>2. ASSUME NEW q \in {"download", "scan"}, NEW x, x[1] = p, x[2] = i,
             q = "download" => x[3] - 1 = a, q = "scan" => x[3] = a /\ a = Content[p][i],
             Await(q, x, e, TRUE), entries' = log
      PROVE  Books'
  <2>1. pc' = q /\ at' = x /\ row'.status = row.status
    BY <1>2, HeardRow DEF Await, Ticked
  <2>2. ~Terminal'
    BY <2>1 DEF Terminal
  <2>3. Mid(entries', errors', files', emitter', p, i, a)
    BY <1>2
  <2>4. q = "download" => Mid(entries', errors', files', emitter', x[1], x[2], x[3] - 1)
    BY <1>2, <2>3
  <2>5. q = "scan" => /\ Mid(entries', errors', files', emitter', x[1], x[2], x[3])
                     /\ x[3] = Content[x[1]][x[2]]
    BY <1>2, <2>3
  <2>6. Sums(entries', errors', files', emitter')
    BY <1>1, <1>2
  <2> QED BY <2>1, <2>2, <2>4, <2>5, <2>6 DEF Books
<1>3. CASE entries' = log /\ Await("download", <<p, i, a + 1>>, e, TRUE)
  <2> DEFINE x == <<p, i, a + 1>>
  <2>1. x[1] = p /\ x[2] = i /\ x[3] - 1 = a
    BY <1>1
  <2>2. entries' = log /\ Await("download", x, e, TRUE)
    BY <1>3
  <2> HIDE DEF x
  <2> QED BY <1>2, <2>1, <2>2
<1>4. CASE entries' = log /\ a = Content[p][i] /\ Await("scan", <<p, i, a>>, e, TRUE)
  BY <1>2, <1>4
<1>5. CASE /\ entries' = Append(log, Okay(<<p, i, 0>>)) /\ a = Content[p][i]
           /\ NextIssue(p, i, e, TRUE)
  <2>1. Between(entries', errors', files', emitter', p, i)
    BY <1>5, MidCloses
  <2> QED BY <1>1, <1>5, <2>1, BetweenGoes
<1> QED BY <1>3, <1>4, <1>5, AfterGoes

\* The books agree after an issue was captured.
LEMMA BooksCaptured == ASSUME TypeOK, Placed, Life, Books, Captured PROVE Books'
<1>1. pc = "fetch" /\ row \in RowType /\ ~Terminal
  BY DEF Captured, Awaiting, Life, Terminal, Active, Ended, TypeOK, RowType
<1>2. PICK p \in DOMAIN Content :
        \E i \in DOMAIN Content[p] : at = <<p, i, 0>> /\ at \in Issues /\ at \in Items
  BY <1>1, AtIssue
<1>3. PICK i \in DOMAIN Content[p] : at = <<p, i, 0>> /\ at \in Issues /\ at \in Items
  BY <1>2
<1>4. p \in Nat /\ i \in Nat /\ 0 \in 0..Content[p][i] /\ at[1] = p /\ at[2] = i
  BY <1>3, ContentType
<1> DEFINE e == [emitter EXCEPT !.done = @ + 1]
<1>5. /\ emitter' = e /\ After(at, e, entries, files) /\ files' = files \cup {at}
      /\ errors' = errors /\ total'.errors = total.errors
  BY DEF Captured, TypeOK
<1>6. Between(entries, errors, files, emitter, p, i - 1)
  BY <1>1, <1>4 DEF Books
<1>7. e \in Counts /\ e.done > 0 /\ e.failed = emitter.failed
  <2>1. emitter \in Counts
    BY DEF TypeOK, Counts
  <2>2. e \in Counts
    BY <2>1, CountType
  <2>3. e.done = emitter.done + 1 /\ e.failed = emitter.failed /\ emitter.done + 1 > 0
    BY <2>1, CountSteps
  <2> HIDE DEF e
  <2> QED BY <2>2, <2>3
<1>8. Sums(entries, errors', files', emitter')
  <2> HIDE DEF e
  <2> QED BY <1>5, <1>6, <1>7, DurableMore DEF Between, Sums
<1>9. ASSUME NEW k \in DOMAIN entries PROVE Amid(entries[k].item, p, i, 0)
  <2>1. UpTo(entries[k].item, p, i - 1) /\ entries[k].item \in Nat \X Nat \X Nat
    BY <1>6, EntryItem DEF Between, Sums
  <2> QED BY <1>4, <2>1 DEF UpTo, Amid
<1>10. Mid(entries, errors', files', emitter', p, i, 0)
  <2>1. <<p, i, 0>> \in files' /\ emitter'.done > 0
    BY <1>3, <1>5, <1>7
  <2> QED BY <1>8, <1>9, <2>1 DEF Mid
<1>11. total'.errors = Len(errors')
  BY <1>5 DEF Books
<1>12. After(<<p, i, 0>>, e, entries, files)
  BY <1>3, <1>5
<1> HIDE DEF e
<1> QED BY <1>1, <1>4, <1>10, <1>11, <1>12, MidGoes

\* And after it failed.
LEMMA BooksNotCaptured == ASSUME TypeOK, Placed, Life, Books, NotCaptured PROVE Books'
<1>1. pc = "fetch" /\ row \in RowType /\ ~Terminal
  BY DEF NotCaptured, Awaiting, Life, Terminal, Active, Ended, TypeOK, RowType
<1>2. PICK p \in DOMAIN Content :
        \E i \in DOMAIN Content[p] : at = <<p, i, 0>> /\ at \in Issues /\ at \in Items
  BY <1>1, AtIssue
<1>3. PICK i \in DOMAIN Content[p] : at = <<p, i, 0>> /\ at \in Issues /\ at \in Items
  BY <1>2
<1>4. p \in Nat /\ i \in Nat /\ at[1] = p /\ at[2] = i
  BY <1>3, ContentType
<1> DEFINE e == [emitter EXCEPT !.failed = @ + 1]
<1>5. /\ emitter' = e /\ NextIssue(p, i, e, TRUE) /\ files' = files
      /\ entries' = Append(entries, Failed(at)) /\ errors' = Append(errors, at)
      /\ total'.errors = total.errors + 1
  BY <1>4 DEF NotCaptured, WithError, TypeOK
<1>6. Between(entries, errors, files, emitter, p, i - 1)
  BY <1>1, <1>4 DEF Books
<1>7. e \in Counts /\ e.done = emitter.done /\ e.failed = emitter.failed + 1
  <2>1. emitter \in Counts
    BY DEF TypeOK, Counts
  <2> QED BY <2>1, CountType, CountSteps
<1>8. /\ entries \in Seq(Entry) /\ errors \in Seq(Items) /\ emitter.failed = Len(errors)
      /\ Recorded(entries, errors) /\ Durable(entries, files) /\ DoneIsOk(entries, emitter)
  BY <1>6 DEF Between, Sums
<1>9. ASSUME NEW k \in DOMAIN entries
      PROVE  entries[k].item # at /\ UpTo(entries[k].item, p, i)
  <2>1. UpTo(entries[k].item, p, i - 1) /\ entries[k].item \in Nat \X Nat \X Nat
    BY <1>6, EntryItem DEF Between, Sums
  <2> QED BY <1>4, <2>1 DEF UpTo
<1>10. Recorded(entries', errors') /\ Durable(entries', files')
  BY <1>3, <1>5, <1>8, <1>9, RecordFailed, DurableFailed
<1>11. entries' \in Seq(Entry) /\ errors' \in Seq(Items) /\ Len(errors') = Len(errors) + 1
  BY <1>3, <1>5, <1>8, EntryType
<1>12. Sums(entries', errors', files', emitter')
  <2> HIDE DEF e
  <2> QED BY <1>5, <1>7, <1>8, <1>10, <1>11 DEF Sums
<1>13. /\ DOMAIN entries' = (DOMAIN entries) \cup {Len(entries) + 1}
       /\ \A k \in DOMAIN entries : entries'[k] = entries[k]
       /\ entries'[Len(entries) + 1].item = at /\ ~entries'[Len(entries) + 1].ok
  BY <1>5, <1>8 DEF Failed
<1>14. \A k \in DOMAIN entries' : UpTo(entries'[k].item, p, i)
  <2>1. UpTo(at, p, i)
    BY <1>4 DEF UpTo
  <2> QED BY <1>9, <1>13, <2>1
<1>15. DoneIsOk(entries', emitter')
  <2> HIDE DEF e
  <2> QED BY <1>5, <1>7, <1>8, <1>13 DEF DoneIsOk
<1>16. Between(entries', errors', files', emitter', p, i)
  BY <1>12, <1>14, <1>15 DEF Between
<1>17. total'.errors = Len(errors')
  BY <1>5, <1>11 DEF Books
<1> HIDE DEF e
<1> QED BY <1>1, <1>4, <1>5, <1>16, <1>17, BetweenGoes

\* What both ends of a download find.
LEMMA AtDownload ==
  ASSUME TypeOK, Placed, Life, Books, pc = "download"
  PROVE  /\ row \in RowType /\ ~Terminal
         /\ \E p \in DOMAIN Content : \E i \in DOMAIN Content[p] : \E a \in 1..Content[p][i] :
              /\ at = <<p, i, a>> /\ at \in Items /\ at \notin Issues
              /\ Mid(entries, errors, files, emitter, p, i, a - 1)
              /\ \A k \in DOMAIN entries : entries[k].item # at
<1>1. row \in RowType /\ ~Terminal
  BY DEF Awaiting, Life, Terminal, Active, Ended, TypeOK, RowType
<1>2. PICK p \in DOMAIN Content :
        \E i \in DOMAIN Content[p] : \E a \in 1..Content[p][i] : at = <<p, i, a>> /\ at \in Items
  BY AtAttachment
<1>3. PICK i \in DOMAIN Content[p] : \E a \in 1..Content[p][i] : at = <<p, i, a>> /\ at \in Items
  BY <1>2
<1>4. PICK a \in 1..Content[p][i] : at = <<p, i, a>> /\ at \in Items
  BY <1>3
<1>5. p \in Nat /\ i \in Nat /\ a \in Nat \ {0} /\ at[1] = p /\ at[2] = i /\ at[3] = a
  BY <1>4, ContentType
<1>6. Mid(entries, errors, files, emitter, p, i, a - 1)
  BY <1>5 DEF Books
<1>7. ASSUME NEW k \in DOMAIN entries PROVE entries[k].item # at
  <2>1. Amid(entries[k].item, p, i, a - 1) /\ entries[k].item \in Nat \X Nat \X Nat
    BY <1>6, EntryItem DEF Mid, Sums
  <2> QED BY <1>5, <2>1 DEF Amid
<1>8. at \notin Issues
  <2>1. \A x \in Issues : x[3] = 0
    BY IssueShape
  <2> QED BY <1>5, <2>1
<1> QED BY <1>1, <1>4, <1>6, <1>7, <1>8

\* An attachment is entered, as ok or as an error.
LEMMA MidEnters ==
  ASSUME NEW p \in Nat, NEW i \in Nat, NEW a \in Nat \ {0}, <<p, i, a>> \in Items,
         <<p, i, a>> \notin Issues,
         NEW log, NEW errs, NEW stored, NEW e, Mid(log, errs, stored, e, p, i, a - 1),
         \A k \in DOMAIN log : log[k].item # <<p, i, a>>,
         NEW f \in Counts, f.done > 0
  PROVE  /\ f.failed = e.failed =>
              Mid(Append(log, Okay(<<p, i, a>>)), errs, stored \cup {<<p, i, a>>}, f, p, i, a)
         /\ f.failed = e.failed + 1 =>
              Mid(Append(log, Failed(<<p, i, a>>)), Append(errs, <<p, i, a>>), stored, f, p, i, a)
<1> DEFINE x == <<p, i, a>>
           good == Append(log, Okay(x))
           bad == Append(log, Failed(x))
           more == stored \cup {x}
<1>1. /\ log \in Seq(Entry) /\ errs \in Seq(Items) /\ e \in Counts /\ <<p, i, 0>> \in stored
      /\ Recorded(log, errs) /\ Durable(log, stored) /\ e.failed = Len(errs)
  BY DEF Mid, Sums
<1>2. /\ DOMAIN good = (DOMAIN log) \cup {Len(log) + 1}
      /\ \A k \in DOMAIN log : good[k] = log[k]
      /\ good[Len(log) + 1].item = x
  BY <1>1 DEF Okay
<1>3. /\ DOMAIN bad = (DOMAIN log) \cup {Len(log) + 1}
      /\ \A k \in DOMAIN log : bad[k] = log[k]
      /\ bad[Len(log) + 1].item = x
  BY <1>1 DEF Failed
<1>4. /\ good \in Seq(Entry) /\ bad \in Seq(Entry)
      /\ Append(errs, x) \in Seq(Items) /\ Len(Append(errs, x)) = Len(errs) + 1
  <2> HIDE DEF x
  <2>1. x \in Items
    BY DEF x
  <2> QED BY <1>1, <2>1, EntryType
<1>5. Recorded(good, errs) /\ Recorded(bad, Append(errs, x))
  BY <1>1, RecordOkay, RecordFailed
<1>6. Durable(good, more) /\ Durable(bad, stored)
  <2>1. Durable(log, more) /\ x \in more
    BY <1>1, DurableMore
  <2> QED BY <1>1, <2>1, DurableOkay, DurableFailed
<1>7. x[1] = p /\ x[2] = i /\ x[3] = a
  OBVIOUS
<1>8. \A k \in DOMAIN log : Amid(log[k].item, p, i, a)
  <2>1. ASSUME NEW k \in DOMAIN log PROVE Amid(log[k].item, p, i, a)
    <3>1. Amid(log[k].item, p, i, a - 1) /\ log[k].item \in Nat \X Nat \X Nat
      BY <1>1, EntryItem DEF Mid
    <3> QED BY <3>1 DEF Amid
  <2> QED BY <2>1
<1>9. ASSUME NEW new, DOMAIN new = (DOMAIN log) \cup {Len(log) + 1},
             \A k \in DOMAIN log : new[k] = log[k], new[Len(log) + 1].item = x
      PROVE  /\ \A k \in DOMAIN new : Amid(new[k].item, p, i, a)
             /\ \A b \in 1..a : \E h \in DOMAIN new : new[h].item = <<p, i, b>>
  <2>1. Amid(x, p, i, a)
    BY <1>7 DEF Amid
  <2>2. \A b \in 1..(a - 1) : \E h \in DOMAIN log : log[h].item = <<p, i, b>>
    BY DEF Mid
  <2>3. ASSUME NEW b \in 1..a PROVE \E h \in DOMAIN new : new[h].item = <<p, i, b>>
    <3>1. CASE b = a
      BY <1>9, <3>1
    <3>2. CASE b # a
      <4>1. b \in 1..(a - 1)
        BY <3>2
      <4> QED BY <1>9, <2>2, <4>1
    <3> QED BY <3>1, <3>2
  <2> HIDE DEF x
  <2> QED BY <1>8, <1>9, <2>1, <2>3
<1>10. <<p, i, 0>> \in more
  BY <1>1
<1> HIDE DEF x, good, bad, more
<1>11. f.failed = e.failed => Mid(good, errs, more, f, p, i, a)
  BY <1>1, <1>2, <1>4, <1>5, <1>6, <1>9, <1>10 DEF Mid, Sums
<1>12. f.failed = e.failed + 1 => Mid(bad, Append(errs, x), stored, f, p, i, a)
  BY <1>1, <1>3, <1>4, <1>5, <1>6, <1>9 DEF Mid, Sums
<1> QED BY <1>11, <1>12 DEF x, good, bad, more

\* The books agree after a download.
LEMMA BooksDownloaded == ASSUME TypeOK, Placed, Life, Books, Downloaded PROVE Books'
<1>1. pc = "download"
  BY DEF Downloaded
<1>2. PICK p \in DOMAIN Content :
        \E i \in DOMAIN Content[p] : \E a \in 1..Content[p][i] :
          /\ at = <<p, i, a>> /\ at \in Items /\ at \notin Issues
          /\ Mid(entries, errors, files, emitter, p, i, a - 1)
          /\ \A k \in DOMAIN entries : entries[k].item # at
  BY <1>1, AtDownload
<1>3. PICK i \in DOMAIN Content[p] :
        \E a \in 1..Content[p][i] :
          /\ at = <<p, i, a>> /\ at \in Items /\ at \notin Issues
          /\ Mid(entries, errors, files, emitter, p, i, a - 1)
          /\ \A k \in DOMAIN entries : entries[k].item # at
  BY <1>2
<1>4. PICK a \in 1..Content[p][i] :
        /\ at = <<p, i, a>> /\ at \in Items /\ at \notin Issues
        /\ Mid(entries, errors, files, emitter, p, i, a - 1)
        /\ \A k \in DOMAIN entries : entries[k].item # at
  BY <1>3
<1>5. p \in Nat /\ i \in Nat /\ a \in Nat \ {0} /\ a \in 0..Content[p][i]
  BY <1>4, ContentType
<1> DEFINE e == [emitter EXCEPT !.done = @ + 1]
<1>6. /\ emitter' = e /\ After(at, e, Append(entries, Okay(at)), files \cup {at})
      /\ files' = files \cup {at} /\ errors' = errors /\ total' = total
  BY DEF Downloaded
<1>7. e \in Counts /\ e.done > 0 /\ e.failed = emitter.failed
  <2>1. emitter \in Counts
    BY DEF TypeOK, Counts
  <2>2. e \in Counts
    BY <2>1, CountType
  <2>3. e.done = emitter.done + 1 /\ e.failed = emitter.failed /\ emitter.done + 1 > 0
    BY <2>1, CountSteps
  <2> HIDE DEF e
  <2> QED BY <2>2, <2>3
<1> HIDE DEF e
<1>8. Mid(Append(entries, Okay(at)), errors', files', emitter', p, i, a)
  BY <1>4, <1>5, <1>6, <1>7, MidEnters
<1>9. total'.errors = Len(errors')
  BY <1>6 DEF Books
<1>10. After(<<p, i, a>>, e, Append(entries, Okay(at)), files \cup {at})
  BY <1>4, <1>6
<1> QED BY <1>1, <1>5, <1>8, <1>9, <1>10, AtDownload, MidGoes

\* And after a download failed.
LEMMA BooksNotDownloaded == ASSUME TypeOK, Placed, Life, Books, NotDownloaded PROVE Books'
<1>1. pc = "download"
  BY DEF NotDownloaded
<1>2. PICK p \in DOMAIN Content :
        \E i \in DOMAIN Content[p] : \E a \in 1..Content[p][i] :
          /\ at = <<p, i, a>> /\ at \in Items /\ at \notin Issues
          /\ Mid(entries, errors, files, emitter, p, i, a - 1)
          /\ \A k \in DOMAIN entries : entries[k].item # at
  BY <1>1, AtDownload
<1>3. PICK i \in DOMAIN Content[p] :
        \E a \in 1..Content[p][i] :
          /\ at = <<p, i, a>> /\ at \in Items /\ at \notin Issues
          /\ Mid(entries, errors, files, emitter, p, i, a - 1)
          /\ \A k \in DOMAIN entries : entries[k].item # at
  BY <1>2
<1>4. PICK a \in 1..Content[p][i] :
        /\ at = <<p, i, a>> /\ at \in Items /\ at \notin Issues
        /\ Mid(entries, errors, files, emitter, p, i, a - 1)
        /\ \A k \in DOMAIN entries : entries[k].item # at
  BY <1>3
<1>5. p \in Nat /\ i \in Nat /\ a \in Nat \ {0} /\ a \in 0..Content[p][i]
  BY <1>4, ContentType
<1> DEFINE f == [emitter EXCEPT !.failed = @ + 1]
           g == [f EXCEPT !.done = @ + 1]
<1>6. /\ emitter' = g /\ After(at, f, Append(entries, Failed(at)), files)
      /\ files' = files /\ errors' = Append(errors, at) /\ total'.errors = total.errors + 1
  BY DEF NotDownloaded, WithError, TypeOK
<1>7. g \in Counts /\ g.done > 0 /\ g.failed = emitter.failed + 1
  <2>1. emitter \in Counts
    BY DEF TypeOK, Counts
  <2>2. f \in Counts
    BY <2>1, CountType
  <2>3. f.failed = emitter.failed + 1
    BY <2>1, CountSteps
  <2> HIDE DEF f
  <2>4. g \in Counts
    BY <2>2, CountType
  <2>5. g.done = f.done + 1 /\ g.failed = f.failed /\ f.done + 1 > 0
    BY <2>2, CountSteps
  <2> HIDE DEF g
  <2> QED BY <2>3, <2>4, <2>5
<1> HIDE DEF f, g
<1>8. Mid(Append(entries, Failed(at)), errors', files', emitter', p, i, a)
  BY <1>4, <1>5, <1>6, <1>7, MidEnters
<1>9. total'.errors = Len(errors')
  BY <1>4, <1>6 DEF Books, Sums
<1>10. After(<<p, i, a>>, f, Append(entries, Failed(at)), files)
  BY <1>4, <1>6
<1> QED BY <1>1, <1>5, <1>8, <1>9, <1>10, AtDownload, MidGoes

\* The books agree after a clean scan.
LEMMA BooksScanned == ASSUME TypeOK, Placed, Life, Books, Scanned PROVE Books'
<1>1. pc = "scan" /\ row \in RowType /\ ~Terminal
  BY DEF Scanned, Awaiting, Life, Terminal, Active, Ended, TypeOK, RowType
<1>2. PICK p \in DOMAIN Content :
        \E i \in DOMAIN Content[p] : \E a \in 1..Content[p][i] :
          at = <<p, i, a>> /\ <<p, i, 0>> \in Issues /\ IssueOf(at) = <<p, i, 0>>
  BY <1>1, AtAttachment
<1>3. PICK i \in DOMAIN Content[p] :
        \E a \in 1..Content[p][i] :
          at = <<p, i, a>> /\ <<p, i, 0>> \in Issues /\ IssueOf(at) = <<p, i, 0>>
  BY <1>2
<1>4. PICK a \in 1..Content[p][i] : at = <<p, i, a>> /\ IssueOf(at) = <<p, i, 0>>
  BY <1>3
<1>5. p \in Nat /\ i \in Nat /\ at[1] = p /\ at[2] = i /\ at[3] = a
  BY <1>4, ContentType
<1>6. Mid(entries, errors, files, emitter, p, i, a) /\ a = Content[p][i]
  BY <1>1, <1>5 DEF Books
<1>7. /\ entries' = Append(entries, Okay(<<p, i, 0>>))
      /\ UNCHANGED <<errors, files, total, emitter>>
      /\ NextIssue(p, i, emitter, FALSE)
  BY <1>4, <1>5 DEF Scanned
<1>8. Between(Append(entries, Okay(<<p, i, 0>>)), errors, files, emitter, p, i)
  BY <1>6, MidCloses
<1>9. Between(entries', errors', files', emitter', p, i)
  BY <1>7, <1>8
<1>10. total'.errors = Len(errors')
  BY <1>7 DEF Books
<1> QED BY <1>1, <1>5, <1>7, <1>9, <1>10, BetweenGoes

\* And after a scan that found something.
LEMMA BooksFound == ASSUME TypeOK, Placed, Life, Books, Found PROVE Books'
<1>1. pc = "search" /\ row \in RowType /\ ~Terminal
  BY DEF Found, Awaiting, Life, Terminal, Active, Ended, TypeOK, RowType
<1>2. PICK p \in DOMAIN Content : at = <<p, 0, 0>>
  BY <1>1 DEF Placed, Place, Awaiting
<1>3. /\ UNCHANGED <<entries, errors, files, total, emitter>>
      /\ NextIssue(p, 0, emitter, FALSE)
  BY <1>2 DEF Found, diskVars
<1>4. Between(entries', errors', files', emitter', p, 0)
  BY <1>1, <1>2, <1>3 DEF Books
<1>5. total'.errors = Len(errors')
  BY <1>3 DEF Books
<1> QED BY <1>1, <1>3, <1>4, <1>5, BetweenGoes

\* A step that writes nothing to the books, and changes neither the verdict nor what
\* the run awaits, unless it ends without one.
LEMMA BooksFrame ==
  ASSUME Books, UNCHANGED <<entries, errors, files, emitter, total>>,
         \/ UNCHANGED <<pc, at>>
         \/ pc' \notin Awaiting \cup {"idle"},
         \/ Terminal' => Terminal /\ row'.failed = row.failed /\ row'.status = row.status
  PROVE  Books'
BY DEF Books, Awaiting

\* Every step keeps the books.
LEMMA BooksStep == TypeOK /\ Placed /\ RowInv /\ Books /\ [Next]_vars => Books'
<1> SUFFICES ASSUME TypeOK, Placed, RowInv, Books, [Next]_vars PROVE Books'
  OBVIOUS
<1>0. Life /\ row \in RowType
  BY DEF RowInv, TypeOK, RowType
<1>1. CASE Start
  <2>1. /\ pc = "idle" /\ entries = <<>> /\ emitter.done = 0 /\ ~Terminal
        /\ UNCHANGED <<entries, errors, files, emitter, total>>
        /\ Sums(entries, errors, files, emitter) /\ total.errors = Len(errors)
    BY <1>0, <1>1 DEF Start, Books, Life, Terminal, Ended, diskVars
  <2>2. Between(entries, errors, files, emitter, 1, 0)
    <3>1. DOMAIN entries = {}
      BY <2>1
    <3> QED BY <2>1, <3>1 DEF Between, DoneIsOk
  <2>3. CASE Content = <<>>
    <3>1. /\ pc' = "returned" /\ row'.status = Verdict(emitter') /\ row'.failed = emitter'.failed
      BY <1>1, <2>3 DEF Start, Return, Complete
    <3>2. Honest(row'.status, entries') /\ row'.failed = Len(errors')
      BY <2>1, <2>2, <3>1, VerdictTells DEF Sums
    <3> QED BY <2>1, <3>1, <3>2 DEF Books
  <2>4. CASE Content # <<>>
    <3>1. pc' = "search" /\ at' = <<1, 0, 0>> /\ row' = Created
      BY <1>1, <2>4 DEF Start
    <3>2. ~Terminal'
      BY <1>0, <2>1, <3>1 DEF Created, Terminal, Ended, RowType
    <3> QED BY <2>1, <2>2, <3>1, <3>2 DEF Books
  <2> QED BY <2>3, <2>4
<1>2. CASE Work
  <2>1. CASE SearchRejected
    BY <2>1, BooksFrame DEF SearchRejected, diskVars, Awaiting, Terminal
  <2> QED BY <1>0, <1>2, <2>1, BooksFound, BooksCaptured, BooksNotCaptured, BooksDownloaded,
             BooksNotDownloaded, BooksScanned DEF Work
<1>3. CASE Beat
  <2>1. row'.status = row.status /\ ~Terminal
    BY <1>0, <1>3, HeardRow DEF Beat, Life, Terminal, Active, Ended
  <2> QED BY <1>3, <2>1, BooksFrame DEF Beat, diskVars, Terminal
<1>4. CASE Finalize
  BY <1>4, BooksFrame DEF Finalize, diskVars, Terminal
<1>5. CASE Check
  <2>1. UNCHANGED <<diskVars, pc, at, total, emitter>>
    BY <1>5 DEF Check
  <2>2. CASE row.status \in Active
    <3>1. row' = Flagged(TRUE) \/ row' = Flagged(FALSE)
      BY <1>5, <2>2 DEF Check
    <3>2. row'.status \in Active
      BY <1>0, <3>1 DEF Flagged, RowType, Active
    <3> QED BY <2>1, <3>2, BooksFrame DEF diskVars, Terminal, Active, Ended
  <2>3. CASE row.status \notin Active
    <3>1. row' = row
      BY <1>5, <2>3 DEF Check
    <3> QED BY <2>1, <3>1, BooksFrame DEF diskVars, Terminal
  <2> QED BY <2>2, <2>3
<1>6. CASE Subscribe
  BY <1>6, BooksFrame DEF Subscribe, diskVars, Terminal
<1>7. CASE Disconnect
  <2>1. UNCHANGED <<row, diskVars, pc, at, total, emitter>>
    BY <1>7 DEF Disconnect
  <2> QED BY <2>1, BooksFrame DEF diskVars, Terminal
<1>8. CASE Tick
  BY <1>8, BooksFrame DEF Tick, diskVars, Terminal
<1>9. CASE Crash
  BY <1>9, BooksFrame DEF Crash, diskVars, Terminal, Awaiting
<1>10. CASE Restart
  BY <1>10, BooksFrame DEF Restart, diskVars, Terminal
<1>11. CASE UNCHANGED vars
  BY <1>11, BooksFrame DEF vars, diskVars, Terminal
<1> QED
  BY <1>1, <1>2, <1>3, <1>4, <1>5, <1>6, <1>7, <1>8, <1>9, <1>10, <1>11 DEF Next

\* The books are empty before the run.
LEMMA BooksInit == Init => Books
<1> SUFFICES ASSUME Init PROVE Books
  OBVIOUS
<1>1. entries = <<>> /\ errors = <<>> /\ DOMAIN entries = {} /\ DOMAIN errors = {} /\ Len(errors) = 0
  BY DEF Init
<1>2. {k \in DOMAIN entries : ~entries[k].ok} = {}
  BY <1>1
<1>3. Recorded(entries, errors) /\ Durable(entries, files)
  BY <1>1, <1>2, FS_EmptySet DEF Recorded, Durable
<1>4. emitter \in Counts /\ emitter.failed = 0 /\ emitter.done = 0 /\ total.errors = 0
  BY DEF Init, Counts
<1>5. entries \in Seq(Entry) /\ errors \in Seq(Items)
  BY <1>1
<1>6. Sums(entries, errors, files, emitter)
  BY <1>1, <1>3, <1>4, <1>5 DEF Sums
<1>7. pc = "idle" /\ ~Terminal
  BY DEF Init, Terminal, Ended
<1> QED BY <1>1, <1>4, <1>6, <1>7 DEF Books

BookInv == TypeOK /\ Placed /\ RowInv /\ Books

\* What the books say of counts, verdict and disk.
LEMMA BooksTell == BookInv => BooksAgree /\ VerdictIsHonest /\ OkIsOnDisk
<1> SUFFICES ASSUME BookInv PROVE BooksAgree /\ VerdictIsHonest /\ OkIsOnDisk
  OBVIOUS
<1>0. /\ entries \in Seq(Entry) /\ errors \in Seq(Items) /\ Recorded(entries, errors)
      /\ emitter.failed = Len(errors) /\ total.errors = Len(errors)
      /\ Durable(entries, files)
  BY DEF BookInv, Books, Sums
<1>1. BooksAgree
  <2>1. Cardinality(ErrorEntries) = Len(errors)
    BY <1>0 DEF Recorded, ErrorEntries
  <2>2. ASSUME NEW x \in Items PROVE Cardinality(EntriesOf(x)) <= 1
    <3>1. CASE EntriesOf(x) = {}
      BY <3>1, FS_EmptySet
    <3>2. CASE EntriesOf(x) # {}
      <4>1. PICK k : k \in EntriesOf(x)
        BY <3>2
      <4>2. EntriesOf(x) = {k}
        BY <1>0, <4>1 DEF Recorded, EntriesOf
      <4>3. Cardinality({k}) = 1
        BY FS_Singleton
      <4> QED BY <4>2, <4>3
    <3> QED BY <3>1, <3>2
  <2>3. \A k \in DOMAIN errors : \E e \in ErrorEntries : entries[e].item = errors[k]
    BY <1>0 DEF Recorded, ErrorEntries
  <2>4. Terminal => JobSummary.failed = Len(JobSummary.errors)
    BY DEF BookInv, Books, JobSummary
  <2> QED BY <1>0, <2>1, <2>2, <2>3, <2>4 DEF BooksAgree
<1>2. VerdictIsHonest
  <2>1. /\ row.status \in Ended => Honest(row.status, entries)
        /\ row.status = "running" /\ up => pc \in Awaiting \cup {"rejected", "gone"}
    BY DEF BookInv, Books, RowInv, Life, Terminal, Ended, TypeOK, PC, Awaiting
  <2>2. \A k \in DOMAIN entries : k \in OkEntries <=> entries[k].ok
    BY DEF OkEntries
  <2>3. \A k \in DOMAIN entries : k \in ErrorEntries <=> ~entries[k].ok
    BY DEF ErrorEntries
  <2>4. OkEntries \subseteq DOMAIN entries /\ ErrorEntries \subseteq DOMAIN entries
    BY DEF OkEntries, ErrorEntries
  <2>5. row.status = "completed" => ErrorEntries = {}
    BY <2>1, <2>3, <2>4 DEF Honest, Ended
  <2>6. row.status = "failed" => OkEntries = {} /\ ErrorEntries # {}
    BY <2>1, <2>2, <2>3, <2>4 DEF Honest, Ended
  <2>7. row.status = "completed_with_errors" => OkEntries # {} /\ ErrorEntries # {}
    BY <2>1, <2>2, <2>3, <2>4 DEF Honest, Ended
  <2> QED BY <2>1, <2>5, <2>6, <2>7 DEF VerdictIsHonest
<1>3. OkIsOnDisk
  BY <1>0 DEF Durable, OkIsOnDisk, OkEntries, EntriesOf
<1> QED BY <1>1, <1>2, <1>3

\* The invariant of the run holds throughout.
LEMMA BookInvProved == Spec => []BookInv
<1>1. Init => BookInv
  BY BackupTypeInit, RowInit, BooksInit DEF BookInv
<1>2. BookInv /\ [Next]_vars => BookInv'
  BY BackupTypeStep, RowStep, BooksStep DEF BookInv
<1> QED BY <1>1, <1>2, PTL DEF Spec

\* The records of failure agree, and no item is entered twice: the manifest, the rows
\* of job_errors, the counts of the orchestrator and the emitter and, in the end, the
\* answer of GET /:jobId (captureIssue, downloadAttachment).
THEOREM BooksProved == Spec => []BooksAgree
BY BookInvProved, BooksTell, PTL

\* The verdict of the row tells what the manifest says, and still does after a restart
\* (HeartbeatEmitter.complete, JobStore.completeJob).
THEOREM VerdictProved == Spec => []VerdictIsHonest
BY BookInvProved, BooksTell, PTL

\* What an ok entry says was on disk before it, whenever the process dies
\* (captureIssue writes the payload, then the attachments, then the entry).
THEOREM DiskProved == Spec => []OkIsOnDisk
BY BookInvProved, BooksTell, PTL

-----------------------------------------------------------------------------
(* Nothing is left out                                                     *)

Entered(log, x) == \E k \in DOMAIN log : log[k].item = x
Bad(log, x) == \E k \in DOMAIN log : log[k].item = x /\ ~log[k].ok

\* The attachments of an issue that could not be captured are not looked at.
Orphanless(log) ==
  \A x \in Issues : Bad(log, x) => \A a \in AttachmentsOf(x) : ~Entered(log, a)

\* Every issue up to issue i of project p is entered.
Covered(log, p, i) == \A x \in Issues : UpTo(x, p, i) => Entered(log, x)

Whole ==
  /\ Orphanless(entries)
  /\ pc = "search" => Covered(entries, at[1], 0)
  /\ pc \in {"fetch", "download", "scan"} => Covered(entries, at[1], at[2] - 1)
  /\ Terminal => \A x \in Issues : Entered(entries, x)

\* A log that was only added to.
Grown(log, new) == DOMAIN log \subseteq DOMAIN new /\ \A k \in DOMAIN log : new[k] = log[k]

\* A log with one entry more has grown.
LEMMA Appended ==
  ASSUME NEW log \in Seq(Entry), NEW y
  PROVE  /\ DOMAIN Append(log, y) = (DOMAIN log) \cup {Len(log) + 1}
         /\ \A k \in DOMAIN log : Append(log, y)[k] = log[k]
         /\ Append(log, y)[Len(log) + 1] = y
         /\ Len(log) + 1 \notin DOMAIN log
         /\ Grown(log, Append(log, y))
BY DEF Grown

\* A log that grew twice has grown.
LEMMA GrownOn ==
  ASSUME NEW a, NEW b, NEW c, Grown(a, b), Grown(b, c)
  PROVE  Grown(a, c)
BY DEF Grown

\* A log that grew covers what it covered.
LEMMA CoveredOn ==
  ASSUME NEW log, NEW new, NEW p, NEW i, Grown(log, new), Covered(log, p, i)
  PROVE  Covered(new, p, i)
BY DEF Grown, Covered, Entered

\* Issues and attachments are told apart, and an attachment is of one issue.
LEMMA ItemKinds ==
  /\ \A x \in Issues : x \notin UNION {AttachmentsOf(y) : y \in Issues} /\ IssueOf(x) = x
  /\ \A x \in Issues : \A a \in AttachmentsOf(x) : IssueOf(a) = x /\ a \notin Issues
<1>1. \A x \in Issues : x[3] = 0 /\ IssueOf(x) = x
  BY IssueShape
<1>2. ASSUME NEW x \in Issues, NEW a \in AttachmentsOf(x) PROVE IssueOf(a) = x /\ a[3] # 0
  <2>1. PICK p \in DOMAIN Content : \E i \in DOMAIN Content[p] : \E b \in 1..Content[p][i] :
           a = <<p, i, b>> /\ IssueOf(a) = x
    BY AttachmentShape
  <2>2. PICK i \in DOMAIN Content[p] : \E b \in 1..Content[p][i] :
           a = <<p, i, b>> /\ IssueOf(a) = x
    BY <2>1
  <2>3. Content[p][i] \in Nat
    BY ContentType
  <2> QED BY <2>2, <2>3
<1> QED BY <1>1, <1>2

\* An ok entry makes no orphan unless it is of an attachment of a failed issue.
LEMMA OrphanOkay ==
  ASSUME NEW log \in Seq(Entry), Orphanless(log), NEW x,
         x \in Issues \/ ~Bad(log, IssueOf(x))
  PROVE  Orphanless(Append(log, Okay(x)))
<1> DEFINE new == Append(log, Okay(x))
<1>1. /\ DOMAIN new = (DOMAIN log) \cup {Len(log) + 1}
      /\ \A k \in DOMAIN log : new[k] = log[k]
      /\ new[Len(log) + 1].item = x /\ new[Len(log) + 1].ok
  BY Appended DEF Okay
<1> HIDE DEF new
<1>2. ASSUME NEW y \in Issues, Bad(new, y), NEW a \in AttachmentsOf(y) PROVE ~Entered(new, a)
  <2>1. Bad(log, y)
    BY <1>1, <1>2 DEF Bad
  <2>2. ~Entered(log, a)
    BY <1>2, <2>1 DEF Orphanless
  <2>3. a # x
    BY <1>2, <2>1, ItemKinds
  <2> QED BY <1>1, <2>2, <2>3 DEF Entered
<1>3. Orphanless(new)
  BY <1>2 DEF Orphanless
<1> QED BY <1>3 DEF new

\* An error makes none either, if the attachments of the issue are not entered.
LEMMA OrphanFailed ==
  ASSUME NEW log \in Seq(Entry), Orphanless(log), NEW x,
         x \in Issues => \A a \in AttachmentsOf(x) : ~Entered(log, a),
         x \notin Issues => ~Bad(log, IssueOf(x))
  PROVE  Orphanless(Append(log, Failed(x)))
<1> DEFINE new == Append(log, Failed(x))
<1>1. /\ DOMAIN new = (DOMAIN log) \cup {Len(log) + 1}
      /\ \A k \in DOMAIN log : new[k] = log[k]
      /\ new[Len(log) + 1].item = x
  BY Appended DEF Failed
<1> HIDE DEF new
<1>2. ASSUME NEW y \in Issues, Bad(new, y), NEW a \in AttachmentsOf(y) PROVE ~Entered(new, a)
  <2>1. CASE y = x
    <3>1. ~Entered(log, a) /\ a # x
      BY <2>1, ItemKinds
    <3> QED BY <1>1, <3>1 DEF Entered
  <2>2. CASE y # x
    <3>1. Bad(log, y)
      BY <1>1, <1>2, <2>2 DEF Bad
    <3>2. ~Entered(log, a)
      BY <1>2, <3>1 DEF Orphanless
    <3>3. a # x
      BY <3>1, ItemKinds
    <3> QED BY <1>1, <3>2, <3>3 DEF Entered
  <2> QED BY <2>1, <2>2
<1>3. Orphanless(new)
  BY <1>2 DEF Orphanless
<1> QED BY <1>3 DEF new

\* The issue that is entered extends what is covered.
LEMMA CoveredNext ==
  ASSUME NEW log \in Seq(Entry), NEW p \in Nat, NEW i \in Nat, Covered(log, p, i - 1),
         NEW y, y.item = <<p, i, 0>>
  PROVE  Covered(Append(log, y), p, i)
<1> DEFINE new == Append(log, y)
<1>0. Grown(log, new) /\ Len(log) + 1 \in DOMAIN new /\ new[Len(log) + 1] = y
  BY Appended
<1> HIDE DEF new
<1>1. Grown(log, new) /\ Entered(new, <<p, i, 0>>)
  BY <1>0 DEF Entered
<1>2. ASSUME NEW x \in Issues, UpTo(x, p, i) PROVE Entered(new, x)
  <2>1. x \in Nat \X Nat \X Nat /\ x[3] = 0
    BY IssueShape, ItemType DEF Items
  <2>2. CASE UpTo(x, p, i - 1)
    BY <1>1, <2>2, CoveredOn DEF Covered
  <2>3. CASE ~UpTo(x, p, i - 1)
    <3>1. x[1] = p /\ x[2] = i
      BY <1>2, <2>1, <2>3 DEF UpTo
    <3>2. x = <<p, i, 0>>
      BY <2>1, <3>1
    <3> QED BY <1>1, <3>2
  <2> QED BY <2>2, <2>3
<1>3. Covered(new, p, i)
  BY <1>2 DEF Covered
<1> QED BY <1>3 DEF new

-----------------------------------------------------------------------------
(* The turns                                                               *)

\* Where NextIssue goes, and from where.
LEMMA NextIssueFrom ==
  ASSUME NEW p \in DOMAIN Content, NEW i \in Nat, NEW e, NEW ticked, NextIssue(p, i, e, ticked)
  PROVE  \/ Await("fetch", <<p, i + 1, 0>>, e, ticked)
         \/ i >= Len(Content[p]) /\ Await("search", <<p + 1, 0, 0>>, e, ticked)
         \/ i >= Len(Content[p]) /\ p >= Len(Content) /\ Return
BY ContentType DEF NextIssue, NextProject

\* A turn that ends between two issues leaves nothing out.
LEMMA WholeBetween ==
  ASSUME NEW p \in DOMAIN Content, NEW i \in Nat, NEW e, NEW ticked,
         Orphanless(entries'), Covered(entries', p, i), NextIssue(p, i, e, ticked),
         row \in RowType, ~Terminal
  PROVE  Whole'
<1>0. p \in Nat /\ p \in 1..Len(Content) /\ Len(Content[p]) \in Nat
  BY ContentType
<1>1. ASSUME NEW x \in Issues
      PROVE  \E q \in DOMAIN Content : \E j \in DOMAIN Content[q] :
               x[1] = q /\ x[2] = j /\ q \in 1..Len(Content) /\ j \in 1..Len(Content[q])
  BY IssueShape, ContentType
<1>2. ASSUME i >= Len(Content[p]), NEW x \in Issues, x[1] <= p PROVE Entered(entries', x)
  <2>1. PICK q \in DOMAIN Content : \E j \in DOMAIN Content[q] :
               x[1] = q /\ x[2] = j /\ q \in 1..Len(Content) /\ j \in 1..Len(Content[q])
    BY <1>1
  <2>2. PICK j \in DOMAIN Content[q] :
               x[1] = q /\ x[2] = j /\ q \in 1..Len(Content) /\ j \in 1..Len(Content[q])
    BY <2>1
  <2>3. UpTo(x, p, i)
    BY <1>0, <1>2, <2>2 DEF UpTo
  <2> QED BY <2>3 DEF Covered
<1>3. CASE Await("fetch", <<p, i + 1, 0>>, e, ticked)
  <2>1. pc' = "fetch" /\ at' = <<p, i + 1, 0>> /\ row'.status = row.status
    BY <1>3, HeardRow DEF Await, Ticked
  <2>2. at'[1] = p /\ at'[2] - 1 = i
    BY <2>1
  <2>3. ~Terminal'
    BY <2>1 DEF Terminal
  <2> QED BY <2>1, <2>2, <2>3 DEF Whole
<1>4. CASE i >= Len(Content[p]) /\ Await("search", <<p + 1, 0, 0>>, e, ticked)
  <2>1. pc' = "search" /\ at' = <<p + 1, 0, 0>> /\ row'.status = row.status
    BY <1>4, HeardRow DEF Await, Ticked
  <2>2. at'[1] = p + 1
    BY <2>1
  <2>3. ASSUME NEW x \in Issues, UpTo(x, p + 1, 0) PROVE Entered(entries', x)
    <3>1. PICK q \in DOMAIN Content : \E j \in DOMAIN Content[q] :
               x[1] = q /\ x[2] = j /\ q \in 1..Len(Content) /\ j \in 1..Len(Content[q])
      BY <1>1
    <3>2. x[1] <= p
      BY <1>0, <2>3, <3>1 DEF UpTo
    <3> QED BY <1>2, <1>4, <3>2
  <2>4. ~Terminal'
    BY <2>1 DEF Terminal
  <2> QED BY <2>1, <2>2, <2>3, <2>4 DEF Whole, Covered
<1>5. CASE i >= Len(Content[p]) /\ p >= Len(Content) /\ Return
  <2>1. pc' = "returned"
    BY <1>5 DEF Return
  <2>2. ASSUME NEW x \in Issues PROVE Entered(entries', x)
    <3>1. x[1] <= p
      BY <1>0, <1>1, <1>5
    <3> QED BY <1>2, <1>5, <3>1
  <2> QED BY <2>1, <2>2 DEF Whole
<1> QED BY <1>3, <1>4, <1>5, NextIssueFrom

\* Nor does one that goes on with an issue, or closes it.
LEMMA WholeAfter ==
  ASSUME NEW p \in DOMAIN Content, NEW i \in DOMAIN Content[p], NEW a \in 0..Content[p][i],
         NEW e, NEW log \in Seq(Entry), NEW stored, After(<<p, i, a>>, e, log, stored),
         Orphanless(log), Covered(log, p, i - 1), row \in RowType, ~Terminal
  PROVE  Whole' /\ Grown(log, entries')
<1>0. p \in Nat /\ i \in Nat /\ Content[p][i] \in Nat /\ <<p, i, 0>> \in Issues
  BY ContentType, IssueIn
<1>1. ASSUME NEW q \in {"download", "scan"}, NEW x, x[1] = p, x[2] = i, entries' = log,
             Await(q, x, e, TRUE)
      PROVE  Whole' /\ Grown(log, entries')
  <2>1. pc' = q /\ at' = x /\ row'.status = row.status
    BY <1>1, HeardRow DEF Await, Ticked
  <2>2. ~Terminal'
    BY <2>1 DEF Terminal
  <2>3. Covered(entries', at'[1], at'[2] - 1)
    BY <1>1, <2>1
  <2> QED BY <1>1, <2>1, <2>2, <2>3 DEF Whole, Grown
<1>2. CASE entries' = log /\ Await("download", <<p, i, a + 1>>, e, TRUE)
  <2> DEFINE x == <<p, i, a + 1>>
  <2>1. x[1] = p /\ x[2] = i /\ Await("download", x, e, TRUE)
    BY <1>2
  <2> HIDE DEF x
  <2> QED BY <1>1, <1>2, <2>1
<1>3. CASE entries' = log /\ Await("scan", <<p, i, a>>, e, TRUE)
  <2> DEFINE x == <<p, i, a>>
  <2>1. x[1] = p /\ x[2] = i /\ Await("scan", x, e, TRUE)
    BY <1>3
  <2> HIDE DEF x
  <2> QED BY <1>1, <1>3, <2>1
<1>4. CASE entries' = Append(log, Okay(<<p, i, 0>>)) /\ NextIssue(p, i, e, TRUE)
  <2>1. Orphanless(entries')
    BY <1>0, <1>4, OrphanOkay
  <2>2. Covered(entries', p, i)
    BY <1>0, <1>4, CoveredNext DEF Okay
  <2>3. Grown(log, entries')
    BY <1>4, Appended
  <2> QED BY <1>0, <1>4, <2>1, <2>2, <2>3, WholeBetween
<1> QED BY <1>2, <1>3, <1>4, AfterGoes

\* Nothing is left out when an issue is captured.
LEMMA WholeCaptured ==
  ASSUME BookInv, Whole, Captured
  PROVE  Whole' /\ Grown(entries, entries')
<1>1. /\ pc = "fetch" /\ row \in RowType /\ ~Terminal /\ entries \in Seq(Entry) /\ Placed
  BY DEF Captured, Awaiting, BookInv, RowInv, Life, Terminal, Active, Ended, TypeOK, RowType
<1>2. PICK p \in DOMAIN Content :
        \E i \in DOMAIN Content[p] : at = <<p, i, 0>> /\ at \in Issues /\ at \in Items
  BY <1>1, AtIssue
<1>3. PICK i \in DOMAIN Content[p] : at = <<p, i, 0>> /\ at \in Issues /\ at \in Items
  BY <1>2
<1>4. p \in Nat /\ i \in Nat /\ 0 \in 0..Content[p][i] /\ at[1] = p /\ at[2] = i
  BY <1>3, ContentType
<1>5. After(<<p, i, 0>>, [emitter EXCEPT !.done = @ + 1], entries, files)
  BY <1>3 DEF Captured
<1>6. Orphanless(entries) /\ Covered(entries, p, i - 1)
  BY <1>1, <1>4 DEF Whole
<1> QED BY <1>1, <1>4, <1>5, <1>6, WholeAfter

\* Nor when it fails.
LEMMA WholeNotCaptured ==
  ASSUME BookInv, Whole, NotCaptured
  PROVE  Whole' /\ Grown(entries, entries')
<1>1. /\ pc = "fetch" /\ row \in RowType /\ ~Terminal /\ entries \in Seq(Entry) /\ Placed
  BY DEF NotCaptured, Awaiting, BookInv, RowInv, Life, Terminal, Active, Ended, TypeOK, RowType
<1>2. PICK p \in DOMAIN Content :
        \E i \in DOMAIN Content[p] : at = <<p, i, 0>> /\ at \in Issues /\ at \in Items
  BY <1>1, AtIssue
<1>3. PICK i \in DOMAIN Content[p] : at = <<p, i, 0>> /\ at \in Issues /\ at \in Items
  BY <1>2
<1>4. p \in Nat /\ i \in Nat /\ at[1] = p /\ at[2] = i
  BY <1>3, ContentType
<1>5. /\ entries' = Append(entries, Failed(at))
      /\ NextIssue(p, i, [emitter EXCEPT !.failed = @ + 1], TRUE)
  BY <1>4 DEF NotCaptured
<1>6. Orphanless(entries) /\ Covered(entries, p, i - 1)
  BY <1>1, <1>4 DEF Whole
<1>7. Between(entries, errors, files, emitter, p, i - 1)
  BY <1>1, <1>4 DEF BookInv, Books
<1>8. ASSUME NEW a \in AttachmentsOf(at) PROVE ~Entered(entries, a)
  <2>1. a[1] = p /\ a[2] = i
    BY <1>4 DEF AttachmentsOf
  <2>2. \A k \in DOMAIN entries : UpTo(entries[k].item, p, i - 1)
    BY <1>7 DEF Between
  <2> QED BY <1>4, <2>1, <2>2 DEF Entered, UpTo
<1>9. Orphanless(entries')
  BY <1>1, <1>3, <1>5, <1>6, <1>8, OrphanFailed
<1>10. Covered(entries', p, i)
  BY <1>1, <1>3, <1>4, <1>5, <1>6, CoveredNext DEF Failed
<1>11. Grown(entries, entries')
  BY <1>1, <1>5, Appended
<1> QED BY <1>1, <1>4, <1>5, <1>9, <1>10, <1>11, WholeBetween

\* Nothing is left out after a download.
LEMMA WholeDownloaded ==
  ASSUME BookInv, Whole, Downloaded
  PROVE  Whole' /\ Grown(entries, entries')
<1>1. pc = "download" /\ entries \in Seq(Entry) /\ TypeOK /\ Placed /\ Life /\ Books
  BY DEF Downloaded, BookInv, RowInv, TypeOK
<1>2. PICK p \in DOMAIN Content :
        \E i \in DOMAIN Content[p] : \E a \in 1..Content[p][i] :
          at = <<p, i, a>> /\ Mid(entries, errors, files, emitter, p, i, a - 1)
  BY <1>1, AtDownload
<1>3. PICK i \in DOMAIN Content[p] :
        \E a \in 1..Content[p][i] :
          at = <<p, i, a>> /\ Mid(entries, errors, files, emitter, p, i, a - 1)
  BY <1>2
<1>4. PICK a \in 1..Content[p][i] :
        at = <<p, i, a>> /\ Mid(entries, errors, files, emitter, p, i, a - 1)
  BY <1>3
<1>5. /\ p \in Nat /\ i \in Nat /\ a \in Nat \ {0} /\ a \in 0..Content[p][i]
      /\ at[1] = p /\ at[2] = i /\ IssueOf(at) = <<p, i, 0>> /\ row \in RowType /\ ~Terminal
  BY <1>1, <1>4, ContentType, AtDownload DEF IssueOf
<1> DEFINE log == Append(entries, Okay(at))
<1>6. PICK e, stored : After(<<p, i, a>>, e, log, stored)
  BY <1>4 DEF Downloaded
<1>7. Orphanless(entries) /\ Covered(entries, p, i - 1)
  BY <1>1, <1>5 DEF Whole
<1>8. ~Bad(entries, IssueOf(at)) /\ at \notin Issues /\ at \in Items
  <2>1. ASSUME NEW k \in DOMAIN entries PROVE entries[k].item # <<p, i, 0>>
    <3>1. Amid(entries[k].item, p, i, a - 1)
      BY <1>4 DEF Mid
    <3> QED BY <1>5, <3>1 DEF Amid
  <2> QED BY <1>1, <1>5, <2>1, AtDownload DEF Bad
<1>9. Orphanless(log)
  BY <1>1, <1>7, <1>8, OrphanOkay
<1>10. log \in Seq(Entry) /\ Grown(entries, log)
  BY <1>1, <1>8, EntryType, Appended
<1>11. Covered(log, p, i - 1)
  BY <1>7, <1>10, CoveredOn
<1> HIDE DEF log
<1>12. Whole' /\ Grown(log, entries')
  BY <1>5, <1>6, <1>9, <1>10, <1>11, WholeAfter
<1> QED BY <1>10, <1>12, GrownOn

\* Nor after one that failed.
LEMMA WholeNotDownloaded ==
  ASSUME BookInv, Whole, NotDownloaded
  PROVE  Whole' /\ Grown(entries, entries')
<1>1. pc = "download" /\ entries \in Seq(Entry) /\ TypeOK /\ Placed /\ Life /\ Books
  BY DEF NotDownloaded, BookInv, RowInv, TypeOK
<1>2. PICK p \in DOMAIN Content :
        \E i \in DOMAIN Content[p] : \E a \in 1..Content[p][i] :
          at = <<p, i, a>> /\ Mid(entries, errors, files, emitter, p, i, a - 1)
  BY <1>1, AtDownload
<1>3. PICK i \in DOMAIN Content[p] :
        \E a \in 1..Content[p][i] :
          at = <<p, i, a>> /\ Mid(entries, errors, files, emitter, p, i, a - 1)
  BY <1>2
<1>4. PICK a \in 1..Content[p][i] :
        at = <<p, i, a>> /\ Mid(entries, errors, files, emitter, p, i, a - 1)
  BY <1>3
<1>5. /\ p \in Nat /\ i \in Nat /\ a \in Nat \ {0} /\ a \in 0..Content[p][i]
      /\ at[1] = p /\ at[2] = i /\ IssueOf(at) = <<p, i, 0>> /\ row \in RowType /\ ~Terminal
  BY <1>1, <1>4, ContentType, AtDownload DEF IssueOf
<1> DEFINE log == Append(entries, Failed(at))
<1>6. PICK e, stored : After(<<p, i, a>>, e, log, stored)
  BY <1>4 DEF NotDownloaded
<1>7. Orphanless(entries) /\ Covered(entries, p, i - 1)
  BY <1>1, <1>5 DEF Whole
<1>8. ~Bad(entries, IssueOf(at)) /\ at \notin Issues /\ at \in Items
  <2>1. ASSUME NEW k \in DOMAIN entries PROVE entries[k].item # <<p, i, 0>>
    <3>1. Amid(entries[k].item, p, i, a - 1)
      BY <1>4 DEF Mid
    <3> QED BY <1>5, <3>1 DEF Amid
  <2> QED BY <1>1, <1>5, <2>1, AtDownload DEF Bad
<1>9. Orphanless(log)
  BY <1>1, <1>7, <1>8, OrphanFailed
<1>10. log \in Seq(Entry) /\ Grown(entries, log)
  BY <1>1, <1>8, EntryType, Appended
<1>11. Covered(log, p, i - 1)
  BY <1>7, <1>10, CoveredOn
<1> HIDE DEF log
<1>12. Whole' /\ Grown(log, entries')
  BY <1>5, <1>6, <1>9, <1>10, <1>11, WholeAfter
<1> QED BY <1>10, <1>12, GrownOn

\* Nothing is left out after a clean scan.
LEMMA WholeScanned ==
  ASSUME BookInv, Whole, Scanned
  PROVE  Whole' /\ Grown(entries, entries')
<1>1. /\ pc = "scan" /\ row \in RowType /\ ~Terminal /\ entries \in Seq(Entry) /\ Placed
  BY DEF Scanned, Awaiting, BookInv, RowInv, Life, Terminal, Active, Ended, TypeOK, RowType
<1>2. PICK p \in DOMAIN Content :
        \E i \in DOMAIN Content[p] : \E a \in 1..Content[p][i] :
          at = <<p, i, a>> /\ <<p, i, 0>> \in Issues /\ IssueOf(at) = <<p, i, 0>>
  BY <1>1, AtAttachment
<1>3. PICK i \in DOMAIN Content[p] :
        \E a \in 1..Content[p][i] :
          at = <<p, i, a>> /\ <<p, i, 0>> \in Issues /\ IssueOf(at) = <<p, i, 0>>
  BY <1>2
<1>4. /\ p \in Nat /\ i \in Nat /\ at[1] = p /\ at[2] = i
      /\ <<p, i, 0>> \in Issues /\ IssueOf(at) = <<p, i, 0>>
  BY <1>3, ContentType
<1>5. entries' = Append(entries, Okay(<<p, i, 0>>)) /\ NextIssue(p, i, emitter, FALSE)
  BY <1>4 DEF Scanned
<1>6. Orphanless(entries) /\ Covered(entries, p, i - 1)
  BY <1>1, <1>4 DEF Whole
<1>7. Orphanless(entries') /\ Grown(entries, entries')
  BY <1>1, <1>4, <1>5, <1>6, OrphanOkay, Appended
<1>8. Covered(entries', p, i)
  BY <1>1, <1>4, <1>5, <1>6, CoveredNext DEF Okay
<1> QED BY <1>1, <1>4, <1>5, <1>7, <1>8, WholeBetween

\* Nor after one that found something.
LEMMA WholeFound ==
  ASSUME BookInv, Whole, Found
  PROVE  Whole' /\ Grown(entries, entries')
<1>1. pc = "search" /\ row \in RowType /\ ~Terminal /\ Placed
  BY DEF Found, Awaiting, BookInv, RowInv, Life, Terminal, Active, Ended, TypeOK, RowType
<1>2. PICK p \in DOMAIN Content : at = <<p, 0, 0>>
  BY <1>1 DEF Placed, Place, Awaiting
<1>3. entries' = entries /\ NextIssue(p, 0, emitter, FALSE)
  BY <1>2 DEF Found, diskVars
<1>4. Orphanless(entries') /\ Covered(entries', p, 0) /\ Grown(entries, entries')
  BY <1>1, <1>2, <1>3 DEF Whole, Grown
<1> QED BY <1>1, <1>3, <1>4, WholeBetween

\* No turn of the run leaves anything out or takes an entry back.
LEMMA WholeWork ==
  ASSUME BookInv, Whole, Work
  PROVE  Whole' /\ Grown(entries, entries')
<1>1. CASE SearchRejected
  <2>1. pc' = "rejected" /\ entries' = entries /\ row' = row
    BY <1>1 DEF SearchRejected, diskVars
  <2> QED BY <2>1 DEF Whole, Grown, Terminal
<1> QED BY <1>1, WholeFound, WholeCaptured, WholeNotCaptured, WholeDownloaded, WholeNotDownloaded,
           WholeScanned DEF Work

\* The other steps enter nothing and, the start of a run apart, change neither its
\* place nor what the ledger says of its verdict.
LEMMA Aside ==
  ASSUME BookInv, \/ Beat \/ Finalize \/ Check \/ Subscribe \/ Disconnect
                  \/ Tick \/ Crash \/ Restart \/ UNCHANGED vars
  PROVE  /\ entries' = entries
         /\ UNCHANGED <<pc, at>> \/ pc' = "gone" \/ pc' = "idle"
         /\ row'.status = row.status \/ {row.status, row'.status} \subseteq Active
<1>1. row \in RowType
  BY DEF BookInv, TypeOK, RowType
<1>2. CASE Beat
  BY <1>1, <1>2, HeardRow DEF Beat, diskVars
<1>3. CASE Check
  <2>1. CASE row.status \in Active
    <3>1. row' = Flagged(TRUE) \/ row' = Flagged(FALSE)
      BY <1>3, <2>1 DEF Check
    <3>2. row'.status \in Active
      BY <1>1, <3>1 DEF Flagged, RowType, Active
    <3> QED BY <1>3, <2>1, <3>2 DEF Check, diskVars
  <2>2. CASE row.status \notin Active
    BY <1>3, <2>2 DEF Check, diskVars
  <2> QED BY <2>1, <2>2
<1>4. CASE Finalize \/ Subscribe \/ Disconnect \/ Tick \/ Restart \/ UNCHANGED vars
  BY <1>4 DEF Finalize, Subscribe, Disconnect, Tick, Restart, diskVars, vars
<1>5. CASE Crash
  BY <1>5 DEF Crash, diskVars
<1> QED BY <1>2, <1>3, <1>4, <1>5

\* No step does.
LEMMA WholeStep == BookInv /\ Whole /\ [Next]_vars => Whole'
<1> SUFFICES ASSUME BookInv, Whole, [Next]_vars PROVE Whole'
  OBVIOUS
<1>1. CASE Start
  <2>1. entries' = entries /\ entries = <<>> /\ pc = "idle" /\ row.status = "none" /\ row \in RowType
    BY <1>1 DEF Start, diskVars, BookInv, Books, RowInv, Life, TypeOK, RowType
  <2>2. DOMAIN entries' = {}
    BY <2>1
  <2>3. Orphanless(entries')
    BY <2>2 DEF Orphanless, Bad
  <2>4. CASE Content = <<>>
    <3>1. pc' = "returned"
      BY <1>1, <2>4 DEF Start, Return
    <3>2. Issues = {}
      BY <2>4 DEF Issues
    <3> QED BY <2>3, <3>1, <3>2 DEF Whole
  <2>5. CASE Content # <<>>
    <3>1. pc' = "search" /\ at' = <<1, 0, 0>> /\ row' = Created
      BY <1>1, <2>5 DEF Start
    <3>2. ~Terminal'
      BY <2>1, <3>1 DEF Created, Terminal, Ended, RowType
    <3>3. Covered(entries', 1, 0)
      <4>1. ASSUME NEW x \in Issues PROVE ~UpTo(x, 1, 0)
        <5>1. PICK q \in DOMAIN Content : \E j \in DOMAIN Content[q] : x = <<q, j, 0>>
          BY IssueShape
        <5>2. q \in 1..Len(Content) /\ x[1] = q /\ x[2] \in 1..Len(Content[q])
          BY <5>1, ContentType
        <5> QED BY <5>2, ContentType DEF UpTo
      <4> QED BY <4>1 DEF Covered
    <3> QED BY <2>3, <3>1, <3>2, <3>3 DEF Whole
  <2> QED BY <2>4, <2>5
<1>2. CASE Work
  BY <1>2, WholeWork
<1>3. CASE \/ Beat \/ Finalize \/ Check \/ Subscribe \/ Disconnect
           \/ Tick \/ Crash \/ Restart \/ UNCHANGED vars
  <2>1. /\ entries' = entries
        /\ UNCHANGED <<pc, at>> \/ pc' = "gone" \/ pc' = "idle"
        /\ row'.status = row.status \/ {row.status, row'.status} \subseteq Active
    BY <1>3, Aside
  <2>2. Terminal' => Terminal
    BY <2>1 DEF Terminal, Active, Ended
  <2> QED BY <2>1, <2>2 DEF Whole
<1> QED BY <1>1, <1>2, <1>3 DEF Next

\* Nothing is behind a run that has not begun.
LEMMA WholeInit == Init => Whole
<1> SUFFICES ASSUME Init PROVE Whole
  OBVIOUS
<1>1. DOMAIN entries = {} /\ pc = "idle" /\ ~Terminal
  BY DEF Init, Terminal, Ended
<1> QED BY <1>1 DEF Whole, Orphanless, Bad

-----------------------------------------------------------------------------
(* The ledger                                                              *)

\* The items of the ledger are those of the run.
LEMMA LedgerItems == Ledger!Items = Items
BY DEF Ledger!Items, Items

\* How the ledger is read off the entries.
Reads ==
  \A x \in Items :
    /\ Settled[x] = "open" <=> ~Entered(entries, x)
    /\ Settled[x] = "error" <=> Bad(entries, x)
    /\ Settled[x] = "ok" <=> \E k \in DOMAIN entries : entries[k].item = x /\ entries[k].ok
    /\ Settled[x] \in {"open", "ok", "error"}

\* The books say what the entries say: no item is entered twice.
LEMMA SettledSays == BookInv => Reads
<1> SUFFICES ASSUME BookInv, NEW x \in Items
             PROVE  /\ Settled[x] = "open" <=> ~Entered(entries, x)
                    /\ Settled[x] = "error" <=> Bad(entries, x)
                    /\ Settled[x] = "ok" <=>
                         \E k \in DOMAIN entries : entries[k].item = x /\ entries[k].ok
                    /\ Settled[x] \in {"open", "ok", "error"}
  BY DEF Reads
<1>1. \A j, k \in DOMAIN entries : entries[j].item = entries[k].item => j = k
  BY DEF BookInv, Books, Sums, Recorded
<1>2. EntriesOf(x) = {} <=> ~Entered(entries, x)
  BY DEF EntriesOf, Entered
<1>3. EntriesOf(x) \cap OkEntries # {} <=> \E k \in DOMAIN entries : entries[k].item = x /\ entries[k].ok
  BY DEF EntriesOf, OkEntries
<1>4. Bad(entries, x) <=> EntriesOf(x) # {} /\ EntriesOf(x) \cap OkEntries = {}
  BY <1>1 DEF Bad, EntriesOf, OkEntries
<1>5. Settled[x] = IF EntriesOf(x) = {} THEN "open"
                   ELSE IF EntriesOf(x) \cap OkEntries # {} THEN "ok" ELSE "error"
  BY DEF Settled
<1> QED BY <1>2, <1>3, <1>4, <1>5

\* The verdict of the row is the one the ledger calls for.
LEMMA SettledJudged ==
  ASSUME BookInv, Terminal
  PROVE  row.status = Ledger!Judgement(Settled)
<1>1. Honest(row.status, entries) /\ entries \in Seq(Entry)
  BY DEF BookInv, Books, Sums
<1>2. \A k \in DOMAIN entries : entries[k].item \in Items
  <2>1. \A k \in DOMAIN entries : entries[k] \in Entry
    BY <1>1
  <2> QED BY <2>1 DEF Entry
<1> USE SettledSays DEF Reads
<1>3. CASE row.status = "completed"
  <2>1. \A x \in Items : Settled[x] # "error"
    BY <1>1, <1>3 DEF Honest, Bad
  <2> QED BY <1>3, <2>1, LedgerItems DEF Ledger!Judgement
<1>4. CASE row.status = "failed"
  <2>1. PICK k \in DOMAIN entries : ~entries[k].ok
    BY <1>1, <1>4 DEF Honest
  <2>2. entries[k].item \in Items /\ Settled[entries[k].item] = "error"
    BY <1>2, <2>1 DEF Bad
  <2>3. \A x \in Items : Settled[x] # "ok"
    BY <1>1, <1>4 DEF Honest
  <2> QED BY <1>4, <2>2, <2>3, LedgerItems DEF Ledger!Judgement
<1>5. CASE row.status = "completed_with_errors"
  <2>1. PICK k \in DOMAIN entries : ~entries[k].ok
    BY <1>1, <1>5 DEF Honest
  <2>2. entries[k].item \in Items /\ Settled[entries[k].item] = "error"
    BY <1>2, <2>1 DEF Bad
  <2>3. PICK h \in DOMAIN entries : entries[h].ok
    BY <1>1, <1>5 DEF Honest
  <2>4. entries[h].item \in Items /\ Settled[entries[h].item] = "ok"
    BY <1>2, <2>3
  <2> QED BY <1>5, <2>2, <2>4, LedgerItems DEF Ledger!Judgement
<1> QED BY <1>3, <1>4, <1>5 DEF Terminal, Ended

\* When the run has returned, all is settled that is looked at.
LEMMA SettledAll ==
  ASSUME BookInv, Whole, Terminal
  PROVE  Ledger!AllSettled(Settled)
<1> USE SettledSays DEF Reads
<1>1. Durable(entries, files)
  BY DEF BookInv, Books, Sums
<1>2. ASSUME NEW x \in Issues
      PROVE  /\ Settled[x] # "open"
             /\ \A a \in AttachmentsOf(x) : Settled[a] = "open" <=> Settled[x] = "error"
  <2>1. x \in Items /\ AttachmentsOf(x) \subseteq Items
    BY DEF Items
  <2>2. Entered(entries, x)
    BY DEF Whole
  <2>3. Settled[x] # "open"
    BY <2>1, <2>2
  <2>4. CASE Settled[x] = "error"
    <3>1. \A a \in AttachmentsOf(x) : ~Entered(entries, a)
      BY <2>1, <2>4 DEF Whole, Orphanless
    <3> QED BY <2>1, <2>3, <2>4, <3>1
  <2>5. CASE Settled[x] = "ok"
    <3>1. PICK k \in DOMAIN entries : entries[k].item = x /\ entries[k].ok
      BY <2>1, <2>5
    <3>2. \A a \in AttachmentsOf(x) : Entered(entries, a)
      BY <1>1, <3>1 DEF Durable, Entered
    <3> QED BY <2>1, <2>3, <2>5, <3>2
  <2> QED BY <2>1, <2>3, <2>4, <2>5
<1>3. \A x \in Issues : [y \in Issues |-> AttachmentsOf(y)][x] = AttachmentsOf(x)
  OBVIOUS
<1> QED BY <1>2, <1>3 DEF Ledger!AllSettled

Closed ==
  Terminal => Ledger!AllSettled(Settled) /\ row.status = Ledger!Judgement(Settled)

\* A run that has ended has settled everything and judged it.
LEMMA SettledClosed == BookInv /\ Whole => Closed
BY SettledAll, SettledJudged DEF Closed

\* Initial states map to initial states.
LEMMA LedgerInit == Init => Ledger!Init
<1> SUFFICES ASSUME Init PROVE Ledger!Init
  OBVIOUS
<1>1. row.status = "none" /\ DOMAIN entries = {}
  BY DEF Init
<1>2. \A x \in Items : EntriesOf(x) = {}
  BY <1>1 DEF EntriesOf
<1>3. Settled = [x \in Items |-> "open"]
  BY <1>2 DEF Settled
<1> QED BY <1>1, <1>3, LedgerItems DEF Ledger!Init, Active

\* What the run enters, and its return, is a settlement.
LEMMA LedgerSettle ==
  ASSUME BookInv, BookInv', Whole', row.status \in Active, Grown(entries, entries'),
         row'.status \in Active \/ Terminal'
  PROVE  Ledger!Settle
<1>0. Reads /\ Reads' /\ Closed'
  BY SettledSays, SettledClosed, PTL
<1>1. Settled' \in [Items -> {"open", "ok", "error"}]
  BY DEF Settled
<1>2. ASSUME NEW x \in Items, Settled[x] # "open" PROVE Settled'[x] = Settled[x]
  <2>1. CASE Settled[x] = "ok"
    <3>1. \E k \in DOMAIN entries' : entries'[k].item = x /\ entries'[k].ok
      BY <1>0, <2>1 DEF Grown, Reads
    <3> QED BY <1>0, <2>1, <3>1 DEF Reads
  <2>2. CASE Settled[x] = "error"
    <3>1. Bad(entries', x)
      BY <1>0, <2>2 DEF Grown, Bad, Reads
    <3> QED BY <1>0, <2>2, <3>1 DEF Reads
  <2> QED BY <1>0, <1>2, <2>1, <2>2 DEF Reads
<1>3. CASE row'.status \in Active
  BY <1>1, <1>2, <1>3, LedgerItems DEF Ledger!Settle
<1>4. CASE Terminal'
  <2>1. row'.status \notin Active
    BY <1>4 DEF Terminal, Ended, Active
  <2>2. Ledger!AllSettled(Settled') /\ row'.status = Ledger!Judgement(Settled')
    BY <1>0, <1>4 DEF Closed
  <2> QED BY <1>1, <1>2, <2>1, <2>2, LedgerItems DEF Ledger!Settle
<1> QED BY <1>3, <1>4

\* A run begins, or finds nothing to do.
LEMMA LedgerBegins ==
  ASSUME BookInv, BookInv', Start
  PROVE  Ledger!Begin
<1>1. /\ entries' = entries /\ DOMAIN entries' = {} /\ row.status = "none" /\ row \in RowType
      /\ emitter' = emitter /\ emitter \in Counts
  BY DEF Start, diskVars, BookInv, Books, Sums, RowInv, Life, TypeOK, RowType
<1>2. Settled' = Settled
  BY <1>1 DEF Settled, EntriesOf, OkEntries
<1>3. CASE Content = <<>>
  <2>1. Issues = {}
    BY <1>3 DEF Issues
  <2>2. Terminal' /\ row'.status \in Ended
    BY <1>1, <1>3, CompleteRow DEF Start, Return
  <2>3. Honest(row'.status, entries')
    BY <2>2 DEF BookInv, Books
  <2>4. row'.status = "completed"
    BY <1>1, <2>2, <2>3 DEF Honest, Ended
  <2> QED BY <1>1, <1>2, <2>1, <2>4 DEF Ledger!Begin, Active
<1>4. CASE Content # <<>>
  <2>1. row' = Created
    BY <1>4 DEF Start
  <2>2. row'.status = "running"
    BY <1>1, <2>1 DEF Created, RowType
  <2> QED BY <1>1, <1>2, <2>2 DEF Ledger!Begin, Active
<1> QED BY <1>3, <1>4

\* Every step settles, begins, or is a stutter of the ledger.
LEMMA LedgerStep ==
  BookInv /\ Whole /\ BookInv' /\ Whole' /\ [Next]_vars => [Ledger!Next]_Ledger!vars
<1> SUFFICES ASSUME BookInv, Whole, BookInv', Whole', [Next]_vars
             PROVE  Ledger!Next \/ UNCHANGED Ledger!vars
  OBVIOUS
<1>1. CASE Start
  BY <1>1, LedgerBegins DEF Ledger!Next
<1>2. CASE Work
  <2>1. TypeOK /\ Placed /\ row.status \in Active
    <3>1. pc \in Awaiting
      BY <1>2 DEF Work, Found, SearchRejected, Captured, NotCaptured, Downloaded, NotDownloaded,
                  Scanned, Awaiting
    <3> QED BY <3>1 DEF BookInv, RowInv, Life
  <2>2. pc' # "idle" /\ row'.status # "none"
    <3>1. CASE pc' = "rejected" /\ row' = row
      BY <2>1, <3>1 DEF Active
    <3>2. ASSUME NEW e \in Counts, NEW ticked \in BOOLEAN, Turn(e, ticked)
          PROVE  pc' # "idle" /\ row'.status # "none"
      <4>1. CASE Return
        <5>1. row'.status = Verdict(emitter')
          BY <4>1 DEF Return, Complete
        <5> QED BY <4>1, <5>1 DEF Return, Verdict
      <4>2. ASSUME NEW q \in Awaiting, NEW x, Await(q, x, e, ticked)
            PROVE  pc' # "idle" /\ row'.status # "none"
        <5>1. pc' = q /\ row'.status = row.status
          BY <2>1, <4>2, HeardRow DEF Await, Ticked, TypeOK, RowType
        <5> QED BY <2>1, <5>1 DEF Awaiting, Active
      <4> QED BY <3>2, <4>1, <4>2 DEF Turn
    <3> QED BY <1>2, <2>1, <3>1, <3>2, WorkTurn
  <2>3. row'.status \in Active \/ Terminal'
    BY <2>2 DEF BookInv, TypeOK, Terminal
  <2>4. Grown(entries, entries')
    BY <1>2, WholeWork
  <2> QED BY <2>1, <2>3, <2>4, LedgerSettle DEF Ledger!Next
<1>3. CASE \/ Beat \/ Finalize \/ Check \/ Subscribe \/ Disconnect
           \/ Tick \/ Crash \/ Restart \/ UNCHANGED vars
  <2>1. /\ entries' = entries
        /\ row'.status = row.status \/ {row.status, row'.status} \subseteq Active
    BY <1>3, Aside
  <2>2. Settled' = Settled
    BY <2>1 DEF Settled, EntriesOf, OkEntries
  <2> QED BY <2>1, <2>2 DEF Ledger!vars
<1> QED BY <1>1, <1>2, <1>3 DEF Next

\* A backup run keeps the ledger it promises to whoever reads its point: every item is
\* settled once and for all, and the verdict is given once, when nothing is open, from
\* what was settled (IssueCaptureOrchestrator.run, HeartbeatEmitter.complete).
THEOREM LedgerKept == Spec => KeepsLedger
<1>1. Init => BookInv /\ Whole
  BY BackupTypeInit, RowInit, BooksInit, WholeInit DEF BookInv
<1>2. BookInv /\ Whole /\ [Next]_vars => BookInv' /\ Whole'
  BY BackupTypeStep, RowStep, BooksStep, WholeStep DEF BookInv
<1> QED BY <1>1, <1>2, LedgerInit, LedgerStep, PTL DEF Spec, KeepsLedger, Ledger!Spec
=============================================================================
