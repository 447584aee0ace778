------------------------ MODULE ContextCaptureProofs ------------------------
(* Proofs about ContextCapture, for any content of Jira, any edits, page    *)
(* sizes and fields: what is in the database when a request goes out, and   *)
(* what the validator accepts.                                              *)
EXTENDS ContextCapture, ListProofs, FiniteSetTheorems

-----------------------------------------------------------------------------
(* The invariant.                                                          *)

PlacesIn(p, n) == {k \in DOMAIN p.entries : p.entries[k].stage = n}

\* The sections of a manifest are the stages in their order, and each counts the entries
\* of its stage; no entry is of a stage that has no section.
Manifest(p) ==
  /\ p = Snapshot(p.status, p.sections, p.entries)
  /\ Listed(p.sections) /\ Listed(p.entries)
  /\ \A n \in DOMAIN p.sections : /\ p.sections[n].stage = n
                                  /\ p.sections[n].captured = Cardinality(PlacesIn(p, n))
  /\ \A k \in DOMAIN p.entries : p.entries[k].stage \in 1..Len(p.sections)

Flawed(p) == \E n \in DOMAIN p.sections : ~Consistent(p.sections[n])

\* The last section is that of a stage that failed.
CutShort(p) ==
  LET last == Len(p.sections)
  IN  last > 0 /\ p.sections[last].total = NoTotal /\ PlacesIn(p, last) = {}

\* How far the run has come, in its own variables and in the database.
Reached ==
  /\ pc \in PC /\ stage \in 0..LastStage
  /\ pc \in {"idle", "discovered", "rejected"} => stage = 0
  /\ stage = 0 => /\ point.sections = <<>> /\ point.status = "none" /\ got = <<>>
                  /\ ~halted /\ pc \notin {"returned", "finalised"}
  /\ pc = "page" /\ stage = 0 => todo = << <<"project", Site>> >>
  /\ pc = "page" /\ stage > 0 => Len(point.sections) = stage - 1 /\ ~halted
  /\ pc \in {"returned", "finalised"} => IF halted THEN CutShort(point)
                                         ELSE Len(point.sections) = LastStage

\* What the status says of the sections.
Verdict ==
  /\ broken <=> Flawed(point)
  /\ IF pc = "finalised" THEN point.status = FinalStatus(IF halted THEN "halted" ELSE "completed")
     ELSE \/ point.status \in {"none", "in_progress"}
          \/ point.status = "completed_with_errors" /\ broken

\* What is being read.
Reading ==
  /\ jira \in [DOMAIN Content -> Seq(Ids)] /\ cap \in Caps
  /\ cursor \in [items : Seq(Ids), total : Nat, pages : Nat]
  /\ Listed(got) /\ \A k \in DOMAIN got : got[k].stage = stage

CInv == Manifest(point) /\ Reached /\ Verdict /\ Reading

-----------------------------------------------------------------------------
(* Manifests.                                                              *)

\* The manifest after a stage: one section more, and its entries.
LEMMA AppendedManifest ==
  ASSUME NEW p, NEW s, NEW entries,
         Manifest(p), Listed(entries), Len(p.sections) \in Nat,
         s.stage = Len(p.sections) + 1, s.captured = Len(entries),
         \A k \in DOMAIN entries : entries[k].stage = Len(p.sections) + 1
  PROVE  LET q == Appended(p, s, entries)
         IN  /\ Manifest(q) /\ Len(q.sections) = Len(p.sections) + 1
             /\ q.sections[Len(q.sections)] = s
             /\ Flawed(q) <=> Flawed(p) \/ ~Consistent(s)
             /\ entries = <<>> => PlacesIn(q, Len(q.sections)) = {}
             /\ q.status = IF Consistent(s) THEN "in_progress" ELSE "completed_with_errors"
<1> DEFINE q == Appended(p, s, entries)
           a == Len(p.sections)
           b == Len(p.entries)
           c == Len(entries)
<1>1. /\ q.sections = Append(p.sections, s) /\ q.entries = p.entries \o entries
      /\ q.status = IF Consistent(s) THEN "in_progress" ELSE "completed_with_errors"
      /\ q = Snapshot(q.status, q.sections, q.entries)
  BY DEF Appended, Snapshot
<1>2. /\ Listed(q.sections) /\ Len(q.sections) = a + 1 /\ DOMAIN q.sections = 1..(a + 1)
      /\ DOMAIN p.sections = 1..a
      /\ \A i \in 1..(a + 1) : q.sections[i] = IF i <= a THEN p.sections[i] ELSE s
  BY <1>1, Appended1 DEF Manifest
<1>3. /\ Listed(q.entries) /\ b \in Nat /\ c \in Nat
      /\ DOMAIN p.entries = 1..b /\ DOMAIN entries = 1..c /\ DOMAIN q.entries = 1..(b + c)
      /\ \A i \in 1..(b + c) : q.entries[i] = IF i <= b THEN p.entries[i] ELSE entries[i - b]
  BY <1>1, Joined DEF Manifest
<1> HIDE DEF q, a, b, c
<1>4. a \in Nat
  BY DEF a
<1>5. /\ \A i \in 1..b : p.entries[i].stage \in 1..a
      /\ \A i \in 1..c : entries[i].stage = a + 1
  BY <1>3 DEF Manifest, a
<1>6. ASSUME NEW n \in 1..a PROVE PlacesIn(q, n) = PlacesIn(p, n)
  <2>1. ASSUME NEW i \in 1..(b + c), i > b PROVE q.entries[i].stage # n
    <3>1. i - b \in 1..c /\ q.entries[i] = entries[i - b]
      BY <1>3, <2>1
    <3>2. n # a + 1
      BY <1>4
    <3> QED BY <1>4, <1>5, <3>1, <3>2
  <2>2. \A i \in 1..(b + c) : i <= b => i \in 1..b /\ q.entries[i] = p.entries[i]
    BY <1>3
  <2>3. \A i \in 1..b : i \in 1..(b + c)
    BY <1>3
  <2> QED BY <1>3, <2>1, <2>2, <2>3 DEF PlacesIn
<1>7. PlacesIn(q, a + 1) = (b + 1)..(b + c)
  <2>1. \A i \in 1..b : p.entries[i].stage # a + 1
    BY <1>4, <1>5
  <2>2. \A i \in 1..(b + c) : i > b <=> i \in (b + 1)..(b + c)
    BY <1>3
  <2>3. \A i \in (b + 1)..(b + c) : i \in 1..(b + c) /\ i - b \in 1..c
    BY <1>3
  <2>4. ASSUME NEW i \in (b + 1)..(b + c) PROVE q.entries[i].stage = a + 1
    <3>1. i \in 1..(b + c) /\ i - b \in 1..c /\ ~(i <= b)
      BY <1>3, <2>3
    <3>2. q.entries[i] = entries[i - b]
      BY <1>3, <3>1
    <3> QED BY <1>4, <1>5, <3>1, <3>2
  <2>5. \A i \in 1..(b + c) : ~(i > b) => i \in 1..b /\ q.entries[i].stage # a + 1
    BY <1>3, <2>1
  <2> QED BY <1>3, <2>2, <2>3, <2>4, <2>5 DEF PlacesIn
<1>8. Cardinality((b + 1)..(b + c)) = c
  <2>1. b + 1 \in Int /\ b + c \in Int
    BY <1>3
  <2>2. Cardinality((b + 1)..(b + c)) = IF b + 1 > b + c THEN 0 ELSE (b + c) - (b + 1) + 1
    BY <2>1, FS_Interval
  <2> QED BY <1>3, <2>2
<1>9. \A n \in DOMAIN q.sections : /\ q.sections[n].stage = n
                                   /\ q.sections[n].captured = Cardinality(PlacesIn(q, n))
  BY <1>2, <1>4, <1>6, <1>7, <1>8 DEF Manifest, a, c
<1>10. \A k \in DOMAIN q.entries : q.entries[k].stage \in 1..Len(q.sections)
  <2>1. ASSUME NEW i \in 1..(b + c) PROVE q.entries[i].stage \in 1..(a + 1)
    <3>1. CASE i <= b
      <4>1. i \in 1..b /\ q.entries[i] = p.entries[i]
        BY <1>3, <3>1
      <4> QED BY <1>4, <1>5, <4>1
    <3>2. CASE ~(i <= b)
      <4>1. i - b \in 1..c /\ q.entries[i] = entries[i - b]
        BY <1>3, <3>2
      <4>2. entries[i - b].stage = a + 1
        BY <1>5, <4>1
      <4> QED BY <1>4, <4>1, <4>2
    <3> QED BY <3>1, <3>2
  <2> QED BY <1>2, <1>3, <2>1
<1>11. Manifest(q)
  BY <1>1, <1>2, <1>3, <1>9, <1>10 DEF Manifest
<1>12. Flawed(q) <=> Flawed(p) \/ ~Consistent(s)
  <2> DEFINE m == q.sections
  <2>1. /\ DOMAIN m = 1..(a + 1) /\ DOMAIN p.sections = 1..a
        /\ \A i \in 1..a : m[i] = p.sections[i]
        /\ m[a + 1] = s
    BY <1>2, <1>4
  <2> HIDE DEF m
  <2>2. (\E i \in DOMAIN m : ~Consistent(m[i]))
          <=> (\E i \in DOMAIN p.sections : ~Consistent(p.sections[i])) \/ ~Consistent(s)
    <3>1. 1..(a + 1) = (1..a) \cup {a + 1}
      BY <1>4
    <3> QED BY <2>1, <3>1
  <2> QED BY <2>2 DEF Flawed, m
<1>13. entries = <<>> => PlacesIn(q, a + 1) = {}
  BY <1>3, <1>7 DEF c
<1>14. q.sections[a + 1] = s
  BY <1>2, <1>4
<1> QED BY <1>1, <1>2, <1>11, <1>12, <1>13, <1>14 DEF q, a

\* The stages without lists add empty sections, which are consistent.
LEMMA WithoutListsManifest ==
  ASSUME NEW p, NEW n \in 1..LastStage, Manifest(p), Len(p.sections) = n
  PROVE  LET q == WithoutLists(p, n)
         IN  /\ Manifest(q) /\ Len(q.sections) = LastStage
             /\ Flawed(q) <=> Flawed(p)
             /\ q.status \in {p.status, "in_progress"}
<1> DEFINE q == WithoutLists(p, n)
           t == [k \in 1..(LastStage - n) |-> NothingRead(n + k)]
<1>1. CASE n = LastStage
  BY <1>1 DEF WithoutLists
<1>2. CASE n # LastStage
  <2>1. /\ Listed(t) /\ Len(t) = 7 - n /\ \A k \in 1..(7 - n) : t[k] = NothingRead(n + k)
        /\ n \in Nat /\ 7 - n \in Nat
    <3>1. n \in Nat /\ 7 - n \in Nat
      BY DEF LastStage
    <3>2. t = [k \in 1..(7 - n) |-> NothingRead(n + k)]
      BY DEF LastStage
    <3> DEFINE T == {NothingRead(n + k) : k \in 1..(7 - n)}
    <3>3. t \in [1..(7 - n) -> T] /\ \A k \in 1..(7 - n) : t[k] = NothingRead(n + k)
      BY <3>2
    <3> HIDE DEF t, T
    <3>4. t \in Seq(T) /\ Len(t) = 7 - n
      BY <3>1, <3>3
    <3> QED BY <3>1, <3>3, <3>4 DEF Listed
  <2>2. /\ q.sections = p.sections \o t /\ q.entries = p.entries /\ q.status = "in_progress"
        /\ q = Snapshot(q.status, q.sections, q.entries)
    BY <1>2 DEF WithoutLists, Manifest, Snapshot
  <2> HIDE DEF q, t
  <2>3. /\ Listed(q.sections) /\ Len(q.sections) = n + Len(t)
        /\ DOMAIN p.sections = 1..n /\ DOMAIN q.sections = 1..(n + Len(t))
        /\ \A i \in 1..(n + Len(t)) :
             q.sections[i] = IF i <= n THEN p.sections[i] ELSE t[i - n]
    <3>1. Listed(p.sections)
      BY DEF Manifest
    <3>2. /\ Listed(p.sections \o t) /\ Len(p.sections \o t) = n + Len(t)
          /\ DOMAIN p.sections = 1..n /\ DOMAIN (p.sections \o t) = 1..(n + Len(t))
          /\ \A i \in 1..(n + Len(t)) :
               (p.sections \o t)[i] = IF i <= n THEN p.sections[i] ELSE t[i - n]
      BY <2>1, <3>1, Joined
    <3> QED BY <2>2, <3>2
  <2>4. Len(q.sections) = 7 /\ DOMAIN q.sections = 1..7
    BY <2>1, <2>3
  <2>5. ASSUME NEW i \in 1..7, i > n PROVE q.sections[i] = NothingRead(i)
    <3>1. i - n \in 1..(7 - n) /\ i \in 1..(n + Len(t)) /\ n + (i - n) = i /\ ~(i <= n)
      BY <2>1, <2>5
    <3> QED BY <2>1, <2>3, <3>1
  <2>6. \A i \in 1..n : i \in 1..7 /\ q.sections[i] = p.sections[i]
    <3>1. \A i \in 1..n : i \in 1..7 /\ i \in 1..(n + Len(t)) /\ i <= n
      BY <2>1
    <3> QED BY <2>3, <3>1
  <2>7. \A i \in 1..7 : PlacesIn(q, i) = PlacesIn(p, i) /\ (i > n => PlacesIn(p, i) = {})
    <3>1. \A k \in DOMAIN p.entries : p.entries[k].stage \in 1..n
      BY DEF Manifest
    <3> QED BY <2>1, <2>2, <3>1 DEF PlacesIn
  <2>8. ASSUME NEW i \in 1..7
        PROVE  /\ q.sections[i].stage = i
               /\ q.sections[i].captured = Cardinality(PlacesIn(q, i))
    <3>1. CASE i > n
      <4>1. PlacesIn(q, i) = {} /\ q.sections[i] = NothingRead(i)
        BY <2>5, <2>7, <3>1
      <4>2. Cardinality({}) = 0
        BY FS_EmptySet
      <4> QED BY <4>1, <4>2 DEF NothingRead
    <3>2. CASE ~(i > n)
      <4>1. i \in 1..n
        BY <2>1, <3>2
      <4> QED BY <2>3, <2>6, <2>7, <4>1 DEF Manifest
    <3> QED BY <3>1, <3>2
  <2>9. \A k \in DOMAIN q.entries : q.entries[k].stage \in 1..7
    <3>1. \A k \in DOMAIN p.entries : p.entries[k].stage \in 1..n
      BY DEF Manifest
    <3>2. 1..n \subseteq 1..7
      BY <2>1
    <3> QED BY <2>2, <3>1, <3>2
  <2>10. \A i \in 1..7 : Consistent(NothingRead(i))
    BY DEF Consistent, NothingRead
  <2>11. Flawed(q) <=> Flawed(p)
    <3>1. \A i \in 1..7 : i \in 1..n \/ i > n
      BY <2>1
    <3>2. ASSUME Flawed(q) PROVE Flawed(p)
      <4>1. PICK i \in 1..7 : ~Consistent(q.sections[i])
        BY <2>4, <3>2 DEF Flawed
      <4>2. i \in 1..n
        BY <2>5, <2>10, <3>1, <4>1
      <4>3. i \in DOMAIN p.sections /\ ~Consistent(p.sections[i])
        BY <2>3, <2>6, <4>1, <4>2
      <4> QED BY <4>3 DEF Flawed
    <3>3. ASSUME Flawed(p) PROVE Flawed(q)
      <4>1. PICK i \in 1..n : ~Consistent(p.sections[i])
        BY <2>3, <3>3 DEF Flawed
      <4>2. i \in DOMAIN q.sections /\ ~Consistent(q.sections[i])
        BY <2>4, <2>6, <4>1
      <4> QED BY <4>2 DEF Flawed
    <3> QED BY <3>2, <3>3
  <2>12. Manifest(q)
    BY <2>2, <2>3, <2>4, <2>8, <2>9 DEF Manifest
  <2> QED BY <2>2, <2>4, <2>11, <2>12 DEF q, LastStage
<1> QED BY <1>1, <1>2
-----------------------------------------------------------------------------
(* Reading, and the turns of the run.                                      *)

\* A page of a list, and the cursor after it.
LEMMA PageTypes ==
  ASSUME Reading
  PROVE  After \in [items : Seq(Ids), total : Nat, pages : Nat]
<1> DEFINE l == Head(todo)
           list == Held(l)
           size == PageSize(l)
           end == IF StartAt(cursor) + size < Len(list) THEN StartAt(cursor) + size ELSE Len(list)
<1>1. list \in Seq(Ids)
  BY DEF Reading, Held
<1>2. StartAt(cursor) \in Nat /\ size \in Nat \ {0} /\ cursor.items \in Seq(Ids)
      /\ cursor.total \in Nat /\ cursor.pages \in Nat
  BY PageAssumption DEF Reading, StartAt, PageSize
<1> HIDE DEF l, list, size
<1>3. Len(list) \in Nat /\ DOMAIN list = 1..Len(list) /\ \A i \in 1..Len(list) : list[i] \in Ids
  BY <1>1
<1>4. end \in Nat /\ end <= Len(list)
  BY <1>2, <1>3
<1> HIDE DEF end
<1>5. SubSeq(list, StartAt(cursor) + 1, end) \in Seq(Ids)
  <2>1. \A i \in (StartAt(cursor) + 1)..end : list[i] \in Ids
    BY <1>2, <1>3, <1>4
  <2> QED BY <1>2, <1>4, <2>1, SubSeqProperties
<1>6. Page.items \in Seq(Ids) /\ Page.total \in Nat
  BY <1>1, <1>3, <1>5 DEF Page, FlatPage, ServedPage, l, list, size, end
<1>7. cursor.items \o Page.items \in Seq(Ids)
  BY <1>2, <1>6
<1> QED BY <1>2, <1>6, <1>7 DEF After, Advance

\* The stage is in the manifest: what is then in the database, wherever the run goes on.
LEMMA Begins ==
  ASSUME NEW p, Manifest(p), stage \in 1..LastStage, Len(p.sections) = stage, BeginAfter(stage, p)
  PROVE  /\ Manifest(point') /\ (Flawed(point') <=> Flawed(p))
         /\ point'.status \in {p.status, "in_progress"}
         /\ \/ stage' = stage + 1 /\ stage' <= LastStage /\ cursor' = Start /\ got' = <<>>
               /\ pc' = pc /\ Len(point'.sections) = stage
            \/ stage' = stage /\ UNCHANGED <<cursor, got>>
               /\ pc' = "returned" /\ Len(point'.sections) = LastStage
<1>1. CASE point' = p /\ stage < LastStage /\ stage' = stage + 1 /\ cursor' = Start /\ got' = <<>>
           /\ UNCHANGED pc
  BY <1>1 DEF LastStage
<1>2. CASE point' = WithoutLists(p, stage) /\ pc' = "returned" /\ UNCHANGED <<stage, cursor, got>>
  BY <1>2, WithoutListsManifest
<1> QED BY <1>1, <1>2 DEF BeginAfter

\* A list of the stage is done with.
LEMMA ListDoneKeeps ==
  ASSUME CInv, pc = "page", stage > 0, NEW entries, NEW total, NEW skip, NEW more,
         Listed(entries), \A k \in DOMAIN entries : entries[k].stage = stage,
         ListDone(entries, total, skip, more), UNCHANGED <<jiraVars, projects, halted>>
  PROVE  CInv'
<1> USE DEF CInv
<1>1. stage \in 1..LastStage /\ Len(point.sections) = stage - 1 /\ stage \in Nat /\ ~halted
  BY DEF Reached, LastStage
<1>2. /\ Start \in [items : Seq(Ids), total : Nat, pages : Nat]
      /\ Listed(<<>>) /\ \A k \in DOMAIN <<>> : <<>>[k].stage = stage'
  <2>1. <<>> \in Seq({})
    OBVIOUS
  <2> QED BY <2>1 DEF Start, Listed
<1>3. CASE more \o Tail(todo) # <<>>
  <2>1. /\ cursor' = Start /\ got' = entries
        /\ UNCHANGED <<pc, stage, broken, point>>
    BY <1>3 DEF ListDone
  <2>2. Reading'
    BY <1>2, <2>1 DEF Reading, jiraVars
  <2>3. Manifest(point)' /\ Verdict'
    BY <2>1 DEF Verdict, FinalStatus
  <2>4. Reached'
    BY <1>1, <2>1 DEF Reached
  <2> QED BY <2>2, <2>3, <2>4
<1>4. CASE more \o Tail(todo) = <<>>
  <2> DEFINE s == [stage |-> stage, captured |-> Len(entries), skipped |-> Len(skip),
                   total |-> total]
             q == Appended(point, s, entries)
  <2>1. BeginAfter(stage, q) /\ broken' = (broken \/ ~Consistent(s))
    BY <1>4 DEF ListDone, CloseStage
  <2>2. s.stage = stage /\ s.captured = Len(entries)
    OBVIOUS
  <2> HIDE DEF s
  <2>3. /\ Manifest(q) /\ Len(q.sections) = stage
        /\ Flawed(q) <=> Flawed(point) \/ ~Consistent(s)
        /\ q.status = IF Consistent(s) THEN "in_progress" ELSE "completed_with_errors"
    BY <1>1, <2>2, AppendedManifest
  <2> HIDE DEF q
  <2>4. /\ Manifest(point') /\ (Flawed(point') <=> Flawed(q))
        /\ point'.status \in {q.status, "in_progress"}
        /\ \/ stage' = stage + 1 /\ stage' <= LastStage /\ cursor' = Start /\ got' = <<>>
              /\ pc' = pc /\ Len(point'.sections) = stage
           \/ stage' = stage /\ UNCHANGED <<cursor, got>>
              /\ pc' = "returned" /\ Len(point'.sections) = LastStage
    BY <1>1, <2>1, <2>3, Begins
  <2>5. Reading'
    BY <1>2, <2>4 DEF Reading, jiraVars
  <2>6. Verdict'
    BY <2>1, <2>3, <2>4 DEF Verdict
  <2>7. Reached'
    BY <1>1, <2>4 DEF Reached, PC, LastStage
  <2> QED BY <2>4, <2>5, <2>6, <2>7
<1> QED BY <1>3, <1>4

\* A stage that fails is the last one, and nothing of it is in the manifest.
LEMMA StageFailsKeeps ==
  ASSUME CInv, StageFails
  PROVE  CInv'
<1> USE DEF CInv
<1> DEFINE s == [stage |-> stage, captured |-> 0, skipped |-> 0, total |-> NoTotal]
           q == Appended(point, s, <<>>)
<1>1. /\ pc = "page" /\ stage \in 1..LastStage /\ Len(point.sections) = stage - 1
      /\ point' = q /\ halted' /\ pc' = "returned"
      /\ UNCHANGED <<jiraVars, stageVars, projects, broken>>
  BY DEF StageFails, Reached, LastStage
<1>2. s.stage = stage /\ s.captured = 0 /\ s.total = NoTotal /\ Consistent(s)
  BY DEF Consistent
<1>3. Listed(<<>>) /\ Len(<<>>) = 0 /\ DOMAIN <<>> = {}
  <2>1. <<>> \in Seq({})
    OBVIOUS
  <2> QED BY <2>1 DEF Listed
<1> HIDE DEF s
<1>4. /\ Manifest(q) /\ Len(q.sections) = stage /\ q.sections[stage] = s
      /\ Flawed(q) <=> Flawed(point) \/ ~Consistent(s)
      /\ PlacesIn(q, stage) = {}
      /\ q.status = IF Consistent(s) THEN "in_progress" ELSE "completed_with_errors"
  <2>1. Len(point.sections) \in Nat /\ stage = Len(point.sections) + 1 /\ Len(<<>>) = s.captured
    BY <1>1, <1>2, <1>3 DEF LastStage
  <2> DEFINE none == <<>>
  <2>2. /\ none = <<>> /\ Listed(none) /\ Len(none) = s.captured
        /\ \A k \in DOMAIN none : none[k].stage = Len(point.sections) + 1
    BY <1>3, <2>1
  <2> HIDE DEF none
  <2>3. Manifest(point) /\ q = Appended(point, s, none) /\ s.stage = Len(point.sections) + 1
    BY <1>2, <2>1, <2>2
  <2> HIDE DEF q
  <2>4. /\ Manifest(q) /\ Len(q.sections) = Len(point.sections) + 1
        /\ q.sections[Len(q.sections)] = s
        /\ Flawed(q) <=> Flawed(point) \/ ~Consistent(s)
        /\ PlacesIn(q, Len(q.sections)) = {}
        /\ q.status = IF Consistent(s) THEN "in_progress" ELSE "completed_with_errors"
    BY <2>1, <2>2, <2>3, AppendedManifest
  <2> QED BY <2>1, <2>4
<1> HIDE DEF q
<1>5. Reading'
  BY <1>1 DEF Reading, jiraVars, stageVars
<1>6. Verdict'
  BY <1>1, <1>2, <1>4 DEF Verdict
<1>7. CutShort(point')
  BY <1>1, <1>2, <1>4 DEF CutShort, LastStage
<1>8. Reached'
  BY <1>1, <1>7 DEF Reached, stageVars, PC, LastStage
<1> QED BY <1>1, <1>4, <1>5, <1>6, <1>8

\* Jira changes under the run.
LEMMA EditKeeps ==
  ASSUME CInv, NEW l \in DOMAIN jira, Edit(l)
  PROVE  CInv'
<1> USE DEF CInv
<1>1. l \in DOMAIN Content /\ jira[l] \in Seq(Ids) /\ NewIds \subseteq Ids
      /\ jira \in [DOMAIN Content -> Seq(Ids)]
  BY DEF Reading, Ids
<1>2. ASSUME NEW i \in 1..(Len(jira[l]) + 1), NEW x \in NewIds
      PROVE  InsertAt(jira[l], i, x) \in Seq(Ids)
  <2> DEFINE s == jira[l]
  <2>1. s \in Seq(Ids) /\ Len(s) \in Nat /\ x \in Ids
    BY <1>1
  <2> HIDE DEF s
  <2>2. \A m, n \in Int : m >= 1 /\ n <= Len(s) => SubSeq(s, m, n) \in Seq(Ids)
    <3>1. ASSUME NEW m \in Int, NEW n \in Int, m >= 1, n <= Len(s)
          PROVE  SubSeq(s, m, n) \in Seq(Ids)
      <4>1. \A k \in m..n : s[k] \in Ids
        BY <2>1, <3>1
      <4> QED BY <4>1, SubSeqProperties
    <3> QED BY <3>1
  <2>3. SubSeq(s, 1, i - 1) \in Seq(Ids) /\ SubSeq(s, i, Len(s)) \in Seq(Ids)
    BY <2>1, <2>2 DEF s
  <2>4. InsertAt(s, i, x) \in Seq(Ids)
    BY <2>1, <2>3 DEF InsertAt
  <2> QED BY <2>4 DEF s
<1>3. ASSUME NEW i \in DOMAIN jira[l] PROVE RemoveAt(jira[l], i) \in Seq(Ids)
  <2> DEFINE s == jira[l]
  <2>1. s \in Seq(Ids) /\ Len(s) \in Nat /\ i \in 1..Len(s)
    BY <1>1
  <2> HIDE DEF s
  <2>2. SubSeq(s, 1, i - 1) \in Seq(Ids)
    <3>1. \A k \in 1..(i - 1) : s[k] \in Ids
      BY <2>1
    <3> QED BY <2>1, <3>1, SubSeqProperties
  <2>3. SubSeq(s, i + 1, Len(s)) \in Seq(Ids)
    <3>1. \A k \in (i + 1)..Len(s) : s[k] \in Ids
      BY <2>1
    <3> QED BY <2>1, <3>1, SubSeqProperties
  <2>4. RemoveAt(s, i) \in Seq(Ids)
    BY <2>2, <2>3 DEF RemoveAt
  <2> QED BY <2>4 DEF s
<1>4. jira' \in [DOMAIN Content -> Seq(Ids)]
  BY <1>1, <1>2, <1>3 DEF Edit
<1>5. UNCHANGED <<cap, pc, stageVars, projects, halted, broken, point>>
  BY DEF Edit
<1>6. Reading'
  BY <1>4, <1>5 DEF Reading, stageVars
<1>7. Manifest(point)' /\ Reached' /\ Verdict'
  BY <1>5 DEF Reached, Verdict, FinalStatus, stageVars
<1> QED BY <1>6, <1>7

\* The rest of the turns: what is asked for, where a run begins, where it ends.
LEMMA OtherTurnsKeep ==
  ASSUME CInv, \/ Discover \/ Discovered \/ DiscoveryFails \/ Run \/ Finalize
               \/ MorePages \/ Crash \/ UNCHANGED vars
  PROVE  CInv'
<1> USE DEF CInv, jiraVars, stageVars
<1>1. Start \in [items : Seq(Ids), total : Nat, pages : Nat]
  BY DEF Start
<1>2. CASE Discover \/ DiscoveryFails \/ Crash \/ UNCHANGED vars
  <2>1. /\ UNCHANGED <<jira, cap, cursor, got, stage, halted, broken, point>>
        /\ pc' # "finalised" \/ UNCHANGED pc
    BY <1>2 DEF Discover, DiscoveryFails, Crash, vars
  <2>2. Reading' /\ Manifest(point)'
    BY <2>1 DEF Reading
  <2>3. Verdict'
    BY <1>2 DEF Discover, DiscoveryFails, Crash, vars, Verdict, FinalStatus
  <2>4. Reached'
    BY <1>2 DEF Discover, DiscoveryFails, Crash, vars, Reached, PC
  <2> QED BY <2>2, <2>3, <2>4
<1>3. CASE Discovered
  <2>1. Reading' /\ Manifest(point)'
    BY <1>1, <1>3 DEF Discovered, Reading
  <2>2. Reached' /\ Verdict'
    BY <1>3 DEF Discovered, Reached, PC, Verdict
  <2> QED BY <2>1, <2>2
<1>4. CASE Run
  <2>1. /\ stage = 0 /\ stage' = 1 /\ pc = "discovered" /\ pc' = "page" /\ cursor' = Start
        /\ UNCHANGED <<jira, cap, got, halted, broken>>
        /\ point.sections = <<>> /\ got = <<>>
    BY <1>4 DEF Run, Reached
  <2>2. point' = Snapshot("in_progress", point.sections, point.entries)
    BY <1>4 DEF Run, Manifest, Snapshot
  <2>3. Manifest(point)' /\ (Flawed(point)' <=> Flawed(point))
    BY <2>2 DEF Manifest, Flawed, PlacesIn, Snapshot
  <2>4. Reading'
    BY <1>1, <2>1 DEF Reading
  <2>5. Reached' /\ Verdict'
    BY <2>1, <2>2, <2>3 DEF Reached, PC, LastStage, Verdict, Snapshot
  <2> QED BY <2>3, <2>4, <2>5
<1>5. CASE Finalize
  <2> DEFINE st == FinalStatus(IF halted THEN "halted" ELSE "completed")
  <2>1. point' = Snapshot(st, point.sections, point.entries)
    BY <1>5 DEF Finalize, Manifest, Snapshot
  <2>2. /\ pc = "returned" /\ pc' = "finalised"
        /\ UNCHANGED <<jiraVars, stageVars, halted, broken>>
    BY <1>5 DEF Finalize
  <2>3. /\ Manifest(point)' /\ (Flawed(point)' <=> Flawed(point))
        /\ (CutShort(point)' <=> CutShort(point))
    BY <2>1 DEF Manifest, Flawed, CutShort, PlacesIn, Snapshot
  <2>4. Reading'
    BY <2>2 DEF Reading
  <2>5. Verdict'
    BY <2>1, <2>2, <2>3 DEF Verdict, Snapshot, FinalStatus
  <2>6. Reached'
    BY <2>1, <2>2, <2>3 DEF Reached, PC, Snapshot
  <2> QED BY <2>3, <2>4, <2>5, <2>6
<1>6. CASE MorePages
  <2>1. Reading'
    BY <1>6, PageTypes DEF MorePages, Reading
  <2>2. Manifest(point)' /\ Reached' /\ Verdict'
    BY <1>6 DEF MorePages, Reached, Verdict, FinalStatus
  <2> QED BY <2>1, <2>2
<1> QED BY <1>2, <1>3, <1>4, <1>5, <1>6

-----------------------------------------------------------------------------
\* Before the first request nothing is in the database.
LEMMA CInvInit == Init => CInv
<1> SUFFICES ASSUME Init PROVE CInv
  OBVIOUS
<1>1. <<>> \in Seq({}) /\ <<>> \in Seq(Ids) /\ Listed(<<>>)
  <2>1. <<>> \in Seq({})
    OBVIOUS
  <2> QED BY <2>1 DEF Listed
<1>2. jira \in [DOMAIN Content -> Seq(Ids)]
  BY ContentAssumption DEF Init
<1>3. Reading
  BY <1>1, <1>2 DEF Init, Reading, Start
<1>4. Manifest(point) /\ ~Flawed(point)
  BY <1>1 DEF Init, Manifest, Flawed, Snapshot
<1>5. Reached /\ Verdict
  BY <1>4 DEF Init, Reached, Verdict, PC, LastStage
<1> QED BY <1>3, <1>4, <1>5 DEF CInv

\* And every step keeps what was said of it.
LEMMA CInvStep == CInv /\ [Next]_vars => CInv'
<1> SUFFICES ASSUME CInv, [Next]_vars PROVE CInv'
  OBVIOUS
<1>1. Listed(After.items) /\ Listed(got) /\ \A k \in DOMAIN got : got[k].stage = stage
  BY PageTypes DEF CInv, Reading, Listed
<1>2. pc = "page" /\ Head(todo)[1] \in {"field", "context"} => stage > 0
  BY DEF CInv, Reached, LastStage
<1>3. CASE ListRead
  <2> DEFINE new == EntriesFrom(stage, Head(todo), After.items)
  <2>1. Listed(new) /\ \A k \in DOMAIN new : new[k].stage = stage
    <3>1. PICK n \in Nat : DOMAIN After.items = 1..n
      BY <1>1 DEF Listed
    <3> DEFINE E == {[stage |-> stage, id |-> After.items[i], owner |-> Head(todo)[2]] : i \in 1..n}
    <3>2. new \in [1..n -> E]
      BY <3>1 DEF EntriesFrom
    <3>3. \A k \in DOMAIN new : new[k].stage = stage
      BY <3>1 DEF EntriesFrom
    <3> HIDE DEF new, E
    <3>4. new \in Seq(E)
      BY <3>2
    <3> QED BY <3>3, <3>4 DEF Listed
  <2> HIDE DEF new
  <2>2. Listed(got \o new) /\ \A k \in DOMAIN (got \o new) : (got \o new)[k].stage = stage
    <3>1. /\ Listed(got \o new) /\ Len(got) \in Nat /\ Len(new) \in Nat
          /\ DOMAIN got = 1..Len(got) /\ DOMAIN new = 1..Len(new)
          /\ DOMAIN (got \o new) = 1..(Len(got) + Len(new))
          /\ \A i \in 1..(Len(got) + Len(new)) :
               (got \o new)[i] = IF i <= Len(got) THEN got[i] ELSE new[i - Len(got)]
      BY <1>1, <2>1, Joined
    <3>2. ASSUME NEW k \in 1..(Len(got) + Len(new)) PROVE (got \o new)[k].stage = stage
      <4>1. CASE k <= Len(got)
        BY <1>1, <3>1, <4>1
      <4>2. CASE ~(k <= Len(got))
        <5>1. k - Len(got) \in DOMAIN new
          BY <3>1, <4>2
        <5> QED BY <2>1, <3>1, <4>2, <5>1
      <4> QED BY <4>1, <4>2
    <3> QED BY <3>1, <3>2
  <2>3. /\ pc = "page" /\ stage > 0
        /\ ListDone(got \o new, reported + After.total, skipped, <<>>)
        /\ UNCHANGED <<jiraVars, projects, halted>>
    BY <1>3 DEF ListRead, new
  <2> QED BY <2>2, <2>3, ListDoneKeeps
<1>4. CASE FieldsRead
  <2>1. PICK total, skip, more : ListDone(got, total, skip, more)
    BY <1>4 DEF FieldsRead
  <2>2. pc = "page" /\ stage > 0 /\ UNCHANGED <<jiraVars, projects, halted>>
    BY <1>4, <1>2 DEF FieldsRead
  <2> QED BY <1>1, <2>1, <2>2, ListDoneKeeps
<1>5. CASE FieldCaptured
  <2> DEFINE e == [stage |-> stage, id |-> Head(todo)[2], owner |-> Site]
  <2>1. /\ pc = "page" /\ stage > 0 /\ ListDone(Append(got, e), reported, skipped, <<>>)
        /\ UNCHANGED <<jiraVars, projects, halted>>
    BY <1>5, <1>2 DEF FieldCaptured
  <2>2. e.stage = stage
    OBVIOUS
  <2> HIDE DEF e
  <2>3. Listed(Append(got, e)) /\ \A k \in DOMAIN Append(got, e) : Append(got, e)[k].stage = stage
    BY <1>1, <2>2, Appended1
  <2> QED BY <2>1, <2>3, ListDoneKeeps
<1>6. CASE \E l \in DOMAIN jira : Edit(l)
  BY <1>6, EditKeeps
<1> QED BY <1>3, <1>4, <1>5, <1>6, StageFailsKeeps, OtherTurnsKeep DEF Next, Work

\* What is in the database at every await, and what its status says of it.
THEOREM CaptureInvariant == Spec => []CInv
BY CInvInit, CInvStep, PTL DEF Spec

\* Every stage before the one in hand is in the database, in order, and each section
\* counts the entries of its stage: what a crash loses is the stage in hand.
THEOREM OrderOfStages == Spec => []PersistedInOrder
<1>1. CInv => PersistedInOrder
  <2> SUFFICES ASSUME CInv PROVE PersistedInOrder
    OBVIOUS
  <2>1. \A n : PlacesOf(n) = PlacesIn(point, n)
    BY DEF PlacesOf, PlacesIn
  <2>2. Len(point.sections) \in Nat
    BY DEF CInv, Manifest, Listed
  <2> QED BY <2>1, <2>2 DEF CInv, Manifest, Reached, PersistedInOrder
<1> QED BY <1>1, CaptureInvariant, PTL

-----------------------------------------------------------------------------
(* What was captured: the strengthening for the types, the references and  *)
(* the whole stages.                                                       *)

\* What stage n captures that reads these lists to their ends.
Parts(n, lists) == [i \in DOMAIN lists |-> EntriesFrom(n, lists[i], Wanted(n, lists[i]))]
Captured(n, lists) == FlattenSeq(Parts(n, lists))

OwnersOf(lists) == {lists[i][2] : i \in DOMAIN lists}

\* Every entry is owned by something its stage had to read a list of.
Referred(p) ==
  \A k \in DOMAIN p.entries :
    p.entries[k].owner \in OwnersOf(ListsOf(p.entries[k].stage, p.entries))

\* Every stage holds what Jira holds.
Whole(p) ==
  \A n \in DOMAIN p.sections :
    OfStage(p.entries, n) = Captured(n, ListsOf(n, p.entries))

Totals(p) == \A n \in DOMAIN p.sections : p.sections[n].total # NoTotal
TotalsBefore(p) == \A n \in 1..(Len(p.sections) - 1) : p.sections[n].total # NoTotal

Manifested(p) == p.sections \in Seq(Section) /\ p.entries \in Seq(Entry)

Listing(lists) == Listed(lists) /\ \A k \in DOMAIN lists : lists[k][2] \in Owners

Scope == projects \in Seq(Ids) /\ Elements(projects) \subseteq InScope

CTypes ==
  /\ edits \in 0..MaxEdits /\ got \in Seq(Entry) /\ reported \in Nat /\ skipped \in Seq(Ids)
  /\ Scope /\ Listing(todo) /\ halted \in BOOLEAN /\ broken \in BOOLEAN
  /\ Manifested(point) /\ Referred(point)
  /\ ~halted => Totals(point)
  /\ ~halted /\ ~broken /\ edits = 0 => Whole(point)

FieldList == << <<"field", Site>> >>

\* The fields first, then the contexts of those that are custom.
FieldsToRead(lists) ==
  \/ lists = FieldList
  \/ lists # <<>> /\ \A k \in DOMAIN lists : lists[k][1] = "context" /\ lists[k][2] \in Ids

\* The entries of fields whose contexts these lists are.
FieldEntry(l) == [stage |-> FieldStage, id |-> l[2], owner |-> Site]
FieldEntries(lists) == [k \in DOMAIN lists |-> FieldEntry(lists[k])]

\* The fields that were captured and those whose contexts are still to be read are the
\* custom ones that Jira holds.
FieldsHalfway(rest, entries) ==
  edits = 0 => IF rest = FieldList THEN entries = <<>>
               ELSE entries \o FieldEntries(rest) = Captured(FieldStage, FieldList)

\* Of the lists of a stage some are read, which gave these entries; the rest is still to read.
\* Fewer entries than Jira reported are what the totals will tell.
Halfway(lists, rest, entries, total, stg) ==
  \E read : /\ Listed(read) /\ lists = read \o rest
            /\ edits = 0 => /\ Len(entries) <= total
                            /\ Len(entries) = total => entries = Captured(stg, read)

OwnersKnown(entries, lists) == \A k \in DOMAIN entries : entries[k].owner \in OwnersOf(lists)

Asked ==
  pc = "page" /\ stage > 0 =>
    /\ OwnersKnown(got, ListsOf(stage, point.entries))
    /\ stage = FieldStage => FieldsToRead(todo) /\ FieldsHalfway(todo, got)
    /\ stage # FieldStage =>
         /\ skipped = <<>> /\ todo # <<>>
         /\ Halfway(ListsOf(stage, point.entries), todo, got, reported, stage)

Beginning ==
  /\ stage = 0 => reported = 0 /\ skipped = <<>>
  /\ pc = "idle" => cursor = Start

\* Unless somebody edits it, a list is read from its beginning, and its length known.
ReadTrue(c, l) ==
  /\ Len(c.items) <= Len(Held(l)) /\ c.items = SubSeq(Held(l), 1, Len(c.items))
  /\ c.pages > 0 => c.total = Len(Held(l))
  /\ Flat(l) => c = Start

CursorTrue == pc = "page" /\ edits = 0 => ReadTrue(cursor, Head(todo))

WInv == CTypes /\ Asked /\ Beginning /\ CursorTrue

\* What was discovered are the projects in scope, unless some were not served.
Counted ==
  /\ gap \in Int
  /\ edits = 0 /\ gap = 0 /\ (stage > 0 \/ pc = "discovered") =>
       projects = Filter(Held(<<"project", Site>>), InScope)

HaltedLate == halted => TotalsBefore(point)

-----------------------------------------------------------------------------
(* Lists, and what is captured of them.                                    *)

\* The lists of a stage are of its kind, and of owners that may own.
LEMMA ListsTyped ==
  ASSUME Scope, NEW n \in 1..LastStage, NEW entries \in Seq(Entry)
  PROVE  /\ Listing(ListsOf(n, entries))
         /\ \A k \in DOMAIN ListsOf(n, entries) : ListsOf(n, entries)[k][1] = Kinds[n]
<1> DEFINE lists == ListsOf(n, entries)
<1>1. Site \in Owners /\ Ids \subseteq Owners
  BY DEF Owners
<1>2. CASE n < BoardStage
  <2>1. lists = << <<Kinds[n], Site>> >>
    BY <1>2 DEF ListsOf, BoardStage, LastStage
  <2> DEFINE l == <<Kinds[n], Site>>
  <2>2. l[1] = Kinds[n] /\ l[2] = Site
    OBVIOUS
  <2> HIDE DEF lists, l
  <2>3. lists = <<l>>
    BY <2>1 DEF l
  <2>4. lists \in Seq({l}) /\ \A k \in DOMAIN lists : lists[k] = l
    BY <2>3
  <2> QED BY <1>1, <2>2, <2>4 DEF Listing, Listed, lists
<1>3. CASE n = BoardStage
  <2>1. lists = [i \in DOMAIN projects |-> <<"board", projects[i]>>]
    BY <1>3 DEF ListsOf, BoardStage
  <2>2. PICK m \in Nat : DOMAIN projects = 1..m
    BY DEF Scope
  <2>3. \A i \in DOMAIN projects : projects[i] \in Ids
    BY DEF Scope
  <2>4. /\ DOMAIN lists = DOMAIN projects
        /\ \A i \in DOMAIN projects : lists[i][1] = "board" /\ lists[i][2] \in Ids
    BY <2>1, <2>3
  <2> DEFINE T == {<<"board", projects[i]>> : i \in DOMAIN projects}
  <2>5. lists \in [1..m -> T]
    BY <2>1, <2>2
  <2> HIDE DEF lists, T
  <2>6. lists \in Seq(T)
    BY <2>5
  <2>7. Kinds[n] = "board"
    BY <1>3 DEF Kinds, BoardStage
  <2> QED BY <1>1, <2>4, <2>6, <2>7 DEF Listing, Listed, lists
<1>4. CASE n > BoardStage
  <2> DEFINE boards == OfStage(entries, BoardStage)
  <2>1. lists = [i \in DOMAIN boards |-> <<"sprint", boards[i].id>>]
    BY <1>4 DEF ListsOf, BoardStage
  <2>2. boards \in Seq(Entry)
    BY FilterElements DEF OfStage
  <2> HIDE DEF boards
  <2>3. PICK m \in Nat : DOMAIN boards = 1..m
    BY <2>2
  <2>4. \A i \in DOMAIN boards : boards[i].id \in Ids
    <3>1. \A i \in DOMAIN boards : boards[i] \in Entry
      BY <2>2
    <3> QED BY <3>1 DEF Entry
  <2>5. /\ DOMAIN lists = DOMAIN boards
        /\ \A i \in DOMAIN boards : lists[i][1] = "sprint" /\ lists[i][2] \in Ids
    BY <2>1, <2>4
  <2> DEFINE T == {<<"sprint", boards[i].id>> : i \in DOMAIN boards}
  <2>6. lists \in [1..m -> T]
    BY <2>1, <2>3
  <2> HIDE DEF lists, T
  <2>7. lists \in Seq(T)
    BY <2>6
  <2>8. Kinds[n] = "sprint"
    BY <1>4 DEF Kinds, BoardStage, LastStage
  <2> QED BY <1>1, <2>5, <2>7, <2>8 DEF Listing, Listed, lists
<1> QED BY <1>2, <1>3, <1>4 DEF BoardStage, LastStage

\* The entries of a list.
LEMMA EntriesTyped ==
  ASSUME NEW n \in 1..LastStage, NEW l, l[2] \in Owners, NEW ids \in Seq(Ids)
  PROVE  /\ EntriesFrom(n, l, ids) \in Seq(Entry) /\ Len(EntriesFrom(n, l, ids)) = Len(ids)
         /\ \A k \in DOMAIN EntriesFrom(n, l, ids) :
              EntriesFrom(n, l, ids)[k].stage = n /\ EntriesFrom(n, l, ids)[k].owner = l[2]
<1> DEFINE new == EntriesFrom(n, l, ids)
<1>1. /\ DOMAIN new = DOMAIN ids
      /\ \A i \in DOMAIN ids : new[i].stage = n /\ new[i].owner = l[2]
  BY DEF EntriesFrom
<1>2. ids \in [1..Len(ids) -> Ids] /\ Len(ids) \in Nat
  OBVIOUS
<1>3. new \in [1..Len(ids) -> Entry]
  BY <1>2 DEF EntriesFrom, Entry
<1> HIDE DEF new
<1>4. new \in Seq(Entry) /\ Len(new) = Len(ids)
  BY <1>2, <1>3
<1> QED BY <1>1, <1>4 DEF new

\* What is wanted of a list are ids.
LEMMA WantedTyped ==
  ASSUME Reading
  PROVE  \A n, l : Wanted(n, l) \in Seq(Ids)
<1>1. \A l : Held(l) \in Seq(Ids)
  BY DEF Reading, Held
<1>2. \A s \in Seq(Ids) : Filter(s, Custom) \in Seq(Ids)
  BY FilterElements
<1> QED BY <1>1, <1>2 DEF Wanted

\* What is captured of no list, and of one list more.
LEMMA CapturedAppend ==
  ASSUME Reading, NEW n \in 1..LastStage, NEW read, Listing(read), NEW l, l[2] \in Owners
  PROVE  /\ Captured(n, <<>>) = <<>> /\ Captured(n, read) \in Seq(Entry)
         /\ Captured(n, Append(read, l)) = Captured(n, read) \o EntriesFrom(n, l, Wanted(n, l))
<1>1. \A x : Wanted(n, x) \in Seq(Ids)
  BY WantedTyped
<1>2. \A x : x[2] \in Owners => EntriesFrom(n, x, Wanted(n, x)) \in Seq(Entry)
  BY <1>1, EntriesTyped
<1>3. ASSUME NEW s, Listing(s) PROVE Parts(n, s) \in Seq(Seq(Entry)) /\ Len(Parts(n, s)) = Len(s)
  <2>1. DOMAIN s = 1..Len(s) /\ Len(s) \in Nat /\ \A k \in DOMAIN s : s[k][2] \in Owners
    BY <1>3 DEF Listing, Listed
  <2>2. Parts(n, s) \in [1..Len(s) -> Seq(Entry)]
    BY <1>2, <2>1 DEF Parts
  <2> DEFINE parts == Parts(n, s)
             m == Len(s)
  <2> HIDE DEF parts, m
  <2>3. parts \in Seq(Seq(Entry)) /\ Len(parts) = m
    BY <2>1, <2>2 DEF parts, m
  <2> QED BY <2>3 DEF parts, m
<1> DEFINE t == Append(read, l)
           a == Len(read)
<1>4. /\ Listed(t) /\ a \in Nat /\ DOMAIN read = 1..a /\ Len(t) = a + 1 /\ DOMAIN t = 1..(a + 1)
      /\ \A i \in 1..(a + 1) : t[i] = IF i <= a THEN read[i] ELSE l
  BY Appended1 DEF Listing
<1> HIDE DEF t, a
<1>5. Listing(t)
  <2>1. \A i \in 1..(a + 1) : i <= a => i \in 1..a
    BY <1>4
  <2> QED BY <1>4, <2>1 DEF Listing
<1>6. Parts(n, t) = Append(Parts(n, read), EntriesFrom(n, l, Wanted(n, l)))
  <2> DEFINE u == Parts(n, t)
             v == Parts(n, read)
             e == EntriesFrom(n, l, Wanted(n, l))
  <2>1. u \in Seq(Seq(Entry)) /\ Len(u) = a + 1 /\ v \in Seq(Seq(Entry)) /\ Len(v) = a
        /\ e \in Seq(Entry)
    BY <1>2, <1>3, <1>4, <1>5 DEF a
  <2>2. \A i \in 1..(a + 1) : u[i] = EntriesFrom(n, t[i], Wanted(n, t[i]))
    BY <1>4 DEF Parts
  <2>3. \A i \in 1..a : v[i] = EntriesFrom(n, read[i], Wanted(n, read[i]))
    BY <1>4 DEF Parts
  <2>4. /\ \A i \in 1..a : i \in 1..(a + 1) /\ t[i] = read[i]
        /\ a + 1 \in 1..(a + 1) /\ t[a + 1] = l
    BY <1>4
  <2>5. (\A i \in 1..a : u[i] = v[i]) /\ u[a + 1] = e
    BY <2>2, <2>3, <2>4
  <2> HIDE DEF u, v, e
  <2>6. u = Append(v, e)
    BY <1>4, <2>1, <2>5
  <2> QED BY <2>6 DEF u, v, e
<1>7. Parts(n, read) \in Seq(Seq(Entry)) /\ EntriesFrom(n, l, Wanted(n, l)) \in Seq(Entry)
  BY <1>2, <1>3
<1>8. Parts(n, <<>>) = <<>>
  BY DEF Parts
<1> QED BY <1>6, <1>7, <1>8, FlattenAppend DEF Captured, t

\* The entries of the fields to come: the first of them, and the others.
LEMMA FieldMoved ==
  ASSUME NEW rest, Listed(rest), \A k \in DOMAIN rest : rest[k][2] \in Ids,
         NEW es \in Seq(Entry)
  PROVE  /\ rest = <<>> => es \o FieldEntries(rest) = es
         /\ rest # <<>> => es \o FieldEntries(rest)
                            = Append(es, FieldEntry(Head(rest))) \o FieldEntries(Tail(rest))
<1>1. CASE rest = <<>>
  <2>1. FieldEntries(rest) = <<>>
    BY <1>1 DEF FieldEntries
  <2> QED BY <1>1, <2>1
<1>2. CASE rest # <<>>
  <2> DEFINE m == Len(rest)
             u == FieldEntries(rest)
             v == FieldEntries(Tail(rest))
  <2>1. /\ DOMAIN rest = 1..m /\ m \in Nat \ {0} /\ Head(rest) = rest[1]
        /\ DOMAIN Tail(rest) = 1..(m - 1) /\ \A i \in 1..(m - 1) : Tail(rest)[i] = rest[i + 1]
    BY <1>2 DEF Listed
  <2>2. \A i \in 1..m : FieldEntry(rest[i]) \in Entry
    <3>1. \A i \in 1..m : rest[i][2] \in Ids
      BY <2>1
    <3> QED BY <3>1 DEF FieldEntry, Entry, FieldStage, LastStage, Owners
  <2>3. \A i \in 1..(m - 1) : i + 1 \in 1..m
    BY <2>1
  <2>4. u \in [1..m -> Entry] /\ \A i \in 1..m : u[i] = FieldEntry(rest[i])
    BY <2>1, <2>2 DEF FieldEntries
  <2>5. v \in [1..(m - 1) -> Entry] /\ \A i \in 1..(m - 1) : v[i] = FieldEntry(rest[i + 1])
    BY <2>1, <2>2, <2>3 DEF FieldEntries
  <2> DEFINE e == FieldEntry(Head(rest))
  <2>6. e = u[1] /\ \A i \in 1..(m - 1) : v[i] = u[i + 1]
    BY <2>1, <2>3, <2>4, <2>5
  <2> HIDE DEF u, v, m, e
  <2>7. u \in Seq(Entry) /\ Len(u) = m /\ v \in Seq(Entry) /\ Len(v) = m - 1
    <3>1. m \in Nat /\ m - 1 \in Nat
      BY <2>1
    <3>2. u \in Seq(Entry) /\ Len(u) = m
      BY <2>4, <3>1
    <3>3. v \in Seq(Entry) /\ Len(v) = m - 1
      BY <2>5, <3>1
    <3> QED BY <3>2, <3>3
  <2>8. u # <<>> /\ Head(u) = e /\ Tail(u) = v
    BY <2>1, <2>6, <2>7
  <2>9. es \o u = Append(es, Head(u)) \o Tail(u)
    <3>1. Listed(es) /\ Listed(u)
      BY <2>7 DEF Listed
    <3> QED BY <2>8, <3>1, HeadMoved
  <2> QED BY <1>2, <2>8, <2>9 DEF u, v, e
<1> QED BY <1>1, <1>2

\* All fields at once, before the first context is read.
LEMMA FieldsBegin ==
  ASSUME Reading, NEW custom \in Seq(Ids), custom = Wanted(FieldStage, <<"field", Site>>)
  PROVE  <<>> \o FieldEntries([i \in DOMAIN custom |-> <<"context", custom[i]>>])
           = Captured(FieldStage, FieldList)
<1> DEFINE l == <<"field", Site>>
           new == EntriesFrom(FieldStage, l, custom)
           more == [i \in DOMAIN custom |-> <<"context", custom[i]>>]
<1>1. FieldStage \in 1..LastStage /\ l[2] = Site /\ Site \in Owners
  BY DEF FieldStage, LastStage, Owners
<1>2. new \in Seq(Entry)
  BY <1>1, EntriesTyped
<1>3. FieldEntries(more) = new
  BY <1>1 DEF FieldEntries, FieldEntry, EntriesFrom
<1> HIDE DEF more, l, new
<1>4. Captured(FieldStage, Append(<<>>, l)) = Captured(FieldStage, <<>>) \o new
  BY <1>1, NoList, CapturedAppend DEF Listing, new, l
<1>5. Captured(FieldStage, <<>>) = <<>>
  BY <1>1, NoList, CapturedAppend DEF Listing
<1>6. <<>> \o new = new
  BY <1>2
<1>7. Append(<<>>, l) = FieldList
  BY DEF FieldList, l
<1> QED BY <1>3, <1>4, <1>5, <1>6, <1>7 DEF more

-----------------------------------------------------------------------------
(* The manifest, one stage more.                                           *)

OfOneStage(es, m) == \A k \in DOMAIN es : es[k].stage = m
NoneOfStage(es, n) == \A k \in DOMAIN es : es[k].stage # n

\* The entries of a stage, when those of a stage come to the others.
LEMMA StageOfJoined ==
  ASSUME NEW es \in Seq(Entry), NEW new \in Seq(Entry), NEW m, NEW n, OfOneStage(new, m)
  PROVE  /\ n = m => OfStage(es \o new, n) = OfStage(es, n) \o new
         /\ n # m => OfStage(es \o new, n) = OfStage(es, n)
<1> DEFINE S == [stage : {n}, id : Ids, owner : Owners]
<1>1. \A x \in Entry : x \in S <=> x.stage = n
  BY DEF Entry
<1>2. (\A k \in DOMAIN es : es[k] \in Entry) /\ \A k \in DOMAIN new : new[k] \in Entry
  OBVIOUS
<1> HIDE DEF S
<1>3. Filter(es \o new, S) = Filter(es, S) \o Filter(new, S) /\ Filter(es, S) \in Seq(Entry)
  <2>1. Filter(es \o new, S) = Filter(es, S) \o Filter(new, S)
    BY FilterJoin
  <2>2. Filter(es, S) \in Seq(Entry)
    BY FilterElements
  <2> QED BY <2>1, <2>2
<1>4. n = m => Filter(new, S) = new
  <2>1. n = m => Elements(new) \subseteq S
    BY <1>1, <1>2 DEF Elements, OfOneStage
  <2> QED BY <2>1, FilterAll
<1>5. n # m => Filter(new, S) = <<>>
  <2>1. n # m => Elements(new) \cap S = {}
    BY <1>1, <1>2 DEF Elements, OfOneStage
  <2> QED BY <2>1, FilterAll
<1>6. Filter(es, S) \o <<>> = Filter(es, S)
  BY <1>3
<1> QED BY <1>3, <1>4, <1>5, <1>6 DEF OfStage, S

\* A stage of which there are no entries.
LEMMA NothingOfStage ==
  ASSUME NEW es \in Seq(Entry), NEW n, NoneOfStage(es, n)
  PROVE  OfStage(es, n) = <<>>
<1> DEFINE S == [stage : {n}, id : Ids, owner : Owners]
<1>1. \A x \in Entry : x \in S => x.stage = n
  OBVIOUS
<1> HIDE DEF S
<1>2. \A k \in DOMAIN es : es[k] \in Entry
  OBVIOUS
<1>3. Elements(es) \cap S = {}
  BY <1>1, <1>2 DEF Elements, NoneOfStage
<1>4. Filter(es, S) = <<>>
  BY <1>3, FilterAll
<1> QED BY <1>4 DEF OfStage, S

\* The lists of a stage do not change when its entries come, or those of a later stage.
LEMMA ListsStay ==
  ASSUME NEW es \in Seq(Entry), NEW new \in Seq(Entry), NEW m \in 1..LastStage, NEW n \in 1..m,
         OfOneStage(new, m)
  PROVE  ListsOf(n, es \o new) = ListsOf(n, es)
<1>1. n \in 1..LastStage
  BY DEF LastStage
<1>2. CASE n <= BoardStage
  BY <1>1, <1>2 DEF ListsOf, BoardStage, LastStage
<1>3. CASE n > BoardStage
  <2>1. m # BoardStage
    BY <1>3 DEF BoardStage, LastStage
  <2>2. OfStage(es \o new, BoardStage) = OfStage(es, BoardStage)
    BY <2>1, StageOfJoined
  <2> QED BY <1>1, <1>3, <2>2 DEF ListsOf, BoardStage, LastStage
<1> QED BY <1>1, <1>2, <1>3 DEF BoardStage, LastStage

\* What holds of a manifest holds of it with one stage more, if it holds of the stage.
LEMMA AppendedHolds ==
  ASSUME Scope, NEW p, Manifested(p), Manifest(p), Referred(p),
         NEW m \in 1..LastStage, Len(p.sections) = m - 1,
         NEW s \in Section, NEW entries \in Seq(Entry),
         OfOneStage(entries, m), OwnersKnown(entries, ListsOf(m, p.entries))
  PROVE  LET q == Appended(p, s, entries)
         IN  /\ Manifested(q) /\ Referred(q)
             /\ Totals(p) /\ s.total # NoTotal => Totals(q)
             /\ \A n \in 1..m : ListsOf(n, q.entries) = ListsOf(n, p.entries)
             /\ Totals(p) => TotalsBefore(q)
             /\ /\ Whole(p)
                /\ entries = Captured(m, ListsOf(m, p.entries))
                => Whole(q)
<1> DEFINE q == Appended(p, s, entries)
           b == Len(p.entries)
           c == Len(entries)
<1>1. q.sections = Append(p.sections, s) /\ q.entries = p.entries \o entries
  BY DEF Appended, Snapshot
<1>2. m \in 1..7 /\ m \in Nat
  BY DEF LastStage
<1>3. p.sections \in Seq(Section) /\ p.entries \in Seq(Entry)
  BY DEF Manifested
<1>4. /\ q.sections \in Seq(Section) /\ DOMAIN p.sections = 1..(m - 1) /\ DOMAIN q.sections = 1..m
      /\ (\A i \in 1..(m - 1) : q.sections[i] = p.sections[i]) /\ q.sections[m] = s
  <2> DEFINE t == Append(p.sections, s)
  <2>1. t \in Seq(Section) /\ Len(t) = m /\ \A i \in 1..(m - 1) : t[i] = p.sections[i]
    BY <1>2, <1>3
  <2>2. t[m] = s
    BY <1>2, <1>3
  <2> HIDE DEF t
  <2>3. DOMAIN t = 1..m /\ DOMAIN p.sections = 1..(m - 1)
    BY <1>2, <1>3, <2>1
  <2> QED BY <1>1, <2>1, <2>2, <2>3 DEF t
<1>5. Listed(p.entries) /\ Listed(entries)
  BY <1>3 DEF Listed
<1>6. /\ q.entries \in Seq(Entry) /\ b \in Nat /\ c \in Nat
      /\ DOMAIN p.entries = 1..b /\ DOMAIN entries = 1..c /\ DOMAIN q.entries = 1..(b + c)
      /\ \A i \in 1..(b + c) : q.entries[i] = IF i <= b THEN p.entries[i] ELSE entries[i - b]
  <2>1. q.entries \in Seq(Entry)
    BY <1>1, <1>3
  <2> QED BY <1>1, <1>5, <2>1, Joined
<1> HIDE DEF q, b, c
<1>7. \A k \in 1..b : p.entries[k].stage \in 1..(m - 1)
  BY <1>6 DEF Manifest
<1>8. \A n \in 1..m : ListsOf(n, q.entries) = ListsOf(n, p.entries)
  BY <1>1, <1>3, ListsStay
<1>9. Referred(q)
  <2> SUFFICES ASSUME NEW k \in 1..(b + c)
               PROVE  q.entries[k].owner \in OwnersOf(ListsOf(q.entries[k].stage, q.entries))
    BY <1>6 DEF Referred
  <2>1. CASE k <= b
    <3>1. k \in 1..b /\ q.entries[k] = p.entries[k]
      BY <1>6, <2>1
    <3>2. p.entries[k].stage \in 1..m
      BY <1>2, <1>7, <3>1
    <3>3. p.entries[k].owner \in OwnersOf(ListsOf(p.entries[k].stage, p.entries))
      BY <1>6, <3>1 DEF Referred
    <3> QED BY <1>8, <3>1, <3>2, <3>3
  <2>2. CASE ~(k <= b)
    <3>1. k - b \in 1..c /\ q.entries[k] = entries[k - b]
      BY <1>6, <2>2
    <3>2. /\ entries[k - b].stage = m
          /\ entries[k - b].owner \in OwnersOf(ListsOf(m, p.entries))
      BY <1>6, <3>1 DEF OwnersKnown, OfOneStage
    <3>3. m \in 1..m
      BY <1>2
    <3> QED BY <1>8, <3>1, <3>2, <3>3
  <2> QED BY <2>1, <2>2
<1>10. Totals(p) /\ s.total # NoTotal => Totals(q)
  <2>1. \A n \in 1..m : n \in 1..(m - 1) \/ n = m
    BY <1>2
  <2> QED BY <1>4, <2>1 DEF Totals
<1>11. ASSUME Whole(p), entries = Captured(m, ListsOf(m, p.entries))
       PROVE  Whole(q)
  <2> SUFFICES ASSUME NEW n \in 1..m
               PROVE  OfStage(q.entries, n) = Captured(n, ListsOf(n, q.entries))
    BY <1>4 DEF Whole
  <2>1. CASE n = m
    <3>1. NoneOfStage(p.entries, n)
      BY <1>2, <1>6, <1>7, <2>1 DEF NoneOfStage
    <3>2. OfStage(p.entries, n) = <<>>
      BY <1>3, <3>1, NothingOfStage
    <3>3. OfStage(q.entries, n) = OfStage(p.entries, n) \o entries
      <4>1. OfStage(p.entries \o entries, n) = OfStage(p.entries, n) \o entries
        BY <1>3, <2>1, StageOfJoined
      <4> QED BY <1>1, <4>1
    <3>4. <<>> \o entries = entries
      OBVIOUS
    <3> QED BY <1>8, <1>11, <2>1, <3>2, <3>3, <3>4
  <2>2. CASE n # m
    <3>1. n \in 1..(m - 1)
      BY <1>2, <2>2
    <3>2. OfStage(q.entries, n) = OfStage(p.entries, n)
      BY <1>1, <1>3, <2>2, StageOfJoined
    <3>3. OfStage(p.entries, n) = Captured(n, ListsOf(n, p.entries))
      BY <1>4, <1>11, <3>1 DEF Whole
    <3> QED BY <1>8, <3>2, <3>3
  <2> QED BY <2>1, <2>2
<1>12. Manifested(q)
  BY <1>4, <1>6 DEF Manifested
<1>13. Totals(p) => TotalsBefore(q)
  <2>1. Len(q.sections) = m
    BY <1>2, <1>4
  <2> QED BY <1>4, <2>1 DEF Totals, TotalsBefore
<1> QED BY <1>8, <1>9, <1>10, <1>11, <1>12, <1>13 DEF q

\* The stages without lists have nothing to hold.
LEMMA WithoutListsHold ==
  ASSUME Scope, NEW p, Manifested(p), Manifest(p), Referred(p),
         NEW n \in 1..LastStage, Len(p.sections) = n,
         n < LastStage => ListsOf(n + 1, p.entries) = <<>>
  PROVE  LET q == WithoutLists(p, n)
         IN  /\ Manifested(q) /\ Referred(q)
             /\ Totals(p) => Totals(q)
             /\ Whole(p) => Whole(q)
<1> DEFINE q == WithoutLists(p, n)
           t == [k \in 1..(LastStage - n) |-> NothingRead(n + k)]
<1>1. CASE n = LastStage
  BY <1>1 DEF WithoutLists
<1>2. CASE n # LastStage
  <2>1. n \in Nat /\ n < 7 /\ n \in 1..7
    BY <1>2 DEF LastStage
  <2>2. /\ t \in Seq(Section) /\ Len(t) = 7 - n
        /\ \A k \in 1..(7 - n) : t[k] = NothingRead(n + k) /\ t[k].total # NoTotal
    <3>1. \A i \in 1..7 : NothingRead(i) \in Section /\ NothingRead(i).total # NoTotal
      BY DEF NothingRead, Section, LastStage, NoTotal
    <3>2. \A k \in 1..(7 - n) : n + k \in 1..7
      BY <2>1
    <3>3. t = [k \in 1..(7 - n) |-> NothingRead(n + k)]
      BY DEF LastStage
    <3>4. t \in [1..(7 - n) -> Section]
      BY <3>1, <3>2, <3>3
    <3>5. \A k \in 1..(7 - n) : t[k] = NothingRead(n + k)
      BY <3>3
    <3> HIDE DEF t
    <3>6. 7 - n \in Nat
      BY <2>1
    <3>7. t \in Seq(Section) /\ Len(t) = 7 - n
      BY <3>4, <3>6
    <3> QED BY <3>1, <3>2, <3>5, <3>7
  <2>3. q.sections = p.sections \o t /\ q.entries = p.entries
    BY <1>2 DEF WithoutLists, Manifest, Snapshot
  <2> HIDE DEF q, t
  <2>4. p.sections \in Seq(Section) /\ p.entries \in Seq(Entry)
    BY DEF Manifested
  <2>5. q.sections \in Seq(Section)
    BY <2>2, <2>3, <2>4
  <2>6. Listed(p.sections) /\ Listed(t)
    BY <2>2, <2>4 DEF Listed
  <2>7. /\ DOMAIN p.sections = 1..n /\ DOMAIN q.sections = 1..(n + (7 - n))
        /\ \A i \in 1..(n + (7 - n)) : q.sections[i] = IF i <= n THEN p.sections[i] ELSE t[i - n]
    <3>1. /\ DOMAIN p.sections = 1..Len(p.sections)
          /\ DOMAIN (p.sections \o t) = 1..(Len(p.sections) + Len(t))
          /\ \A i \in 1..(Len(p.sections) + Len(t)) :
               (p.sections \o t)[i] = IF i <= Len(p.sections) THEN p.sections[i]
                                      ELSE t[i - Len(p.sections)]
      BY <2>6, Joined
    <3> DEFINE whole == p.sections \o t
    <3>2. /\ DOMAIN p.sections = 1..n /\ DOMAIN whole = 1..(n + (7 - n))
          /\ \A i \in 1..(n + (7 - n)) :
               whole[i] = IF i <= n THEN p.sections[i] ELSE t[i - n]
      BY <2>2, <3>1
    <3> HIDE DEF whole
    <3> QED BY <2>3, <3>2 DEF whole
  <2>8. DOMAIN q.sections = 1..7
    BY <2>1, <2>7
  <2>9. \A i \in 1..n : i \in 1..7 /\ q.sections[i] = p.sections[i]
    <3>1. \A i \in 1..n : i \in 1..7 /\ i \in 1..(n + (7 - n)) /\ i <= n
      BY <2>1
    <3> QED BY <2>7, <3>1
  <2>10. \A i \in 1..7 : i \notin 1..n => q.sections[i].total # NoTotal
    <3>1. \A i \in 1..7 : i \notin 1..n => /\ i \in 1..(n + (7 - n)) /\ ~(i <= n)
                                          /\ i - n \in 1..(7 - n)
      BY <2>1
    <3> QED BY <2>2, <2>7, <3>1
  <2>11. Totals(p) => Totals(q)
    BY <2>7, <2>8, <2>9, <2>10 DEF Totals
  <2>12. \A k \in DOMAIN p.entries : p.entries[k].stage \in 1..n
    BY DEF Manifest
  <2>13. ASSUME NEW i \in 1..7, i \notin 1..n
         PROVE  OfStage(p.entries, i) = <<>> /\ ListsOf(i, p.entries) = <<>>
    <3>1. NoneOfStage(p.entries, i)
      BY <2>12, <2>13 DEF NoneOfStage
    <3>2. OfStage(p.entries, i) = <<>>
      BY <2>4, <3>1, NothingOfStage
    <3>3. CASE i = n + 1
      BY <2>1, <3>2, <3>3 DEF LastStage
    <3>4. CASE i # n + 1
      <4>1. n + 1 <= 6 /\ i > n + 1
        BY <2>1, <2>13, <3>4
      <4>2. n + 1 = 6
        <5>1. ListsOf(n + 1, p.entries) = <<>>
          BY <2>1 DEF LastStage
        <5>2. n + 1 < 6 => ListsOf(n + 1, p.entries) = << <<Kinds[n + 1], Site>> >>
          BY <2>1 DEF ListsOf, BoardStage
        <5>3. \A x : <<x>> # <<>>
          OBVIOUS
        <5>4. ~(n + 1 < 6)
          BY <5>1, <5>2, <5>3
        <5> QED BY <2>1, <4>1, <5>4
      <4>3. i = 7 /\ 6 \notin 1..n
        BY <2>1, <2>13, <4>1, <4>2
      <4>4. NoneOfStage(p.entries, 6)
        BY <2>12, <4>3 DEF NoneOfStage
      <4>5. OfStage(p.entries, 6) = <<>>
        BY <2>4, <4>4, NothingOfStage
      <4>6. ListsOf(i, p.entries) = <<>>
        BY <4>3, <4>5 DEF ListsOf, BoardStage
      <4> QED BY <3>2, <4>6
    <3> QED BY <3>3, <3>4
  <2>14. \A i : Captured(i, <<>>) = <<>>
    <3>1. FlattenSeq(<<>>) = <<>>
      BY DEF FlattenSeq
    <3>2. \A i : Parts(i, <<>>) = <<>>
      BY DEF Parts
    <3> QED BY <3>1, <3>2 DEF Captured
  <2>15. Whole(p) => Whole(q)
    BY <2>3, <2>7, <2>8, <2>13, <2>14 DEF Whole
  <2> QED BY <2>3, <2>4, <2>5, <2>11, <2>15 DEF Manifested, Referred, q
<1> QED BY <1>1, <1>2

-----------------------------------------------------------------------------
(* Pages and turns.                                                        *)

\* The lists of a stage and what they give depend on Jira and the projects in scope.
LEMMA SameLists ==
  ASSUME UNCHANGED <<jira, projects>>
  PROVE  /\ \A n, es : ListsOf(n, es)' = ListsOf(n, es)
         /\ \A n, lists : Captured(n, lists)' = Captured(n, lists)
         /\ \A l : Held(l)' = Held(l)
         /\ \A p : (Whole(p)' <=> Whole(p)) /\ (Referred(p)' <=> Referred(p))
         /\ \A c, l : ReadTrue(c, l)' <=> ReadTrue(c, l)
<1>1. \A n, es : ListsOf(n, es)' = ListsOf(n, es)
  BY DEF ListsOf
<1>2. \A l : Held(l)' = Held(l)
  BY DEF Held
<1>3. \A n, lists : Captured(n, lists)' = Captured(n, lists)
  BY <1>2 DEF Captured, Parts, Wanted
<1>4. \A p : (Whole(p)' <=> Whole(p)) /\ (Referred(p)' <=> Referred(p))
  BY <1>1, <1>3 DEF Whole, Referred
<1>5. \A c, l : ReadTrue(c, l)' <=> ReadTrue(c, l)
  BY <1>2 DEF ReadTrue
<1> QED BY <1>1, <1>2, <1>3, <1>4, <1>5

\* What is said of the fields depends on Jira and what was done to it.
LEMMA SameFields ==
  ASSUME UNCHANGED <<jira, projects, edits>>
  PROVE  \A rest, entries : FieldsHalfway(rest, entries)' <=> FieldsHalfway(rest, entries)
BY SameLists DEF FieldsHalfway

\* Of a list nobody edits the pages are the list so far, and at the end as much of it as
\* the server gave: never more than it reported, and all of it if as much.
LEMMA PageTrue ==
  ASSUME Reading, ReadTrue(cursor, Head(todo))
  PROVE  LET list == Held(Head(todo))
         IN  /\ Len(After.items) <= After.total
             /\ Len(After.items) = After.total => After.items = list
             /\ Flat(Head(todo)) => After.items = list
             /\ ~Complete => ReadTrue(After, Head(todo))
<1> DEFINE l == Head(todo)
           list == Held(l)
           start == StartAt(cursor)
           size == PageSize(l)
           end == IF start + size < Len(list) THEN start + size ELSE Len(list)
<1>1. list \in Seq(Ids)
  BY DEF Reading, Held
<1>2. /\ start \in Nat /\ size \in Nat \ {0} /\ start = Len(cursor.items)
      /\ cursor.items \in Seq(Ids) /\ cursor.total \in Nat /\ cursor.pages \in Nat
  BY PageAssumption DEF Reading, StartAt, PageSize
<1>3. /\ start <= Len(list) /\ cursor.items = SubSeq(list, 1, start)
      /\ cursor.pages > 0 => cursor.total = Len(list)
      /\ Flat(l) => cursor = Start
  BY DEF ReadTrue, StartAt
<1>4. Page = IF Flat(l) THEN FlatPage(list) ELSE ServedPage(list, start, size)
  BY DEF Page
<1>5. /\ After.items = cursor.items \o Page.items /\ After.pages = cursor.pages + 1
      /\ After.total = IF cursor.pages = 0 THEN Page.total ELSE cursor.total
  BY DEF After, Advance
<1>6. Page.total = Len(list)
  BY <1>4 DEF FlatPage, ServedPage
<1> HIDE DEF l, list, start, size
<1>7. After.total = Len(list) /\ After.pages > 0
  BY <1>2, <1>3, <1>5, <1>6
<1>8. Len(list) \in Nat /\ SubSeq(list, 1, Len(list)) = list
  BY <1>1
<1>9. CASE Flat(l)
  <2>1. cursor.items = <<>>
    <3>1. cursor = Start
      BY <1>3, <1>9
    <3> QED BY <3>1 DEF Start
  <2>2. Page.items = list /\ Page.isLast
    BY <1>4, <1>9 DEF FlatPage
  <2>3. After.items = list
    BY <1>1, <1>5, <2>1, <2>2
  <2>4. Complete
    BY <2>2 DEF Complete, Terminates
  <2> QED BY <1>7, <1>8, <2>3, <2>4 DEF list, l
<1>10. CASE ~Flat(l)
  <2>1. Page.items = SubSeq(list, start + 1, end)
    BY <1>4, <1>10 DEF ServedPage
  <2>2. end \in 0..Len(list) /\ start \in 0..end
    BY <1>2, <1>3, <1>8
  <2> HIDE DEF end
  <2>3. SubSeq(list, 1, end) = SubSeq(list, 1, start) \o SubSeq(list, start + 1, end)
    BY <1>1, <2>2, Cut
  <2>4. After.items = SubSeq(list, 1, end)
    BY <1>3, <1>5, <2>1, <2>3
  <2>5. Len(After.items) = end
    <3>1. \A i \in 1..end : list[i] \in Ids
      BY <1>1, <1>8, <2>2
    <3>2. end \in Nat
      BY <1>8, <2>2
    <3>3. Len(SubSeq(list, 1, end)) = end
      BY <3>1, <3>2, SubSeqProperties
    <3> QED BY <2>4, <3>3
  <2>6. end <= Len(list)
    BY <1>8, <2>2
  <2>7. ReadTrue(After, l)
    BY <1>7, <1>10, <2>4, <2>5, <2>6 DEF ReadTrue, list
  <2>8. Len(After.items) = After.total => After.items = list
    BY <1>7, <1>8, <2>4, <2>5
  <2> QED BY <1>7, <1>10, <2>5, <2>6, <2>7, <2>8 DEF l, list
<1> QED BY <1>9, <1>10

\* Nothing has been read of a list that is begun.
LEMMA ReadStart ==
  ASSUME Reading
  PROVE  \A l : ReadTrue(Start, l)
<1> SUFFICES ASSUME NEW l PROVE ReadTrue(Start, l)
  OBVIOUS
<1>1. Held(l) \in Seq(Ids)
  BY DEF Reading, Held
<1> DEFINE list == Held(l)
<1> HIDE DEF list
<1>2. Len(list) \in Nat /\ SubSeq(list, 1, 0) = <<>>
  BY <1>1 DEF list
<1>3. Start.items = <<>> /\ Len(Start.items) = 0 /\ Start.pages = 0
  BY DEF Start
<1> QED BY <1>2, <1>3 DEF ReadTrue, list

\* The stage is in the manifest p: what holds where the run goes on.
LEMMA BeginsHold ==
  ASSUME Reading, Scope, UNCHANGED <<jiraVars, projects>>,
         NEW p, Manifested(p), Manifest(p), Referred(p), Totals(p),
         ~broken' /\ edits = 0 => Whole(p),
         stage \in 1..LastStage, Len(p.sections) = stage, BeginAfter(stage, p)
  PROVE  /\ Manifested(point') /\ Totals(point') /\ Referred(point)'
         /\ ~broken' /\ edits = 0 => Whole(point)'
         /\ Listing(todo')
         /\ \/ /\ stage' = stage + 1 /\ stage' \in 1..LastStage /\ UNCHANGED pc
               /\ cursor' = Start /\ got' = <<>> /\ reported' = 0 /\ skipped' = <<>>
               /\ Asked'
            \/ /\ pc' = "returned" /\ UNCHANGED <<stage, got, reported, skipped>>
<1> DEFINE next == ListsOf(stage + 1, p.entries)
<1>1. p.entries \in Seq(Entry) /\ stage \in 1..7
  BY DEF Manifested, LastStage
<1>2. CASE stage < LastStage /\ next # <<>> /\ point' = p
  <2>1. /\ stage' = stage + 1 /\ todo' = next /\ UNCHANGED pc
        /\ cursor' = Start /\ got' = <<>> /\ reported' = 0 /\ skipped' = <<>>
    BY <1>2 DEF BeginAfter
  <2>2. stage' \in 1..LastStage
    BY <1>1, <1>2, <2>1 DEF LastStage
  <2>3. /\ Listing(next) /\ \A k \in DOMAIN next : next[k][1] = Kinds[stage + 1]
    BY <1>1, <2>1, <2>2, ListsTyped
  <2>4. next = ListsOf(stage, point.entries)'
    BY <1>2, <2>1, SameLists DEF jiraVars
  <2>5. OwnersKnown(got', next)
    BY <2>1 DEF OwnersKnown
  <2>6. stage' = FieldStage => FieldsToRead(todo') /\ FieldsHalfway(todo, got)'
    <3> SUFFICES ASSUME stage' = FieldStage PROVE FieldsToRead(todo') /\ FieldsHalfway(todo, got)'
      OBVIOUS
    <3>1. todo' = FieldList
      BY <1>1, <2>1 DEF FieldList, FieldStage, ListsOf, BoardStage, Kinds
    <3> QED BY <2>1, <3>1 DEF FieldsToRead, FieldsHalfway
  <2> HIDE DEF next
  <2>7. \A lists, n : Listed(lists) => Halfway(lists, lists, <<>>, 0, n)'
    <3>1. Listed(<<>>) /\ Len(<<>>) = 0
      BY NoList
    <3>2. \A lists : Listed(lists) => lists = <<>> \o lists
      BY DEF Listed
    <3>3. \A n : Captured(n, <<>>)' = <<>>
      <4>1. FlattenSeq(<<>>) = <<>>
        BY DEF FlattenSeq
      <4>2. \A n : Parts(n, <<>>)' = <<>>
        BY DEF Parts
      <4> QED BY <4>1, <4>2 DEF Captured
    <3> SUFFICES ASSUME NEW lists, NEW n, Listed(lists)
                 PROVE  Halfway(lists, lists, <<>>, 0, n)'
      OBVIOUS
    <3> DEFINE none == <<>>
    <3>4. /\ Listed(none) /\ Len(none) <= 0 /\ lists = none \o lists
          /\ none = Captured(n, none)' /\ none = <<>>
      BY <3>1, <3>2, <3>3
    <3> HIDE DEF none
    <3> QED BY <3>4 DEF Halfway
  <2>8. Asked'
    <3>1. Halfway(ListsOf(stage, point.entries), todo, got, reported, stage)'
      <4>1. PICK lists : lists = next
        OBVIOUS
      <4>2. /\ ListsOf(stage, point.entries)' = lists /\ todo' = lists /\ got' = <<>>
            /\ reported' = 0 /\ Listed(lists)
        BY <2>1, <2>3, <2>4, <4>1 DEF Listing
      <4>3. PICK n : n = stage'
        OBVIOUS
      <4>4. Halfway(lists, lists, <<>>, 0, n)'
        BY <2>7, <4>2
      <4> QED BY <4>2, <4>3, <4>4
    <3> QED BY <1>2, <2>1, <2>4, <2>5, <2>6, <3>1 DEF Asked
  <2>9. /\ Manifested(point') /\ Totals(point') /\ Referred(point)'
        /\ ~broken' /\ edits = 0 => Whole(point)'
    BY <1>2, SameLists DEF jiraVars
  <2> QED BY <2>1, <2>2, <2>3, <2>8, <2>9
<1>3. CASE /\ stage < LastStage => next = <<>>
           /\ point' = WithoutLists(p, stage) /\ todo' = <<>> /\ pc' = "returned"
           /\ UNCHANGED <<stage, got, reported, skipped>>
  <2>1. /\ Manifested(point') /\ Totals(point') /\ Referred(WithoutLists(p, stage))
        /\ ~broken' /\ edits = 0 => Whole(WithoutLists(p, stage))
    BY <1>3, WithoutListsHold
  <2>2. PICK q : q = WithoutLists(p, stage)
    OBVIOUS
  <2>3. Referred(point)' /\ (~broken' /\ edits = 0 => Whole(point)')
    BY <1>3, <2>1, <2>2, SameLists DEF jiraVars
  <2>4. Listing(todo')
    BY <1>3, NoList DEF Listing
  <2> QED BY <1>3, <2>1, <2>3, <2>4
<1> QED BY <1>2, <1>3 DEF BeginAfter

-----------------------------------------------------------------------------
(* The turns of the run keep it.                                           *)

\* What is said of the lists of a stage when these are still to be read.
Onward(rest, entries, total, skip) ==
  IF stage = FieldStage THEN (rest # <<>> => FieldsToRead(rest)) /\ FieldsHalfway(rest, entries)
  ELSE /\ skip = <<>>
       /\ Halfway(ListsOf(stage, point.entries), rest, entries, total, stage)

\* A list of the stage is done with.
LEMMA ListDoneHolds ==
  ASSUME CInv, WInv, pc = "page", stage > 0, UNCHANGED <<jiraVars, projects, halted>>,
         NEW entries \in Seq(Entry), NEW total \in Nat, NEW skip \in Seq(Ids), NEW more,
         OfOneStage(entries, stage), OwnersKnown(entries, ListsOf(stage, point.entries)),
         Listing(more \o Tail(todo)), Onward(more \o Tail(todo), entries, total, skip),
         ListDone(entries, total, skip, more)
  PROVE  WInv'
<1>1. stage \in 1..LastStage /\ Len(point.sections) = stage - 1 /\ stage \in Nat /\ ~halted
  BY DEF CInv, Reached, LastStage
<1>2. Reading /\ Manifest(point) /\ CTypes
  BY DEF CInv, WInv
<1>3. /\ Scope /\ Manifested(point) /\ Referred(point) /\ Totals(point)
      /\ ~broken /\ edits = 0 => Whole(point)
  BY <1>1, <1>2 DEF CTypes
<1>4. UNCHANGED <<jira, projects, edits, cap, halted>>
  BY DEF jiraVars
<1>5. Scope'
  BY <1>3, <1>4 DEF Scope
<1>6. \A l : ReadTrue(Start, l)'
  BY <1>2, <1>4, ReadStart, SameLists
<1>7. CASE more \o Tail(todo) # <<>>
  <2> DEFINE rest == more \o Tail(todo)
  <2>1. /\ todo' = rest /\ cursor' = Start /\ got' = entries /\ reported' = total
        /\ skipped' = skip /\ UNCHANGED <<pc, stage, broken, point>>
    BY <1>7 DEF ListDone
  <2>2. PICK r : r = rest
    OBVIOUS
  <2>3. r # <<>> /\ todo' = r /\ Listing(r) /\ Onward(r, entries, total, skip)
    BY <1>7, <2>1, <2>2
  <2> HIDE DEF rest
  <2>4. PICK lists : lists = ListsOf(stage, point.entries)
    OBVIOUS
  <2>5. lists = ListsOf(stage, point.entries)'
    BY <1>4, <2>1, <2>4, SameLists
  <2>6. ASSUME stage # FieldStage PROVE Halfway(lists, r, entries, total, stage)'
    <3>1. Halfway(lists, r, entries, total, stage)
      BY <2>3, <2>4, <2>6 DEF Onward
    <3>2. PICK read : /\ Listed(read) /\ lists = read \o r
                      /\ edits = 0 => /\ Len(entries) <= total
                                      /\ Len(entries) = total => entries = Captured(stage, read)
      BY <3>1 DEF Halfway
    <3>3. Captured(stage, read)' = Captured(stage, read)
      BY <1>4, <2>1, SameLists
    <3> QED BY <1>4, <3>2, <3>3 DEF Halfway
  <2>7. Asked'
    <3>1. OwnersKnown(got, ListsOf(stage, point.entries))'
      BY <2>1, <2>4, <2>5 DEF OwnersKnown
    <3>2. stage' = FieldStage => FieldsToRead(todo') /\ FieldsHalfway(todo, got)'
      <4>1. stage = FieldStage => FieldsToRead(r) /\ FieldsHalfway(r, entries)
        BY <2>3 DEF Onward
      <4>2. FieldsHalfway(r, entries)' <=> FieldsHalfway(r, entries)
        BY <1>4, SameFields
      <4> QED BY <2>1, <2>3, <4>1, <4>2 DEF FieldsHalfway
    <3>3. stage' # FieldStage =>
            /\ skipped' = <<>> /\ todo' # <<>>
            /\ Halfway(ListsOf(stage, point.entries), todo, got, reported, stage)'
      BY <2>1, <2>3, <2>5, <2>6 DEF Onward
    <3> QED BY <3>1, <3>2, <3>3 DEF Asked
  <2>8. Beginning'
    BY <1>1, <2>1 DEF Beginning
  <2>9. CursorTrue'
    BY <1>6, <2>1 DEF CursorTrue
  <2>10. /\ Manifested(point') /\ Referred(point)' /\ Totals(point')
         /\ ~broken' /\ edits' = 0 => Whole(point)'
    BY <1>3, <1>4, <2>1, SameLists
  <2>11. CTypes'
    BY <1>2, <1>4, <1>5, <2>1, <2>3, <2>10 DEF CTypes
  <2> QED BY <2>7, <2>8, <2>9, <2>11 DEF WInv
<1>8. CASE more \o Tail(todo) = <<>>
  <2> DEFINE s == [stage |-> stage, captured |-> Len(entries), skipped |-> Len(skip),
                   total |-> total]
             q == Appended(point, s, entries)
  <2>1. BeginAfter(stage, q) /\ broken' = (broken \/ ~Consistent(s))
    BY <1>8 DEF ListDone, CloseStage
  <2>2. /\ s \in Section /\ s.total # NoTotal /\ s.stage = stage /\ s.captured = Len(entries)
        /\ Consistent(s) => Len(entries) + Len(skip) = total
    <3>1. total # NoTotal
      BY DEF NoTotal
    <3>2. Len(entries) \in Nat /\ Len(skip) \in Nat
      OBVIOUS
    <3> QED BY <1>1, <3>1, <3>2 DEF Section, Consistent
  <2> HIDE DEF s
  <2>3. PICK p : p = point
    OBVIOUS
  <2>4. Listed(entries) /\ \A k \in DOMAIN entries : entries[k].stage = stage
    BY DEF Listed, OfOneStage
  <2>5. Manifest(q) /\ Len(q.sections) = stage
    BY <1>1, <1>2, <2>2, <2>4, AppendedManifest
  <2>6. /\ Manifested(q) /\ Referred(q) /\ Totals(q)
        /\ /\ Whole(point)
           /\ entries = Captured(stage, ListsOf(stage, point.entries))
           => Whole(q)
    BY <1>1, <1>2, <1>3, <2>2, AppendedHolds
  <2>7. ~broken' /\ edits = 0 => Whole(q)
    <3> SUFFICES ASSUME ~broken', edits = 0 PROVE Whole(q)
      OBVIOUS
    <3>0. edits = 0
      OBVIOUS
    <3>1. ~broken /\ Consistent(s)
      BY <2>1
    <3>2. ASSUME stage # FieldStage
          PROVE  entries = Captured(stage, ListsOf(stage, point.entries))
      <4>1. PICK lists : lists = ListsOf(stage, point.entries)
        OBVIOUS
      <4>2. skip = <<>> /\ Halfway(lists, <<>>, entries, total, stage)
        BY <1>8, <3>2, <4>1 DEF Onward
      <4>3. Len(entries) = total
        <5>1. Len(skip) = 0 /\ Len(entries) \in Nat
          BY <4>2
        <5> QED BY <2>2, <3>1, <5>1
      <4>4. PICK read : Listed(read) /\ lists = read \o <<>> /\ entries = Captured(stage, read)
        BY <4>2, <4>3 DEF Halfway
      <4>5. lists = read
        BY <4>4 DEF Listed
      <4> QED BY <4>1, <4>4, <4>5
    <3>3. ASSUME stage = FieldStage
          PROVE  entries = Captured(stage, ListsOf(stage, point.entries))
      <4>1. FieldsHalfway(<<>>, entries)
        BY <1>8, <3>3 DEF Onward
      <4>2. <<>> # FieldList
        BY DEF FieldList
      <4>3. entries \o FieldEntries(<<>>) = Captured(FieldStage, FieldList)
        BY <3>0, <4>1, <4>2 DEF FieldsHalfway
      <4>4. entries \o FieldEntries(<<>>) = entries
        BY NoList, FieldMoved
      <4>5. ListsOf(FieldStage, point.entries) = FieldList
        BY DEF ListsOf, FieldStage, BoardStage, Kinds, FieldList
      <4> QED BY <3>3, <4>3, <4>4, <4>5
    <3> QED BY <1>3, <2>6, <3>0, <3>1, <3>2, <3>3
  <2> HIDE DEF q
  <2>8. PICK c : c = q
    OBVIOUS
  <2>9. /\ Manifested(point') /\ Totals(point') /\ Referred(point)'
        /\ ~broken' /\ edits = 0 => Whole(point)'
        /\ Listing(todo')
        /\ \/ /\ stage' = stage + 1 /\ stage' \in 1..LastStage /\ UNCHANGED pc
              /\ cursor' = Start /\ got' = <<>> /\ reported' = 0 /\ skipped' = <<>>
              /\ Asked'
           \/ /\ pc' = "returned" /\ UNCHANGED <<stage, got, reported, skipped>>
    <3>1. /\ Manifested(c) /\ Manifest(c) /\ Referred(c) /\ Totals(c)
          /\ Len(c.sections) = stage /\ BeginAfter(stage, c)
      BY <2>1, <2>5, <2>6, <2>8
    <3>2. ~broken' /\ edits = 0 => Whole(c)
      BY <2>7, <2>8
    <3> QED BY <1>1, <1>2, <1>3, <3>1, <3>2, BeginsHold
  <2>10. broken' \in BOOLEAN
    BY <2>1
  <2>11. got' \in Seq(Entry) /\ reported' \in Nat /\ skipped' \in Seq(Ids)
    <3>1. <<>> \in Seq(Entry) /\ <<>> \in Seq(Ids) /\ 0 \in Nat
      OBVIOUS
    <3> QED BY <1>2, <2>9, <3>1 DEF CTypes
  <2>12. CTypes'
    BY <1>1, <1>2, <1>4, <1>5, <2>9, <2>10, <2>11 DEF CTypes
  <2>13. Asked' /\ Beginning' /\ CursorTrue'
    <3>1. CASE /\ stage' = stage + 1 /\ stage' \in 1..LastStage /\ UNCHANGED pc
               /\ cursor' = Start /\ Asked'
      <4>1. stage' # 0
        BY <1>1, <3>1
      <4> QED BY <1>6, <3>1, <4>1 DEF Beginning, CursorTrue
    <3>2. CASE pc' = "returned" /\ UNCHANGED stage
      <4>1. stage' # 0
        BY <1>1, <3>2
      <4> QED BY <3>2, <4>1 DEF Asked, Beginning, CursorTrue
    <3> QED BY <2>9, <3>1, <3>2
  <2> QED BY <2>12, <2>13 DEF WInv
<1> QED BY <1>7, <1>8

\* The list being read is one of the stage's, of its kind; the entries read of it come to
\* those of the lists before.
LEMMA ListReadHolds ==
  ASSUME CInv, WInv, ListRead
  PROVE  WInv'
<1> DEFINE l == Head(todo)
           new == EntriesFrom(stage, l, After.items)
           lists == ListsOf(stage, point.entries)
           rest == Tail(todo)
<1>1. /\ pc = "page" /\ stage > 0 /\ l[1] \notin {"field", "context"} /\ Complete
      /\ ListDone(got \o new, reported + After.total, skipped, <<>>)
      /\ UNCHANGED <<jiraVars, projects, halted>>
  BY DEF ListRead
<1>2. stage \in 1..LastStage /\ Reading /\ CTypes
  BY <1>1 DEF CInv, WInv, Reached, LastStage
<1>3. /\ OwnersKnown(got, lists) /\ (stage = FieldStage => FieldsToRead(todo))
      /\ stage # FieldStage =>
           skipped = <<>> /\ todo # <<>> /\ Halfway(lists, todo, got, reported, stage)
  BY <1>1 DEF WInv, Asked
<1>4. Listed(todo) /\ got \in Seq(Entry) /\ reported \in Nat /\ skipped \in Seq(Ids) /\ Scope
      /\ Manifested(point) /\ \A k \in DOMAIN todo : todo[k][2] \in Owners
  BY <1>2 DEF CTypes, Listing
<1>5. stage # FieldStage
  <2> SUFFICES ASSUME FieldsToRead(todo) PROVE FALSE
    BY <1>3
  <2>1. todo # <<>> /\ l \in {todo[k] : k \in DOMAIN todo}
    <3>1. todo # <<>>
      BY DEF FieldsToRead, FieldList
    <3> QED BY <1>4, <3>1 DEF Listed
  <2> QED BY <1>1, <2>1 DEF FieldsToRead, FieldList
<1>6. PICK read : /\ Listed(read) /\ lists = read \o todo
                  /\ edits = 0 => /\ Len(got) <= reported
                                  /\ Len(got) = reported => got = Captured(stage, read)
  BY <1>3, <1>5 DEF Halfway
<1>7. todo # <<>>
  BY <1>3, <1>5
<1>8. Listing(lists)
  BY <1>2, <1>4, ListsTyped DEF Manifested
<1> HIDE DEF l, lists, rest
<1>9. /\ Listed(rest) /\ Listed(Append(read, l)) /\ lists = Append(read, l) \o rest
      /\ l \in Elements(lists) /\ Elements(read) \subseteq Elements(lists)
      /\ Elements(rest) \subseteq Elements(todo)
  BY <1>4, <1>6, <1>7, HeadMoved DEF l, rest
<1>10. l[2] \in OwnersOf(lists) /\ l[2] \in Owners /\ Listing(read) /\ Listing(rest)
  <2>1. l[2] \in OwnersOf(lists) /\ l[2] \in Owners
    BY <1>8, <1>9 DEF OwnersOf, Listing, Elements
  <2>2. Listing(read)
    BY <1>6, <1>8, <1>9 DEF Listing, Elements
  <2>3. Listing(rest)
    BY <1>4, <1>9 DEF Listing, Elements
  <2> QED BY <2>1, <2>2, <2>3
<1>11. After.items \in Seq(Ids) /\ After.total \in Nat
  BY <1>2, PageTypes
<1>12. /\ new \in Seq(Entry) /\ Len(new) = Len(After.items)
       /\ \A k \in DOMAIN new : new[k].stage = stage /\ new[k].owner = l[2]
  BY <1>2, <1>10, <1>11, EntriesTyped
<1> HIDE DEF new
<1>13. Listed(got) /\ Listed(new) /\ \A k \in DOMAIN got : got[k].stage = stage
  BY <1>4, <1>12 DEF CInv, Reading, Listed
<1>14. /\ DOMAIN got = 1..Len(got) /\ DOMAIN new = 1..Len(new)
       /\ Len(got) \in Nat /\ Len(new) \in Nat
       /\ Len(got \o new) = Len(got) + Len(new)
       /\ DOMAIN (got \o new) = 1..(Len(got) + Len(new))
       /\ \A i \in 1..(Len(got) + Len(new)) :
            (got \o new)[i] = IF i <= Len(got) THEN got[i] ELSE new[i - Len(got)]
  BY <1>13, Joined
<1> DEFINE entries == got \o new
<1>15. entries \in Seq(Entry)
  BY <1>4, <1>12
<1>16. \A i \in DOMAIN entries : \/ \E k \in DOMAIN got : entries[i] = got[k]
                                 \/ \E k \in DOMAIN new : entries[i] = new[k]
  <2>1. \A i \in 1..(Len(got) + Len(new)) :
          /\ i <= Len(got) => i \in 1..Len(got)
          /\ ~(i <= Len(got)) => i - Len(got) \in 1..Len(new)
    BY <1>14
  <2> QED BY <1>14, <2>1
<1> HIDE DEF entries
<1>17. OfOneStage(entries, stage) /\ OwnersKnown(entries, lists)
  BY <1>3, <1>10, <1>12, <1>13, <1>16 DEF OfOneStage, OwnersKnown
<1>18. ASSUME edits = 0
       PROVE  /\ Len(entries) <= reported + After.total
              /\ Len(entries) = reported + After.total => entries = Captured(stage, Append(read, l))
  <2>1. ReadTrue(cursor, Head(todo))
    BY <1>1, <1>18 DEF WInv, CursorTrue
  <2>2. /\ Len(After.items) <= After.total
        /\ Len(After.items) = After.total => After.items = Held(l)
    BY <1>2, <2>1, PageTrue DEF l
  <2>3. /\ Len(entries) = Len(got) + Len(new) /\ Len(new) <= After.total
        /\ Len(got) <= reported /\ Len(got) \in Nat /\ Len(new) \in Nat
    BY <1>6, <1>12, <1>14, <1>18, <2>2 DEF entries
  <2>4. Len(entries) <= reported + After.total
    BY <1>4, <1>11, <2>3
  <2>5. Len(entries) = reported + After.total => Len(got) = reported /\ Len(new) = After.total
    BY <1>4, <1>11, <2>3
  <2>6. Captured(stage, Append(read, l))
          = Captured(stage, read) \o EntriesFrom(stage, l, Held(l))
    BY <1>2, <1>5, <1>10, CapturedAppend DEF Wanted
  <2> QED BY <1>6, <1>12, <1>18, <2>2, <2>4, <2>5, <2>6 DEF entries, new
<1>19. Halfway(lists, rest, entries, reported + After.total, stage)
  BY <1>9, <1>18 DEF Halfway
<1>20. <<>> \o rest = rest
  BY <1>9 DEF Listed
<1>21. Listing(<<>> \o Tail(todo))
  BY <1>10, <1>20 DEF rest
<1>22. Onward(<<>> \o Tail(todo), entries, reported + After.total, skipped)
  BY <1>3, <1>5, <1>19, <1>20 DEF Onward, rest, lists
<1>23. reported + After.total \in Nat
  BY <1>4, <1>11
<1>24. ListDone(entries, reported + After.total, skipped, <<>>)
  BY <1>1 DEF entries, new, l
<1>25. OwnersKnown(entries, ListsOf(stage, point.entries))
  BY <1>17 DEF lists
<1>26. skipped \in Seq(Ids)
  BY <1>4
<1> DEFINE total == reported + After.total
<1> HIDE DEF total
<1>27. /\ total \in Nat /\ Onward(<<>> \o Tail(todo), entries, total, skipped)
       /\ ListDone(entries, total, skipped, <<>>)
  BY <1>22, <1>23, <1>24 DEF total
<1> QED BY <1>1, <1>15, <1>17, <1>21, <1>25, <1>26, <1>27, ListDoneHolds

\* Fields and contexts are read in the stage of the fields and in no other.
LEMMA FieldsOnly ==
  ASSUME CInv, WInv, pc = "page", Head(todo)[1] \in {"field", "context"}
  PROVE  stage = FieldStage /\ FieldsToRead(todo) /\ todo # <<>> /\ Head(todo) \in Elements(todo)
<1>1. stage \in 0..7 /\ (stage = 0 => todo = << <<"project", Site>> >>)
  BY DEF CInv, Reached, LastStage
<1>2. stage # 0
  <2>1. ASSUME stage = 0 PROVE FALSE
    <3>1. Head(todo)[1] = "project"
      BY <1>1, <2>1
    <3> QED BY <3>1
  <2> QED BY <2>1
<1>3. stage \in 1..LastStage /\ stage > 0
  BY <1>1, <1>2 DEF LastStage
<1>4. Asked /\ Listed(todo) /\ Scope /\ point.entries \in Seq(Entry)
  BY DEF WInv, CTypes, Listing, Manifested
<1>5. stage = FieldStage
  <2> SUFFICES ASSUME stage # FieldStage PROVE FALSE
    OBVIOUS
  <2> DEFINE lists == ListsOf(stage, point.entries)
  <2>1. todo # <<>> /\ Halfway(lists, todo, got, reported, stage)
    BY <1>3, <1>4 DEF Asked
  <2>2. \A k \in DOMAIN lists : lists[k][1] = Kinds[stage]
    BY <1>3, <1>4, ListsTyped
  <2> HIDE DEF lists
  <2>3. PICK read : Listed(read) /\ lists = read \o todo
    BY <2>1 DEF Halfway
  <2>4. Head(todo) \in Elements(lists)
    BY <1>4, <2>1, <2>3, HeadMoved
  <2>5. Head(todo)[1] = Kinds[stage]
    BY <2>2, <2>4 DEF Elements
  <2>6. \A n \in 1..7 : n # 2 => Kinds[n] # "field" /\ Kinds[n] # "context"
    BY DEF Kinds
  <2> QED BY <1>3, <2>5, <2>6 DEF FieldStage, LastStage
<1>6. FieldsToRead(todo)
  BY <1>3, <1>4, <1>5 DEF Asked
<1>7. todo # <<>>
  BY <1>6 DEF FieldsToRead, FieldList
<1>8. Head(todo) \in Elements(todo)
  BY <1>4, <1>7, HeadMoved
<1> QED BY <1>5, <1>6, <1>7, <1>8

\* The fields are read: the contexts of those that are custom come next.
LEMMA FieldsReadHolds ==
  ASSUME CInv, WInv, FieldsRead
  PROVE  WInv'
<1> DEFINE custom == Filter(After.items, Custom)
           system == Filter(After.items, Ids \ Custom)
           more == [i \in DOMAIN custom |-> <<"context", custom[i]>>]
<1>1. /\ pc = "page" /\ Head(todo)[1] = "field"
      /\ ListDone(got, After.total, system, more)
      /\ UNCHANGED <<jiraVars, projects, halted>>
  BY DEF FieldsRead
<1>2. stage = FieldStage /\ stage > 0 /\ FieldsToRead(todo) /\ Head(todo) \in Elements(todo)
  BY <1>1, FieldsOnly DEF FieldStage
<1>3. After.items \in Seq(Ids) /\ After.total \in Nat
  BY PageTypes DEF CInv
<1>4. custom \in Seq(Ids) /\ system \in Seq(Ids)
  <2>1. custom \in Seq(Ids)
    BY <1>3, FilterElements
  <2>2. system \in Seq(Ids)
    BY <1>3, FilterElements
  <2> QED BY <2>1, <2>2
<1> HIDE DEF custom, system
<1>5. Tail(todo) = <<>>
  <2>1. todo = << <<"field", Site>> >>
    BY <1>1, <1>2 DEF FieldsToRead, FieldList, Elements
  <2> QED BY <2>1
<1>6. /\ Listed(more) /\ \A k \in DOMAIN more : more[k][1] = "context" /\ more[k][2] \in Ids
  <2>1. PICK n \in Nat : DOMAIN custom = 1..n
    BY <1>4
  <2>2. \A i \in DOMAIN custom : custom[i] \in Ids
    BY <1>4
  <2> DEFINE T == {<<"context", custom[i]>> : i \in 1..n}
  <2>3. more \in [1..n -> T]
    BY <2>1
  <2>4. \A k \in DOMAIN more : more[k][1] = "context" /\ more[k][2] \in Ids
    BY <2>2
  <2> HIDE DEF more, T
  <2>5. more \in Seq(T)
    BY <2>3
  <2> QED BY <2>4, <2>5 DEF Listed
<1> HIDE DEF more
<1>7. more \o Tail(todo) = more
  <2>1. PICK S : more \in Seq(S)
    BY <1>6 DEF Listed
  <2>2. more \o <<>> = more
    BY <2>1
  <2> QED BY <1>5, <2>2
<1>8. Listing(more) /\ (more # <<>> => FieldsToRead(more))
  BY <1>6 DEF Listing, FieldsToRead, Owners
<1>9. Onward(more \o Tail(todo), got, After.total, system)
  <2>1. FieldsHalfway(more, got)
    <3> SUFFICES ASSUME edits = 0
                 PROVE  more # FieldList /\ got \o FieldEntries(more)
                                             = Captured(FieldStage, FieldList)
      BY DEF FieldsHalfway
    <3>1. todo = FieldList /\ Head(todo) = <<"field", Site>>
      BY <1>1, <1>2 DEF FieldsToRead, Elements, FieldList
    <3>2. FieldsHalfway(todo, got)
      BY <1>1, <1>2 DEF WInv, Asked
    <3>3. got = <<>>
      BY <3>1, <3>2 DEF FieldsHalfway
    <3>4. After.items = Held(<<"field", Site>>)
      <4>1. ReadTrue(cursor, Head(todo)) /\ Reading /\ Flat(Head(todo))
        BY <1>1, <3>1 DEF WInv, CursorTrue, CInv, Flat
      <4> QED BY <3>1, <4>1, PageTrue
    <3>5. custom = Wanted(FieldStage, <<"field", Site>>)
      BY <3>4 DEF Wanted, custom
    <3>6. <<>> \o FieldEntries(more) = Captured(FieldStage, FieldList)
      BY <1>4, <3>5, FieldsBegin DEF more, CInv
    <3>7. more # FieldList
      <4>1. ASSUME more = FieldList PROVE FALSE
        <5>1. 1 \in DOMAIN FieldList /\ FieldList[1][1] = "field"
          BY DEF FieldList
        <5>2. more[1][1] = "context"
          BY <1>6, <4>1, <5>1
        <5> QED BY <4>1, <5>1, <5>2
      <4> QED BY <4>1
    <3> QED BY <3>3, <3>6, <3>7
  <2> QED BY <1>2, <1>7, <1>8, <2>1 DEF Onward
<1>10. Listing(more \o Tail(todo))
  BY <1>7, <1>8
<1>11. got \in Seq(Entry) /\ OwnersKnown(got, ListsOf(stage, point.entries))
  BY <1>1, <1>2 DEF WInv, CTypes, Asked
<1>12. OfOneStage(got, stage)
  BY DEF CInv, Reading, OfOneStage
<1> QED BY <1>1, <1>2, <1>3, <1>4, <1>9, <1>10, <1>11, <1>12, ListDoneHolds

\* A field is captured, with its contexts or without.
LEMMA FieldCapturedHolds ==
  ASSUME CInv, WInv, FieldCaptured
  PROVE  WInv'
<1> DEFINE e == [stage |-> stage, id |-> Head(todo)[2], owner |-> Site]
           entries == Append(got, e)
<1>1. /\ pc = "page" /\ Head(todo)[1] = "context"
      /\ ListDone(entries, reported, skipped, <<>>)
      /\ UNCHANGED <<jiraVars, projects, halted>>
  BY DEF FieldCaptured
<1>2. /\ stage = FieldStage /\ stage > 0 /\ FieldsToRead(todo) /\ todo # <<>>
      /\ Head(todo) \in Elements(todo)
  BY <1>1, FieldsOnly DEF FieldStage
<1>3. \A k \in DOMAIN todo : todo[k][1] = "context" /\ todo[k][2] \in Ids
  <2>1. todo # << <<"field", Site>> >>
    <3>1. ASSUME todo = << <<"field", Site>> >> PROVE FALSE
      <4>1. Head(todo)[1] = "field"
        BY <3>1
      <4> QED BY <1>1, <4>1
    <3> QED BY <3>1
  <2> QED BY <1>2, <2>1 DEF FieldsToRead, FieldList
<1>4. \A x \in Elements(todo) : x[1] = "context" /\ x[2] \in Ids
  BY <1>3 DEF Elements
<1>5. e \in Entry /\ e.stage = stage /\ e.owner = Site
  <2>1. stage \in 1..LastStage /\ Head(todo)[2] \in Ids /\ Site \in Owners
    BY <1>2, <1>4 DEF FieldStage, LastStage, Owners
  <2> QED BY <2>1 DEF Entry
<1>17. e = FieldEntry(Head(todo))
  BY <1>2 DEF FieldEntry
<1> HIDE DEF e
<1>6. /\ got \in Seq(Entry) /\ OwnersKnown(got, ListsOf(stage, point.entries))
      /\ reported \in Nat /\ skipped \in Seq(Ids) /\ Listed(todo)
  BY <1>1, <1>2 DEF WInv, CTypes, Asked, Listing
<1>7. Site \in OwnersOf(ListsOf(stage, point.entries))
  <2>1. ListsOf(stage, point.entries) = << <<Kinds[2], Site>> >>
    BY <1>2 DEF ListsOf, FieldStage, BoardStage
  <2> DEFINE l == <<Kinds[2], Site>>
  <2>2. l[2] = Site
    OBVIOUS
  <2> HIDE DEF l
  <2>3. OwnersOf(<<l>>) = {l[2]}
    BY DEF OwnersOf
  <2> QED BY <2>1, <2>2, <2>3 DEF l
<1>8. /\ DOMAIN got = 1..Len(got) /\ Len(got) \in Nat /\ DOMAIN entries = 1..(Len(got) + 1)
      /\ \A i \in 1..(Len(got) + 1) : entries[i] = IF i <= Len(got) THEN got[i] ELSE e
  <2>1. Listed(got)
    BY <1>6 DEF Listed
  <2> QED BY <2>1, Appended1
<1>9. entries \in Seq(Entry)
  BY <1>5, <1>6
<1>10. \A i \in DOMAIN entries : (\E k \in DOMAIN got : entries[i] = got[k]) \/ entries[i] = e
  BY <1>8
<1>18. FieldsHalfway(Tail(todo), entries)
  <2> SUFFICES ASSUME edits = 0
               PROVE  Tail(todo) # FieldList /\ entries \o FieldEntries(Tail(todo))
                                                 = Captured(FieldStage, FieldList)
    BY DEF FieldsHalfway
  <2>1. FieldsHalfway(todo, got)
    BY <1>1, <1>2 DEF WInv, Asked
  <2>2. \A x \in Elements(todo) \cup Elements(Tail(todo)) : x[1] = "context"
    BY <1>2, <1>4, <1>6, NoList, HeadMoved
  <2>3. \A lists : Elements(lists) \subseteq Elements(todo) \cup Elements(Tail(todo))
                  => lists # FieldList
    <3>1. 1 \in DOMAIN FieldList /\ FieldList[1][1] = "field"
      BY DEF FieldList
    <3> QED BY <2>2, <3>1 DEF Elements
  <2>4. got \o FieldEntries(todo) = Captured(FieldStage, FieldList)
    BY <2>1, <2>3 DEF FieldsHalfway
  <2>5. got \o FieldEntries(todo) = entries \o FieldEntries(Tail(todo))
    BY <1>2, <1>3, <1>6, <1>17, FieldMoved
  <2> QED BY <2>3, <2>4, <2>5
<1> HIDE DEF entries
<1>11. OfOneStage(got, stage)
  BY DEF CInv, Reading, OfOneStage
<1>12. OfOneStage(entries, stage) /\ OwnersKnown(entries, ListsOf(stage, point.entries))
  BY <1>5, <1>6, <1>7, <1>10, <1>11 DEF OfOneStage, OwnersKnown
<1>13. Listed(Tail(todo)) /\ Elements(Tail(todo)) \subseteq Elements(todo)
  BY <1>2, <1>6, NoList, HeadMoved
<1>14. <<>> \o Tail(todo) = Tail(todo)
  BY <1>13 DEF Listed
<1>15. Listing(Tail(todo)) /\ (Tail(todo) # <<>> => FieldsToRead(Tail(todo)))
  <2>1. \A k \in DOMAIN Tail(todo) : Tail(todo)[k][1] = "context" /\ Tail(todo)[k][2] \in Ids
    BY <1>4, <1>13 DEF Elements
  <2> QED BY <1>13, <2>1 DEF Listing, FieldsToRead, Owners
<1>16. Listing(<<>> \o Tail(todo)) /\ Onward(<<>> \o Tail(todo), entries, reported, skipped)
  BY <1>2, <1>14, <1>15, <1>18 DEF Onward
<1> QED BY <1>1, <1>2, <1>6, <1>9, <1>12, <1>16, ListDoneHolds

\* A stage that fails leaves a section without a total and no entry.
LEMMA StageFailsHolds ==
  ASSUME CInv, WInv, StageFails
  PROVE  WInv'
<1> DEFINE s == [stage |-> stage, captured |-> 0, skipped |-> 0, total |-> NoTotal]
<1>1. /\ pc = "page" /\ stage \in 1..LastStage /\ Len(point.sections) = stage - 1
      /\ point' = Appended(point, s, <<>>) /\ halted' = TRUE /\ pc' = "returned"
      /\ UNCHANGED <<jiraVars, stageVars, projects, broken>>
  BY DEF StageFails, CInv, Reached, LastStage
<1>2. /\ CTypes /\ Manifest(point) /\ Scope /\ Manifested(point) /\ Referred(point)
  BY DEF WInv, CTypes, CInv
<1>3. s \in Section
  BY <1>1 DEF Section
<1> HIDE DEF s
<1> DEFINE none == <<>>
<1>4. /\ none \in Seq(Entry) /\ OfOneStage(none, stage)
      /\ OwnersKnown(none, ListsOf(stage, point.entries))
  BY NoList DEF OfOneStage, OwnersKnown
<1>5. point' = Appended(point, s, none)
  BY <1>1
<1> HIDE DEF none
<1>6. Manifested(Appended(point, s, none)) /\ Referred(Appended(point, s, none))
  BY <1>1, <1>2, <1>3, <1>4, AppendedHolds
<1>7. PICK c : c = Appended(point, s, none)
  OBVIOUS
<1>8. UNCHANGED <<jira, projects, edits, todo, got, reported, skipped, stage, broken>>
  BY <1>1 DEF jiraVars, stageVars
<1>9. Manifested(point') /\ Referred(point)'
  BY <1>5, <1>6, <1>7, <1>8, SameLists
<1>10. CTypes'
  BY <1>1, <1>2, <1>8, <1>9 DEF CTypes, Scope
<1>11. Asked' /\ CursorTrue'
  BY <1>1 DEF Asked, CursorTrue
<1>12. Beginning'
  BY <1>1, <1>8 DEF Beginning, LastStage
<1> QED BY <1>10, <1>11, <1>12 DEF WInv

\* Once Jira was edited nothing is said of what the lists held.
LEMMA EditHolds ==
  ASSUME CInv, WInv, NEW l \in DOMAIN jira, Edit(l)
  PROVE  WInv'
<1>1. /\ pc = "page" /\ edits < MaxEdits /\ edits' = edits + 1
      /\ UNCHANGED <<pc, stage, todo, cursor, got, reported, skipped, projects, halted, broken,
                     point>>
  BY DEF Edit, stageVars
<1>2. CTypes /\ Asked /\ Beginning
  BY DEF WInv
<1>3. edits' \in 0..MaxEdits /\ edits' # 0
  <2>1. edits \in 0..MaxEdits
    BY <1>2 DEF CTypes
  <2> QED BY <1>1, <2>1, EditAssumption
<1>4. \A n, es : ListsOf(n, es)' = ListsOf(n, es)
  BY <1>1 DEF ListsOf
<1>5. Referred(point)'
  <2>1. Referred(point)
    BY <1>2 DEF CTypes
  <2> QED BY <1>1, <1>4, <2>1 DEF Referred
<1>6. CTypes'
  BY <1>1, <1>2, <1>3, <1>5 DEF CTypes, Scope
<1>7. Beginning' /\ CursorTrue'
  BY <1>1, <1>2, <1>3 DEF Beginning, CursorTrue
<1>8. Asked'
  <2> SUFFICES ASSUME stage > 0 PROVE Asked'
    BY <1>1 DEF Asked
  <2>1. PICK lists : lists = ListsOf(stage, point.entries)
    OBVIOUS
  <2>2. lists = ListsOf(stage, point.entries)'
    BY <1>1, <1>4, <2>1
  <2>3. /\ OwnersKnown(got, lists) /\ (stage = FieldStage => FieldsToRead(todo))
        /\ FieldsHalfway(todo, got)'
    BY <1>1, <1>2, <1>3, <2>1 DEF Asked, FieldsHalfway
  <2>4. ASSUME stage # FieldStage
        PROVE  skipped = <<>> /\ todo # <<>> /\ Halfway(lists, todo, got, reported, stage)'
    <3>1. skipped = <<>> /\ todo # <<>> /\ Halfway(lists, todo, got, reported, stage)
      BY <1>1, <1>2, <2>1, <2>4 DEF Asked
    <3>2. PICK read : Listed(read) /\ lists = read \o todo
      BY <3>1 DEF Halfway
    <3>3. Halfway(lists, todo, got, reported, stage)'
      BY <1>1, <1>3, <3>2 DEF Halfway
    <3> QED BY <3>1, <3>3
  <2> QED BY <1>1, <2>2, <2>3, <2>4 DEF Asked, OwnersKnown
<1> QED BY <1>6, <1>7, <1>8 DEF WInv

\* What the projects in scope and the manifest do not see.
LEMMA UnseenHolds ==
  ASSUME CTypes, UNCHANGED <<jiraVars, got, reported, skipped, projects, halted, broken, point>>,
         Listing(todo')
  PROVE  CTypes'
<1>1. UNCHANGED <<jira, edits, cap>>
  BY DEF jiraVars
<1>2. PICK p : p = point /\ p = point'
  OBVIOUS
<1>3. Referred(p) /\ (~halted /\ ~broken /\ edits = 0 => Whole(p))
  BY <1>2 DEF CTypes
<1>4. Referred(p)' /\ (~halted /\ ~broken /\ edits = 0 => Whole(p)')
  BY <1>1, <1>3, SameLists
<1>5. Referred(point)' /\ (~halted' /\ ~broken' /\ edits' = 0 => Whole(point)')
  BY <1>1, <1>2, <1>4
<1> QED BY <1>1, <1>5 DEF CTypes, Scope

\* What was discovered is in scope, and nothing is in the manifest yet.
LEMMA DiscoveredHolds ==
  ASSUME CInv, WInv, Discovered
  PROVE  WInv'
<1>1. /\ stage = 0 /\ pc' = "discovered" /\ todo' = <<>>
      /\ projects' = Filter(After.items, InScope)
      /\ UNCHANGED <<jira, edits, cap, stage, got, reported, skipped, halted, broken, point>>
  BY DEF Discovered, jiraVars
<1>2. CTypes /\ Beginning
  BY DEF WInv
<1>3. After.items \in Seq(Ids)
  BY PageTypes DEF CInv
<1>4. projects' \in Seq(Ids) /\ Elements(projects') \subseteq InScope
  BY <1>1, <1>3, FilterElements
<1>5. Scope'
  BY <1>4 DEF Scope, InScope
<1>6. DOMAIN point.sections = {} /\ DOMAIN point.entries = {}
  <2>1. point.sections = <<>> /\ Manifest(point)
    BY <1>1 DEF CInv, Reached
  <2>2. Len(point.sections) = 0 /\ DOMAIN point.sections = {}
    BY <2>1, NoList
  <2>3. \A k \in DOMAIN point.entries : point.entries[k].stage \in 1..0
    BY <2>1, <2>2 DEF Manifest
  <2> QED BY <2>2, <2>3
<1>7. Referred(point)' /\ Whole(point)'
  BY <1>1, <1>6 DEF Referred, Whole
<1>8. CTypes'
  BY <1>1, <1>2, <1>5, <1>7, NoList DEF CTypes, Listing
<1>9. Asked' /\ CursorTrue'
  BY <1>1 DEF Asked, CursorTrue
<1>10. Beginning'
  BY <1>1, <1>2 DEF Beginning
<1> QED BY <1>8, <1>9, <1>10 DEF WInv

\* What is asked for stays so while nothing of the stage changes.
LEMMA AskedStays ==
  ASSUME Asked,
         UNCHANGED <<jiraVars, pc, stage, todo, got, reported, skipped, projects, point>>
  PROVE  Asked'
<1> SUFFICES ASSUME pc = "page", stage > 0 PROVE Asked'
  BY DEF Asked
<1>1. UNCHANGED <<jira, projects, edits>>
  BY DEF jiraVars
<1>2. PICK lists : lists = ListsOf(stage, point.entries)
  OBVIOUS
<1>3. lists = ListsOf(stage, point.entries)'
  BY <1>1, <1>2, SameLists
<1>4. /\ OwnersKnown(got, lists)
      /\ stage = FieldStage => FieldsToRead(todo) /\ FieldsHalfway(todo, got)'
  <2>1. stage = FieldStage => FieldsHalfway(todo, got)
    BY DEF Asked
  <2>2. FieldsHalfway(todo, got)' <=> FieldsHalfway(todo, got)
    <3>1. PICK rest, entries : rest = todo /\ entries = got
      OBVIOUS
    <3>2. FieldsHalfway(rest, entries)' <=> FieldsHalfway(rest, entries)
      BY <1>1, SameFields
    <3> QED BY <3>1, <3>2 DEF FieldsHalfway
  <2> QED BY <1>2, <2>1, <2>2 DEF Asked
<1>5. ASSUME stage # FieldStage
      PROVE  skipped = <<>> /\ todo # <<>> /\ Halfway(lists, todo, got, reported, stage)'
  <2>1. skipped = <<>> /\ todo # <<>> /\ Halfway(lists, todo, got, reported, stage)
    BY <1>2, <1>5 DEF Asked
  <2>2. PICK read : /\ Listed(read) /\ lists = read \o todo
                    /\ edits = 0 => /\ Len(got) <= reported
                                    /\ Len(got) = reported => got = Captured(stage, read)
    BY <2>1 DEF Halfway
  <2>3. Captured(stage, read)' = Captured(stage, read)
    BY <1>1, SameLists
  <2>4. Halfway(lists, todo, got, reported, stage)'
    BY <1>1, <2>2, <2>3 DEF Halfway
  <2> QED BY <2>1, <2>4
<1> QED BY <1>3, <1>4, <1>5 DEF Asked, OwnersKnown

\* The status of the point is not looked at.
LEMMA StatusUnseen ==
  ASSUME NEW p, NEW q, q.sections = p.sections, q.entries = p.entries
  PROVE  /\ Manifested(q) <=> Manifested(p)
         /\ Referred(q) <=> Referred(p)
         /\ Totals(q) <=> Totals(p)
         /\ Whole(q) <=> Whole(p)
BY DEF Manifested, Referred, Totals, Whole

\* The first stage begins with nothing read.
LEMMA RunHolds ==
  ASSUME CInv, WInv, Run
  PROVE  WInv'
<1>1. /\ pc = "discovered" /\ pc' = "page" /\ stage' = 1 /\ cursor' = Start
      /\ todo' = << <<Kinds[1], Site>> >>
      /\ UNCHANGED <<jira, edits, cap, got, reported, skipped, projects, halted, broken>>
  BY DEF Run, jiraVars, ListsOf, BoardStage
<1>2. stage = 0 /\ point.sections = <<>> /\ got = <<>> /\ Manifest(point) /\ Reading
  BY <1>1 DEF CInv, Reached
<1>3. CTypes /\ reported = 0 /\ skipped = <<>>
  BY <1>2 DEF WInv, Beginning
<1>4. point'.sections = point.sections /\ point'.entries = point.entries
  BY <1>2 DEF Run, Manifest, Snapshot
<1>5. DOMAIN point.sections = {} /\ DOMAIN point.entries = {}
  <2>1. Len(point.sections) = 0 /\ DOMAIN point.sections = {}
    BY <1>2, NoList
  <2>2. \A k \in DOMAIN point.entries : point.entries[k].stage \in 1..0
    BY <1>2, <2>1 DEF Manifest
  <2> QED BY <2>1, <2>2
<1>6. Manifested(point') /\ Totals(point') /\ Referred(point)' /\ Whole(point)'
  BY <1>3, <1>4, <1>5 DEF Manifested, CTypes, Totals, Referred, Whole
<1> DEFINE l == <<Kinds[1], Site>>
<1>7. l[1] = "issue_type" /\ l[2] = Site /\ Site \in Owners
  BY DEF Kinds, Owners
<1> HIDE DEF l
<1>8. PICK lists : lists = <<l>>
  OBVIOUS
<1>9. Listing(lists) /\ lists # <<>>
  <2>1. lists \in Seq({l}) /\ \A k \in DOMAIN lists : lists[k] = l
    BY <1>8
  <2> QED BY <1>7, <1>8, <2>1 DEF Listing, Listed
<1>10. todo' = lists
  BY <1>1, <1>8 DEF l
<1>11. CTypes'
  BY <1>1, <1>3, <1>6, <1>9, <1>10 DEF CTypes, Scope
<1>12. Asked'
  <2>1. ListsOf(stage, point.entries)' = lists
    BY <1>1, <1>8 DEF ListsOf, BoardStage, l
  <2>2. Captured(1, <<>>)' = <<>>
    <3>1. FlattenSeq(<<>>) = <<>>
      BY DEF FlattenSeq
    <3>2. Parts(1, <<>>)' = <<>>
      BY DEF Parts
    <3> QED BY <3>1, <3>2 DEF Captured
  <2>3. lists = <<>> \o lists
    BY <1>9 DEF Listing, Listed
  <2> DEFINE none == <<>>
  <2>4. /\ Listed(none) /\ Len(none) <= 0 /\ lists = none \o lists /\ none = Captured(1, none)'
        /\ got' = none /\ skipped' = none /\ DOMAIN none = {}
    BY <1>1, <1>2, <1>3, <2>2, <2>3, NoList
  <2>5. skipped' = <<>>
    BY <1>1, <1>3
  <2> HIDE DEF none
  <2>6. Halfway(lists, lists, none, 0, 1)'
    <3>1. /\ Listed(none) /\ lists = none \o lists
          /\ edits' = 0 => Len(none) <= 0 /\ (Len(none) = 0 => none = Captured(1, none)')
      BY <2>4
    <3> QED BY <3>1 DEF Halfway
  <2>7. OwnersKnown(none, lists)
    BY <2>4 DEF OwnersKnown
  <2>8. stage' # FieldStage /\ stage' = 1 /\ reported' = 0
    BY <1>1, <1>3 DEF FieldStage
  <2>9. OwnersKnown(got, ListsOf(stage, point.entries))'
    BY <2>1, <2>4, <2>7 DEF OwnersKnown
  <2>10. Halfway(ListsOf(stage, point.entries), todo, got, reported, stage)'
    BY <1>10, <2>1, <2>4, <2>6, <2>8
  <2>11. todo' # <<>>
    BY <1>9, <1>10
  <2> QED BY <2>5, <2>8, <2>9, <2>10, <2>11 DEF Asked
<1>13. CursorTrue'
  <2>1. \A x : ReadTrue(Start, x)'
    BY <1>1, <1>2, ReadStart, SameLists
  <2> QED BY <1>1, <2>1 DEF CursorTrue
<1>14. Beginning'
  BY <1>1 DEF Beginning
<1> QED BY <1>11, <1>12, <1>13, <1>14 DEF WInv

\* Finalising changes the status.
LEMMA FinalizeHolds ==
  ASSUME CInv, WInv, Finalize
  PROVE  WInv'
<1>1. /\ pc' = "finalised" /\ UNCHANGED <<jiraVars, stageVars, projects, halted, broken>>
      /\ point'.sections = point.sections /\ point'.entries = point.entries
  BY DEF Finalize, CInv, Manifest, Snapshot
<1>2. UNCHANGED <<jira, edits, stage, todo, got, reported, skipped>>
  BY <1>1 DEF jiraVars, stageVars
<1>3. PICK q : q = point'
  OBVIOUS
<1>4. PICK p : p = point
  OBVIOUS
<1>5. CTypes /\ Beginning
  BY DEF WInv
<1>6. /\ Manifested(q) /\ Referred(q) /\ (~halted => Totals(q))
      /\ ~halted /\ ~broken /\ edits = 0 => Whole(q)
  <2>1. q.sections = p.sections /\ q.entries = p.entries
    BY <1>1, <1>3, <1>4
  <2>2. /\ Manifested(p) /\ Referred(p) /\ (~halted => Totals(p))
        /\ ~halted /\ ~broken /\ edits = 0 => Whole(p)
    BY <1>4, <1>5 DEF CTypes
  <2> QED BY <2>1, <2>2, StatusUnseen
<1>7. Referred(q)' /\ (~halted /\ ~broken /\ edits = 0 => Whole(q)')
  BY <1>2, <1>1, <1>6, SameLists
<1>8. Referred(point)' /\ (~halted /\ ~broken /\ edits = 0 => Whole(point)')
  BY <1>3, <1>7
<1>9. CTypes'
  BY <1>1, <1>2, <1>3, <1>5, <1>6, <1>8 DEF CTypes, Scope
<1>10. Asked' /\ CursorTrue'
  BY <1>1 DEF Asked, CursorTrue
<1>11. Beginning'
  BY <1>1, <1>2, <1>5 DEF Beginning
<1> QED BY <1>9, <1>10, <1>11 DEF WInv

\* The steps after which the manifest is as it was.
LEMMA QuietStepsHold ==
  ASSUME CInv, WInv, Discover \/ DiscoveryFails \/ MorePages \/ Crash \/ UNCHANGED vars
  PROVE  WInv'
<1>1. UNCHANGED <<jiraVars, stage, got, reported, skipped, projects, halted, broken, point>>
  BY DEF Discover, DiscoveryFails, MorePages, Crash, vars, stageVars
<1>2. CTypes /\ Asked /\ Beginning /\ CursorTrue /\ Reading /\ Reached
  BY DEF WInv, CInv
<1>3. UNCHANGED <<jira, projects, edits>>
  BY <1>1 DEF jiraVars
<1>4. CASE Discover
  <2>1. /\ pc = "idle" /\ pc' = "page" /\ todo' = << <<"project", Site>> >>
        /\ stage = 0 /\ cursor' = cursor /\ cursor = Start
    BY <1>2, <1>4 DEF Discover, Reached, Beginning
  <2>2. Listing(todo')
    <3> DEFINE l == <<"project", Site>>
    <3>1. l[2] = Site /\ Site \in Owners
      BY DEF Owners
    <3> HIDE DEF l
    <3>2. <<l>> \in Seq({l}) /\ \A k \in DOMAIN <<l>> : <<l>>[k] = l
      OBVIOUS
    <3>3. Listing(<<l>>)
      BY <3>1, <3>2 DEF Listing, Listed
    <3> QED BY <2>1, <3>3 DEF l
  <2>3. CTypes'
    BY <1>1, <1>2, <2>2, UnseenHolds
  <2>4. Asked' /\ Beginning'
    BY <1>1, <1>2, <2>1 DEF Asked, Beginning
  <2>5. \A x : ReadTrue(Start, x)'
    BY <1>2, <1>3, ReadStart, SameLists
  <2>6. CursorTrue'
    BY <2>1, <2>5 DEF CursorTrue
  <2> QED BY <2>3, <2>4, <2>6 DEF WInv
<1>5. CASE DiscoveryFails \/ Crash
  <2>1. /\ pc' \in {"rejected", "gone"} /\ UNCHANGED todo
    BY <1>5 DEF DiscoveryFails, Crash, stageVars
  <2>2. CTypes'
    <3>1. Listing(todo')
      BY <1>2, <2>1 DEF CTypes
    <3> QED BY <1>1, <1>2, <3>1, UnseenHolds
  <2>3. Asked' /\ Beginning' /\ CursorTrue'
    BY <1>1, <1>2, <2>1 DEF Asked, Beginning, CursorTrue
  <2> QED BY <2>2, <2>3 DEF WInv
<1>6. CASE MorePages \/ UNCHANGED vars
  <2>1. /\ UNCHANGED <<pc, todo>>
        /\ \/ pc = "page" /\ ~Complete /\ cursor' = After
           \/ cursor' = cursor
    BY <1>6 DEF MorePages, vars, stageVars
  <2>2. CTypes'
    <3>1. Listing(todo')
      BY <1>2, <2>1 DEF CTypes
    <3> QED BY <1>1, <1>2, <3>1, UnseenHolds
  <2>3. Asked'
    BY <1>1, <1>2, <2>1, AskedStays
  <2>4. Beginning'
    BY <1>1, <1>2, <2>1 DEF Beginning
  <2>5. CursorTrue'
    <3> SUFFICES ASSUME pc = "page", edits = 0 PROVE ReadTrue(cursor, Head(todo))'
      BY <1>3, <2>1 DEF CursorTrue
    <3>1. ReadTrue(cursor, Head(todo))
      BY <1>2 DEF CursorTrue
    <3>2. PICK c : c = cursor'
      OBVIOUS
    <3>3. PICK l : l = Head(todo)
      OBVIOUS
    <3>4. ReadTrue(c, l)
      BY <1>2, <2>1, <3>1, <3>2, <3>3, PageTrue
    <3>5. ReadTrue(c, l)'
      BY <1>3, <3>4, SameLists
    <3>6. cursor' = c /\ Head(todo)' = l
      BY <2>1, <3>2, <3>3
    <3> QED BY <3>5, <3>6
  <2> QED BY <2>2, <2>3, <2>4, <2>5 DEF WInv
<1> QED BY <1>4, <1>5, <1>6

-----------------------------------------------------------------------------
\* Nothing is captured at first.
LEMMA WInvInit == Init => WInv
<1> SUFFICES ASSUME Init PROVE WInv
  OBVIOUS
<1>1. <<>> \in Seq(Entry) /\ <<>> \in Seq(Ids) /\ <<>> \in Seq(Section)
  OBVIOUS
<1>2. Listing(<<>>) /\ Scope
  BY <1>1, NoList DEF Init, Listing, Scope, Elements
<1>3. point.sections = <<>> /\ point.entries = <<>> /\ DOMAIN <<>> = {}
  BY NoList DEF Init
<1>4. Manifested(point) /\ Referred(point) /\ Totals(point) /\ Whole(point)
  BY <1>1, <1>3 DEF Manifested, Referred, Totals, Whole
<1>5. CTypes
  <2>1. edits \in 0..MaxEdits /\ reported \in Nat
    BY EditAssumption DEF Init
  <2>2. /\ got \in Seq(Entry) /\ skipped \in Seq(Ids) /\ Listing(todo)
        /\ halted \in BOOLEAN /\ broken \in BOOLEAN
    BY <1>1, <1>2 DEF Init
  <2> QED BY <1>2, <1>4, <2>1, <2>2 DEF CTypes
<1>6. Asked /\ Beginning /\ CursorTrue
  BY DEF Init, Asked, Beginning, CursorTrue
<1> QED BY <1>5, <1>6 DEF WInv

\* And every step keeps it.
LEMMA WInvStep == CInv /\ WInv /\ [Next]_vars => WInv'
BY ListReadHolds, FieldsReadHolds, FieldCapturedHolds, StageFailsHolds, EditHolds, RunHolds,
   FinalizeHolds, DiscoveredHolds, QuietStepsHold DEF Next, Work

\* What the discovery found stays found, and its gap is what was not served.
LEMMA CountedStep == CInv /\ WInv /\ Counted /\ [Next]_vars => Counted'
<1> SUFFICES ASSUME CInv, WInv, Counted, [Next]_vars PROVE Counted'
  OBVIOUS
<1>1. CASE Discovered
  <2>1. /\ pc = "page" /\ stage = 0 /\ todo = << <<"project", Site>> >>
        /\ projects' = Filter(After.items, InScope) /\ gap' = After.total - Len(After.items)
        /\ UNCHANGED <<jira, edits>>
    BY <1>1 DEF Discovered, CInv, Reached, jiraVars
  <2>2. After.items \in Seq(Ids) /\ After.total \in Nat
    BY PageTypes DEF CInv
  <2>3. gap' \in Int /\ (gap' = 0 => Len(After.items) = After.total)
    BY <2>1, <2>2
  <2>4. Head(todo) = <<"project", Site>>
    BY <2>1
  <2>5. edits = 0 /\ gap' = 0 => After.items = Held(<<"project", Site>>)
    <3> SUFFICES ASSUME edits = 0, gap' = 0 PROVE After.items = Held(<<"project", Site>>)
      OBVIOUS
    <3>1. ReadTrue(cursor, Head(todo)) /\ Reading
      BY <2>1 DEF WInv, CursorTrue, CInv
    <3> QED BY <2>3, <2>4, <3>1, PageTrue
  <2>6. Held(<<"project", Site>>)' = Held(<<"project", Site>>)
    BY <2>1 DEF Held
  <2> QED BY <2>1, <2>3, <2>5, <2>6 DEF Counted, InScope
<1>2. CASE \E l \in DOMAIN jira : Edit(l)
  <2>1. edits' = edits + 1 /\ gap' = gap
    BY <1>2 DEF Edit
  <2>2. edits' # 0
    BY <2>1 DEF WInv, CTypes
  <2> QED BY <2>1, <2>2 DEF Counted
<1>3. CASE ~Discovered /\ ~\E l \in DOMAIN jira : Edit(l)
  <2>1. UNCHANGED <<jira, edits, projects, gap>>
    BY <1>3 DEF Next, Work, vars, jiraVars, Discover, DiscoveryFails, Run, Finalize, MorePages,
                ListRead, FieldsRead, FieldCaptured, StageFails, Crash
  <2>2. stage' > 0 \/ pc' = "discovered" => stage > 0 \/ pc = "discovered"
    <3>1. stage \in 0..7
      BY DEF CInv, Reached, LastStage
    <3>2. CASE ListRead \/ StageFails \/ FieldsRead \/ FieldCaptured
      <4>1. pc = "page" /\ (ListRead \/ StageFails => stage > 0)
        BY <3>2 DEF ListRead, StageFails, FieldsRead, FieldCaptured
      <4>2. FieldsRead \/ FieldCaptured => stage = FieldStage
        BY <4>1, FieldsOnly DEF FieldsRead, FieldCaptured
      <4> QED BY <3>2, <4>1, <4>2 DEF FieldStage
    <3>3. CASE Run
      BY <3>3 DEF Run
    <3>4. CASE Discover \/ DiscoveryFails \/ Finalize \/ MorePages \/ Crash \/ UNCHANGED vars
      BY <3>4 DEF Discover, DiscoveryFails, Finalize, MorePages, Crash, vars, stageVars
    <3> QED BY <1>3, <3>2, <3>3, <3>4 DEF Next, Work
  <2>3. Held(<<"project", Site>>)' = Held(<<"project", Site>>)
    BY <2>1 DEF Held
  <2> QED BY <2>1, <2>2, <2>3 DEF Counted, InScope
<1> QED BY <1>1, <1>2, <1>3

\* Of a stage that fails those before it keep their totals.
LEMMA HaltedStep == CInv /\ WInv /\ HaltedLate /\ [Next]_vars => HaltedLate'
<1> SUFFICES ASSUME CInv, WInv, HaltedLate, [Next]_vars PROVE HaltedLate'
  OBVIOUS
<1>1. CASE StageFails
  <2> DEFINE s == [stage |-> stage, captured |-> 0, skipped |-> 0, total |-> NoTotal]
  <2>1. /\ stage \in 1..LastStage /\ Len(point.sections) = stage - 1 /\ ~halted
        /\ point' = Appended(point, s, <<>>)
    BY <1>1 DEF StageFails, CInv, Reached, LastStage
  <2>2. /\ Manifest(point) /\ Scope /\ Manifested(point) /\ Referred(point) /\ Totals(point)
    BY <2>1 DEF WInv, CTypes, CInv
  <2>3. s \in Section
    BY <2>1 DEF Section
  <2> HIDE DEF s
  <2> DEFINE none == <<>>
  <2>4. /\ none \in Seq(Entry) /\ OfOneStage(none, stage)
        /\ OwnersKnown(none, ListsOf(stage, point.entries))
    BY NoList DEF OfOneStage, OwnersKnown
  <2>5. point' = Appended(point, s, none)
    BY <2>1
  <2> HIDE DEF none
  <2>6. TotalsBefore(Appended(point, s, none))
    BY <2>1, <2>2, <2>3, <2>4, AppendedHolds
  <2> QED BY <2>5, <2>6 DEF HaltedLate, TotalsBefore
<1>2. CASE ~StageFails /\ halted
  <2>1. pc \in {"returned", "finalised", "gone"}
    BY <1>2 DEF CInv, Reached, PC, LastStage
  <2>2. point'.sections = point.sections
    BY <1>2, <2>1 DEF Next, Work, vars, Discover, Discovered, DiscoveryFails, Run, Finalize,
                      MorePages, ListRead, FieldsRead, FieldCaptured, Edit, Crash,
                      CInv, Manifest, Snapshot
  <2> QED BY <1>2, <2>2 DEF HaltedLate, TotalsBefore
<1>3. CASE ~StageFails /\ ~halted
  <2>1. halted' = halted
    BY <1>3 DEF Next, Work, vars, Discover, Discovered, DiscoveryFails, Run, Finalize,
                MorePages, ListRead, FieldsRead, FieldCaptured, Edit, Crash
  <2> QED BY <1>3, <2>1 DEF HaltedLate
<1> QED BY <1>1, <1>2, <1>3

\* The lists that were read and the entries that came of them, at every await: what is
\* short of what Jira reported, the totals tell, and of the projects the gap.
THEOREM WholeInvariant == Spec => [](CInv /\ WInv /\ Counted /\ HaltedLate)
<1>1. Init => CInv /\ WInv /\ Counted /\ HaltedLate
  BY CInvInit, WInvInit DEF Init, Counted, HaltedLate
<1>2. (CInv /\ WInv /\ Counted /\ HaltedLate) /\ [Next]_vars
        => (CInv /\ WInv /\ Counted /\ HaltedLate)'
  BY CInvStep, WInvStep, CountedStep, HaltedStep
<1> QED BY <1>1, <1>2, PTL DEF Spec

\* The state of the run and of the database has its types.
THEOREM CaptureTypes == Spec => []TypeOK
<1>1. CInv /\ WInv /\ Counted => TypeOK
  <2> SUFFICES ASSUME CInv, WInv, Counted PROVE TypeOK
    OBVIOUS
  <2>1. /\ jira \in [DOMAIN Content -> Seq(Ids)] /\ cap \in Caps
        /\ cursor \in [items : Seq(Ids), total : Nat, pages : Nat]
        /\ pc \in PC /\ stage \in 0..LastStage
    BY DEF CInv, Reading, Reached
  <2>2. /\ edits \in 0..MaxEdits /\ got \in Seq(Entry) /\ reported \in Nat /\ skipped \in Seq(Ids)
        /\ projects \in Seq(Ids) /\ gap \in Int /\ halted \in BOOLEAN /\ broken \in BOOLEAN
        /\ (\A k \in DOMAIN todo : todo[k][2] \in Owners)
        /\ point.sections \in Seq(Section) /\ point.entries \in Seq(Entry)
    BY DEF WInv, CTypes, Scope, Listing, Manifested, Counted
  <2>3. point.status \in {"none", "in_progress", "completed", "completed_with_errors", "halted"}
    BY DEF CInv, Verdict, FinalStatus
  <2>4. point = [status |-> point.status, sections |-> point.sections, entries |-> point.entries]
    BY DEF CInv, Manifest, Snapshot
  <2>5. point \in [status : {"none", "in_progress", "completed", "completed_with_errors",
                             "halted"},
                   sections : Seq(Section), entries : Seq(Entry)]
    BY <2>2, <2>3, <2>4
  <2>6. DOMAIN jira = DOMAIN Content /\ \A l \in DOMAIN jira : jira[l] \in Seq(Ids)
    BY <2>1
  <2> QED BY <2>1, <2>2, <2>5, <2>6 DEF TypeOK
<1> QED BY <1>1, WholeInvariant, PTL

\* The manifest refers to nothing it does not hold.
THEOREM ReferencesProved == Spec => []NoDanglingReference
<1>1. CInv /\ WInv => NoDanglingReference
  <2> SUFFICES ASSUME CInv, WInv PROVE NoDanglingReference
    OBVIOUS
  <2> DEFINE es == point.entries
  <2>1. Referred(point) /\ es \in Seq(Entry) /\ Scope
    BY DEF WInv, CTypes, Manifested
  <2>2. \A n : PlacesOf(n) = {k \in DOMAIN es : es[k].stage = n}
    BY DEF PlacesOf
  <2>3. \A k \in DOMAIN es : es[k].owner \in OwnersOf(ListsOf(es[k].stage, es))
    BY <2>1 DEF Referred
  <2> HIDE DEF es
  <2>4. ASSUME NEW k \in PlacesOf(LastStage)
        PROVE  \E b \in PlacesOf(BoardStage) : es[k].owner = es[b].id
    <3> DEFINE boards == OfStage(es, BoardStage)
    <3>1. k \in DOMAIN es /\ es[k].stage = 7
      BY <2>2 DEF LastStage
    <3>2. es[k].owner \in OwnersOf(ListsOf(7, es))
      BY <2>3, <3>1
    <3>3. ListsOf(7, es) = [i \in DOMAIN boards |-> <<"sprint", boards[i].id>>]
      BY DEF ListsOf, BoardStage
    <3> HIDE DEF boards
    <3>4. PICK i \in DOMAIN boards : es[k].owner = boards[i].id
      BY <3>2, <3>3 DEF OwnersOf
    <3>5. boards[i] \in Elements(es) /\ boards[i].stage = 6
      <4> DEFINE S == [stage : {BoardStage}, id : Ids, owner : Owners]
      <4>1. Elements(boards) = Elements(es) \cap S
        BY <2>1, FilterElements DEF OfStage, boards
      <4>2. \A x \in S : x.stage = 6
        BY DEF BoardStage
      <4> HIDE DEF S
      <4>3. boards[i] \in Elements(boards)
        BY DEF Elements
      <4> QED BY <4>1, <4>2, <4>3
    <3>6. PICK b \in DOMAIN es : boards[i] = es[b]
      BY <3>5 DEF Elements
    <3>7. b \in PlacesOf(BoardStage)
      BY <2>2, <3>5, <3>6 DEF BoardStage
    <3> QED BY <3>4, <3>6, <3>7
  <2>5. ASSUME NEW k \in PlacesOf(BoardStage)
        PROVE  es[k].owner \in Range(projects) \ ServiceDesk
    <3>1. k \in DOMAIN es /\ es[k].stage = 6
      BY <2>2 DEF BoardStage
    <3>2. es[k].owner \in OwnersOf(ListsOf(6, es))
      BY <2>3, <3>1
    <3>3. ListsOf(6, es) = [i \in DOMAIN projects |-> <<"board", projects[i]>>]
      BY DEF ListsOf, BoardStage
    <3>4. PICK i \in DOMAIN projects : es[k].owner = projects[i]
      BY <3>2, <3>3 DEF OwnersOf
    <3>5. projects[i] \in Range(projects) /\ projects[i] \in Elements(projects)
      BY DEF Range, Elements
    <3>6. projects[i] \notin ServiceDesk
      BY <2>1, <3>5 DEF Scope, InScope
    <3> QED BY <3>4, <3>5, <3>6
  <2> QED BY <2>4, <2>5 DEF NoDanglingReference, es
<1> QED BY <1>1, WholeInvariant, PTL

\* What is completed has every stage, none failed or cut short; of a Jira that nobody
\* edited it holds every item of the projects that were discovered, and these are all in
\* scope unless the discovery returned a gap.
THEOREM WholeProved == Spec => []CompletedIsWhole
<1>1. CInv /\ WInv /\ Counted => CompletedIsWhole
  <2> SUFFICES ASSUME CInv, WInv, Counted, point.status = "completed" PROVE CompletedIsWhole
    BY DEF CompletedIsWhole
  <2>1. pc = "finalised" /\ ~broken /\ ~halted
    BY DEF CInv, Verdict, FinalStatus
  <2>2. Len(point.sections) = LastStage /\ ~Flawed(point) /\ Listed(point.sections)
    BY <2>1 DEF CInv, Verdict, Reached, Manifest
  <2>3. Totals(point) /\ (edits = 0 => Whole(point))
    BY <2>1 DEF WInv, CTypes
  <2>4. DOMAIN point.sections = 1..LastStage
    BY <2>2 DEF Listed
  <2>5. \A s \in Range(point.sections) : s.total # NoTotal /\ Consistent(s)
    BY <2>2, <2>3 DEF Range, Totals, Flawed
  <2>6. edits = 0 =>
          \A n \in 1..LastStage : EntriesIn(n) = Captured(n, ListsOf(n, point.entries))
    BY <2>3, <2>4 DEF Whole, EntriesIn
  <2>7. stage > 0
    BY <2>1 DEF CInv, Reached, LastStage
  <2>8. edits = 0 /\ gap = 0 => projects = Filter(Held(<<"project", Site>>), InScope)
    BY <2>7 DEF Counted
  <2> QED BY <2>2, <2>5, <2>6, <2>8 DEF CompletedIsWhole, Captured, Parts
<1> QED BY <1>1, WholeInvariant, PTL

\* The validator accepts what was finalised with every section consistent, and nothing
\* that a crash left behind; of a halted point everything before the stage that failed.
THEOREM ValidatorProved == Spec => []ValidIsFinal
<1>1. CInv /\ HaltedLate => ValidIsFinal
  <2> SUFFICES ASSUME CInv, HaltedLate PROVE ValidIsFinal
    OBVIOUS
  <2>1. Valid(point) <=> Stamped(point) /\ ~Flawed(point)
    BY DEF Valid, Flawed
  <2>2. point.status = "completed" => pc = "finalised" /\ ~broken
    BY DEF CInv, Verdict, FinalStatus
  <2>3. point.status = "completed" => Valid(point)
    BY <2>1, <2>2 DEF CInv, Verdict, Stamped
  <2>4. Valid(point) => pc = "finalised" /\ point.status = IF halted THEN "halted" ELSE "completed"
    BY <2>1 DEF CInv, Verdict, Stamped, FinalStatus
  <2>5. Valid(point) /\ ~halted => Len(point.sections) = LastStage
    BY <2>4 DEF CInv, Reached
  <2>6. Valid(point) /\ halted => point.sections # <<>>
    <3>1. Valid(point) /\ halted => Len(point.sections) > 0
      BY <2>4 DEF CInv, Reached, CutShort
    <3> QED BY <3>1, NoList
  <2>7. halted => \A n \in 1..(Len(point.sections) - 1) : point.sections[n].total # NoTotal
    BY DEF HaltedLate, TotalsBefore
  <2> QED BY <2>3, <2>4, <2>5, <2>6, <2>7 DEF ValidIsFinal
<1> QED BY <1>1, WholeInvariant, PTL
=============================================================================
