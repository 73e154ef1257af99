---------------------------- MODULE PresetsProofs ----------------------------
(***************************************************************************)
(* Proofs about Presets, for any words, any way to cut them, any names and *)
(* any number of edits: opening a watch finds the row that was written     *)
(* last for its name, and a preset that applies itself does so once.       *)
(*                                                                         *)
(* The first half is about the tables, lists of rows; the second about the *)
(* handlers, sets of sessions.                                             *)
(***************************************************************************)
EXTENDS Presets, SequenceTheorems, FiniteSetTheorems, TLAPS

-----------------------------------------------------------------------------
(* Lists of rows.                                                           *)

\* A set of numbers has a least one: the elements below it are a minimal one
\* among the sets of elements below an element.
LEMMA LeastNumber ==
  ASSUME NEW I \in SUBSET Nat, I # {}
  PROVE  Min(I) \in I /\ \A i \in I : Min(I) <= i
<1>. DEFINE Below(x) == {y \in I : y < x}
            Heads == {Below(x) : x \in I}
<1>1. Heads # {} /\ Heads \subseteq FiniteSubsetsOf(I)
  <2>1. ASSUME NEW x \in I PROVE Below(x) \subseteq I /\ IsFiniteSet(Below(x))
    <3>1. x \in Nat /\ \A y \in I : y \in Nat
      OBVIOUS
    <3>2. ASSUME NEW y \in I, y < x PROVE y \in 0 .. x
      BY <3>1, <3>2
    <3>3. 0 \in Int /\ x \in Int /\ Below(x) \subseteq I
      BY <3>1
    <3>4. Below(x) \subseteq 0 .. x
      <4>. HIDE DEF Heads
      <4>. QED  BY <3>2
    <3>. HIDE DEF Below
    <3>. QED  BY <3>3, <3>4, FS_Interval, FS_Subset
  <2>. QED  BY <2>1 DEF FiniteSubsetsOf
<1>2. PICK H \in Heads : \A U \in Heads : ~ (<<U, H>> \in StrictSubsetOrdering(I))
  <2>. HIDE DEF Heads
  <2>. QED  BY <1>1, FS_StrictSubsetOrderingWellFounded, WFMin
<1>3. PICK x \in I : H = Below(x)
  BY <1>2
<1>4. ASSUME NEW y \in I, y < x PROVE FALSE
  <2>0. x \in Nat /\ \A z \in I : z \in Nat
    OBVIOUS
  <2>1. ASSUME NEW z \in I, z < y PROVE z < x
    BY <1>4, <2>0, <2>1
  <2>2. y \in Below(x) /\ y \notin Below(y) /\ Below(y) \subseteq Below(x)
    <3>1. ~ (y < y)
      BY <2>0
    <3>2. y \in Below(x) /\ y \notin Below(y)
      BY <1>4, <3>1, Zenon
    <3>3. ASSUME NEW z \in Below(y) PROVE z \in Below(x)
      BY <2>1, Zenon
    <3>. QED  BY <3>2, <3>3
  <2>3. <<Below(y), Below(x)>> \in StrictSubsetOrdering(I)
    BY <2>2 DEF StrictSubsetOrdering
  <2>. QED  BY <2>3, <1>2, <1>3
<1>5. \A y \in I : x <= y
  <2>1. x \in Nat /\ \A y \in I : y \in Nat
    OBVIOUS
  <2>. QED  BY <1>4, <2>1
<1>. QED  BY <1>5 DEF Min

\* What is found by name is the row of the name that is listed first.
LEMMA NamedFacts ==
  ASSUME NEW rows, NEW name, Len(rows) \in Nat, DOMAIN rows = 1 .. Len(rows)
  PROVE  /\ Named(rows, name) = 0 => RowsOf(rows, name) = {}
         /\ Named(rows, name) # 0 =>
              /\ Named(rows, name) \in RowsOf(rows, name)
              /\ \A i \in RowsOf(rows, name) : Named(rows, name) <= i
<1> DEFINE I == {i \in 1 .. Len(rows) : Fold[rows[i].name] = Fold[name]}
<1>1. I \in SUBSET Nat /\ I = RowsOf(rows, name) /\ 0 \notin I
  BY DEF RowsOf
<1>2. Named(rows, name) = IF I # {} THEN Min(I) ELSE 0
  BY DEF Named, SelectInSeq
<1>. QED  BY <1>1, <1>2, LeastNumber

\* What is found by its mark is a row of the table.
LEMMA AutoAppliedFacts ==
  ASSUME watches \in Seq(Watches)
  PROVE  AutoApplied # 0 => AutoApplied \in DOMAIN watches
<1> DEFINE I == {i \in 1 .. Len(watches) : watches[i].auto}
<1>1. I \in SUBSET Nat /\ I \subseteq DOMAIN watches
  OBVIOUS
<1>2. AutoApplied = IF I # {} THEN Min(I) ELSE 0
  BY DEF AutoApplied, SelectInSeq
<1>. QED  BY <1>1, <1>2, LeastNumber

\* Deleting a row leaves the others in their order.
LEMMA DeletedFacts ==
  ASSUME NEW R, NEW rows \in Seq(R), NEW name
  PROVE  LET left == Deleted(rows, name) IN
         /\ left \in Seq(R)
         /\ \E k \in Nat : \A i \in DOMAIN left :
              LET j == IF i < k THEN i ELSE i + 1 IN
              j \in DOMAIN rows /\ left[i] = rows[j]
<1> DEFINE I == {i \in 1 .. Len(rows) : rows[i].name = name}
           left == Deleted(rows, name)
<1>1. CASE I = {}
  <2>1. left = rows
    BY <1>1 DEF Deleted, RemoveFirstMatch
  <2>2. \A i \in DOMAIN rows : i < Len(rows) + 1
    OBVIOUS
  <2>. QED  BY <2>1, <2>2
<1>2. CASE I # {}
  <2> DEFINE k == Min(I)
             above == SubSeq(rows, 1, k - 1)
             below == SubSeq(rows, k + 1, Len(rows))
  <2>1. k \in 1 .. Len(rows)
    <3>1. I \in SUBSET Nat /\ I \subseteq 1 .. Len(rows)
      OBVIOUS
    <3>. HIDE DEF I
    <3>. QED  BY <3>1, <1>2, LeastNumber
  <2>2. left = above \o below
    BY <1>2 DEF Deleted, RemoveFirstMatch, SelectInSeq, RemoveAt
  <2> HIDE DEF I, left, k
  <2>3. /\ above \in Seq(R) /\ Len(above) = k - 1
        /\ \A i \in 1 .. k - 1 : above[i] = rows[i]
    <3>1. k - 1 \in 0 .. Len(rows)
      BY <2>1
    <3>. QED  BY <2>1, <3>1, SubSeqProperties
  <2>4. /\ below \in Seq(R) /\ Len(below) = Len(rows) - k
        /\ \A i \in 1 .. Len(rows) - k : below[i] = rows[k + i]
    <3>1. k + 1 \in 1 .. Len(rows) + 1 /\ Len(rows) \in k .. Len(rows)
      BY <2>1
    <3>. QED  BY <2>1, <3>1, SubSeqProperties
  <2>5. /\ left \in Seq(R) /\ Len(left) = Len(above) + Len(below)
        /\ \A i \in 1 .. Len(above) + Len(below) :
             left[i] = IF i <= Len(above) THEN above[i] ELSE below[i - Len(above)]
    <3>. HIDE DEF above, below
    <3>. QED  BY <2>2, <2>3, <2>4, ConcatProperties
  <2>. HIDE DEF above, below
  <2>6. ASSUME NEW i \in 1 .. Len(left)
        PROVE  LET j == IF i < k THEN i ELSE i + 1 IN
               j \in 1 .. Len(rows) /\ left[i] = rows[j]
    <3>1. CASE i < k
      <4>1. i \in 1 .. k - 1 /\ i \in 1 .. Len(rows)
        BY <2>1, <3>1, <2>3, <2>4, <2>5
      <4>. QED  BY <4>1, <3>1, <2>1, <2>3, <2>5
    <3>2. CASE ~ (i < k)
      <4>1. i - Len(above) \in 1 .. Len(rows) - k /\ i + 1 \in 1 .. Len(rows)
        BY <2>1, <3>2, <2>3, <2>4, <2>5
      <4>2. left[i] = below[i - (k - 1)]
        BY <4>1, <3>2, <2>1, <2>3, <2>5
      <4>3. k + (i - (k - 1)) = i + 1
        BY <2>1
      <4>. QED  BY <4>1, <4>2, <4>3, <3>2, <2>3, <2>4
    <3>. QED  BY <3>1, <3>2
  <2>7. DOMAIN left = 1 .. Len(left) /\ DOMAIN rows = 1 .. Len(rows) /\ k \in Nat
    BY <2>1, <2>5
  <2>. QED  BY <2>5, <2>6, <2>7 DEF left
<1>. QED  BY <1>1, <1>2

\* A row that is saved is listed first, the others behind it.
LEMMA UpsertedFacts ==
  ASSUME NEW R, NEW rows \in Seq(R), NEW row \in R
  PROVE  LET left == Deleted(rows, row.name)
             all  == Upserted(rows, row) IN
         /\ all \in Seq(R) /\ all[1] = row
         /\ \A i \in DOMAIN all : i # 1 => i - 1 \in DOMAIN left /\ all[i] = left[i - 1]
<1> DEFINE left == Deleted(rows, row.name)
           all  == Upserted(rows, row)
<1>1. left \in Seq(R)
  BY DeletedFacts
<1>2. all = <<row>> \o left
  BY DEF Upserted
<1>. HIDE DEF left, all
<1>3. <<row>> \in Seq(R) /\ Len(<<row>>) = 1 /\ <<row>>[1] = row
  OBVIOUS
<1>4. Len(left) \in Nat /\ DOMAIN left = 1 .. Len(left)
  BY <1>1
<1>5. /\ all \in Seq(R) /\ Len(all) = 1 + Len(left)
      /\ \A i \in 1 .. 1 + Len(left) : all[i] = IF i <= 1 THEN row ELSE left[i - 1]
  <2>. DEFINE head == <<row>>
  <2>1. head \in Seq(R) /\ Len(head) = 1 /\ head[1] = row /\ all = head \o left
    BY <1>2, <1>3
  <2>. HIDE DEF head
  <2>2. /\ head \o left \in Seq(R) /\ Len(head \o left) = Len(head) + Len(left)
        /\ \A i \in 1 .. Len(head) + Len(left) :
             (head \o left)[i] = IF i <= Len(head) THEN head[i] ELSE left[i - Len(head)]
    BY <2>1, <1>1, ConcatProperties
  <2>3. ASSUME NEW i \in 1 .. 1 + Len(left)
        PROVE  all[i] = IF i <= 1 THEN row ELSE left[i - 1]
    BY <2>1, <2>2, <1>4
  <2>. QED  BY <2>1, <2>2, <2>3
<1>6. DOMAIN all = 1 .. 1 + Len(left) /\ all[1] = row
  BY <1>4, <1>5
<1>7. ASSUME NEW i \in DOMAIN all, i # 1
      PROVE  i - 1 \in DOMAIN left /\ all[i] = left[i - 1]
  BY <1>4, <1>5, <1>6, <1>7
<1>. QED  BY <1>5, <1>6, <1>7 DEF left, all

-----------------------------------------------------------------------------
(* What the rows of watches record.                                         *)

\* A row has the text and the state of the feed it was saved from, by one of
\* the first n edits.
Recorded(rows, n) ==
  \A i \in DOMAIN rows :
    /\ rows[i].text = Displayed(rows[i].meant.spec)
    /\ rows[i].paused = rows[i].meant.paused
    /\ rows[i].at <= n

\* The list is that of the times of writing, the latest first.
Ordered(rows) == \A i, j \in DOMAIN rows : i < j => rows[j].at < rows[i].at

PresetsInv == PresetsTypeOK /\ Recorded(watches, edits) /\ Ordered(watches)

\* Neither deleting a row nor saving one, by the next edit, makes the list say
\* anything else than how the feed was, or in any other order.
LEMMA DeletedRecorded ==
  ASSUME NEW rows \in Seq(Watches), NEW name, NEW n, Recorded(rows, n), Ordered(rows)
  PROVE  Recorded(Deleted(rows, name), n) /\ Ordered(Deleted(rows, name))
<1> DEFINE left == Deleted(rows, name)
<1>1. PICK k \in Nat : \A i \in DOMAIN left :
        LET j == IF i < k THEN i ELSE i + 1 IN j \in DOMAIN rows /\ left[i] = rows[j]
  BY DeletedFacts
<1>2. left \in Seq(Watches)
  BY DeletedFacts
<1>. HIDE DEF left
<1>3. Recorded(left, n)
  BY <1>1 DEF Recorded
<1>4. ASSUME NEW i \in DOMAIN left, NEW j \in DOMAIN left, i < j
      PROVE  left[j].at < left[i].at
  <2> DEFINE from(m) == IF m < k THEN m ELSE m + 1
  <2>1. i \in Nat /\ j \in Nat /\ from(i) < from(j)
    BY <1>2, <1>4
  <2>2. from(i) \in DOMAIN rows /\ from(j) \in DOMAIN rows
    BY <1>1
  <2>. QED  BY <1>1, <2>1, <2>2 DEF Ordered
<1>. QED  BY <1>3, <1>4 DEF left, Ordered

LEMMA UpsertedRecorded ==
  ASSUME NEW rows \in Seq(Watches), NEW row \in Watches, NEW n \in Nat,
         Recorded(rows, n), Ordered(rows), row.at = n + 1,
         row.text = Displayed(row.meant.spec), row.paused = row.meant.paused
  PROVE  Recorded(Upserted(rows, row), n + 1) /\ Ordered(Upserted(rows, row))
<1> DEFINE left == Deleted(rows, row.name)
           all  == Upserted(rows, row)
<1>1. left \in Seq(Watches) /\ Recorded(left, n) /\ Ordered(left)
  BY DeletedFacts, DeletedRecorded
<1>2. /\ all \in Seq(Watches) /\ all[1] = row
      /\ \A i \in DOMAIN all : i # 1 => i - 1 \in DOMAIN left /\ all[i] = left[i - 1]
  BY UpsertedFacts
<1>. HIDE DEF left, all
<1>3. \A i \in DOMAIN left : left[i].at \in Nat /\ left[i].at < row.at
  <2>1. \A i \in DOMAIN left : left[i] \in Watches
    BY <1>1
  <2>. QED  BY <1>1, <2>1 DEF Recorded, Watches
<1>4. DOMAIN all \subseteq Nat /\ DOMAIN left \subseteq Nat
  BY <1>1, <1>2
<1>5. ASSUME NEW i \in DOMAIN all, NEW j \in DOMAIN all, i < j
      PROVE  all[j].at < all[i].at
  <2>1. j # 1 /\ j - 1 \in DOMAIN left /\ all[j] = left[j - 1]
    <3>1. i \in 1 .. Len(all) /\ j \in 1 .. Len(all)
      BY <1>2
    <3>. QED  BY <3>1, <1>5, <1>2
  <2>2. CASE i = 1
    BY <2>1, <2>2, <1>2, <1>3
  <2>3. CASE i # 1
    <3>1. i - 1 \in DOMAIN left /\ all[i] = left[i - 1] /\ i - 1 < j - 1
      BY <1>2, <1>4, <1>5, <2>3
    <3>. QED  BY <3>1, <2>1, <1>1 DEF Ordered
  <2>. QED  BY <2>2, <2>3
<1>6. ASSUME NEW i \in DOMAIN all
      PROVE  /\ all[i].text = Displayed(all[i].meant.spec)
             /\ all[i].paused = all[i].meant.paused
             /\ all[i].at <= n + 1
  <2>1. CASE i = 1
    BY <2>1, <1>2
  <2>2. CASE i # 1
    BY <2>2, <1>1, <1>2, <1>3 DEF Recorded
  <2>. QED  BY <2>1, <2>2
<1>. QED  BY <1>5, <1>6 DEF Recorded, Ordered, all
-----------------------------------------------------------------------------
(* Sessions.                                                                *)

\* Filters stay filters when they are shown, read or put on a feed.
LEMMA TextFacts ==
  /\ All \in Specs
  /\ \A spec \in Specs : Displayed(spec) \in Specs /\ Parsed(spec) \in Specs
  /\ \A feed \in Feeds, spec \in Specs :
       SetFilter(feed, spec) = [spec |-> spec, paused |-> feed.paused]
<1>1. All \in Specs
  BY DEF All, Specs, Classes
<1>2. ASSUME NEW spec \in Specs PROVE Displayed(spec) \in Specs
  <2>1. spec = [class |-> spec.class, word |-> spec.word] /\ spec.class \in Classes
        /\ spec.word \in Words \cup {NoWord}
    BY DEF Specs
  <2>2. spec.word # NoWord => Cut[spec.word] \in Words
    BY <2>1, CutAssumption
  <2>. QED  BY <2>1, <2>2 DEF Displayed, Specs
<1>3. \A feed \in Feeds, spec \in Specs :
       SetFilter(feed, spec) = [spec |-> spec, paused |-> feed.paused]
  BY DEF SetFilter, Feeds
<1>. QED  BY <1>1, <1>2, <1>3 DEF Parsed

\* A watch that is applied puts its text and its state on the feed.
LEMMA ApplyWatchFacts ==
  ASSUME NEW s \in Sessions, NEW row \in Watches
  PROVE  LET new == ApplyWatch(s, row) IN
         /\ new \in Sessions /\ [new EXCEPT !.applied = TRUE] \in Sessions
         /\ new.feed = [spec |-> Parsed(row.text), paused |-> row.paused]
         /\ new.screen = s.screen
<1>1. row.text \in Specs /\ row.paused \in BOOLEAN
  BY DEF Watches
<1>2. [spec |-> Parsed(row.text), paused |-> row.paused] \in Feeds
  BY <1>1, TextFacts DEF Feeds
<1>. QED  BY <1>2 DEF ApplyWatch, Sessions

\* Coming to the live feed leaves the session as it is, or a preset is applied
\* by itself, the first in the session.
LEMMA ProfileWatchedFacts ==
  ASSUME PresetsTypeOK, NEW s \in Sessions, NEW new \in ProfileWatched(s)
  PROVE  /\ new \in Sessions
         /\ new = s \/ (~ s.applied /\ new.applied)
<1>1. CASE new = s
  BY <1>1
<1>2. CASE new # s
  <2>1. PICK listed \in BOOLEAN :
          ~ s.applied /\ Due(listed) # 0 /\ new = Applied(s, Due(listed))
    BY <1>2 DEF ProfileWatched
  <2>2. watches \in Seq(Watches)
    BY DEF PresetsTypeOK
  <2>3. Due(listed) \in DOMAIN watches
    <3>1. Named(watches, DefaultWatch) # 0 => Named(watches, DefaultWatch) \in DOMAIN watches
      BY <2>2, NamedFacts DEF RowsOf
    <3>. QED  BY <2>1, <2>2, <3>1, AutoAppliedFacts DEF Due
  <2>4. watches[Due(listed)] \in Watches
    BY <2>2, <2>3
  <2>. DEFINE row == watches[Due(listed)]
  <2>5. ApplyWatch(s, row) \in Sessions /\ new = [ApplyWatch(s, row) EXCEPT !.applied = TRUE]
        /\ new \in Sessions
    BY <2>1, <2>4, ApplyWatchFacts DEF Applied
  <2>6. new.applied
    <3>. DEFINE old == ApplyWatch(s, row)
    <3>1. old \in Sessions /\ new = [old EXCEPT !.applied = TRUE]
      BY <2>5
    <3>. HIDE DEF old
    <3>. QED  BY <3>1 DEF Sessions
  <2>. QED  BY <2>1, <2>5, <2>6
<1>. QED  BY <1>1, <1>2

\* A captured context is what the feed is put back to, and so with the ways to
\* return to the live feed.
LEMMA ContextRestoredFacts ==
  ASSUME NEW s \in Sessions
  PROVE  LET new == ContextRestored(s) IN
         /\ new \in Sessions
         /\ s.context # {} => new.feed \in s.context
         /\ new.applied = s.applied
<1> DEFINE feed == IF s.context = {} THEN s.feed ELSE CHOOSE f \in s.context : TRUE
<1>1. feed \in Feeds /\ (s.context # {} => feed \in s.context)
  BY DEF Sessions
<1>2. ContextRestored(s) = [s EXCEPT !.feed = feed, !.context = {}]
  BY DEF ContextRestored
<1>. HIDE DEF feed
<1>. QED  BY <1>1, <1>2 DEF Sessions

LEMMA ReturnedFacts ==
  ASSUME NEW s \in Sessions
  PROVE  LET new == ReturnedToLive(s) IN
         /\ new \in Sessions
         /\ s.context # {} => new.feed \in s.context
         /\ new.applied = s.applied
<1> DEFINE at == [s EXCEPT !.screen = "live_feed", !.page = NoEntity, !.returns = FALSE]
<1>1. at \in Sessions /\ at.context = s.context /\ at.applied = s.applied
  BY DEF Sessions
<1>2. \/ ReturnedToLive(s) = s /\ s.context = {}
      \/ ReturnedToLive(s) = ContextRestored(at)
  BY DEF ReturnedToLive
<1>. HIDE DEF at
<1>. QED  BY <1>1, <1>2, ContextRestoredFacts

\* A lookup leads to its page, or to none.
LEMMA LookedUpTyped ==
  ASSUME NEW s \in Sessions, NEW entity \in Entities
  PROVE  LookedUp(s, entity) \subseteq Sessions
<1>1. ASSUME NEW page \in Entities \cup {NoEntity}
      PROVE  [s EXCEPT !.screen = "lookup", !.page = page, !.returns = FALSE] \in Sessions
  BY DEF Sessions
<1>. QED  BY <1>1 DEF LookedUp

\* What a view runs when it is opened.
LEMMA ViewOpenTyped ==
  ASSUME PresetsTypeOK, NEW s \in Sessions, NEW row \in Views
  PROVE  Executed(FilterPut([s EXCEPT !.screen = ScreenOf(row.command)], row.text), row.command)
           \subseteq Sessions
<1> DEFINE at == [s EXCEPT !.screen = ScreenOf(row.command)]
           put == FilterPut(at, row.text)
<1>1. row.command \in {"home", "live"} \cup Entities /\ row.text \in Specs
  BY DEF Views
<1>2. at \in Sessions
  BY DEF ScreenOf, Sessions
<1>3. put \in Sessions
  <2>1. at.feed \in Feeds
    BY <1>2 DEF Sessions
  <2>2. SetFilter(at.feed, row.text) \in Feeds
    BY <2>1, <1>1, TextFacts DEF Feeds
  <2>3. put = at \/ put = [at EXCEPT !.feed = SetFilter(at.feed, row.text)]
    BY DEF FilterPut
  <2>. HIDE DEF at, put
  <2>. QED  BY <2>2, <2>3, <1>2 DEF Sessions
<1>. HIDE DEF at, put
<1>4. CASE row.command = "live"
  <2>1. Executed(put, row.command) = ProfileWatched([put EXCEPT !.screen = "live_feed"])
    BY <1>4 DEF Executed
  <2>2. [put EXCEPT !.screen = "live_feed"] \in Sessions
    BY <1>3 DEF Sessions
  <2>. QED  BY <2>1, <2>2, ProfileWatchedFacts DEF at, put
<1>5. CASE row.command = "home"
  <2>1. Executed(put, row.command) = {[put EXCEPT !.screen = "home"]}
    BY <1>5 DEF Executed
  <2>. QED  BY <2>1, <1>3 DEF Sessions, at, put
<1>6. CASE row.command \notin {"home", "live"}
  <2>1. Executed(put, row.command) = LookedUp(put, row.command)
    BY <1>6 DEF Executed
  <2>. QED  BY <2>1, <1>1, <1>3, <1>6, LookedUpTyped DEF at, put
<1>. QED  BY <1>4, <1>5, <1>6

\* A screen or a feed put into a session.
LEMMA PutFacts ==
  ASSUME NEW s \in Sessions
  PROVE  /\ \A screen \in {"home", "live_feed", "lookup"} :
              [s EXCEPT !.screen = screen] \in Sessions
         /\ \A feed \in Feeds :
              LET new == [s EXCEPT !.feed = feed] IN
              new \in Sessions /\ new.feed = feed /\ new.applied = s.applied
         /\ s.feed \in Feeds /\ s.feed.spec \in Specs /\ s.feed.paused \in BOOLEAN
         /\ s.feed = [spec |-> s.feed.spec, paused |-> s.feed.paused]
<1>1. \A screen \in {"home", "live_feed", "lookup"} : [s EXCEPT !.screen = screen] \in Sessions
  BY DEF Sessions
<1>2. ASSUME NEW feed \in Feeds
      PROVE  LET new == [s EXCEPT !.feed = feed] IN
             new \in Sessions /\ new.feed = feed /\ new.applied = s.applied
  BY DEF Sessions
<1>3. s.feed \in Feeds
  BY DEF Sessions
<1>4. /\ s.feed.spec \in Specs /\ s.feed.paused \in BOOLEAN
      /\ s.feed = [spec |-> s.feed.spec, paused |-> s.feed.paused]
  BY <1>3 DEF Feeds
<1>. QED  BY <1>1, <1>2, <1>3, <1>4

\* A row of the feed is a lookup with a context captured.
LEMMA OpenFeedRowTyped ==
  ASSUME session \in Sessions, NEW entity \in Entities, OpenFeedRow(entity)
  PROVE  session' \in Sessions
<1> DEFINE captured == [session EXCEPT !.context = {session.feed}]
           opened == {[s EXCEPT !.returns = s.page # NoEntity] : s \in LookedUp(captured, entity)}
<1>1. captured \in Sessions
  BY DEF Sessions
<1>2. session' \in {captured} \cup opened
  BY DEF OpenFeedRow, Leave, Change
<1>3. \A s \in LookedUp(captured, entity) : s \in Sessions
  BY <1>1, LookedUpTyped
<1>. HIDE DEF captured
<1>4. \A s \in Sessions : [s EXCEPT !.returns = s.page # NoEntity] \in Sessions
  BY DEF Sessions
<1>. QED  BY <1>1, <1>2, <1>3, <1>4

\* Whatever is done, the session has its type.
LEMMA SessionTyped ==
  ASSUME PresetsTypeOK, Next
  PROVE  session' \in Sessions
<1>0. session \in Sessions /\ watches \in Seq(Watches) /\ views \in Seq(Views)
  BY DEF PresetsTypeOK
<1>1. CASE GoTo("home") \/ GoTo("lookup")
  BY <1>0, <1>1, PutFacts DEF GoTo, Leave, Change
<1>2. CASE GoLive
  <2>1. session' \in ProfileWatched([session EXCEPT !.screen = "live_feed"])
    BY <1>2 DEF GoLive, Leave, Change
  <2>. QED  BY <2>1, <1>0, PutFacts, ProfileWatchedFacts
<1>3. CASE CycleFilter \/ TogglePause
  <2>1. \E feed \in Feeds : session' = [session EXCEPT !.feed = feed]
    <3>1. CASE CycleFilter
      <4>1. session' = [session EXCEPT !.feed.spec.class = NextClass(session.feed.spec.class)]
        BY <3>1 DEF CycleFilter, Change
      <4>2. [session.feed EXCEPT !.spec.class = NextClass(session.feed.spec.class)] \in Feeds
        BY <1>0 DEF Sessions, Feeds, Specs, NextClass, Classes
      <4>. QED  BY <4>1, <4>2
    <3>2. CASE TogglePause
      <4>1. session' = [session EXCEPT !.feed.paused = ~ session.feed.paused]
        BY <3>2 DEF TogglePause, Change
      <4>2. [session.feed EXCEPT !.paused = ~ session.feed.paused] \in Feeds
        BY <1>0 DEF Sessions, Feeds
      <4>. QED  BY <4>1, <4>2
    <3>. QED  BY <3>1, <3>2, <1>3
  <2>. QED  BY <2>1, <1>0, PutFacts
<1>4. CASE LiveReturn
  <2>1. session' \in ProfileWatched(ReturnedToLive(session))
    BY <1>4 DEF LiveReturn, Leave, Change
  <2>. QED  BY <2>1, <1>0, ReturnedFacts, ProfileWatchedFacts
<1>5. CASE BackToLive
  <2>1. session' = ReturnedToLive(session)
        \/ session' = ContextRestored([session EXCEPT !.screen = "live_feed"])
    BY <1>5 DEF BackToLive, Leave, Change
  <2>2. [session EXCEPT !.screen = "live_feed"] \in Sessions
    BY <1>0, PutFacts
  <2>3. ContextRestored([session EXCEPT !.screen = "live_feed"]) \in Sessions
    BY <2>2, ContextRestoredFacts
  <2>4. ReturnedToLive(session) \in Sessions
    BY <1>0, ReturnedFacts
  <2>. QED  BY <2>1, <2>3, <2>4
<1>6. CASE Restart
  <2>1. session' = [Fresh EXCEPT !.screen = session.screen]
    BY <1>6 DEF Restart, Leave, Change
  <2>2. session.screen \in {"home", "live_feed", "lookup"}
    BY <1>0 DEF Sessions
  <2>3. Fresh \in Sessions
    BY TextFacts DEF Fresh, Sessions, Feeds
  <2>. HIDE DEF Fresh
  <2>. QED  BY <2>1, <2>2, <2>3, PutFacts
<1>7. CASE \E entity \in Entities : Lookup(entity) \/ OpenFeedRow(entity)
  BY <1>0, <1>7, LookedUpTyped, OpenFeedRowTyped DEF Lookup, Leave, Change
<1>8. CASE \E spec \in Typed : LiveFilter(spec)
  <2>1. PICK spec \in Typed : LiveFilter(spec)
    BY <1>8
  <2>2. session' \in ProfileWatched([session EXCEPT !.feed = SetFilter(session.feed, spec)])
    BY <2>1 DEF LiveFilter, Change
  <2>3. SetFilter(session.feed, spec) \in Feeds
    <3>1. spec \in Specs
      BY DEF Typed
    <3>2. SetFilter(session.feed, spec) = [spec |-> spec, paused |-> session.feed.paused]
      BY <3>1, <1>0, PutFacts, TextFacts
    <3>3. session.feed.paused \in BOOLEAN
      BY <1>0, PutFacts
    <3>. QED  BY <3>1, <3>2, <3>3 DEF Feeds
  <2>. QED  BY <2>2, <2>3, <1>0, PutFacts, ProfileWatchedFacts
<1>9. CASE \E paused \in BOOLEAN : LivePause(paused)
  <2>1. PICK paused \in BOOLEAN : LivePause(paused)
    BY <1>9
  <2>2. session' \in ProfileWatched([session EXCEPT !.feed.paused = paused])
    BY <2>1 DEF LivePause, Change
  <2>3. [session.feed EXCEPT !.paused = paused] \in Feeds
    BY <1>0 DEF Sessions, Feeds
  <2>4. [session EXCEPT !.feed.paused = paused] \in Sessions
    BY <2>3, <1>0, PutFacts
  <2>. QED  BY <2>2, <2>4, ProfileWatchedFacts
<1>10. CASE \E name \in Names :
         \/ \E auto \in BOOLEAN : WatchSave(name, auto)
         \/ WatchDelete(name) \/ ViewSave(name) \/ ViewDelete(name)
  BY <1>0, <1>10 DEF WatchSave, WatchDelete, ViewSave, ViewDelete
<1>11. CASE \E name \in Names : WatchOpen(name)
  <2>1. PICK name \in Names : WatchOpen(name)
    BY <1>11
  <2>. DEFINE i == Named(watches, name)
  <2>2. \/ session' = session
        \/ i # 0 /\ session' = ApplyWatch([session EXCEPT !.screen = "live_feed"], watches[i])
    BY <2>1 DEF WatchOpen, Leave, Change
  <2>3. i # 0 => watches[i] \in Watches
    BY <1>0, NamedFacts DEF RowsOf
  <2>. HIDE DEF i
  <2>4. [session EXCEPT !.screen = "live_feed"] \in Sessions
    BY <1>0, PutFacts
  <2>5. i # 0 => ApplyWatch([session EXCEPT !.screen = "live_feed"], watches[i]) \in Sessions
    BY <2>3, <2>4, ApplyWatchFacts
  <2>. QED  BY <2>2, <2>5, <1>0
<1>12. CASE \E name \in Names : ViewOpen(name)
  <2>1. PICK name \in Names : ViewOpen(name)
    BY <1>12
  <2>. DEFINE i == Named(views, name)
              row == views[i]
  <2>2. \/ session' = session
        \/ /\ i # 0
           /\ session' \in Executed(FilterPut([session EXCEPT !.screen = ScreenOf(row.command)],
                                             row.text), row.command)
    BY <2>1 DEF ViewOpen, Leave, Change
  <2>3. i # 0 => row \in Views
    BY <1>0, NamedFacts DEF RowsOf
  <2>. HIDE DEF i, row
  <2>. QED  BY <2>2, <2>3, <1>0, ViewOpenTyped
<1>. QED  BY <1>1, <1>2, <1>3, <1>4, <1>5, <1>6, <1>7, <1>8, <1>9, <1>10, <1>11, <1>12 DEF Next
-----------------------------------------------------------------------------
(* The theorems.                                                            *)

\* The tables keep their types and record how the feed was saved.
LEMMA TablesKept ==
  ASSUME PresetsInv, Next
  PROVE  /\ watches' \in Seq(Watches) /\ Recorded(watches', edits') /\ Ordered(watches')
         /\ views' \in Seq(Views)
         /\ edits' \in 0 .. MaxEdits
<1>0. /\ session \in Sessions /\ watches \in Seq(Watches) /\ views \in Seq(Views)
      /\ edits \in Nat /\ edits \in 0 .. MaxEdits
      /\ Recorded(watches, edits) /\ Ordered(watches)
  BY MaxEditsAssumption DEF PresetsInv, PresetsTypeOK
<1>1. edits < MaxEdits => edits + 1 \in 1 .. MaxEdits /\ edits + 1 \in 0 .. MaxEdits
  BY <1>0, MaxEditsAssumption
<1>2. Recorded(watches, edits + 1)
  <2>1. \A i \in DOMAIN watches : watches[i] \in Watches
    BY <1>0
  <2>2. \A i \in DOMAIN watches : watches[i].at \in Nat
    BY <2>1 DEF Watches
  <2>. QED  BY <1>0, <2>2 DEF Recorded
<1>3. CASE UNCHANGED <<watches, views, edits>>
  BY <1>0, <1>3
<1>4. CASE UNCHANGED <<watches, views>> /\ Edit
  BY <1>0, <1>1, <1>2, <1>4 DEF Edit
<1>5. CASE \E name \in Names, auto \in BOOLEAN : WatchSave(name, auto)
  <2>1. PICK name \in Names, auto \in BOOLEAN : WatchSave(name, auto)
    BY <1>5
  <2>. DEFINE row == [name |-> name, text |-> Displayed(session.feed.spec),
                      paused |-> session.feed.paused, auto |-> auto,
                      meant |-> session.feed, at |-> edits + 1]
  <2>2. /\ edits < MaxEdits /\ edits' = edits + 1
        /\ watches' = Upserted(watches, row) /\ views' = views
    BY <2>1 DEF WatchSave, Edit
  <2>3. row \in Watches
    <3>1. /\ session.feed \in Feeds /\ session.feed.paused \in BOOLEAN
          /\ Displayed(session.feed.spec) \in Specs
      BY <1>0, PutFacts, TextFacts
    <3>. QED  BY <3>1, <1>1, <2>2 DEF Watches
  <2>4. /\ row.at = edits + 1 /\ row.text = Displayed(row.meant.spec)
        /\ row.paused = row.meant.paused
    OBVIOUS
  <2>. HIDE DEF row
  <2>5. Upserted(watches, row) \in Seq(Watches)
    BY <1>0, <2>3, UpsertedFacts
  <2>6. Recorded(Upserted(watches, row), edits + 1) /\ Ordered(Upserted(watches, row))
    BY <1>0, <2>3, <2>4, UpsertedRecorded
  <2>. QED  BY <2>2, <2>5, <2>6, <1>0, <1>1
<1>6. CASE \E name \in Names : WatchDelete(name)
  <2>1. PICK name \in Names : WatchDelete(name)
    BY <1>6
  <2>2. watches' = Deleted(watches, name) /\ UNCHANGED <<views, edits>>
    BY <2>1 DEF WatchDelete
  <2>3. Deleted(watches, name) \in Seq(Watches)
    BY <1>0, DeletedFacts
  <2>4. Recorded(Deleted(watches, name), edits) /\ Ordered(Deleted(watches, name))
    BY <1>0, DeletedRecorded
  <2>. QED  BY <2>2, <2>3, <2>4, <1>0
<1>7. CASE \E name \in Names : ViewSave(name)
  <2>1. PICK name \in Names : ViewSave(name)
    BY <1>7
  <2>2. PICK command \in Saveable(session) :
          views' = Upserted(views,
            [name |-> name, command |-> command, text |-> StoredText(session),
             meant |-> session.feed, at |-> edits'])
    BY <2>1 DEF ViewSave
  <2>. DEFINE row == [name |-> name, command |-> command, text |-> StoredText(session),
                      meant |-> session.feed, at |-> edits + 1]
  <2>3. /\ edits < MaxEdits /\ edits' = edits + 1 /\ watches' = watches
        /\ views' = Upserted(views, row)
    BY <2>1, <2>2 DEF ViewSave, Edit
  <2>4. row \in Views
    <3>1. session.feed \in Feeds /\ StoredText(session) \in Specs
      BY <1>0, PutFacts, TextFacts DEF StoredText
    <3>2. command \in {"home", "live"} \cup Entities
      BY <1>0 DEF Saveable, Sessions
    <3>. QED  BY <3>1, <3>2, <1>1, <2>3 DEF Views
  <2>. HIDE DEF row
  <2>5. Upserted(views, row) \in Seq(Views)
    BY <1>0, <2>4, UpsertedFacts
  <2>. QED  BY <2>3, <2>5, <1>0, <1>1, <1>2
<1>8. CASE \E name \in Names : ViewDelete(name)
  <2>1. PICK name \in Names : ViewDelete(name)
    BY <1>8
  <2>2. Deleted(views, name) \in Seq(Views)
    BY <1>0, DeletedFacts
  <2>. QED  BY <2>1, <2>2, <1>0 DEF ViewDelete
<1>9. \/ UNCHANGED <<watches, views, edits>>
      \/ UNCHANGED <<watches, views>> /\ Edit
      \/ \E name \in Names :
           \/ \E auto \in BOOLEAN : WatchSave(name, auto)
           \/ WatchDelete(name) \/ ViewSave(name) \/ ViewDelete(name)
  <2>. USE DEF Leave, Change
  <2>1. CASE GoTo("home") \/ GoTo("lookup") \/ GoLive \/ LiveReturn \/ BackToLive \/ Restart
    BY <2>1 DEF GoTo, GoLive, LiveReturn, BackToLive, Restart
  <2>2. CASE CycleFilter \/ TogglePause
    BY <2>2 DEF CycleFilter, TogglePause
  <2>3. CASE \E entity \in Entities : Lookup(entity) \/ OpenFeedRow(entity)
    BY <2>3 DEF Lookup, OpenFeedRow
  <2>4. CASE \/ \E spec \in Typed : LiveFilter(spec)
             \/ \E paused \in BOOLEAN : LivePause(paused)
    BY <2>4 DEF LiveFilter, LivePause
  <2>5. CASE \E name \in Names : WatchOpen(name) \/ ViewOpen(name)
    BY <2>5 DEF WatchOpen, ViewOpen
  <2>. HIDE DEF Leave, Change
  <2>. QED  BY <2>1, <2>2, <2>3, <2>4, <2>5 DEF Next
<1>. QED  BY <1>3, <1>4, <1>5, <1>6, <1>7, <1>8, <1>9

\* PresetsInv is inductive.
LEMMA PresetsInvariance == Spec => []PresetsInv
<1>1. Init => PresetsInv
  <2>1. ASSUME Init PROVE PresetsTypeOK
    <3>1. Fresh \in Sessions
      BY TextFacts DEF Fresh, Sessions, Feeds
    <3>. QED  BY <2>1, <3>1, MaxEditsAssumption DEF Init, PresetsTypeOK
  <2>. QED  BY <2>1 DEF Init, PresetsInv, Recorded, Ordered
<1>2. PresetsInv /\ [Next]_vars => PresetsInv'
  <2>. SUFFICES ASSUME PresetsInv, [Next]_vars PROVE PresetsInv'
    OBVIOUS
  <2>1. CASE Next
    BY <2>1, SessionTyped, TablesKept DEF PresetsInv, PresetsTypeOK
  <2>2. CASE UNCHANGED vars
    BY <2>2 DEF PresetsInv, PresetsTypeOK, vars
  <2>. QED  BY <2>1, <2>2
<1>. QED  BY <1>1, <1>2, PTL DEF Spec

\* The type invariant: whatever is saved, applied, deleted and returned to, the
\* feed has a filter that can be shown, and every row a text that can be read.
THEOREM PresetsTypeCorrect == Spec => []PresetsTypeOK
<1>1. PresetsInv => PresetsTypeOK
  BY DEF PresetsInv
<1>. QED  BY <1>1, PresetsInvariance, PTL

\* Opening a watch puts the feed back as it was when the watch of that name
\* was saved last (openWatchSetting): what is listed first is what was written
\* last, and what was written is what the feed was.
THEOREM OpenRestoresFeed == Spec => WatchRestoresFeed
<1>1. ASSUME PresetsInv, NEW name \in Names, NEW i \in DOMAIN watches,
             WatchOpen(name), IsLatest(watches, name, i)
      PROVE  /\ session'.screen = "live_feed"
             /\ session'.feed.paused = watches[i].meant.paused
             /\ session'.feed.spec = watches[i].meant.spec \/ ~ Survives(watches[i].meant.spec)
  <2>0. session \in Sessions /\ watches \in Seq(Watches)
        /\ Recorded(watches, edits) /\ Ordered(watches)
    BY <1>1 DEF PresetsInv, PresetsTypeOK
  <2>. DEFINE n == Named(watches, name)
  <2>1. n \in RowsOf(watches, name) /\ n # 0 /\ \A j \in RowsOf(watches, name) : n <= j
    <3>1. i \in RowsOf(watches, name)
      BY <1>1 DEF IsLatest
    <3>. QED  BY <2>0, <3>1, NamedFacts
  <2>2. session' = ApplyWatch([session EXCEPT !.screen = "live_feed"], watches[n])
    BY <1>1, <2>1 DEF WatchOpen, Leave, Change
  <2>. HIDE DEF n
  <2>3. n = i
    <3>1. n \in DOMAIN watches /\ n \in Nat /\ i \in Nat /\ i \in RowsOf(watches, name)
      BY <2>0, <2>1, <1>1 DEF RowsOf, IsLatest
    <3>2. watches[n] \in Watches /\ watches[i] \in Watches
      BY <2>0, <3>1
    <3>3. watches[n].at <= watches[i].at /\ watches[n].at \in Nat /\ watches[i].at \in Nat
      BY <1>1, <2>1, <3>2 DEF IsLatest, Watches
    <3>4. n < i => watches[i].at < watches[n].at
      BY <2>0, <3>1 DEF Ordered
    <3>. QED  BY <2>1, <3>1, <3>3, <3>4
  <2>4. watches[i] \in Watches
    BY <2>0
  <2>5. [session EXCEPT !.screen = "live_feed"] \in Sessions
    BY <2>0, PutFacts
  <2>6. /\ session'.feed = [spec |-> Parsed(watches[i].text), paused |-> watches[i].paused]
        /\ session'.screen = "live_feed"
    BY <2>0, <2>2, <2>3, <2>4, <2>5, ApplyWatchFacts DEF Sessions
  <2>7. watches[i].text = Displayed(watches[i].meant.spec)
        /\ watches[i].paused = watches[i].meant.paused
    BY <2>0 DEF Recorded
  <2>. QED  BY <2>6, <2>7 DEF Survives
<1>2. PresetsInv /\ [Next]_vars =>
        [\A name \in Names : \A i \in DOMAIN watches :
           WatchOpen(name) /\ IsLatest(watches, name, i) =>
             /\ session'.screen = "live_feed"
             /\ session'.feed.paused = watches[i].meant.paused
             /\ session'.feed.spec = watches[i].meant.spec
                  \/ ~ Survives(watches[i].meant.spec)]_vars
  BY <1>1
<1>. QED  BY <1>2, PresetsInvariance, PTL DEF Spec, WatchRestoresFeed

\* What a command for the feed asks for is what it gets, unless the preset that
\* applies itself comes in, and that happens once in a session
\* (applyProfileWatchOnLiveScreen).
THEOREM UserDecides == Spec => UserHasTheLastWord
<1>1. ASSUME PresetsInv, ~ (~ session.applied /\ session'.applied) PROVE Asks
  <2>0. PresetsTypeOK /\ session \in Sessions
    BY <1>1 DEF PresetsInv, PresetsTypeOK
  <2>1. ASSUME NEW spec \in Typed, LiveFilter(spec) PROVE session'.feed.spec = spec
    <3>. DEFINE feed == SetFilter(session.feed, spec)
                asked == [session EXCEPT !.feed = feed]
    <3>1. spec \in Specs /\ session' \in ProfileWatched(asked)
      BY <2>1 DEF Typed, LiveFilter, Change
    <3>2. feed = [spec |-> spec, paused |-> session.feed.paused] /\ feed \in Feeds
      <4>1. session.feed \in Feeds /\ session.feed.paused \in BOOLEAN
        BY <2>0, PutFacts
      <4>2. feed = [spec |-> spec, paused |-> session.feed.paused]
        BY <3>1, <4>1, TextFacts
      <4>. QED  BY <3>1, <4>1, <4>2 DEF Feeds
    <3>. HIDE DEF feed
    <3>3. asked \in Sessions /\ asked.feed = feed /\ asked.applied = session.applied
      BY <2>0, <3>2, PutFacts
    <3>. HIDE DEF asked
    <3>4. session' = asked
      BY <1>1, <2>0, <3>1, <3>3, ProfileWatchedFacts
    <3>. QED  BY <3>2, <3>3, <3>4
  <2>2. ASSUME NEW paused \in BOOLEAN, LivePause(paused) PROVE session'.feed.paused = paused
    <3>. DEFINE feed == [session.feed EXCEPT !.paused = paused]
                asked == [session EXCEPT !.feed = feed]
    <3>1. session' \in ProfileWatched(asked)
      BY <2>2 DEF LivePause, Change
    <3>2. feed \in Feeds /\ feed.paused = paused
      BY <2>0 DEF Sessions, Feeds
    <3>. HIDE DEF feed
    <3>3. asked \in Sessions /\ asked.feed = feed /\ asked.applied = session.applied
      BY <2>0, <3>2, PutFacts
    <3>. HIDE DEF asked
    <3>4. session' = asked
      BY <1>1, <2>0, <3>1, <3>3, ProfileWatchedFacts
    <3>. QED  BY <3>2, <3>3, <3>4
  <2>3. ASSUME LiveReturn, session.context # {} PROVE session'.feed \in session.context
    <3>. DEFINE back == ReturnedToLive(session)
    <3>1. session' \in ProfileWatched(back)
      BY <2>3 DEF LiveReturn, Leave, Change
    <3>2. back \in Sessions /\ back.feed \in session.context /\ back.applied = session.applied
      BY <2>0, <2>3, ReturnedFacts
    <3>. HIDE DEF back
    <3>3. session' = back
      BY <1>1, <2>0, <3>1, <3>2, ProfileWatchedFacts
    <3>. QED  BY <3>2, <3>3
  <2>4. ASSUME GoLive PROVE session'.feed = session.feed
    <3>. DEFINE live == [session EXCEPT !.screen = "live_feed"]
    <3>1. session' \in ProfileWatched(live)
      BY <2>4 DEF GoLive, Leave, Change
    <3>2. live \in Sessions /\ live.feed = session.feed /\ live.applied = session.applied
      BY <2>0 DEF Sessions
    <3>. HIDE DEF live
    <3>3. session' = live
      BY <1>1, <2>0, <3>1, <3>2, ProfileWatchedFacts
    <3>. QED  BY <3>2, <3>3
  <2>. QED  BY <2>1, <2>2, <2>3, <2>4 DEF Asks
<1>2. PresetsInv /\ [Next]_vars => [Asks \/ (~ session.applied /\ session'.applied)]_vars
  BY <1>1
<1>. QED  BY <1>2, PresetsInvariance, PTL DEF Spec, UserHasTheLastWord
=============================================================================
