-------------------------- MODULE AnnotationsProofs ---------------------------
(***************************************************************************)
(* For all names, entities, files and any number of rows: the tables of    *)
(* labels and attachments stay sound, whatever statement fails and however *)
(* often labels.toml is imported into them.                                *)
(***************************************************************************)
EXTENDS Annotations, TLAPS

\* The id of a label tells where it is from: the file, by its name, or a command,
\* by a number already drawn.
IdsFromNames ==
  \A label \in db.labels :
    \/ label.id = FileId(label.name)
    \/ \E n \in 1 .. made : label.id = UserId(n)

\* The inductive invariant.
AInv == AnnotationsTypeOK /\ IdsFromNames /\ LabelsSound

-----------------------------------------------------------------------------
(* Types: how a command ends.                                               *)

LEMMA MetadataType ==
  ASSUME NEW d \in Databases, NEW entity \in Entities
  PROVE  Metadata(d, entity) \in Shown
BY DEF Metadata, Shown, Databases, Labels, Matching

LEMMA LoadedType ==
  ASSUME NEW d \in Databases, NEW s \in Sessions, NEW entity \in Entities
  PROVE  Loaded(d, s, entity) \subseteq Sessions
<1>1. Metadata(d, entity) \in Shown /\ Nothing \in Shown
  BY MetadataType DEF Nothing, Shown
<1>2. /\ PageOf(entity, Metadata(d, entity)) \in Pages
      /\ PageOf(entity, Nothing) \in Pages
      /\ NoPage \in Pages
  BY <1>1 DEF PageOf, NoPage, Pages
<1>. QED  BY <1>2 DEF Loaded, Sessions

LEMMA OnPageType ==
  ASSUME NEW s \in Sessions, OnPage(s)
  PROVE  s.page.entity \in Entities
BY DEF OnPage, Sessions, Pages

LEMMA EndsFacts ==
  ASSUME NEW d \in Databases, NEW s \in Sessions, Ends(d, s)
  PROVE  db' = d /\ session' \in Sessions
BY LoadedType, OnPageType DEF Ends, Refreshed, Refreshable

LEMMA SaysType ==
  ASSUME AnnotationsTypeOK, NEW status \in {"plain", "done", "failed"}
  PROVE  Says(status) \in Sessions /\ Says(status).page = session.page
BY DEF Says, AnnotationsTypeOK, Sessions

LEMMA SucceedsFacts ==
  ASSUME AnnotationsTypeOK, NEW d \in Databases, Succeeds(d)
  PROVE  db' = d /\ session' \in Sessions
<1>1. Says("done") \in Sessions /\ Says("done").page = session.page
  BY SaysType
<1>2. CASE Ends(d, Says("done"))
  BY <1>1, <1>2, EndsFacts
<1>3. CASE /\ OnPage(session) /\ db' = d
           /\ session' = [Says("done") EXCEPT !.page = PageOf(@.entity, Metadata(d, @.entity))]
  <2>1. session.page.entity \in Entities
    BY <1>3, OnPageType DEF AnnotationsTypeOK
  <2>2. PageOf(session.page.entity, Metadata(d, session.page.entity)) \in Pages
    BY <2>1, MetadataType DEF PageOf, Pages
  <2>. QED  BY <1>1, <1>3, <2>2 DEF Sessions
<1>. QED  BY <1>2, <1>3 DEF Succeeds

LEMMA StopsAtFacts ==
  ASSUME AnnotationsTypeOK, NEW ds \in SUBSET Databases, StopsAt(ds)
  PROVE  db' \in ds /\ session' \in Sessions
<1>1. PICK d \in ds : Ends(d, Says("failed"))
  BY DEF StopsAt
<1>. QED  BY <1>1, SaysType, EndsFacts

-----------------------------------------------------------------------------
(* What each kind of step leaves of labels and attachments.                 *)

\* Attachments may go, and labels stay as they are.
LEMMA FewerTargets ==
  ASSUME AInv, session' \in Sessions, db' \in Databases, made' \in made .. MaxMade,
         db'.labels = db.labels, db'.targets \subseteq db.targets
  PROVE  AInv'
<1>1. AnnotationsTypeOK'
  BY DEF AInv, AnnotationsTypeOK
<1>2. IdsFromNames'
  BY DEF AInv, AnnotationsTypeOK, IdsFromNames
<1>3. LabelsSound'
  BY DEF AInv, LabelsSound, AttachmentsHaveLabel, OneLabelPerName
<1>. QED  BY <1>1, <1>2, <1>3 DEF AInv

\* An attachment to a label that is there.
LEMMA OneMoreTarget ==
  ASSUME AInv, session' \in Sessions, made' = made,
         NEW label \in db.labels, OnPage(session), db' = Attached(db, label.id)
  PROVE  AInv'
<1>1. session.page.entity \in Entities
  BY OnPageType DEF AInv, AnnotationsTypeOK
<1>2. /\ db' \in Databases /\ db'.labels = db.labels
      /\ db'.targets = db.targets \cup {[label |-> label.id, entity |-> session.page.entity]}
  BY <1>1 DEF AInv, AnnotationsTypeOK, Attached, Databases, Labels, Targets
<1>3. AnnotationsTypeOK' /\ IdsFromNames'
  BY <1>2 DEF AInv, AnnotationsTypeOK, IdsFromNames
<1>4. LabelsSound'
  BY <1>2 DEF AInv, LabelsSound, AttachmentsHaveLabel, OneLabelPerName
<1>. QED  BY <1>3, <1>4 DEF AInv

\* A new label, of a name that no label has, with its first attachment or without.
LEMMA OneMoreLabel ==
  ASSUME AInv, session' \in Sessions, made' = made + 1, made < MaxMade,
         NEW name \in Names, Named(name) = {}, NEW targets,
         targets \subseteq {[label |-> UserId(made'), entity |-> e] : e \in Entities},
         db' \in Databases,
         db'.labels = db.labels \cup
                        {[id |-> UserId(made'), name |-> name, color |-> NoColor]},
         db'.targets = db.targets \cup targets
  PROVE  AInv'
<1>1. made \in Nat /\ made' \in 1 .. MaxMade
  BY NamesAssumption DEF AInv, AnnotationsTypeOK
<1>2. AnnotationsTypeOK'
  BY <1>1 DEF AInv, AnnotationsTypeOK
<1>3. IdsFromNames'
  BY <1>1 DEF AInv, IdsFromNames
<1>4. \A label \in db.labels : label.id # UserId(made')
  <2>1. ASSUME NEW label \in db.labels PROVE label.id # UserId(made')
    <3>1. CASE label.id = FileId(label.name)
      BY <3>1 DEF FileId, UserId
    <3>2. CASE \E n \in 1 .. made : label.id = UserId(n)
      BY <3>2, <1>1 DEF UserId
    <3>. QED  BY <3>1, <3>2 DEF AInv, IdsFromNames
  <2>. QED  BY <2>1
<1>. DEFINE new == [id |-> UserId(made'), name |-> name, color |-> NoColor]
<1>5. AttachmentsHaveLabel'
  <2>1. new \in db'.labels /\ new.id = UserId(made')
    OBVIOUS
  <2>2. ASSUME NEW target \in targets PROVE \E label \in db'.labels : label.id = target.label
    <3>1. target.label = UserId(made')
      OBVIOUS
    <3>. QED  BY <2>1, <3>1
  <2>3. ASSUME NEW target \in db.targets
        PROVE  \E label \in db'.labels : label.id = target.label
    BY DEF AInv, LabelsSound, AttachmentsHaveLabel
  <2>. QED  BY <2>2, <2>3 DEF AttachmentsHaveLabel
<1>6. OneLabelPerName'
  BY <1>4 DEF AInv, LabelsSound, OneLabelPerName, Named
<1>. QED  BY <1>2, <1>3, <1>5, <1>6 DEF AInv, LabelsSound

\* A label goes, and its attachments with it.
LEMMA OneLabelLess ==
  ASSUME AInv, session' \in Sessions, made' = made, db' \in Databases,
         NEW label \in db.labels, db'.labels = db.labels \ {label},
         db'.targets = db.targets \ {t \in db.targets : t.label = label.id}
  PROVE  AInv'
<1>1. AnnotationsTypeOK' /\ IdsFromNames'
  BY DEF AInv, AnnotationsTypeOK, IdsFromNames
<1>2. LabelsSound'
  BY DEF AInv, LabelsSound, AttachmentsHaveLabel, OneLabelPerName
<1>. QED  BY <1>1, <1>2 DEF AInv

\* A label gets another color.
LEMMA Recolored ==
  ASSUME AInv, session' \in Sessions, made' = made, NEW color \in Colors,
         NEW label \in db.labels, db' \in Databases,
         db'.labels = (db.labels \ {label}) \cup {[label EXCEPT !.color = color]},
         db'.targets = db.targets
  PROVE  AInv'
<1>1. label \in Labels
  BY DEF AInv, AnnotationsTypeOK, Databases
<1>2. PICK other : other = [label EXCEPT !.color = color]
  OBVIOUS
<1>3. other.id = label.id /\ other.name = label.name
  BY <1>1, <1>2 DEF Labels
<1>4. AnnotationsTypeOK' /\ IdsFromNames'
  BY <1>2, <1>3 DEF AInv, AnnotationsTypeOK, IdsFromNames
<1>5. AttachmentsHaveLabel'
  <2>1. ASSUME NEW target \in db.targets
        PROVE  \E l \in db'.labels : l.id = target.label
    <3>1. PICK l \in db.labels : l.id = target.label
      BY DEF AInv, LabelsSound, AttachmentsHaveLabel
    <3>. QED  BY <1>2, <1>3, <3>1
  <2>. QED  BY <2>1 DEF AttachmentsHaveLabel
<1>6. OneLabelPerName'
  <2>1. \A l \in db'.labels : l = other \/ (l \in db.labels /\ l # label)
    BY <1>2
  <2>2. \A l \in db.labels :
          /\ l.id = other.id => l = label
          /\ NameFold[l.name] = NameFold[other.name] => l = label \/ l.id[1] # other.id[1]
    BY <1>3 DEF AInv, LabelsSound, OneLabelPerName
  <2>3. \A l, m \in db.labels :
          /\ l.id = m.id => l = m
          /\ NameFold[l.name] = NameFold[m.name] => l = m \/ l.id[1] # m.id[1]
    BY DEF AInv, LabelsSound, OneLabelPerName
  <2>. QED  BY <2>1, <2>2, <2>3 DEF OneLabelPerName
<1>. QED  BY <1>4, <1>5, <1>6 DEF AInv, LabelsSound

\* Of the names of the file, the spellings in S are written.
ImportedAs(d, attached, names, S) ==
  /\ S \subseteq names
  /\ \A a \in attached : a.name \in names
  /\ \A name \in names : \E n \in S : {m \in S : NameFold[m] = NameFold[name]} = {n}
  /\ d.labels = {l \in db.labels : \A name \in names : l.id # FileId(name)}
                  \cup {[id |-> FileId(n), name |-> n, color |-> NoColor] : n \in S}
  /\ d.targets = db.targets
                   \cup {[label |-> FileId(a.name), entity |-> a.entity] : a \in attached}
  /\ d.marks = db.marks

\* What an import makes of the labels: those with the id of a name in the file
\* are replaced by one for each, and all others stay.
LEMMA ImportedFacts ==
  ASSUME AnnotationsTypeOK,
         NEW attached, NEW begun, attached \subseteq [name : Names, entity : Entities],
         begun \subseteq [name : Names, entity : Entities],
         NEW d \in Imported(db, attached, begun)
  PROVE  \E names \in SUBSET Names, S \in SUBSET Names : ImportedAs(d, attached, names, S)
<1>. DEFINE names == {a.name : a \in attached \cup begun}
            Kept == {l \in db.labels : \A name \in names : l.id # FileId(name)}
            rows == {[label |-> FileId(a.name), entity |-> a.entity] : a \in attached}
            Read(S) == {[id |-> FileId(n), name |-> n, color |-> NoColor] : n \in S}
<1>1. PICK S \in SUBSET names :
           /\ \A name \in names : \E n \in S : {m \in S : NameFold[m] = NameFold[name]} = {n}
           /\ d = [db EXCEPT !.labels = Kept \cup Read(S), !.targets = @ \cup rows]
  BY DEF Imported
<1>2. names \subseteq Names
  OBVIOUS
<1>3. \A a \in attached : a.name \in names
  OBVIOUS
<1>4. /\ d.labels = Kept \cup Read(S)
      /\ d.targets = db.targets \cup rows
      /\ d.marks = db.marks
  BY <1>1 DEF AnnotationsTypeOK, Databases
<1>5. ImportedAs(d, attached, names, S)
  BY <1>1, <1>3, <1>4 DEF ImportedAs
<1>. QED  BY <1>2, <1>5

LEMMA ImportType ==
  ASSUME AnnotationsTypeOK,
         NEW attached, NEW begun, attached \subseteq [name : Names, entity : Entities],
         begun \subseteq [name : Names, entity : Entities],
         NEW d \in Imported(db, attached, begun)
  PROVE  d \in Databases
<1>1. \A name \in Names : FileId(name) \in Ids
  BY DEF Ids
<1>2. PICK names \in SUBSET Names, S \in SUBSET Names : ImportedAs(d, attached, names, S)
  BY ImportedFacts
<1>3. d.labels \in SUBSET Labels
  <2>1. \A n \in S : [id |-> FileId(n), name |-> n, color |-> NoColor] \in Labels
    BY <1>1, NamesAssumption DEF Labels
  <2>. QED  BY <1>2, <2>1 DEF ImportedAs, AnnotationsTypeOK, Databases
<1>4. d.targets \in SUBSET Targets
  <2>1. \A a \in attached : [label |-> FileId(a.name), entity |-> a.entity] \in Targets
    BY <1>1 DEF Targets
  <2>. QED  BY <1>2, <2>1 DEF ImportedAs, AnnotationsTypeOK, Databases
<1>5. d = [db EXCEPT !.labels = d.labels, !.targets = d.targets]
  BY DEF Imported, AnnotationsTypeOK, Databases
<1>. QED  BY <1>3, <1>4, <1>5 DEF AnnotationsTypeOK, Databases

\* An import keeps every attachment with its label, and the names apart.
LEMMA ImportInv ==
  ASSUME AInv, session' \in Sessions, made' = made,
         NEW attached, NEW begun, attached \subseteq [name : Names, entity : Entities],
         begun \subseteq [name : Names, entity : Entities],
         db' \in Imported(db, attached, begun)
  PROVE  AInv'
<1>a. PICK d \in Imported(db, attached, begun) : d = db'
  OBVIOUS
<1>b. PICK names \in SUBSET Names, S \in SUBSET Names : ImportedAs(d, attached, names, S)
  BY ImportedFacts DEF AInv
<1>1. /\ S \subseteq names
      /\ \A a \in attached : a.name \in names
      /\ \A name \in names : \E n \in S : {m \in S : NameFold[m] = NameFold[name]} = {n}
      /\ db'.labels = {l \in db.labels : \A name \in names : l.id # FileId(name)}
                        \cup {[id |-> FileId(n), name |-> n, color |-> NoColor] : n \in S}
      /\ db'.targets = db.targets
                        \cup {[label |-> FileId(a.name), entity |-> a.entity] : a \in attached}
  BY <1>a, <1>b DEF ImportedAs
<1>2. AnnotationsTypeOK'
  <2>1. db' \in Databases
    BY <1>a, ImportType DEF AInv
  <2>. QED  BY <2>1 DEF AInv, AnnotationsTypeOK
<1>3. \A name \in names : \E n \in S : NameFold[n] = NameFold[name]
  BY <1>1
<1>4. \A label \in db'.labels :
        \/ label \in db.labels /\ \A name \in names : label.id # FileId(name)
        \/ label.name \in S /\ label.id = FileId(label.name) /\ label.color = NoColor
           /\ label = [id |-> FileId(label.name), name |-> label.name, color |-> NoColor]
  BY <1>1
<1>5. ASSUME NEW n \in S PROVE \E label \in db'.labels : label.id = FileId(n)
  <2>1. [id |-> FileId(n), name |-> n, color |-> NoColor] \in db'.labels
    BY <1>1
  <2>. QED  BY <2>1
<1>6. IdsFromNames'
  BY <1>4 DEF AInv, IdsFromNames
<1>7. AttachmentsHaveLabel'
  <2>1. ASSUME NEW name \in names PROVE \E label \in db'.labels : label.id = FileId(name)
    <3>1. PICK n \in S : NameFold[n] = NameFold[name]
      BY <1>3
    <3>. QED  BY <1>5, <3>1 DEF FileId
  <2>2. ASSUME NEW target \in db.targets
        PROVE  \E label \in db'.labels : label.id = target.label
    <3>1. PICK label \in db.labels : label.id = target.label
      BY DEF AInv, LabelsSound, AttachmentsHaveLabel
    <3>. QED  BY <3>1, <2>1, <1>1
  <2>. QED  BY <1>1, <2>1, <2>2 DEF AttachmentsHaveLabel
<1>8. OneLabelPerName'
  <2>. SUFFICES ASSUME NEW l \in db'.labels, NEW m \in db'.labels
       PROVE  /\ l.id = m.id => l = m
              /\ NameFold[l.name] = NameFold[m.name] => l = m \/ l.id[1] # m.id[1]
    BY DEF OneLabelPerName
  <2>1. CASE l \in db.labels /\ m \in db.labels
    BY <2>1 DEF AInv, LabelsSound, OneLabelPerName
  <2>2. ASSUME NEW new \in db'.labels, NEW old \in db.labels,
               new.name \in S, new.id = FileId(new.name),
               \A name \in names : old.id # FileId(name)
        PROVE  /\ old.id # new.id
               /\ NameFold[old.name] = NameFold[new.name] => old.id[1] # new.id[1]
    <3>1. old.id # new.id
      BY <1>1, <2>2
    <3>2. CASE old.id = FileId(old.name)
      BY <3>1, <3>2, <2>2 DEF FileId
    <3>3. CASE \E n \in 1 .. made : old.id = UserId(n)
      BY <3>3, <2>2 DEF FileId, UserId
    <3>. QED  BY <3>1, <3>2, <3>3 DEF AInv, IdsFromNames
  <2>3. CASE l.name \in S /\ m.name \in S /\ l.id = FileId(l.name) /\ m.id = FileId(m.name)
             /\ l = [id |-> FileId(l.name), name |-> l.name, color |-> NoColor]
             /\ m = [id |-> FileId(m.name), name |-> m.name, color |-> NoColor]
    <3>1. NameFold[l.name] = NameFold[m.name] => l.name = m.name
      BY <2>3, <1>1
    <3>2. l.id = m.id => NameFold[l.name] = NameFold[m.name]
      BY <2>3 DEF FileId
    <3>. QED  BY <3>1, <3>2, <2>3
  <2>. QED  BY <1>4, <2>1, <2>2, <2>3
<1>. QED  BY <1>2, <1>6, <1>7, <1>8 DEF AInv, LabelsSound

-----------------------------------------------------------------------------
(* The commands, and the start of the program.                              *)

LEMMA MarksInv ==
  ASSUME AInv, NEW marks \in SUBSET Marks, made' \in made .. MaxMade,
         session' \in Sessions, db' = [db EXCEPT !.marks = marks]
  PROVE  AInv'
<1>1. db' \in Databases /\ db'.labels = db.labels /\ db'.targets = db.targets
  BY DEF AInv, AnnotationsTypeOK, Databases
<1>. QED  BY <1>1, FewerTargets

LEMMA SucceedsMarks ==
  ASSUME AInv, NEW marks \in SUBSET Marks, made' \in made .. MaxMade,
         Succeeds([db EXCEPT !.marks = marks])
  PROVE  AInv'
<1>1. [db EXCEPT !.marks = marks] \in Databases
  BY DEF AInv, AnnotationsTypeOK, Databases
<1>2. db' = [db EXCEPT !.marks = marks] /\ session' \in Sessions
  BY <1>1, SucceedsFacts DEF AInv
<1>. QED  BY <1>2, MarksInv

LEMMA RemoveInv ==
  ASSUME AInv, NEW these, Remove(these), Keep
  PROVE  AInv'
<1>1. made' \in made .. MaxMade /\ db.marks \subseteq Marks
  BY NamesAssumption DEF AInv, AnnotationsTypeOK, Databases, Keep
<1>2. CASE Succeeds([db EXCEPT !.marks = @ \ these])
  BY <1>1, <1>2, SucceedsMarks
<1>3. CASE StopsAt({[db EXCEPT !.marks = @ \ some] : some \in SUBSET these \ {these}})
  <2>. DEFINE ds == {[db EXCEPT !.marks = @ \ some] : some \in SUBSET these \ {these}}
  <2>1. ds \in SUBSET Databases
    BY <1>1 DEF AInv, AnnotationsTypeOK, Databases
  <2>2. db' \in ds /\ session' \in Sessions
    BY <2>1, <1>3, StopsAtFacts DEF AInv
  <2>3. PICK some \in SUBSET these : db' = [db EXCEPT !.marks = @ \ some]
    BY <2>2
  <2>. QED  BY <1>1, <2>2, <2>3, MarksInv
<1>. QED  BY <1>2, <1>3 DEF Remove

\* Commands for bookmarks and notes do not touch labels.
LEMMA MarkCommandsInv ==
  ASSUME AInv, NEW kind \in {"bookmark", "note"}, NEW text \in Texts,
         AddMark(kind, text) \/ SetText(kind, text)
  PROVE  AInv'
<1>. USE NamesAssumption
<1>1. /\ OnPage(session) /\ session.page.entity \in Entities
      /\ made \in 0 .. MaxMade /\ db.marks \subseteq Marks
  BY OnPageType DEF AddMark, SetText, AInv, AnnotationsTypeOK, Databases
<1>2. CASE AddMark(kind, text)
  <2>1. made' \in 1 .. MaxMade /\ made' \in made .. MaxMade
    BY <1>1, <1>2 DEF AddMark, Make
  <2>2. db.marks \cup {[kind |-> kind, id |-> made', entity |-> session.page.entity,
                        text |-> text]} \in SUBSET Marks
    BY <1>1, <2>1 DEF Marks
  <2>. QED  BY <1>2, <2>1, <2>2, SucceedsMarks DEF AddMark
<1>3. CASE SetText(kind, text)
  <2>1. made' \in made .. MaxMade
    <3>1. made' = made
      BY <1>3 DEF SetText, Keep
    <3>. QED  BY <1>1, <3>1
  <2>2. PICK row \in Marked(kind) :
          LET entity == IF kind = "note" THEN session.page.entity ELSE row.entity
          IN  Succeeds([db EXCEPT !.marks = (@ \ {row}) \cup
                                            {[row EXCEPT !.text = text, !.entity = entity]}])
    BY <1>3 DEF SetText
  <2>3. row \in Marks
    BY <1>1, <2>2 DEF Marked, OnEntity, Matching
  <2>. DEFINE entity == IF kind = "note" THEN session.page.entity ELSE row.entity
  <2>4. (db.marks \ {row}) \cup {[row EXCEPT !.text = text, !.entity = entity]} \in SUBSET Marks
    BY <1>1, <2>3 DEF Marks
  <2>. QED  BY <2>1, <2>2, <2>4, SucceedsMarks
<1>. QED  BY <1>2, <1>3

LEMMA AddLabelInv ==
  ASSUME AInv, NEW name \in Names, AddLabel(name)
  PROVE  AInv'
<1>1. /\ OnPage(session) /\ session.page.entity \in Entities
      /\ made \in 0 .. MaxMade /\ db \in Databases
  BY OnPageType DEF AddLabel, AInv, AnnotationsTypeOK
<1>2. CASE Reusable(name) # {}
  <2>1. PICK label \in Reusable(name) : Succeeds(Attached(db, label.id))
    BY <1>2 DEF AddLabel
  <2>2. label \in db.labels /\ made' = made
    BY <1>2, <2>1 DEF Reusable, Named, AddLabel, Keep
  <2>3. Attached(db, label.id) \in Databases
    BY <1>1, <2>2 DEF Attached, Databases, Labels, Targets
  <2>4. db' = Attached(db, label.id) /\ session' \in Sessions
    BY <2>1, <2>3, SucceedsFacts DEF AInv
  <2>. QED  BY <1>1, <2>2, <2>4, OneMoreTarget
<1>3. CASE Reusable(name) = {}
  <2>. DEFINE labelled == [db EXCEPT !.labels = @ \cup
                             {[id |-> UserId(made'), name |-> name, color |-> NoColor]}]
  <2>1. /\ Succeeds(Attached(labelled, UserId(made'))) \/ StopsAt({labelled})
        /\ Named(name) = {} /\ made < MaxMade /\ made' = made + 1
    BY <1>3 DEF AddLabel, Make, Reusable
  <2>2. UserId(made') \in Ids
    BY <1>1, <2>1, NamesAssumption DEF Ids
  <2>3. /\ labelled \in Databases
        /\ labelled.labels = db.labels \cup
                               {[id |-> UserId(made'), name |-> name, color |-> NoColor]}
        /\ labelled.targets = db.targets
    BY <1>1, <2>2, NamesAssumption DEF Databases, Labels
  <2>. DEFINE first == {[label |-> UserId(made'), entity |-> session.page.entity]}
  <2>a. first \subseteq Targets
    BY <1>1, <2>2 DEF Targets
  <2>. HIDE DEF labelled
  <2>4. /\ Attached(labelled, UserId(made')) \in Databases
        /\ Attached(labelled, UserId(made')).labels = labelled.labels
        /\ Attached(labelled, UserId(made')).targets = labelled.targets \cup first
    BY <1>1, <2>3, <2>a DEF Attached, Databases
  <2>5. first \subseteq {[label |-> UserId(made'), entity |-> e] : e \in Entities}
    BY <1>1
  <2>. HIDE DEF first
  <2>6. CASE Succeeds(Attached(labelled, UserId(made')))
    <3>1. db' = Attached(labelled, UserId(made')) /\ session' \in Sessions
      BY <2>4, <2>6, SucceedsFacts DEF AInv
    <3>. QED  BY <2>1, <2>3, <2>4, <2>5, <3>1, OneMoreLabel
  <2>7. CASE StopsAt({labelled})
    <3>1. db' = labelled /\ session' \in Sessions
      BY <2>3, <2>7, StopsAtFacts DEF AInv
    <3>. QED  BY <2>1, <2>3, <3>1, OneMoreLabel
  <2>. QED  BY <2>1, <2>6, <2>7
<1>. QED  BY <1>2, <1>3

\* A label loses attachments, some of them when a statement fails; deleted, it
\* goes after the last of them.
LEMMA LabelCommandsInv ==
  ASSUME AInv, NEW label \in db.labels, RemoveLabel(label) \/ DeleteLabel(label)
  PROVE  AInv'
<1>1. db \in Databases /\ made' = made /\ made' \in made .. MaxMade
  BY NamesAssumption DEF RemoveLabel, DeleteLabel, Keep, AInv, AnnotationsTypeOK
<1>2. ASSUME NEW these, StopsAt({[db EXCEPT !.targets = @ \ some] : some \in SUBSET these})
      PROVE  AInv'
  <2>. DEFINE ds == {[db EXCEPT !.targets = @ \ some] : some \in SUBSET these}
  <2>1. ds \in SUBSET Databases
    BY <1>1 DEF Databases
  <2>2. db' \in ds /\ session' \in Sessions
    BY <2>1, <1>2, StopsAtFacts DEF AInv
  <2>3. db' \in Databases /\ db'.labels = db.labels /\ db'.targets \subseteq db.targets
    BY <2>1, <2>2, <1>1 DEF Databases
  <2>. QED  BY <1>1, <2>2, <2>3, FewerTargets
<1>3. ASSUME NEW these, Succeeds([db EXCEPT !.targets = @ \ these])
      PROVE  AInv'
  <2>1. /\ [db EXCEPT !.targets = @ \ these] \in Databases
        /\ [db EXCEPT !.targets = @ \ these].labels = db.labels
        /\ [db EXCEPT !.targets = @ \ these].targets \subseteq db.targets
    BY <1>1 DEF Databases
  <2>2. db' = [db EXCEPT !.targets = @ \ these] /\ session' \in Sessions
    BY <2>1, <1>3, SucceedsFacts DEF AInv
  <2>. QED  BY <1>1, <2>1, <2>2, FewerTargets
<1>. DEFINE all == {t \in db.targets : t.label = label.id}
            gone == [db EXCEPT !.targets = @ \ all, !.labels = @ \ {label}]
<1>4. CASE Succeeds(gone)
  <2>1. /\ gone \in Databases
        /\ gone.labels = db.labels \ {label}
        /\ gone.targets = db.targets \ all
    BY <1>1 DEF Databases
  <2>2. db' = gone /\ session' \in Sessions
    BY <2>1, <1>4, SucceedsFacts DEF AInv
  <2>. QED  BY <1>1, <2>1, <2>2, OneLabelLess
<1>5. CASE RemoveLabel(label)
  BY <1>5, <1>2, <1>3 DEF RemoveLabel
<1>6. CASE DeleteLabel(label)
  BY <1>6, <1>2, <1>4 DEF DeleteLabel, Deletion
<1>. QED  BY <1>5, <1>6

LEMMA SetLabelColorInv ==
  ASSUME AInv, NEW label \in db.labels, NEW color \in Colors, SetLabelColor(label, color)
  PROVE  AInv'
<1>1. db \in Databases /\ made' = made
  BY DEF SetLabelColor, Keep, AInv, AnnotationsTypeOK
<1>. DEFINE d == [db EXCEPT !.labels = (@ \ {label}) \cup {[label EXCEPT !.color = color]}]
<1>2. [label EXCEPT !.color = color] \in Labels
  BY <1>1 DEF Databases, Labels
<1>3. /\ d \in Databases /\ d.targets = db.targets
      /\ d.labels = (db.labels \ {label}) \cup {[label EXCEPT !.color = color]}
  BY <1>1, <1>2 DEF Databases
<1>4. db' = d /\ session' \in Sessions
  BY <1>3, SucceedsFacts DEF SetLabelColor, AInv
<1>. QED  BY <1>1, <1>3, <1>4, Recolored

\* Steps that leave the tables alone.
LEMMA ViewInv ==
  ASSUME AInv, db' = db, session' \in Sessions, made' = made
  PROVE  AInv'
<1>1. made' \in made .. MaxMade /\ db' \in Databases
  BY NamesAssumption DEF AInv, AnnotationsTypeOK
<1>. QED  BY <1>1, FewerTargets

LEMMA PagesInv ==
  ASSUME AInv,
         \/ Refuse \/ OpenRow \/ OpenLostRow \/ GoTo("lookup") \/ GoTo("other") \/ Tick
         \/ \E entity \in Entities : Lookup(entity) \/ OpenDetail(entity)
         \/ \E name \in Names : NoSuchLabel(name)
  PROVE  AInv'
<1>1. /\ db \in Databases /\ session \in Sessions
      /\ \A status \in {"plain", "done", "failed"} : Says(status) \in Sessions
  BY SaysType DEF AInv, AnnotationsTypeOK
<1>2. ASSUME NEW s \in Sessions, Ends(db, s), Keep PROVE AInv'
  BY <1>1, <1>2, EndsFacts, ViewInv DEF Keep
<1>3. CASE Refuse \/ \E name \in Names : NoSuchLabel(name)
  BY <1>1, <1>2, <1>3 DEF Refuse, StopsAt, NoSuchLabel
<1>4. CASE GoTo("lookup") \/ GoTo("other")
  <2>1. \A screen \in {"lookup", "other"} : [Says("plain") EXCEPT !.screen = screen] \in Sessions
    BY <1>1 DEF Sessions
  <2>. QED  BY <1>2, <1>4, <2>1 DEF GoTo
<1>5. CASE OpenLostRow
  <2>1. [session EXCEPT !.screen = "lookup", !.page = NoPage, !.status = "failed"] \in Sessions
    BY <1>1 DEF Sessions, NoPage, PageOf, Pages, Nothing, Shown
  <2>. QED  BY <1>2, <1>5, <2>1 DEF OpenLostRow
<1>6. ASSUME NEW entity \in Entities, Lookup(entity) PROVE AInv'
  <2>1. [session EXCEPT !.screen = "lookup"] \in Sessions
    BY <1>1 DEF Sessions
  <2>2. session' \in Sessions /\ db' = db /\ made' = made
    BY <1>1, <1>6, <2>1, LoadedType DEF Lookup, LookedUp
  <2>. QED  BY <2>2, ViewInv
<1>7. CASE OpenRow
  <2>1. PICK row \in BookmarkRows \cup LabelRows : Lookup(row.entity)
    BY <1>7 DEF OpenRow
  <2>2. row.entity \in Entities
    BY <1>1, <2>1 DEF BookmarkRows, LabelRows, Databases, Marks, Targets
  <2>. QED  BY <1>6, <2>1, <2>2
<1>8. CASE Tick
  <2>1. session' \in Sessions /\ db' = db /\ made' = made
    BY <1>1, <1>8, LoadedType, OnPageType DEF Tick, Refreshed, Refreshable
  <2>. QED  BY <2>1, ViewInv
<1>9. ASSUME NEW entity \in Entities, OpenDetail(entity) PROVE AInv'
  <2>1. PageOf(entity, Nothing) \in Pages
    BY DEF PageOf, Pages, Nothing, Shown
  <2>2. session' \in Sessions /\ db' = db /\ made' = made
    BY <1>9, <2>1 DEF OpenDetail, Sessions
  <2>. QED  BY <2>2, ViewInv
<1>. QED  BY <1>3, <1>4, <1>5, <1>6, <1>7, <1>8, <1>9

LEMMA RestartInv ==
  ASSUME AInv, NEW file \in Files, Restart(file)
  PROVE  AInv'
<1>1. file \subseteq [name : Names, entity : Entities]
  BY FilesAssumption
<1>2. \A screen \in {"lookup", "other", "down"} : Fresh(screen) \in Sessions
  BY DEF Fresh, Sessions, NoPage, PageOf, Pages, Nothing, Shown
<1>3. PICK attached \in SUBSET file, begun \in SUBSET file :
        db' \in Imported(db, attached, begun) /\ session' \in Sessions /\ made' = made
  BY <1>2 DEF Restart, Keep
<1>. QED  BY <1>1, <1>3, ImportInv

-----------------------------------------------------------------------------

LEMMA InitAInv == Init => AInv
<1>. SUFFICES ASSUME Init PROVE AInv
  OBVIOUS
<1>1. /\ db.labels = {} /\ db.targets = {} /\ db \in Databases
      /\ session \in Sessions /\ made \in 0 .. MaxMade
  BY NamesAssumption DEF Init, Databases, Fresh, Sessions, NoPage, PageOf, Pages, Nothing, Shown
<1>. QED
  BY <1>1 DEF AInv, AnnotationsTypeOK, IdsFromNames, LabelsSound, AttachmentsHaveLabel,
              OneLabelPerName

LEMMA NextAInv == AInv /\ [Next]_vars => AInv'
<1>. SUFFICES ASSUME AInv, [Next]_vars PROVE AInv'
  OBVIOUS
<1>1. ASSUME NEW kind \in {"bookmark", "note"}, NEW text \in Texts,
             AddMark(kind, text) \/ SetText(kind, text)
      PROVE  AInv'
  BY <1>1, MarkCommandsInv
<1>2. CASE RemoveBookmarks \/ \E filter \in SUBSET Marked("note") : RemoveNotes(filter)
  BY <1>2, RemoveInv DEF RemoveBookmarks, RemoveNotes
<1>3. ASSUME NEW name \in Names, AddLabel(name) PROVE AInv'
  BY <1>3, AddLabelInv
<1>4. ASSUME NEW label \in db.labels,
             \/ RemoveLabel(label) \/ DeleteLabel(label)
             \/ \E color \in Colors : SetLabelColor(label, color)
      PROVE  AInv'
  BY <1>4, LabelCommandsInv, SetLabelColorInv
<1>5. CASE \/ Refuse \/ OpenRow \/ OpenLostRow \/ GoTo("lookup") \/ GoTo("other") \/ Tick
           \/ \E entity \in Entities : Lookup(entity) \/ OpenDetail(entity)
           \/ \E name \in Names : NoSuchLabel(name)
  BY <1>5, PagesInv
<1>6. ASSUME NEW file \in Files, Restart(file) PROVE AInv'
  BY <1>6, RestartInv
<1>7. CASE UNCHANGED vars
  <2>1. db' = db /\ session' = session /\ made' = made /\ session \in Sessions
    BY <1>7 DEF vars, AInv, AnnotationsTypeOK
  <2>. QED  BY <2>1, ViewInv
<1>. QED  BY <1>1, <1>2, <1>3, <1>4, <1>5, <1>6, <1>7 DEF Next

LEMMA AnnotationsInvariance == Spec => []AInv
BY InitAInv, NextAInv, PTL DEF Spec

\* The tables, and the session that shows them, keep their types.
THEOREM AnnotationsTypeCorrect == Spec => []AnnotationsTypeOK
<1>1. AInv => AnnotationsTypeOK
  BY DEF AInv
<1>. QED  BY <1>1, AnnotationsInvariance, PTL

\* Whatever statement fails and whatever file is imported, no attachment is
\* without its label, and a name has one label by the user and one by the file.
THEOREM LabelsStaySound == Spec => []LabelsSound
<1>1. AInv => LabelsSound
  BY DEF AInv
<1>. QED  BY <1>1, AnnotationsInvariance, PTL

-----------------------------------------------------------------------------
(* What the message of success means.                                       *)

\* A command that stops does not end with that message: the refresh behind it
\* leaves its own status, or the command's.
LEMMA NotStopped ==
  ASSUME AnnotationsTypeOK, NEW ds, StopsAt(ds)
  PROVE  session'.status # "done"
<1>. DEFINE s == Says("failed")
<1>1. s \in Sessions /\ s.status = "failed"
  BY SaysType DEF Says, AnnotationsTypeOK, Sessions
<1>2. PICK d \in ds : session' \in Refreshed(d, s)
  BY DEF StopsAt, Ends
<1>. HIDE DEF s
<1>3. CASE session' = s
  BY <1>1, <1>3
<1>4. CASE session' \in Loaded(d, s, s.page.entity)
  BY <1>1, <1>4 DEF Loaded, Sessions
<1>. QED  BY <1>2, <1>3, <1>4 DEF Refreshed

\* A command for bookmarks has removed all the entity's.
LEMMA BookmarksRemoved ==
  ASSUME AInv, RemoveBookmarks, session'.status = "done"
  PROVE  \A row \in db'.marks \cap OnEntity : row.kind = "note"
<1>1. db \in Databases /\ AnnotationsTypeOK
  BY DEF AInv, AnnotationsTypeOK
<1>2. Succeeds([db EXCEPT !.marks = @ \ Marked("bookmark")])
  BY <1>1, NotStopped DEF RemoveBookmarks, Remove
<1>3. /\ [db EXCEPT !.marks = @ \ Marked("bookmark")] \in Databases
      /\ [db EXCEPT !.marks = @ \ Marked("bookmark")].marks = db.marks \ Marked("bookmark")
  BY <1>1 DEF Databases
<1>4. db'.marks = db.marks \ Marked("bookmark")
  BY <1>1, <1>2, <1>3, SucceedsFacts
<1>5. \A row \in db.marks : row.kind \in {"bookmark", "note"}
  BY <1>1 DEF Databases, Marks
<1>. QED  BY <1>4, <1>5 DEF Marked

\* A label that was added is there, and attached to the page's entity.
LEMMA LabelAdded ==
  ASSUME AInv, NEW name \in Names, AddLabel(name), session'.status = "done"
  PROVE  \E label \in db'.labels :
           /\ NameFold[label.name] = NameFold[name]
           /\ \E t \in Matching(db'.targets, session.page.entity) : t.label = label.id
<1>1. /\ db \in Databases /\ AnnotationsTypeOK /\ session.page.entity \in Entities
      /\ made \in 0 .. MaxMade
  BY OnPageType DEF AddLabel, AInv, AnnotationsTypeOK
<1>2. ASSUME NEW d \in Databases, NEW label \in d.labels, NameFold[label.name] = NameFold[name],
             Succeeds(Attached(d, label.id))
      PROVE  \E l \in db'.labels :
               /\ NameFold[l.name] = NameFold[name]
               /\ \E t \in Matching(db'.targets, session.page.entity) : t.label = l.id
  <2>. DEFINE new == [label |-> label.id, entity |-> session.page.entity]
  <2>1. new \in Targets
    BY <1>1, <1>2 DEF Targets, Databases, Labels
  <2>2. /\ Attached(d, label.id) \in Databases /\ Attached(d, label.id).labels = d.labels
        /\ new \in Attached(d, label.id).targets
    BY <2>1 DEF Attached, Databases
  <2>3. db' = Attached(d, label.id)
    BY <1>1, <1>2, <2>2, SucceedsFacts
  <2>4. new \in Matching(db'.targets, session.page.entity)
    BY <2>2, <2>3 DEF Matching
  <2>. QED  BY <1>2, <2>2, <2>3, <2>4
<1>3. CASE Reusable(name) # {}
  <2>1. PICK label \in Reusable(name) : Succeeds(Attached(db, label.id))
    BY <1>3 DEF AddLabel
  <2>2. label \in db.labels /\ NameFold[label.name] = NameFold[name]
    BY <2>1 DEF Reusable, Named
  <2>. QED  BY <1>1, <1>2, <2>1, <2>2
<1>4. CASE Reusable(name) = {}
  <2>. DEFINE label == [id |-> UserId(made'), name |-> name, color |-> NoColor]
              labelled == [db EXCEPT !.labels = @ \cup {label}]
  <2>1. Succeeds(Attached(labelled, UserId(made'))) /\ made < MaxMade /\ made' = made + 1
    BY <1>1, <1>4, NotStopped DEF AddLabel, Make
  <2>2. label \in Labels
    <3>1. made' \in 1 .. MaxMade
      BY <1>1, <2>1, NamesAssumption
    <3>. QED  BY <3>1, NamesAssumption DEF Labels, Ids
  <2>3. labelled \in Databases /\ label \in labelled.labels
    BY <1>1, <2>2 DEF Databases
  <2>4. label.id = UserId(made') /\ label.name = name
    OBVIOUS
  <2>. HIDE DEF label, labelled
  <2>. QED  BY <1>2, <2>1, <2>3, <2>4
<1>. QED  BY <1>3, <1>4

\* A label that was removed is on no spelling of the entity, and one that was
\* deleted is gone with its attachments.
LEMMA LabelGone ==
  ASSUME AInv, NEW label \in db.labels, session'.status = "done"
  PROVE  /\ RemoveLabel(label) =>
              \A t \in Matching(db'.targets, session.page.entity) : t.label # label.id
         /\ DeleteLabel(label) =>
              label \notin db'.labels /\ \A t \in db'.targets : t.label # label.id
<1>1. db \in Databases /\ AnnotationsTypeOK
  BY DEF AInv, AnnotationsTypeOK
<1>2. ASSUME RemoveLabel(label)
      PROVE  \A t \in Matching(db'.targets, session.page.entity) : t.label # label.id
  <2>. DEFINE rows == {t \in Matching(db.targets, session.page.entity) : t.label = label.id}
              left == [db EXCEPT !.targets = @ \ rows]
  <2>1. Succeeds(left)
    BY <1>1, <1>2, NotStopped DEF RemoveLabel
  <2>2. left \in Databases /\ left.targets = db.targets \ rows
    BY <1>1 DEF Databases
  <2>3. db'.targets = db.targets \ rows
    BY <1>1, <2>1, <2>2, SucceedsFacts
  <2>. QED  BY <2>3 DEF Matching
<1>3. ASSUME DeleteLabel(label)
      PROVE  label \notin db'.labels /\ \A t \in db'.targets : t.label # label.id
  <2>. DEFINE rows == {t \in db.targets : t.label = label.id}
              left == [db EXCEPT !.targets = @ \ rows, !.labels = @ \ {label}]
  <2>1. Succeeds(left)
    BY <1>1, <1>3, NotStopped DEF DeleteLabel, Deletion
  <2>2. left \in Databases /\ left.targets = db.targets \ rows /\ left.labels = db.labels \ {label}
    BY <1>1 DEF Databases
  <2>3. db'.targets = db.targets \ rows /\ db'.labels = db.labels \ {label}
    BY <1>1, <2>1, <2>2, SucceedsFacts
  <2>. QED  BY <2>3
<1>. QED  BY <1>2, <1>3

\* Whatever statement may fail, whatever the spelling of names and entities: a
\* command that says it is done has done all of it.
THEOREM SuccessMeansAll == Spec => SuccessIsComplete
<1>. DEFINE on == {t.label : t \in Matching(db'.targets, session.page.entity)}
            Step == session'.status = "done" =>
              /\ RemoveBookmarks => \A row \in db'.marks \cap OnEntity : row.kind = "note"
              /\ \A name \in Names : AddLabel(name) =>
                   \E label \in db'.labels : NameFold[label.name] = NameFold[name] /\ label.id \in on
              /\ \A label \in db.labels :
                   /\ RemoveLabel(label) => label.id \notin on
                   /\ DeleteLabel(label) =>
                        label \notin db'.labels /\ \A t \in db'.targets : t.label # label.id
<1>1. AInv /\ [Next]_vars => [Step]_vars
  <2>. SUFFICES ASSUME AInv, session'.status = "done" PROVE Step
    OBVIOUS
  <2>1. ASSUME NEW name \in Names, AddLabel(name)
        PROVE  \E label \in db'.labels : NameFold[label.name] = NameFold[name] /\ label.id \in on
    <3>1. PICK label \in db'.labels :
               /\ NameFold[label.name] = NameFold[name]
               /\ \E t \in Matching(db'.targets, session.page.entity) : t.label = label.id
      BY <2>1, LabelAdded
    <3>. QED  BY <3>1
  <2>2. ASSUME NEW label \in db.labels, RemoveLabel(label) PROVE label.id \notin on
    BY <2>2, LabelGone
  <2>. QED  BY <2>1, <2>2, BookmarksRemoved, LabelGone
<1>. HIDE DEF Step
<1>2. Spec => [][Step]_vars
  BY <1>1, AnnotationsInvariance, PTL DEF Spec
<1>. QED  BY <1>2 DEF Step, SuccessIsComplete
=============================================================================
