---------------------------- MODULE Annotations ------------------------------
(***************************************************************************)
(* Labels, bookmarks and notes of the terminal client: the tables of the   *)
(* local store, the commands that change them a statement at a time, the   *)
(* import of labels.toml at every start, and what a lookup page shows of   *)
(* them (tui/cmd/tui/workspace.go, labels_import.go, main.go,              *)
(* tui/internal/cache/labels.go, bookmarks.go, notes.go).                  *)
(*                                                                         *)
(* A command runs to its end before the next key is read, so it is one     *)
(* step; each of its statements may fail, and it stops there.  The rows    *)
(* are those of one profile and one running client.  Titles are left out:  *)
(* a filter on them selects any of the rows.  The history and the cache   *)
(* of pages are module Lookups's; a page is left and comes back stale here *)
(* when another screen is in between.  Of lists, the pages and rows that   *)
(* lead to an entity are modelled, and not what a command does on a list.  *)
(***************************************************************************)
EXTENDS Integers, FiniteSets

CONSTANTS
  Entities,       \* kind and target of a page, as spelled
  Details,        \* those of a single operation, event or storage entry
  NoEntity,
  EntityFold,     \* strings.EqualFold on targets: the entity without its case
  Names,          \* names of labels
  NameFold,       \* strings.EqualFold on names
  Colors, NoColor,
  Texts,          \* annotations of bookmarks, bodies of notes
  Files,          \* the contents labels.toml may have: sets of attachments
  MaxMade         \* bound: how many labels, bookmarks and notes are made

ASSUME NamesAssumption ==
  /\ NameFold \in [Names -> Names] /\ NoEntity \notin Entities /\ Details \subseteq Entities
  /\ NoColor \in Colors /\ MaxMade \in Nat
ASSUME FilesAssumption == Files \subseteq SUBSET [name : Names, entity : Entities]

\* The id of an imported label is a hash of its name in lower case; the others
\* are drawn from the clock and never used twice.
FileId(name) == <<"file", NameFold[name]>>
UserId(n) == <<"user", n>>
Ids == {FileId(name) : name \in Names} \cup {UserId(n) : n \in 1 .. MaxMade}

Labels == [id : Ids, name : Names, color : Colors]
Targets == [label : Ids, entity : Entities]
Marks == [kind : {"bookmark", "note"}, id : 1 .. MaxMade, entity : Entities, text : Texts]
Shown == [labels : SUBSET [name : Names, color : Colors], marks : SUBSET Marks]

VARIABLES
  db,             \* the tables labels, label_targets, and bookmarks and notes
  session,        \* app.Model: screen, page of an entity, and status
  made            \* how many rows with an id of their own were made

vars == <<db, session, made>>

Databases == [labels : SUBSET Labels, targets : SUBSET Targets, marks : SUBSET Marks]
Pages == [entity : Entities \cup {NoEntity}, shown : Shown]
Sessions ==
  [screen : {"lookup", "other", "down"}, page : Pages,
   status : {"plain", "done", "failed"}]

AnnotationsTypeOK ==
  db \in Databases /\ session \in Sessions /\ made \in 0 .. MaxMade

-----------------------------------------------------------------------------
(* What a page shows.                                                       *)

\* lookupTargetMatches, noteTargetMatches
Matching(rows, entity) == {row \in rows : EntityFold[row.entity] = EntityFold[entity]}

\* loadLookupMetadata
Metadata(d, entity) ==
  [labels |-> {[name |-> label.name, color |-> label.color] :
                 label \in {l \in d.labels :
                              \E target \in Matching(d.targets, entity) : target.label = l.id}},
   marks  |-> Matching(d.marks, entity)]

Nothing == [labels |-> {}, marks |-> {}]
PageOf(entity, shown) == [entity |-> entity, shown |-> shown]
NoPage == PageOf(NoEntity, Nothing)

\* lookupEntityContext
OnPage(s) == s.screen = "lookup" /\ s.page.entity # NoEntity

\* Mutated form: the page is loaded and its metadata is not.
LoadedBare(d, s, entity) ==
  {[s EXCEPT !.page = PageOf(entity, Nothing), !.status = "plain"]}

\* performEntityLookup: the page comes from the backend or the cache, and what
\* is stored of it behind it, unless the local store fails; or not at all.
Loaded(d, s, entity) ==
  {[s EXCEPT !.page = PageOf(entity, Metadata(d, entity)), !.status = "plain"],
   [s EXCEPT !.page = PageOf(entity, Nothing), !.status = "failed"],
   [s EXCEPT !.page = NoPage, !.status = "failed"]}

\* The kinds refreshActiveLookup has a case for.
Refreshable(s) == OnPage(s) /\ s.page.entity \notin Details

\* refreshActiveLookup, which may find no backend
Refreshed(d, s) == {s} \cup (IF Refreshable(s) THEN Loaded(d, s, s.page.entity) ELSE {})

\* executeLookupCommand
LookedUp(d, s, entity) == Loaded(d, [s EXCEPT !.screen = "lookup"], entity)

-----------------------------------------------------------------------------
(* How a command ends.                                                      *)

Says(status) == [session EXCEPT !.status = status]

\* Behind the command, submitCommandPalette refreshes the screen; a key does not.
Ends(d, s) == session.screen # "down" /\ db' = d /\ session' \in Refreshed(d, s)

\* afterWorkspaceChange reads the metadata of the page again; the message of
\* success comes even if it cannot.
Succeeds(d) ==
  \/ Ends(d, Says("done"))
  \/ /\ OnPage(session) /\ db' = d
     /\ session' = [Says("done") EXCEPT !.page = PageOf(@.entity, Metadata(d, @.entity))]

\* A statement fails, after those that made one of these of the tables.
StopsAt(ds) == \E d \in ds : Ends(d, Says("failed"))

Keep == UNCHANGED made
Make == made < MaxMade /\ made' = made + 1

\* Any command: a statement that reads fails, or there is a usage message.
Refuse == StopsAt({db}) /\ Keep

\* Commands about the active entity.
OnEntity == IF OnPage(session) THEN Matching(db.marks, session.page.entity) ELSE {}
Marked(kind) == {row \in OnEntity : row.kind = kind}

-----------------------------------------------------------------------------
(* Bookmarks and notes.                                                     *)

\* addBookmark, addNote
AddMark(kind, text) ==
  /\ OnPage(session) /\ Make
  /\ Succeeds([db EXCEPT !.marks = @ \cup
       {[kind |-> kind, id |-> made', entity |-> session.page.entity, text |-> text]}])

\* Mutated form: it goes on after a row that could not be deleted.
RemoveOnError(rows) ==
  \E some \in SUBSET rows : Succeeds([db EXCEPT !.marks = @ \ some])

\* removeBookmarks, removeNotes: row by row.
Remove(rows) ==
  \/ Succeeds([db EXCEPT !.marks = @ \ rows])
  \/ StopsAt({[db EXCEPT !.marks = @ \ some] : some \in SUBSET rows \ {rows}})

RemoveBookmarks == OnPage(session) /\ Remove(Marked("bookmark")) /\ Keep
RemoveNotes(filter) == OnPage(session) /\ filter \subseteq Marked("note") /\ Remove(filter) /\ Keep

\* setBookmarkNote, setNoteBody: the first row of the list; a note then belongs
\* to the page as it is spelled.
SetText(kind, text) ==
  /\ OnPage(session) /\ Keep
  /\ \E row \in Marked(kind) :
       LET entity == IF kind = "note" THEN session.page.entity ELSE row.entity
       IN  Succeeds([db EXCEPT !.marks = (@ \ {row}) \cup
                                         {[row EXCEPT !.text = text, !.entity = entity]}])

-----------------------------------------------------------------------------
(* Labels.                                                                  *)

\* The labels a name may stand for.  ListLabels has the upper case first, and
\* the older one of two that are spelled alike: here it is any of them.
Named(name) == {label \in db.labels : NameFold[label.name] = NameFold[name]}

\* The label `label add` finds.
Reusable(name) == Named(name)

Attached(d, id) == [d EXCEPT !.targets = @ \cup {[label |-> id, entity |-> session.page.entity]}]

\* addLabel
AddLabel(name) ==
  /\ OnPage(session)
  /\ \/ /\ Reusable(name) # {} /\ Keep
        /\ \E label \in Reusable(name) : Succeeds(Attached(db, label.id))
     \/ /\ Reusable(name) = {} /\ Make
        /\ LET labelled == [db EXCEPT !.labels = @ \cup
                              {[id |-> UserId(made'), name |-> name, color |-> NoColor]}]
           IN  Succeeds(Attached(labelled, UserId(made'))) \/ StopsAt({labelled})

\* removeLabel, deleteLabel: a name no label has is no failure.
NoSuchLabel(name) == Named(name) = {} /\ Ends(db, Says("done")) /\ Keep

\* removeLabel, of the label a name was found to stand for
RemoveLabel(label) ==
  LET rows == {t \in Matching(db.targets, session.page.entity) : t.label = label.id}
  IN  /\ OnPage(session) /\ Keep
      /\ \/ Succeeds([db EXCEPT !.targets = @ \ rows])
         \/ StopsAt({[db EXCEPT !.targets = @ \ some] : some \in SUBSET rows})

\* Mutated form: the label goes before its attachments.
DeletionLabelFirst(label) ==
  LET rows == {t \in db.targets : t.label = label.id}
      bare == [db EXCEPT !.labels = @ \ {label}]
  IN  \/ Succeeds([bare EXCEPT !.targets = @ \ rows])
      \/ StopsAt({[bare EXCEPT !.targets = @ \ some] : some \in SUBSET rows})

\* deleteLabel: the attachments row by row, then the label.
Deletion(label) ==
  LET rows == {t \in db.targets : t.label = label.id}
  IN  \/ Succeeds([db EXCEPT !.targets = @ \ rows, !.labels = @ \ {label}])
      \/ StopsAt({[db EXCEPT !.targets = @ \ some] : some \in SUBSET rows})

DeleteLabel(label) == Deletion(label) /\ Keep

\* setLabelColor
SetLabelColor(label, color) ==
  Succeeds([db EXCEPT !.labels = (@ \ {label}) \cup {[label EXCEPT !.color = color]}]) /\ Keep

-----------------------------------------------------------------------------
(* Pages, and the start of the program.                                     *)

\* lookup, which knows none of Details by name
Lookup(entity) ==
  /\ session.screen # "down" /\ entity \notin Details
  /\ session' \in LookedUp(db, session, entity)
  /\ UNCHANGED <<db, made>>

\* openOperationDetail, openEventDetail, openStorageEntryDetail and
\* openInvocationDetail read nothing of the local store.  One that fails leaves
\* the page there was, and is a case of Refuse.
OpenDetail(entity) ==
  /\ session.screen # "down" /\ entity \in Details
  /\ session' = [screen |-> "lookup", page |-> PageOf(entity, Nothing), status |-> "plain"]
  /\ UNCHANGED <<db, made>>

\* The rows that lead to an entity: bookmarks, and attachments with their label.
BookmarkRows == {row \in db.marks : row.kind = "bookmark"}
LabelRows == {t \in db.targets : \E label \in db.labels : label.id = t.label}

\* One of them is opened, from `open bookmarks`, `open labels`, `open labeled`
\* or as a result of a search.
OpenRow == \E row \in BookmarkRows \cup LabelRows : Lookup(row.entity)

\* A row of `open notes`, or a note found by the search, is looked up as an asset
\* with the kind of the entity for its code; and one of Details as an asset with
\* the hash or contract for its code.  No backend has such an asset.
LostRows ==
  {row \in db.marks : row.kind = "note"} \cup
  {row \in BookmarkRows \cup LabelRows : row.entity \in Details}

OpenLostRow ==
  /\ LostRows # {}
  /\ Ends(db, [session EXCEPT !.screen = "lookup", !.page = NoPage, !.status = "failed"]) /\ Keep

\* Keys: another screen, and back to the page as it was.
GoTo(screen) == Ends(db, [Says("plain") EXCEPT !.screen = screen]) /\ Keep

\* liveFeedTickMsg on the lookup screen
Tick ==
  /\ OnPage(session)
  /\ session' \in Refreshed(db, session)
  /\ UNCHANGED <<db, made>>

\* A tick for which backend and local store are there.
TickAnswered ==
  /\ Refreshable(session) /\ session' \in Loaded(db, session, session.page.entity)
  /\ session'.status = "plain"
  /\ UNCHANGED <<db, made>>

\* importLabelsFromFile: the attachments in any order, up to a statement that
\* fails.  A label is written again as the file spells it, without its color;
\* of two spellings the later one stays.
Imported(d, attached, begun) ==
  LET names == {a.name : a \in attached \cup begun}
      kept  == {l \in d.labels : \A name \in names : l.id # FileId(name)}
      rows  == {[label |-> FileId(a.name), entity |-> a.entity] : a \in attached}
      last  == {S \in SUBSET names : \A name \in names :
                  \E n \in S : {m \in S : NameFold[m] = NameFold[name]} = {n}}
  IN  {[d EXCEPT !.labels = kept \cup {[id |-> FileId(n), name |-> n, color |-> NoColor] : n \in S},
                 !.targets = @ \cup rows] : S \in last}

Fresh(screen) == [screen |-> screen, page |-> NoPage, status |-> "plain"]

\* run: a file that cannot be imported ends the program.
Restart(file) ==
  /\ \/ db' \in Imported(db, file, {}) /\ \E screen \in {"lookup", "other"} : session' = Fresh(screen)
     \/ \E attached \in SUBSET file : \E begun \in {{}} \cup {{a} : a \in file \ attached} :
          db' \in Imported(db, attached, begun) /\ session' = Fresh("down")
  /\ Keep

-----------------------------------------------------------------------------

Init ==
  /\ db = [labels |-> {}, targets |-> {}, marks |-> {}]
  /\ session = Fresh("other")
  /\ made = 0

Next ==
  \/ \E kind \in {"bookmark", "note"}, text \in Texts : AddMark(kind, text) \/ SetText(kind, text)
  \/ RemoveBookmarks
  \/ \E filter \in SUBSET Marked("note") : RemoveNotes(filter)
  \/ \E name \in Names : AddLabel(name) \/ NoSuchLabel(name)
  \/ \E label \in db.labels :
       \/ RemoveLabel(label) \/ DeleteLabel(label)
       \/ \E color \in Colors : SetLabelColor(label, color)
  \/ \E entity \in Entities : Lookup(entity) \/ OpenDetail(entity)
  \/ Refuse \/ OpenRow \/ OpenLostRow \/ GoTo("lookup") \/ GoTo("other") \/ Tick
  \/ \E file \in Files : Restart(file)

Spec == Init /\ [][Next]_vars

\* liveFeedTick starts itself again; backend and local store are not down for
\* good.
FairSpec == Spec /\ WF_vars(TickAnswered)

-----------------------------------------------------------------------------
(* Properties.                                                              *)

AttachmentsHaveLabel ==
  \A target \in db.targets : \E label \in db.labels : label.id = target.label

OneLabelPerName ==
  \A l, m \in db.labels :
    /\ l.id = m.id => l = m
    /\ NameFold[l.name] = NameFold[m.name] => l = m \/ l.id[1] # m.id[1]

\* Whatever statement fails and whatever file is imported: no attachment is
\* without its label, where it would not be shown nor could be removed; and a
\* name, in any case, is that of one label made by the user at most, and one
\* of the file.
LabelsSound == AttachmentsHaveLabel /\ OneLabelPerName

\* A command that ends with its message of success, and not with one of
\* failure, did all of it: nothing it removes is left for the entity, however
\* it is spelled; a label that is added is attached; one that is deleted is
\* gone with all its attachments (removeBookmarks, addLabel, removeLabel,
\* deleteLabel).
SuccessIsComplete ==
  [][session'.status = "done" =>
       LET on == {t.label : t \in Matching(db'.targets, session.page.entity)}
       IN  /\ RemoveBookmarks => \A row \in db'.marks \cap OnEntity : row.kind = "note"
           /\ \A name \in Names : AddLabel(name) =>
                \E label \in db'.labels : NameFold[label.name] = NameFold[name] /\ label.id \in on
           /\ \A label \in db.labels :
                /\ RemoveLabel(label) => label.id \notin on
                /\ DeleteLabel(label) =>
                     label \notin db'.labels /\ \A t \in db'.targets : t.label # label.id]_vars

\* Whoever stays on a page that the ticks read again sees what is stored of it,
\* again and again: also after a command that stopped half way, one that was
\* given on another screen, a page that came back as it was, or a reading that
\* failed.  A page of a single operation, event or storage entry is not read
\* again, and shows what is stored only after a command (refreshActiveLookup).
PageCatchesUp ==
  []<>(Refreshable(session) => session.page.shown = Metadata(db, session.page.entity))
=============================================================================
