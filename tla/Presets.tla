------------------------------- MODULE Presets -------------------------------
(***************************************************************************)
(* Watch presets and saved views of the terminal client: how the filter    *)
(* and the pause state of the live feed are written to the local store     *)
(* under a name, read back, and put on the feed, by a command or, once in  *)
(* a session, by themselves (tui/cmd/tui/watch.go, views.go, main.go,      *)
(* tui/internal/cache/watch_settings.go, saved_views.go,                   *)
(* tui/internal/app/live_feed.go, monitoring.go).                          *)
(*                                                                         *)
(* What is stored is the filter's text as the screen shows it.  A text is  *)
(* taken apart as the code does it: a class, and at most one word such as  *)
(* account:G... or operation:payment.  Rows and selection of the feed are  *)
(* module LiveFeed's, the histories of screens and pages module Lookups's: *)
(* here back may lead to the live feed or not.                             *)
(***************************************************************************)
EXTENDS Integers, Sequences, SequencesExt

CONSTANTS
  Words,          \* what a filter may ask for beside a class
  NoWord,
  Cut,            \* a word as it is shown: truncateLiveFeedFilterValue on the
                  \* value of an account, contract or asset
  Blank,          \* the words that contain a blank
  Names,          \* names given to watches and views
  Fold,           \* strings.EqualFold: the name without its case
  DefaultWatch,   \* default_watch of the profile, or NoName
  NoName,
  Entities,       \* what can be looked up
  NoEntity,
  MaxEdits        \* bound: how many times the filter or the pause state is
                  \* changed by a command or key, or a row is saved

ASSUME CutAssumption ==
  Cut \in [Words -> Words] /\ \A word \in Words : Cut[Cut[word]] = Cut[word]
ASSUME BlankAssumption == Blank \subseteq Words
ASSUME MaxEditsAssumption == MaxEdits \in Nat
ASSUME DefaultWatchAssumption == DefaultWatch \in Names \cup {NoName}

Classes == {"all", "soroban", "classic"}

\* LiveFeedFilterSpec
Specs == [class : Classes, word : Words \cup {NoWord}]

All == [class |-> "all", word |-> NoWord]

Feeds == [spec : Specs, paused : BOOLEAN]

\* Rows of watch_settings and saved_views.  meant and at are no columns: they
\* record for the properties how the feed stood when the row was written, and
\* when that was.
Watches == [name : Names, text : Specs, paused : BOOLEAN, auto : BOOLEAN,
            meant : Feeds, at : 1 .. MaxEdits]
Views == [name : Names, command : {"home", "live"} \cup Entities, text : Specs,
          meant : Feeds, at : 1 .. MaxEdits]

VARIABLES
  session,        \* app.Model: screen, page, feed, monitoring context and
                  \* defaultWatchApplied
  watches, views, \* the two tables of the profile, the newest row first
  edits           \* how many edits there were

vars == <<session, watches, views, edits>>

Sessions ==
  [screen  : {"home", "live_feed", "lookup"},
   page    : Entities \cup {NoEntity},   \* what a ready lookup page is about
   returns : BOOLEAN,                    \* its ReturnContext is set
   feed    : Feeds,
   context : SUBSET Feeds,               \* liveFeedMonitoring, {} if not Active
   applied : BOOLEAN]                    \* defaultWatchApplied

PresetsTypeOK ==
  /\ session \in Sessions
  /\ watches \in Seq(Watches) /\ views \in Seq(Views)
  /\ edits \in 0 .. MaxEdits

-----------------------------------------------------------------------------
(* Filters and their texts.                                                 *)

\* formatLiveFeedFilter
Displayed(spec) ==
  IF spec.word = NoWord THEN spec ELSE [spec EXCEPT !.word = Cut[@]]

\* ParseLiveFeedFilterValue for parseWatchFilterSpec, which takes a text it
\* cannot read for no filter at all.
Parsed(text) == IF text.word \in Blank THEN All ELSE text

\* parseLiveFeedFilterCommand for SetLiveFeedFilter, which is given the whole
\* text as one word: only a class is understood.
Understood(text) == text.word = NoWord

SetFilter(feed, spec) == [feed EXCEPT !.spec = spec]

\* nextLiveFeedFilterClass
NextClass(class) ==
  CASE class = "all" -> "soroban" [] class = "soroban" -> "classic" [] OTHER -> "all"

-----------------------------------------------------------------------------
(* The tables.                                                              *)

\* DeleteWatchSetting, DeleteSavedView: a name stands, in its case, in one row.
Deleted(rows, name) == RemoveFirstMatch(rows, LAMBDA row : row.name = name)

\* UpsertWatchSetting, UpsertSavedView: the row written last is listed first.
Upserted(rows, row) == <<row>> \o Deleted(rows, row.name)

\* Mutated form: the last one of the list.
NamedLast(rows, name) == SelectLastInSeq(rows, LAMBDA row : Fold[row.name] = Fold[name])

\* The first row of the list with the name, in any case; 0 if there is none.
Named(rows, name) == SelectInSeq(rows, LAMBDA row : Fold[row.name] = Fold[name])

\* FindAutoApplyWatchSetting
AutoApplied == SelectInSeq(watches, LAMBDA row : row.auto)

-----------------------------------------------------------------------------
(* Handlers, from a session to the set of what it may be after them.        *)

\* applyWatchSetting, ApplyWatchSettings
ApplyWatch(s, row) == [s EXCEPT !.feed = [spec |-> Parsed(row.text), paused |-> row.paused]]

\* The preset that is due, 0 for none: that of the profile, unless the table
\* cannot be listed, or the newest one marked auto.
Due(listed) ==
  IF listed /\ DefaultWatch # NoName /\ Named(watches, DefaultWatch) # 0
  THEN Named(watches, DefaultWatch) ELSE AutoApplied

\* Mutated form: the mark forgotten.
AppliedUnmarked(s, i) == ApplyWatch(s, watches[i])

\* MarkDefaultWatchApplied
Applied(s, i) == [ApplyWatch(s, watches[i]) EXCEPT !.applied = TRUE]

\* applyProfileWatchOnLiveScreen; the local store may fail.
ProfileWatched(s) ==
  {s} \cup
  {Applied(s, Due(listed)) :
     listed \in {l \in BOOLEAN : s.screen = "live_feed" /\ ~ s.applied /\ Due(l) # 0}}

\* RestoreLiveFeedMonitoringContext
ContextRestored(s) ==
  [s EXCEPT !.feed = IF s.context = {} THEN @ ELSE CHOOSE feed \in s.context : TRUE,
            !.context = {}]

\* ReturnToLiveMonitoring, which is refused if there is nothing to return to.
ReturnedToLive(s) ==
  IF ~ s.returns /\ s.context = {} THEN s
  ELSE ContextRestored([s EXCEPT !.screen = "live_feed", !.page = NoEntity, !.returns = FALSE])

\* A lookup, which may fail.
LookedUp(s, entity) ==
  {[s EXCEPT !.screen = "lookup", !.page = page, !.returns = FALSE] : page \in {entity, NoEntity}}

\* executeCommand for what a view runs.
Executed(s, command) ==
  CASE command = "live" -> ProfileWatched([s EXCEPT !.screen = "live_feed"])
    [] command = "home" -> {[s EXCEPT !.screen = "home"]}
    [] OTHER            -> LookedUp(s, command)

\* captureSavedViewContext: what is saveable on the screen, {} if nothing is.
Saveable(s) ==
  CASE s.screen = "live_feed" -> {"live"}
    [] s.screen = "home"      -> {"home"}
    [] OTHER                  -> {s.page} \ {NoEntity}

ScreenOf(command) ==
  CASE command = "live" -> "live_feed" [] command = "home" -> "home" [] OTHER -> "lookup"

\* savedViewLiveFilter: the filter is stored for the live screen only, and
\* only one that is not "all".
StoredText(s) == IF s.screen = "live_feed" THEN Displayed(s.feed.spec) ELSE All

\* What openSavedView does before the command of the view is executed.
FilterPut(s, text) ==
  IF text # All /\ Understood(text) THEN [s EXCEPT !.feed = SetFilter(@, text)] ELSE s

-----------------------------------------------------------------------------
\* NewModel
Fresh ==
  [screen |-> "home", page |-> NoEntity, returns |-> FALSE,
   feed |-> [spec |-> All, paused |-> FALSE], context |-> {}, applied |-> FALSE]

Init == session = Fresh /\ watches = <<>> /\ views = <<>> /\ edits = 0

\* Not in the code: the count that MaxEdits bounds.
Edit == edits < MaxEdits /\ edits' = edits + 1

Change(states) == session' \in states /\ UNCHANGED <<watches, views>>
Leave(states) == Change(states) /\ UNCHANGED edits

\* Keys h and l; the key u and the command live.
GoTo(screen) == Leave({[session EXCEPT !.screen = screen]})
GoLive == Leave(ProfileWatched([session EXCEPT !.screen = "live_feed"]))

\* lookup <kind> <id>
Lookup(entity) == Leave(LookedUp(session, entity))

\* What a command can ask for: a class or a word, not both.
Typed == {spec \in Specs : spec.class = "all" \/ spec.word = NoWord}

\* live filter, live all, live soroban, live classic; on any screen.  A kind of
\* word that is not in lower case, as in `live filter Account G...`, is accepted
\* and its word dropped: that is LiveFilter(All).
LiveFilter(spec) ==
  Edit /\ Change(ProfileWatched([session EXCEPT !.feed = SetFilter(@, spec)]))

\* live pause, live resume
LivePause(paused) ==
  Edit /\ Change(ProfileWatched([session EXCEPT !.feed.paused = paused]))

\* Keys t and p on the live feed
CycleFilter ==
  /\ session.screen = "live_feed"
  /\ Edit /\ Change({[session EXCEPT !.feed.spec.class = NextClass(@)]})
TogglePause ==
  /\ session.screen = "live_feed"
  /\ Edit /\ Change({[session EXCEPT !.feed.paused = ~ @]})

\* enter on a row of the live feed
OpenFeedRow(entity) ==
  /\ session.screen = "live_feed"
  /\ LET captured == [session EXCEPT !.context = {session.feed}]
         opened == {[s EXCEPT !.returns = s.page # NoEntity] : s \in LookedUp(captured, entity)}
     IN  Leave({captured} \cup opened)

\* live return
LiveReturn == Leave(ProfileWatched(ReturnedToLive(session)))

\* b, where it leads to the live feed: from the page of a row, or through the
\* history of screens.
BackToLive ==
  Leave({IF session.screen = "lookup" /\ session.returns THEN ReturnedToLive(session)
         ELSE ContextRestored([session EXCEPT !.screen = "live_feed"])})

\* watch save, watch auto; only on the live feed.
WatchSave(name, auto) ==
  /\ session.screen = "live_feed"
  /\ Edit
  /\ watches' = Upserted(watches,
       [name |-> name, text |-> Displayed(session.feed.spec), paused |-> session.feed.paused,
        auto |-> auto, meant |-> session.feed, at |-> edits'])
  /\ UNCHANGED <<session, views>>

\* watch open
WatchOpen(name) ==
  Leave(IF Named(watches, name) = 0 THEN {session}
        ELSE {ApplyWatch([session EXCEPT !.screen = "live_feed"], watches[Named(watches, name)])})

\* watch delete
WatchDelete(name) == watches' = Deleted(watches, name) /\ UNCHANGED <<session, views, edits>>

\* view save
ViewSave(name) ==
  /\ Edit
  /\ \E command \in Saveable(session) :
       views' = Upserted(views,
         [name |-> name, command |-> command, text |-> StoredText(session),
          meant |-> session.feed, at |-> edits'])
  /\ UNCHANGED <<session, watches>>

\* view open
ViewOpen(name) ==
  Leave(IF Named(views, name) = 0 THEN {session}
        ELSE LET row == views[Named(views, name)]
             IN  Executed(FilterPut([session EXCEPT !.screen = ScreenOf(row.command)], row.text),
                          row.command))

\* view delete
ViewDelete(name) == views' = Deleted(views, name) /\ UNCHANGED <<session, watches, edits>>

\* The client is started again, on the screen it kept.
Restart == Leave({[Fresh EXCEPT !.screen = session.screen]})

Next ==
  \/ GoTo("home") \/ GoTo("lookup") \/ GoLive
  \/ CycleFilter \/ TogglePause \/ LiveReturn \/ BackToLive \/ Restart
  \/ \E entity \in Entities : Lookup(entity) \/ OpenFeedRow(entity)
  \/ \E spec \in Typed : LiveFilter(spec)
  \/ \E paused \in BOOLEAN : LivePause(paused)
  \/ \E name \in Names :
       \/ \E auto \in BOOLEAN : WatchSave(name, auto)
       \/ WatchOpen(name) \/ WatchDelete(name)
       \/ ViewSave(name) \/ ViewOpen(name) \/ ViewDelete(name)

Spec == Init /\ [][Next]_vars

-----------------------------------------------------------------------------
(* Properties.                                                              *)

\* The filters that a text gives back as they were.
Survives(spec) == Parsed(Displayed(spec)) = spec

\* The rows of a name, in any case, and the one of them written last.
RowsOf(rows, name) == {i \in DOMAIN rows : Fold[rows[i].name] = Fold[name]}
IsLatest(rows, name, i) ==
  i \in RowsOf(rows, name) /\ \A j \in RowsOf(rows, name) : rows[j].at <= rows[i].at

\* tui/README.md:407: watch open "restores a saved watch preset".  Opening a
\* watch puts the feed back as it was when a watch of that name, in whatever
\* case, was saved last, whatever was saved, deleted and applied since; only a
\* filter that its text does not give back is lost (saveWatchSetting,
\* openWatchSetting).
WatchRestoresFeed ==
  [][\A name \in Names : \A i \in DOMAIN watches :
       WatchOpen(name) /\ IsLatest(watches, name, i) =>
         /\ session'.screen = "live_feed"
         /\ session'.feed.paused = watches[i].meant.paused
         /\ session'.feed.spec = watches[i].meant.spec \/ ~ Survives(watches[i].meant.spec)]_vars

\* What the commands for the feed ask for, as the parser understands them.
Asks ==
  /\ \A spec \in Typed : LiveFilter(spec) => session'.feed.spec = spec
  /\ \A paused \in BOOLEAN : LivePause(paused) => session'.feed.paused = paused
  /\ LiveReturn /\ session.context # {} => session'.feed \in session.context
  /\ GoLive => session'.feed = session.feed

\* A preset that is applied by itself comes in once in a session: from then on
\* the feed is as the user's commands leave it, those that lead to the live
\* feed included (applyProfileWatchOnLiveScreen, MarkDefaultWatchApplied).
UserHasTheLastWord == [][Asks \/ (~ session.applied /\ session'.applied)]_vars
=============================================================================
