----------------------------- MODULE RegionLocale -----------------------------
(***************************************************************************)
(* The pages "Language", "Formats" and "System Settings" of the region     *)
(* panel (gnome-region-panel-lang.c, -formats.c and -system.c), the        *)
(* chooser they share (cc-language-chooser.c, cc-common-language.c) and    *)
(* the names of locales (gdm-languages.c).                                 *)
(*                                                                         *)
(* Choosing a language asks the accounts service, fills the formats anew   *)
(* and changes what the system page compares; choosing a format asks the   *)
(* accounts service too.  The system page compares what the user has with  *)
(* what systemd-localed says, and copies one over the other.               *)
(***************************************************************************)
EXTENDS Integers, Sequences, FiniteSets, SequencesExt, Functions

CONSTANTS
  Archive, Directory,  \* the locales installed, in the order they are found
  Aliases,             \* the lines of locale.alias, each a sequence of locales
  Accepted, Utf8,      \* the locales setlocale accepts, and those written in UTF-8
  Translated,          \* the names there are translations for, those of a language alone among them
  Displayable,         \* the languages there is a font for
  KnownLanguages, KnownTerritories,
  Width,               \* how long a character set is when written
  Offered,             \* the languages language-options lists
  English, EnglishUS,  \* what is shown when the accounts service is not there
  Converted,           \* what language2locale answers for a language ("" for none)
  Inputs, FirstInputs, \* the layouts a user may have, and may have at first, "" for none
  MaxActions, MaxChanges

VARIABLES
  panel,   \* the lists, the choosers and the labels of the system page
  calls,   \* what is under way with localed, the idle calls, the signals to come
  world    \* the accounts service, localed, the settings and the counters

vars == <<panel, calls, world>>

None == "none"
NoName == [lang |-> None, terr |-> None, codeset |-> None, mod |-> None]
Kinds == {"language", "region"}
Chooser == [made |-> FALSE, ready |-> FALSE, at |-> 0, rows |-> {}, pattern |-> "all", sel |-> NoName, ok |-> TRUE]

-----------------------------------------------------------------------------
(***************************************************************************)
(* The names of locales: language, territory, character set and modifier.  *)
(***************************************************************************)
Normalize(codeset) == CASE codeset \in {"UTF-8", "utf8"} -> "utf8" [] OTHER -> codeset
\* A character set is written in its short form when the locale exists in that form.
ParseLanguageName(n) ==
  IF n.codeset # None /\ [n EXCEPT !.codeset = Normalize(@)] \in Accepted
  THEN [n EXCEPT !.codeset = Normalize(@)] ELSE n
ConstructLanguageName(n) == IF n.codeset = "utf8" THEN [n EXCEPT !.codeset = "UTF-8"] ELSE n
NormalizeLanguageName(n) == ConstructLanguageName(ParseLanguageName(n))

\* Of two locales that differ in the character set the one with the longer name stays.
AddLocale(map, n, utf8Only) ==
  LET name == IF n \in Utf8 \/ ~utf8Only THEN n
              ELSE IF n.codeset = None THEN [n EXCEPT !.codeset = "utf8"] ELSE n
      whole == NormalizeLanguageName(name)
      id == IF utf8Only THEN [whole EXCEPT !.codeset = None] ELSE whole
  IN IF \/ utf8Only /\ name \notin Utf8
        \/ name \notin Accepted
        \/ utf8Only /\ Translated \cap {whole, id, [NoName EXCEPT !.lang = n.lang]} = {}
        \/ id \in DOMAIN map /\ Width[map[id].codeset] > Width[whole.codeset]
     THEN map
     ELSE [i \in DOMAIN map \cup {id} |-> IF i = id THEN whole ELSE map[i]]
AddLocales(map, names) == FoldLeft(LAMBDA m, n : AddLocale(m, n, TRUE), map, names)
\* Of the names of an alias the first that can be added is taken.
AddAlias(map, names) ==
  LET good == {i \in DOMAIN names : AddLocale(map, names[i], FALSE) # map}
  IN IF good = {} THEN map
     ELSE AddLocale(map, names[CHOOSE i \in good : \A j \in good : i <= j], FALSE)
CollectLocales == FoldLeft(AddAlias, AddLocales(AddLocales(<<>>, Archive), Directory), Aliases)
AllLanguageNames == Range(CollectLocales)

IsUniqueLanguage(l) == Cardinality({n \in AllLanguageNames : n.lang = l}) = 1
IsUniqueTerritory(t) == Cardinality({n \in AllLanguageNames : n.terr = t}) = 1
\* What is shown for a locale; the empty sequence where nothing can be shown.
LanguageFromName(n) ==
  IF n.lang \notin KnownLanguages THEN <<>>
  ELSE IF IsUniqueLanguage(n.lang) THEN <<n.lang>>
  ELSE <<n.lang, IF n.terr \in KnownTerritories THEN n.terr ELSE None, n.mod>>
RegionFromName(n) ==
  IF n.terr \notin KnownTerritories THEN <<>>
  ELSE IF IsUniqueTerritory(n.terr) THEN <<n.terr>>
  ELSE <<n.terr, IF n.lang \in KnownLanguages THEN n.lang ELSE None, IF n \in Utf8 THEN None ELSE n.codeset>>

-----------------------------------------------------------------------------
(***************************************************************************)
(* The accounts service.                                                   *)
(***************************************************************************)
GetProperty(w, prop) ==
  IF ~w.up THEN IF prop = "language" THEN English ELSE EnglishUS
  ELSE IF prop = "language" THEN w.language ELSE w.formats
InitialLanguages(w) == Offered \cup {GetProperty(w, "language")}
InitialRegions(lang) == {n \in AllLanguageNames : lang # NoName /\ n.lang = lang.lang}

-----------------------------------------------------------------------------
(***************************************************************************)
(* The system page: the user's settings beside those of the system.        *)
(***************************************************************************)
UpdateCopyButton(p) ==
  [p EXCEPT !.copy = \/ p.user.lang # p.system.lang \/ p.user.region # p.system.region
                     \/ p.user.input \notin {None, ""} /\ p.user.input # p.system.input]
LocaleSettingsChanged(p, w) ==
  LET formats == GetProperty(w, "formats")
  IN UpdateCopyButton([p EXCEPT !.user.region = IF formats = NoName THEN p.user.lang ELSE formats])
SystemUpdateLanguage(p, w, lang) == LocaleSettingsChanged([p EXCEPT !.user.lang = lang], w)
InputSourcesChanged(p, w) == UpdateCopyButton([p EXCEPT !.user.input = w.input])
\* The label of the language holds LANG, whatever decides what it shows.
LocaledPropertiesChanged(p, c) ==
  LET time == IF c.time # NoName THEN c.time ELSE c.lang
      language == IF c.language # NoName THEN c.language ELSE c.lang
      a == IF language = NoName THEN p ELSE [p EXCEPT !.system.lang = c.lang, !.system.shown = language]
      b == IF time = NoName THEN a ELSE [a EXCEPT !.system.region = time]
  IN UpdateCopyButton([b EXCEPT !.system.input = c.input])

-----------------------------------------------------------------------------
(***************************************************************************)
(* The lists of languages and of formats.  s is [p |-> panel, w |-> world]. *)
(***************************************************************************)
\* Selecting a row of the formats writes it, if the service lets it, and shows examples of it.
RegionSelected(s, r, granted) ==
  IF s.p.region = r THEN s
  ELSE LET w == IF s.w.up /\ granted THEN [s.w EXCEPT !.formats = r, !.refused = FALSE] ELSE [s.w EXCEPT !.refused = TRUE]
       IN [p |-> [LocaleSettingsChanged([s.p EXCEPT !.region = r], w) EXCEPT !.example = r], w |-> w]
\* While the list is filled nothing is written.
PopulateRegions(p, w, lang) ==
  LET formats == GetProperty(w, "formats")
      current == IF formats = NoName THEN lang ELSE formats
      rows == InitialRegions(lang) \cup (IF formats = NoName THEN {} ELSE {formats})
      found == current \in rows
  IN [p EXCEPT !.regions = rows, !.region = IF found THEN current ELSE NoName,
               !.example = IF found THEN current ELSE @]
LanguageSelected(s, l, granted) ==
  IF s.p.language = l THEN s
  ELSE LET p == [s.p EXCEPT !.language = l]
           w == [s.w EXCEPT !.language = l]
       IN IF ~(s.w.up /\ granted) THEN [s EXCEPT !.p = p]
          ELSE [p |-> SystemUpdateLanguage(PopulateRegions(p, w, l), w, l), w |-> w]
SelectRow(s, kind, n, granted) ==
  IF kind = "language" THEN LanguageSelected(s, n, granted) ELSE RegionSelected(s, n, granted)
Rows(p, kind) == IF kind = "language" THEN p.languages ELSE p.regions
AddRow(p, kind, n) ==
  IF kind = "language" THEN [p EXCEPT !.languages = @ \cup {n}] ELSE [p EXCEPT !.regions = @ \cup {n}]
\* The row of a name, written in its normal form where there is none yet.
IterFor(s, kind, n, granted) ==
  IF n \in Rows(s.p, kind) THEN SelectRow(s, kind, n, granted)
  ELSE LET whole == NormalizeLanguageName(n)
       IN SelectRow([s EXCEPT !.p = AddRow(@, kind, whole)], kind, whole, granted)

-----------------------------------------------------------------------------
(***************************************************************************)
(* What the user does.                                                     *)
(***************************************************************************)
UserMakes(w) == w.acts < MaxActions /\ world' = [w EXCEPT !.acts = @ + 1]
Free == panel.open = None
RowClicked(kind, n, granted) ==
  /\ Free /\ n \in Rows(panel, kind)
  /\ LET s == SelectRow([p |-> panel, w |-> world], kind, n, granted) IN panel' = s.p /\ UserMakes(s.w)
  /\ UNCHANGED calls

\* The chooser is made once, and its list is filled when nothing else is to do.
AddClicked(kind) ==
  /\ Free
  /\ panel' = [panel EXCEPT !.open = kind,
                            !.chooser[kind] = IF @.made THEN [@ EXCEPT !.pattern = "all"] ELSE [@ EXCEPT !.made = TRUE]]
  /\ calls' = IF panel.chooser[kind].made THEN calls ELSE calls \cup {<<"finish", kind>>}
  /\ UserMakes(world)
FinishLanguageChooser(kind) ==
  /\ <<"finish", kind>> \in calls
  /\ calls' = (calls \ {<<"finish", kind>>}) \cup {<<"add", kind>>}
  /\ panel' = [panel EXCEPT !.chooser[kind].ready = TRUE]
  /\ UNCHANGED world
Matching(rows, pattern) == {n \in rows : pattern \in {"all", n.lang, n.terr}}
Text(kind, n) == IF kind = "language" THEN LanguageFromName(n) ELSE RegionFromName(n)
AddOneLanguage(kind) ==
  LET names == SetToSeq(AllLanguageNames)
      at == panel.chooser[kind].at + 1
  IN /\ <<"add", kind>> \in calls
     /\ IF at > Len(names) THEN calls' = calls \ {<<"add", kind>>} /\ UNCHANGED panel
        ELSE LET n == NormalizeLanguageName(names[at])
                 new == IF n.lang \in Displayable /\ Text(kind, n) # <<>> THEN {n} ELSE {}
             IN panel' = [panel EXCEPT !.chooser[kind].at = at, !.chooser[kind].rows = @ \cup new]
                /\ UNCHANGED calls
     /\ UNCHANGED world
\* A row that is filtered out is no longer selected.
FilterChanged(pattern) ==
  /\ ~Free /\ pattern # panel.chooser[panel.open].pattern
  /\ LET c == panel.chooser[panel.open]
         kept == IF c.sel \in Matching(c.rows, pattern) THEN c.sel ELSE NoName
     IN panel' = [panel EXCEPT !.chooser[panel.open] = [c EXCEPT !.pattern = pattern, !.sel = kept,
                                                               !.ok = IF c.ready /\ kept # c.sel THEN FALSE ELSE @]]
  /\ UserMakes(world) /\ UNCHANGED calls
ChoiceSelected(n) ==
  /\ ~Free
  /\ LET c == panel.chooser[panel.open]
     IN /\ n \in Matching(c.rows, c.pattern) \ {c.sel}
        /\ panel' = [panel EXCEPT !.chooser[panel.open] = [c EXCEPT !.sel = n, !.ok = TRUE]]
  /\ UserMakes(world) /\ UNCHANGED calls
ChooserResponse(ok, granted) ==
  /\ ~Free
  /\ ok => panel.chooser[panel.open].ok
  /\ LET kind == panel.open
         n == panel.chooser[kind].sel
         s == [p |-> [panel EXCEPT !.open = None], w |-> world]
         t == IF ok /\ n # NoName THEN IterFor(s, kind, n, granted) ELSE s
     IN panel' = t.p /\ world' = t.w
  /\ UNCHANGED calls

\* Without a locale for the language nothing is copied, without a layout only the locale.
CopySettings ==
  /\ Free /\ panel.system.setup /\ panel.copy /\ panel.visible
  /\ LET lang == Converted[panel.user.lang]
         locale == [call |-> "SetLocale", lang |-> lang, language |-> panel.user.lang, time |-> panel.user.region]
         keyboard == [call |-> "SetX11Keyboard", input |-> panel.user.input]
         asked == IF panel.user.input \in {None, ""} THEN <<locale>> ELSE <<locale, keyboard>>
     IN calls' = IF lang = NoName \/ ~panel.localed THEN calls ELSE calls \cup {<<"localed", asked>>}
  /\ UserMakes(world) /\ UNCHANGED panel

-----------------------------------------------------------------------------
(***************************************************************************)
(* localed, the settings and other programs.                               *)
(***************************************************************************)
LocaledProxyReady(ok) ==
  /\ <<"proxy">> \in calls
  /\ calls' = calls \ {<<"proxy">>}
  /\ panel' = IF ok THEN LocaledPropertiesChanged([panel EXCEPT !.localed = TRUE], world.localed) ELSE panel
  /\ UNCHANGED world
\* localed does what it was asked, in order, or refuses it, and says what it did.
LocaledDoes(asked, allowed) ==
  /\ <<"localed", asked>> \in calls
  /\ calls' = (calls \ {<<"localed", asked>>}) \cup (IF allowed THEN {<<"said">>} ELSE {})
     \cup (IF Len(asked) = 2 THEN {<<"localed", Tail(asked)>>} ELSE {})
  /\ LET a == Head(asked)
     IN world' = IF ~allowed THEN world
                 ELSE IF a.call = "SetLocale"
                 THEN [world EXCEPT !.localed.lang = a.lang, !.localed.language = a.language, !.localed.time = a.time]
                 ELSE [world EXCEPT !.localed.input = a.input]
  /\ UNCHANGED panel
LocaledSaid ==
  /\ <<"said">> \in calls /\ panel.localed
  /\ calls' = calls \ {<<"said">>}
  /\ panel' = LocaledPropertiesChanged(panel, world.localed)
  /\ UNCHANGED world
\* The list of formats follows the service; a row that is not there is not selected.
SettingChanged(s, granted) ==
  LET formats == GetProperty(s.w, "formats")
      t == IF formats \in s.p.regions THEN RegionSelected(s, formats, granted) ELSE s
  IN [t EXCEPT !.p = LocaleSettingsChanged(@, t.w)]
RegionSettingTold(granted) ==
  /\ <<"region">> \in calls
  /\ calls' = calls \ {<<"region">>}
  /\ LET s == SettingChanged([p |-> panel, w |-> world], granted) IN panel' = s.p /\ world' = s.w
SourcesTold ==
  /\ <<"sources">> \in calls
  /\ calls' = calls \ {<<"sources">>}
  /\ panel' = InputSourcesChanged(panel, world)
  /\ UNCHANGED world

OthersMake(w) == w.changes < MaxChanges /\ world' = [w EXCEPT !.changes = @ + 1]
OtherPrograms ==
  /\ world.changes < MaxChanges
  /\ \/ /\ OthersMake([world EXCEPT !.up = ~@]) /\ UNCHANGED calls
     \/ \E n \in AllLanguageNames :
          OthersMake([world EXCEPT !.formats = n]) /\ calls' = calls \cup {<<"region">>}
     \/ \E i \in Inputs \ {world.input} :
          OthersMake([world EXCEPT !.input = i]) /\ calls' = calls \cup {<<"sources">>}
     \/ \E n \in AllLanguageNames :
          OthersMake([world EXCEPT !.localed.lang = n, !.localed.language = NoName, !.localed.time = NoName])
          /\ calls' = calls \cup {<<"said">>}
  /\ UNCHANGED panel
PermissionChanged ==
  /\ panel.system.setup
  /\ OthersMake(world)
  /\ panel' = [panel EXCEPT !.visible = ~@]
  /\ UNCHANGED calls

-----------------------------------------------------------------------------
\* Without the permission the system page is not set up at all.
Init ==
  \E language \in Offered, formats \in Offered \cup {NoName}, setup \in BOOLEAN, input \in FirstInputs :
    LET w == [up |-> TRUE, language |-> language, formats |-> formats, input |-> input,
              localed |-> [lang |-> English, language |-> NoName, time |-> NoName, input |-> None],
              acts |-> 0, changes |-> 0, refused |-> FALSE]
        p == [languages |-> InitialLanguages(w), language |-> language, regions |-> {}, region |-> NoName,
              example |-> NoName, open |-> None, chooser |-> [k \in Kinds |-> Chooser],
              user |-> [lang |-> NoName, region |-> NoName, input |-> None],
              system |-> [lang |-> NoName, shown |-> NoName, region |-> NoName, input |-> None, setup |-> setup],
              copy |-> TRUE, visible |-> TRUE, localed |-> FALSE]
        q == PopulateRegions(p, w, language)
    IN /\ world = w
       /\ panel = IF setup THEN InputSourcesChanged(SystemUpdateLanguage(q, w, language), w) ELSE q
       /\ calls = IF setup THEN {<<"proxy">>} ELSE {}

Answers ==
  \/ \E k \in Kinds : FinishLanguageChooser(k) \/ AddOneLanguage(k)
  \/ \E ok \in BOOLEAN : LocaledProxyReady(ok)
  \/ \E c \in calls, allowed \in BOOLEAN : c[1] = "localed" /\ LocaledDoes(c[2], allowed)
  \/ LocaledSaid \/ SourcesTold \/ \E granted \in BOOLEAN : RegionSettingTold(granted)
Next ==
  \/ \E k \in Kinds : AddClicked(k) \/ \E n \in Rows(panel, k), granted \in BOOLEAN : RowClicked(k, n, granted)
  \/ \E pattern \in {"all"} \cup KnownLanguages \cup KnownTerritories : FilterChanged(pattern)
  \/ \E k \in Kinds : \E n \in panel.chooser[k].rows : ChoiceSelected(n)
  \/ \E ok, granted \in BOOLEAN : ChooserResponse(ok, granted)
  \/ CopySettings \/ Answers \/ OtherPrograms \/ PermissionChanged

-----------------------------------------------------------------------------
(***************************************************************************)
(* What the choices keep to.                                               *)
(***************************************************************************)
\* Choosing a language leaves the formats that were chosen before.
LanguageKeepsFormats == panel.language # panel'.language => world'.formats = world.formats
\* The user may copy the settings exactly when one of them is not that of the system.
CopiesDifferences ==
  panel.system.setup =>
    panel.copy = (\/ panel.user.lang # panel.system.lang \/ panel.user.region # panel.system.region
                  \/ (panel.user.input \notin {None, ""} /\ panel.user.input # panel.system.input))
\* The formats on the page of the system are those that were chosen, or follow the language...
SystemPageTellsFormats ==
  (panel.system.setup /\ world.changes = 0) => panel.user.region = IF world.formats = NoName THEN world.language ELSE world.formats
\* ... and the row that is selected is the one that was set, unless the service refused the last choice.
SelectedRegionIsSet ==
  (world.changes = 0 /\ ~world.refused /\ panel.region # NoName) => world.formats \in {NoName, panel.region}
=============================================================================
