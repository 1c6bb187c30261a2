----------------------------- MODULE Backgrounds -----------------------------
(***************************************************************************)
(* The background half of the appearance panel: the selection and the      *)
(* settings (cc-appearance-panel.c), the pictures (bg-pictures-source.c),  *)
(* the wallpapers and the XML files they come from (cc-appearance-xml.c,   *)
(* bg-wallpapers-source.c), the colours (bg-colors-source.c) and the items *)
(* themselves (cc-appearance-item.c).                                      *)
(*                                                                         *)
(* A picture from elsewhere is copied to a cache while the user goes on.   *)
(* Wallpapers are read by a thread and by the monitor of their directory.  *)
(***************************************************************************)
EXTENDS Integers, Sequences, FiniteSets, SequencesExt

CONSTANTS
  Ranked,        \* the uris of pictures in the order their names sort
  Folder,        \* the pictures in the folder of the user
  Dragged,       \* the uris dropped on the panel or chosen in the dialog
  Screenshots,   \* pictures that were taken by the screenshot program
  Files,         \* the XML files, in the order the thread reads them
  Changed,       \* what a file may be changed to: pairs of a file and a wallpaper
  Wallpapers,    \* what the files hold at first: a function to [name, deleted, flags, place, uri]
  Starts,        \* the settings at first
  PictureColors, \* the colours the user picks
  MaxActions, MaxChanges

VARIABLES
  panel,   \* the sources, the selection, the item shown, the spinner and the edit box
  calls,   \* pictures that are read, copies, the thread and the monitor's events
  world    \* the settings, the saved item, the files, what was trashed and the counters

vars == <<panel, calls, world>>

\* A uri is a pair of where it is and what it is called.
NoUri == <<"none", "none">>
None == "none"
NoItem == <<"none", 0>>
Remote(uri) == uri[1] = "remote"
Cached(uri) == uri[1] = "cache"
Dest(url) == <<"cache", url[2]>>
Styles == {"zoom", "scaled"}
Source == {"wall", "pics", "cols"}

-----------------------------------------------------------------------------
(***************************************************************************)
(* Items (cc-appearance-item.c).                                           *)
(***************************************************************************)
NewItem(id, uri) ==
  [id |-> id, name |-> None, uri |-> uri, url |-> NoUri, needs |-> TRUE, flags |-> {},
   place |-> "scaled", shade |-> "solid", pc |-> "black", sc |-> "black"]
PictureItem(id, uri) ==
  [NewItem(id, uri) EXCEPT !.name = uri[2], !.flags = {"uri", "shade"}, !.place = "zoom",
                           !.url = IF Remote(uri) THEN uri ELSE NoUri]
ColorItems ==
  [k \in 1..3 |-> [NewItem(<<"color", k>>, NoUri) EXCEPT
                     !.name = "color", !.flags = {"uri", "shade", "place", "pc", "sc"}, !.place = "none",
                     !.pc = "blue", !.sc = "sky", !.shade = <<"solid", "vertical", "horizontal">>[k]]]
FromFile(f, w) ==
  [NewItem(<<f, w.name>>, w.uri) EXCEPT !.name = w.name, !.flags = w.flags,
                                        !.place = IF "place" \in w.flags THEN w.place ELSE @]
\* Only what the flags name is compared: an item without flags matches nothing.
Compare(saved, configured) ==
  /\ saved.flags # {}
  /\ \A f \in saved.flags : saved[f] = configured[f]

\* What is written of an item, and what is read back.
XmlSave(item) ==
  LET blank == NewItem(NoItem, NoUri)
  IN [f \in DOMAIN blank |-> IF f \in item.flags \cup {"name", "url", "flags"} THEN item[f]
                             ELSE IF f = "needs" /\ item.url # NoUri THEN FALSE ELSE blank[f]]
XmlGetItem(w) == IF w.saved.uri \in w.trashed THEN NewItem(NoItem, NoUri) ELSE w.saved

-----------------------------------------------------------------------------
(***************************************************************************)
(* The preview and the edit box; s is [p, c, w].                           *)
(***************************************************************************)
SourceUpdateEditBox(s) ==
  LET bg == s.p.cur
      color == s.p.src = "cols"
  IN [s EXCEPT !.p.edit = [sc |-> ~(("sc" \in bg.flags /\ ~color) \/ bg.shade = "solid"),
                           pc |-> ~("pc" \in bg.flags /\ ~color),
                           style |-> ~("place" \in bg.flags \/ bg.uri = NoUri)]]
\* To show the style of an item in the combo is to choose it: the setting follows.
SelectStyle(s, place) ==
  IF place \notin Styles THEN [s EXCEPT !.p.style = None]
  ELSE IF place = s.p.style THEN s
  ELSE [s EXCEPT !.p.style = place, !.p.cur.place = place, !.w.set.place = place]
UpdatePreview(s) == SelectStyle(SourceUpdateEditBox(s), s.p.cur.place)
Preview(s, item) == UpdatePreview([s EXCEPT !.p.cur = item])
Save(s) == [s EXCEPT !.w.saved = XmlSave(s.p.cur)]

UpdateRemoveButton(s, item) == [s EXCEPT !.p.remove = (s.p.src = "pics" /\ Cached(item.uri))]

Shown(p) == p.store[p.combo]
ItemAt(p, id) == LET k == CHOOSE i \in DOMAIN Shown(p) : Shown(p)[i].id = id IN Shown(p)[k]
\* An item is an object that its row and a copy share.
SetItem(s, item) ==
  [s EXCEPT !.p.item = item,
            !.p.store[s.p.combo] = [i \in DOMAIN @ |-> IF @[i].id = item.id THEN item ELSE @[i]],
            !.c = [i \in DOMAIN @ |-> IF @[i].kind = "copy" /\ @[i].item.id = item.id
                                      THEN [@[i] EXCEPT !.item = item] ELSE @[i]]]

\* A blank file stands for the picture until it is copied; a copy that runs is cancelled.
Download(s, item) ==
  LET new == [item EXCEPT !.uri = Dest(item.url), !.needs = FALSE]
  IN SetItem([s EXCEPT !.w.set.uri = new.uri, !.w.cache = @ \cup {new.uri}, !.p.spinner = item.id,
                       !.c = Append(@, [kind |-> "copy", item |-> new])], new)

ApplyItem(s, item) ==
  LET hasPlace == "place" \in item.flags
      color == s.p.src = "cols"
      place == IF hasPlace \/ (item.uri # NoUri /\ s.w.set.place = "none") THEN item.place ELSE s.w.set.place
      Own(f) == f \in item.flags /\ ~color
      set == [s.w.set EXCEPT !.place = place,
                             !.shade = IF "shade" \in item.flags THEN item.shade ELSE @,
                             !.pc = IF Own("pc") THEN item.pc ELSE @,
                             !.sc = IF Own("sc") THEN item.sc ELSE @]
      new == [item EXCEPT !.pc = set.pc, !.sc = set.sc]
  IN SetItem([s EXCEPT !.w.set = set], new)

BackgroundsChanged(s, made) ==
  IF s.p.sel = NoItem THEN s
  ELSE LET t == [s EXCEPT !.p.src = s.p.combo]
           item == ItemAt(s.p, s.p.sel)
           fetch == item.url # NoUri /\ item.needs
           u == IF "uri" \in item.flags /\ item.uri = NoUri
                THEN [t EXCEPT !.w.set.place = "none", !.w.set.uri = NoUri, !.p.item = item]
                ELSE IF fetch THEN Download(t, item)
                ELSE [t EXCEPT !.w.set.uri = item.uri, !.p.item = item]
           v == ApplyItem(u, u.p.item)
           x == UpdateRemoveButton(v, v.p.item)
       IN IF fetch /\ ~made THEN t ELSE IF fetch THEN x ELSE Save(Preview(x, x.p.item))

\* Another source is shown with nothing selected; the remove button is left as it was.
SourceChanged(s, source) == IF source = s.p.combo THEN s ELSE [s EXCEPT !.p.combo = source, !.p.sel = NoItem]
SelectPath(s, id, made) ==
  IF id = s.p.sel THEN s ELSE BackgroundsChanged([s EXCEPT !.p.sel = id], made)

-----------------------------------------------------------------------------
(***************************************************************************)
(* The wallpapers (cc-appearance-xml.c): one is known by its file and its  *)
(* name, and read once.                                                    *)
(***************************************************************************)
Append1(s, item, deleted) == IF deleted THEN s ELSE [s EXCEPT !.p.store.wall = Append(@, item)]
LoadXml(s, f, inThread) ==
  LET w == s.w.files[f]
      item == FromFile(f, w)
  IN IF w.uri \in s.w.trashed \/ item.id \in s.p.hash THEN s
     ELSE LET t == [s EXCEPT !.p.hash = @ \cup {item.id}]
          IN IF inThread THEN [t EXCEPT !.p.queue = Append(@, [item |-> item, deleted |-> w.deleted])]
             ELSE Append1(t, item, w.deleted)

\* What the panel starts from: the configured item, named as the saved one if they match.
LoadCurrentBg(w) ==
  LET saved == XmlGetItem(w)
      configured == [NewItem(NoItem, w.set.uri) EXCEPT
                       !.name = "Current background", !.place = w.set.place, !.shade = w.set.shade,
                       !.pc = w.set.pc, !.sc = w.set.sc]
  IN IF ~Compare(saved, configured) THEN configured
     ELSE [configured EXCEPT !.name = saved.name, !.url = saved.url,
                             !.flags = saved.flags \ (IF saved.place = "none" THEN {"pc", "sc"} ELSE {})]
NewPanel(w) ==
  [combo |-> "wall", src |-> "wall", sel |-> NoItem, item |-> NewItem(NoItem, NoUri), remove |-> FALSE,
   store |-> [wall |-> <<>>, pics |-> <<>>, cols |-> ColorItems], known |-> {}, waiting |-> 0,
   hash |-> {}, queue |-> <<>>, cur |-> LoadCurrentBg(w), spinner |-> NoItem, style |-> None, next |-> 1,
   edit |-> [sc |-> TRUE, pc |-> TRUE, style |-> TRUE], broken |-> FALSE]
Opened(w) ==
  UpdatePreview(LoadXml([p |-> NewPanel(w), w |-> w,
                         c |-> <<[kind |-> "enum", id |-> NoItem, uri |-> NoUri],
                                 [kind |-> "thread", id |-> <<"thread", 1>>, uri |-> NoUri]>>], Files[1], FALSE))

Init ==
  \E set \in Starts :
     LET s == Opened([set |-> set, saved |-> NewItem(NoItem, NoUri), files |-> Wallpapers, cache |-> {},
                      trashed |-> {}, acts |-> 0, changes |-> 0])
     IN panel = s.p /\ calls = s.c /\ world = s.w

-----------------------------------------------------------------------------
(***************************************************************************)
(* What the user does.                                                     *)
(***************************************************************************)
State == [p |-> panel, c |-> calls, w |-> world]
Becomes(s) == panel' = s.p /\ calls' = s.c /\ world' = s.w
ByUser(s) == ~panel.broken /\ s.w.acts < MaxActions /\ Becomes([s EXCEPT !.w.acts = @ + 1])

SourceChosen(source) == source # panel.combo /\ ByUser(SourceChanged(State, source))
\* The cache directory can be made unless something is in its way.
ItemSelected(i, made) ==
  /\ i \in DOMAIN Shown(panel) /\ Shown(panel)[i].id # panel.sel
  /\ made \/ (world.cache = {} /\ world.changes < MaxChanges)
  /\ ByUser(SelectPath([State EXCEPT !.w.changes = IF made THEN @ ELSE @ + 1], Shown(panel)[i].id, made))
StyleChanged(place) ==
  /\ panel.edit.style /\ place # panel.style
  /\ ByUser(UpdatePreview([State EXCEPT !.p.style = place, !.p.cur.place = place, !.w.set.place = place]))
ColorChanged(f, c) ==
  /\ panel.edit[f] /\ c # panel.cur[f]
  /\ ByUser(UpdatePreview([State EXCEPT !.p.cur[f] = c, !.w.set[f] = c]))
SwapColorsClicked ==
  /\ panel.edit.pc /\ panel.edit.sc
  /\ LET pc == panel.cur.sc
         sc == panel.cur.pc
     IN ByUser(UpdatePreview([State EXCEPT !.p.cur.pc = pc, !.p.cur.sc = sc, !.w.set.pc = pc, !.w.set.sc = sc]))

\* One more handler waits for a row; a file that cannot be read takes them all away.
AddCustomWallpaper(s, uri, readable) ==
  IF ~readable THEN [s EXCEPT !.p.waiting = 0]
  ELSE [s EXCEPT !.p.waiting = @ + 1, !.p.next = @ + 1,
                 !.c = Append(@, [kind |-> "read", id |-> <<"pic", s.p.next>>, uri |-> uri])]
IsKnown(p, uri) == uri[2] \in p.known
DragUris(uri, readable) == ~IsKnown(panel, uri) /\ ByUser(AddCustomWallpaper(State, uri, readable))
\* Several files chosen at once are added one after another, known or not.
FilesChosen(uris, readable) ==
  ByUser(FoldLeft(LAMBDA s, uri : AddCustomWallpaper(s, uri, readable), State, uris))

\* The button may be used with nothing selected, and then the program stops.
RemoveButtonClicked ==
  /\ panel.remove
  /\ IF panel.sel = NoItem THEN ByUser([State EXCEPT !.p.broken = TRUE])
     ELSE LET uri == ItemAt(panel, panel.sel).uri
              pics == panel.store.pics
              same == {i \in DOMAIN pics : pics[i].uri = uri}
              k == CHOOSE i \in same : \A j \in same : i <= j
              left == IF same = {} THEN pics ELSE RemoveAt(pics, k)
              gone == same # {} /\ panel.combo = "pics" /\ pics[k].id = panel.sel
              s == [State EXCEPT !.p.store.pics = left, !.p.known = IF same = {} THEN @ ELSE @ \ {uri[2]},
                                 !.w.trashed = IF same = {} THEN @ ELSE @ \cup {uri},
                                 !.w.cache = @ \ {uri}, !.p.sel = IF gone THEN NoItem ELSE @]
              t == IF left = <<>> THEN SourceChanged(s, "wall") ELSE s
          IN ByUser(IF Shown(t.p) = <<>> THEN t ELSE SelectPath(t, Shown(t.p)[1].id, TRUE))

\* The panel is opened anew; copies go on, but find nothing to show them.
Reopened == world.acts > 0 /\ ByUser(Opened(world))

-----------------------------------------------------------------------------
(***************************************************************************)
(* Pictures and copies.                                                    *)
(***************************************************************************)
At(i) == i \in DOMAIN calls
Rest(i) == [State EXCEPT !.c = RemoveAt(@, i)]

\* The folder and the cache are listed; every picture in them is read.
FileInfoReady(i) ==
  /\ At(i) /\ calls[i].kind = "enum"
  /\ LET Read(s, uri) == [s EXCEPT !.p.next = @ + 1,
                                   !.c = Append(@, [kind |-> "read", id |-> <<"pic", s.p.next>>, uri |-> uri])]
     IN Becomes(FoldLeft(Read, Rest(i), SetToSeq(Folder \cup world.cache)))

Rank(uri) == CHOOSE k \in DOMAIN Ranked : Ranked[k] = uri[2]
\* A new row, in the order of names; the first one selects itself if somebody waits.
RowInserted(s, item) ==
  LET before == {i \in DOMAIN s.p.store.pics : Rank(s.p.store.pics[i].uri) < Rank(item.uri)}
      t == [s EXCEPT !.p.store.pics = InsertAt(@, Cardinality(before) + 1, item)]
  IN IF s.p.waiting = 0 THEN t
     ELSE SelectPath(SourceChanged([t EXCEPT !.p.waiting = 0], "pics"), item.id, TRUE)
PictureScaled(i) ==
  /\ At(i) /\ calls[i].kind = "read"
  /\ LET uri == calls[i].uri
         s == RowInserted(Rest(i), PictureItem(calls[i].id, uri))
         learnt == Remote(uri) \/ Cached(uri)
     IN Becomes(IF uri \in Screenshots THEN Rest(i)
                ELSE [s EXCEPT !.p.known = IF learnt THEN @ \cup {uri[2]} ELSE @])
PictureFailed(i) == At(i) /\ calls[i].kind = "read" /\ Becomes(Rest(i))

\* The copy that ends takes the spinner and the preview, even if it was cancelled for another.
CopyFinished(i) ==
  /\ At(i) /\ calls[i].kind = "copy"
  /\ Becomes(Save(Preview([Rest(i) EXCEPT !.p.spinner = NoItem], calls[i].item)))

-----------------------------------------------------------------------------
(***************************************************************************)
(* Wallpapers.                                                             *)
(***************************************************************************)
\* The thread reads file after file; its items are added one at a time when idle.
LoadList(i) ==
  /\ At(i) /\ calls[i].kind = "thread"
  /\ LET k == calls[i].id[2]
         s == IF k < Len(Files) THEN [State EXCEPT !.c[i].id[2] = k + 1] ELSE Rest(i)
     IN Becomes(LoadXml(s, Files[k], TRUE))
IdleEmit ==
  /\ panel.queue # <<>>
  /\ Becomes(Append1([State EXCEPT !.p.queue = Tail(@)], Head(panel.queue).item, Head(panel.queue).deleted))
FileChangedEvent(i) ==
  At(i) /\ calls[i].kind = "monitor" /\ Becomes(LoadXml(Rest(i), calls[i].id[2], FALSE))

\* A file changes; its directory is watched once the thread has read it.
FileWritten(f, w) ==
  /\ world.changes < MaxChanges /\ w # world.files[f]
  /\ Becomes([State EXCEPT !.w.files[f] = w, !.w.changes = @ + 1,
                           !.c = IF \E j \in DOMAIN calls : calls[j].kind = "thread" THEN @
                                 ELSE Append(@, [kind |-> "monitor", id |-> <<"monitor", f>>, uri |-> NoUri])])

Answers ==
  \/ \E i \in DOMAIN calls :
        FileInfoReady(i) \/ PictureScaled(i) \/ PictureFailed(i) \/ CopyFinished(i) \/ LoadList(i)
        \/ FileChangedEvent(i)
  \/ IdleEmit
UserActs ==
  \/ \E source \in Source : SourceChosen(source)
  \/ \E i \in 1..3, made \in BOOLEAN : ItemSelected(i, made)
  \/ \E place \in Styles : StyleChanged(place)
  \/ \E f \in {"pc", "sc"}, c \in PictureColors : ColorChanged(f, c)
  \/ SwapColorsClicked \/ RemoveButtonClicked \/ Reopened
  \/ \E uri \in Dragged, readable \in BOOLEAN : DragUris(uri, readable)
  \/ \E readable \in BOOLEAN : FilesChosen(SetToSeq(Dragged), readable)
Next ==
  \/ ~panel.broken /\ Answers
  \/ UserActs
  \/ \E c \in Changed : FileWritten(c[1], c[2])

-----------------------------------------------------------------------------
(***************************************************************************)
(* What the sources and the selection keep to.                             *)
(***************************************************************************)
\* Only copies the panel made in its cache are thrown away, never a picture of the user.
TrashesCopiesOnly == \A u \in world.trashed : Cached(u)
\* A selection belongs to the source that is chosen.
SelectionOfTheSource == panel.sel # NoItem => panel.src = panel.combo
\* A wallpaper is listed once, however its two readers interleave.
WallpapersListedOnce == \A i, j \in DOMAIN panel.store.wall : panel.store.wall[i].id = panel.store.wall[j].id => i = j
\* The button removes copies among the pictures.
RemovesCopiesOnly == panel.remove => (panel.src = "pics" /\ Cached(panel.item.uri))
\* The selected item is the background that is set.
SelectedIsSet == (panel.sel # NoItem /\ world.changes = 0) => ItemAt(panel, panel.sel).uri = world.set.uri
=============================================================================
