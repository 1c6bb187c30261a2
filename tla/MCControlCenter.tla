--------------------------- MODULE MCControlCenter ---------------------------
(***************************************************************************)
(* A small instance of the window and of each panel.                       *)
(***************************************************************************)
EXTENDS ControlCenter, TLC

AllPanels ==
  {"shell", "wireless", "network", "airplane", "bluetooth", "pairing", "display", "keyboard",
   "sources", "locale", "sharing", "options", "color", "unity", "backgrounds", "datetime", "locations", "fingerprint",
   "accounts", "power"}
Appearances == {"backgrounds"}
None == "none"

\* Two plug-ins with widgets in the header, a program, and a name nobody knows.
MCShell ==
  [Plugins |-> {"mouse", "network"}, Programs |-> {"program"}, Unknown |-> {"bogus"},
   Early |-> {"mouse"}, Late |-> {"network"},
   Menus |-> {{"mouse", "network", "program"}, {"mouse", "network"}},
   Matches |-> ("" :> {"mouse", "network", "program"} @@ "net" :> {"network"} @@ "ro" :> {"program"}),
   MaxActions |-> 6]
\* Two networks, the second with a login.
MCWireless ==
  [Aps |-> {"a1", "a3"}, SsidOf |-> [a1 |-> "home", a3 |-> "work"], Strength |-> [a1 |-> 1, a3 |-> 1],
   Secured |-> {"a3"}, Escaped |-> {}, MaxConnections |-> 2, MaxActions |-> 2, MaxChanges |-> 1]
\* One object of each kind.
MCNetwork ==
  [Wired |-> {"eth"}, Wifi |-> {"wlan"}, Modem |-> {"modem"}, Vpns |-> {"vpn"},
   Order |-> <<"eth", "wlan", "modem", "vpn", "proxy">>, MaxObjects |-> 7, MaxActions |-> 2, MaxChanges |-> 2]
MCAirplane == [Radios |-> {1, 2}, MaxActions |-> 2, MaxChanges |-> 2]
\* Two adapters, one with two devices.
MCBluetooth ==
  [Adapters |-> {"a", "b"}, Devices |-> {"d", "e"}, AdapterOf |-> [d |-> "a", e |-> "a"],
   SwitchOf |-> [a |-> 1, b |-> 2], MaxActions |-> 2, MaxChanges |-> 1]
\* A device that pairs the old way and one that does not, with a pin in the database.
MCPairing ==
  [Devices |-> {"d", "e"}, Legacy |-> {"d"}, KnownPin |-> [d |-> "unknown", e |-> "fixed"],
   MaxActions |-> 2, MaxAsks |-> 2]
\* A laptop with a monitor beside it that can be turned.
Mode(w, h) == [w |-> w, h |-> h]
MCDisplay ==
  [Order |-> <<"LVDS", "VGA">>,
   Modes |-> [LVDS |-> {Mode(1366, 768), Mode(1024, 768)},
              VGA |-> {Mode(1024, 768), Mode(800, 600), Mode(1280, 1024)}],
   Preferred |-> [LVDS |-> Mode(1366, 768), VGA |-> Mode(1280, 1024)],
   Turns |-> [LVDS |-> {"normal"}, VGA |-> {"normal", "left"}], Crtcs |-> 2,
   Moves |-> {<<-900, 700>>, <<-1300, 300>>, <<2000, 2000>>}, MaxActions |-> 2, MaxChanges |-> 2]
\* Two sections of the system, one with a read-only key, one of a window manager and that of the user.
MCKeyboard ==
  [Ranked |-> <<"Typing", "Windows", "Apps", "Custom">>, Hashed |-> <<"Windows", "Typing", "Apps", "Custom">>,
   Group |-> [Typing |-> 1, Windows |-> 1, Apps |-> 2, Custom |-> 3],
   Manager |-> [Typing |-> "any", Windows |-> "any", Apps |-> "wm1", Custom |-> "any"], Managers |-> {"wm1", "wm2"},
   Entries |-> [Typing |-> <<"t1">>, Windows |-> <<"t1", "w1">>, Apps |-> <<"a1">>, Custom |-> <<>>],
   Paths |-> <<"p0", "p1">>, Locked |-> {"w1"},
   Bound |-> [t1 |-> <<"k", "z">>, w1 |-> <<"w">>, a1 |-> <<>>, p0 |-> <<"m">>, p1 |-> <<"">>],
   Bindings |-> {"k", "w", "Alt_L", "a"}, Plain |-> {"a"}, Tap |-> "Alt_L", Whitelist |-> [lvl3 |-> {"l1", "l2"}, comp |-> {"c1"}],
   FirstXkb |-> {<<"l1", "l2">>}, Commands |-> {"", "c"}, MaxActions |-> 2, MaxChanges |-> 1]
\* Two layouts, an engine that IBus will list, and a source nobody knows.
MCSources ==
  [Layouts |-> {"us", "de"}, Engines |-> {"pinyin"}, Strange |-> {"old"}, Combos |-> {"p", "a"},
   Plain |-> {"a"}, Starts |-> {<<"us">>, <<"us", "pinyin", "de">>}, UseIBus |-> TRUE,
   MaxActions |-> 2, MaxChanges |-> 1]
\* German in two countries, one of them under two names, and English.
Name(lang, terr, codeset) == [lang |-> lang, terr |-> terr, codeset |-> codeset, mod |-> None]
German == Name("de", None, None)
English == Name("en", None, None)
Utf8Names ==
  {Name(t[1], t[2], c) : t \in {<<"de", "DE">>, <<"de", "AT">>, <<"en", "US">>}, c \in {"utf8", "UTF-8"}}
Installed == {Name("de", "DE", "utf8"), Name("de", "AT", None), Name("en", "US", "utf8"), Name("de", "AT", "utf8")}
MCLocale ==
  [Archive |-> <<Name("de", "DE", "utf8"), Name("de", "AT", None)>>,
   Directory |-> <<Name("en", "US", "utf8"), Name("de", "AT", "utf8")>>, Aliases |-> <<>>,
   Accepted |-> Utf8Names \cup {Name("de", "DE", "iso"), Name("de", "AT", None)}, Utf8 |-> Utf8Names,
   Translated |-> {English, German}, Displayable |-> {"de"}, KnownLanguages |-> {"de", "en"},
   KnownTerritories |-> {"DE", "AT"},
   Width |-> (None :> 0 @@ "utf8" :> 5 @@ "UTF-8" :> 6 @@ "iso" :> 4),
   Offered |-> {German}, English |-> English, EnglishUS |-> Name("en", "US", "UTF-8"),
   Converted |-> [n \in Installed \cup Utf8Names \cup {English, German} |->
                    IF n.lang = "de" THEN Name("de", "DE", "UTF-8") ELSE Name("en", "US", "UTF-8")],
   Inputs |-> {"", "us"}, FirstInputs |-> {"us"}, MaxActions |-> 2, MaxChanges |-> 1]
\* A service with folders, one with files, the screen; one network.
MCSharing ==
  [Services |-> {"media", "files", "screen"}, Starts |-> {{"media", "files"}},
   Networks |-> {"home"}, Folders |-> {"music"}, Names |-> {"host", "My Pc"},
   Static |-> ("host" :> "host" @@ "My Pc" :> "my-pc"),
   Special |-> <<<<"@MUSIC@", "music">>, <<"@VIDEOS@", "none">>>>, MaxActions |-> 2, MaxChanges |-> 1]
\* An option each way, and drivers that spell their manufacturer in several ways.
Driver(name, device, make, model) == [name |-> name, device |-> device, make |-> make, model |-> model]
MCOptions ==
  [IppOptions |-> {"sides"}, PpdOptions |-> {"Ink"}, ChoicesOf |-> [sides |-> <<"c1", "c2">>, Ink |-> <<"c1", "c2">>],
   Groups |-> [Ink |-> "InkType"], GroupTab |-> [InkType |-> "Color"], KeywordTab |-> [PageSize |-> "Page Setup"],
   Blacklist |-> {"PageSize"},
   Drivers |-> <<Driver("d1", "HP", None, "m"), Driver("d2", None, "Hewlett-Packard", "m"),
                 Driver("d3", None, "Foo", "m"), Driver("d4", None, "FOO", "m"), Driver("d5", None, "Foo", None)>>,
   Normal |-> ("HP" :> 3 @@ "Hewlett-Packard" :> 2 @@ "Foo" :> 1 @@ "FOO" :> 1),
   Known |-> [n \in {2, 3} |-> "Hewlett-Packard"], Manufacturers |-> {"HP", "Foo"},
   CommandLists |-> {<<"Clean", "PrintSelfTestPage">>},
   MaxActions |-> 2, MaxChanges |-> 1]
\* A display and a scanner the user may add, a profile of the screen and one that was measured.
MCColor ==
  [Devices |-> [lcd |-> [kind |-> "display", space |-> "rgb", virtual |-> FALSE, first |-> "edid"],
                scan |-> [kind |-> "scanner", space |-> "rgb", virtual |-> TRUE, first |-> "edid"]],
   Profiles |-> [q \in {"edid", "icc"} |->
                   [kind |-> "display", space |-> "rgb", source |-> IF q = "edid" THEN "edid" ELSE "calibrated",
                    access |-> TRUE, file |-> TRUE, vcgt |-> q = "icc", age |-> 20]],
   Titled |-> <<"edid", "icc">>, Named |-> (<<"scanner", "x">> :> "scan"), Threshold |-> 10,
   MaxActions |-> 2, MaxChanges |-> 1]
\* Settings with and without workspaces and hiding, and values no widget can show.
Running == "unity://running-apps"
MCUnity ==
  [Themes |-> {"Ambiance", "Radiance"},
   Starts |-> {[set |-> [q \in {"unity", "unity-lowgfx"} |->
                           [icon |-> 48, sens |-> 2000, hide |-> n - 1, reveal |-> 0, h |-> n, v |-> n]],
                fav |-> <<"files", Running, "trash">>] : n \in {1, 2}},
   Outside |-> {<<"icon", 47>>, <<"hide", 1>>, <<"hide", -1>>, <<"reveal", 2>>, <<"h", 4>>},
   Favorites |-> {<<"unity://desktop-icon", "files", Running, "trash">>, <<"files">>}, Icons |-> {33, 64},
   MaxActions |-> 2, MaxChanges |-> 1]
\* Two wallpaper files, a picture elsewhere and one that was taken of the screen.
Wallpaper(name, flags, uri) == [name |-> name, deleted |-> FALSE, flags |-> flags, place |-> "zoom", uri |-> uri]
MCBackgrounds ==
  [Ranked |-> <<"a", "b", "c", "d">>, Folder |-> {<<"file", "s">>}, Dragged |-> {<<"remote", "b">>},
   Screenshots |-> {<<"file", "s">>}, Files |-> <<"f1", "f2">>,
   Changed |-> {<<"f2", Wallpaper("Two", {"uri"}, <<"file", "w3">>)>>},
   Wallpapers |-> [f1 |-> Wallpaper("Adwaita", {"uri", "place", "shade", "pc", "sc"}, <<"file", "w1">>),
                   f2 |-> Wallpaper("Two", {"uri"}, <<"file", "w2">>)],
   Starts |-> {[uri |-> <<"file", "w1">>, place |-> "zoom", shade |-> "vertical", pc |-> "black", sc |-> "white"]},
   PictureColors |-> {"red"}, MaxActions |-> 2, MaxChanges |-> 1]

\* Two zones, and a city found in one of them.
MCDateTime ==
  [Hours |-> {0, 12}, Days |-> {"1 Feb", "31 Feb"}, Starts |-> {<<TRUE, TRUE>>, <<FALSE, FALSE>>},
   Home |-> "utc", NameOf |-> [utc |-> "UTC", berlin |-> "Berlin"],
   Found |-> [Be |-> {<<"Bern", "berlin">>}, Berlin |-> {<<"Berlin", "berlin">>}],
   Written |-> {"24-hour", "custom"}, MaxActions |-> 2, MaxChanges |-> 1]
\* Two locations out of order, one without a name, and a city to choose.
MCLocations ==
  [NameOf |-> [utc |-> "UTC", berlin |-> "Berlin"], Cities |-> {<<"Bern", "berlin">>}, Texts |-> {"x"},
   Collate |-> ("UTC" :> 3 @@ "Berlin" :> 1 @@ "Bern" :> 2 @@ "x" :> 4 @@ "" :> 0),
   Offset |-> [utc |-> 0, berlin |-> 1], Starts |-> {<<>>, <<<<"utc", "">>, <<"berlin", "Bern">>>>},
   MaxRows |-> 3, MaxActions |-> 4, MaxChanges |-> 1]
\* Two fingers, each scanned twice.
MCFingerprint ==
  [Fingers |-> {"right", "left"}, First |-> "right", Stages |-> 2, MaxActions |-> 5, MaxChanges |-> 2]
\* Two accounts, of which one may come later.
MCAccounts ==
  [Accounts |-> {"a", "b"}, Starts |-> {{"a"}, {"a", "b"}}, MaxActions |-> 6, MaxChanges |-> 1]
\* Two batteries, a UPS that discharges or not, and mice; a setting that no row tells.
Powered(kind, state, low) == [kind |-> kind, state |-> state, low |-> low, timed |-> state # "full"]
Laptop ==
  <<Powered("line", "charging", FALSE), Powered("battery", "discharging", TRUE), Powered("battery", "full", FALSE),
    Powered("mouse", "discharging", TRUE)>>
Outage ==
  <<Powered("mouse", "discharging", FALSE), Powered("ups", "discharging", FALSE), Powered("battery", "charging", FALSE),
    Powered("mouse", "charging", FALSE)>>
Desktop == <<Powered("ups", "charging", FALSE), Powered("battery", "discharging", FALSE), Powered("battery", "empty", FALSE)>>
MCPower ==
  [Lists |-> {Laptop, Outage, Desktop}, Followed |-> {"indicator"}, Outside |-> {"hibernate"},
   Combos |-> [lid |-> [rows |-> {"suspend", "nothing"}, suspends |-> {"suspend"}, battery |-> TRUE, lid |-> TRUE],
               indicator |-> [rows |-> {"present", "never"}, suspends |-> {}, battery |-> FALSE, lid |-> FALSE]],
   Starts |-> {[devices |-> d, lid |-> d # Outage, suspends |-> d = Laptop,
                set |-> [lid |-> IF d = Desktop THEN "hibernate" ELSE "suspend", indicator |-> "present"]] :
                  d \in {Laptop, Outage, Desktop}},
   MaxActions |-> 2, MaxChanges |-> 2]

MCConfig ==
  [shell |-> MCShell, wireless |-> MCWireless, network |-> MCNetwork, airplane |-> MCAirplane, bluetooth |-> MCBluetooth,
   pairing |-> MCPairing, display |-> MCDisplay, keyboard |-> MCKeyboard, sources |-> MCSources,
   locale |-> MCLocale, sharing |-> MCSharing, options |-> MCOptions, color |-> MCColor,
   unity |-> MCUnity, backgrounds |-> MCBackgrounds, datetime |-> MCDateTime,
   locations |-> MCLocations, fingerprint |-> MCFingerprint, accounts |-> MCAccounts, power |-> MCPower]
\* A picture is added, another source chosen, and the picture removed.
MCRemoving == [MCConfig EXCEPT !.backgrounds.MaxActions = 3]
=============================================================================
