---------------------------- MODULE DesktopWindow ----------------------------
(***************************************************************************)
(* The desktop's window and tray icon (platform_app.cpp and                *)
(* platform_tray_menu.inc).  The icon belongs to the application: a window *)
(* is shown, hidden, or retired - destroyed, to be opened anew - and a     *)
(* task that runs four times a second publishes the menu and brings a      *)
(* retired window back when there is no icon to ask for it.  The desktop's *)
(* icon host comes and goes.  A menu's texts, marks and entries are a      *)
(* value of the models, its tree the number of its entries; a published    *)
(* icon is drawn while there is a host.                                    *)
(***************************************************************************)
EXTENDS Integers

CONSTANTS MaxFaults     \* windows that cannot be opened and icons that cannot be shown

VARIABLES
    host,           \* an icon host runs
    trayOn, light,  \* the settings: an icon, and retiring the window for it
    start,          \* the startup task: "open" the window, "decide" about it, or "done"
    value,          \* what the models would put into the menu
    ui,             \* the window and the icon, see UI
    composed,       \* the window's composition has given the menu of a window
    asking,         \* the dialog that confirms the end is open
    hiding,         \* a task that hides the window was launched
    installing,     \* an update of the application is being installed: its phase
    leaving,        \* exitRequested
    faults

vars == <<host, trayOn, light, start, value, ui, composed, asking, hiding, installing, leaving,
          faults>>

Values == {"one", "two", "more"}
Tree(v) == IF v = "more" THEN "other" ELSE "full"

UI == [window : {"none", "shown", "hidden"},
       retired : BOOLEAN,
       menu : {"none", "basic", "full", "other"},   \* the published menu's tree
       key : {"", "hidden"} \cup Values,            \* presentationKey: what it was built from
       tree : {"", "full", "other"},                \* menuStructureKey
       basic : BOOLEAN,                             \* basicTrayVisible
       failed : BOOLEAN]                            \* trayRefreshFailed

TypeOK ==
    /\ host \in BOOLEAN /\ trayOn \in BOOLEAN /\ light \in BOOLEAN
    /\ start \in {"open", "decide", "done"} /\ value \in Values /\ ui \in UI
    /\ composed \in BOOLEAN /\ asking \in BOOLEAN /\ hiding \in BOOLEAN
    /\ installing \in BOOLEAN /\ leaving \in BOOLEAN
    /\ faults \in 0 .. MaxFaults

\* InstallDesktopTrayRuntime: a start that is to be hidden decides once it knows the host.
Init ==
    /\ host \in BOOLEAN /\ trayOn \in BOOLEAN /\ light \in BOOLEAN
    /\ start \in IF trayOn THEN {"open", "decide"} ELSE {"open"}
    /\ value = "one"
    /\ ui = [window |-> "none", retired |-> TRUE, menu |-> "none", key |-> "", tree |-> "",
             basic |-> FALSE, failed |-> FALSE]
    /\ composed = FALSE /\ asking = FALSE /\ hiding = FALSE /\ installing = FALSE
    /\ leaving = FALSE /\ faults = 0

-----------------------------------------------------------------------------
\* DesktopTrayRuntime's methods, on the window and the icon. A new window's menu is built
\* anew.
ShowWindow(u, fails) ==
    IF leaving \/ installing THEN u
    ELSE IF u.window # "none" /\ ~u.retired THEN [u EXCEPT !.window = "shown"]
    ELSE IF fails THEN u
    ELSE [u EXCEPT !.window = "shown", !.retired = FALSE, !.key = ""]

HideTray(u) == [u EXCEPT !.menu = "none", !.key = "", !.tree = "", !.basic = FALSE]

Publish(u, menu, tree) == [u EXCEPT !.menu = menu, !.key = value, !.tree = tree, !.basic = menu = "basic"]

\* Mutant: the startup menu gives way to the full one at once.
SwapsNever(u) == composed /\ u.tree \notin {"", Tree(value)}

\* Whether the next refresh asks the host for anything, and what it leaves when that works:
\* a tree gives way to another only through an empty menu.
Swaps(u) == composed /\ (u.basic \/ u.tree \notin {"", Tree(value)})
Asks(u) == ~leaving /\ ~Swaps(u) /\ u.key # value
RefreshBasicTray(u) ==
    IF leaving THEN u
    ELSE IF u.key = value /\ ~(composed /\ u.basic) THEN u
    ELSE IF Swaps(u) THEN HideTray(u)
    ELSE IF composed THEN Publish(u, Tree(value), Tree(value))
    ELSE Publish(u, "basic", u.tree)

\* One tick of the task. Of a row of failed refreshes the first shows the window.
AfterTick(u, opens, shows) ==
    IF ~(trayOn /\ host) THEN [HideTray(u) EXCEPT !.failed = FALSE]
    ELSE IF Asks(u) /\ ~shows
    THEN [(IF u.failed THEN u ELSE ShowWindow(u, ~opens)) EXCEPT !.failed = TRUE]
    ELSE [RefreshBasicTray(u) EXCEPT !.failed = FALSE]

Fault(works) == IF works THEN 0 ELSE 1
Faults(opens, shows) ==
    /\ faults + Fault(opens) + Fault(shows) <= MaxFaults
    /\ faults' = faults + Fault(opens) + Fault(shows)

Tick(activated, opens, shows) ==
    LET woken == IF activated THEN ShowWindow(ui, ~opens) ELSE ui
        back == IF start # "decide" /\ woken.retired /\ ~(trayOn /\ host)
                THEN ShowWindow(woken, ~opens) ELSE woken IN
    /\ ~leaving
    /\ Faults(opens, shows)
    /\ ui' = AfterTick(back, opens, shows)
    /\ UNCHANGED <<host, trayOn, light, start, value, composed, asking, hiding, installing, leaving>>

\* The startup task opens the window, or for two seconds waits for a host to stay hidden.
Open(opens) ==
    /\ start = "open"
    /\ Faults(opens, TRUE)
    /\ start' = "done"
    /\ ui' = ShowWindow(ui, ~opens)
    /\ UNCHANGED <<host, trayOn, light, value, composed, asking, hiding, installing, leaving>>

Decide(opens, shows) ==
    /\ start = "decide"
    /\ Faults(opens, shows)
    /\ start' = "done"
    /\ ui' = IF ~host THEN ShowWindow(ui, ~opens)
             ELSE IF Asks(ui) /\ ~shows THEN ShowWindow([ui EXCEPT !.failed = TRUE], ~opens)
             ELSE RefreshBasicTray(ui)
    /\ UNCHANGED <<host, trayOn, light, value, composed, asking, hiding, installing, leaving>>

-----------------------------------------------------------------------------
\* DesktopApplicationEffects: a window composed while there is a host gives its menu, which
\* stays when the window is retired.
Compose ==
    /\ ui.window # "none" /\ host /\ ~composed
    /\ composed' = TRUE
    /\ UNCHANGED <<host, trayOn, light, start, value, ui, asking, hiding, installing, leaving, faults>>

\* OnCloseRequest. Without an icon to come back by the end must be confirmed.
Close ==
    /\ ui.window = "shown" /\ ~leaving
    /\ IF trayOn /\ host /\ ~ui.failed
       THEN /\ IF light THEN ui' = [ui EXCEPT !.window = "none", !.retired = TRUE] /\ asking' = FALSE
                        ELSE UNCHANGED <<ui, asking>>
            /\ hiding' = (hiding \/ ~light)
       ELSE asking' = TRUE /\ UNCHANGED <<ui, hiding>>
    /\ UNCHANGED <<host, trayOn, light, start, value, composed, installing, leaving, faults>>

HideWindow ==
    /\ hiding
    /\ hiding' = FALSE
    /\ ui' = IF ui.window = "shown" THEN [ui EXCEPT !.window = "hidden"] ELSE ui
    /\ UNCHANGED <<host, trayOn, light, start, value, composed, asking, installing, leaving, faults>>

\* Nobody ends an installation under way.
Leave ==
    /\ leaving' = TRUE /\ composed' = FALSE
    /\ ui' = [HideTray(ui) EXCEPT !.window = IF @ = "none" THEN "none" ELSE "hidden"]

RequestExit == ~leaving /\ ~installing /\ Leave

Answer(yes) ==
    /\ asking /\ ui.window = "shown"
    /\ asking' = FALSE
    /\ IF yes /\ ~leaving /\ ~installing THEN RequestExit ELSE UNCHANGED <<leaving, composed, ui>>
    /\ UNCHANGED <<host, trayOn, light, start, value, hiding, installing, faults>>

\* InstallUpdate, asked for in the window: it hides the window, and ends with the
\* application, or gives the window back.
InstallUpdate ==
    /\ ui.window = "shown" /\ ~leaving /\ ~installing
    /\ installing' = TRUE
    /\ ui' = [ui EXCEPT !.window = "hidden"]
    /\ UNCHANGED <<host, trayOn, light, start, value, composed, asking, hiding, leaving, faults>>

Installed ==
    /\ installing /\ ~leaving
    /\ Leave
    /\ UNCHANGED <<host, trayOn, light, start, value, asking, hiding, installing, faults>>

InstallFails ==
    /\ installing /\ ~leaving
    /\ installing' = FALSE
    /\ ui' = [ui EXCEPT !.window = "shown"]
    /\ UNCHANGED <<host, trayOn, light, start, value, composed, asking, hiding, leaving, faults>>

\* The menu's entries and the settings page.
Drawn == ui.menu # "none" /\ host

Chosen(opens) ==
    /\ Drawn /\ Faults(opens, TRUE)
    /\ ui' = ShowWindow(ui, ~opens)
    /\ UNCHANGED <<host, trayOn, light, start, value, composed, asking, hiding, installing, leaving>>

ChooseQuit ==
    /\ Drawn /\ RequestExit
    /\ UNCHANGED <<host, trayOn, light, start, value, asking, hiding, installing, faults>>

Settings ==
    /\ ui.window = "shown" \/ (Drawn /\ ~ui.basic)
    /\ light' \in BOOLEAN /\ trayOn' \in IF ui.window = "shown" THEN BOOLEAN ELSE {trayOn}
    /\ UNCHANGED <<host, start, value, ui, composed, asking, hiding, installing, leaving, faults>>

\* The desktop's host, and the models.
HostChange ==
    /\ host' = ~host
    /\ UNCHANGED <<trayOn, light, start, value, ui, composed, asking, hiding, installing, leaving, faults>>

ModelChange ==
    /\ value' \in Values
    /\ UNCHANGED <<host, trayOn, light, start, ui, composed, asking, hiding, installing, leaving, faults>>

Next ==
    \/ \E opens, shows \in BOOLEAN :
           \/ \E activated \in BOOLEAN : Tick(activated, opens, shows)
           \/ Open(opens) \/ Decide(opens, shows) \/ Chosen(opens)
    \/ Compose \/ Close \/ HideWindow \/ ChooseQuit \/ Settings \/ HostChange \/ ModelChange
    \/ \E yes \in BOOLEAN : Answer(yes)
    \/ InstallUpdate \/ Installed \/ InstallFails

Spec == Init /\ [][Next]_vars

-----------------------------------------------------------------------------
\* After a tick the desktop does not refuse the application can be reached again: there is a
\* window shown or a menu. What is left out is left out by the code: an installation under
\* way shows nothing, and of the windows that are only hidden, and not called for, those with
\* no icon host or no icon setting stay away.
TickBringsBack ==
    [][start = "done" /\ ~installing /\ ui.window # "shown" /\ ui.menu = "none" =>
           \A activated \in BOOLEAN :
               Tick(activated, TRUE, TRUE) =>
                   \/ ui'.window = "shown" \/ ui'.menu # "none"
                   \/ ui.window = "hidden" /\ ~activated /\ ~(trayOn /\ host)]_vars

\* A failed installation gives back the window it hid, whatever the icon and its host did
\* meanwhile, and until it ends nothing else does.
FailureGivesBack ==
    [][installing => IF ~installing' THEN ui'.window = "shown" ELSE ui'.window = "hidden"]_vars

\* A menu never turns into one of another tree: the host would keep entries of the old one
\* under the new one's numbers.
TreesDoNotSwap ==
    [][ui.menu # "none" /\ ui'.menu # "none" => ui'.menu = ui.menu]_vars

\* Whatever was under way when the end was requested, neither window nor icon appears again.
NothingAfterExit == leaving => ui.menu = "none" /\ ui.window # "shown"

\* Not so: a hidden window has an icon to come back by (platform_app.cpp:856). The host may
\* go away while the window is hidden, and only a retired window is brought back.
HiddenHasEntry == ui.window = "hidden" /\ ~installing /\ ~leaving => host
==============================================================================
