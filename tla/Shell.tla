-------------------------------- MODULE Shell --------------------------------
(* The frame around the console's pages: the side bar with its entries, the    *)
(* menu of the header and the command palette, which a key, the header's       *)
(* search button and the palette itself open and close.  One tab.  Signing out *)
(* unmounts it, signing in mounts another.                                     *)
EXTENDS Naturals, SequencesExt, FiniteSetsExt

CONSTANTS NavItems,   \* the entries' paths, each a sequence of segments
          Paths,      \* the console's pages
          Strict      \* a development build, which runs a mount's effects twice

\* NAV_ITEMS (lib/constants.ts) are sections of one segment; every page lies in one.
ASSUME ShellAssumption ==
    /\ NavItems \subseteq Paths /\ Paths \subseteq Seq(STRING) /\ Strict \in BOOLEAN
    /\ \A item \in NavItems : Len(item) = 1
    /\ \A path \in Paths : path # <<>> /\ <<path[1]>> \in NavItems

VARIABLES pathname,       \* the page, <<>> where the shell is not mounted
          effects,        \* the mount effects have run
          hears,          \* handlers of the palette on the document: of the key, of the bus
          palette, menu,  \* they are open
          collapsed, storedCollapse, \* the side bar's state, and its entry in localStorage
          chosen          \* what the user last made of the side bar

shellVars == <<pathname, effects, hears, palette, menu, collapsed, storedCollapse, chosen>>
chrome == <<palette, menu>>
bar == <<collapsed, storedCollapse, chosen>>

NoShell == <<>>

\* The entry of a page is the one whose path begins the page's.
ActiveExactly(item) == pathname = item
Active(item) == IsPrefix(item, pathname)

ShellInit ==
    /\ pathname \in Paths /\ effects = FALSE /\ hears = 0
    /\ palette = FALSE /\ menu = FALSE
    /\ collapsed = FALSE /\ storedCollapse \in BOOLEAN /\ chosen = storedCollapse

\* The effects of a mount; Strict runs them, their cleanup, and them again.
SubscribeLeaking(n) == n + (IF Strict THEN 2 ELSE 1)
Subscribe(n) == n + 1

RunEffects ==
    /\ pathname # NoShell /\ ~effects /\ effects' = TRUE
    /\ hears' = Subscribe(hears)
    /\ collapsed' = storedCollapse
    /\ UNCHANGED <<pathname, chrome, storedCollapse, chosen>>

\* The effects run before an event is handled.
Listening == pathname # NoShell /\ effects

\* Each handler of the key flips the palette.
PressKey ==
    /\ Listening
    /\ palette' = (palette # (hears % 2 = 1))
    /\ UNCHANGED <<pathname, effects, hears, menu, bar>>

\* The header's button; an open palette covers it, but holds no focus.
ClickSearch ==
    /\ Listening /\ hears > 0 /\ palette' = TRUE
    /\ UNCHANGED <<pathname, effects, hears, menu, bar>>

\* The backdrop, or an external link, which opens in another tab.
ClosePalette ==
    /\ palette /\ palette' = FALSE
    /\ UNCHANGED <<pathname, effects, hears, menu, bar>>

SelectEntry(item) ==
    /\ palette /\ palette' = FALSE /\ pathname' = item
    /\ UNCHANGED <<effects, hears, menu, bar>>

\* A link of a page or of the side bar, the browser's buttons: the shell stays.
GoTo(path) ==
    /\ Listening /\ pathname' = path
    /\ UNCHANGED <<effects, hears, chrome, bar>>

ToggleUnstored ==
    /\ Listening
    /\ collapsed' = ~collapsed /\ chosen' = collapsed'
    /\ UNCHANGED <<pathname, effects, hears, chrome, storedCollapse>>
Toggle ==
    /\ Listening
    /\ collapsed' = ~collapsed /\ storedCollapse' = collapsed' /\ chosen' = collapsed'
    /\ UNCHANGED <<pathname, effects, hears, chrome>>

ClickMenu ==
    /\ Listening /\ menu' = ~menu
    /\ UNCHANGED <<pathname, effects, hears, palette, bar>>

\* The router reaches the sign-in page, or leaves it for the console.
LeaveShell ==
    /\ Listening /\ pathname' = NoShell /\ effects' = FALSE /\ hears' = hears - 1
    /\ palette' = FALSE /\ menu' = FALSE /\ collapsed' = FALSE
    /\ UNCHANGED <<storedCollapse, chosen>>

EnterShell ==
    /\ pathname = NoShell /\ pathname' \in Paths
    /\ UNCHANGED <<effects, hears, chrome, bar>>

ShellNext ==
    \/ RunEffects \/ PressKey \/ ClickSearch \/ ClosePalette \/ Toggle \/ ClickMenu
    \/ LeaveShell \/ EnterShell
    \/ \E item \in NavItems : SelectEntry(item)
    \/ \E path \in Paths : GoTo(path)

(* The key is heard once, however often the shell was mounted and its effects  *)
(* run: a second handler would undo what the first did.  Without the shell it  *)
(* is not heard.                                                               *)
KeyHeardOnce == hears = IF Listening THEN 1 ELSE 0

(* The side bar comes back the way the user left it, "which reset on every     *)
(* navigation that remounted the shell" (Sidebar.tsx:18).                      *)
SidebarKept == Listening => collapsed = chosen

(* Every page of the console has one entry shown as the active one.            *)
OneEntryActive == pathname # NoShell => Cardinality({item \in NavItems : Active(item)}) = 1
=============================================================================
