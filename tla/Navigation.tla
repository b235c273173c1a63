------------------------------ MODULE Navigation ------------------------------
(***************************************************************************)
(* Getting about: the routes, the layout with its drawer and its rail      *)
(* (components/AppLayout.tsx), and the navigation panel with its sections  *)
(* and its search (components/SideNav.tsx).                                *)
(*                                                                         *)
(* A step is an event with the rendering and the effects it causes.  A     *)
(* search term is what it matches, sections by their name and pages by     *)
(* theirs.                                                                 *)
(***************************************************************************)
EXTENDS Naturals, FiniteSets

CONSTANTS Sections, Pages,  \* NAV_GROUPS: its sections, and the pages they hold
          SectionOf,        \* the section of a page
          AdminPages,       \* adminOnly
          Terms,            \* what is typed into the search
          FoundBy,          \* what a term matches
          MaxVisits         \* bound: how often another page is opened

NavigationAssumption ==
    /\ SectionOf \in [Pages -> Sections] /\ AdminPages \subseteq Pages
    /\ FoundBy \in [Terms -> SUBSET (Sections \cup Pages)]
ASSUME NavigationAssumption

VARIABLES signedIn,     \* who is signed in, by role
          path, from,   \* the page that is open, and the one to come back to after signing in
          compact, drawerOpen,          \* the width of the window, and the sheet of a narrow one
          collapsed, remembered,        \* the rail, and what the browser remembers of it
          panel,        \* the panel's own state
          focused,      \* the section that was given the keyboard
          visits,       \* how often another page was opened
          undisturbed,  \* nothing was closed or typed since the page was opened
          typed         \* no section was closed since the last key

navVars == <<signedIn, path, from, compact, drawerOpen, collapsed, remembered, panel, focused, visits,
             undisturbed, typed>>

Nobody == "nobody"
NoTerm == "no term"
Spaces == "blank"
NoSection == "no section"
HomePage == CHOOSE p \in Pages \ AdminPages : TRUE  \* the dashboard: the index route leads to it

\* visibleGroupsFor, groupContaining
VisiblePages == {p \in Pages : p \notin AdminPages \/ signedIn = "ADMIN"}
Groups == {SectionOf[p] : p \in VisiblePages}
GroupContaining(page) == IF page \in VisiblePages THEN {SectionOf[page]} ELSE {}

FreshPanel == [closed |-> {}, searchClosed |-> {}, term |-> NoTerm]

-----------------------------------------------------------------------------
(* What the panel renders. *)

\* The drawer holds a panel of its own, that is never a rail and is gone when it closes.
IsMounted == signedIn # Nobody /\ (~compact \/ drawerOpen)
IsRail == ~compact /\ collapsed
IsUnfolded == IsMounted /\ ~IsRail
EffectiveTerm == IF IsRail THEN NoTerm ELSE panel.term
Searching == EffectiveTerm \notin {NoTerm, Spaces}

\* filterGroups: a section whose own name matches is shown whole.
ShownItems(section) ==
    {p \in VisiblePages : SectionOf[p] = section /\
        (Searching => section \in FoundBy[EffectiveTerm] \/ p \in FoundBy[EffectiveTerm])}
ShownGroups == {s \in Groups : ShownItems(s) # {}}
IsExpanded(section) == section \notin (IF Searching THEN panel.searchClosed ELSE panel.closed)
RowsShown == UNION {ShownItems(s) : s \in {g \in ShownGroups : IsExpanded(g)}}

-----------------------------------------------------------------------------
(* The panel's effects. *)

ClearSearch(p) == [p EXCEPT !.term = NoTerm, !.searchClosed = {}]
\* The section of the page that is opened, in both sets.
OpenCurrent(p, page) ==
    [p EXCEPT !.closed = @ \ GroupContaining(page), !.searchClosed = @ \ GroupContaining(page)]

\* A page that is not the one before; the panel's effects follow.
OpenPage(page) ==
    /\ visits < MaxVisits /\ page # path
    /\ path' = page /\ visits' = visits + 1 /\ undisturbed' = TRUE
    /\ UNCHANGED <<signedIn, from, compact, collapsed, remembered, focused>>

\* A row of the panel, or of the drawer, which closes: SideNav's onNavigate.
FollowRow(page) ==
    /\ IsUnfolded /\ page \in RowsShown /\ OpenPage(page) /\ typed' = FALSE
    /\ drawerOpen' = FALSE
    /\ panel' = IF compact THEN FreshPanel ELSE OpenCurrent(ClearSearch(panel), page)

\* The browser's own buttons, a typed address, a link inside a page.
ComeOtherwise(page) ==
    /\ signedIn # Nobody /\ OpenPage(page) /\ typed' = FALSE
    /\ panel' = IF IsMounted THEN OpenCurrent(ClearSearch(panel), page) ELSE panel
    /\ UNCHANGED drawerOpen

-----------------------------------------------------------------------------
(* The panel's own actions. *)

Stays == UNCHANGED <<signedIn, path, from, compact, drawerOpen, visits>>

Flip(set, s) == IF s \in set THEN set \ {s} ELSE set \cup {s}
\* toggleSection: in the set that is in force.
Toggled(p, s) ==
    IF Searching THEN [p EXCEPT !.searchClosed = Flip(@, s)] ELSE [p EXCEPT !.closed = Flip(@, s)]

ToggleSection(s) ==
    /\ IsUnfolded /\ s \in ShownGroups /\ panel' = Toggled(panel, s)
    /\ undisturbed' = FALSE /\ typed' = FALSE
    /\ Stays /\ UNCHANGED <<collapsed, remembered, focused>>

WithTerm(p, term) == [p EXCEPT !.term = term, !.searchClosed = {}]
\* changeSearch: every key begins anew what is closed; the clear button is one more change.
ChangeSearch(term) ==
    /\ IsUnfolded /\ term # panel.term /\ panel' = WithTerm(panel, term)
    /\ undisturbed' = (undisturbed /\ term \in {NoTerm, Spaces} /\ panel.term \in {NoTerm, Spaces}) /\ typed' = TRUE
    /\ Stays /\ UNCHANGED <<collapsed, remembered, focused>>

\* The browser may refuse to remember it.
SetCollapsed(value) ==
    /\ collapsed' = value /\ remembered' \in {value, remembered}
ToggleCollapsed ==
    /\ IsMounted /\ ~compact /\ SetCollapsed(~collapsed)
    /\ panel' = (IF collapsed THEN panel ELSE ClearSearch(panel))
    /\ Stays /\ UNCHANGED <<focused, undisturbed>> /\ typed' = FALSE

\* An icon of the rail: the panel opens at its section, that is opened and focused.
OpenFromRail(s) ==
    /\ IsMounted /\ IsRail /\ s \in ShownGroups /\ SetCollapsed(FALSE) /\ focused' = s
    /\ panel' = IF IsExpanded(s) THEN panel ELSE Toggled(panel, s)
    /\ Stays /\ UNCHANGED <<undisturbed, typed>>

-----------------------------------------------------------------------------
(* The layout. *)

OpenDrawer ==
    /\ signedIn # Nobody /\ compact /\ ~drawerOpen /\ drawerOpen' = TRUE
    /\ panel' = OpenCurrent(FreshPanel, path) /\ undisturbed' = TRUE
    /\ UNCHANGED <<signedIn, path, from, compact, collapsed, remembered, focused, visits, typed>>
CloseDrawer ==
    /\ drawerOpen /\ drawerOpen' = FALSE /\ panel' = FreshPanel
    /\ UNCHANGED <<signedIn, path, from, compact, collapsed, remembered, focused, visits, undisturbed>>
    /\ typed' = FALSE
DrawerAfterResize == IF compact THEN FALSE ELSE drawerOpen
\* The two mountings are exclusive; leaving the narrow width closes the drawer.
Resize ==
    /\ compact' = ~compact /\ drawerOpen' = DrawerAfterResize
    /\ panel' = OpenCurrent(FreshPanel, path) /\ undisturbed' = TRUE /\ typed' = FALSE
    /\ UNCHANGED <<signedIn, path, from, collapsed, remembered, focused, visits>>

\* The layout is gone with the session, and comes back with what the browser remembers.
Mount == collapsed' = remembered /\ drawerOpen' = FALSE /\ panel' = FreshPanel /\ undisturbed' = TRUE
         /\ typed' = FALSE /\ focused' = NoSection
\* PrivateRoute: a session that ends leads to /login and back; a sign-out may not lead back.
SessionEnds ==
    /\ signedIn # Nobody /\ signedIn' = Nobody /\ from' \in {path, HomePage}
    /\ Mount /\ UNCHANGED <<path, compact, remembered, visits>>
\* LoginPage's redirectTo
SignsIn(role) ==
    /\ signedIn = Nobody /\ signedIn' = role /\ path' = from /\ from' = HomePage
    /\ Mount /\ UNCHANGED <<compact, remembered, visits>>
Reload ==
    /\ signedIn # Nobody /\ Mount
    /\ UNCHANGED <<signedIn, path, from, compact, remembered, visits>>

NavigationInit ==
    /\ signedIn = Nobody /\ path = HomePage /\ from \in Pages /\ compact \in BOOLEAN /\ drawerOpen = FALSE
    /\ remembered \in BOOLEAN /\ collapsed = remembered /\ panel = FreshPanel
    /\ focused = NoSection /\ visits = 0 /\ undisturbed = TRUE /\ typed = FALSE

NavigationNext ==
    \/ \E p \in Pages : FollowRow(p) \/ ComeOtherwise(p)
    \/ \E s \in Sections : ToggleSection(s) \/ OpenFromRail(s)
    \/ \E t \in Terms \cup {NoTerm, Spaces} : ChangeSearch(t)
    \/ ToggleCollapsed \/ OpenDrawer \/ CloseDrawer \/ Resize
    \/ SessionEnds \/ (\E role \in {"ADMIN", "USER"} : SignsIn(role)) \/ Reload

NavigationSpec == NavigationInit /\ [][NavigationNext]_navVars

-----------------------------------------------------------------------------
(* Properties *)

\* The variables keep their types.
NavigationTypeOK ==
    /\ signedIn \in {Nobody, "ADMIN", "USER"} /\ path \in Pages /\ from \in Pages
    /\ compact \in BOOLEAN /\ drawerOpen \in BOOLEAN /\ collapsed \in BOOLEAN /\ remembered \in BOOLEAN
    /\ panel \in [closed : SUBSET Sections, searchClosed : SUBSET Sections,
                  term : Terms \cup {NoTerm, Spaces}]
    /\ focused \in Sections \cup {NoSection} /\ visits \in 0..MaxVisits
    /\ undisturbed \in BOOLEAN /\ typed \in BOOLEAN

\* However one came to a page, by whatever was closed, searched for or collapsed before:
\* the open panel shows its row until one closes a section or types.
CurrentIsShown == undisturbed /\ IsUnfolded /\ path \in VisiblePages => path \in RowsShown

\* No result is hidden in a section that was closed for an earlier search.
MatchesAreShown ==
    typed /\ Searching => \A p \in VisiblePages : p \in FoundBy[EffectiveTerm] => p \in RowsShown

\* A rail is not filtered, and a sheet is over the page only of a narrow window.
NothingIsLost == (IsRail => ShownGroups = Groups) /\ (drawerOpen => compact)

NavigationExact == CurrentIsShown /\ MatchesAreShown /\ NothingIsLost

\* A header that is clicked changes its own section and no other; a search that ends with
\* its page still open leaves closed what was closed before it; and an icon of the rail
\* leads to its section open.
HeadersTrue ==
    /\ \A s \in Sections : ToggleSection(s) =>
        \A g \in ShownGroups : IsExpanded(g)' = (IF g = s THEN ~IsExpanded(g) ELSE IsExpanded(g))
    /\ Searching /\ path' = path /\ IsMounted' /\ compact' = compact /\ ~Reload =>
        panel'.closed = panel.closed
    /\ focused' # focused /\ focused' # NoSection => IsUnfolded' /\ IsExpanded(focused)'
HeadersAreTrue == [][HeadersTrue]_navVars
-----------------------------------------------------------------------------
(* What the proofs rest on *)

\* A panel that is not there is a new one; one that is there has its page's section open,
\* unless it was disturbed, and is not filtered while it is a rail.
Panel == [closed : SUBSET Sections, searchClosed : SUBSET Sections, term : Terms \cup {NoTerm, Spaces}]
PanelOK ==
    /\ panel \in Panel
    /\ ~IsMounted => panel.closed = {} /\ panel.searchClosed = {} /\ panel.term = NoTerm
    /\ undisturbed => panel.term \in {NoTerm, Spaces} /\ GroupContaining(path) \cap panel.closed = {}
    /\ IsRail => panel.term = NoTerm
    /\ typed => panel.searchClosed = {}

NavigationInv ==
    /\ compact \in BOOLEAN /\ collapsed \in BOOLEAN /\ remembered \in BOOLEAN /\ drawerOpen \in BOOLEAN
    /\ drawerOpen => compact
    /\ PanelOK
==============================================================================
