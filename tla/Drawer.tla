------------------------------- MODULE Drawer -------------------------------
(***************************************************************************)
(* Where the keyboard focus of the page is, and which part of the page is  *)
(* out of reach: the drawer of web/src/ui/app.ts, its navigation, and the  *)
(* focus that every redraw destroys and puts back.                         *)
(*                                                                         *)
(* On a narrow window the sidebar is a drawer.  The window may change its  *)
(* width at any time: the style follows at once, the callback of the media *)
(* query later, and in between the browser may already take the focus away *)
(* from an element it has hidden.                                          *)
(***************************************************************************)
EXTENDS Integers, Sequences, SequencesExt

CONSTANTS
  Listed,      \* the providers, in the order a snapshot lists them
  Overview,    \* the page without a fragment
  Gone,        \* a page no provider has: a fragment someone typed or kept
  Malformed    \* a fragment decodeURIComponent rejects

Provider == ToSet(Listed)
Pages    == Provider \cup {Overview, Gone}

ASSUME DrawerAssumption ==
  /\ Listed \in Seq(Provider) /\ IsInjective(Listed)
  /\ {Overview, Gone, Malformed} \cap Provider = {}
  /\ Overview # Gone /\ Malformed \notin {Overview, Gone}

VARIABLES
  narrow,     \* DRAWER_QUERY.matches
  told,       \* what its change event last reported
  doc,        \* the drawer, what is inert, ctx.selected, the providers drawn, busy
  ranks,      \* ctx.providerOrder
  focus,      \* document.activeElement
  held,       \* the reader put the focus somewhere, and nothing excused moved it
  hash,       \* location.hash
  hashDue,    \* a hashchange event is queued
  begun       \* the script ran to its end: the fragment it started with is sound

drawerVars == <<narrow, told, doc, ranks, focus, held, hash, hashDue, begun>>

Body == <<"body", Overview>>
Nav(p) == <<"nav", p>>
Toggle == <<"toggle", Overview>>
Close  == <<"close", Overview>>
Title  == <<"title", Overview>>
RefreshButton == <<"refresh", Overview>>

\* "skip", "refresh", "period", "search" and "editor" are in the markup, and no
\* redraw replaces them; "plain" is content without a key.
InSidebar == {"close", "nav", "editor", "up", "down"}
Elements ==
  {Body, Toggle, Close, Title, Nav(Overview)}
    \cup ({"skip", "refresh", "period", "search", "editor", "plain"} \X {Overview})
    \cup ({"nav", "up", "down", "keyed", "summary"} \X Provider)

(***************************************************************************)
(* What the document and its style let the keyboard reach.                 *)
(***************************************************************************)
Entries(d) == {Overview} \cup ToSet(d.order)

\* An order button at either end of the list is disabled.
Movable(way, p, d) ==
  /\ p \in ToSet(d.order)
  /\ p # IF way = "up" THEN Head(d.order) ELSE Last(d.order)

Displayed(el, d) ==
  /\ el[1] = "toggle"              => narrow
  /\ el[1] = "close"               => narrow
  /\ el[1] \in InSidebar /\ narrow  => d.open
  /\ el[1] = "nav"                 => el[2] \in Entries(d)
  /\ el[1] \in {"up", "down"}      => Movable(el[1], el[2], d)
  /\ el[1] \in {"keyed", "summary"} => el[2] \in ToSet(d.order)
  /\ el[1] = "keyed"               => d.page \in {Overview, el[2]}
  /\ el[1] = "summary"             => d.page = el[2]
  /\ el[1] = "search"              => d.page # Overview
  /\ el[1] = "period"              => d.page = Overview
  /\ el[1] = "refresh"             => ~d.busy

Inert(el, d) == IF el[1] \in InSidebar THEN d.side ELSE d.back
Focusable(el, d) == el # Body /\ Displayed(el, d) /\ ~Inert(el, d)

\* el.focus(): nothing happens when el cannot take the focus.
Focused(el, d, else) == IF Focusable(el, d) THEN el ELSE else
FocusEntry(d, else)  == Focused(Nav(d.page), d, else)

(***************************************************************************)
(* setDrawer, and where it puts the focus.                                 *)
(***************************************************************************)
SetDrawer_LeavesBackground(d, wanted) ==
  LET open == wanted /\ narrow
  IN  [d EXCEPT !.open = open, !.side = narrow /\ ~open, !.back = d.back \/ open]
SetDrawer(d, wanted) ==
  LET open == wanted /\ narrow
  IN  [d EXCEPT !.open = open, !.side = narrow /\ ~open, !.back = open]

Toggled(d, to) ==
  IF to.open = d.open THEN focus ELSE Focused(IF to.open THEN Close ELSE Toggle, to, focus)

(***************************************************************************)
(* render: what was drawn goes, and the focus with it, unless the redraw   *)
(* finds the element again by its provider, its disclosure or its key.     *)
(***************************************************************************)
Found == {"nav", "keyed", "summary"}
Redrawn == Found \cup {"up", "down", "plain"}

\* The first of the entry and the title that is not inert takes the focus.
Fallback(d) ==
  IF d.page \in Entries(d) /\ ~d.side THEN FocusEntry(d, Body) ELSE Focused(Title, d, Body)

Refocused_NoFallback(d) ==
  IF focus[1] \in Redrawn \ {"plain"} THEN Focused(focus, d, Body)
  ELSE IF focus[1] = "plain" THEN Body ELSE focus
Refocused(d) ==
  IF focus[1] \in Found THEN Focused(focus, d, Fallback(d))
  ELSE IF focus[1] \in {"up", "down"} THEN Focused(focus, d, Body)
  ELSE IF focus[1] = "plain" THEN Body
  ELSE focus

\* What the redraw does not keep: content without a key, an order button that is
\* gone or now disabled, the search box and the periods of a page that has none;
\* and what it cannot: an open drawer without an entry for the page, a width not
\* yet reported, a script that was cut short.
Excused(d) ==
  \/ focus[1] = "plain"
  \/ focus[1] \in {"up", "down", "search", "period"} /\ ~Focusable(focus, d)
  \/ d.page \notin Entries(d) /\ d.back
  \/ told # narrow \/ ~begun

RenderPage(d) ==
  /\ doc' = d
  /\ focus' = Refocused(d)
  /\ held' = (held /\ ~Excused(d))

\* orderedProviders: the ranked ones first, the others as the snapshot has them.
Place(p) ==
  IF p \in ToSet(ranks) THEN CHOOSE i \in DOMAIN ranks : ranks[i] = p
  ELSE Len(ranks) + CHOOSE i \in DOMAIN Listed : Listed[i] = p
Sorted(present) ==
  {s \in [1 .. Cardinality(present) -> present] :
     \A i, j \in DOMAIN s : i < j => Place(s[i]) < Place(s[j])}

DrawerInit ==
  /\ narrow \in BOOLEAN /\ told = narrow
  /\ hash \in Pages \cup {Malformed} /\ begun = (hash # Malformed)
  /\ ranks = << >>
  /\ doc = [open |-> FALSE, side |-> narrow /\ begun, back |-> FALSE, order |-> Listed,
            page |-> IF begun THEN hash ELSE Overview, busy |-> FALSE]
  /\ focus = Body /\ held = FALSE /\ hashDue = FALSE

(***************************************************************************)
(* The reader.                                                             *)
(***************************************************************************)
Settled == focus = Body \/ Focusable(focus, doc)

Tab(el) ==
  /\ Settled
  /\ el = Body \/ Focusable(el, doc)
  /\ focus' = el /\ held' = (el # Body)
  /\ UNCHANGED <<narrow, told, doc, ranks, hash, hashDue, begun>>

PressToggle ==
  /\ Focusable(Toggle, doc)
  /\ doc' = SetDrawer(doc, ~doc.open)
  /\ focus' = Toggled(doc, doc')
  /\ held' = (told = narrow)
  /\ UNCHANGED <<narrow, told, ranks, hash, hashDue, begun>>

\* The close button, the scrim, or Escape.
Dismiss ==
  /\ doc.open
  /\ doc' = SetDrawer(doc, FALSE)
  /\ focus' = Toggled(doc, doc')
  /\ held' = (held /\ told = narrow)
  /\ UNCHANGED <<narrow, told, ranks, hash, hashDue, begun>>

\* select(id), from the navigation, a provider's link or the attention strip.
Reached_KeepsHash(id) == UNCHANGED hash
Reached(id) == hash' = id

Select(id) ==
  /\ Settled
  /\ LET d == [doc EXCEPT !.page = id]
         to == IF narrow THEN SetDrawer(d, FALSE) ELSE d
     IN  /\ doc' = to
         /\ focus' = IF narrow THEN Focused(Title, to, Refocused(d))
                     ELSE FocusEntry(to, Refocused(d))
         /\ held' = ((narrow \/ id \in Entries(d)) /\ begun /\ told = narrow)
  /\ Reached(id)
  /\ UNCHANGED <<narrow, told, ranks, hashDue, begun>>

\* An order button: the two rows change places, the list is drawn again, and
\* the focus stays on the row, on the other button at the end of the list.
Swapped(s, i, j) == [s EXCEPT ![i] = s[j], ![j] = s[i]]
Move(way, p) ==
  /\ Focusable(<<way, p>>, doc)
  /\ LET i == CHOOSE k \in 1 .. Len(doc.order) : doc.order[k] = p
         d == [doc EXCEPT !.order = Swapped(@, i, IF way = "up" THEN i - 1 ELSE i + 1)]
         back == <<IF way = "up" THEN "down" ELSE "up", p>>
     IN  /\ ranks' = d.order
         /\ doc' = d
         /\ focus' = Focused(<<way, p>>, d, Focused(back, d, Body))
         /\ held' = (told = narrow)
  /\ UNCHANGED <<narrow, told, hash, hashDue, begun>>

\* The address bar, or the history.
Address(h) ==
  /\ h # hash /\ hash' = h /\ hashDue' = TRUE
  /\ UNCHANGED <<narrow, told, doc, ranks, focus, held, begun>>

(***************************************************************************)
(* The browser and the server.                                             *)
(***************************************************************************)
HashChange ==
  /\ hashDue /\ hashDue' = FALSE
  /\ IF begun /\ hash \notin {Malformed, doc.page}
     THEN RenderPage([doc EXCEPT !.page = hash])
     ELSE UNCHANGED <<doc, focus, held>>
  /\ UNCHANGED <<narrow, told, ranks, hash, begun>>

\* refresh disables its button until it has its answer, the click's or the timer's;
\* a failed one draws what was drawn before.
RefreshStarts ==
  /\ ~doc.busy /\ doc' = [doc EXCEPT !.busy = TRUE]
  /\ UNCHANGED <<narrow, told, ranks, focus, held, hash, hashDue, begun>>
Refreshed(present) ==
  /\ doc.busy
  /\ \E order \in Sorted(present) : RenderPage([doc EXCEPT !.order = order, !.busy = FALSE])
  /\ UNCHANGED <<narrow, told, ranks, hash, hashDue, begun>>

\* A redraw that asks nothing: a new minute, the network lost, a search or a period.
DrawAgain ==
  /\ RenderPage(doc)
  /\ UNCHANGED <<narrow, told, ranks, hash, hashDue, begun>>

\* A frame reports one change of width before the next one is laid out.
Resize ==
  /\ told = narrow
  /\ narrow' = ~narrow
  /\ UNCHANGED <<told, doc, ranks, focus, held, hash, hashDue, begun>>

\* What the page itself takes from under the focus, without a place to put it: the
\* search box and the periods of the page it left, and the button of every refresh.
Retired(el) == el[1] \in {"search", "period"} \/ (el = RefreshButton /\ doc.busy)

\* The browser takes the focus from an element that can no longer have it; the
\* blur handlers of the toggle and of the sidebar run.
FixUp ==
  /\ ~Settled
  /\ IF focus = Toggle /\ ~narrow
     THEN /\ doc' = SetDrawer(doc, FALSE)
          /\ focus' = FocusEntry(doc', Body)
     ELSE /\ doc' = doc
          /\ focus' = IF focus[1] \in InSidebar /\ narrow /\ ~doc.open
                      THEN Focused(Toggle, doc, Body) ELSE Body
  /\ held' = (held /\ begun /\ doc.page \in Entries(doc) /\ ~Retired(focus))
  /\ UNCHANGED <<narrow, told, ranks, hash, hashDue, begun>>

\* The change event of the media query.
MediaChange ==
  /\ told # narrow /\ told' = narrow
  /\ doc' = SetDrawer(doc, FALSE)
  /\ LET inDrawer == focus[1] \in InSidebar
     IN  focus' = IF narrow /\ inDrawer THEN Focused(Toggle, doc', focus)
                  ELSE IF ~narrow /\ (doc.open \/ inDrawer \/ focus = Toggle)
                  THEN FocusEntry(doc', focus)
                  ELSE focus
  /\ held' = (held /\ doc.page \in Entries(doc))
  /\ UNCHANGED <<narrow, ranks, hash, hashDue, begun>>

DrawerNext ==
  \/ \E el \in Elements : Tab(el)
  \/ PressToggle \/ Dismiss
  \/ \E id \in Pages : Select(id)
  \/ \E way \in {"up", "down"}, p \in Provider : Move(way, p)
  \/ \E h \in Pages \cup {Malformed} : Address(h)
  \/ HashChange
  \/ RefreshStarts \/ (\E present \in SUBSET Provider : Refreshed(present)) \/ DrawAgain
  \/ Resize \/ FixUp \/ MediaChange

DrawerSpec == DrawerInit /\ [][DrawerNext]_drawerVars

AtRest == told = narrow /\ Settled

\* Nothing that shows is out of reach once the browser is at rest: the page
\* behind is inert exactly while the drawer is open, which it never is on a wide
\* window, a sidebar that shows is never inert, and a focus the reader placed
\* while the drawer is open is inside it.
FocusReachable ==
  AtRest =>
    /\ doc.back = doc.open
    /\ doc.open => narrow
    /\ doc.side => narrow /\ ~doc.open
    /\ doc.open /\ held => focus[1] \in InSidebar

\* Neither a redraw nor a change of width drops the focus the reader placed,
\* whichever of the blur and the media callback comes first, but where the page
\* says so: what Excused lists, and what FixUp finds Retired, the refresh button
\* among them, which every refresh disables, the timer's too.
FocusKept == AtRest /\ held => focus # Body

\* The fragment names the page that shows, once no event is queued.
HashNamesPage ==
  begun /\ ~hashDue /\ hash # Malformed => hash = doc.page
=============================================================================
