-------------------------------- MODULE Chart --------------------------------
(***************************************************************************)
(* The bar chart of web/src/ui/views.ts, as quotaView draws it: which bar  *)
(* is active, what the strip under the chart says, and the height kept for *)
(* the strip so that nothing below it moves.                               *)
(*                                                                         *)
(* Pointer, keyboard, frames, the resize observer and the web fonts all    *)
(* call into the same three functions show, idle and reserve; a redraw of  *)
(* the page replaces the chart while some of them are still to come.       *)
(***************************************************************************)
EXTENDS Integers, Sequences, FiniteSets

CONSTANTS
  Series,     \* what a redraw may draw: sets of providers' bars (sequences)
  Unseen,     \* a bar of which nothing was observed (deltaPp null)
  Wide        \* widths the strip may have, 1 .. Wide

ASSUME ChartAssumption ==
  /\ Wide \in Nat \ {0}
  /\ \A s \in Series :
       /\ Len(s) \in Nat /\ DOMAIN s = 1 .. Len(s)
       /\ \A p \in DOMAIN s : Len(s[p]) \in Nat
       /\ \E p \in DOMAIN s : Len(s[p]) > 0

VARIABLES
  series,     \* what the chart was drawn from: a function of providers
  active,     \* the bar marked active, 0 for none
  cursor,     \* focusIndex
  tip,        \* what the strip says: the detail of a bar, or 0 for the hint
  focused,    \* the chart has the keyboard
  width, styled,    \* of the strip, and whether the web fonts are in use
  measured, height, \* measuredWidth and the height reserved, 0 for none
  callbacks         \* callbacks to come: "frame", "observer", "fonts"

chartVars == <<series, active, cursor, tip, focused, width, styled, measured,
               height, callbacks>>

\* The axis is that of the first provider that has bars.
Base(s) == s[CHOOSE p \in DOMAIN s : Len(s[p]) > 0 /\ \A q \in 1 .. p - 1 : Len(s[q]) = 0]
Bars(s) == 1 .. Len(Base(s))

\* The providers a bar has an observation of: a provider may have fewer bars.
Present(s, i) == {p \in DOMAIN s : i <= Len(s[p]) /\ s[p][i] # Unseen}

\* The detail of a bar: a row for each provider observed, or that there is none.
Rows(s, i) == Present(s, i)

\* The height a detail needs grows with its rows, and when the strip is narrower
\* or the web fonts are in; the hint has the smallest style.
Lines(s, i) == IF i = 0 THEN 0 ELSE Cardinality(Rows(s, i)) + 1
Need(s, i, w, f) == Lines(s, i) * (1 + Wide - w) + IF f THEN 1 ELSE 0

ChartInit ==
  /\ series \in Series
  /\ active = 0 /\ tip = 0 /\ cursor = Len(Base(series))
  /\ focused = FALSE
  /\ width \in 1 .. Wide /\ styled \in BOOLEAN
  /\ measured = 0 /\ height = 0
  /\ callbacks = {"frame", "observer", "fonts"}

(***************************************************************************)
(* show, hide and the listeners that call them.                            *)
(***************************************************************************)
ShowBar(i) == active' = i /\ tip' = i
HideBar    == active' = 0 /\ tip' = 0

\* The pointer enters a bar, or a bar is clicked.
Point(i) ==
  /\ i \in Bars(series)
  /\ ShowBar(i)
  /\ UNCHANGED <<series, cursor, focused, width, styled, measured, height, callbacks>>

\* The pointer leaves the chart, even one that has the keyboard.
Leave ==
  /\ HideBar
  /\ UNCHANGED <<series, cursor, focused, width, styled, measured, height, callbacks>>

FocusChart ==
  /\ ~focused /\ focused' = TRUE
  /\ ShowBar(cursor)
  /\ UNCHANGED <<series, cursor, width, styled, measured, height, callbacks>>

BlurChart ==
  /\ focused /\ focused' = FALSE
  /\ HideBar
  /\ UNCHANGED <<series, cursor, width, styled, measured, height, callbacks>>

Arrow(step) ==
  /\ focused
  /\ cursor' = IF cursor + step \in Bars(series) THEN cursor + step ELSE cursor
  /\ ShowBar(cursor')
  /\ UNCHANGED <<series, focused, width, styled, measured, height, callbacks>>

(***************************************************************************)
(* reserve: measures every detail, then puts back what the strip said.     *)
(***************************************************************************)
PutBack_LeavesLast == tip' = Len(Base(series)) /\ UNCHANGED active
PutBack == IF active # 0 THEN ShowBar(active) ELSE HideBar

Reserve(known) ==
  IF width = known THEN UNCHANGED <<active, tip, measured, height>>
  ELSE /\ measured' = width
       /\ LET needs == {Need(series, i, width, styled) : i \in {tip} \cup Bars(series)}
          IN  height' \in {h \in needs : \A n \in needs : n <= h}
       /\ PutBack

Frame ==
  /\ "frame" \in callbacks /\ callbacks' = callbacks \ {"frame"}
  /\ Reserve(measured)
  /\ UNCHANGED <<series, cursor, focused, width, styled>>

Observer ==
  /\ "observer" \in callbacks /\ callbacks' = callbacks \ {"observer"}
  /\ Reserve(measured)
  /\ UNCHANGED <<series, cursor, focused, width, styled>>

\* document.fonts.ready: the width measured is forgotten first.
Fonts ==
  /\ styled /\ "fonts" \in callbacks /\ callbacks' = callbacks \ {"fonts"}
  /\ Reserve(0)
  /\ UNCHANGED <<series, cursor, focused, width, styled>>

(***************************************************************************)
(* The browser and the page.                                               *)
(***************************************************************************)
FontsArrive ==
  /\ ~styled /\ styled' = TRUE
  /\ UNCHANGED <<series, active, cursor, tip, focused, width, measured, height, callbacks>>

ResizeStrip(w) ==
  /\ w # width /\ width' = w
  /\ callbacks' = callbacks \cup {"observer"}
  /\ UNCHANGED <<series, active, cursor, tip, focused, styled, measured, height>>

\* A refresh draws a new chart; what the old one was waiting for finds it gone.
Replace(s) ==
  /\ series' = s
  /\ active' = 0 /\ tip' = 0 /\ cursor' = Len(Base(s))
  /\ focused' = FALSE
  /\ measured' = 0 /\ height' = 0
  /\ callbacks' = {"frame", "observer", "fonts"}
  /\ UNCHANGED <<width, styled>>

ChartNext ==
  \/ \E i \in Bars(series) : Point(i)
  \/ Leave \/ FocusChart \/ BlurChart
  \/ Arrow(-1) \/ Arrow(1)
  \/ Frame \/ Observer \/ Fonts \/ FontsArrive
  \/ \E w \in 1 .. Wide : ResizeStrip(w)
  \/ \E s \in Series : Replace(s)

ChartSpec == ChartInit /\ [][ChartNext]_chartVars

\* The strip tells of the bar that is marked, whatever measuring, pointer,
\* keyboard and redraw did in between; and once no callback is due the detail of
\* every bar fits the height reserved, so that pointing never moves the page.
TipMatches ==
  /\ tip = active
  /\ callbacks = {} => \A i \in {0} \cup Bars(series) : Need(series, i, width, styled) <= height
=============================================================================
