---- MODULE MCDashboard ----
(* The machines of the page, one at a time: how it keeps its figures current, *)
(* where its focus is, and what its chart says.  "part" is the one that runs; *)
(* the others stay in one state.                                              *)
EXTENDS Page, Drawer, Chart

CONSTANTS p1, p2, none
TwoListed == <<p1, p2>>
Drawn(n)  == [1 .. n -> {none, 0, 1}]
SomeSeries ==
  {<<a, b>> : a \in Drawn(2), b \in Drawn(1)} \cup {<<a, b>> : a \in Drawn(0), b \in Drawn(1)}

VARIABLE part
dashboardVars == <<part, pageVars, drawerVars, chartVars>>

\* A page in the background, a wide window, a chart of the first series.
PageAtRest ==
  /\ server = [version |-> 0, age |-> 0, warns |-> FALSE]
  /\ up = TRUE /\ visible = FALSE /\ online = TRUE /\ started = TRUE
  /\ requests = {} /\ snapshot = {} /\ shown = {}
  /\ due = Refresh /\ phase = 0 /\ crossed = TRUE /\ ticked = TRUE
  /\ notice = "hidden" /\ silent = 0
DrawerAtRest == DrawerInit /\ narrow = FALSE /\ hash = Overview
ChartAtRest ==
  ChartInit /\ series = <<<<none, none>>, <<none>>>> /\ width = 1 /\ styled = FALSE

DashboardInit ==
  \/ part = "page"   /\ PageInit   /\ DrawerAtRest /\ ChartAtRest
  \/ part = "drawer" /\ PageAtRest /\ DrawerInit   /\ ChartAtRest
  \/ part = "chart"  /\ PageAtRest /\ DrawerAtRest /\ ChartInit

DashboardNext ==
  /\ UNCHANGED part
  /\ \/ part = "page"   /\ PageNext   /\ UNCHANGED <<drawerVars, chartVars>>
     \/ part = "drawer" /\ DrawerNext /\ UNCHANGED <<pageVars, chartVars>>
     \/ part = "chart"  /\ ChartNext  /\ UNCHANGED <<pageVars, drawerVars>>

\* PageFairness, for the page that runs.
DashboardSpec ==
  /\ DashboardInit /\ [][DashboardNext]_dashboardVars
  /\ WF_dashboardVars(part = "page" /\ Settle /\ UNCHANGED <<part, drawerVars, chartVars>>)
  /\ WF_dashboardVars(part = "page" /\ Timer /\ UNCHANGED <<part, drawerVars, chartVars>>)
  /\ WF_dashboardVars(part = "page" /\ Pass /\ UNCHANGED <<part, drawerVars, chartVars>>)
====
