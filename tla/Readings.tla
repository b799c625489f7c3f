------------------------------ MODULE Readings ------------------------------
(***************************************************************************)
(* What the page says of a reading while it grows old in front of the      *)
(* reader: web/src/ui/quota.ts decides whether a window counts as current  *)
(* and why it does not, web/src/ui/views.ts writes the windows, the        *)
(* averages and the accounts.  Nothing here is told that time passed: all  *)
(* of it is evaluated again at every redraw.                               *)
(***************************************************************************)
EXTENDS Values, FiniteSets, FiniteSetsExt, Sequences, SequencesExt, Functions

CONSTANTS
  Account,      \* the accounts of one provider
  Published,    \* what the server may publish of each account
  Rosters,      \* what it may publish as analytics.accounts: sequences of rows
  FreshFor,     \* fifteen minutes
  Skew          \* one minute: a reading of the future is still believed

ASSUME ReadingsAssumption == FreshFor \in Nat \ {0} /\ Skew \in Nat

\* An account is an object; its windows, where they can be read, are a list of objects
\* whose reset is an instant, missing, or cannot be read.
ASSUME PublishedAssumption ==
  \A id \in Account : \A a \in Published[id] :
    /\ {"status", "seen", "windows"} \subseteq DOMAIN a
    /\ IsRecord(a.windows) =>
         /\ DOMAIN a.windows = 1 .. Len(a.windows)
         /\ \A i \in DOMAIN a.windows :
              /\ {"reset", "analytics"} \subseteq DOMAIN a.windows[i]
              /\ Known(a.windows[i].reset) \/ a.windows[i].reset \in {Null, Junk}

VARIABLES accounts, roster
readingsVars == <<accounts, roster>>

Withdrawn == {"reauth", "paused", "unavailable"}

(***************************************************************************)
(* freshWindow, measurementReason, lookupDelay.                            *)
(***************************************************************************)
Recent(a) == Known(a.seen) /\ a.seen <= FreshFor /\ -a.seen <= Skew
Valid(w)  == Known(w.left) /\ w.left \in 0 .. Whole

Fresh(a, w) ==
  /\ a.status \notin Withdrawn /\ ~w.stale
  /\ Recent(a)
  /\ Valid(w)
  /\ w.reset # Null => Known(w.reset) /\ w.reset > 0

MeasurementReason(a, w) ==
  IF a.status \in {"reauth", "paused"} THEN a.status
  ELSE IF ~(Known(a.seen) /\ -a.seen <= Skew) THEN "check time"
  ELSE IF Known(w.reset) /\ w.reset <= 0 THEN "reset"
  ELSE IF a.seen > FreshFor THEN "old" ELSE "check value"

LookupDelay(a) ==
  LET r == RefreshState(a.refresh)
  IN  IF r.status # "delayed" \/ a.status \in {"reauth", "paused"} THEN <<"none", 0>>
      ELSE IF Known(r.next) /\ r.next > 0 THEN <<"in", r.next>> ELSE <<"waits", 0>>

(***************************************************************************)
(* validateSnapshot: one account of an unknown status, without a list of   *)
(* windows, or with a remainder that is neither missing nor a number, and  *)
(* the snapshot is refused and the previous one stays.                     *)
(***************************************************************************)
STATUSES == {"ok", "stale", "reauth", "paused", "unavailable", "collecting"}
ValidateSnapshot(snapshot) ==
  \A id \in Account :
    LET a == snapshot[id] IN
    /\ a.status \in STATUSES
    /\ IsRecord(a.windows)
    /\ \A i \in DOMAIN a.windows : a.windows[i].left # Junk

(***************************************************************************)
(* The direct read of an account: its status, its next attempt, and        *)
(* directQuotaBlocks, the readings that never became a window (no share    *)
(* could be calculated) or no longer count as one (the account is          *)
(* withdrawn).                                                             *)
(***************************************************************************)
DirectStatus == {"ok", "partial", "unauthorized", "timeout", "invalid_json"}
DirectNote(s) == IF s \in DirectStatus THEN s ELSE "lookup failed"

NextAttempt(d) ==
  IF ~Known(d.next) THEN <<"none", 0>> ELSE IF d.next > 0 THEN <<"in", d.next>> ELSE <<"waits", 0>>
Withheld(d) == IF IsRecord(d.last) /\ IsRecord(d.last.windows) THEN <<d.last>> ELSE << >>

\* limitStateNote, reconciliationNote, precisionNote, semanticsNote: a code that is
\* not one of those known is not written.
Named(codes, code) == IF code \in codes THEN <<code>> ELSE << >>
LimitStateNote(m)  == Named({"zero", "missing", "unlimited"}, m.limitState)

\* basisRows: a value the contract leaves null is named as missing, never written
\* as a number; without a limit its state stands in.
Given(v) == IF v = Null THEN <<"not given", 0>> ELSE QuotaFigure(v)
BasisRows(m) ==
  [reported   |-> Given(m.reported),
   calculated |-> Given(m.calculated),
   used       |-> Given(m.used),
   limit      |-> IF m.limit = Null /\ LimitStateNote(m) # << >> THEN <<LimitStateNote(m)[1], 0>>
                  ELSE Given(m.limit),
   notes      |-> Named({"matched", "mismatch", "unverified"}, m.reconciliation)
                    \o Named({"observed_fraction", "integer_only", "unknown"}, m.precision)
                    \o Named({"fixed_reset", "sliding", "unknown"}, m.semantics)]

DirectQuotaBlocks(d) ==
  [evidence |-> [i \in DOMAIN d.evidence |->
                   [old |-> d.evidence[i].stale = TRUE, rows |-> BasisRows(d.evidence[i].measurement)]],
   last |-> [i \in DOMAIN Withheld(d) |->
               [j \in DOMAIN Withheld(d)[i].windows |->
                  LET w == Withheld(d)[i].windows[j]
                  IN  <<QuotaFigure(w.used), InstantNote(w.measured)>>]]]

Direct(a) ==
  LET d == DirectQuota(a.direct)
  IN  [note |-> IF d.status = Null THEN "none" ELSE DirectNote(d.status),
       warns |-> d.status \notin {Null, "ok"},
       next |-> NextAttempt(d),
       blocks |-> DirectQuotaBlocks(d)]

(***************************************************************************)
(* windowView and windowAnalyticsView.                                     *)
(***************************************************************************)
Stale(w) == [WindowAnalytics(w.analytics) EXCEPT
               !.status = "stale", !.capacity = Null, !.remaining = Null,
               !.exhausts = Null, !.rate = Null, !.resetFirst = Null]

Eta(n, w) ==
  IF n.status = "collecting" THEN <<"observing", 0>>
  ELSE IF n.status # "ok" THEN <<"none", 0>>
  ELSE IF w.left = 0 THEN <<"exhausted", 0>>
  ELSE IF n.rate = 0 THEN <<"no use", 0>>
  ELSE IF n.resetFirst = TRUE THEN <<"reset first", 0>>
  ELSE IF n.exhausts = Null THEN <<"none", 0>>
  ELSE Until(n.exhausts)

\* A capacity measured earlier stands in for a missing one, with its date.
Projection(n, w) ==
  LET prior == IF Known(n.capacity) THEN Null ELSE n.prior
      earlier == IsRecord(prior)
  IN  [capacity |-> IF earlier /\ Known(prior.usd) THEN prior.usd ELSE n.capacity,
       remaining |-> IF earlier THEN prior.remaining ELSE n.remaining,
       earlier |-> earlier,
       eta |-> Eta(n, w)]

OwnReason(a, w) == ~Fresh(a, w) /\ Recent(a) /\ a.status \notin Withdrawn

\* Under a recent reading the window says why it is not current, and the line
\* below when its reset is or was; otherwise that line says why.
Meta_AlwaysReset(a, w) == Reset(w.reset)
Meta(a, w) ==
  IF Fresh(a, w) THEN Reset(w.reset)
  ELSE IF ~OwnReason(a, w) THEN <<MeasurementReason(a, w), 0>>
  ELSE IF Reset(w.reset)[1] = "awaits a reading" THEN <<"was", w.reset>>
  ELSE Reset(w.reset)

WindowView(a, w) ==
  [figure |-> IF Valid(w) THEN QuotaFigure(w.left) ELSE <<"none", 0>>,
   low    |-> Valid(w) /\ w.left < 20 * Point,
   badge  |-> IF OwnReason(a, w) THEN <<MeasurementReason(a, w), 0>> ELSE <<"none", 0>>,
   track  |-> Track(IF Valid(w) THEN w.left ELSE Null),
   meta   |-> Meta(a, w),
   projection |->
     IF a.status \in Withdrawn THEN {}
     ELSE {Projection(IF Fresh(a, w) THEN WindowAnalytics(w.analytics) ELSE Stale(w), w)}]

(***************************************************************************)
(* accountView; orderedProviders, which drops the windows of a model and   *)
(* states the account again from those that are left.                      *)
(***************************************************************************)
OfAccount(w) == ~w.spark
Kept(a) == {i \in DOMAIN a.windows : OfAccount(a.windows[i])}
Restated(a) ==
  [a EXCEPT
     !.windows = SelectSeq(@, OfAccount),
     !.status = IF @ \notin {"ok", "stale"} THEN @
                ELSE IF Kept(a) = {} THEN "unavailable"
                ELSE IF \E i \in Kept(a) : ~Fresh(a, a.windows[i]) THEN "stale" ELSE "ok"]

AccountView(a) ==
  [badge |-> IF a.status \in {"reauth", "paused"} THEN a.status ELSE "none",
   age   |-> IF ~Known(a.seen) THEN <<"no time", 0>>
             ELSE IF -a.seen > Skew THEN <<"check time", 0>>
             ELSE <<"ago", Max({0, a.seen})>>,
   delay |-> LookupDelay(a),
   direct |-> Direct(a),
   windows |-> [i \in DOMAIN a.windows |-> WindowView(a, a.windows[i])]]

(***************************************************************************)
(* quotaOverview: one bar for each limit, the mean of what is current.     *)
(***************************************************************************)
HeldWindows == UNION {{id} \X DOMAIN accounts[id].windows : id \in Account}
Window(h) == accounts[h[1]].windows[h[2]]
Limits == {Window(h).key : h \in HeldWindows}
Counted(key) == {h \in HeldWindows : Window(h).key = key /\ Fresh(accounts[h[1]], Window(h))}

SeverityOf(left) ==
  IF left < 10 * Point THEN "critical" ELSE IF left < 30 * Point THEN "warning" ELSE "ok"

Overview(key) ==
  LET counted == Counted(key)
      resets == {Window(h).reset : h \in counted} \ {Null}
      mean == SumFunction([h \in counted |-> Window(h).left]) \div Cardinality(counted)
      lowest == Min({Window(h).left : h \in counted})
  IN  IF counted = {} THEN {}
      ELSE {[mean |-> mean, lowest |-> lowest, severity |-> SeverityOf(lowest),
             reset |-> IF resets = {} THEN << >> ELSE <<Min(resets)>>]}

\* providerAnalytics: the capacity of a limit, averaged over the accounts, each
\* with its own or, when that is not current, the one measured before.
Holds(key, id) == {i \in DOMAIN accounts[id].windows : accounts[id].windows[i].key = key}
Capacity(key, id) ==
  LET a == accounts[id]
      w == a.windows[Min(Holds(key, id))]
      n == WindowAnalytics(w.analytics)
      current == Fresh(a, w) /\ Known(n.capacity)
  IN  [value |-> IF current THEN n.capacity ELSE IF IsRecord(n.prior) THEN n.prior.usd ELSE Null,
       earlier |-> ~current]
Averaged(key) ==
  {id \in Account : Holds(key, id) # {} /\ Known(Capacity(key, id).value) /\ Capacity(key, id).value > 0}

\* summaryList: what is wrong with the accounts of a provider.
Concerns ==
  [s \in {"stale", "reauth", "paused", "unavailable"} |->
     Cardinality({id \in Account : accounts[id].status = s})]
Delayed == {id \in Account : accounts[id].status = "ok"
                               /\ RefreshState(accounts[id].refresh).status = "delayed"}

(***************************************************************************)
(* accountRows, the badge of the navigation, attentionStrip, accountsView. *)
(***************************************************************************)
Health(row) ==
  IF row.health \in {"critical", "warning", "ok", "unknown", "idle"} THEN row.health ELSE "unknown"
AccountRows == SelectSeq(roster, IsRecord)
OfHealth(healths) == {n \in DOMAIN AccountRows : Health(AccountRows[n]) \in healths}
Urgent == OfHealth({"critical", "warning"})

Strip ==
  IF DOMAIN AccountRows = {} THEN <<"hidden", 0>>
  ELSE IF Urgent = {} THEN <<"calm", 0>> ELSE <<"listed", Min({6, Cardinality(Urgent)})>>
Chips == [h \in {"critical", "warning", "ok", "unknown", "idle"} |-> Cardinality(OfHealth({h}))]

(***************************************************************************)
(* The server publishes, the reader waits.                                 *)
(***************************************************************************)
ReadingsInit ==
  /\ accounts \in {f \in [Account -> UNION Range(Published)] :
                      ValidateSnapshot(f) /\ \A id \in Account : f[id] \in Published[id]}
  /\ roster \in Rosters

Publish(id, a) ==
  LET snapshot == [accounts EXCEPT ![id] = a]
  IN  accounts' = (IF ValidateSnapshot(snapshot) THEN snapshot ELSE accounts) /\ UNCHANGED roster
PublishRoster(r) == roster' = r /\ UNCHANGED accounts

Nearer(at) == IF Known(at) /\ at > -1 THEN at - 1 ELSE at
Older(seen) == IF Known(seen) /\ seen <= FreshFor THEN seen + 1 ELSE seen
WaitedWindow(w) ==
  [w EXCEPT !.reset = Nearer(@),
            !.analytics = IF IsRecord(@) THEN [@ EXCEPT !.exhausts = Nearer(@)] ELSE @]
Wait ==
  /\ accounts' = [id \in Account |->
       [accounts[id] EXCEPT !.seen = Older(@),
          !.windows = [i \in DOMAIN @ |-> WaitedWindow(@[i])]]]
  /\ UNCHANGED roster

ReadingsNext ==
  \/ \E id \in Account : \E a \in Published[id] : Publish(id, a)
  \/ \E r \in Rosters : PublishRoster(r)
  \/ Wait

ReadingsSpec == ReadingsInit /\ [][ReadingsNext]_readingsVars

Tells(figure, v) ==
  /\ figure[1] = "is"    => /\ Known(v) /\ v - figure[2] \in -5 .. 5
                            /\ figure[2] = 0 <=> v = 0
                            /\ figure[2] = Whole <=> v = Whole
  /\ figure[1] = "below" => Known(v) /\ v < figure[2] /\ v > figure[2] - 10
  /\ figure[1] = "above" => Known(v) /\ v > figure[2] /\ v < figure[2] + 10
  /\ figure[1] \notin {"is", "below", "above"} => ~Known(v) \/ v \notin 0 .. Whole

\* A window that no longer counts always says why, in one place and for a cause
\* it has; a cause is the unspecific one only when its status, its value or its
\* reset is at fault; none but current windows are averaged or projected; the
\* capacity a provider averages is the one its windows show, and is of an earlier
\* time when they say so; a figure never claims the 0 or the 100 it is not, nor
\* stands for a value that was not given; and dropping a model's windows leaves
\* what counts of the others as it was.
ReasonExplains ==
  /\ \A h \in HeldWindows :
       LET a == accounts[h[1]] w == Window(h) v == WindowView(a, w)
           reason == <<MeasurementReason(a, w), 0>>
       IN  /\ Tells(v.figure, w.left)
           /\ ~Fresh(a, w) =>
                /\ v.badge = reason \/ v.meta = reason
                /\ reason[1] = "check value" =>
                     a.status = "unavailable" \/ w.stale \/ ~Valid(w) \/ w.reset = Junk
                /\ reason[1] = "old" => a.seen > FreshFor /\ Reset(w.reset)[1] # "awaits a reading"
                /\ \A p \in v.projection :
                     /\ p.eta[1] = "none"
                     /\ ~p.earlier => ~Known(p.capacity) /\ ~Known(p.remaining)
           /\ Fresh(a, w) => v.badge[1] = "none"
           /\ v.meta[1] # "awaits a reading"
           /\ ~w.spark => (Fresh(Restated(a), w) <=> Fresh(a, w))
  /\ \A key \in Limits :
       /\ Overview(key) = {} <=> \A h \in HeldWindows : Window(h).key = key => ~Fresh(accounts[h[1]], Window(h))
       /\ \A o \in Overview(key) :
            /\ o.lowest <= o.mean /\ o.mean \in 0 .. Whole
            /\ \A i \in DOMAIN o.reset : o.reset[i] > 0
       /\ \A id \in Averaged(key) :
            \A p \in WindowView(accounts[id], accounts[id].windows[Min(Holds(key, id))]).projection :
              p.capacity = Capacity(key, id).value /\ p.earlier = Capacity(key, id).earlier
  /\ \A id \in Account :
       LET d == DirectQuota(accounts[id].direct) IN
       \A i \in DOMAIN d.evidence : \A f \in {"reported", "calculated", "used"} :
         LET v == d.evidence[i].measurement[f]  row == Direct(accounts[id]).blocks.evidence[i].rows[f] IN
         Tells(row, v) /\ (row[1] = "not given" <=> v = Null)
  /\ Strip[1] = "calm" => Chips["critical"] + Chips["warning"] = 0
=============================================================================
