---------------------------- MODULE HistoryPages ----------------------------
(***************************************************************************)
(* Paging through retained history while it changes: the event timeline and *)
(* the list of incidents (internal/store/timeline.go, time_bounds.go), and  *)
(* the console's browser that follows their cursors forward and back        *)
(* (internal/console/browser.go).  Each request is a snapshot of its own;   *)
(* events arrive, possibly late, and are pruned between two requests.       *)
(*                                                                         *)
(* Events are kept to the millisecond, the bounds of a query are not: times *)
(* of queries count half milliseconds.                                      *)
(***************************************************************************)
EXTENDS Integers, Sequences, FiniteSets, SequencesExt

CONSTANTS Ids,          \* identifiers of events, in their order
          Incidents,    \* identifiers of incidents; 0 is none
          Limits,       \* page sizes
          MaxMilli, MaxBrowserHistory

\* A stored time against bounds, as instants.
Within(at, start, end) == 2 * at >= start /\ 2 * at < end

VARIABLES events,   \* identifier -> stored event
          gone,     \* identifiers of pruned events
          view,     \* the console's browser
          steady    \* rows nothing has touched since the browser was opened

historyVars == <<events, gone, view, steady>>

Closed == [list |-> "none", start |-> 0, end |-> 0, limit |-> 0, pages |-> << >>, index |-> 0,
           rows |-> << >>, more |-> FALSE]

HistoryInit == events = << >> /\ gone = {} /\ view = Closed /\ steady = {}

-----------------------------------------------------------------------------
(* Rows and their order. *)

CeilMilli(t) == (t + 1) \div 2

Between(at, start, end) == at >= CeilMilli(start) /\ at < CeilMilli(end)

Matching(start, end) == {i \in DOMAIN events : Between(events[i].at, start, end)}

\* An incident is as recent as its latest event within the bounds.
Latest(n, start, end) ==
    LET times == {events[i].at : i \in {j \in Matching(start, end) : events[j].incident = n}} IN
    CHOOSE t \in times : \A u \in times : u <= t

NoCursor == [at |-> 0, id |-> 0]

\* Rows of a list as pairs of time and identifier.
RowsOf(list, start, end) ==
    IF list = "timeline" THEN {[at |-> events[i].at, id |-> i] : i \in Matching(start, end)}
    ELSE {[at |-> Latest(n, start, end), id |-> n] : n \in {events[i].incident : i \in Matching(start, end)} \ {0}}

Precedes(list, a, b) ==
    IF list = "timeline" THEN a.at < b.at \/ (a.at = b.at /\ a.id < b.id)
    ELSE a.at > b.at \/ (a.at = b.at /\ a.id > b.id)

\* The cursor is the last row of a page.
Beyond(list, cursor, r) == cursor = NoCursor \/ Precedes(list, cursor, r)

\* readTimeline, Incidents: one row more than the page holds is asked for.
Fetch(v, cursor) ==
    LET found == SetToSortSeq({r \in RowsOf(v.list, v.start, v.end) : Beyond(v.list, cursor, r)},
                              LAMBDA a, b : Precedes(v.list, a, b)) IN
    [rows |-> SubSeq(found, 1, IF Len(found) < v.limit THEN Len(found) ELSE v.limit), more |-> Len(found) > v.limit]

-----------------------------------------------------------------------------
(* The browser.  A page is the cursor it was asked with; "prior" are the rows *)
(* shown on the way to it.                                                    *)

Shown(v) == v.pages[v.index].prior \cup ToSet(v.rows)

\* fetchBrowser with a move forward: what was ahead is forgotten, and beyond
\* the limit the oldest page.
Forward(v, cursor, prior) ==
    LET kept == Append(SubSeq(v.pages, 1, v.index), [cursor |-> cursor, prior |-> prior])
        pages == IF Len(kept) > MaxBrowserHistory THEN Tail(kept) ELSE kept
        page == Fetch(v, cursor) IN
    [v EXCEPT !.pages = pages, !.index = Len(pages), !.rows = page.rows, !.more = page.more]

\* startBrowser: the bounds are frozen with the first page.
StartBrowser(list, start, end, limit) ==
    /\ view = Closed
    /\ view' = Forward([Closed EXCEPT !.list = list, !.start = start, !.end = end, !.limit = limit], NoCursor, {})
    /\ steady' = IF list = "incidents" THEN RowsOf(list, start, end)
                 ELSE {r \in {[at |-> events[i].at, id |-> i] : i \in DOMAIN events} : Within(r.at, start, end)}
    /\ UNCHANGED <<events, gone>>

\* Mutant: the first row of the page.
NextFromFirst(v) == v.rows[1]

NextCursor(v) == v.rows[Len(v.rows)]

\* browserNext; Validate refuses a cursor outside the bounds.
NextPage ==
    /\ view # Closed /\ view.more
    /\ LET cursor == NextCursor(view) IN
       /\ Within(cursor.at, view.start, view.end)
       /\ cursor # view.pages[view.index].cursor
       /\ view' = Forward(view, cursor, Shown(view))
    /\ UNCHANGED <<events, gone, steady>>

\* The previous cursor is asked again; retained data may have changed.
PreviousPage ==
    /\ view.index > 1
    /\ LET page == Fetch(view, view.pages[view.index - 1].cursor) IN
       view' = [view EXCEPT !.index = @ - 1, !.rows = page.rows, !.more = page.more]
    /\ UNCHANGED <<events, gone, steady>>

-----------------------------------------------------------------------------
(* What changes meanwhile. *)

\* insertEvent: the time is cut to milliseconds.
InsertEvent(i, at, n) ==
    /\ i \notin DOMAIN events \cup gone
    /\ events' = [j \in DOMAIN events \cup {i} |-> IF j = i THEN [at |-> at \div 2, incident |-> n] ELSE events[j]]
    /\ steady' = IF view.list = "incidents" THEN {r \in steady : r.id # n} ELSE steady
    /\ UNCHANGED <<gone, view>>

\* By age or under pressure.
Prune(i) ==
    /\ i \in DOMAIN events
    /\ events' = [j \in DOMAIN events \ {i} |-> events[j]]
    /\ gone' = gone \cup {i}
    /\ steady' = {r \in steady : r.id # (IF view.list = "incidents" THEN events[i].incident ELSE i)}
    /\ UNCHANGED view

HistoryNext ==
    \/ \E list \in {"timeline", "incidents"}, limit \in Limits, start, end \in 0..(2 * MaxMilli + 1) :
          start < end /\ StartBrowser(list, start, end, limit)
    \/ NextPage \/ PreviousPage
    \/ \E i \in Ids : Prune(i) \/ \E at \in 0..(2 * MaxMilli + 1), n \in Incidents : InsertEvent(i, at, n)

HistorySpec == HistoryInit /\ [][HistoryNext]_historyVars

-----------------------------------------------------------------------------
\* Paging forward, also after going back, past pages the browser has forgotten
\* and past cursors whose event is pruned, passes over no row that nothing has
\* touched: whatever lies before the end of the page has been shown.
NothingSkipped ==
    view # Closed =>
      \A r \in steady :
         (~ view.more \/ ~ Precedes(view.list, view.rows[Len(view.rows)], r)) => r \in Shown(view)

\* No event is shown twice on the way to a page, and no incident that nothing
\* has touched.
NothingTwice ==
    view # Closed =>
      \A k \in 1..Len(view.rows) :
         (view.list = "timeline" \/ view.rows[k] \in steady) => view.rows[k] \notin view.pages[view.index].prior

\* What is shown lies within the bounds asked for, exactly: a stored time
\* counts as the instant it names although the bounds are finer.
WithinBounds == view # Closed => \A r \in Shown(view) : Within(r.at, view.start, view.end)
=============================================================================
