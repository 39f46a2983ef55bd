------------------------------ MODULE ReportChart ------------------------------
(***************************************************************************)
(* The chart of a program's report: the series the server counts in        *)
(* buckets of time from the rows of listener_connections, and the page     *)
(* that fetches it whole once and from then on only from its newest bucket *)
(* on, merging what comes back, while loading the program's details        *)
(* brings a summary of its own.  The pages of the report's tables are here *)
(* too.                                                                    *)
(*                                                                         *)
(* Time is counted in ticks.  Of the four widths of a bucket the model has *)
(* two, the finest and a coarser one.                                      *)
(***************************************************************************)
EXTENDS Integers, Sequences, FiniteSets, FiniteSetsExt

CONSTANTS
    Stream,        \* languages of the program
    NoChart, NoCall, NoAnswer,
    Fine, Coarse,  \* widths of a bucket
    FineSpan,      \* the longest span that is counted in buckets of width Fine
    Week,          \* how far a chart reaches back while there is nothing to show
    Window,        \* the length of a relative range
    PageSize,      \* rows of a page of a table
    First,         \* connections made before the report is opened
    MaxRows,       \* bound: connections
    MaxTime        \* bound: ticks

VARIABLES
    now,
    rows,          \* listener_connections of the program, in the order they were created
    preset,        \* the range that is selected
    rangeKey,      \* the range the chart was fetched for
    chart,         \* summary.series, and the start of its range
    cursor,        \* reportSeriesCursor
    call,          \* the latest request for the chart that is in flight
    opening,       \* the request of the program's details that is in flight
    table,         \* the page of a table that is shown
    mixed          \* history: buckets of one width were merged into a chart of the other, or
                   \* a part of one chart into another, or the cursor is that of another chart

vars == <<now, rows, preset, rangeKey, chart, cursor, call, opening, table, mixed>>

\* A bound that is not given, before every time; and what has not happened, after every time.
NoTime == -Week - 1
Never  == MaxTime + 1

NewRow(s, t) == [stream |-> s, created |-> t, connected |-> Never, disconnected |-> Never]

NoTable == [page |-> 1, total |-> 0, rows |-> {}]

Init ==
    /\ now = 0
    /\ rows \in [1..First -> {NewRow(s, 0) : s \in Stream}]
    /\ preset = "all" /\ rangeKey = "none"
    /\ chart = NoChart /\ cursor = NoTime
    /\ call = NoCall /\ opening = NoCall
    /\ table = NoTable
    /\ mixed = FALSE

-----------------------------------------------------------------------------
(* The series of the server *)

Start(from) ==
    IF from # NoTime THEN from ELSE IF rows # <<>> THEN rows[1].created ELSE now - Week

End(start, to) == IF to > start THEN to ELSE now

Width(span) == IF span <= FineSpan THEN Fine ELSE Coarse

Align(t, width) == t - (t % width)

PointStarts(start, end, width) ==
    {t \in Align(start, width)..end : (t % width) = 0}

\* Mutant: a listener is counted to the end of the bucket it left in.
LowerBound_After(t, starts) == Min({u \in starts : u > t} \cup {Never})

\* The first bucket that does not start before t.
LowerBound(t, starts) == Min({u \in starts : u >= t} \cup {Never})

\* What the server counts for a language in the bucket that starts at t: connections made in it,
\* and listeners who had connected when it started and had not left.
Point(t, s, start, end, width) ==
    LET starts == PointStarts(start, end, width)
        mine   == {i \in DOMAIN rows : rows[i].stream = s}
        made   == {i \in mine : rows[i].created \in start..(end - 1)
                                /\ Align(rows[i].created, width) = t}
        active == {i \in mine : /\ rows[i].connected < end /\ rows[i].disconnected >= start
                                /\ LowerBound(rows[i].connected, starts) <= t
                                /\ t < LowerBound(rows[i].disconnected, starts)}
    IN [connections |-> Cardinality(made), activeListeners |-> Cardinality(active)]

AfterCursor(t, after) == t >= after

\* getProgramReportSeries, which counts from the cursor on when there is one.
Series(from, to, after) ==
    LET start  == Start(IF after > from THEN after ELSE from)
        end    == End(start, to)
        width  == Width(end - start)
        starts == {t \in PointStarts(start, end, width) : after = NoTime \/ AfterCursor(t, after)}
    IN [width  |-> width,
        points |-> [t \in starts |-> [s \in Stream |-> Point(t, s, start, end, width)]]]

-----------------------------------------------------------------------------
(* Listeners *)

KeepPage == UNCHANGED <<preset, rangeKey, chart, cursor, call, opening, table, mixed>>

Tick == now < MaxTime /\ now' = now + 1 /\ UNCHANGED rows /\ KeepPage

Visit(s) ==
    /\ Len(rows) < MaxRows
    /\ rows' = Append(rows, NewRow(s, now))
    /\ UNCHANGED now /\ KeepPage

Connect(i) ==
    /\ rows[i].connected = Never /\ rows[i].disconnected = Never
    /\ rows' = [rows EXCEPT ![i].connected = now]
    /\ UNCHANGED now /\ KeepPage

Leave(i) ==
    /\ rows[i].disconnected = Never
    /\ rows' = [rows EXCEPT ![i].disconnected = now]
    /\ UNCHANGED now /\ KeepPage

-----------------------------------------------------------------------------
(* The page *)

\* computeRange
RangeOf(p) ==
    IF p = "all" THEN [from |-> NoTime, to |-> NoTime]
    ELSE [from |-> IF now > Window THEN now - Window ELSE 0, to |-> now]

CanFetchIncrementally(p) == rangeKey = p /\ cursor # NoTime /\ chart # NoChart

Request(p) ==
    [preset |-> p, from |-> RangeOf(p).from, to |-> RangeOf(p).to,
     after  |-> IF CanFetchIncrementally(p) THEN cursor ELSE NoTime,
     answer |-> NoAnswer]

\* The timer and the return to the tab ask again unless a request is in flight; the section that
\* is shown, and a change of the program, ask at once, and the older answer is dropped.
Refresh ==
    /\ call' = Request(preset)
    /\ table' = NoTable
    /\ UNCHANGED <<now, rows, preset, rangeKey, chart, cursor, opening, mixed>>

\* Another range is asked for at once, and the answer to an older request is dropped.
ChooseRange(p) ==
    /\ p # preset
    /\ preset' = p
    /\ call' = Request(p)
    /\ table' = NoTable
    /\ UNCHANGED <<now, rows, rangeKey, chart, cursor, opening, mixed>>

Serve ==
    /\ call # NoCall /\ call.answer = NoAnswer
    /\ call' = [call EXCEPT !.answer = Series(call.from, call.to, call.after)]
    /\ UNCHANGED <<now, rows, preset, rangeKey, chart, cursor, opening, table, mixed>>

\* mergeReportSeries
Merge(old, incoming, from) ==
    LET starts == {t \in DOMAIN old.points \cup DOMAIN incoming.points : t >= from}
    IN [width  |-> incoming.width,
        from   |-> from,
        points |-> [t \in starts |->
                      IF t \in DOMAIN incoming.points THEN incoming.points[t] ELSE old.points[t]]]

NewestBucket(series) == Max(DOMAIN series.points)

Whole(series, from) == [width |-> series.width, from |-> from, points |-> series.points]

\* refetchReports, after its request: a whole chart replaces the one shown; a part is merged into
\* it, if there is one, and the range stays.
Deliver ==
    /\ call # NoCall /\ call.answer # NoAnswer
    /\ LET s    == call.answer
           part == call.after # NoTime
       IN
         /\ chart' = IF ~ part THEN Whole(s, call.from)
                     ELSE IF chart = NoChart THEN NoChart ELSE Merge(chart, s, call.from)
         /\ cursor' = IF DOMAIN s.points = {} THEN cursor ELSE NewestBucket(s)
         /\ rangeKey' = IF part THEN rangeKey ELSE call.preset
         /\ mixed' = (part /\ (mixed \/ cursor # call.after \/ chart.width # s.width))
    /\ call' = NoCall
    /\ UNCHANGED <<now, rows, preset, opening, table>>

\* The request fails, and what is shown stays.
Fail ==
    /\ call # NoCall
    /\ call' = NoCall
    /\ UNCHANGED <<now, rows, preset, rangeKey, chart, cursor, opening, table, mixed>>

\* loadDetail clears the chart and what is known of it, and asks for the summary of all time; a
\* refetch that is in flight goes on.  The model has one program, which is opened again (a bound:
\* once at a time).
LoadDetail ==
    /\ opening = NoCall
    /\ opening' = [answer |-> NoAnswer]
    /\ chart' = NoChart /\ cursor' = NoTime /\ rangeKey' = "none" /\ mixed' = FALSE
    /\ table' = NoTable
    /\ UNCHANGED <<now, rows, preset, call>>

ServeDetail ==
    /\ opening # NoCall /\ opening.answer = NoAnswer
    /\ opening' = [answer |-> Series(NoTime, NoTime, NoTime)]
    /\ UNCHANGED <<now, rows, preset, rangeKey, chart, cursor, call, table, mixed>>

\* The summary becomes the chart, whatever a refetch has shown meanwhile, and is given neither a
\* cursor nor a range: those of the refetch stay.
DeliverDetail ==
    /\ opening # NoCall /\ opening.answer # NoAnswer
    /\ opening' = NoCall
    /\ chart' = Whole(opening.answer, NoTime)
    /\ mixed' = (cursor # NoTime)
    /\ UNCHANGED <<now, rows, preset, rangeKey, cursor, call, table>>

FailDetail ==
    /\ opening # NoCall
    /\ opening' = NoCall
    /\ UNCHANGED <<now, rows, preset, rangeKey, chart, cursor, call, table, mixed>>

\* The nearest page there is.
PageFor(k, total) ==
    LET pages == Max({1, (total + PageSize - 1) \div PageSize})
    IN Max({1, Min({k, pages})})

\* listProgramConnectionsPage and listProgramEventsPage: newest rows first.
RowsOfPage(page, total) ==
    {i \in 1..total : total - i \in ((page - 1) * PageSize)..(page * PageSize - 1)}

\* The tables share nothing with the chart; the model shows them while there is none (a bound).
ShowPage(k) ==
    /\ chart = NoChart /\ call = NoCall /\ opening = NoCall
    /\ LET page == PageFor(k, Len(rows))
       IN table' = [page |-> page, total |-> Len(rows), rows |-> RowsOfPage(page, Len(rows))]
    /\ UNCHANGED <<now, rows, preset, rangeKey, chart, cursor, call, opening, mixed>>

Next ==
    \/ Tick
    \/ \E s \in Stream : Visit(s)
    \/ \E i \in DOMAIN rows : Connect(i) \/ Leave(i)
    \/ Refresh \/ Serve \/ Deliver \/ Fail
    \/ LoadDetail \/ ServeDetail \/ DeliverDetail \/ FailDetail
    \/ \E p \in {"all", "window"} : ChooseRange(p)
    \/ \E k \in {table.page - 1, table.page + 1} : ShowPage(k)

Spec == Init /\ [][Next]_vars

-----------------------------------------------------------------------------
(* Properties *)

TypeOK ==
    /\ now \in 0..MaxTime
    /\ rows \in Seq([stream : Stream, created : 0..MaxTime,
                     connected : 0..Never, disconnected : 0..Never])
    /\ preset \in {"all", "window"} /\ rangeKey \in {"all", "window", "none"}
    /\ cursor \in NoTime..MaxTime
    /\ mixed \in BOOLEAN
    /\ chart # NoChart => chart.width \in {Fine, Coarse}

\* The part of a chart that no longer changes is true: for every bucket but the newest, of which
\* the range has the whole, the connections made in it and the listeners there were at its start
\* are what the rows say, however often the chart was refreshed from its newest bucket on.
ClosedBucketsAreTrue ==
    chart # NoChart => \A t \in DOMAIN chart.points, s \in Stream :
        t # NewestBucket(chart) /\ t >= chart.from =>
          LET mine == {i \in DOMAIN rows : rows[i].stream = s} IN
            /\ chart.points[t][s].connections =
                 Cardinality({i \in mine : rows[i].created \in t..(t + chart.width - 1)})
            /\ chart.points[t][s].activeListeners =
                 Cardinality({i \in mine : rows[i].connected <= t /\ t < rows[i].disconnected})

\* No bucket is missing between the first and the newest one of a chart, and the next refresh
\* begins there.
ChartHasNoHole ==
    chart # NoChart =>
        /\ \A t \in DOMAIN chart.points :
               t # NewestBucket(chart) => t + chart.width \in DOMAIN chart.points
        /\ cursor \in {NoTime, NewestBucket(chart)}

\* However often the chart was refreshed, and whatever was in flight when the range was changed or
\* the program opened again, it is the one of the rows, as long as it was not mixed.  (The code
\* does not see to that: a refresh that spans less time than the chart is counted in finer
\* buckets, and overwrites a day with five minutes; and the summary of loadDetail may come after
\* that of a refetch which is newer, and is then continued from the refetch's newest bucket on.)
ChartIsTrue == ~ mixed => ClosedBucketsAreTrue /\ ChartHasNoHole

=============================================================================
