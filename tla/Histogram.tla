----------------------------- MODULE Histogram -----------------------------
(***************************************************************************)
(* The histograms of the pages per hour, minute and second                 *)
(* (utils/histogram.cxx), fed by cron and shown by the webserver: rings of *)
(* intervals, each of `period' calls of cron.                              *)
(***************************************************************************)
EXTENDS Integers, FiniteSetsExt, SequencesExt

CONSTANTS Size,         \* SIZE, the intervals that are kept
          LeastRows,    \* rows shown even before there are as many intervals
          Periods,      \* name of a histogram -> its period, in calls
          Hits,         \* <<pages, successes>> of a second
          Seconds       \* bound on the calls of cron

ASSUME HistogramAssumption ==
    /\ Size \in Nat \ {0, 1} /\ LeastRows \in 1 .. Size /\ "second" \in DOMAIN Periods
    /\ \A h \in DOMAIN Periods : Periods[h] \in Nat \ {0}

VARIABLES histo,        \* name -> Histogram
          pages, successes, last,   \* counters, and what histoHit saw of them
          hits                      \* history: a pair a call
histoVars == <<histo, pages, successes, last, hits>>

NoHits == [i \in 0 .. Size - 1 |-> 0]
InitHistogram ==
    /\ histo = [h \in DOMAIN Periods |->
                   [tab1 |-> NoHits, tab2 |-> NoHits, beg |-> 0, end |-> 0,
                    tick |-> 0, count |-> 0]]
    /\ pages = 0 /\ successes = 0 /\ last = <<0, 0>>
    /\ hits = <<>>

After(i) == (i + 1) % Size

\* (of IncrementEnd) an interval is not emptied before it is used again
IncrementOnly(h) ==
    LET end == After(h.end)
    IN [h EXCEPT !.end = end, !.beg = IF end <= @ THEN After(@) ELSE @]

\* A new interval begins, on the oldest when there is no room.
IncrementEnd(h) ==
    LET end == After(h.end)
    IN [h EXCEPT !.end = end,
                 !.beg = IF end <= @ THEN After(@) ELSE @,
                 !.tab1[end] = 0, !.tab2[end] = 0]

PageHit(h, period, x, y) ==
    LET g == [h EXCEPT !.tab1[h.end] = @ + x, !.tab2[h.end] = @ + y]
    IN IF g.count + 1 >= period
       THEN IncrementEnd([g EXCEPT !.tick = @ + 1, !.count = 0])
       ELSE [g EXCEPT !.count = @ + 1]

\* histoHit gives the histogram of the seconds the pages in both places.
Second(name, x, y) == IF name = "second" THEN x ELSE y
HistoHit(x, y) ==
    histo' = [h \in DOMAIN Periods |->
                 PageHit(histo[h], Periods[h], x, Second(h, x, y))]

\* A second: pages are loaded, then cron calls histoHit(pages, answers[success]).
CronHit ==
    /\ Len(hits) < Seconds
    /\ \E hit \in Hits :
          /\ pages' = pages + hit[1] /\ successes' = successes + hit[2]
          /\ hits' = Append(hits, hit)
    /\ HistoHit(pages' - last[1], successes' - last[2])
    /\ last' = <<pages', successes'>>

\* What Histogram::write shows: <<successes, pages>>, the oldest interval first.
Rows(h) == Max({LeastRows, Min({Size, h.tick + 1})})
Shown(h) == [c \in 1 .. Rows(h) |-> LET i == (h.beg + c - 1) % Size
                                   IN <<h.tab2[i], h.tab1[i]>>]
-----------------------------------------------------------------------------
SumOf(s, k) == FoldLeft(LAMBDA total, hit : total + hit[k], 0, s)

\* A graph shows the last intervals and the one that is running, each with what
\* was loaded in its calls of cron: none is lost, doubled or out of place when
\* the ring wraps round. (In the graph of the seconds the successes are the
\* pages: histogram.cxx:79.)
GraphsRight ==
    \A h \in DOMAIN Periods :
        LET P == Periods[h]
            ticks == Len(hits) \div P
            first == Max({0, ticks + 1 - Size})
            Of(n) == SubSeq(hits, n * P + 1, Min({Len(hits), (n + 1) * P}))
        IN \A c \in DOMAIN Shown(histo[h]) :
              Shown(histo[h])[c] =
                 <<SumOf(Of(first + c - 1), IF h = "second" THEN 1 ELSE 2),
                   SumOf(Of(first + c - 1), 1)>>

\* histogram.cxx:156 heads the rows "Time, Success, Total": the second number
\* of a row is the pages that were a success.
SuccessShown ==
    \A h \in DOMAIN Periods :
        SumOf(Shown(histo[h]), 1) <= successes
=============================================================================
