---------------------------- MODULE BarAggregator ----------------------------
(***************************************************************************)
(* From the data sources to larger bars: several sources of minute bars    *)
(* merged (data/sources.py CompositeBarDataSource), gaps filled with flat  *)
(* bars and the minutes summed up by bucket (aggregation/                  *)
(* bar_aggregator.py).  Symbol and timeframe are what the sources filter   *)
(* by, so every bar here has the same.                                     *)
(***************************************************************************)
EXTENDS Ordering, SequencesExt

CONSTANTS Minute,           \* a minute in ticks: a timestamp may lie between two
          Bucket            \* the larger bar in ticks

ASSUME BucketAssumption ==
    /\ Minute \in Nat \ {0}
    /\ Bucket \in Nat \ {0} /\ (Bucket % Minute) = 0 /\ Bucket >= 2 * Minute

\* What a source returns of its bars: those of the asked interval.
FetchBars(bars, start, end) == {b \in bars : start <= b.ts /\ b.ts <= end}

InTime(bars) == Enumerated(bars, {p \in bars \X bars : p[1].ts < p[2].ts})

MutComposite(sources) ==
    LET first(ts) == Min({k \in DOMAIN sources : \E b \in sources[k] : b.ts = ts})
    IN  InTime({b \in UNION Range(sources) : b \in sources[first(b.ts)]})

\* One bar per timestamp: of the last source that has one, in time order.
Composite(sources) ==
    LET latest(ts) == Max({k \in DOMAIN sources : \E b \in sources[k] : b.ts = ts})
        kept == {b \in UNION Range(sources) : b \in sources[latest(b.ts)]}
    IN  InTime(kept)

\* The missing whole minutes between two bars, flat at the last close.
Fillers(prev, bar) ==
    [i \in 1..Max({0, (bar.ts - prev.ts) \div Minute - 1}) |->
        [ts |-> prev.ts + i * Minute, open |-> prev.close, high |-> prev.close,
         low |-> prev.close, close |-> prev.close, volume |-> 0]]

Extended(out, bar) ==
    IF out = <<>> THEN <<bar>> ELSE out \o Fillers(Last(out), bar) \o <<bar>>

FillGaps(bars) == FoldLeft(Extended, <<>>, bars)

FloorToBucket(ts) == ts - (ts % Bucket)

\* A bar starts a bucket, or adds to the one that is open.
Started(bar) ==
    [bar EXCEPT !.ts = FloorToBucket(@), !.high = Max({@, bar.open}),
                !.low = Min({@, bar.open})]

Added(b, bar) ==
    [b EXCEPT !.high = Max({@, bar.high}), !.low = Min({@, bar.low}),
              !.close = bar.close, !.volume = @ + bar.volume]

Collected(out, bar) ==
    IF out # <<>> /\ Last(out).ts = FloorToBucket(bar.ts)
    THEN Append(Front(out), Added(Last(out), bar))
    ELSE Append(out, Started(bar))

AggregateStream(stream) == FoldLeft(Collected, <<>>, stream)

Aggregate(bars, gapFill) ==
    AggregateStream(IF gapFill THEN FillGaps(bars) ELSE bars)

=============================================================================
