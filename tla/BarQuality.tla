----------------------------- MODULE BarQuality -----------------------------
(***************************************************************************)
(* How rows of a file become bars: columns are renamed and parsed          *)
(* (data/dictionary.py), those of the asked symbol, timeframe and interval *)
(* are kept, the quality checklist (data/checklist.py) refuses the whole   *)
(* fetch for one issue, and the rest is sorted (data/sources.py).  A raw   *)
(* row is a sequence of <<column, value>>; what raises yields no result.   *)
(***************************************************************************)
EXTENDS Ordering, SequencesExt

CONSTANTS Aliases,          \* field -> the column names it may have
          Missing,          \* an empty or absent value
          Unparsable        \* text that is no number or time, or nan, inf

Prices   == {"open", "high", "low", "close"}
Numbers  == Prices \cup {"volume"}
Required == Prices \cup {"symbol", "timeframe", "ts"}

\* The last column of a field wins; other columns are dropped.
RemapAliases(row) ==
    [f \in DOMAIN Aliases |->
        LET named == {i \in DOMAIN row : row[i][1] \in Aliases[f]}
        IN  IF named = {} THEN Missing ELSE row[Max(named)][2]]

Normalizable(row) ==
    LET raw == RemapAliases(row)
    IN  /\ \A f \in Required : raw[f] # Missing
        /\ \A f \in Numbers \cup {"ts"} : raw[f] # Unparsable

Normalize(row) ==
    LET raw == RemapAliases(row)
    IN  [raw EXCEPT !["volume"] = IF @ = Missing THEN 0 ELSE @]

\* The rows a source keeps; all of the file's rows are normalised first.
Selected(rows, symbol, timeframe, start, end) ==
    LET bars == [i \in DOMAIN rows |-> Normalize(rows[i])]
    IN  Subsequence(bars, {i \in DOMAIN bars :
                             /\ bars[i]["symbol"] = symbol
                             /\ bars[i]["timeframe"] = timeframe
                             /\ start <= bars[i]["ts"] /\ bars[i]["ts"] <= end})

Timed(rows, i) == {j \in 1..(i - 1) : rows[j]["ts"] \in Int}

MutTimeIssues(rows, i) ==
    {c \in {"NON_MONOTONIC_TS"} : i > 1 /\ rows[i]["ts"] < rows[i - 1]["ts"]}

TimeIssues(rows, i) ==
    {c \in {"NON_MONOTONIC_TS"} : /\ Timed(rows, i) # {}
                                  /\ rows[i]["ts"] < rows[Max(Timed(rows, i))]["ts"]}
    \cup {c \in {"DUPLICATE_TS"} :
             \E j \in Timed(rows, i) : rows[j]["ts"] = rows[i]["ts"]}

PriceIssues(r) ==
    LET outside(f) == ~(r["low"] <= r[f] /\ r[f] <= r["high"])
        priced == \A f \in Prices : r[f] \in Int
    IN  {c \in {"INVALID_RANGE"} : /\ r["high"] \in Int /\ r["low"] \in Int
                                   /\ r["high"] < r["low"]}
        \cup {c \in {"OPEN_OUT_OF_RANGE"} : priced /\ outside("open")}
        \cup {c \in {"CLOSE_OUT_OF_RANGE"} : priced /\ outside("close")}

\* The issues of a normalised row.  A required field that is missing has raised
\* before, and an unexpected one was dropped with its column.
Issues(rows, i) ==
    LET r == rows[i]
    IN  IF r["ts"] \notin Int THEN {"INVALID_TS"}
        ELSE {c \in {"INVALID_NUMERIC"} : \E f \in Numbers : r[f] \notin Int}
             \cup PriceIssues(r)
             \cup {c \in {"NEGATIVE_VOLUME"} : r["volume"] \in Int /\ r["volume"] < 0}
             \cup TimeIssues(rows, i)

Passed(rows) == \A i \in DOMAIN rows : Issues(rows, i) = {}

\* A fetch succeeds with sorted bars, or raises.
Fetchable(rows, symbol, timeframe, start, end) ==
    /\ \A i \in DOMAIN rows : Normalizable(rows[i])
    /\ Passed(Selected(rows, symbol, timeframe, start, end))

RowsToBars(rows, symbol, timeframe, start, end) ==
    LET kept == Selected(rows, symbol, timeframe, start, end)
    IN  SortedBy(kept, [i \in DOMAIN kept |-> kept[i]["ts"]])

=============================================================================
