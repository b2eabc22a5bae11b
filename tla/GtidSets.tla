------------------------------- MODULE GtidSets -------------------------------
(***************************************************************************)
(* The arithmetic of GTID sets (completeness/gtid.ts): for each key, a     *)
(* MySQL source or a MariaDB domain, a sequence of closed intervals of     *)
(* transaction numbers.                                                    *)
(***************************************************************************)
EXTENDS Integers, Sequences, SequencesExt, FiniteSetsExt

\* A token of a GTID string: a source's identity, the server a MariaDB token
\* names as well, and the ranges that follow; NoRange is a range that does not
\* parse.
NoRange == <<>>

Kept(ivs, r) == IF r = NoRange THEN ivs ELSE Append(ivs, r)
Parsed(ranges) == FoldLeft(Kept, <<>>, ranges)

\* MariaDB names exactly one transaction, and is keyed by domain.
ParseToken(engine, token) ==
  IF engine = "mariadb"
  THEN [key |-> token.source,
        intervals |-> IF /\ Len(token.ranges) = 1 /\ token.ranges[1] # NoRange
                         /\ token.ranges[1][1] = token.ranges[1][2]
                      THEN token.ranges ELSE <<>>]
  ELSE [key |-> token.source, intervals |-> Parsed(token.ranges)]

Before(a, b) == a[1] < b[1] \/ (a[1] = b[1] /\ a[2] < b[2])

\* The intervals sorted: each is placed before the first that comes after it.
Position(sorted, iv) == Min({i \in DOMAIN sorted : Before(iv, sorted[i])} \cup {Len(sorted) + 1})
Placed(sorted, iv) == InsertAt(sorted, Position(sorted, iv), iv)
Sorted(ivs) == FoldLeft(Placed, <<>>, ivs)

FaultyMerged(out, cur) ==
  IF out # <<>> /\ cur[1] <= Last(out)[2] + 2
  THEN [out EXCEPT ![Len(out)][2] = IF cur[2] > @ THEN cur[2] ELSE @]
  ELSE Append(out, cur)
Merged(out, cur) ==
  IF out # <<>> /\ cur[1] <= Last(out)[2] + 1
  THEN [out EXCEPT ![Len(out)][2] = IF cur[2] > @ THEN cur[2] ELSE @]
  ELSE Append(out, cur)

MergeIntervals(ivs) == FoldLeft(Merged, <<>>, Sorted(ivs))

\* The parts of the ranges that an interval does not cover.
Uncovered(ranges, c) ==
  UNION {IF c[2] < r[1] \/ c[1] > r[2] THEN {r}
         ELSE (IF c[1] > r[1] THEN {<<r[1], c[1] - 1>>} ELSE {})
              \cup (IF c[2] < r[2] THEN {<<c[2] + 1, r[2]>>} ELSE {})
         : r \in ranges}

SubtractRange(range, covers) ==
  {r \in FoldLeft(Uncovered, {range}, covers) : r[1] <= r[2]}

-----------------------------------------------------------------------------
(* A GTID set: [key -> its intervals], a key without intervals is absent.  *)

AddToken(set, engine, token) ==
  LET parsed == ParseToken(engine, token)
  IN IF parsed.intervals = <<>> THEN set
     ELSE [set EXCEPT ![parsed.key] = MergeIntervals(@ \o parsed.intervals)]

ParseSet(empty, engine, tokens) ==
  FoldLeft(LAMBDA set, token : AddToken(set, engine, token), empty, tokens)

Has(set, key) == set[key] # <<>>

HighWatermark(set, key) == Last(set[key])[2]

ContainsGtid(set, key, n) == \E i \in DOMAIN set[key] : set[key][i][1] <= n /\ n <= set[key][i][2]

Count(set) ==
  FoldSet(LAMBDA k, total :
    total + FoldLeft(LAMBDA n, iv : n + iv[2] - iv[1] + 1, 0, set[k]), 0, DOMAIN set)

InternalGapKeys(set) == {k \in DOMAIN set : Len(set[k]) > 1}

\* What the source executed at or below the watermark, and was not consumed.
MissingBelowWatermark(set, source) ==
  UNION {UNION {
      LET hi == IF source[k][i][2] < HighWatermark(set, k) THEN source[k][i][2]
                ELSE HighWatermark(set, k)
      IN {[key |-> k, first |-> iv[1], last |-> iv[2]] :
            iv \in IF source[k][i][1] > hi THEN {}
                   ELSE SubtractRange(<<source[k][i][1], hi>>, set[k])}
      : i \in DOMAIN source[k]}
    : k \in {k \in DOMAIN source : Has(source, k) /\ Has(set, k)}}
=============================================================================
