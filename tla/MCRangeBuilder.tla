--------------------------- MODULE MCRangeBuilder ---------------------------
(* The range builder on 2-bit handles (-2..1), for TLC.  Constants are in  *)
(* half units: -4 is MinInt, 2 is MaxInt, -1 and 1 lie between integers.  *)
EXTENDS RangeBuilder

MCConsts == {-4, -1, 0, 1, 2}
=============================================================================
