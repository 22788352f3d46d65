--------------------------- MODULE MCCacheBackend ---------------------------
(* Two processes and two keys of two models. Two ticks make a day, so that   *)
(* three days pass at most and a boundary day has a morning and an evening.  *)
EXTENDS CacheBackend

CONSTANTS k1, k2, opus, haiku

MCModelOf == [k \in Keys |-> IF k = k1 THEN opus ELSE haiku]

=============================================================================
