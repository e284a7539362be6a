-------------------------- MODULE MCWatchPipeline ---------------------------
(* A finite instance of WatchPipeline: two namespaces, a config in each.   *)
EXTENDS WatchPipeline, TLC

MCKeys == {<<1, 1>>, <<2, 1>>}

only(S) == [all |-> FALSE, namespaces |-> S]

everything == [all |-> TRUE, namespaces |-> {}]

single == [kind |-> "single", start |-> <<1, 1>>]
from   == [kind |-> "from", start |-> <<2, 1>>]
across == [kind |-> "bounded", start |-> <<1, 1>>, end |-> <<3, 1>>]

\* One key, and a range across a namespace its token does not name.
MCScopedRequests ==
  { [range |-> single, claims |-> only({1})], [range |-> across, claims |-> only({1, 3})] }

\* One key, and an open range that starts at the second key, with and without
\* the token for it.
MCWideRequests ==
  { [range |-> single, claims |-> everything], [range |-> from, claims |-> everything],
    [range |-> from, claims |-> only({1, 2})] }

\* Safety only: no liveness property is checked under it.
MCSymmetry == Permutations(Writers) \cup Permutations(Contents)
=============================================================================
