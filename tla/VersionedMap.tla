---------------------------- MODULE VersionedMap ----------------------------
(***************************************************************************)
(* What the config store promises its clients, without buckets: a map from *)
(* keys to values with a revision counter, the value of the whole map at   *)
(* every revision, and a set of frozen (locked) keys.                      *)
(*                                                                         *)
(* A commit is atomic and may hold several writes.  Each write takes one   *)
(* revision and either sets one key or removes a set of keys; what earlier *)
(* revisions held never changes, and no write touches a frozen key.        *)
(***************************************************************************)
EXTENDS Naturals, Functions

CONSTANTS Keys, Contents

VARIABLES
  kv,      \* the current map
  rev,     \* the number of writes so far
  log,     \* log[r]: the map after revision r
  frozen   \* the locked keys

vars == <<kv, rev, log, frozen>>

Init ==
  /\ kv = [k \in {} |-> k]
  /\ rev = 0
  /\ log = [r \in {0} |-> kv]
  /\ frozen = {}

\* F: the keys that may not be touched.
SetKey(F, old, new) ==
  \E k \in Keys \ F, c \in Contents :
    new = [x \in DOMAIN old \cup {k} |-> IF x = k THEN c ELSE old[x]]

RemoveKeys(F, old, new) ==
  \E S \in SUBSET (DOMAIN old \ F) :
    S # {} /\ new = Restrict(old, DOMAIN old \ S)

Write(F, old, new) == SetKey(F, old, new) \/ RemoveKeys(F, old, new)

\* One or more writes, applied in one step.
Commit ==
  /\ rev' \in Nat /\ rev' > rev
  /\ DOMAIN log' = 0 .. rev'
  /\ \A r \in 0 .. rev : log'[r] = log[r]
  /\ \A r \in rev .. rev' - 1 : Write(frozen, log'[r], log'[r + 1])
  /\ kv' = log'[rev']
  /\ UNCHANGED frozen

\* Locking and unlocking one key of the map is not a write.
Freeze(k) ==
  /\ k \in DOMAIN kv \ frozen
  /\ frozen' = frozen \cup {k}
  /\ UNCHANGED <<kv, rev, log>>

Unfreeze(k) ==
  /\ k \in frozen
  /\ frozen' = frozen \ {k}
  /\ UNCHANGED <<kv, rev, log>>

Next == Commit \/ \E k \in Keys : Freeze(k) \/ Unfreeze(k)

Spec == Init /\ [][Next]_vars
=============================================================================
