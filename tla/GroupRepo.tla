------------------------------ MODULE GroupRepo ------------------------------
(***************************************************************************)
(* The group repository: a function from names to records.  A record keeps *)
(* the system flag and the counters of the three parts of a group that are *)
(* versioned; display texts and timestamps are left out.  Names are        *)
(* numbers in their byte order.                                            *)
(***************************************************************************)
EXTENDS Naturals, FiniteSets, Sequences

NewGroup(system) == [system |-> system, metadata |-> 1, members |-> 0, permissions |-> 0]

Names(gs) == DOMAIN gs

EnsureMutable(g) == ~g.system

canCreate(gs, name) == name \notin DOMAIN gs

Create(gs, name, g) == [n \in DOMAIN gs \cup {name} |-> IF n = name THEN g ELSE gs[n]]

\* The counters are replaced; the stored system flag stays.
Update(gs, name, g) == [gs EXCEPT ![name] = [g EXCEPT !.system = gs[name].system]]

Delete(gs, name) == [n \in DOMAIN gs \ {name} |-> gs[n]]

sortGroups(names, desc) ==
  LET before(a, b) == IF desc THEN a > b ELSE a < b
  IN  [k \in 1 .. Cardinality(names) |->
         CHOOSE a \in names : Cardinality({b \in names : before(b, a)}) = k - 1]

\* At most limit names from offset on; limit 0 is no limit.
paginateGroups(s, offset, limit) ==
  IF offset >= Len(s) THEN <<>>
  ELSE SubSeq(s, offset + 1, IF limit > 0 /\ offset + limit < Len(s)
                             THEN offset + limit ELSE Len(s))

\* wildcard: every group; otherwise the groups named in the filter.
List(gs, wildcard, names, desc, offset, limit) ==
  LET matches == IF wildcard THEN DOMAIN gs ELSE names \cap DOMAIN gs
  IN  [page  |-> paginateGroups(sortGroups(matches, desc), offset, limit),
       total |-> Cardinality(matches)]
=============================================================================
