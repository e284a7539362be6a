------------------------------ MODULE EtcdKeys ------------------------------
(***************************************************************************)
(* Keys of the etcd API and keys of the buckets, byte by byte.             *)
(*                                                                         *)
(* A client orders keys by the bytes of "/<namespace><path>"; the buckets  *)
(* order them by the bytes of "<namespace>\0<path>".  Requests name ranges *)
(* in the first order, scans run in the second.  A byte is a number; NUL   *)
(* and Slash are the two that matter, and bytes below Slash ('-') can be   *)
(* part of a namespace name.                                               *)
(***************************************************************************)
EXTENDS ConfigReads

CONSTANTS
  NamespaceName, \* [namespaces -> sequences of bytes]
  PathName       \* [paths -> sequences of bytes, the first one Slash]

NUL   == 0
Slash == 2

BytesLess(s, t) ==
  \E i \in 0 .. Len(s) :
    /\ i < Len(t) /\ SubSeq(s, 1, i) = SubSeq(t, 1, i)
    /\ i = Len(s) \/ s[i + 1] < t[i + 1]

ProperPrefix(s, t) == Len(s) < Len(t) /\ SubSeq(t, 1, Len(s)) = s

\* "<ns>\0<path>" and its inverse
storedKey(ns, path) == ns \o <<NUL>> \o path

parseConfigKey(key) ==
  LET i == CHOOSE j \in DOMAIN key : key[j] = NUL /\ \A h \in 1 .. j - 1 : key[h] # NUL
  IN  <<SubSeq(key, 1, i - 1), SubSeq(key, i + 1, Len(key))>>

JoinKey(ns, path) == <<Slash>> \o ns \o path

slashes(key) == {i \in 2 .. Len(key) : key[i] = Slash}

\* "/ns/p" is namespace ns and path "/p"; "/ns" is the path "/" of ns.
canSplitKey(key) ==
  /\ key # <<>> /\ key[1] = Slash
  /\ (IF slashes(key) = {} THEN Len(key) ELSE Min(slashes(key)) - 1) > 1

SplitKey(key) ==
  IF slashes(key) = {} THEN [ns |-> SubSeq(key, 2, Len(key)), path |-> <<Slash>>]
  ELSE [ns |-> SubSeq(key, 2, Min(slashes(key)) - 1),
        path |-> SubSeq(key, Min(slashes(key)), Len(key))]

canSplitRange(key, end) == canSplitKey(key) /\ (end \in {<<>>, <<NUL>>} \/ canSplitKey(end))

\* The bounds of a scan: a single key, everything from start on, or up to end.
buildRangeParams(key, end) ==
  LET s == SplitKey(key)
  IN  [start |-> storedKey(s.ns, s.path), single |-> end = <<>>, scanAll |-> end = <<NUL>>,
       end |-> IF end \in {<<>>, <<NUL>>} THEN <<>> ELSE storedKey(SplitKey(end).ns, SplitKey(end).path)]

SplitRange(key, end) == buildRangeParams(key, end)

shouldBreakRange_inclusive(stored, rp) ==
  IF rp.single THEN stored # rp.start ELSE ~rp.scanAll /\ BytesLess(rp.end, stored)

\* The scan goes from the first key >= start until this holds.
shouldBreakRange(stored, rp) ==
  IF rp.single THEN stored # rp.start ELSE ~rp.scanAll /\ ~BytesLess(stored, rp.end)

storedBytes(k) == storedKey(NamespaceName[k[1]], PathName[k[2]])

wireBytes(k) == JoinKey(NamespaceName[k[1]], PathName[k[2]])

scanned(d, rp) ==
  {k \in DOMAIN d.meta : ~BytesLess(storedBytes(k), rp.start) /\ ~shouldBreakRange(storedBytes(k), rp)}

\* What the protocol promises: the keys with key <= k < end.
requested(d, key, end) ==
  {k \in DOMAIN d.meta :
     CASE end = <<>>    -> wireBytes(k) = key
       [] end = <<NUL>> -> ~BytesLess(wireBytes(k), key)
       [] OTHER         -> ~BytesLess(wireBytes(k), key) /\ BytesLess(wireBytes(k), end)}

\* The two orders differ for two namespaces only when one name goes on from
\* the other with a byte below the slash.
ordersDiffer(m, n) ==
  \/ ProperPrefix(m, n) /\ n[Len(m) + 1] < Slash
  \/ ProperPrefix(n, m) /\ m[Len(n) + 1] < Slash

=============================================================================
