---------------------------- MODULE MCConfigApi -----------------------------
(***************************************************************************)
(* A finite instance of ConfigApi: namespaces "a" (1) and "a-b" (2), paths *)
(* "/b/" (1), "/b/c" (2) and "/d" (3), contents in normal form, in another *)
(* form, and malformed.  Bytes: 1 is '-', 2 is '/', 3 is '0', then letters *)
(* from 4 on.  Extensions are left out of the names: "/d" is in a format   *)
(* without a syntax check, the other paths are JSON or YAML.               *)
(***************************************************************************)
EXTENDS ConfigApi, TLC

CONSTANTS normal, raw, malformed, strict, open, d0

MCKeys == {<<1, 1>>, <<1, 2>>, <<1, 3>>, <<2, 3>>}

MCContents == {normal, raw, malformed}
MCNormalForm == [c \in {normal, raw} |-> normal]
MCMalformed == {malformed}

MCPathParts == <<<<1, 0>>, <<1, 2>>, <<3>>>>
MCDirectories == {<<>>, <<1>>}

MCNamespaceName == <<<<4>>, <<4, 1, 5>>>>
MCPathName == <<<<2, 5, 2>>, <<2, 5, 2, 6>>, <<2, 7>>>>

\* "/b/**", "/**"
MCPatternPaths == <<{1, 2}, {1, 2, 3}>>
MCWildcards == <<2, 2>>
MCAccepts == strict :> {} @@ open :> {normal, raw}

MCGrants ==
  [admin |-> [read |-> {0, 1, 2}, write |-> {0, 1, 2}, create |-> {0, 1, 2}, delete |-> {0, 1, 2}],
   dev |-> [read |-> {1}, write |-> {1}, create |-> {}, delete |-> {}]]

MCInitialDBs ==
  LET empty == createNamespace(createNamespace(EmptyDB, 1, d0), 2, d0)
  IN  {Create(empty, <<1, 2>>, normal)}

Token == [namespaces |-> {1, 2}, writer |-> TRUE]

Bundle1 == [namespace |-> 1, description |-> d0,
            configs |-> <<[path |-> 2, content |-> raw], [path |-> 3, content |-> malformed]>>]
File1 == WrapInZip(marshalBundle("namespace", Bundle1, "yaml"))
Bundle2 == [namespace |-> 2, description |-> d0, configs |-> <<[path |-> 3, content |-> raw]>>]

File2 == marshalPerNamespaceZip(<<Bundle2>>, "json")
AllFile == plainFile(marshalBundle("all", <<Bundle2, Bundle1>>, "json"))

put(k, c) == [kind |-> "put", key |-> wireBytes(k), value |-> c, ignoreValue |-> FALSE, prevKv |-> TRUE]

get(k, end, limit) ==
  [kind |-> "range", key |-> wireBytes(k), end |-> end, limit |-> limit, revision |-> 0, keysOnly |-> FALSE,
   countOnly |-> FALSE, order |-> "descend", target |-> "key"]

del(k, end) == [kind |-> "delete", key |-> wireBytes(k), end |-> end, prevKv |-> TRUE]

\* Create the config if it is absent, else read it and delete another one.
CreateIfAbsent(k, c) ==
  [compare |-> <<[key |-> wireBytes(k), end |-> <<>>, target |-> "version", result |-> "equal", want |-> 0]>>,
   success |-> <<put(k, c)>>,
   failure |-> <<get(k, <<>>, 0), del(<<1, 3>>, <<>>)>>]

\* A nested read before two writes; the second may meet a lock or a schema.
Nested ==
  [compare |-> <<>>,
   success |-> <<[kind |-> "txn", txn |-> [CreateIfAbsent(<<1, 2>>, raw) EXCEPT !.success = <<>>]],
                 put(<<2, 3>>, raw), put(<<1, 2>>, raw)>>,
   failure |-> <<>>]

WebRequests ==
  {[op |-> "create", caller |-> "dev", key |-> <<1, 3>>, content |-> raw],
   [op |-> "create", caller |-> "admin", key |-> <<1, 2>>, content |-> raw],
   [op |-> "create", caller |-> "dev", key |-> <<1, 1>>, content |-> malformed],
   [op |-> "update", caller |-> "dev", key |-> <<1, 2>>, content |-> raw],
   [op |-> "copy", caller |-> "admin", key |-> <<2, 3>>, source |-> <<1, 2>>],
   [op |-> "delete", caller |-> "admin", key |-> <<1, 2>>],
   [op |-> "lock", caller |-> "admin", key |-> <<1, 2>>, locked |-> TRUE],
   [op |-> "lock", caller |-> "dev", key |-> <<1, 2>>, locked |-> FALSE],
   [op |-> "create_namespace", caller |-> "admin", namespace |-> 2, description |-> d0],
   [op |-> "update_namespace", caller |-> "dev", namespace |-> 1, description |-> d0],
   [op |-> "lock_namespace", caller |-> "admin", namespace |-> 1, locked |-> TRUE],
   [op |-> "delete_namespace", caller |-> "admin", namespace |-> 2],
   [op |-> "attach", caller |-> "admin", namespace |-> 1, pattern |-> 1, schema |-> strict],
   [op |-> "attach", caller |-> "admin", namespace |-> 1, pattern |-> 2, schema |-> open],
   [op |-> "detach", caller |-> "admin", namespace |-> 1, pattern |-> 1],
   [op |-> "import", caller |-> "admin", file |-> File1, target |-> 1, mode |-> "overwrite", dryRun |-> FALSE],
   [op |-> "import", caller |-> "dev", file |-> File1, target |-> 1, mode |-> "skip", dryRun |-> TRUE],
   [op |-> "import", caller |-> "dev", file |-> File2, target |-> 0, mode |-> "fail", dryRun |-> TRUE],
   [op |-> "import", caller |-> "admin", file |-> AllFile, target |-> 0, mode |-> "fail", dryRun |-> FALSE]}

EtcdRequests ==
  {[op |-> "put", claims |-> Token, wire |-> put(<<1, 1>>, malformed)],
   [op |-> "put", claims |-> NoKV, wire |-> put(<<1, 2>>, raw)],
   [op |-> "delete_range", claims |-> Token, wire |-> del(<<1, 1>>, wireBytes(<<1, 3>>))],
   [op |-> "txn", claims |-> Token, wire |-> CreateIfAbsent(<<1, 2>>, normal)],
   [op |-> "txn", claims |-> Token, wire |-> Nested],
   [op |-> "txn", claims |-> Token,
    wire |-> [Nested EXCEPT !.failure = <<[put(<<1, 1>>, raw) EXCEPT !.ignoreValue = TRUE]>>]]}

MCRequests == WebRequests \cup EtcdRequests

\* "/a/b/c", "/a", the prefixes "/a/" and "/a-b/", everything from "/a/d" on.
MCWireRanges ==
  {[key |-> <<2, 4, 2, 5, 2, 6>>, end |-> <<>>], [key |-> <<2, 4>>, end |-> <<>>],
   [key |-> <<2, 4, 2>>, end |-> <<2, 4, 3>>],
   [key |-> <<2, 4, 1, 5, 2>>, end |-> <<2, 4, 1, 5, 3>>],
   [key |-> <<2, 4, 2, 5, 2>>, end |-> <<2, 4, 2, 7>>],
   [key |-> <<2, 4, 2, 7>>, end |-> <<0>>]}

MCReadRequests ==
  {get(<<1, 2>>, <<>>, 1), get(<<1, 1>>, wireBytes(<<1, 3>>), 1), get(<<1, 1>>, wireBytes(<<1, 3>>), 2),
   get(<<1, 1>>, <<0>>, 2), [get(<<1, 1>>, <<0>>, 0) EXCEPT !.keysOnly = TRUE]}

MCSymmetry == Permutations(Procs)

=============================================================================
