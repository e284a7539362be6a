------------------------------ MODULE Schemas -------------------------------
(***************************************************************************)
(* Schema attachments and content checks: which JSON schema applies to a   *)
(* path, what it accepts, and what the content pipeline does with a body   *)
(* before it is stored.                                                    *)
(*                                                                         *)
(* The attachment bucket is a function from <<namespace, pattern>> to      *)
(* [schema, created].  Patterns are ranks in byte order; a pattern stands  *)
(* for the paths its glob matches and for its number of wildcards, and one *)
(* that does not compile matches nothing.  created is the order of         *)
(* creation.  A schema is the set of well-formed contents it accepts.      *)
(* Compiled schemas and patterns are cached by value, so the caches have   *)
(* no effect on the outcome.                                               *)
(***************************************************************************)
EXTENDS ConfigReads, Integers

CONSTANTS
  PatternPaths, \* [patterns -> sets of paths]
  Wildcards,    \* [patterns -> number of wildcards]
  Accepts,      \* [schemas -> sets of contents]
  NoSchema      \* findBestMatch found nothing

-----------------------------------------------------------------------------
(* The repository.                                                         *)

schemaKey(n, p) == <<n, p>>

nextCreated(sch) == IF DOMAIN sch = {} THEN 1 ELSE Max({sch[x].created : x \in DOMAIN sch}) + 1

\* An upsert: a pattern that is attached again keeps its creation time.
Attach(sch, n, p, schema) ==
  LET key == schemaKey(n, p)
  IN  Put(sch, key, [schema |-> schema,
                     created |-> IF key \in DOMAIN sch THEN sch[key].created
                                 ELSE nextCreated(sch)])

canDetach(sch, n, p) == schemaKey(n, p) \in DOMAIN sch

Detach(sch, n, p) == Remove(sch, {schemaKey(n, p)})

\* The attachments of a namespace, in the order of their patterns.
ListSchemas(sch, n) == {x \in DOMAIN sch : x[1] = n}

-----------------------------------------------------------------------------
(* The validator.                                                          *)

specificity(p) == -Wildcards[p]

\* The fewest wildcards win, then the older attachment.
findBestMatch(sch, n, path) ==
  LET hits == {x \in ListSchemas(sch, n) : path \in PatternPaths[x[2]]}
      best == {x \in hits : \A y \in hits : specificity(x[2]) >= specificity(y[2])}
  IN  IF hits = {} THEN NoSchema
      ELSE CHOOSE x \in best : \A y \in best : sch[x].created <= sch[y].created

\* Content that does not parse cannot be validated, which is an error too.
toJSONValue(c) == c \notin Malformed

Validate(sch, n, path, c) ==
  \/ path \in OtherPaths
  \/ findBestMatch(sch, n, path) = NoSchema
  \/ toJSONValue(c) /\ c \in Accepts[sch[findBestMatch(sch, n, path)].schema]

GetEffective(sch, n, path) == findBestMatch(sch, n, path)

\* The pattern and the schema that apply to a config.
effective(sch, k) ==
  LET best == GetEffective(sch, k[1], k[2])
  IN  IF best = NoSchema THEN NoSchema ELSE [pattern |-> best[2], schema |-> sch[best].schema]

-----------------------------------------------------------------------------
(* The content pipeline of the web API.                                    *)

ValidateContent(path, c) == path \in OtherPaths \/ c \notin Malformed

Normalize(path, c) == IF path \in OtherPaths \/ c \in Malformed THEN c ELSE NormalForm[c]

\* No empty path component: a path that ends in a slash, or doubles one, is
\* refused by the web API but not by the etcd API.
ValidatePath(path) == 0 \notin Range(PathParts[path])

ValidateAndNormalize(path, c) ==
  [valid |-> ValidateContent(path, c), content |-> Normalize(path, c)]

\* ValidateConfig: what a write of c would meet, without writing it.
ValidateUseCase(sch, n, path, c) ==
  LET result == ValidateAndNormalize(path, c)
  IN  result.valid /\ Validate(sch, n, path, result.content)

=============================================================================
