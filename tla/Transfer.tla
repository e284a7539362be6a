------------------------------ MODULE Transfer ------------------------------
(***************************************************************************)
(* Export and import of bundles as functions on the database.              *)
(*                                                                         *)
(* A NamespaceBundle is [namespace, description, configs] where configs is *)
(* a sequence of [path, content]; an AllBundle is a sequence of them.  A   *)
(* document is the encoding of a bundle, of all bundles or of the index of *)
(* an archive, and a file is a document or an archive of documents.        *)
(* Import works config by config, with a read and a write transaction for  *)
(* each: lookUp is the read, and importConfig the write that follows on    *)
(* what was read.  Operators named X_fault are faulty variants of X.       *)
(***************************************************************************)
EXTENDS Schemas

CONSTANTS
  Missing,         \* the config did not exist when it was looked up
  EmptyDescription \* the empty description of a namespace

\* The empty namespace name of a request or a document.
NoNamespace == 0

-----------------------------------------------------------------------------
(* Export.                                                                 *)

BundleConfig(c) == [path |-> c.summary.key[2], content |-> c.content]

buildNamespaceBundle_onePage(d, n) ==
  LET configs == Paginate(ListAllByNamespace(d, n), 0, 1)
  IN  [namespace |-> n, description |-> d.namespaces[n].description,
       configs |-> [i \in DOMAIN configs |-> BundleConfig(configs[i])]]

\* Configs sorted by path; versions, revisions and locks are left out.
buildNamespaceBundle(d, n) ==
  LET configs == ListAllByNamespace(d, n)
  IN  [namespace |-> n, description |-> d.namespaces[n].description,
       configs |-> [i \in DOMAIN configs |-> BundleConfig(configs[i])]]

canExportNamespace(d, n) == n \in DOMAIN d.namespaces

-----------------------------------------------------------------------------
(* Files.                                                                  *)

\* JSON unless YAML is asked for.
marshalBundle(kind, value, enc) ==
  [kind |-> kind, enc |-> IF enc = "yaml" THEN "yaml" ELSE "json", value |-> value]

plainFile(doc) == [zip |-> FALSE, entries |-> <<doc>>]

WrapInZip(doc) == [zip |-> TRUE, entries |-> <<doc>>]

writeZipNamespace(bundle, enc) == marshalBundle("namespace", bundle, enc)

\* The index holds the names alone.
writeZipIndex(all, enc) == marshalBundle("index", [i \in DOMAIN all |-> all[i].namespace], enc)

\* One entry for each namespace, the index last.
marshalPerNamespaceZip(all, enc) ==
  [zip |-> TRUE, entries |-> Append([i \in DOMAIN all |-> writeZipNamespace(all[i], enc)], writeZipIndex(all, enc))]

ExportNamespace(d, n, asZip, enc) ==
  LET doc == marshalBundle("namespace", buildNamespaceBundle(d, n), enc)
  IN  IF asZip THEN WrapInZip(doc) ELSE plainFile(doc)

\* Namespaces the caller may not read are left out without an error.
buildAllBundle(d, scope) ==
  LET names == SelectSeq(ListAll(d), LAMBDA n : n \in scope)
  IN  [i \in DOMAIN names |-> buildNamespaceBundle(d, names[i])]

ExportAll(d, scope, asZip, enc, perNamespace) ==
  LET all == buildAllBundle(d, scope)
      doc == marshalBundle("all", all, enc)
  IN  CASE asZip /\ perNamespace -> marshalPerNamespaceZip(all, enc)
        [] asZip /\ ~perNamespace -> WrapInZip(doc)
        [] OTHER -> plainFile(doc)

\* The first entry of an archive; the others are not looked at.
UnzipIfNeeded(file) == file.entries[1]

\* Names where bundles are expected do not decode; a document of another kind
\* without that field decodes to no namespaces.
canUnmarshalAllBundle(file) ==
  LET doc == UnzipIfNeeded(file) IN doc.kind = "index" => doc.value = <<>>

unmarshalAllBundle(file) ==
  LET doc == UnzipIfNeeded(file) IN IF doc.kind = "all" THEN doc.value ELSE <<>>

\* A document of another kind decodes to a bundle without name and configs.
unmarshalNamespaceBundle(file) ==
  LET doc == UnzipIfNeeded(file)
  IN  IF doc.kind = "namespace" THEN doc.value
      ELSE [namespace |-> NoNamespace, description |-> EmptyDescription, configs |-> <<>>]

-----------------------------------------------------------------------------
(* Import.                                                                 *)

ImportReport == [created |-> 0, updated |-> 0, skipped |-> 0, failed |-> 0]

AddError(report) == [report EXCEPT !.failed = @ + 1]

\* The bundle's own name is overwritten.
importToTarget(file, target) == <<[unmarshalNamespaceBundle(file) EXCEPT !.namespace = target]>>

\* All namespaces if the file has several, else the one it names.
canImportInferredScope(file) ==
  /\ canUnmarshalAllBundle(file)
  /\ unmarshalAllBundle(file) # <<>> \/ unmarshalNamespaceBundle(file).namespace # NoNamespace

importInferredScope(file) ==
  LET all == unmarshalAllBundle(file) IN IF all # <<>> THEN all ELSE <<unmarshalNamespaceBundle(file)>>

\* The namespace whose write permission the import asks for besides the one of
\* the request: none with a target, all of them for a file with several.
requireTransferWrite(file, target) ==
  CASE target # NoNamespace -> target
    [] target = NoNamespace /\ unmarshalAllBundle(file) # <<>> -> NoNamespace
    [] OTHER -> unmarshalNamespaceBundle(file).namespace

canImport(file, target) == target # NoNamespace \/ canImportInferredScope(file)

\* The bundles of an import, one after the other.
Import(file, target) == IF target # NoNamespace THEN importToTarget(file, target) ELSE importInferredScope(file)

\* configs.Get: the meta of the existing config, or Missing.
lookUp(d, k) == IF k \in DOMAIN d.meta THEN d.meta[k] ELSE Missing

handleConflict_blind(d, k, c, existing, mode, dryRun, report) ==
  CASE mode = "skip" -> [db |-> d, report |-> [report EXCEPT !.skipped = @ + 1]]
    [] mode = "fail" -> [db |-> d, report |-> AddError(report)]
    [] mode = "overwrite" /\ dryRun -> [db |-> d, report |-> [report EXCEPT !.updated = @ + 1]]
    [] OTHER -> [db |-> IF canUpdate(d, k, existing.version) THEN updateConfigTx(d, k, c) ELSE d,
                 report |-> [report EXCEPT !.updated = @ + 1]]

\* An overwrite is an Update with the version that was read.
handleConflict(d, k, c, existing, mode, dryRun, report) ==
  CASE mode = "skip" -> [db |-> d, report |-> [report EXCEPT !.skipped = @ + 1]]
    [] mode = "fail" -> [db |-> d, report |-> AddError(report)]
    [] mode = "overwrite" /\ dryRun -> [db |-> d, report |-> [report EXCEPT !.updated = @ + 1]]
    [] mode = "overwrite" /\ ~dryRun /\ canUpdate(d, k, existing.version) ->
         [db |-> updateConfigTx(d, k, c), report |-> [report EXCEPT !.updated = @ + 1]]
    [] OTHER -> [db |-> d, report |-> AddError(report)]

\* A dry run counts what it would do and writes nothing.
importConfig(d, k, c, existing, mode, dryRun, report) ==
  CASE existing # Missing -> handleConflict(d, k, c, existing, mode, dryRun, report)
    [] existing = Missing /\ dryRun -> [db |-> d, report |-> [report EXCEPT !.created = @ + 1]]
    [] existing = Missing /\ ~dryRun /\ canCreate(d, k) ->
         [db |-> Create(d, k, c), report |-> [report EXCEPT !.created = @ + 1]]
    [] OTHER -> [db |-> d, report |-> AddError(report)]

\* The namespace is looked up and then created: two transactions.
namespaceMissing(d, n) == n \notin DOMAIN d.namespaces

canEnsureNamespace(d, n) == n \notin DOMAIN d.namespaces

ensureNamespace(d, n, desc) == createNamespace(d, n, desc)

importNamespaceBundle(d, bundle, mode, dryRun, report) ==
  LET start  == IF dryRun \/ ~namespaceMissing(d, bundle.namespace) THEN d
                ELSE ensureNamespace(d, bundle.namespace, bundle.description)
      step[i \in 0 .. Len(bundle.configs)] ==
        IF i = 0 THEN [db |-> start, report |-> report]
        ELSE LET bc == bundle.configs[i]
                 k  == <<bundle.namespace, bc.path>>
             IN  importConfig(step[i - 1].db, k, bc.content, lookUp(step[i - 1].db, k),
                              mode, dryRun, step[i - 1].report)
  IN  step[Len(bundle.configs)]

\* An import that nobody disturbs: one report over all bundles.
importAllBundle(d, bundles, mode, dryRun) ==
  LET step[i \in 0 .. Len(bundles)] ==
        IF i = 0 THEN [db |-> d, report |-> ImportReport]
        ELSE importNamespaceBundle(step[i - 1].db, bundles[i], mode, dryRun, step[i - 1].report)
  IN  step[Len(bundles)]

=============================================================================
