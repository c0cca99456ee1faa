---------------------------- MODULE ColumnMappings -----------------------------
(***************************************************************************)
(* How an import finds its columns.  A user saves a mapping, from the      *)
(* fields of an expense to the columns of his files, overwrites it under   *)
(* the same name, and deletes it; an upload may name it, and the import    *)
(* job keeps what the mapping said then.  Workers read the file later,     *)
(* perhaps more than once (ImportJob has the deliveries).                  *)
(*                                                                         *)
(* A mapping is a function from some of the fields to columns.  A file is  *)
(* a record: what it is, its columns, whether a line of it is ragged, and  *)
(* the columns in which its one row has a value that can be used.          *)
(***************************************************************************)
EXTENDS Naturals, FiniteSets

CONSTANTS
    Required, Optional,    \* REQUIRED_CSV_FIELDS, OPTIONAL_CSV_FIELDS
    Unusable,              \* a value that is blank or not a string
    NoMapping,             \* NULL: no mapping
    MappingNames,
    Mappings, CsvFiles,    \* what the users send
    Imports,
    MaxMappings,           \* bound: the mappings ever saved under a new id
    MaxReads               \* bound: how often an import is read

VARIABLES
    mappings,    \* column_mappings, a set of rows [id, name, mapping]
    saved,       \* the number of ids used
    csvImport,   \* csvImport[i]: the request, then the import_jobs row
    named,       \* history: named[i] is the id the upload named
    asked,       \* history: asked[i] is what the mapping said at the upload
    outcomes     \* outcomes[i]: what came of each read of the file

mappingVars == <<mappings, saved, csvImport, named, asked, outcomes>>

Fields == Required \cup Optional

MappingInit ==
    /\ mappings = {}
    /\ saved = 0
    /\ csvImport = [i \in Imports |-> [at |-> "new"]]
    /\ named = [i \in Imports |-> 0]
    /\ asked = [i \in Imports |-> NoMapping]
    /\ outcomes = [i \in Imports |-> <<0, {}>>]

-----------------------------------------------------------------------------
(* Saving and deleting. *)

\* validateColumnMappingShape: unknown keys, required fields that are missing or
\* unusable, optional ones that are there and unusable.
ShapeProblems(mapping) ==
    \/ DOMAIN mapping \ Fields # {}
    \/ Required \ DOMAIN mapping # {}
    \/ \E f \in DOMAIN mapping : mapping[f] = Unusable

\* SaveColumnMappingHandler: the name decides whether a row is overwritten.
SaveMapping(name, mapping) ==
    LET same == {r \in mappings : r.name = name}
    IN  /\ ~ShapeProblems(mapping)
        /\ IF same = {}
           THEN /\ saved < MaxMappings
                /\ mappings' = mappings \cup {[id |-> saved + 1, name |-> name, mapping |-> mapping]}
                /\ saved' = saved + 1
           ELSE /\ mappings' = (mappings \ same) \cup {[r EXCEPT !.mapping = mapping] : r \in same}
                /\ UNCHANGED saved
        /\ UNCHANGED <<csvImport, named, asked, outcomes>>

\* A hard delete.
DeleteMapping(row) ==
    /\ row \in mappings
    /\ mappings' = mappings \ {row}
    /\ UNCHANGED <<saved, csvImport, named, asked, outcomes>>

-----------------------------------------------------------------------------
(* The upload. *)

\* The mapping the request names is read first; one that is gone is an error.
Resolve(i, file, row) ==
    /\ csvImport[i].at = "new"
    /\ row = NoMapping \/ row \in mappings
    /\ LET mapping == IF row = NoMapping THEN NoMapping ELSE row.mapping
       IN  /\ csvImport' = [csvImport EXCEPT ![i] = [at |-> "resolved", file |-> file,
                                                     resolved |-> mapping]]
           /\ asked' = [asked EXCEPT ![i] = mapping]
    /\ named' = [named EXCEPT ![i] = IF row = NoMapping THEN 0 ELSE row.id]
    /\ UNCHANGED <<mappings, saved, outcomes>>

\* validateCsvUpload: the declared type, then the bytes.
UploadProblems(file) == ~file.declared \/ file.content # "text"

\* The file is stored and the job created with the mapping, or both refused.
CreateImport(i) ==
    /\ csvImport[i].at = "resolved"
    /\ csvImport' = [csvImport EXCEPT ![i].at =
          IF UploadProblems(csvImport[i].file) THEN "refused" ELSE "created"]
    /\ UNCHANGED <<mappings, saved, named, asked, outcomes>>

-----------------------------------------------------------------------------
(* The worker. *)

\* Mutation: the mapping is looked up when the file is read.
MappingOfToday(i) ==
    IF \E r \in mappings : r.id = named[i] THEN (CHOOSE r \in mappings : r.id = named[i]).mapping
    ELSE NoMapping

\* importJob.resolvedMapping.
MappingOf(i) == csvImport[i].resolved

Row(row) == [why |-> "none", row |-> row]
Failure(why) == [why |-> why, row |-> <<>>]

\* CsvProviderAdapter.parse: each field with the column it comes from.
Parse(file, mapping) ==
    IF file.ragged THEN Failure("unparseable")
    ELSE IF mapping = NoMapping
         THEN IF Required \subseteq file.columns
              THEN Row([f \in Fields \cap file.columns |-> f]) ELSE Failure("columns missing")
    ELSE IF ShapeProblems(mapping) THEN Failure("bad mapping")
    ELSE IF \E f \in DOMAIN mapping : mapping[f] \notin file.columns
         THEN Failure("column not found")
    ELSE Row([f \in DOMAIN mapping \cap Fields |-> mapping[f]])

\* CsvNormalizer.normalize: a value that cannot be used for a required field
\* refuses the row; for an optional one it counts as absent.
Normalize(file, row) ==
    IF \E f \in Required : row[f] \notin file.usable THEN Failure("row refused")
    ELSE Row([f \in {g \in DOMAIN row : row[g] \in file.usable} |-> row[f]])

Outcome(file, mapping) ==
    LET parsed == Parse(file, mapping)
    IN  IF parsed.why = "none" THEN Normalize(file, parsed.row) ELSE parsed

\* A delivery reads the file, the first one or a later one.
ReadFile(i) ==
    /\ csvImport[i].at = "created"
    /\ outcomes[i][1] < MaxReads
    /\ outcomes' = [outcomes EXCEPT ![i] =
          <<@[1] + 1, @[2] \cup {Outcome(csvImport[i].file, MappingOf(i))}>>]
    /\ UNCHANGED <<mappings, saved, csvImport, named, asked>>

-----------------------------------------------------------------------------

MappingNext ==
    \/ \E name \in MappingNames, mapping \in Mappings : SaveMapping(name, mapping)
    \/ \E row \in mappings : DeleteMapping(row)
    \/ \E i \in Imports, file \in CsvFiles, row \in mappings \cup {NoMapping} : Resolve(i, file, row)
    \/ \E i \in Imports : CreateImport(i) \/ ReadFile(i)

MappingSpec == MappingInit /\ [][MappingNext]_mappingVars

-----------------------------------------------------------------------------
(* Properties *)

\* Whatever happens to a mapping after the upload that named it, each read of the
\* file gives what the mapping said then; none fails for a mapping that should
\* not have been saved, and a row that passes has each required field from a
\* column of the file, the one asked for ("each snapshots the mapping content it
\* was parsed with").
ReadAsMapped ==
    \A i \in Imports : \A o \in outcomes[i][2] :
        /\ o = Outcome(csvImport[i].file, asked[i])
        /\ o.why # "bad mapping"
        /\ o.why = "none" =>
              \A f \in Required : /\ f \in DOMAIN o.row
                                  /\ o.row[f] \in csvImport[i].file.usable
                                  /\ asked[i] # NoMapping => o.row[f] = asked[i][f]
=============================================================================
