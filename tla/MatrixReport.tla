---------------------------- MODULE MatrixReport ----------------------------
(* What is published about a collected matrix: `write_m3_report` and         *)
(* `validate_m3_matrix` (src/src/actionstream/results.py), and the paired    *)
(* analysis of the same files (src/src/actionstream/m4_analysis.py).  Both   *)
(* read every file twice: the report reads the rows and then validates the   *)
(* files, the analysis validates the files and then reads the rows; nothing  *)
(* keeps a runner from appending, or from replacing a trace, in between.     *)
EXTENDS EpisodeFiles

CONSTANTS
    MaxReadings,   \* bound: how often a reader is started
    Indexing       \* the commits whose benchmark notes in a trace where each chunk
                   \* took effect: the present one does (benchmark.py:433), those
                   \* the analysis was written for did not

VARIABLES
    reader,      \* the publication under way: kind, rows read, rows validated
    published,   \* per kind: the rows of the tables and of the manifest
    readings     \* readers started

readerVars == <<reader, published, readings>>
vars == <<filesVars, readerVars>>

Kinds == {"report", "analysis"}
NoRows == [c \in Conditions |-> <<>>]
NoReader == [kind |-> "none", stage |-> "none", records |-> NoRows, validated |-> NoRows]
Unpublished == [tables |-> NoRows, manifest |-> NoRows]

AllRows(m) == UNION {Range(m[c]) : c \in Conditions}
TraceFits(c, r) == trace[c][r.key].whole /\ trace[c][r.key].steps = r.steps

Valid(m) ==
    /\ \A c \in Conditions :
           /\ EachKeyOnce(m[c])
           /\ OneRun(m[c])
           /\ \A r \in Range(m[c]) : r.proper /\ TraceFits(c, r)
    /\ OneCommit(AllRows(m))

(* The paired comparisons of the report look every row of every condition    *)
(* up by its key: a missing one is a KeyError.                               *)
Comparable(m) == \A c \in Conditions : Keys \subseteq KeysOf(m[c])

(* The analysis counts the rows again and refuses a duplicate.               *)
Indexed(m) == \A c \in Conditions : EachKeyOnce(m[c])

(* A trace names where its chunks took effect.  The analysis, which cannot   *)
(* compare boundaries, is for traces that do not.                            *)
NamesReplacements(m) ==
    \E c \in Conditions : \E r \in Range(m[c]) : trace[c][r.key].commit \in Indexing

ReadersInit ==
    /\ reader = NoReader
    /\ published = [k \in Kinds |-> Unpublished]
    /\ readings = 0
Init == FilesInit /\ ReadersInit

BeginReport ==
    /\ reader.kind = "none" /\ readings < MaxReadings
    /\ readings' = readings + 1
    /\ reader' = [NoReader EXCEPT !.kind = "report", !.stage = "validate",
                                  !.records = file]
    /\ UNCHANGED <<filesVars, published>>

BeginAnalysis ==
    /\ reader.kind = "none" /\ readings < MaxReadings
    /\ readings' = readings + 1
    /\ reader' = IF Valid(file)
                 THEN [NoReader EXCEPT !.kind = "analysis", !.stage = "read",
                                       !.validated = file]
                 ELSE NoReader
    /\ UNCHANGED <<filesVars, published>>

ValidateReport ==
    /\ reader.stage = "validate"
    /\ reader' = IF Valid(file) /\ Comparable(reader.records)
                 THEN [reader EXCEPT !.stage = "write", !.validated = file]
                 ELSE NoReader
    /\ UNCHANGED <<filesVars, published, readings>>

ReadForAnalysis ==
    /\ reader.stage = "read"
    /\ reader' = IF Indexed(file) /\ ~NamesReplacements(file)
                 THEN [reader EXCEPT !.stage = "write", !.records = file]
                 ELSE NoReader
    /\ UNCHANGED <<filesVars, published, readings>>

Write ==
    /\ reader.stage = "write"
    /\ published' = [published EXCEPT ![reader.kind] =
                         [tables |-> reader.records, manifest |-> reader.validated]]
    /\ reader' = NoReader
    /\ UNCHANGED <<filesVars, readings>>

Next ==
    \/ FilesNext /\ UNCHANGED readerVars
    \/ BeginReport
    \/ BeginAnalysis
    \/ ValidateReport
    \/ ReadForAnalysis
    \/ Write

Spec == Init /\ [][Next]_vars

-----------------------------------------------------------------------------
TypeOK ==
    /\ FilesTypeOK
    /\ reader.kind \in Kinds \cup {"none"}
    /\ reader.stage \in {"none", "validate", "read", "write"}
    /\ readings \in 0 .. MaxReadings

IsPublished(k) == published[k] # Unpublished

(* What is published rests on one sample: in every condition each task and   *)
(* episode once, all of one run id and all of one commit, although attempts  *)
(* are stopped, continued, repeated and mixed and commits are made between.  *)
PublishedIsOneSample ==
    \A kind \in Kinds : IsPublished(kind) =>
        LET m == published[kind].manifest IN
        /\ \A c \in Conditions : \A k \in Keys :
               Cardinality({n \in 1 .. Len(m[c]) : m[c][n].key = k}) = 1
        /\ \A c \in Conditions : \A r, s \in Range(m[c]) : r.run = s.run
        /\ \A r, s \in AllRows(m) : r.commit = s.commit

(* The tables are computed from the very rows that were validated, although  *)
(* the files are read once for the tables and once for the validation and a  *)
(* runner may append between the two.                                        *)
TablesAreOfTheValidated ==
    \A kind \in Kinds : IsPublished(kind) =>
        published[kind].tables = published[kind].manifest

(* When a matrix is accepted, no trace is older than the row it stands for:  *)
(* an attempt that wrote a row had replaced the trace first.                 *)
NoTraceIsOlder ==
    [][\A c \in Conditions :
         (ValidateReport /\ reader'.stage = "write") =>
             \A r \in Range(reader'.validated[c]) :
                 trace[c][r.key].attempt >= r.attempt]_vars

(* And as long as the runner only ever writes a fresh file, the trace is     *)
(* exactly the row's own.                                                    *)
FreshFilesKeepTheirTraces ==
    \A c \in Conditions : \A r \in Range(file[c]) :
        (\A s \in Range(file[c]) : s.attempt = attempts)
            => trace[c][r.key].attempt = r.attempt
=============================================================================
