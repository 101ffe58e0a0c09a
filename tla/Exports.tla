-------------------------------- MODULE Exports --------------------------------
(* Writing the rows of a table to a file a page at a time: dbui-app's           *)
(* export_table, export_query and export_rows with row_export's writer, and the *)
(* rows of a dump (dump::write_rows). Nobody writes the table meanwhile.        *)
EXTENDS Integers, Sequences, FiniteSets, FiniteSetsExt

Lists == INSTANCE SequencesExt

CONSTANTS
  Jobs,  \* [by, rows, keyed, sorted, rank, columns, shown]: rows are numbered as
         \* their keys go, rank is the column sorted by, columns the names the
         \* server gives, shown the places of those the grid has, in its order
  PAGE   \* rows in a page

ASSUME ExportAssumption ==
    /\ PAGE \in Nat \ {0}
    /\ \A j \in Jobs :
         /\ j.by \in {"export", "dump", "query"}
         /\ j.sorted => j.by = "export"
         /\ j.rows \subseteq Nat /\ IsFiniteSet(j.rows)
         /\ \A r \in j.rows : j.rank[r] \in Int
         /\ DOMAIN j.columns \subseteq Nat
         /\ \A i \in DOMAIN j.shown : j.shown[i] \in DOMAIN j.columns

VARIABLES
  job,
  offset, written,  \* rows behind the next page, rows in the file
  progress          \* reading, done, or failed

exportVars == <<job, offset, written, progress>>

--------------------------------------------------------------------------------
(* The engine *)

\* What the ORDER BY of a job says of two rows.
Precedes(r, q) ==
    \/ job.sorted /\ job.rank[r] < job.rank[q]
    \/ job.keyed /\ r < q /\ (job.sorted => job.rank[r] = job.rank[q])

\* Any of the orders it allows, which may be another for every read.
Orders ==
    {o \in Lists!SetToSeqs(job.rows) : \A i, j \in DOMAIN o : i < j => ~Precedes(o[j], o[i])}

--------------------------------------------------------------------------------
(* The writer *)

\* The columns kept are looked for by name.
PicksAll == [i \in DOMAIN job.columns |-> i]  \* mutant: as the server has them
Picks ==
    IF job.by = "dump" THEN [i \in DOMAIN job.columns |-> i]
    ELSE [i \in DOMAIN job.shown |->
            Min({c \in DOMAIN job.columns : job.columns[c] = job.columns[job.shown[i]]})]

Line(r) == [i \in DOMAIN Picks |-> <<r, Picks[i]>>]

Lines(rows) == [i \in DOMAIN rows |-> Line(rows[i])]

--------------------------------------------------------------------------------
(* Reading *)

AnyIsPaged == TRUE  \* mutant: without a key too

\* A dump does not sort, and a query's result is not paged.
Paged ==
    CASE job.by = "export" -> job.sorted \/ job.keyed
      [] job.by = "dump" -> job.keyed
      [] job.by = "query" -> FALSE

ExportInit ==
    /\ job \in Jobs
    /\ offset = 0 /\ written = <<>> /\ progress = "reading"

ReadProbed ==  \* mutant: the row that tells there are more is written too
    \E o \in Orders :
      LET end == IF Paged THEN Min({Len(o), offset + PAGE + 1}) ELSE Len(o)
          page == SubSeq(o, offset + 1, end)
      IN  /\ written' = written \o Lines(page)
          /\ offset' = offset + Len(page) /\ progress' = "done" /\ UNCHANGED job

Page(o) ==
    SubSeq(o, offset + 1, IF Paged THEN Min({Len(o), offset + PAGE}) ELSE Len(o))

Read ==
    /\ progress = "reading"
    /\ \E o \in Orders :
         /\ written' = written \o Lines(Page(o))
         /\ offset' = offset + Len(Page(o))
         /\ progress' = IF offset' < Len(o) /\ Page(o) # <<>> THEN "reading" ELSE "done"
    /\ UNCHANGED job

\* The server or the disk refuses: the file keeps what it has.
Fail ==
    /\ progress = "reading"
    /\ progress' = "failed"
    /\ UNCHANGED <<job, offset, written>>

ExportNext == Read \/ Fail

ExportSpec == ExportInit /\ [][ExportNext]_exportVars

--------------------------------------------------------------------------------
(* Properties *)

\* A file that is done has every row once, in the order asked for, with the
\* columns of the grid in the grid's order: page boundaries inside equal values
\* lose no row and repeat none (commands::export_table, dump::write_rows).
FileIsTheTable ==
    progress = "done" =>
      \E o \in Orders :
        written = [i \in DOMAIN o |->
          IF job.by = "dump" THEN [c \in DOMAIN job.columns |-> <<o[i], c>>]
          ELSE [c \in DOMAIN job.shown |-> <<o[i], job.shown[c]>>]]
================================================================================
