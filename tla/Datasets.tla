------------------------------ MODULE Datasets ------------------------------
(* Generated datasets (datasets/generate.py, datasets/export.py,             *)
(* datasets/models.py, gateway/routes/datasets.py): rows are sampled from a  *)
(* fitted model or asked of an LLM, written to a blob, and the blob is then  *)
(* recorded in a table.                                                      *)
(*                                                                           *)
(* A value is its kind: int, long (an integer beyond every float), float,    *)
(* inf, bool, digits (a text that is an integer), text, null, list, array (a *)
(* numpy array of several values).  A row is a function of its columns, a    *)
(* schema one of the columns to their types, spec.order the order they have. *)
EXTENDS Naturals, Sequences, FiniteSets, Positions

VARIABLES spec,      \* the body of the request: [source, fmt, n, schema, order, columns, hosted, able]
          job,       \* where the request is
          source,    \* the draws, or the LLM's text, the rows were made of
          rows, schema,
          blob,      \* the written file: [rows, columns], if any
          artifact,  \* the row of the table: [n_rows, schema], if any
          status     \* what the client is answered

vars == <<spec, job, source, rows, schema, blob, artifact, status>>

Absent == [kind |-> "none"]

InitIn(specs) ==
    /\ spec \in specs
    /\ job = "begin"
    /\ source = Absent
    /\ rows = <<>>
    /\ schema = <<>>
    /\ blob = Absent
    /\ artifact = Absent
    /\ status = 0

-----------------------------------------------------------------------------
(* Rows of a fitted model: a draw is a dict (a function of its columns), a   *)
(* sequence of values (one, for a scalar and for an array of one value), or  *)
(* a numpy array of several.                                                 *)

ScalarType(kind) == CASE kind = "bool" -> "boolean"
                      [] kind \in {"int", "long"} -> "integer"
                      [] kind \in {"float", "inf"} -> "number"
                      [] OTHER -> "string"

Positional == <<"x0", "x1", "x2">>

\* The given names, and positional ones for the values that have none.
Names(columns, values) ==
    [i \in DOMAIN values |-> IF i \in DOMAIN columns THEN columns[i] ELSE Positional[i]]

\* An array has an `item`, so it is taken for a scalar; its item() raises, and it
\* stays as it is: one value.
Taken(draw) == IF draw.kind = "array" THEN <<"array">> ELSE draw.values

\* Of values with the same name the last one stays.
RowFromDraw(draw, columns) ==
    IF draw.kind = "dict" THEN draw.row
    ELSE LET values == Taken(draw)
             names == Names(columns, values)
         IN  [c \in {names[i] : i \in DOMAIN names} |->
                values[CHOOSE i \in DOMAIN names :
                              names[i] = c /\ \A j \in DOMAIN names : names[j] = c => j <= i]]

\* The first row that has a column says what its type is.
InferSchema(table) ==
    [c \in UNION {DOMAIN table[i] : i \in DOMAIN table} |->
        ScalarType(table[CHOOSE i \in DOMAIN table :
                           /\ c \in DOMAIN table[i]
                           /\ \A j \in 1 .. i - 1 : c \notin DOMAIN table[j]][c])]

-----------------------------------------------------------------------------
(* Rows of an LLM: what it says is prose or JSON, fenced or not, an array of *)
(* records or a single one.                                                  *)

Coerces(type, kind) ==
    CASE type = "integer" -> kind \in {"int", "long", "float", "bool", "digits"}
      [] type = "number" -> kind \in {"int", "float", "inf", "bool", "digits"}
      [] OTHER -> TRUE

\* int() of an infinite float, and float() of an integer beyond every float,
\* raise what nothing catches.
Raises(type, kind) == <<type, kind>> \in {<<"integer", "inf">>, <<"number", "long">>}

Kind == [integer |-> "int", number |-> "float", boolean |-> "bool", string |-> "text"]

HasFit(record, columns, c) == c \in DOMAIN record.row /\ Coerces(columns[c], record.row[c])

\* Mutated form of Fits: a column that is missing is left out of the row.
FitsIfThere(record, columns) ==
    /\ record.kind = "dict"
    /\ \A c \in DOMAIN columns \cap DOMAIN record.row : HasFit(record, columns, c)

Fits(record, columns) == record.kind = "dict" /\ \A c \in DOMAIN columns : HasFit(record, columns, c)

\* The columns are gone through in order, up to the first that does not fit.
Overflows(record, columns, order) ==
    record.kind = "dict" /\ \E i \in DOMAIN order :
        /\ order[i] \in DOMAIN columns \cap DOMAIN record.row
        /\ Raises(columns[order[i]], record.row[order[i]])
        /\ \A j \in 1 .. i - 1 : order[j] \in DOMAIN columns => HasFit(record, columns, order[j])

CoerceToSchema(record, columns) ==
    [c \in DOMAIN columns \cap DOMAIN record.row |-> Kind[columns[c]]]

\* JSON as a whole, within a fence, or an array somewhere in prose.
Candidates(text) ==
    CASE text.shape \in {"array", "fenced", "in prose"} -> text.records
      [] text.shape = "object" -> <<text.records[1]>>
      [] OTHER -> <<>>

Least(a, b) == IF a < b THEN a ELSE b
First(n, table) == SubSeq(table, 1, Least(n, Len(table)))

\* Those that fit, in the order they were in.
Fitting(records, columns) == {i \in DOMAIN records : Fits(records[i], columns)}

ParseLlmRecords(text, columns) ==
    LET records == Candidates(text)
        fitting == AtPositions(records, Fitting(records, columns))
    IN  [n \in DOMAIN fitting |-> CoerceToSchema(fitting[n], columns)]

-----------------------------------------------------------------------------
(* The request.                                                             *)

Answer(code) == status' = code /\ job' = "done"

\* What the route and generate_dataset refuse before anything is generated.
Refusal ==
    CASE ~spec.hosted -> 404
      [] spec.hosted /\ \/ spec.source \notin {"mixle", "llm"}
                        \/ spec.source = "llm" /\ spec.schema = <<>>
                        \/ spec.source = "mixle" /\ ~spec.able -> 422
      [] OTHER -> 0

Refuse ==
    /\ job = "begin" /\ Refusal # 0
    /\ Answer(Refusal)
    /\ UNCHANGED <<spec, source, rows, schema, blob, artifact>>

Generated(from, table, columns) ==
    /\ source' = from
    /\ rows' = table
    /\ schema' = columns
    /\ job' = "generated"
    /\ UNCHANGED <<spec, blob, artifact, status>>

\* The model's sampler returns as many draws as it is asked for.
GenerateFromMixle(draws) ==
    /\ job = "begin" /\ Refusal = 0 /\ spec.source = "mixle" /\ Len(draws) = spec.n
    /\ LET table == [i \in DOMAIN draws |-> RowFromDraw(draws[i], spec.columns)]
       IN  Generated([kind |-> "draws", draws |-> draws], table, InferSchema(table))

GenerateFromLlm(text) ==
    /\ job = "begin" /\ Refusal = 0 /\ spec.source = "llm"
    /\ IF \E i \in DOMAIN Candidates(text) : Overflows(Candidates(text)[i], spec.schema, spec.order)
       THEN Answer(500) /\ UNCHANGED <<spec, source, rows, schema, blob, artifact>>
       ELSE Generated([kind |-> "text", text |-> text],
                      First(spec.n, ParseLlmRecords(text, spec.schema)), spec.schema)

\* The columns a file has: CSV and JSON Lines those of the rows, Parquet the schema's.
ColumnsOf(fmt) ==
    CASE fmt = "csv" -> DOMAIN schema \cup UNION {DOMAIN rows[i] : i \in DOMAIN rows}
      [] fmt = "jsonl" -> UNION {DOMAIN rows[i] : i \in DOMAIN rows}
      [] fmt = "parquet" -> DOMAIN schema

\* The format is looked at only now; Parquet may not be installed.
Export ==
    /\ job = "generated"
    /\ \/ /\ spec.fmt \in {"jsonl", "csv", "parquet"}
          /\ blob' = [kind |-> spec.fmt, rows |-> rows, columns |-> ColumnsOf(spec.fmt)]
          /\ job' = "exported" /\ UNCHANGED status
       \/ spec.fmt = "parquet" /\ Answer(501) /\ UNCHANGED blob
       \/ spec.fmt \notin {"jsonl", "csv", "parquet"} /\ Answer(422) /\ UNCHANGED blob
    /\ UNCHANGED <<spec, source, rows, schema, artifact>>

Persist ==
    /\ job = "exported"
    /\ artifact' = [kind |-> "row", n_rows |-> Len(rows), schema |-> schema]
    /\ Answer(200)
    /\ UNCHANGED <<spec, source, rows, schema, blob>>

\* The LLM, the disk or the table fails, or the process ends.
Fail ==
    /\ job \in {"begin", "generated", "exported"}
    /\ Answer(500)
    /\ UNCHANGED <<spec, source, rows, schema, blob, artifact>>

Next(draws, texts) ==
    \/ Refuse \/ Export \/ Persist \/ Fail
    \/ \E d \in draws : GenerateFromMixle(d)
    \/ \E t \in texts : GenerateFromLlm(t)

-----------------------------------------------------------------------------
\* The names given for the values of a draw, or those made up for the rest, repeat.
NamesRepeat(draw) == LET names == Names(spec.columns, draw.values)
                     IN  \E i, j \in DOMAIN names : i # j /\ names[i] = names[j]

HasEveryValue(row, draw) == NamesRepeat(draw) \/ Cardinality(DOMAIN row) = Len(draw.values)

\* generate_from_mixle and generate_from_llm with export_dataset and _persist:
\* a listed dataset has a file with its rows, no more than were asked for, all
\* of whose columns are in the file and in its schema.  What an LLM said has all
\* columns of the schema in every row, with their types; what was sampled has
\* every value that was drawn, unless names repeat, or the draw is an array of
\* several values, which is kept as one (against the docstring of generate.py).
DatasetIsWhole ==
    artifact # Absent =>
        /\ blob # Absent /\ artifact.n_rows = Len(blob.rows) /\ Len(blob.rows) <= spec.n
        /\ \A i \in DOMAIN blob.rows :
             LET row == blob.rows[i]
             IN  /\ DOMAIN row \subseteq blob.columns \cap DOMAIN artifact.schema
                 /\ spec.source = "llm" =>
                        \A c \in DOMAIN artifact.schema :
                            c \in DOMAIN row /\ ScalarType(row[c]) = artifact.schema[c]
                 /\ spec.source = "mixle" /\ source.draws[i].kind = "values" =>
                        HasEveryValue(row, source.draws[i])

=============================================================================
