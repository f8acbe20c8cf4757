------------------------------ MODULE MCInputs ------------------------------
(* What the parts of MCServices that answer requests are given: the models   *)
(* that are hosted and what is asked of them, the answers of a panel, the    *)
(* datasets that are ordered, the feedback that is sent.                     *)
EXTENDS Integers, Sequences, FiniteSets

CONSTANTS NoItem

(* Hosted models: those the code tells apart, by the methods they have, and  *)
(* two that may replace one.                                                 *)

Label == {"a", "b"}
Predicting == {m \cup s : m \in SUBSET {"cdf", "sampler", "coarse"},
                          s \in {{}} \cup {{"conditions"} \cup t :
                                          t \in SUBSET {"sliced_cdf", "sliced_sampler"}}}
Scoring == SUBSET {"log_density", "seq_log_density", "encoder", "coarse"}
Latents == {m \cup s : m \in SUBSET {"latent", "viterbi"}, s \in SUBSET {"sampler"}}
Laws == Predicting \cup Scoring \cup Latents
Challengers == {{"cdf", "log_density"}, {"sampler", "seq_log_density", "encoder", "coarse"}}

OfKind(kind, services, fits, tasks, inputs) ==
    [kind : {kind}, service : services, fitData : fits, task : tasks, input : inputs]
NoInput == [set |-> {}]
TaskKinds == {{"classifier"}, {"classifier", "calibrated"}, {"extractor"}}
TaskInputs == {i \in [best : Label, set : SUBSET Label, unfamiliar : BOOLEAN, unsure : BOOLEAN] :
                 i.set = {} \/ i.best \in i.set}
Hosts == OfKind("mixle", {{}}, BOOLEAN, {{}}, {NoInput})
         \cup OfKind("mixle", {{"cdf", "sampler"}, {"log_density", "coarse"}}, {FALSE}, {{}}, {NoInput})
         \cup OfKind("task", {{}}, {FALSE}, TaskKinds, TaskInputs)
         \cup OfKind("plain", {{}}, {FALSE}, {{}}, {NoInput})

Kinds == {"plain", "context", "refusing", "target"}
Batches == {<<>>} \cup {<<r>> : r \in Kinds} \cup {<<"plain", "context">>, <<"context", "target">>}
Decides(over, loss, actions) == [route |-> "decide", over |-> over, loss |-> loss, actions |-> actions]
QueriesOf(host) ==
    {[route |-> x] : x \in {"capabilities", "elsewhere", "latent"}}
    \cup {[route |-> "predict", records |-> b] : b \in Batches}
    \cup {[route |-> "score", encodes |-> e] : e \in BOOLEAN}
    \cup {[route |-> "chat", text |-> [json |-> "record", records |-> <<r>>]] : r \in Kinds}
    \cup {[route |-> "chat", text |-> [json |-> j, records |-> <<>>]] : j \in {"list", "none"}}
    \cup {Decides(o, "squared", TRUE) : o \in {"predictive", "params", "latent"}}
    \cup {Decides("predictive", "unknown", TRUE), Decides("predictive", "squared", FALSE)}
    \cup IF host.kind = "task" THEN {[route |-> "decision"]} ELSE {}

(* A panel of four by distance alone, and of three with grades.             *)

PairsUpTo(n) == {p \in SUBSET (1 .. n) : Cardinality(p) = 2}
Pools == [n : {4}, k : {0, 2, 3, 9}, apart : [PairsUpTo(4) -> {0, 1, 3}], blank : {{}, {3}},
          quality : {<<>>}, alpha : {1}]
         \cup [n : {3}, k : {2}, apart : [PairsUpTo(3) -> 0 .. 2], blank : {{}},
               quality : [1 .. 3 -> 0 .. 2], alpha : 0 .. 2]

(* Datasets of two rows, from every pair of draws and every kind of record.  *)

Dict(row) == [kind |-> "dict", row |-> row]
Values(v) == [kind |-> "values", values |-> v]
Array(v) == [kind |-> "array", values |-> v]
Draws == [1 .. 2 -> {Values(<<k>>) : k \in {"int", "text"}} \cup {Dict([a |-> "int"])}
                    \cup {Values(<<k, "float">>) : k \in {"bool", "float"}} \cup {Array(<<"float", "float">>)}]
Names == {<<>>, <<"a">>, <<"x1">>, <<"a", "b", "c">>, <<"a", "a">>}
Record == {Dict([a |-> k]) : k \in {"int", "null", "digits", "inf", "long"}}
          \cup {Dict([a |-> k, b |-> l]) : k \in {"float", "text", "bool"}, l \in {"int", "list"}}
          \cup {[kind |-> "scalar"]}
LlmTexts == [shape : {"array", "object"}, records : Record \X Record \X {Dict([a |-> "int", b |-> "text"])}]
            \cup [shape : {"in prose", "prose", "fenced"}, records : {<<r>> : r \in Record}]
Narrow == [{"a"} -> {"integer", "string"}]
Wide == [a : {"integer", "number"}, b : {"boolean", "string"}]
Forth == <<"a", "b">>
Back == <<"b", "a">>
OrdersOf(sources, formats, schemas, orders, columns, hosted, able) ==
    [source : sources, fmt : formats, n : {2}, schema : schemas, order : orders, columns : columns,
     hosted : hosted, able : able]
Orders == OrdersOf({"mixle"}, {"csv", "parquet"}, {<<>>}, {Forth}, Names, {TRUE}, {TRUE})
          \cup OrdersOf({"llm"}, {"jsonl", "xml"}, Narrow, {Forth}, {<<>>}, {TRUE}, {TRUE})
          \cup OrdersOf({"llm"}, {"jsonl"}, Wide, {Forth, Back}, {<<>>}, {TRUE}, {TRUE})
          \cup OrdersOf({"llm", "mixle", "web"}, {"csv"}, {<<>>}, {Forth}, {<<>>}, BOOLEAN, {FALSE})

(* Feedback: preferences between three items, one of them a number and its   *)
(* text, with and without texts; everything else comes first.                *)

Item(type, text) == [type |-> type, text |-> text]
Prefers(chosen, rejected, model, payload) ==
    [kind |-> "preference", chosen |-> chosen, rejected |-> rejected, model |-> model, payload |-> payload]
NoTexts == [k \in {} |-> ""]
BothTexts == [prompt |-> "p", chosen_text |-> "better", chosen |-> "other", rejected |-> "worse"]
first == Item("text", "a")
second == Item("text", "b")
third == Item("text", "1")
Judgements == {Prefers(first, second, "m", NoTexts), Prefers(second, first, "m", BothTexts),
               Prefers(second, third, "n", BothTexts), Prefers(Item("number", "1"), third, "m", NoTexts)}
OtherBodies == {Prefers(first, first, "m", NoTexts), Prefers(first, NoItem, "m", NoTexts), [kind |-> "other"]}
               \cup {[kind |-> "rating", value |-> v] : v \in {"number", "text", "null"}}
               \cup {[kind |-> "edit", payload |-> p] : p \in {"absent", "dict", "null", "list"}}

=============================================================================
