------------------------------ MODULE Feedback ------------------------------
(* Human feedback (feedback/collect.py, loop.py, reward.py, elicit.py,       *)
(* gateway/routes/feedback.py): what users say is kept as rows of a table,   *)
(* and the preferences among them are what a reward model is fitted to and   *)
(* what is exported to train on.                                             *)
(*                                                                           *)
(* An item has the JSON type it was sent as and the text it is stored as:    *)
(* [type, text].  The estimate is external: of two items the one preferred   *)
(* more often ranks first; of more, or if an item was preferred to itself,   *)
(* any may.  The texts of a payload are "better" and "worse".                *)
EXTENDS Naturals, Sequences, FiniteSets, Functions, Positions

CONSTANTS NoItem, NoModel

VARIABLES table,       \* the rows of feedback
          sent, known, \* the bodies posted, and those the client knows are kept
          fitted,      \* the pairs the last reward model was fitted to
          verdict,     \* what promote and next_comparison made of it
          status       \* what the client was answered

vars == <<table, sent, known, fitted, verdict, status>>

NoVerdict == [promote |-> FALSE, champion |-> NoItem, ask |-> {}]

Init ==
    /\ table = <<>> /\ sent = <<>> /\ known = <<>>
    /\ fitted = <<>> /\ verdict = NoVerdict
    /\ status = 0

-----------------------------------------------------------------------------
(* Posting.  An edit reads the payload even if it has the edited text.       *)

\* 0: kept; otherwise what is answered.
Refused(body) ==
    CASE body.kind = "rating" -> [number |-> 0, text |-> 422, null |-> 500][body.value]
      [] body.kind = "edit" -> [absent |-> 0, dict |-> 0, null |-> 500, list |-> 500][body.payload]
      [] body.kind = "preference" ->
            IF NoItem \in {body.chosen, body.rejected} \/ body.chosen = body.rejected THEN 422 ELSE 0
      [] OTHER -> 422

RowOf(body) ==
    IF body.kind = "preference"
    THEN [kind |-> "preference", chosen |-> body.chosen.text, rejected |-> body.rejected.text,
          model |-> body.model, payload |-> body.payload]
    ELSE [kind |-> body.kind]

Kept(body) == table' = Append(table, RowOf(body))

\* Mutated form of Save: what failed once it was kept is kept again.
SaveTwice(body) ==
    \/ Kept(body) /\ status' = 200 /\ known' = Append(known, body)
    \/ table' = table \o <<RowOf(body), RowOf(body)>> /\ status' = 500 /\ UNCHANGED known
    \/ UNCHANGED <<table, known>> /\ status' = 500

\* The commit, the refresh after it or the answer may fail: the client cannot
\* tell whether the row is there.
Save(body) ==
    \/ Kept(body) /\ status' = 200 /\ known' = Append(known, body)
    \/ Kept(body) /\ status' = 500 /\ UNCHANGED known
    \/ UNCHANGED <<table, known>> /\ status' = 500

PostFeedback(body) ==
    /\ sent' = Append(sent, body)
    /\ IF Refused(body) # 0
       THEN status' = Refused(body) /\ UNCHANGED <<table, known>>
       ELSE Save(body)
    /\ UNCHANGED <<fitted, verdict>>

-----------------------------------------------------------------------------
(* Reading the preferences back, those of one model or all.                  *)

Has(row, model) == row.kind = "preference" /\ (model # NoModel => row.model = model)

ListPreferences(model) == AtPositions(table, {i \in DOMAIN table : Has(table[i], model)})

PreferencePairs(model) ==
    LET rows == ListPreferences(model) IN [i \in DOMAIN rows |-> <<rows[i].chosen, rows[i].rejected>>]

TextOr(payload, key, otherwise) == IF key \in DOMAIN payload THEN payload[key] ELSE otherwise

\* A text that is not in the payload is the item itself.
ExportDpoRecords(model) ==
    LET rows == ListPreferences(model)
        Record(row) ==
            [prompt |-> TextOr(row.payload, "prompt", ""),
             chosen |-> TextOr(row.payload, "chosen_text", TextOr(row.payload, "chosen", row.chosen)),
             rejected |-> TextOr(row.payload, "rejected_text", TextOr(row.payload, "rejected", row.rejected)),
             chosen_id |-> row.chosen, rejected_id |-> row.rejected, model |-> row.model]
    IN  [i \in DOMAIN rows |-> Record(rows[i])]

-----------------------------------------------------------------------------
(* The reward model.                                                         *)

Items(pairs) == UNION {{p[1], p[2]} : p \in Range(pairs)}
Wins(pairs, a, b) == Cardinality({i \in DOMAIN pairs : pairs[i] = <<a, b>>})

\* Below two items there is nothing to compare.
Fits(pairs) == Cardinality(Items(pairs)) >= 2

\* The first two of the ranking.
Leaders(pairs) ==
    {l \in Items(pairs) \X Items(pairs) :
        /\ l[1] # l[2]
        /\ Cardinality(Items(pairs)) = 2 /\ (\A p \in Range(pairs) : p[1] # p[2]) =>
               Wins(pairs, l[2], l[1]) <= Wins(pairs, l[1], l[2])}

\* The intervals come from resampling the pairs.  If all are the same so are the
\* samples, and an interval is a point; otherwise the two may overlap or not.
Separations(pairs) == IF Cardinality(Range(pairs)) = 1 THEN {TRUE} ELSE BOOLEAN

\* rank_comparisons: any two items may be the most worth asking about.
Comparisons(pairs) == {c \in SUBSET Items(pairs) : Cardinality(c) = 2}

\* POST /rlhf/reward, GET /rlhf/next-comparison and promote, over the same fit.
FitReward(model) ==
    LET pairs == PreferencePairs(model)
    IN  IF ~Fits(pairs)
        THEN status' = 422 /\ UNCHANGED <<fitted, verdict>>
        ELSE \E l \in Leaders(pairs), significant \in Separations(pairs) :
                /\ fitted' = pairs
                /\ \/ significant /\ verdict' = [promote |-> TRUE, champion |-> l[1], ask |-> {}]
                   \/ /\ ~significant
                      /\ \E c \in Comparisons(pairs) :
                            verdict' = [promote |-> FALSE, champion |-> NoItem, ask |-> c]
                /\ status' = 200

Fit(model) == FitReward(model) /\ UNCHANGED <<table, sent, known>>

Next(bodies, models) ==
    \/ \E b \in bodies : PostFeedback(b)
    \/ \E m \in models : Fit(m)

-----------------------------------------------------------------------------
(* What the loop can rely on.                                                *)

IsOf(body, row) == Refused(body) = 0 /\ RowOf(body) = row
Times(bodies, row) == Cardinality({i \in DOMAIN bodies : IsOf(bodies[i], row)})
Rows(row) == Cardinality({i \in DOMAIN table : table[i] = row})

\* One item, sent once as a number and once as a text.
TwoTypes(row) == \E i \in DOMAIN sent : IsOf(sent[i], row) /\ sent[i].chosen.type # sent[i].rejected.type

\* ingest with preference_pairs, export_dpo_records and promote: what a client
\* was told is kept is there, and nothing more often than it was posted; what is
\* exported is what the model is fitted to, each text with its own item; an item
\* is preferred to itself only if it came with two types; and of two items the
\* one promoted was not preferred less often.
PreferencesCount(models) ==
    /\ \A i \in DOMAIN table :
         /\ Times(known, table[i]) <= Rows(table[i]) /\ Rows(table[i]) <= Times(sent, table[i])
         /\ table[i].kind = "preference" /\ table[i].chosen = table[i].rejected => TwoTypes(table[i])
    /\ \A i \in DOMAIN known : \E j \in DOMAIN table : IsOf(known[i], table[j])
    /\ \A m \in models :
         LET records == ExportDpoRecords(m)
             pairs == PreferencePairs(m)
         IN  /\ Len(records) = Len(pairs)
             /\ \A i \in DOMAIN pairs :
                  /\ <<records[i].chosen_id, records[i].rejected_id>> = pairs[i]
                  /\ records[i].chosen \in {pairs[i][1], "better"}
                  /\ records[i].rejected \in {pairs[i][2], "worse"}
    /\ verdict.promote /\ Cardinality(Items(fitted)) = 2 /\ (\A p \in Range(fitted) : p[1] # p[2]) =>
         LET rest == CHOOSE x \in Items(fitted) : x # verdict.champion
         IN  Wins(fitted, rest, verdict.champion) <= Wins(fitted, verdict.champion, rest)

=============================================================================
