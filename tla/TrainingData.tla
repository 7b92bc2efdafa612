---------------------------- MODULE TrainingData ----------------------------
(***************************************************************************)
(* The data of one job, from its uploads to the tags it is scored on:      *)
(* app/data.py, and the datasets, the collation and the scoring of         *)
(* app/training.py.  Everything here is a function of its arguments.       *)
(*                                                                         *)
(* Abstractions.  A file is the sequence of its lines that are not blank.  *)
(* A line is a record                                                      *)
(*   id     which line of the two files it is;                             *)
(*   ok     it passes the checks of JSON syntax, keys and types;           *)
(*   tokens how many tokens it has;                                        *)
(*   pieces for each piece the tokenizer makes of the tokens, the token it *)
(*          comes from (a token may have none);                            *)
(*   tags   its tags, its list of labels, or its one label.                *)
(* A label is a number whose order is the order of the labels as text.     *)
(* A fraction is a whole percentage.                                       *)
(*                                                                         *)
(* A definition whose comment begins with "Variant" is a faulty form of    *)
(* the one that follows it, kept to test the properties with.              *)
(***************************************************************************)
EXTENDS Integers, Ordering, SequencesExt

CONSTANT Outside  \* the label "O"

Tasks == {"sequence", "multi", "regression", "token"}
Ignore == -100    \* IGNORE_INDEX

-----------------------------------------------------------------------------
(* parse *)

LineAccepted(line, task) ==
  /\ line.ok
  /\ task = "token" => line.tokens > 0 /\ line.tokens = Len(line.tags)

LabelSet(rows) == UNION {ToSet(rows[i].tags) : i \in DOMAIN rows}

\* DataError is raised in every other case.
Accepts(rows, task) ==
  /\ rows # <<>>
  /\ \A i \in DOMAIN rows : LineAccepted(rows[i], task)
  /\ task = "sequence" => Cardinality(LabelSet(rows)) >= 2

\* In the order of the text, but the outside tag of token classification first.
InOrder(S, task) ==
  IF task = "token" /\ Outside \in S
  THEN <<Outside>> \o Ascending(S \ {Outside})
  ELSE Ascending(S)

Labels(rows, task) == IF task = "regression" THEN <<>> ELSE InOrder(LabelSet(rows), task)

-----------------------------------------------------------------------------
(* split and merge_labels *)

EvalCount(n, percent) ==
  LET k == (n * percent) \div 100 IN IF k < 1 THEN 1 ELSE k

\* order is the permutation of the rows that random.Random(seed) makes; an
\* empty eval is None.
Split(rows, percent, order) ==
  LET n == Len(rows)
      k == EvalCount(n, percent)
  IN  IF percent = 0 \/ n < 4 \/ n - k < 1
      THEN [train |-> rows, eval |-> <<>>]
      ELSE [train |-> [i \in 1..(n - k) |-> rows[order[k + i]]],
            eval |-> [i \in 1..k |-> rows[order[i]]]]

\* Variant: the labels of the training file alone.
MergeLabelsTrainOnly(train, eval, task) == train

MergeLabels(train, eval, task) == InOrder(ToSet(train) \union ToSet(eval), task)

\* What _run_job makes of the uploads of job j: the two sets and the labels.
Prepare(j) ==
  LET labels == Labels(j.train, j.task)
      held == Split(j.train, j.split, j.order)
  IN  IF j.eval # <<>>
      THEN [train |-> j.train, eval |-> j.eval,
            labels |-> MergeLabels(labels, Labels(j.eval, j.task), j.task)]
      ELSE [train |-> held.train, eval |-> held.eval,
            labels |-> IF held.eval = <<>> THEN labels
                       ELSE MergeLabels(labels, labels, j.task)]

-----------------------------------------------------------------------------
(* Token classification: alignment, padding, scoring *)

\* The pieces that truncation to max_length leaves, beside two special tokens.
KeptPieces(row, maxLength) == SubSeq(row.pieces, 1, Min({Len(row.pieces), maxLength - 2}))

\* word_ids(): the word of every piece, and 0 for the special tokens.
WordIds(row, maxLength) == <<0>> \o KeptPieces(row, maxLength) \o <<0>>

\* label2id, which is 0-based.
LabelId(labels, label) == (CHOOSE i \in DOMAIN labels : labels[i] = label) - 1

\* The first piece of a word carries the word's label, nothing else does.
Align(row, labels, maxLength) ==
  LET ids == WordIds(row, maxLength)
  IN  [i \in DOMAIN ids |->
        IF ids[i] = 0 \/ ids[i] = ids[i - 1] THEN Ignore
        ELSE LabelId(labels, row.tags[ids[i]])]

\* Variant: labels are padded like inputs, with 0.
PadZero(s, width) == s \o [i \in 1..(width - Len(s)) |-> 0]

Pad(s, width) == s \o [i \in 1..(width - Len(s)) |-> Ignore]

\* Each batch is padded to its own width, then all of them to one width.
Gold(rows, labels, maxLength, size) ==
  LET items == [i \in DOMAIN rows |-> Align(rows[i], labels, maxLength)]
      width(S) == Max({Len(items[i]) : i \in S})
      batch(i) == {k \in DOMAIN rows : (k - 1) \div size = (i - 1) \div size}
  IN  [i \in DOMAIN rows |-> Pad(Pad(items[i], width(batch(i))), width(DOMAIN rows))]

\* The true sequences _metrics hands to seqeval.
TrueSeqs(gold, labels) ==
  [r \in DOMAIN gold |->
    LET keep == Ascending({i \in DOMAIN gold[r] : gold[r][i] # Ignore})
    IN  [k \in DOMAIN keep |-> labels[gold[r][keep[k]] + 1]]]

=============================================================================
