----------------------------- MODULE MCTraining -----------------------------
(***************************************************************************)
(* Jobs for TLC: every small upload with a short training, and a fixed     *)
(* upload with every shape of training.                                    *)
(***************************************************************************)
EXTENDS Training

\* "O" is 2: between the labels 1 ("B-LOC") and 3 ("X") in text order.
Row(n, tokens, pieces, tags) ==
  [id |-> n, ok |-> TRUE, tokens |-> tokens, pieces |-> pieces, tags |-> tags]

\* Words of one piece and of several, words that vanish, words that truncation
\* to max_length cuts in two or off, too few tags, and no tokens.
Kinds == <<
  Row(0, 1, <<1>>, <<2>>),
  Row(0, 3, <<1, 1, 1, 2, 2, 3, 3, 3>>, <<1, 2, 3>>),
  Row(0, 2, <<2, 2>>, <<3, 1>>),
  Row(0, 2, <<1, 1, 1, 1, 1, 1, 2>>, <<1, 3>>),
  Row(0, 2, <<1, 2>>, <<2>>),
  Row(0, 0, <<>>, <<1>>) >>

File(from, kinds) == [i \in DOMAIN kinds |-> [Kinds[kinds[i]] EXCEPT !.id = from + i]]

\* The files of least to most rows of the first k kinds.
Files(from, least, most, k) ==
  {File(from, kinds) : kinds \in UNION {[1..n -> 1..k] : n \in least..most}}

Job(task, train, eval, order, split, size, epochs, every) ==
  [task |-> task, train |-> train, eval |-> eval, order |-> order, split |-> split,
   batch |-> size, evalBatch |-> 2, maxLength |-> 8, epochs |-> epochs, every |-> every]

\* Malformed files among others; evaluation files of every shape; files from
\* which rows are held out.
Uploads ==
  {Job(task, train, eval, [i \in DOMAIN train |-> i], 10, 2, 2, 1) :
     task \in {"token", "multi"}, train \in Files(0, 0, 1, 6), eval \in Files(10, 0, 1, 6)}
  \union
  {Job("token", train, eval, <<1>>, 10, 2, 2, 1) :
     train \in Files(0, 1, 1, 1), eval \in Files(10, 2, 3, 4)}
  \union
  {Job("token", train, <<>>, <<4, 2, 1, 3>>, split, 2, 2, 1) :
     train \in Files(0, 4, 4, 2), split \in {0, 50, 89}}

\* n rows of three labels.
Plain(n) == [i \in 1..n |-> Row(i, 0, <<>>, <<i % 3>>)]

Shapes ==
  {Job("sequence", Plain(5), <<>>, <<3, 1, 5, 2, 4>>, 10, size, epochs, every) :
     size \in {1, 2, 4}, epochs \in 1..7, every \in 0..3}

MCJobs ==
  Uploads \union Shapes
  \union {Job("regression", Plain(6), <<>>, <<1, 2, 3, 4, 5, 6>>, 80, 2, 3, 1),
          Job("regression", Plain(3), <<Row(4, 0, <<>>, <<7>>)>>, <<1, 2, 3>>, 10, 2, 3, 1),
          Job("sequence", Plain(2), <<Row(3, 0, <<>>, <<7>>), Row(4, 0, <<>>, <<1>>)>>, <<1, 2>>, 10, 1, 3, 1),
          Job("sequence", Plain(2), <<Row(3, 0, <<>>, <<1>>)>>, <<1, 2>>, 10, 1, 3, 1),
          Job("sequence", <<[Row(1, 0, <<>>, <<1>>) EXCEPT !.ok = FALSE]>>, <<>>, <<1>>, 0, 1, 2, 1)}

=============================================================================
