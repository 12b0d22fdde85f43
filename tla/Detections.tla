----------------------------- MODULE Detections -----------------------------
(* What becomes of one low resolution frame: the detections that the model's *)
(* output stands for (src/pipeline/tflite.rs) and their summary              *)
(* (src/pipeline/summarize.rs). A detection is its class: boxes and scores   *)
(* are not reported. The network itself is TFLite's.                         *)
EXTENDS Integers, Sequences, FiniteSets

CONSTANTS Labels,    \* the label file: a function from class numbers to names
          Threshold

\* The class of a number that the label file does not have is "?".
Label(num) == IF num \in DOMAIN Labels THEN Labels[num] ELSE "?"

Least(S) == CHOOSE n \in S : \A m \in S : n <= m

\* The output tensors: a number of detections, and what each has of them.
Output == [count : Nat, boxes : Nat, classes : Seq(Int), scores : Seq(Int)]

\* TFLiteStage::detect: as many as all outputs have room for, above the
\* threshold, each numbered by its place in the outputs.
Detect(out) ==
    LET n == Least({out.count, Len(out.classes), Len(out.scores), out.boxes})
    IN [i \in {k \in 1 .. n : out.scores[k] > Threshold} |-> Label(out.classes[i])]

SummaryOf == [person |-> {"person"},
              animal |-> {"dog", "cat", "horse"},
              vehicle |-> {"car", "motorcycle", "bus", "truck"}]

Summary(dets, classes) ==
    [c \in classes |-> Cardinality({i \in DOMAIN dets : dets[i] \in SummaryOf[c]})]

\* Mutant: a class gets its entry with the first of its detections.
SummarizeSeen(dets) ==
    Summary(dets, {c \in DOMAIN SummaryOf : \E i \in DOMAIN dets : dets[i] \in SummaryOf[c]})

\* summarize_detections: every class has an entry, if only of 0.
Summarize(dets) == Summary(dets, DOMAIN SummaryOf)
=============================================================================
