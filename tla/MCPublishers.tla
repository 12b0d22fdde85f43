---------------------------- MODULE MCPublishers ----------------------------
(* The total and one class; frames with a person, with something that has no *)
(* label after a person that is not certain enough, and with only the latter. *)
EXTENDS Publishers, TLC

MCLabels == 0 :> "person" @@ 2 :> "car"

OutputOf(boxes, classes, scores) ==
    [count |-> 3, boxes |-> boxes, classes |-> classes, scores |-> scores]

MCOutputs == {OutputOf(1, <<0, 0>>, <<9, 9>>), OutputOf(2, <<0, 7>>, <<4, 8>>),
              OutputOf(2, <<0>>, <<4>>)}
=============================================================================
