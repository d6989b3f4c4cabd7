-------------------------- MODULE MCInferenceEngine --------------------------
(* Small instances of InferenceEngine for TLC.                             *)
EXTENDS InferenceEngine

(* One image of 2 x 3 pixels with a dynamic batch, two images at once, a   *)
(* grey one, and one of any width.                                         *)
SmallModels ==
  {[input |-> <<-1, 3, 3, 2>>, output |-> <<-1, 2>>],
   [input |-> <<2, 3, 1, 2>>, output |-> <<1, 2>>],
   [input |-> <<1, 1, 2, 2>>, output |-> <<1, 2>>],
   [input |-> <<1, 3, 2, -1>>, output |-> <<1, 2>>]}

(* A blank last line; a blank line before a label.                         *)
SmallLabels == {<<"cat", "">>, <<"", "cat">>}
=============================================================================
