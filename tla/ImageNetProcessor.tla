-------------------------- MODULE ImageNetProcessor --------------------------
(***************************************************************************)
(* include/lumen/models/ImageNetProcessor.hpp: the pixels of an image      *)
(* become a tensor, and the scores of the model become a label.            *)
(*                                                                         *)
(* Tensors and images are functions from offsets.  A normalised value is   *)
(* the pair of its channel (whose mean and deviation were used) and its    *)
(* pixel; floating point is left out.                                      *)
(***************************************************************************)
EXTENDS Integers, Sequences

(* A plausible mistake: the offset inside a plane is not y * width + x.    *)
TransposedIdx(y, x, c, w, h) == c * (w * h) + (x * h + y)

(* Source: interleaved, RGBRGB...  Destination: planar, RRR...GGG...BBB... *)
SrcIdx(y, x, c, w) == (y * w + x) * 3 + c
DstIdx(y, x, c, w, h) == c * (w * h) + (y * w + x)

(* What the three nested loops visit.                                      *)
Visits(w, h) == (0..(h - 1)) \X (0..(w - 1)) \X (0..2)

(* transform: every visit reads one pixel and writes one value.            *)
Transform(pixels, w, h) ==
  LET dst(v) == DstIdx(v[1], v[2], v[3], w, h)
      src(v) == SrcIdx(v[1], v[2], v[3], w)
  IN  [d \in {dst(v) : v \in Visits(w, h)} |->
         LET v == CHOOSE u \in Visits(w, h) : dst(u) = d
         IN  <<v[3], pixels[src(v)]>>]

(* Does it stay inside a tensor of `room` values and a payload?            *)
InBounds(w, h, room, payload) ==
  \A v \in Visits(w, h) : /\ DstIdx(v[1], v[2], v[3], w, h) < room
                          /\ SrcIdx(v[1], v[2], v[3], w) < payload

(* What the tensor has to hold, from the other side: at offset d, the      *)
(* value of channel d \div area of the pixel with number d % area.         *)
Planar(pixels, w, h, d) ==
  <<d \div (w * h), pixels[(d % (w * h)) * 3 + d \div (w * h)]>>

----------------------------------------------------------------------------

(* A plausible mistake: every line is a label.                             *)
KeepsBlankLines(lines) == lines

(* The constructor skips blank lines; a missing file has none.             *)
Labels(lines) ==
  LET kept[k \in 0..Len(lines)] ==
        IF k = 0 THEN << >>
        ELSE IF lines[k] # "" THEN Append(kept[k - 1], lines[k]) ELSE kept[k - 1]
  IN  kept[Len(lines)]

(* std::max_element: the first of the largest scores, counted from 0.      *)
ClassOf(scores) ==
  (CHOOSE i \in DOMAIN scores : \A j \in DOMAIN scores :
     scores[j] <= scores[i] /\ (j < i => scores[j] < scores[i])) - 1

(* handle_results; the confidence is only logged.                          *)
HandleResults(scores, labels) ==
  IF scores = << >> THEN "Error: Empty or Invalid Tensor"
  ELSE IF ClassOf(scores) < Len(labels) THEN labels[ClassOf(scores) + 1] ELSE "Unknown"
=============================================================================
