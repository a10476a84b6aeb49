------------------------------- MODULE MCScreen -------------------------------
(* Sizes and origins for TLC. *)
EXTENDS ScreenProperties, TLC

Output == {<<3, 2>>}
Square == {<<2, 2>>}
Corners == {<<2, 0>>, <<1, 1>>}

\* One surface is as good as another.
Swaps == Permutations(Ids)

\* What was processed last does not tell two states apart: nothing is enabled
\* or disabled by it.
Memory == <<framebuffer, scratch, surfaces, mappings, hasContent, frames, drawn>>
==============================================================================
