--------------------------- MODULE ScreenProperties ---------------------------
(* What is claimed of the compositor. *)
EXTENDS Screen

Cell(b, x, y) == b.data[y * b.width + x]

Picture(b) == [c \in (0..(b.width - 1)) \X (0..(b.height - 1)) |-> Cell(b, c[1], c[2])]

\* The flat buffers, strides and end-of-buffer checks draw what Canvas draws
\* on coordinates, wherever surfaces stick out of the output; with them the two
\* ways in which it is not what the server drew (gfx.rs:61-72 and 265-271).
Drawing == INSTANCE Canvas WITH
  output <- Picture(framebuffer),
  decoded <- Picture(scratch),
  pictures <- [id \in DOMAIN surfaces |-> Picture(surfaces[id])],
  places <- mappings
ImplementsCanvas == Drawing!CSpec
==============================================================================
