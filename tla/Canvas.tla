-------------------------------- MODULE Canvas --------------------------------
(* What the EGFX channel draws, without any memory layout: surfaces and the   *)
(* output are functions of coordinates, a PDU changes the cells it covers and *)
(* no others, and a mapped surface shows on the output where it is drawn.     *)
(* RemoteFX alone goes to the output only.                                    *)
(*                                                                            *)
(* In two ways the output is not what the server drew. A row that sticks out  *)
(* to the right goes on at the beginning of the next row, and is left out as  *)
(* a whole where there is none. And of RemoteFX only the first row is at its  *)
(* place, unless the rectangle is as wide as the output: the others are taken *)
(* from the decoded image too early in reading order.                         *)
EXTENDS Integers, SequencesExt, TLC

VARIABLES output,     \* coordinates to colours
          decoded,    \* the image RemoteFX was decoded into: the same
          pictures,   \* the surfaces: coordinates to colours
          places,     \* where the mapped ones lie
          pdu         \* what was processed last

canvas == <<output, decoded, pictures, places>>

Grid(size) == (0..(size[1] - 1)) \X (0..(size[2] - 1))
Blank(size) == [c \in Grid(size) |-> 0]
Plus(c, d) == <<c[1] + d[1], c[2] + d[2]>>
Minus(c, d) == <<c[1] - d[1], c[2] - d[2]>>

\* A rectangle is its top left corner and its size.
Covers(r, c) ==
  /\ r.at[1] <= c[1] /\ c[1] < r.at[1] + r.size[1]
  /\ r.at[2] <= c[2] /\ c[2] < r.at[2] + r.size[2]
CoveredBy(rects, c) == \E k \in DOMAIN rects : Covers(rects[k], c)

\* The decoded data of a bitmap, row by row, no two pixels in a row alike.
Ink(colour, k) == 1 + ((colour + k) % 3)
InkAt(r, colour, c) == Ink(colour, (c[2] - r.at[2]) * r.size[1] + (c[1] - r.at[1]))

\* Reading order on the output.
Width == Cardinality({c \in DOMAIN output : c[2] = 0})
Ahead(c, n) == <<(c[1] + n) % Width, c[2] + (c[1] + n) \div Width>>

\* The cells of r that land on c when r is drawn at place.
Landing(r, place, c) ==
  LET First(row) == Plus(<<r.at[1], row>>, place)
  IN  {d \in (r.at[1]..(r.at[1] + r.size[1] - 1)) \X (r.at[2]..(r.at[2] + r.size[2] - 1)) :
         /\ Ahead(First(d[2]), r.size[1] - 1) \in DOMAIN output
         /\ Ahead(First(d[2]), d[1] - r.at[1]) = c}
Lowest(cells) == CHOOSE d \in cells : \A e \in cells : e[2] <= d[2]

\* The output once the cells of rects show, one after the other, what picture
\* has there.
Show(id, picture, rects) ==
  IF id \notin DOMAIN places THEN output
  ELSE FoldLeft(LAMBDA out, r :
                  [c \in DOMAIN out |->
                     LET cells == Landing(r, places[id], c)
                     IN  IF cells = {} THEN out[c] ELSE picture[Lowest(cells)]],
                output, rects)

Becomes(id, picture, rects) ==
  /\ pictures' = (id :> picture) @@ pictures
  /\ output' = Show(id, picture, rects)
  /\ UNCHANGED <<decoded, places>>

Reset ==
  /\ pdu'.kind = "reset"
  /\ output' = Blank(pdu'.size) /\ decoded' = output'
  /\ pictures' = <<>> /\ places' = <<>>

Create ==
  /\ pdu'.kind = "create"
  /\ pictures' = (pdu'.id :> Blank(pdu'.size)) @@ pictures
  /\ UNCHANGED <<output, decoded, places>>

Without(f, id) == [i \in DOMAIN f \ {id} |-> f[i]]
Delete ==
  /\ pdu'.kind = "delete"
  /\ pictures' = Without(pictures, pdu'.id) /\ places' = Without(places, pdu'.id)
  /\ UNCHANGED <<output, decoded>>

Map ==
  /\ pdu'.kind = "map"
  /\ places' = (pdu'.id :> pdu'.origin) @@ places
  /\ UNCHANGED <<output, decoded, pictures>>

Bitmap ==
  /\ pdu'.kind = "bitmap"
  /\ LET r == pdu'.rect
         old == pictures[pdu'.id]
     IN  Becomes(pdu'.id, [c \in DOMAIN old |->
           IF Covers(r, c) THEN InkAt(r, pdu'.colour, c) ELSE old[c]], <<r>>)

\* Each row after the first is read from as much too early as the output is
\* wider than what of the rectangle lies on it.
RemoteFx ==
  /\ pdu'.kind = "rfx"
  /\ UNCHANGED <<pictures, places>>
  /\ IF pdu'.id \notin DOMAIN places THEN UNCHANGED <<output, decoded>>
     ELSE LET r == [pdu'.rect EXCEPT !.at = Plus(@, places[pdu'.id])]
              w == Cardinality({c \in DOMAIN output : c[2] = r.at[2] /\ Covers(r, c)})
              Read(c) == Ahead(r.at, (c[2] - r.at[2]) * w + (c[1] - r.at[1]))
          IN  /\ decoded' = [c \in DOMAIN output |->
                    IF Covers(r, c) THEN InkAt(r, pdu'.colour, c) ELSE decoded[c]]
              /\ output' = [c \in DOMAIN output |->
                    IF Covers(r, c) THEN decoded'[Read(c)] ELSE output[c]]

Fill ==
  /\ pdu'.kind = "fill"
  /\ LET old == pictures[pdu'.id]
     IN  Becomes(pdu'.id, [c \in DOMAIN old |->
           IF CoveredBy(pdu'.rects, c) THEN Ink(pdu'.colour, 0) ELSE old[c]], pdu'.rects)

\* The source is read once, before anything is written; where two targets
\* overlap, the later one lies on top.
Copy ==
  /\ pdu'.kind = "copy"
  /\ LET r == pdu'.rect
         old == pictures[pdu'.id]
         targets == [k \in DOMAIN pdu'.points |-> [r EXCEPT !.at = pdu'.points[k]]]
         From(c) ==
           LET k == CHOOSE k \in DOMAIN targets :
                      /\ Covers(targets[k], c)
                      /\ \A j \in DOMAIN targets : Covers(targets[j], c) => j <= k
           IN  Plus(r.at, Minus(c, targets[k].at))
     IN  Becomes(pdu'.id, [c \in DOMAIN old |->
           IF CoveredBy(targets, c) THEN pictures[pdu'.source][From(c)] ELSE old[c]],
           targets)

CInit ==
  /\ output = Blank(pdu.size) /\ decoded = output /\ pictures = <<>> /\ places = <<>>

\* What cannot be decoded is skipped.
Undecoded == pdu'.kind = "undecoded" /\ UNCHANGED canvas

CNext ==
  \/ Reset \/ Create \/ Delete \/ Map
  \/ Bitmap \/ RemoteFx \/ Undecoded \/ Fill \/ Copy

CSpec == CInit /\ [][CNext]_<<canvas, pdu>>
===============================================================================
