-------------------------------- MODULE Screen --------------------------------
(* HeadlessGfxHandler of src/gfx.rs: the callbacks that composite what comes  *)
(* over the EGFX channel into one framebuffer. Buffers are flat, row after    *)
(* row, as in the code; a pixel is one cell, and a callback one step, as it   *)
(* runs while a PDU is processed.                                             *)
EXTENDS Integers, FiniteSets, SequencesExt

CONSTANTS Ids,         \* surfaces
          OutputSizes, SurfaceSizes, Origins,
          Draws        \* bound: drawings in the life of the session

ASSUME ScreenAssumption ==
  /\ Draws \in Nat /\ Origins \subseteq Nat \X Nat
  /\ OutputSizes \cup SurfaceSizes \subseteq (Nat \ {0}) \X (Nat \ {0})

VARIABLES framebuffer,          \* width, height, data
          scratch,              \* rfx_scratch, of the framebuffer's size
          surfaces, mappings,   \* by surface id
          hasContent, frames,   \* has_content, egfx_frame_count
          drawn,                \* drawings so far, each in a colour of its own
          pdu                   \* history: what was processed last

vars == <<framebuffer, scratch, surfaces, mappings, hasContent, frames, drawn, pdu>>

Buffer(size) ==
  [width |-> size[1], height |-> size[2], data |-> [i \in 0..(size[1] * size[2] - 1) |-> 0]]
Len0(data) == Cardinality(DOMAIN data)

Init ==
  /\ \E size \in OutputSizes :
       framebuffer = Buffer(size) /\ scratch = Buffer(size) /\ pdu = [kind |-> "none", size |-> size]
  /\ surfaces = <<>> /\ mappings = <<>>
  /\ hasContent = FALSE /\ frames = 0 /\ drawn = 0

------------------------------------------------------------------------------
(* Copying between buffers. A rectangle is its top left corner and its size;  *)
(* data of a rectangle lies in rows of its width.                             *)

Least(a, b) == IF a <= b THEN a ELSE b
Area(r) == r.size[1] * r.size[2]
MutStart(r, stride, row) == (r.at[2] + row) * r.size[1] + r.at[1]
Start(r, stride, row) == (r.at[2] + row) * stride + r.at[1]

\* Only the end of the whole buffer is checked.
InBuffer(r, stride, data, row) == Start(r, stride, row) + r.size[1] <= Len0(data)

\* The row of r that is copied over cell i, or none.
RowsOver(r, stride, data, i) ==
  {row \in 0..(r.size[2] - 1) :
     /\ InBuffer(r, stride, data, row)
     /\ i - Start(r, stride, row) \in 0..(r.size[1] - 1)}

\* Framebuffer::blit, and the same loop over a surface.
Blit(data, stride, r, src) ==
  [i \in DOMAIN data |->
     LET rows == RowsOver(r, stride, data, i)
         row == CHOOSE k \in rows : \A j \in rows : j <= k
     IN  IF rows = {} THEN data[i]
         ELSE src[row * r.size[1] + i - Start(r, stride, row)]]

\* A rectangle of a surface, row by row; what lies beyond the buffer is black.
Extract(buffer, r) ==
  [k \in 0..(Area(r) - 1) |->
     LET row == k \div r.size[1]
     IN  IF InBuffer(r, buffer.width, buffer.data, row)
         THEN buffer.data[Start(r, buffer.width, row) + (k % r.size[1])]
         ELSE 0]

Moved(r, origin) == [r EXCEPT !.at = <<@[1] + origin[1], @[2] + origin[2]>>]

BlitTo(buffer, r, src) == [buffer EXCEPT !.data = Blit(@, buffer.width, r, src)]

\* composite_surface_region, on a framebuffer fb.
Composite(fb, id, r) ==
  IF id \in DOMAIN mappings
  THEN BlitTo(fb, Moved(r, mappings[id]), Extract(surfaces'[id], r))
  ELSE fb

------------------------------------------------------------------------------
(* The callbacks. *)

Within(f, id, v) == [i \in DOMAIN f \cup {id} |-> IF i = id THEN v ELSE f[i]]
Without(f, id) == [i \in DOMAIN f \ {id} |-> f[i]]

Resized(size) == Buffer(size)

\* The content flag stays, over a framebuffer that is blank again.
OnResetGraphics ==
  /\ \E size \in OutputSizes :
       framebuffer' = Resized(size) /\ scratch' = Resized(size) /\ pdu' = [kind |-> "reset", size |-> size]
  /\ surfaces' = <<>> /\ mappings' = <<>>
  /\ UNCHANGED <<hasContent, frames, drawn>>

OnSurfaceCreated ==
  /\ \E id \in Ids \ DOMAIN surfaces, size \in SurfaceSizes :
       /\ surfaces' = Within(surfaces, id, Buffer(size))
       /\ pdu' = [kind |-> "create", id |-> id, size |-> size]
  /\ UNCHANGED <<framebuffer, scratch, mappings, hasContent, frames, drawn>>

OnSurfaceDeleted ==
  /\ \E id \in DOMAIN surfaces :
       /\ surfaces' = Without(surfaces, id) /\ mappings' = Without(mappings, id)
       /\ pdu' = [kind |-> "delete", id |-> id]
  /\ UNCHANGED <<framebuffer, scratch, hasContent, frames, drawn>>

\* Nothing is drawn yet: the output shows what the surface gets from now on.
OnSurfaceMapped ==
  /\ \E id \in DOMAIN surfaces, o \in Origins :
       /\ mappings' = Within(mappings, id, o)
       /\ pdu' = [kind |-> "map", id |-> id, origin |-> o]
  /\ UNCHANGED <<framebuffer, scratch, surfaces, hasContent, frames, drawn>>

\* The rectangles a surface has room for.
Rects(id) ==
  {r \in [at : (0..2) \X (0..2), size : (1..3) \X (1..3)] :
     /\ r.at[1] + r.size[1] <= surfaces[id].width
     /\ r.at[2] + r.size[2] <= surfaces[id].height}

\* Decoded data, row by row, with no two pixels in a row alike.
Ink(colour, k) == 1 + ((colour + k) % 3)
Decoded(r) == [k \in 0..(Area(r) - 1) |-> Ink(drawn, k)]

Draw == drawn < Draws /\ drawn' = drawn + 1

\* Both the surface and the framebuffer get the data.
OnBitmapUpdated ==
  /\ Draw
  /\ \E id \in DOMAIN surfaces : \E r \in Rects(id) :
       /\ surfaces' = [surfaces EXCEPT ![id] = BlitTo(@, r, Decoded(r))]
       /\ framebuffer' = IF id \in DOMAIN mappings
                         THEN BlitTo(framebuffer, Moved(r, mappings[id]), Decoded(r))
                         ELSE framebuffer
       /\ pdu' = [kind |-> "bitmap", id |-> id, rect |-> r, colour |-> drawn]
  /\ hasContent' = TRUE /\ frames' = frames + 1
  /\ UNCHANGED <<scratch, mappings>>

\* The decoder writes what of r lies within the scratch image, row by row.
Clipped(r) ==
  [r EXCEPT !.size = <<Least(@[1], scratch.width - r.at[1]), Least(@[2], scratch.height - r.at[2])>>]
DecodedIn(r) ==
  LET w == Clipped(r).size[1]
  IN  [k \in 0..(Area(Clipped(r)) - 1) |-> Ink(drawn, (k \div w) * r.size[1] + (k % w))]

\* data_for_rect: a piece of an image, from the first cell of r on.
DataForRect(image, r) ==
  [k \in 0..((r.size[2] - 1) * image.width + r.size[1] - 1) |->
     image.data[Start(r, image.width, 0) + k]]

\* RemoteFX is decoded into the scratch image, past the surface, and copied to
\* the framebuffer as if the rows there were as long as the rectangle's.
DecodeRemoteFx ==
  /\ Draw
  /\ \E id \in DOMAIN surfaces : \E r \in Rects(id), ok \in BOOLEAN :
       /\ IF ok /\ id \in DOMAIN mappings
          THEN LET at == Moved(r, mappings[id])
                   update == Clipped(at)
               IN  /\ update.size[1] > 0 /\ update.size[2] > 0
                   /\ scratch' = BlitTo(scratch, update, DecodedIn(at))
                   /\ framebuffer' = BlitTo(framebuffer, update, DataForRect(scratch', update))
                   /\ hasContent' = TRUE
          ELSE UNCHANGED <<scratch, framebuffer, hasContent>>
       /\ pdu' = [kind |-> IF ok THEN "rfx" ELSE "undecoded",
                  id |-> id, rect |-> r, colour |-> drawn]
  /\ UNCHANGED <<surfaces, mappings, frames>>

\* One of a set, or two in either order.
Lists(S) == {<<a>> : a \in S} \cup {p \in S \X S : p[1] # p[2]}

\* The rectangles are filled first and composited then, one after the other.
OnSolidFill ==
  /\ Draw
  /\ \E id \in DOMAIN surfaces : \E rects \in Lists(Rects(id)) :
       /\ surfaces' = [surfaces EXCEPT ![id] =
            FoldLeft(LAMBDA s, r : BlitTo(s, r, [k \in 0..(Area(r) - 1) |-> Ink(drawn, 0)]),
                     @, rects)]
       /\ framebuffer' =
            FoldLeft(LAMBDA fb, r : Composite(fb, id, r), framebuffer, rects)
       /\ pdu' = [kind |-> "fill", id |-> id, rects |-> rects, colour |-> drawn]
  /\ UNCHANGED <<scratch, mappings, hasContent, frames>>

\* Through a temporary, as source and target may be the same surface.
OnSurfaceToSurface ==
  /\ Draw
  /\ \E source, id \in DOMAIN surfaces : \E r \in Rects(source) :
       \E points \in Lists({t.at : t \in {u \in Rects(id) : u.size = r.size}}) :
         LET temp == Extract(surfaces[source], r)
             Target(p) == [r EXCEPT !.at = p]
         IN  /\ surfaces' = [surfaces EXCEPT ![id] =
                  FoldLeft(LAMBDA s, p : BlitTo(s, Target(p), temp), @, points)]
             /\ framebuffer' =
                  FoldLeft(LAMBDA fb, p : Composite(fb, id, Target(p)), framebuffer, points)
             /\ pdu' = [kind |-> "copy", source |-> source, id |-> id, rect |-> r,
                        points |-> points]
  /\ UNCHANGED <<scratch, mappings, hasContent, frames>>

Next ==
  \/ OnResetGraphics \/ OnSurfaceCreated \/ OnSurfaceDeleted \/ OnSurfaceMapped
  \/ OnBitmapUpdated \/ DecodeRemoteFx \/ OnSolidFill \/ OnSurfaceToSurface

Spec == Init /\ [][Next]_vars
==============================================================================
