--------------------------- MODULE MCFlantermInit ---------------------------
(***************************************************************************)
(* Two terminals on small screens.  The sizes of a pixel, a character, a   *)
(* queue entry and the context are small and distinct.  The pool holds one *)
(* terminal of any shape, and for some second ones it runs out at the      *)
(* font, the grid, the queue or the canvas.                                *)
(***************************************************************************)
EXTENDS FlantermInit

Shape(width, height, pitch, margin, font, scaleX, scaleY) ==
  [width |-> width, height |-> height, pitch |-> pitch, margin |-> margin,
   font |-> font.given, fontWidth |-> font.width, fontHeight |-> font.height,
   spacing |-> font.spacing, scaleX |-> scaleX, scaleY |-> scaleY]

NoFont == [given |-> FALSE, width |-> 0, height |-> 0, spacing |-> 0]
Font(width, height, spacing) ==
  [given |-> TRUE, width |-> width, height |-> height, spacing |-> spacing]

MCShapes ==
  { Shape(8, 5, 9, 0, NoFont, 1, 1),              \* 2 by 2 cells, with a rest
    Shape(9, 7, 9, 1, Font(2, 1, 0), 2, 2),       \* scaled, a margin, odd rests
    Shape(6, 3, 8, 0, Font(3, 1, 1), 1, 1),       \* a font wider than a byte
    Shape(2, 2, 3, 0, NoFont, 1, 1) }             \* no room for a character
=============================================================================
