---------------------------- MODULE FlantermInit ----------------------------
(***************************************************************************)
(* How a terminal of flanterm's framebuffer backend comes and goes:        *)
(* flanterm_fb_init allocates seven blocks, from a static pool that only   *)
(* grows (bump_alloc) or with its caller's malloc, any of which may fail;  *)
(* it computes the layout of the text and draws the first picture.         *)
(* deinit gives everything back to the caller's free.                      *)
(*                                                                         *)
(* Sizes and addresses are in bytes, a shape is the arguments that         *)
(* describe the screen and the font.  A glyph's rows are one byte each, of *)
(* FontByte bits.  Callers keep both margins inside the screen and the     *)
(* height of glyphs and scales positive: the code divides and subtracts    *)
(* without a check.                                                        *)
(***************************************************************************)
EXTENDS Integers, Sequences, FiniteSets, SequencesExt, FiniteSetsExt

CONSTANTS
  Terminals,
  Shapes,        \* [width, height, pitch, margin, font, fontWidth, fontHeight,
                 \*  spacing, scaleX, scaleY]; pitch in pixels
  PoolSize,      \* FLANTERM_FB_BUMP_ALLOC_POOL_SIZE
  Glyphs,        \* FLANTERM_FB_FONT_GLYPHS
  FontByte, BuiltinHeight,             \* 8 and 16
  ContextSize, CharSize, ItemSize, PointerSize, PixelSize   \* sizeof

ASSUME InitAssumption ==
  /\ {PoolSize, Glyphs, FontByte, BuiltinHeight, ContextSize, CharSize,
      ItemSize, PointerSize, PixelSize} \subseteq Nat \ {0}
  /\ Shapes \subseteq [width : Nat, height : Nat, pitch : Nat, margin : Nat,
                       font : BOOLEAN, fontWidth : Nat, fontHeight : Nat,
                       spacing : Nat, scaleX : Nat, scaleY : Nat]
  /\ "none" \notin Terminals
  /\ \A s \in Shapes :
       /\ 2 * s.margin <= s.width /\ 2 * s.margin <= s.height
       /\ s.width <= s.pitch
       /\ s.scaleX > 0 /\ s.scaleY > 0
       /\ s.font => s.fontWidth >= FontByte /\ s.fontHeight > 0

Allocators == {"pool", "caller", "callerWithoutFree"}
Fields == <<"ctx", "font_bits", "font_bool", "grid", "queue", "map", "canvas">>

VARIABLES
  terms,        \* each terminal's [status, malloc, shape, blocks, pixels]
  now,          \* the terminal flanterm_fb_init works on, or "none"
  bump_alloc_ptr,
  orig,         \* orig_bump_alloc_ptr of the running call
  heap,         \* the caller's blocks in use: [addr, size]
  allocated,    \* counts the caller's blocks; each has an address of its own
  misused,      \* history: _free got what is not a block in use, or ctx was
                \* read when it was no longer one
  leaked        \* history: blocks nobody was asked to free

lifeVars == <<terms, now, bump_alloc_ptr, orig, heap, allocated, misused, leaked>>

Unused == [status |-> "unused", malloc |-> "none", shape |-> {}, blocks |-> <<>>,
           pixels |-> <<>>]

-----------------------------------------------------------------------------
(* Layout *)

FontWidth(s) == IF s.font THEN s.fontWidth ELSE FontByte
FontHeight(s) == IF s.font THEN s.fontHeight ELSE BuiltinHeight

\* ctx->font_width: with the space between characters.
CellWidth(s) == FontWidth(s) + (IF s.font THEN s.spacing ELSE 1)

GlyphWidth(s) == CellWidth(s) * s.scaleX
GlyphHeight(s) == FontHeight(s) * s.scaleY
Cols(s) == (s.width - 2 * s.margin) \div GlyphWidth(s)
Rows(s) == (s.height - 2 * s.margin) \div GlyphHeight(s)
OffsetX(s) == s.margin + (((s.width - 2 * s.margin) % GlyphWidth(s)) \div 2)
OffsetY(s) == s.margin + (((s.height - 2 * s.margin) % GlyphHeight(s)) \div 2)

Size(f, s) ==
  LET cells == Rows(s) * Cols(s)
  IN  CASE f = "ctx" -> ContextSize
        [] f = "font_bits" -> (FontWidth(s) * FontHeight(s) * Glyphs) \div FontByte
        [] f = "font_bool" -> Glyphs * FontHeight(s) * CellWidth(s)
        [] f = "grid" -> cells * CharSize
        [] f = "queue" -> cells * ItemSize
        [] f = "map" -> cells * PointerSize
        [] f = "canvas" -> s.width * s.height * PixelSize

-----------------------------------------------------------------------------
(* The first picture: what each word of the framebuffer shows, a word of   *)
(* the canvas, or the bit of a cell's glyph (an index into font_bool) over *)
(* a word of the canvas.                                                   *)

Canvas(k) == [canvas |-> k, cell |-> -1, bit |-> -1, cursor |-> FALSE]
Untouched == Canvas(-1)

\* Mutant: a line of the framebuffer is taken to be as long as the screen is wide.
PlotCharByWidth(pixels, s, i, cursor) ==
  LET x == OffsetX(s) + (i % Cols(s)) * GlyphWidth(s)
      y == OffsetY(s) + (i \div Cols(s)) * GlyphHeight(s)
      PixelAt(gx, gy) == x + gx + (y + gy) * s.width
      BitAt(gx, gy) == (gy \div s.scaleY) * CellWidth(s) + (gx \div s.scaleX)
      drawn == {<<gx, gy>> : gx \in 0 .. (GlyphWidth(s) - 1),
                             gy \in 0 .. (GlyphHeight(s) - 1)}
  IN  [k \in DOMAIN pixels |->
         IF \E g \in drawn : PixelAt(g[1], g[2]) = k
         THEN LET g == CHOOSE g \in drawn : PixelAt(g[1], g[2]) = k
              IN  [canvas |-> x + g[1] + (y + g[2]) * s.width, cell |-> i,
                   bit |-> BitAt(g[1], g[2]), cursor |-> cursor]
         ELSE pixels[k]]

\* plot_char for cell i: every pixel of the cell, scaled, glyph or not.
PlotChar(pixels, s, i, cursor) ==
  LET x == OffsetX(s) + (i % Cols(s)) * GlyphWidth(s)
      y == OffsetY(s) + (i \div Cols(s)) * GlyphHeight(s)
      PixelAt(gx, gy) == x + gx + (y + gy) * s.pitch
      BitAt(gx, gy) == (gy \div s.scaleY) * CellWidth(s) + (gx \div s.scaleX)
      drawn == {<<gx, gy>> : gx \in 0 .. (GlyphWidth(s) - 1),
                             gy \in 0 .. (GlyphHeight(s) - 1)}
  IN  [k \in DOMAIN pixels |->
         IF \E g \in drawn : PixelAt(g[1], g[2]) = k
         THEN LET g == CHOOSE g \in drawn : PixelAt(g[1], g[2]) = k
              IN  [canvas |-> x + g[1] + (y + g[2]) * s.width, cell |-> i,
                   bit |-> BitAt(g[1], g[2]), cursor |-> cursor]
         ELSE pixels[k]]

\* full_refresh: the canvas, the grid, and the cursor on the first cell.
FullRefresh(s) ==
  LET canvas == [k \in 0 .. (s.pitch * s.height - 1) |->
                   IF k % s.pitch < s.width
                   THEN Canvas((k \div s.pitch) * s.width + (k % s.pitch))
                   ELSE Untouched]
      cells == Rows(s) * Cols(s)
      Plot(pixels, i) == PlotChar(pixels, s, i, FALSE)
      grid == FoldLeft(Plot, canvas, [j \in 1 .. cells |-> j - 1])
  IN  IF cells > 0 THEN PlotChar(grid, s, 0, TRUE) ELSE grid

-----------------------------------------------------------------------------

\* A terminal's life: no terminal is there yet.
LifeInit ==
  /\ terms = [t \in Terminals |-> Unused]
  /\ now = "none"
  /\ bump_alloc_ptr = 0 /\ orig = 0
  /\ heap = {} /\ allocated = 0
  /\ misused = FALSE /\ leaked = {}

\* flanterm_fb_init is called for t.
Begin(t, s, malloc) ==
  /\ now = "none" /\ terms[t].status = "unused"
  /\ now' = t
  /\ orig' = bump_alloc_ptr
  /\ terms' = [terms EXCEPT ![t] = [Unused EXCEPT !.status = "building", !.shape = s,
                                                  !.malloc = malloc]]
  /\ UNCHANGED <<bump_alloc_ptr, heap, allocated, misused, leaked>>

Building == now # "none" /\ terms[now].status = "building"
Wanted == Size(Fields[Len(terms[now].blocks) + 1], terms[now].shape)
Missing == Len(terms[now].blocks) < Len(Fields)
GetsBlock(b) == terms' = [terms EXCEPT ![now].blocks = Append(@, b)]
GetsNull == terms' = [terms EXCEPT ![now].status = "failing"]

\* Mutant: the pool is left one byte too late.
BumpAllocLate ==
  /\ Building /\ Missing /\ terms[now].malloc = "pool"
  /\ IF bump_alloc_ptr + Wanted > PoolSize + 1
     THEN GetsNull /\ UNCHANGED bump_alloc_ptr
     ELSE /\ GetsBlock([addr |-> bump_alloc_ptr, size |-> Wanted])
          /\ bump_alloc_ptr' = bump_alloc_ptr + Wanted
  /\ UNCHANGED <<now, orig, heap, allocated, misused, leaked>>

BumpAlloc ==
  /\ Building /\ Missing /\ terms[now].malloc = "pool"
  /\ IF bump_alloc_ptr + Wanted > PoolSize
     THEN GetsNull /\ UNCHANGED bump_alloc_ptr
     ELSE /\ GetsBlock([addr |-> bump_alloc_ptr, size |-> Wanted])
          /\ bump_alloc_ptr' = bump_alloc_ptr + Wanted
  /\ UNCHANGED <<now, orig, heap, allocated, misused, leaked>>

\* External: the caller's malloc, which may fail.
Malloc ==
  /\ Building /\ Missing /\ terms[now].malloc # "pool"
  /\ \/ /\ GetsNull
        /\ UNCHANGED <<heap, allocated>>
     \/ LET b == [addr |-> allocated, size |-> Wanted]
        IN  /\ GetsBlock(b)
            /\ heap' = heap \cup {b}
            /\ allocated' = allocated + 1
  /\ UNCHANGED <<now, bump_alloc_ptr, orig, misused, leaked>>

\* The context is complete: reinit, full_refresh, return.
Finish ==
  /\ Building /\ ~Missing
  /\ terms' = [terms EXCEPT ![now].status = "live",
                            ![now].pixels = FullRefresh(terms[now].shape)]
  /\ now' = "none"
  /\ UNCHANGED <<bump_alloc_ptr, orig, heap, allocated, misused, leaked>>

\* _free for t's fields in the given order.  Their addresses and sizes are
\* read from the context.
Free(t, order) ==
  LET Position(f) == CHOOSE j \in DOMAIN Fields : Fields[j] = f
      blocks == terms[t].blocks
      Give(h, f) ==
        LET b == [addr |-> blocks[Position(f)].addr, size |-> Size(f, terms[t].shape)]
        IN  IF Position(f) \notin DOMAIN blocks THEN h
            ELSE [blocks |-> h.blocks \ {b},
                  misused |-> h.misused \/ b \notin h.blocks
                                        \/ blocks[1] \notin h.blocks]
      after == FoldLeft(Give, [blocks |-> heap, misused |-> misused], order)
  IN  heap' = after.blocks /\ misused' = after.misused

\* Mutant: a failed call leaves the pool as it is.
FailKeepsPool ==
  /\ now # "none" /\ terms[now].status = "failing"
  /\ LET t == terms[now]
     IN  CASE t.malloc = "pool" ->
                /\ terms' = [terms EXCEPT ![now].status = "failed"]
                /\ UNCHANGED <<bump_alloc_ptr, heap, misused, leaked>>
           [] t.malloc = "callerWithoutFree" ->
                /\ leaked' = leaked \cup ToSet(t.blocks)
                /\ terms' = [terms EXCEPT ![now].status = "failed"]
                /\ UNCHANGED <<bump_alloc_ptr, heap, misused>>
           [] t.malloc = "caller" /\ t.blocks # <<>> ->
                /\ Free(now, Reverse(Fields))
                /\ terms' = [terms EXCEPT ![now].status = "failed"]
                /\ UNCHANGED <<bump_alloc_ptr, leaked>>
           [] OTHER ->
                /\ terms' = [terms EXCEPT ![now].status = "faulted"]
                /\ UNCHANGED <<bump_alloc_ptr, heap, misused, leaked>>
  /\ now' = IF terms'[now].status = "faulted" THEN now ELSE "none"
  /\ UNCHANGED <<orig, allocated>>

\* The label fail.  Without a context its fields are read through NULL, as the
\* test of ctx comes last.
Fail ==
  /\ now # "none" /\ terms[now].status = "failing"
  /\ LET t == terms[now]
     IN  CASE t.malloc = "pool" ->
                /\ bump_alloc_ptr' = orig
                /\ terms' = [terms EXCEPT ![now].status = "failed"]
                /\ UNCHANGED <<heap, misused, leaked>>
           [] t.malloc = "callerWithoutFree" ->
                /\ leaked' = leaked \cup ToSet(t.blocks)
                /\ terms' = [terms EXCEPT ![now].status = "failed"]
                /\ UNCHANGED <<bump_alloc_ptr, heap, misused>>
           [] t.malloc = "caller" /\ t.blocks # <<>> ->
                /\ Free(now, Reverse(Fields))
                /\ terms' = [terms EXCEPT ![now].status = "failed"]
                /\ UNCHANGED <<bump_alloc_ptr, leaked>>
           [] OTHER ->
                /\ terms' = [terms EXCEPT ![now].status = "faulted"]
                /\ UNCHANGED <<bump_alloc_ptr, heap, misused, leaked>>
  /\ now' = IF terms'[now].status = "faulted" THEN now ELSE "none"
  /\ UNCHANGED <<orig, allocated>>

\* deinit: the context last.  A caller without free passes NULL.
Deinit(t) ==
  /\ now = "none" /\ terms[t].status = "live"
  /\ IF terms[t].malloc = "caller"
     THEN Free(t, <<"font_bits", "font_bool", "grid", "queue", "map", "canvas", "ctx">>)
     ELSE UNCHANGED <<heap, misused>>
  /\ leaked' = IF terms[t].malloc = "callerWithoutFree"
               THEN leaked \cup ToSet(terms[t].blocks) ELSE leaked
  /\ terms' = [terms EXCEPT ![t].status = "closed", ![t].pixels = <<>>]
  /\ UNCHANGED <<now, bump_alloc_ptr, orig, allocated>>

LifeNext ==
  \/ \E t \in Terminals, s \in Shapes, malloc \in Allocators : Begin(t, s, malloc)
  \/ BumpAlloc \/ Malloc \/ Finish \/ Fail
  \/ \E t \in Terminals : Deinit(t)

LifeSpec == LifeInit /\ [][LifeNext]_lifeVars

-----------------------------------------------------------------------------
(* Properties *)

Kept == {t \in Terminals : terms[t].status \in {"building", "failing", "live"}}
From(malloc, set) ==
  UNION {ToSet(terms[t].blocks) : t \in {u \in set : terms[u].malloc = malloc}}

\* The caller's blocks in use are exactly those of terminals in use and those
\* of callers without free; each block is given back once, under its own size,
\* while the context that names it is there.  A failed call leaves the pool as
\* it found it, so that the pool ends behind the last terminal made from it.
\* Only a caller's malloc that fails at once, with a free to clean up with,
\* makes the clean-up go wrong.
MemoryIsAccountedFor ==
  /\ heap = From("caller", Kept) \cup From("callerWithoutFree", Kept) \cup leaked
  /\ ~misused
  /\ leaked # {} => \E t \in Terminals : terms[t].malloc = "callerWithoutFree"
  /\ LET pool == From("pool", {t \in Terminals : terms[t].status \in
                                 {"building", "failing", "live", "closed"}})
     IN  bump_alloc_ptr = FoldSet(LAMBDA b, n : n + b.size, 0, pool)
  /\ \A t \in Terminals :
       terms[t].status = "faulted" => terms[t].blocks = <<>> /\ terms[t].malloc = "caller"

\* A terminal's blocks are as large as its accesses need: the fonts' last glyph,
\* a character and a queue entry per cell, a word per pixel; blocks of the
\* pool lie inside it and share no byte, whoever they belong to; and the
\* text with its margins is on the screen.
BlocksFit ==
  /\ \A t \in Terminals : terms[t].status = "live" =>
       LET s == terms[t].shape
           Room(j) == terms[t].blocks[j].size
           cells == Rows(s) * Cols(s)
       IN  /\ Room(2) >= Glyphs * FontHeight(s)
           /\ Room(3) >= ((Glyphs - 1) * FontHeight(s) + FontHeight(s) - 1) * CellWidth(s)
                           + CellWidth(s)
           /\ Room(4) >= cells * CharSize
           /\ Room(5) >= cells * ItemSize
           /\ Room(6) >= cells * PointerSize
           /\ Room(7) >= ((s.height - 1) * s.width + s.width) * PixelSize
           /\ OffsetX(s) + Cols(s) * GlyphWidth(s) <= s.width - s.margin
           /\ OffsetY(s) + Rows(s) * GlyphHeight(s) <= s.height - s.margin
  /\ LET pool == UNION {{<<t, j>> : j \in DOMAIN terms[t].blocks} :
                          t \in {u \in Terminals : /\ terms[u].malloc = "pool"
                                                   /\ terms[u].status # "failed"}}
         Block(q) == terms[q[1]].blocks[q[2]]
     IN  /\ \A q \in pool : Block(q).addr + Block(q).size <= PoolSize
         /\ \A q, r \in pool : q # r =>
              \/ Block(q).addr + Block(q).size <= Block(r).addr
              \/ Block(r).addr + Block(r).size <= Block(q).addr

\* The first picture: cells of one size lie side by side in the middle of the
\* screen, each shows its glyph's bits enlarged over the canvas below it, the
\* first one inverted, and everything else visible is the canvas; what is
\* between the lines of the framebuffer is not touched.
FirstPictureIsExact ==
  \A t \in Terminals : terms[t].status = "live" =>
    LET s == terms[t].shape
        left == (s.width - Cols(s) * GlyphWidth(s)) \div 2
        top == (s.height - Rows(s) * GlyphHeight(s)) \div 2
        Seen(x, y) == terms[t].pixels[y * s.pitch + x]
    IN  \A y \in 0 .. (s.height - 1), x \in 0 .. (s.pitch - 1) :
          LET col == (x - left) \div GlyphWidth(s)
              row == (y - top) \div GlyphHeight(s)
              inText == x >= left /\ y >= top /\ col < Cols(s) /\ row < Rows(s)
              column == ((x - left) % GlyphWidth(s)) \div s.scaleX
              line == ((y - top) % GlyphHeight(s)) \div s.scaleY
          IN  CASE x >= s.width -> Seen(x, y) = Untouched
                [] x < s.width /\ ~inText -> Seen(x, y) = Canvas(y * s.width + x)
                [] OTHER -> Seen(x, y) = [canvas |-> y * s.width + x,
                                          cell |-> row * Cols(s) + col,
                                          bit |-> line * CellWidth(s) + column,
                                          cursor |-> row = 0 /\ col = 0]

=============================================================================
