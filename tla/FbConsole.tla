------------------------------- MODULE FbConsole -------------------------------
(***************************************************************************)
(* The framebuffer backend of the terminal, flanterm_backends/fb.rs: where *)
(* a cell's pixels go, colours, and the double-buffered grid.  A write to  *)
(* a cell is queued; map says which queue entry a cell has; the flush      *)
(* plots the queue and the cursor.                                         *)
(*                                                                         *)
(* The operators take the context (a record, Context in Flanterm) and      *)
(* return the one after the call.  What is plotted is kept per cell in     *)
(* screen: the character with the colours its pixels get.                  *)
(***************************************************************************)
EXTENDS Integers, Sequences, FiniteSets, SequencesExt

NoEntry == 0         \* map's None; queue entries count from 1
Transparent == -1    \* the colour 0xffffffff
CanvasPixel == -2    \* the colour of the picture behind the text
Space == 32

\* a, a + 1, ..., b - 1: the range a..b of Rust.
Ints(a, b) == [k \in 1..(b - a) |-> a + k - 1]
Smaller(a, b) == IF a < b THEN a ELSE b
Larger(a, b) == IF a < b THEN b ELSE a
-----------------------------------------------------------------------------
(* The layout of the cells on the framebuffer. *)

\* The masks flanterm_fb_init accepts.
MasksFit(f) == f.red = f.green /\ f.red = f.blue /\ f.red >= 8

\* An explicit scale is kept; 0 asks for one by the size of the screen.
Scale(f, width, height) ==
    CASE f.scale # 0 -> f.scale
      [] f.scale = 0 /\ width >= 5120 /\ height >= 2880 -> 4
      [] f.scale = 0 /\ width >= 2560 /\ height >= 1440 /\ ~(width >= 5120 /\ height >= 2880) -> 2
      [] OTHER -> 1

\* The built-in font: eight columns and one of spacing, sixteen rows.
FontWidth == 9
FontHeight == 16

LayoutOf(f, width, height, scale) ==
    [ width    |-> width, height |-> height, pitch |-> f.pitch, rotation |-> f.rotation,
      scale    |-> scale, canvas |-> f.canvas,
      glyph_w  |-> FontWidth * scale, glyph_h |-> FontHeight * scale,
      cols     |-> (width - 2 * f.margin) \div (FontWidth * scale),
      rows     |-> (height - 2 * f.margin) \div (FontHeight * scale),
      offset_x |-> f.margin + ((width - 2 * f.margin) % (FontWidth * scale)) \div 2,
      offset_y |-> f.margin + ((height - 2 * f.margin) % (FontHeight * scale)) \div 2,
      red_shift |-> f.red_shift + (f.red - 8), green_shift |-> f.green_shift + (f.green - 8),
      blue_shift |-> f.blue_shift + (f.blue - 8) ]

\* flanterm_fb_init: a screen turned sideways swaps its sides.
Layout(f) ==
    LET w == IF f.rotation \in {1, 3} THEN f.height ELSE f.width
        h == IF f.rotation \in {1, 3} THEN f.width ELSE f.height
    IN  LayoutOf(f, w, h, Scale(f, w, h))

\* The first pixel of a glyph whose corner is at px, py, and the steps from
\* one pixel to the next down and across, by rotation.
FirstPixel(l, px, py) ==
    CASE l.rotation = 1 -> (l.height - 1 - py) + px * (l.pitch \div 4)
      [] l.rotation = 2 -> (l.width - 1 - px) + (l.height - 1 - py) * (l.pitch \div 4)
      [] l.rotation = 3 -> py + (l.width - 1 - px) * (l.pitch \div 4)
      [] OTHER -> px + py * (l.pitch \div 4)
OuterStride(l) ==
    CASE l.rotation = 1 -> -1 [] l.rotation = 2 -> -(l.pitch \div 4)
      [] l.rotation = 3 -> 1 [] OTHER -> l.pitch \div 4
InnerStride(l) ==
    CASE l.rotation = 1 -> l.pitch \div 4 [] l.rotation = 2 -> -1
      [] l.rotation = 3 -> -(l.pitch \div 4) [] OTHER -> 1

\* The offset of every pixel of the glyph of cell x, y, by row and column.
GlyphPixels(l, x, y) ==
    [p \in (0..l.glyph_h - 1) \X (0..l.glyph_w - 1) |->
        FirstPixel(l, l.offset_x + x * l.glyph_w, l.offset_y + y * l.glyph_h)
            + p[1] * OuterStride(l) + p[2] * InnerStride(l)]

\* The offsets the background fill of full_refresh writes.
FillPixels(l) ==
    {CASE l.rotation = 1 -> (l.height - 1 - p[2]) + p[1] * (l.pitch \div 4)
       [] l.rotation = 2 -> (l.width - 1 - p[1]) + (l.height - 1 - p[2]) * (l.pitch \div 4)
       [] l.rotation = 3 -> p[2] + (l.width - 1 - p[1]) * (l.pitch \div 4)
       [] OTHER -> p[1] + p[2] * (l.pitch \div 4)
        : p \in (0..l.width - 1) \X (0..l.height - 1)}
-----------------------------------------------------------------------------
(* Colours. *)

\* convert_colour_fb, for channels of eight bits.
ConvertColour(l, rgb) ==
      ((rgb \div 65536) % 256) * 2 ^ l.red_shift
    + ((rgb \div 256) % 256) * 2 ^ l.green_shift
    + (rgb % 256) * 2 ^ l.blue_shift

AnsiRgb == <<\h000000, \haa0000, \h00aa00, \haa5500, \h0000aa, \haa00aa, \h00aaaa, \haaaaaa>>
AnsiBrightRgb == <<\h555555, \hff5555, \h55ff55, \hffff55, \h5555ff, \hff55ff, \h55ffff, \hffffff>>
Ansi(l, n) == ConvertColour(l, AnsiRgb[n + 1])
AnsiBright(l, n) == ConvertColour(l, AnsiBrightRgb[n + 1])
DefaultBg(l) == 0
DefaultFg(l) == ConvertColour(l, \haaaaaa)
DefaultBgBright(l) == ConvertColour(l, \h555555)
DefaultFgBright(l) == ConvertColour(l, \hffffff)

\* The four ways to plot a character: through a picture or on the default
\* colours, each font pixel zoom times across and down or once.
OnCanvas(colour) == IF colour = Transparent THEN CanvasPixel ELSE colour
PlotCharScaledCanvas(l, c) ==
    [c |-> c.c, fg |-> OnCanvas(c.fg), bg |-> OnCanvas(c.bg), zoom |-> l.scale]
PlotCharScaledUncanvas(l, c) ==
    [c |-> c.c, fg |-> IF c.fg = Transparent THEN DefaultFg(l) ELSE c.fg,
     bg |-> IF c.bg = Transparent THEN DefaultBg(l) ELSE c.bg, zoom |-> l.scale]
PlotCharUnscaledCanvas(l, c) ==
    [c |-> c.c, fg |-> OnCanvas(c.fg), bg |-> OnCanvas(c.bg), zoom |-> 1]
PlotCharUnscaledUncanvas(l, c) ==
    [c |-> c.c, fg |-> IF c.fg = Transparent THEN DefaultFg(l) ELSE c.fg,
     bg |-> IF c.bg = Transparent THEN DefaultBg(l) ELSE c.bg, zoom |-> 1]

\* plot_char, by the mode flanterm_fb_init chose.
Look(l, c) ==
    CASE l.scale # 1 /\ l.canvas -> PlotCharScaledCanvas(l, c)
      [] l.scale # 1 /\ ~l.canvas -> PlotCharScaledUncanvas(l, c)
      [] l.scale = 1 /\ l.canvas -> PlotCharUnscaledCanvas(l, c)
      [] OTHER -> PlotCharUnscaledUncanvas(l, c)
Plot(s, c, x, y) ==
    IF x >= s.layout.cols \/ y >= s.layout.rows THEN s
    ELSE [s EXCEPT !.screen[x + y * s.layout.cols] = Look(s.layout, c)]

SetFg(s, colour) == [s EXCEPT !.fg = colour]
SetBg(s, colour) == [s EXCEPT !.bg = colour]
FgDefault(s) == SetFg(s, DefaultFg(s.layout))
BgDefault(s) == SetBg(s, Transparent)

\* Transparent is meant for the background; it and the default background
\* stand for each other when the two colours change places.
SwapPaletteRaw(s) == [s EXCEPT !.fg = s.bg, !.bg = s.fg]
SwapPalette(s) ==
    [s EXCEPT !.fg = IF s.bg = Transparent THEN DefaultBg(s.layout) ELSE s.bg,
              !.bg = IF s.fg = DefaultBg(s.layout) THEN Transparent ELSE s.fg]
-----------------------------------------------------------------------------
(* The grid, the queue and the cursor. *)

Glyph(s, c) == [c |-> c, fg |-> s.fg, bg |-> s.bg]

\* What the cell will show after the next flush.
Cell(s, i) == IF s.map[i] # NoEntry THEN s.queue[s.map[i]].c ELSE s.grid[i]

\* A cell that already has an entry keeps it.
PushAt(s, c, x, y, i) ==
    CASE s.map[i] # NoEntry -> [s EXCEPT !.queue[s.map[i]].c = c]
      [] s.map[i] = NoEntry /\ (s.grid[i] = c \/ Len(s.queue) = s.layout.rows * s.layout.cols) -> s
      [] OTHER -> [s EXCEPT !.queue = Append(@, [x |-> x, y |-> y, c |-> c]), !.map[i] = Len(s.queue) + 1]
PushToQueue(s, c, x, y) ==
    IF x >= s.layout.cols \/ y >= s.layout.rows THEN s
    ELSE PushAt(s, c, x, y, y * s.layout.cols + x)

PushCell(s, from, to) ==
    PushToQueue(s, Cell(s, from), to % s.layout.cols, to \div s.layout.cols)

BlankRow(s, y) ==
    FoldLeft(LAMBDA a, x : PushToQueue(a, Glyph(a, Space), x, y), s, Ints(0, s.layout.cols))

\* Scrolling copies the rows between the margins one up, first row first, and
\* reverse scrolling one down, last row first.
ScrollWhole(s) ==
    BlankRow(FoldLeft(LAMBDA a, i : PushCell(a, i, i - a.layout.cols), s,
                      Ints(s.layout.cols, s.bottom * s.layout.cols)),
             s.bottom - 1)
Scroll(s) ==
    BlankRow(FoldLeft(LAMBDA a, i : PushCell(a, i, i - a.layout.cols), s,
                      Ints((s.top + 1) * s.layout.cols, s.bottom * s.layout.cols)),
             s.bottom - 1)
RevScroll(s) ==
    BlankRow(FoldLeft(LAMBDA a, i : PushCell(a, i, i + a.layout.cols), s,
                      Reverse(Ints(s.top * s.layout.cols, (s.bottom - 1) * s.layout.cols))),
             s.top)

Blanked(s) == FoldLeft(LAMBDA a, y : BlankRow(a, y), s, Ints(0, s.layout.rows))
Clear(s, move) == IF move THEN [Blanked(s) EXCEPT !.cx = 0, !.cy = 0] ELSE Blanked(s)

\* The cursor may stand one past the last column: the next character wraps.  A
\* position below zero, which wraps to a large one in the code, is zero.
SetCursorPos(s, x, y) ==
    [s EXCEPT !.cx = Larger(0, Smaller(x, s.layout.cols - 1)), !.cy = Larger(0, Smaller(y, s.layout.rows - 1))]
CursorX(s) == Smaller(s.cx, s.layout.cols - 1)
CursorY(s) == Smaller(s.cy, s.layout.rows - 1)

MoveCharacter(s, newX, oldX, y) ==
    IF newX >= s.layout.cols \/ oldX >= s.layout.cols \/ y >= s.layout.rows THEN s
    ELSE PushCell(s, oldX + y * s.layout.cols, newX + y * s.layout.cols)

\* raw_putchar: the wrap that was put off, then the character.
Wrapped(s) ==
    CASE s.cx < s.layout.cols -> s
      [] s.cx >= s.layout.cols /\ ~(s.wrap_enabled /\ (s.cy < s.bottom - 1 \/ s.scroll_enabled)) ->
            [s EXCEPT !.cx = s.layout.cols - 1]
      [] OTHER -> IF s.cy + 1 = s.bottom THEN Scroll([s EXCEPT !.cx = 0])
                  ELSE [s EXCEPT !.cx = 0, !.cy = Smaller(s.cy + 1, s.layout.rows - 1)]
Put(s, c) == [PushToQueue(s, Glyph(s, c), s.cx, s.cy) EXCEPT !.cx = @ + 1]
RawPutchar(s, c) == Put(Wrapped(s), c)
RawPutSpaces(s, n) == FoldLeft(LAMBDA a, i : RawPutchar(a, Space), s, Ints(0, n))

SaveBackend(s) == [s EXCEPT !.saved_fb = [fg |-> s.fg, bg |-> s.bg, cx |-> s.cx, cy |-> s.cy]]
RestoreBackend(s) ==
    [s EXCEPT !.fg = s.saved_fb.fg, !.bg = s.saved_fb.bg, !.cx = s.saved_fb.cx, !.cy = s.saved_fb.cy]
-----------------------------------------------------------------------------
(* Putting the grid on the screen. *)

Swapped(c) == [c EXCEPT !.fg = c.bg, !.bg = c.fg]

\* draw_cursor takes the cell out of the queue: it has been drawn, reversed.
TakeKeepsGrid(s, i) == [s EXCEPT !.map[i] = NoEntry]
TakeEntry(s, i) ==
    IF s.map[i] = NoEntry THEN s ELSE [s EXCEPT !.grid[i] = Cell(s, i), !.map[i] = NoEntry]
DrawCursor(s) ==
    IF ~s.cursor_enabled \/ s.cx >= s.layout.cols \/ s.cy >= s.layout.rows THEN s
    ELSE TakeEntry(Plot(s, Swapped(Cell(s, s.cx + s.cy * s.layout.cols)), s.cx, s.cy),
                   s.cx + s.cy * s.layout.cols)

PlotQueue(s) ==
    FoldLeft(LAMBDA a, q : IF a.map[q.y * a.layout.cols + q.x] = NoEntry THEN a
                           ELSE [Plot(a, q.c, q.x, q.y) EXCEPT !.grid[q.y * a.layout.cols + q.x] = q.c,
                                                              !.map[q.y * a.layout.cols + q.x] = NoEntry],
             s, s.queue)

EraseOldCursor(s) ==
    IF ~((s.old_x # s.cx \/ s.old_y # s.cy \/ ~s.cursor_enabled)
         /\ s.old_x < s.layout.cols /\ s.old_y < s.layout.rows)
    THEN s
    ELSE Plot(s, s.grid[s.old_x + s.old_y * s.layout.cols], s.old_x, s.old_y)

Settled(s) == [s EXCEPT !.old_x = s.cx, !.old_y = s.cy, !.queue = <<>>]
FlushKeepingCursor(s) == Settled(PlotQueue(DrawCursor(s)))
DoubleBufferFlush(s) == Settled(EraseOldCursor(PlotQueue(DrawCursor(s))))

\* full_refresh, from the grid alone; called once, by flanterm_fb_init.
FullRefresh(s) ==
    DrawCursor(FoldLeft(LAMBDA a, i : Plot(a, a.grid[i], i % a.layout.cols, i \div a.layout.cols),
                        s, Ints(0, s.layout.rows * s.layout.cols)))
================================================================================
