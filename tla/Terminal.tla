-------------------------------- MODULE Terminal --------------------------------
(***************************************************************************)
(* The kernel's terminal, driver_hub/terminal.rs: one flanterm context     *)
(* behind a lock, made when the framebuffer is known, and the writes of    *)
(* the kernel and of tasks.  A write is cut at its line ends into calls of *)
(* flanterm_write, each of which ends with a flush; a step is one byte, or *)
(* one flush.                                                              *)
(***************************************************************************)
EXTENDS Flanterm, Functions

CONSTANT
    Scenarios   \* by name: a framebuffer, what is written to it, and how often

VARIABLES
    scenario,   \* the name of the scenario
    ctx,        \* WRITER: no context, or one
    input,      \* bytes and flushes of the write that is under way
    writes      \* writes begun

vars == <<scenario, ctx, input, writes>>

FlushMark == 256
LF == 10
CR == 13

NoLayout == [rows |-> 0, cols |-> 0]
s == IF ctx = <<>> THEN [layout |-> NoLayout] ELSE ctx[1]
On == ctx # <<>>

\* write_bytes and write_str: the text before a line end, a carriage return and
\* the line feed are written one by one, and what is left after the last.
RECURSIVE Segments(_, _)
Segments(bytes, started) ==
    CASE bytes = <<>> -> IF started THEN <<FlushMark>> ELSE <<>>
      [] bytes # <<>> /\ Head(bytes) = LF ->
            (IF started THEN <<FlushMark>> ELSE <<>>)
                \o <<CR, FlushMark, LF, FlushMark>> \o Segments(Tail(bytes), FALSE)
      [] OTHER -> <<Head(bytes)>> \o Segments(Tail(bytes), TRUE)

Init ==
    /\ scenario \in DOMAIN Scenarios
    /\ ctx = <<>> /\ input = <<>> /\ writes = 0

\* terminal::init.  The kernel asks for rotation 0, scale 1 and no picture; the
\* other scenarios are what flanterm_fb_init offers besides.  Masks that do not
\* fit give no context, and nothing is ever written.
InitTerminal ==
    /\ ~On
    /\ MasksFit(Scenarios[scenario].screen)
    /\ ctx' = <<Context(Scenarios[scenario].screen)>>
    /\ UNCHANGED <<scenario, input, writes>>

WriteBytes(bytes) ==
    /\ On /\ input = <<>> /\ writes < Scenarios[scenario].bound
    /\ input' = Segments(bytes, FALSE)
    /\ writes' = writes + 1
    /\ UNCHANGED <<scenario, ctx>>

\* One byte of flanterm_write.
PutByte ==
    /\ input # <<>> /\ Head(input) # FlushMark
    /\ \E n \in {Putchar(s, Head(input))} : ctx' = <<n>>
    /\ input' = Tail(input)
    /\ UNCHANGED <<scenario, writes>>

\* Its end: autoflush is on.
FlushStep ==
    /\ input # <<>> /\ Head(input) = FlushMark
    /\ \E n \in {DoubleBufferFlush(s)} : ctx' = <<n>>
    /\ input' = Tail(input)
    /\ UNCHANGED <<scenario, writes>>

Next ==
    \/ InitTerminal
    \/ \E bytes \in Scenarios[scenario].writes : WriteBytes(bytes)
    \/ PutByte
    \/ FlushStep

Spec == Init /\ [][Next]_vars
-----------------------------------------------------------------------------
(* Properties. *)

Cells == 0..(s.layout.rows * s.layout.cols - 1)

\* Every index the code uses is in bounds: the cursor, which may stand one past
\* the last column, the queue, the parameters and their count, the character
\* set selected next, the command buffer.
TypeOK ==
    On =>
      /\ s.cx \in 0..s.layout.cols /\ s.cy \in 0..s.layout.rows - 1
      /\ s.saved_fb.cx \in 0..s.layout.cols /\ s.saved_fb.cy \in 0..s.layout.rows - 1
      /\ s.saved_x \in 0..s.layout.cols - 1 /\ s.saved_y \in 0..s.layout.rows - 1
      /\ s.esc_values_i \in 0..MaxEscValues
      /\ s.esc_values \in [0..MaxEscValues - 1 -> 0..ValueLimit - 1]
      /\ s.rrr => s.esc_values_i < MaxEscValues
      /\ s.g_select \in 0..2 /\ s.current_charset \in 0..1 /\ s.osc_buf_i \in 0..OscLimit
      /\ s.current_primary \in 0..9 /\ s.current_bg \in 0..9
      /\ Len(s.queue) <= s.layout.rows * s.layout.cols
      /\ s.map \in [Cells -> 0..Len(s.queue)]

\* push_to_queue: between two flushes a cell has at most one entry, the map
\* leads to it and to no other, and an entry without a cell cannot fill the
\* queue so that characters are dropped.
QueueIndexed ==
    On => /\ \A i \in 1..Len(s.queue) : s.map[s.queue[i].y * s.layout.cols + s.queue[i].x] = i
          /\ \A c \in Cells : s.map[c] # NoEntry =>
                s.queue[s.map[c]].y * s.layout.cols + s.queue[s.map[c]].x = c

\* The picture that was drawn: each cell as queued or in the grid, and the
\* cell under the cursor with its colours exchanged.
CursorAt(i) == s.cursor_enabled /\ s.cx < s.layout.cols /\ i = s.cx + s.cy * s.layout.cols
Wanted == [i \in Cells |-> Look(s.layout, IF CursorAt(i) THEN Swapped(Cell(s, i)) ELSE Cell(s, i))]
Shown == IF On THEN s.screen ELSE Wanted
AnyLook == [c : 0..255, fg : Int, bg : Int, zoom : 1..4]

D == INSTANCE Display WITH Looks <- AnyLook, want <- Wanted, shown <- Shown

\* double_buffer_flush: a byte changes nothing that is seen, and a flush shows
\* every cell as it was last drawn and the cursor where it is, and nowhere
\* else, whatever was queued, scrolled and overwritten in between.
ShowsWhatWasDrawn == D!Spec

\* write_bytes: when a write is over everything drawn so far is on the screen,
\* wherever the text was cut.
IdleShowsAll == On /\ input = <<>> => Shown = Wanted

\* control_sequence_parse turns scrolling off, and insertion and deletion of
\* lines move the top margin, for the time of one byte: both are back on every
\* way out, and the margins enclose two rows or all of them.
ScrollingRestored ==
    On => /\ s.scroll_enabled
          /\ s.bottom \in 1..s.layout.rows
          /\ s.top + 1 < s.bottom \/ (s.top = 0 /\ s.bottom = s.layout.rows)

\* The parser's flags are kept one by one and cleared in many places: a control
\* sequence or a command is inside an escape, an escape in a command is inside
\* the command, never two at a time, and no character set is being selected.
ModesNest ==
    On => /\ s.control_sequence \/ s.osc => s.escape
          /\ ~(s.control_sequence /\ s.osc)
          /\ s.osc_escape => s.osc
          /\ s.discard_next => ~s.escape
          /\ s.g_select # 0 => ~s.escape /\ s.unicode_remaining = 0
          /\ s.unicode_remaining = 0 <=> s.raw = <<>>

Byte == Head(input)
RowOf(i) == i \div s.layout.cols
InRegion == CursorY(s) >= s.top /\ CursorY(s) < s.bottom
PutsByte == On /\ input # <<>> /\ Byte # FlushMark
\* Final bytes that may clear the screen: J, h, l and c.
MayClear == s.escape /\ Byte \in {ED, SetMode, ResetMode, 99}
\* Final bytes that may put the cursor anywhere: u, h, l and 8.
MayJump == s.escape /\ Byte \in {RCP, SetMode, ResetMode, 56}

\* flanterm_fb_scroll and revscroll: no byte but one that clears the screen
\* changes a row outside the margins that the cursor does not pass.
OutsideMarginsStays ==
    [][PutsByte /\ ~MayClear =>
         LET a == CursorY(s)
             b == CursorY(s)'
         IN  \A i \in Cells :
               (RowOf(i) < s.top \/ RowOf(i) >= s.bottom)
                 /\ RowOf(i) \notin Smaller(a, b)..Larger(a, b)
               => Cell(s, i)' = Cell(s, i)]_vars

\* In origin mode the cursor does not leave the scroll region by moving, by
\* wrapping or by line feeds, with the margins it has or with new ones.
OriginStaysInRegion ==
    [][PutsByte /\ ~MayJump /\ s.origin_mode /\ s.origin_mode' /\ InRegion => InRegion']_vars

\* sgr: the colours in use are a shade of those the attributes stand for, with
\* the two sides exchanged in reverse video, through any sequence of changes,
\* saves and restores.  odd marks contexts in which the code itself has lost
\* track: a default or indexed colour set in reverse video, and ESC 8 before
\* ESC 7.
Shades(n, bright, plain) ==
    IF n = ColorDefault THEN {bright, plain} ELSE {Ansi(s.layout, n), AnsiBright(s.layout, n)}
FgSeen == IF s.fg = Transparent THEN DefaultFg(s.layout) ELSE s.fg
BgSeen == IF s.bg = Transparent THEN DefaultBg(s.layout) ELSE s.bg
ColoursFollow ==
    On /\ ~s.odd =>
      /\ s.current_primary # ColorRgb =>
            (IF s.reverse_video THEN BgSeen ELSE FgSeen)
                \in Shades(s.current_primary, DefaultFgBright(s.layout), DefaultFg(s.layout))
      /\ s.current_bg # ColorRgb =>
            (IF s.reverse_video THEN FgSeen ELSE BgSeen)
                \in Shades(s.current_bg, DefaultBgBright(s.layout), DefaultBg(s.layout))

\* UTF-8 as it is defined: the bytes of a code point.
Utf8(cp) ==
    CASE cp < 128 -> <<cp>>
      [] cp \in 128..2047 -> <<192 + cp \div 64, 128 + (cp % 64)>>
      [] cp \in (2048..65535) \ (55296..57343) ->
            <<224 + cp \div 4096, 128 + ((cp \div 64) % 64), 128 + (cp % 64)>>
      [] cp \in 65536..1114111 ->
            <<240 + cp \div 262144, 128 + ((cp \div 4096) % 64), 128 + ((cp \div 64) % 64), 128 + (cp % 64)>>
      [] OTHER -> <<>>

\* flanterm_putchar decodes a code point only from the bytes that are its
\* UTF-8: nothing overlong, no surrogate, nothing above the last one.
DecodesExactly == On /\ s.decoded # <<>> => Utf8(s.decoded[1]) = s.decoded[2]

\* plot_char in all four rotations: the pixels of a cell are distinct, lie in
\* the framebuffer and in the area that is filled at start, and belong to no
\* other cell.
PlotsInside ==
    On /\ writes = 0 =>
      LET l == s.layout
          f == Scenarios[scenario].screen
          pixels == [i \in Cells |-> Range(GlyphPixels(l, i % l.cols, i \div l.cols))]
      IN  /\ FillPixels(l) \subseteq 0..((l.pitch \div 4) * f.height - 1)
          /\ Cardinality(FillPixels(l)) = f.width * f.height
          /\ \A i \in Cells : /\ Cardinality(pixels[i]) = l.glyph_w * l.glyph_h
                              /\ pixels[i] \subseteq FillPixels(l)
                              /\ \A j \in Cells \ {i} : pixels[i] \cap pixels[j] = {}
          /\ \A i \in Cells : s.screen[i].zoom * FontWidth = l.glyph_w

\* Cells, queue and pixels: each cell has at most one queued entry, its own
\* pixels, and shows what was drawn once a write is over.
ScreenKept == QueueIndexed /\ IdleShowsAll /\ PlotsInside

\* The parser: indices in bounds, modes nested, margins and scrolling restored,
\* colours as the attributes say, code points decoded exactly, after any bytes.
ParserKept == TypeOK /\ ScrollingRestored /\ ModesNest /\ ColoursFollow /\ DecodesExactly

\* No byte moves text or the cursor across the margins of the scroll region.
MarginsRespected == OutsideMarginsStays /\ OriginStaysInRegion
================================================================================
