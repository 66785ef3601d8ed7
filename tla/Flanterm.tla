------------------------------- MODULE Flanterm -------------------------------
(***************************************************************************)
(* The terminal emulator, flanterm.rs: what one byte of output does.  The  *)
(* context is one record, as in the code, with the backend's fields in it. *)
(* No callback is ever set, so that reports and titles have no effect.     *)
(***************************************************************************)
EXTENDS FbConsole, TLC

CONSTANTS
    MaxEscValues,  \* parameters of a control sequence: 16 in the code
    ValueLimit,    \* parameters are below it: 2^32 in the code
    OscLimit,      \* the length of osc_buf: 256 in the code
    Cp437,         \* the rows of unicode_to_cp437, as a function
    Combining, Wide \* the tables of mk_wcwidth: sequences of intervals

ASSUME FlantermAssumption ==
    /\ MaxEscValues \in Nat /\ MaxEscValues >= 2
    /\ ValueLimit \in Nat /\ OscLimit \in Nat
    /\ \A tab \in {Combining, Wide} : \A i \in 1..Len(tab) :
          tab[i][1] <= tab[i][2] /\ (i > 1 => tab[i - 1][2] < tab[i][1])

Esc == 27
Tabs == 8
Digits == 48..57
Finals == 64..126
\* The final bytes, under their ECMA-48 names.
CUU == {65, 70}         \* A F
CUD == {66, 69, 101}    \* B E e
CUF == {67, 97}         \* C a
CUB == 68               \* D
VPA == 100              \* d
CHA == {71, 96}         \* G `
CUP == {72, 102}        \* H f
DL == 77                \* M
IL == 76                \* L
ED == 74                \* J
ICH == 64               \* @
DCH == 80               \* P
ECH == 88               \* X
SGR == 109              \* m
SCP == 115              \* s
RCP == 117              \* u
EL == 75                \* K
STBM == 114             \* r
SetMode == 104          \* h
ResetMode == 108        \* l
SU == 83                \* S
SD == 84                \* T
REP == 98               \* b

\* current_primary and current_bg: a colour 0..7, or
ColorDefault == 8
ColorRgb == 9
CharsetDefault == 0
CharsetDecSpecial == 1
-----------------------------------------------------------------------------
(* The context. *)

\* flanterm_context_reinit, which ESC c calls too.  What ESC 7 saved stays,
\* but for the two colour numbers.
Reinit(s) ==
    [s EXCEPT
        !.cursor_enabled = TRUE, !.scroll_enabled = TRUE, !.wrap_enabled = TRUE,
        !.origin_mode = FALSE, !.control_sequence = FALSE, !.escape = FALSE,
        !.osc = FALSE, !.osc_escape = FALSE, !.rrr = FALSE, !.discard_next = FALSE,
        !.bold = FALSE, !.bg_bold = FALSE, !.reverse_video = FALSE, !.dec_private = FALSE,
        !.insert_mode = FALSE, !.csi_unhandled = FALSE, !.unicode_remaining = 0,
        !.g_select = 0, !.charsets = <<CharsetDefault, CharsetDecSpecial>>,
        !.current_charset = 0, !.escape_offset = 0, !.esc_values_i = 0,
        !.saved_x = 0, !.saved_y = 0,
        !.current_primary = ColorDefault, !.current_bg = ColorDefault,
        !.saved.current_primary = ColorDefault, !.saved.current_bg = ColorDefault, !.saved.odd = TRUE,
        !.last_printed = Space, !.last_was_graphic = FALSE,
        !.top = 0, !.bottom = s.layout.rows]

ZeroValues == [i \in 0..MaxEscValues - 1 |-> 0]

\* flanterm_context_new before reinit, and the backend of flanterm_fb_init.
\* The last three fields are ghosts: odd, see ColoursFollow; raw and decoded,
\* see DecodesExactly.
Blank(l) ==
    LET cells == 0..(l.rows * l.cols - 1)
        cell == [c |-> Space, fg |-> DefaultFg(l), bg |-> Transparent]
    IN  [ layout |-> l, cursor_enabled |-> FALSE, scroll_enabled |-> FALSE, wrap_enabled |-> FALSE,
          origin_mode |-> FALSE, control_sequence |-> FALSE, escape |-> FALSE, osc |-> FALSE,
          osc_escape |-> FALSE, osc_buf_i |-> 0, rrr |-> FALSE, discard_next |-> FALSE,
          bold |-> FALSE, bg_bold |-> FALSE, reverse_video |-> FALSE, dec_private |-> FALSE,
          insert_mode |-> FALSE, csi_unhandled |-> FALSE, code_point |-> 0,
          unicode_remaining |-> 0, g_select |-> 0, charsets |-> <<0, 0>>, current_charset |-> 0,
          escape_offset |-> 0, esc_values_i |-> 0, esc_values |-> ZeroValues,
          saved_x |-> 0, saved_y |-> 0, current_primary |-> 0, current_bg |-> 0,
          top |-> 0, bottom |-> l.rows, last_printed |-> 0, last_was_graphic |-> FALSE,
          saved |-> [bold |-> FALSE, bg_bold |-> FALSE, reverse_video |-> FALSE,
                     origin_mode |-> FALSE, wrap_enabled |-> FALSE, current_charset |-> 0,
                     charsets |-> <<0, 0>>, current_primary |-> 0, current_bg |-> 0, odd |-> TRUE],
          fg |-> DefaultFg(l), bg |-> Transparent, cx |-> 0, cy |-> 0, old_x |-> 0, old_y |-> 0,
          saved_fb |-> [fg |-> 0, bg |-> 0, cx |-> 0, cy |-> 0],
          grid |-> [i \in cells |-> cell], queue |-> <<>>, map |-> [i \in cells |-> NoEntry],
          screen |-> [i \in cells |-> Look(l, cell)],
          odd |-> FALSE, raw |-> <<>>, decoded |-> <<>> ]

Context(f) == FullRefresh(Reinit(Blank(Layout(f))))
-----------------------------------------------------------------------------
(* Colours and modes. *)

Unreversed(s) ==
    IF s.reverse_video THEN [SwapPalette(s) EXCEPT !.reverse_video = FALSE] ELSE s

\* SGR 0, and leaving the alternate screen.
ResetAttributes(s) ==
    FgDefault(BgDefault([Unreversed(s) EXCEPT
        !.bold = FALSE, !.bg_bold = FALSE, !.odd = FALSE,
        !.current_primary = ColorDefault, !.current_bg = ColorDefault]))

\* The primary colour is the foreground, or the background in reverse video.
SetPrimary(s, colour) == IF s.reverse_video THEN SetBg(s, colour) ELSE SetFg(s, colour)
SetGround(s, colour) == IF s.reverse_video THEN SetFg(s, colour) ELSE SetBg(s, colour)

\* SGR 1 and 22: the primary colour again, bright or not.  In reverse video the
\* default goes to the background as the default of backgrounds.
Embolden(s, bold) ==
    LET t == [s EXCEPT !.bold = bold]
    IN  CASE s.current_primary = ColorRgb -> t
          [] s.current_primary \in 0..7 ->
                SetPrimary(t, IF bold THEN AnsiBright(s.layout, s.current_primary)
                              ELSE Ansi(s.layout, s.current_primary))
          [] s.current_primary = ColorDefault /\ ~s.reverse_video ->
                SetFg(t, IF bold THEN DefaultFgBright(s.layout) ELSE DefaultFg(s.layout))
          [] OTHER ->
                [SetBg(t, IF bold THEN DefaultBgBright(s.layout) ELSE Transparent) EXCEPT !.odd = TRUE]

\* SGR 5 and 25: the same for the other colour.
EmboldenGround(s, bold) ==
    LET t == [s EXCEPT !.bg_bold = bold]
    IN  CASE s.current_bg = ColorRgb -> t
          [] s.current_bg \in 0..7 ->
                SetGround(t, IF bold THEN AnsiBright(s.layout, s.current_bg)
                             ELSE Ansi(s.layout, s.current_bg))
          [] s.current_bg = ColorDefault /\ ~s.reverse_video ->
                SetBg(t, IF bold THEN DefaultBgBright(s.layout) ELSE Transparent)
          [] OTHER ->
                [SetFg(t, IF bold THEN DefaultFgBright(s.layout) ELSE DefaultFg(s.layout)) EXCEPT !.odd = TRUE]

\* SGR 30-37 and 40-47, 90-97 and 100-107.
Colour(s, v) ==
    CASE v \in 30..37 -> SetPrimary([s EXCEPT !.current_primary = v - 30],
                             IF s.bold THEN AnsiBright(s.layout, v - 30) ELSE Ansi(s.layout, v - 30))
      [] v \in 40..47 -> SetGround([s EXCEPT !.current_bg = v - 40],
                             IF s.bg_bold THEN AnsiBright(s.layout, v - 40) ELSE Ansi(s.layout, v - 40))
      [] v \in 90..97 -> SetPrimary([s EXCEPT !.current_primary = v - 90], AnsiBright(s.layout, v - 90))
      [] v \in 100..107 -> SetGround([s EXCEPT !.current_bg = v - 100], AnsiBright(s.layout, v - 100))

\* SGR 39 and 49, set with the palette turned back.
Straight(s) == IF s.reverse_video THEN SwapPalette(s) ELSE s
DefaultPrimary(s) ==
    Straight(SetFg(Straight([s EXCEPT !.current_primary = ColorDefault]),
                   IF s.bold THEN DefaultFgBright(s.layout) ELSE DefaultFg(s.layout)))
DefaultGround(s) ==
    Straight(SetBg(Straight([s EXCEPT !.current_bg = ColorDefault]),
                   IF s.bg_bold THEN DefaultBgBright(s.layout) ELSE Transparent))

\* SGR 38 and 48.  In reverse video the right side of the screen changes, but
\* the number is kept for the other one.
SetIndexed(s, fg, number, colour) ==
    IF fg THEN [s EXCEPT !.current_primary = number, !.fg = colour, !.odd = @ \/ s.reverse_video]
    ELSE [s EXCEPT !.current_bg = number, !.bg = colour, !.odd = @ \/ s.reverse_video]

\* COL256: a cube of six levels a channel, and greys.
Level(n) == IF n = 0 THEN 0 ELSE 55 + 40 * n
Palette(col) ==
    IF col < 232 THEN Level((col - 16) \div 36) * 65536 + Level(((col - 16) \div 6) % 6) * 256
                      + Level((col - 16) % 6)
    ELSE (8 + 10 * (col - 232)) * 65793
Indexed(s, fg, col) ==
    CASE col < 8 -> SetIndexed(s, fg, col, Ansi(s.layout, col))
      [] col \in 8..15 -> SetIndexed(s, fg, col - 8, AnsiBright(s.layout, col - 8))
      [] col \in 16..255 -> SetIndexed(s, fg, ColorRgb, ConvertColour(s.layout, Palette(col)))
      [] OTHER -> s
TrueColour(s, fg, i) ==
    SetIndexed(s, fg, ColorRgb,
        ConvertColour(s.layout, (s.esc_values[i] % 256) * 65536 + (s.esc_values[i + 1] % 256) * 256
                                + (s.esc_values[i + 2] % 256)))

SgrOne(s, v) ==
    CASE v = 0 -> ResetAttributes(s)
      [] v \in {1, 22} -> Embolden(s, v = 1)
      [] v \in {5, 25} -> EmboldenGround(s, v = 5)
      [] v \in 30..37 \cup 40..47 \cup 90..97 \cup 100..107 -> Colour(s, v)
      [] v = 39 -> DefaultPrimary(s)
      [] v = 49 -> DefaultGround(s)
      [] v = 7 -> IF s.reverse_video THEN s ELSE [SwapPalette(s) EXCEPT !.reverse_video = TRUE]
      [] v = 27 -> Unreversed(s)
      [] OTHER -> s

RECURSIVE SgrFrom(_, _)
SgrFrom(s, i) ==
    IF i >= s.esc_values_i THEN s
    ELSE CASE s.esc_values[i] \notin {38, 48} -> SgrFrom(SgrOne(s, s.esc_values[i]), i + 1)
           [] s.esc_values[i] \in {38, 48} /\ i + 1 >= s.esc_values_i -> s
           [] s.esc_values[i] \in {38, 48} /\ i + 1 < s.esc_values_i /\ s.esc_values[i + 1] = 2 ->
                IF i + 4 >= s.esc_values_i THEN s
                ELSE SgrFrom(TrueColour(s, (s.esc_values[i] = 38) # s.reverse_video, i + 2), i + 5)
           [] s.esc_values[i] \in {38, 48} /\ i + 1 < s.esc_values_i /\ s.esc_values[i + 1] = 5 ->
                IF i + 2 >= s.esc_values_i THEN s
                ELSE SgrFrom(Indexed(s, (s.esc_values[i] = 38) # s.reverse_video, s.esc_values[i + 2]), i + 3)
           [] OTHER -> SgrFrom(s, i + 2)
Sgr(s) == IF s.esc_values_i = 0 THEN ResetAttributes(s) ELSE SgrFrom(s, 0)

\* dec_private_parse: ESC [ ? ... h or l.
DecMode(s, v, set) ==
    CASE v = 6 -> SetCursorPos([s EXCEPT !.origin_mode = set], 0, IF set THEN s.top ELSE 0)
      [] v = 7 -> [s EXCEPT !.wrap_enabled = set]
      [] v = 25 -> [s EXCEPT !.cursor_enabled = set]
      [] v = 1049 -> Clear(IF set THEN s ELSE ResetAttributes(s), TRUE)
      [] OTHER -> s
DecPrivateParse(s, c) ==
    IF c \notin {SetMode, ResetMode} THEN [s EXCEPT !.dec_private = FALSE]
    ELSE FoldLeft(LAMBDA a, i : DecMode(a, a.esc_values[i], c = SetMode),
                  [s EXCEPT !.dec_private = FALSE], Ints(0, s.esc_values_i))

ModeToggle(s, c) ==
    IF s.esc_values_i > 0 /\ s.esc_values[0] = 4 THEN [s EXCEPT !.insert_mode = (c = SetMode)] ELSE s
-----------------------------------------------------------------------------
(* Control sequences. *)

LineFeed(s, x, y) ==
    IF y = s.bottom - 1 THEN SetCursorPos(Scroll(s), x, y) ELSE SetCursorPos(s, x, y + 1)

\* The control characters that act alike inside and outside a sequence.
Control(s, c, x, y) ==
    CASE c = 8 -> IF x > 0 THEN SetCursorPos(s, x - 1, y) ELSE s
      [] c = 9 -> SetCursorPos(s, (x \div Tabs + 1) * Tabs, y)
      [] c \in {10, 11, 12} -> LineFeed(s, x, y)
      [] c = 13 -> SetCursorPos(s, 0, y)
      [] c = 14 -> [s EXCEPT !.current_charset = 1]
      [] c = 15 -> [s EXCEPT !.current_charset = 0]
      [] OTHER -> s

\* A digit, or a semicolon.
Digit(s, c) ==
    IF s.esc_values_i = MaxEscValues THEN s
    ELSE [s EXCEPT !.rrr = TRUE,
                   !.esc_values[s.esc_values_i] =
                        IF @ > (ValueLimit - 1) \div 10 THEN @ ELSE (@ * 10 + c - 48) % ValueLimit]
Separator(s) ==
    CASE s.rrr -> [s EXCEPT !.esc_values_i = @ + 1, !.rrr = FALSE]
      [] ~s.rrr /\ s.esc_values_i = MaxEscValues -> s
      [] OTHER -> [s EXCEPT !.esc_values[s.esc_values_i] = 0, !.esc_values_i = @ + 1]

\* At the final byte: the last parameter counts, and missing ones, and zeros
\* where zero means one, get their default.
Defaulted(s, d) ==
    [s EXCEPT !.esc_values = [i \in DOMAIN @ |-> IF i >= s.esc_values_i \/ @[i] = 0 THEN d ELSE @[i]]]
Parameters(s, c) ==
    Defaulted(IF s.rrr THEN [s EXCEPT !.esc_values_i = @ + 1, !.rrr = FALSE] ELSE s,
              IF c \in {ED, EL, 113, SGR, 99, 93} THEN 0 ELSE 1)

\* Moving the cursor.  In origin mode rows count from the top margin.
Rows(s) == IF s.origin_mode THEN s.bottom - s.top ELSE s.layout.rows
FirstRow(s) == IF s.origin_mode THEN s.top ELSE 0
Nth(v, n) == Smaller(Larger(v - 1, 0), n - 1)
MoveUp(s, x, y, n) == SetCursorPos(s, x, Larger(y - Smaller(n, y), FirstRow(s)))
MoveDown(s, x, y, n) ==
    SetCursorPos(s, x, Smaller(Smaller(y + n, s.layout.rows - 1), FirstRow(s) + Rows(s) - 1))
Move(s, c, x, y) ==
    CASE c \in CUU -> MoveUp(s, IF c = 70 THEN 0 ELSE x, y, s.esc_values[0])
      [] c \in CUD -> MoveDown(s, IF c = 69 THEN 0 ELSE x, y, s.esc_values[0])
      [] c \in CUF -> SetCursorPos(s, x + Smaller(s.esc_values[0], s.layout.cols - 1 - x), y)
      [] c = CUB -> SetCursorPos(s, x - Smaller(s.esc_values[0], x), y)
      [] c = VPA -> SetCursorPos(s, x, Nth(s.esc_values[0], Rows(s)) + FirstRow(s))
      [] c \in CHA -> SetCursorPos(s, Nth(s.esc_values[0], s.layout.cols), y)
      [] c \in CUP -> SetCursorPos(s, Nth(s.esc_values[1], s.layout.cols), Nth(s.esc_values[0], Rows(s)) + FirstRow(s))
      [] c = SCP -> [s EXCEPT !.saved_x = x, !.saved_y = y]
      [] c = RCP -> SetCursorPos(s, s.saved_x, s.saved_y)

\* Scrolling the region, or the part of it below the cursor.
ScrollBy(s, n) == FoldLeft(LAMBDA a, i : Scroll(a), s, Ints(0, Smaller(n, s.bottom - s.top)))
RevScrollBy(s, n) == FoldLeft(LAMBDA a, i : RevScroll(a), s, Ints(0, Smaller(n, s.bottom - s.top)))
FromRow(s, y) == [s EXCEPT !.top = y]
ScrollLines(s, c, y) ==
    CASE c = SU -> ScrollBy(s, s.esc_values[0])
      [] c = SD -> RevScrollBy(s, s.esc_values[0])
      [] c \in {DL, IL} /\ ~(y >= s.top /\ y < s.bottom) -> s
      [] c = DL /\ y >= s.top /\ y < s.bottom ->
            [ScrollBy(FromRow(s, y), s.esc_values[0]) EXCEPT !.top = s.top]
      [] c = IL /\ y >= s.top /\ y < s.bottom ->
            [RevScrollBy(FromRow(s, y), s.esc_values[0]) EXCEPT !.top = s.top]

\* Erasing: n spaces from x, y.
EraseFrom(s, x, y, n) == RawPutSpaces(SetCursorPos(s, x, y), n)
EraseRows(s, a, b) == FoldLeft(LAMBDA t, y : EraseFrom(t, 0, y, t.layout.cols), s, Ints(a, b))
EraseDisplay(s, x, y) ==
    CASE s.esc_values[0] = 0 ->
            SetCursorPos(EraseRows(EraseFrom(s, x, y, s.layout.cols - x), y + 1, s.layout.rows), x, y)
      [] s.esc_values[0] = 1 -> SetCursorPos(EraseFrom(EraseRows(s, 0, y), 0, y, x + 1), x, y)
      [] s.esc_values[0] \in {2, 3} -> Clear(s, FALSE)
      [] OTHER -> s
EraseLine(s, x, y) ==
    CASE s.esc_values[0] = 0 -> SetCursorPos(EraseFrom(s, x, y, s.layout.cols - x), x, y)
      [] s.esc_values[0] = 1 -> SetCursorPos(EraseFrom(s, 0, y, x + 1), x, y)
      [] s.esc_values[0] = 2 -> SetCursorPos(EraseFrom(s, 0, y, s.layout.cols), x, y)
      [] OTHER -> s

\* Moving the rest of the line.
ShiftRight(s, x, y, n) ==
    FoldLeft(LAMBDA a, i : MoveCharacter(a, i, i - n, y), s, Reverse(Ints(x + n, s.layout.cols)))
ShiftLeft(s, x, y, n) ==
    FoldLeft(LAMBDA a, i : MoveCharacter(a, i - n, i, y), s, Ints(x + n, s.layout.cols))
InsertChars(s, x, y, n) ==
    SetCursorPos(RawPutSpaces(SetCursorPos(ShiftRight(s, x, y, n), x, y), n), x, y)
DeleteChars(s, x, y, n) ==
    SetCursorPos(EraseFrom(ShiftLeft(s, x, y, n), s.layout.cols - n, y, n), x, y)
EraseChars(s, x, y, n) == SetCursorPos(EraseFrom(s, x, y, n), x, y)

\* A region of at least two rows that fits the screen, or the whole screen.
Margins(s, top, bottom) ==
    IF top >= s.layout.rows \/ bottom > s.layout.rows \/ top >= Larger(bottom - 1, 0)
    THEN [s EXCEPT !.top = 0, !.bottom = s.layout.rows]
    ELSE [s EXCEPT !.top = top, !.bottom = bottom]
Home(s) == SetCursorPos(s, 0, FirstRow(s))
SetMargins(s) ==
    Home(Margins(s, IF s.esc_values_i > 0 THEN s.esc_values[0] - 1 ELSE 0,
                 IF s.esc_values_i > 1 THEN s.esc_values[1] ELSE s.layout.rows))

\* Insert mode makes room for the character first.
MakeRoom(s) == IF s.insert_mode THEN ShiftRight(s, CursorX(s), CursorY(s), 1) ELSE s
RepeatLast(s) ==
    IF ~s.last_was_graphic THEN s
    ELSE FoldLeft(LAMBDA a, i : RawPutchar(MakeRoom(a), a.last_printed), s,
                  Ints(0, Smaller(s.esc_values[0], 65535)))

\* The rest, c, n, q and ], only call the callback.
Final(s, c, x, y) ==
    CASE c \in CUU \cup CUD \cup CUF \cup CHA \cup CUP \cup {CUB, VPA, SCP, RCP} -> Move(s, c, x, y)
      [] c \in {SU, SD, DL, IL} -> ScrollLines(s, c, y)
      [] c = ED -> EraseDisplay(s, x, y)
      [] c = EL -> EraseLine(s, x, y)
      [] c = ICH -> InsertChars(s, x, y, Smaller(s.esc_values[0], s.layout.cols - x))
      [] c = DCH -> DeleteChars(s, x, y, Smaller(s.esc_values[0], s.layout.cols - x))
      [] c = ECH -> EraseChars(s, x, y, Smaller(s.esc_values[0], s.layout.cols - x))
      [] c = SGR -> Sgr(s)
      [] c = STBM -> SetMargins(s)
      [] c \in {SetMode, ResetMode} -> ModeToggle(s, c)
      [] OTHER -> s

\* The parameters are dead once the sequence is over: they are forgotten, so
\* that contexts that differ in nothing else are one.
Ended(s) == [s EXCEPT !.control_sequence = FALSE, !.escape = FALSE, !.esc_values = ZeroValues]

\* A final byte acts with scrolling turned off, which r remembers; each way out
\* turns it on again.
Dispatch(s, c, r) ==
    CASE c = Esc -> [s EXCEPT !.scroll_enabled = r, !.control_sequence = FALSE, !.escape_offset = 0]
      [] c = REP -> Ended(RepeatLast([s EXCEPT !.scroll_enabled = r]))
      [] c \in Finals \ {REP} -> Ended([Final(s, c, CursorX(s), CursorY(s)) EXCEPT !.scroll_enabled = r])
      [] OTHER -> [s EXCEPT !.scroll_enabled = r, !.csi_unhandled = TRUE]

CsiByte(s, c) ==
    CASE s.dec_private -> Ended(DecPrivateParse(s, c))
      [] ~s.dec_private /\ s.csi_unhandled ->
            IF c \in Finals THEN [Ended(s) EXCEPT !.csi_unhandled = FALSE] ELSE s
      [] OTHER -> Dispatch([s EXCEPT !.scroll_enabled = FALSE], c, s.scroll_enabled)

ControlSequenceParse(s, c) ==
    CASE s.escape_offset = 2 /\ c = 91 ->
            [s EXCEPT !.discard_next = TRUE, !.control_sequence = FALSE, !.escape = FALSE]
      [] s.escape_offset = 2 /\ c = 63 -> [s EXCEPT !.dec_private = TRUE]
      [] c < 32 /\ c # Esc -> Control(s, c, CursorX(s), CursorY(s))
      [] c \in Digits -> Digit(s, c)
      [] c = 59 -> Separator(s)
      [] OTHER -> CsiByte(Parameters(s, c), c)
-----------------------------------------------------------------------------
(* Escape sequences. *)

Saved == {"bold", "bg_bold", "reverse_video", "origin_mode", "wrap_enabled",
          "current_charset", "charsets", "current_primary", "current_bg", "odd"}
SaveState(s) == [SaveBackend(s) EXCEPT !.saved = [f \in Saved |-> s[f]]]
RestoreState(s) == RestoreBackend([f \in DOMAIN s |-> IF f \in Saved THEN s.saved[f] ELSE s[f]])

\* ESC c.
FullReset(s) ==
    Clear(FgDefault(BgDefault([Reinit(Straight(s)) EXCEPT !.odd = FALSE])), TRUE)

\* ESC D, E and M.
Index(s, x, y) ==
    CASE y = s.bottom - 1 -> SetCursorPos(Scroll(s), x, y)
      [] y # s.bottom - 1 /\ y < s.layout.rows - 1 -> SetCursorPos(s, x, y + 1)
      [] OTHER -> s
NextLine(s, y) == LineFeed(s, 0, y)
ReverseIndex(s, x, y) ==
    CASE y = s.top -> SetCursorPos(RevScroll(s), x, y)
      [] y # s.top /\ y > 0 -> SetCursorPos(s, x, y - 1)
      [] OTHER -> s
EscapeFinal(s, c) ==
    CASE c = 55 -> SaveState(s)
      [] c = 56 -> RestoreState(s)
      [] c = 99 -> FullReset(s)
      [] c = 68 -> Index(s, CursorX(s), CursorY(s))
      [] c = 69 -> NextLine(s, CursorY(s))
      [] c = 77 -> ReverseIndex(s, CursorX(s), CursorY(s))
      [] c \in {40, 41} -> [s EXCEPT !.g_select = c - 39]
      [] OTHER -> s

\* ESC [ forgets the parameters, but not that the last sequence was private.
EscapeByte(s, c) ==
    CASE s.control_sequence -> ControlSequenceParse(s, c)
      [] ~s.control_sequence /\ c = Esc -> [s EXCEPT !.escape_offset = 0]
      [] ~s.control_sequence /\ c = 93 -> [s EXCEPT !.osc_escape = FALSE, !.osc = TRUE, !.osc_buf_i = 0]
      [] ~s.control_sequence /\ c = 91 ->
            [s EXCEPT !.esc_values = ZeroValues, !.esc_values_i = 0, !.rrr = FALSE,
                      !.csi_unhandled = FALSE, !.control_sequence = TRUE]
      [] OTHER -> [EscapeFinal(s, c) EXCEPT !.escape = FALSE]

\* Inside an operating system command, which nobody receives.
OscParse(s, c) ==
    CASE s.osc_escape /\ c = 92 -> [s EXCEPT !.osc = FALSE, !.osc_escape = FALSE, !.escape = FALSE]
      [] s.osc_escape /\ c # 92 ->
            EscapeByte([s EXCEPT !.osc = FALSE, !.osc_escape = FALSE, !.escape_offset = 1], c)
      [] ~s.osc_escape /\ c = Esc -> [s EXCEPT !.osc_escape = TRUE]
      [] ~s.osc_escape /\ c = 7 -> [s EXCEPT !.osc = FALSE, !.escape = FALSE]
      [] OTHER -> [s EXCEPT !.osc_buf_i = Smaller(@ + 1, OscLimit)]

\* Only an offset of 2 matters: counting stops after it.
EscapeParse(s, c) ==
    IF s.osc THEN OscParse([s EXCEPT !.escape_offset = Smaller(@ + 1, 3)], c)
    ELSE EscapeByte([s EXCEPT !.escape_offset = Smaller(@ + 1, 3)], c)
-----------------------------------------------------------------------------
(* Characters. *)

DecSpecial ==
    (96 :> 4) @@ (48 :> 219) @@ (45 :> 24) @@ (44 :> 27) @@ (46 :> 25) @@ (97 :> 177) @@ (102 :> 248)
    @@ (103 :> 241) @@ (104 :> 176) @@ (106 :> 217) @@ (107 :> 191) @@ (108 :> 218) @@ (109 :> 192)
    @@ (110 :> 197) @@ (113 :> 196) @@ (115 :> 95) @@ (116 :> 195) @@ (117 :> 180) @@ (118 :> 193)
    @@ (119 :> 194) @@ (120 :> 179) @@ (121 :> 243) @@ (122 :> 242) @@ (126 :> 250) @@ (95 :> 255)
    @@ (43 :> 26) @@ (123 :> 227) @@ (125 :> 156)
Replacement == 254

Graphic(s, c) == RawPutchar([s EXCEPT !.last_printed = c, !.last_was_graphic = TRUE], c)
PrintByte(s, c) ==
    CASE s.charsets[s.current_charset + 1] = CharsetDecSpecial /\ c \in DOMAIN DecSpecial ->
            Graphic(s, DecSpecial[c])
      [] ~(s.charsets[s.current_charset + 1] = CharsetDecSpecial /\ c \in DOMAIN DecSpecial) /\ c \in 32..126 ->
            Graphic(s, c)
      [] c >= 128 -> Graphic(s, Replacement)
      [] OTHER -> s

\* Outside of sequences.  A control character without a meaning prints nothing
\* but makes room in insert mode.
GroundByte(s, c) ==
    CASE c = Esc -> [s EXCEPT !.escape_offset = 0, !.escape = TRUE]
      [] c \in {0, 127} -> [s EXCEPT !.last_was_graphic = FALSE]
      [] c \in 7..15 -> Control([s EXCEPT !.last_was_graphic = FALSE], c, CursorX(s), CursorY(s))
      [] c \in (1..6 \cup 16..31) \ {Esc} -> MakeRoom([s EXCEPT !.last_was_graphic = FALSE])
      [] OTHER -> PrintByte(MakeRoom(s), c)

\* After ESC ( or ESC ) the byte selects a character set.
Ground(s, c) ==
    IF s.g_select = 0 \/ c <= 31 \/ c = 127 THEN GroundByte([s EXCEPT !.g_select = 0], c)
    ELSE [s EXCEPT !.charsets[s.g_select] =
                        CASE c = 66 -> CharsetDefault [] c = 48 -> CharsetDecSpecial [] OTHER -> @,
                   !.g_select = 0]

RECURSIVE BiSearch(_, _, _, _)
BiSearch(ucs, table, min, max) ==
    IF max < min THEN FALSE
    ELSE LET mid == (min + max) \div 2
         IN  CASE ucs > table[mid][2] -> BiSearch(ucs, table, mid + 1, max)
               [] ucs < table[mid][1] -> BiSearch(ucs, table, min, mid - 1)
               [] OTHER -> TRUE
WcWidth(ucs) ==
    CASE ucs = 0 -> 0
      [] ucs \in 1..31 \cup 127..159 -> -1
      [] ucs \notin 0..31 \cup 127..159 /\ BiSearch(ucs, Combining, 1, Len(Combining)) -> 0
      [] ucs \notin 0..31 \cup 127..159 /\ ~BiSearch(ucs, Combining, 1, Len(Combining))
            /\ BiSearch(ucs, Wide, 1, Len(Wide)) -> 2
      [] OTHER -> 1
UnicodeToCp437(cp) == IF cp \in DOMAIN Cp437 THEN Cp437[cp] ELSE -1

\* A character without a glyph shows as a box, as wide as it would be.
PrintCodePoint(s, cp) ==
    CASE UnicodeToCp437(cp) # -1 -> Graphic(s, UnicodeToCp437(cp))
      [] UnicodeToCp437(cp) = -1 /\ WcWidth(cp) > 0 -> RawPutSpaces(Graphic(s, Replacement), WcWidth(cp) - 1)
      [] OTHER -> s

\* A byte that is not inside a UTF-8 sequence: the start of one, or a byte for
\* the parser.
StartByte(s, c) ==
    CASE c \in 194..223 -> [s EXCEPT !.g_select = 0, !.unicode_remaining = 1, !.code_point = (c % 32) * 64, !.raw = <<c>>]
      [] c \in 224..239 -> [s EXCEPT !.g_select = 0, !.unicode_remaining = 2, !.code_point = (c % 16) * 4096, !.raw = <<c>>]
      [] c \in 240..244 -> [s EXCEPT !.g_select = 0, !.unicode_remaining = 3, !.code_point = (c % 8) * 262144, !.raw = <<c>>]
      [] c \notin 194..244 /\ s.escape -> EscapeParse(s, c)
      [] OTHER -> Ground(s, c)

\* Overlong and too large values are found as soon as they can be.
OverlongOrLarge(s) ==
    \/ s.unicode_remaining = 1 /\ s.code_point < 2048
    \/ s.unicode_remaining = 2 /\ (s.code_point < 65536 \/ s.code_point > 1114111)

\* The value is forgotten with the sequence.
Forget(s) == [s EXCEPT !.code_point = 0, !.raw = <<>>]
Join(s, c) ==
    CASE OverlongOrLarge(s) -> StartByte([Forget(s) EXCEPT !.unicode_remaining = 0], c)
      [] ~OverlongOrLarge(s) /\ s.unicode_remaining # 0 -> s
      [] s.unicode_remaining = 0 /\ s.code_point \in 55296..57343 -> StartByte(Forget(s), c)
      [] OTHER -> PrintCodePoint([Forget(s) EXCEPT !.decoded = <<s.code_point, s.raw>>], s.code_point)
ContinueByte(s, c) ==
    IF c \notin 128..191 THEN StartByte(RawPutchar([Forget(s) EXCEPT !.unicode_remaining = 0], Replacement), c)
    ELSE Join([s EXCEPT !.unicode_remaining = @ - 1, !.raw = Append(@, c),
                        !.code_point = @ + (c % 64) * 64 ^ (s.unicode_remaining - 1)], c)

\* CAN and SUB, and the byte after ESC [ [.  dec_private stays as it is.
Cancel(s) ==
    [Forget(s) EXCEPT !.discard_next = FALSE, !.escape = FALSE, !.control_sequence = FALSE,
              !.unicode_remaining = 0, !.osc = FALSE, !.osc_escape = FALSE, !.g_select = 0,
              !.last_was_graphic = FALSE]

\* flanterm_putchar.
Putchar(s, c) ==
    CASE s.discard_next \/ c \in {24, 26} -> Cancel(s)
      [] ~s.discard_next /\ c \notin {24, 26} /\ s.unicode_remaining # 0 -> ContinueByte(s, c)
      [] OTHER -> StartByte(s, c)
================================================================================
