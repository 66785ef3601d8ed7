------------------------------- MODULE MCTerminal -------------------------------
(***************************************************************************)
(* Terminals of two or three rows, each with the writes that make one part *)
(* of the emulator work, and framebuffers in every rotation.               *)
(***************************************************************************)
EXTENDS Terminal

Screen(rows, cols) ==
    [width |-> 9 * cols + 3, height |-> 16 * rows + 1, pitch |-> 4 * (9 * cols + 4), rotation |-> 0,
     scale |-> 1, canvas |-> FALSE, margin |-> 0, red |-> 8, green |-> 8, blue |-> 8,
     red_shift |-> 16, green_shift |-> 8, blue_shift |-> 0]
Turned(r) == [Screen(2, 4) EXCEPT !.rotation = r, !.canvas = (r = 2), !.red_shift = 0, !.blue_shift = 16]
Zoomed(r) == [Screen(4, 8) EXCEPT !.rotation = r, !.scale = 2, !.canvas = (r % 2 = 0), !.margin = 1]

Csi(t) == <<27, 91>> \o t
E(c) == <<27, c>>
Text == {<<97>>, <<98, 99, 100>>}

\* r, ?6h, S, T, L, M, H, A, B, d, s, u, b; ESC M, D, E, 7, 8; line feeds.
ScrollWrites ==
    {<<97, 98, 99>>, <<LF>>, E(77), E(68) \o E(69), E(55), E(56), <<11>> \o Csi(<<63, 54, 108>>),
     Csi(<<49, 59, 50, 114>>), Csi(<<50, 59, 51, 114>>), Csi(<<63, 54, 104>>),
     Csi(<<83>>), Csi(<<84>>), Csi(<<76>>), Csi(<<57, 77>>), Csi(<<51, 59, 50, 72>>),
     Csi(<<65>>), Csi(<<66>>), Csi(<<51, 100>>) \o Csi(<<115>>), Csi(<<117>>), Csi(<<52, 98>>)}

\* J, K, @, P, X, G, C, D, b, insert mode, wrapping and the cursor off.
EditWrites ==
    {<<97>>, <<98, 99, 100>>, <<8, 13>>, <<9>>, Csi(<<74>>), Csi(<<49, 74>>), Csi(<<50, 74>>) \o Csi(<<67>>),
     Csi(<<75>>), Csi(<<49, 75>>), Csi(<<50, 75>>) \o Csi(<<68>>), Csi(<<64>>), Csi(<<80>>), Csi(<<88>>),
     Csi(<<50, 71>>), Csi(<<50, 98>>), Csi(<<52, 104>>) \o <<1>>,
     Csi(<<63, 55, 108>>), Csi(<<63, 50, 53, 108>>), Csi(<<63, 50, 53, 104>>)}

\* m, with one or two parameters or an index; ESC 7, 8, c; ?1049h and l.
Sgrs == {<<>>, <<49>>, <<53>>, <<55>>, <<50, 50>>, <<50, 53>>, <<50, 55>>, <<51, 48>>, <<51, 49>>, <<51, 57>>,
         <<52, 48>>, <<52, 49>>, <<52, 57>>, <<57, 49>>, <<49, 48, 49>>, <<51, 56, 59, 53, 59, 50>>,
         <<52, 56, 59, 53, 59, 57>>, <<55, 59, 51, 49>>, <<49, 59, 55>>, <<52, 49, 59, 53>>, <<52, 56, 59, 53, 59, 51, 50>>,
         <<51, 56, 59, 50, 59, 49, 59, 49, 59, 49>>}
ColourWrites ==
    {Csi(p \o <<109>>) : p \in Sgrs}
        \cup {<<97>>, E(55), E(56), E(99), Csi(<<63, 49, 48, 52, 57, 104>>), Csi(<<63, 49, 48, 52, 57, 108>>)}

\* UTF-8, byte by byte, and a wide, a combining and a known character.
Utf8Writes ==
    {<<b>> : b \in {65, 194, 224, 237, 240, 244, 128, 144, 160, 24}}
        \cup {<<228, 184, 128>>, <<204, 128>>, <<226, 152, 186>>}

\* The parser, byte by byte, with parameters at their limits.
ParserWrites ==
    {<<b>> : b \in {27, 91, 93, 63, 59, 74, 92, 7, 24, 32}}
        \cup {<<59, 59, 59, 59, 59>>, <<50, 48, 52, 56>>, <<27, 40>>, <<48, 14, 97>>, <<195>>, <<97>>}

MCScenarios ==
    [ scroll |-> [screen |-> Screen(3, 2), writes |-> ScrollWrites, bound |-> 4],
      edit   |-> [screen |-> Screen(2, 3), writes |-> EditWrites, bound |-> 4],
      colour |-> [screen |-> Screen(1, 2), writes |-> ColourWrites, bound |-> 3],
      utf8   |-> [screen |-> Screen(2, 2), writes |-> Utf8Writes, bound |-> 4],
      parser |-> [screen |-> Screen(2, 2), writes |-> ParserWrites, bound |-> 4],
      plain  |-> [screen |-> Turned(0), writes |-> Text, bound |-> 2],
      right  |-> [screen |-> Turned(1), writes |-> Text, bound |-> 2],
      over   |-> [screen |-> Turned(2), writes |-> Text, bound |-> 2],
      left   |-> [screen |-> Turned(3), writes |-> Text, bound |-> 2],
      big    |-> [screen |-> Zoomed(0), writes |-> Text, bound |-> 2],
      bigger |-> [screen |-> Zoomed(1), writes |-> Text, bound |-> 2],
      narrow |-> [screen |-> [Screen(2, 2) EXCEPT !.green = 6], writes |-> Text, bound |-> 1] ]

\* The rows of the tables that hold a code point of Utf8Writes, and the first
\* and last rows.
MCCp437 == (160 :> 255) @@ (9786 :> 1)
MCCombining == <<<<768, 879>>, <<2075, 2083>>, <<917504, 921599>>>>
MCWide == <<<<4352, 4447>>, <<12880, 42124>>, <<44032, 55203>>, <<131072, 196605>>, <<196608, 262141>>>>
================================================================================
