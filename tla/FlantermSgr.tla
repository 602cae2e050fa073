----------------------------- MODULE FlantermSgr -----------------------------
(***************************************************************************)
(* Text attributes of the terminal: sgr() of extra/flanterm/flanterm.c and *)
(* the colours it sets in flanterm_backends/fb.c.                          *)
(***************************************************************************)
EXTENDS Integers, Sequences

CONSTANT SgrValues \* sequences of parameters an ESC [ ... m may carry

ASSUME SgrAssumption == SgrValues \subseteq Seq(Nat)

VARIABLES attr, \* [bold, bgBold, reverse, primary, bg, textFg, textBg, saved]
          asked \* history: [fg, bg, saved]: the colours a program asked for last

sgrVars == <<attr, asked>>

\* A colour: an entry of a palette, a colour of its own, or one of the defaults.
Normal(n) == <<"normal", n>>
Bright(n) == <<"bright", n>>
Rgb(v) == <<"rgb", v>>
DefaultFg == <<"default_fg", 0>>
DefaultFgBright == <<"default_fg", 1>>
Transparent == <<"clear", 0>> \* 0xffffffff: the canvas
DefaultBgBright == <<"default_bg", 1>>

NoColour == -1  \* current_primary, current_bg: the default
OwnColour == -2 \* 256 colours or RGB

Kept(a) == [bold |-> a.bold, bgBold |-> a.bgBold, reverse |-> a.reverse, primary |-> a.primary,
            bg |-> a.bg, textFg |-> a.textFg, textBg |-> a.textBg]

PlainText == [bold |-> FALSE, bgBold |-> FALSE, reverse |-> FALSE, primary |-> NoColour,
          bg |-> NoColour, textFg |-> DefaultFg, textBg |-> Transparent]

WithSaved(a, kept) == [bold |-> a.bold, bgBold |-> a.bgBold, reverse |-> a.reverse,
                       primary |-> a.primary, bg |-> a.bg, textFg |-> a.textFg,
                       textBg |-> a.textBg, saved |-> kept]

SgrInit ==
    /\ attr = WithSaved(PlainText, PlainText)
    /\ asked = [fg |-> DefaultFg, bg |-> Transparent, saved |-> <<DefaultFg, Transparent>>]

swap_palette(a) == [a EXCEPT !.textFg = a.textBg, !.textBg = a.textFg]

SetReverse(a, on) == IF a.reverse = on THEN a ELSE swap_palette([a EXCEPT !.reverse = on])

\* Reverse video renders the foreground with the background's colour, and the reverse.
Render(a, fg, colour) ==
    IF fg # a.reverse THEN [a EXCEPT !.textFg = colour] ELSE [a EXCEPT !.textBg = colour]

\* SGR 0, and an empty list.
ResetAttributes(a) == WithSaved(PlainText, a.saved)

\* SGR 1, 22, 5 and 25.  A default is put where it is rendered, whichever default that is.
SetBold(a, fg, on) ==
    LET b == IF fg THEN [a EXCEPT !.bold = on] ELSE [a EXCEPT !.bgBold = on]
        n == IF fg THEN a.primary ELSE a.bg
        default == IF fg # a.reverse THEN (IF on THEN DefaultFgBright ELSE DefaultFg)
                                     ELSE (IF on THEN DefaultBgBright ELSE Transparent)
    IN  CASE n = OwnColour -> b
          [] n = NoColour  -> Render(b, fg, default)
          [] OTHER         -> Render(b, fg, IF on THEN Bright(n) ELSE Normal(n))

\* A slip: the brightness is that of the attribute, not of the place it is rendered at.
SetColourBySide(a, fg, n) ==
    LET b == IF fg THEN [a EXCEPT !.primary = n] ELSE [a EXCEPT !.bg = n]
        bright == IF fg # a.reverse THEN a.bold ELSE a.bgBold
    IN  Render(b, fg, IF bright THEN Bright(n) ELSE Normal(n))

\* SGR 30-37 and 40-47 (set_fg, set_bg): a bold colour is bright.
SetColour(a, fg, n) ==
    LET b == IF fg THEN [a EXCEPT !.primary = n] ELSE [a EXCEPT !.bg = n]
        bright == IF fg # a.reverse
                  THEN (a.bold /\ ~a.reverse) \/ (a.bgBold /\ a.reverse)
                  ELSE (a.bold /\ a.reverse) \/ (a.bgBold /\ ~a.reverse)
    IN  Render(b, fg, IF bright THEN Bright(n) ELSE Normal(n))

\* SGR 90-97 and 100-107.
SetBright(a, fg, n) ==
    Render(IF fg THEN [a EXCEPT !.primary = n] ELSE [a EXCEPT !.bg = n], fg, Bright(n))

\* SGR 39 and 49: under reverse video the colours are swapped back around it.
SetDefault(a, fg) ==
    LET b == IF fg THEN [a EXCEPT !.primary = NoColour] ELSE [a EXCEPT !.bg = NoColour]
        colour == IF fg THEN (IF a.bold THEN DefaultFgBright ELSE DefaultFg)
                        ELSE (IF a.bgBold THEN DefaultBgBright ELSE Transparent)
    IN  Render(b, fg, colour)

\* SGR 38 and 48: a colour of its own, which bold does not alter.
SetOwn(a, fg, colour) ==
    Render(IF fg THEN [a EXCEPT !.primary = OwnColour] ELSE [a EXCEPT !.bg = OwnColour], fg, colour)

Colour256(n) == IF n < 8 THEN Normal(n) ELSE IF n < 16 THEN Bright(n - 8) ELSE Rgb(n)

\* One parameter: the attributes after it, and what it asks for as a colour, if it does.
Changed(a, v) ==
    CASE v = 0              -> ResetAttributes(a)
      [] v \in {1, 22}      -> SetBold(a, TRUE, v = 1)
      [] v \in {5, 25}      -> SetBold(a, FALSE, v = 5)
      [] v \in {7, 27}      -> SetReverse(a, v = 7)
      [] v \in 30 .. 37     -> SetColour(a, TRUE, v - 30)
      [] v \in 40 .. 47     -> SetColour(a, FALSE, v - 40)
      [] v \in 90 .. 97     -> SetBright(a, TRUE, v - 90)
      [] v \in 100 .. 107   -> SetBright(a, FALSE, v - 100)
      [] v \in {39, 49}     -> SetDefault(a, v = 39)
      [] OTHER              -> a

Asks(w, v) ==
    CASE v = 0            -> [w EXCEPT !.fg = DefaultFg, !.bg = Transparent]
      [] v \in 30 .. 37   -> [w EXCEPT !.fg = Normal(v - 30)]
      [] v \in 40 .. 47   -> [w EXCEPT !.bg = Normal(v - 40)]
      [] v \in 90 .. 97   -> [w EXCEPT !.fg = Normal(v - 90)]
      [] v \in 100 .. 107 -> [w EXCEPT !.bg = Normal(v - 100)]
      [] v = 39           -> [w EXCEPT !.fg = DefaultFg]
      [] v = 49           -> [w EXCEPT !.bg = Transparent]
      [] OTHER            -> w

\* One turn of the loop, at parameter s.i.  A list that ends inside a 38 or 48 ends it.
SgrTurn(s, vs) ==
    LET i == s.i
        fg == vs[i] = 38
        has(k) == i + k <= Len(vs)
        own(c, k) == [a |-> SetOwn(s.a, fg, c), i |-> i + k,
                      w |-> IF fg THEN [s.w EXCEPT !.fg = c] ELSE [s.w EXCEPT !.bg = c]]
    IN  IF ~has(0) THEN s
        ELSE IF vs[i] \notin {38, 48}
        THEN [a |-> Changed(s.a, vs[i]), w |-> Asks(s.w, vs[i]), i |-> i + 1]
        ELSE CASE has(4) /\ vs[i + 1] = 2 -> own(Rgb(<<vs[i + 2], vs[i + 3], vs[i + 4]>>), 5)
               [] has(2) /\ vs[i + 1] = 5 ->
                      IF vs[i + 2] >= 256 THEN [s EXCEPT !.i = i + 3]
                      ELSE own(Colour256(vs[i + 2]), 3)
               [] has(1) /\ vs[i + 1] \notin {2, 5} -> [s EXCEPT !.i = i + 2]
               [] OTHER -> [s EXCEPT !.i = Len(vs) + 1]

\* The loop, from state s on; it has no more turns than parameters.
SgrTurns(s, vs) ==
    LET turns[k \in 0 .. Len(vs)] == IF k = 0 THEN s ELSE SgrTurn(turns[k - 1], vs)
    IN  turns[Len(vs)]

sgr(values) ==
    LET done == SgrTurns([a |-> attr, w |-> asked, i |-> 1],
                         IF values = <<>> THEN <<0>> ELSE values)
    IN  attr' = done.a /\ asked' = done.w

\* ESC 7 and ESC 8, and ESC c, which saves what it resets to.
SaveAttributes ==
    /\ attr' = [attr EXCEPT !.saved = Kept(attr)]
    /\ asked' = [asked EXCEPT !.saved = <<asked.fg, asked.bg>>]

RestoreAttributes ==
    /\ attr' = WithSaved(attr.saved, attr.saved)
    /\ asked' = [asked EXCEPT !.fg = asked.saved[1], !.bg = asked.saved[2]]

ResetTerminal ==
    /\ attr' = WithSaved(PlainText, PlainText)
    /\ asked' = [fg |-> DefaultFg, bg |-> Transparent, saved |-> <<DefaultFg, Transparent>>]

SgrNext ==
    \/ \E vs \in SgrValues : sgr(vs)
    \/ SaveAttributes \/ RestoreAttributes \/ ResetTerminal

(***************************************************************************)
(* Properties.                                                             *)
(***************************************************************************)
SgrTypeOK ==
    /\ attr.primary \in -2 .. 7 /\ attr.bg \in -2 .. 7
    /\ {attr.bold, attr.bgBold, attr.reverse} \subseteq BOOLEAN

\* However attributes are combined, reversed, saved and restored, text is drawn in the
\* colour that was asked for last, on the side reverse video puts it; a bold palette colour
\* is the bright one.  (A default under reverse video is not: see the README.)
ColourIsKept ==
    LET fg == IF attr.reverse THEN attr.textBg ELSE attr.textFg
        bg == IF attr.reverse THEN attr.textFg ELSE attr.textBg
        shows(n, bold, want, got) ==
            CASE n = NoColour  -> want \in {DefaultFg, Transparent}
              [] n = OwnColour -> got = want
              [] OTHER         -> want = Normal(n) /\ got[2] = n
                                  /\ got[1] \in (IF bold THEN {"bright"} ELSE {"normal", "bright"})
    IN  shows(attr.primary, attr.bold, asked.fg, fg) /\ shows(attr.bg, attr.bgBold, asked.bg, bg)
=============================================================================
