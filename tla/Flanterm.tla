------------------------------ MODULE Flanterm ------------------------------
(***************************************************************************)
(* The terminal's control functions (extra/flanterm/flanterm.c) with the   *)
(* cursor of the framebuffer backend (flanterm_backends/fb.c).  Bytes are  *)
(* named; a run of digits is one input, the sequence of its digits.  What  *)
(* is written on the screen is FlantermFb's subject, its colours           *)
(* FlantermSgr's.                                                          *)
(***************************************************************************)
EXTENDS Integers, Sequences

CONSTANTS TermCols, TermRows, \* ctx->cols, ctx->rows
          EscValues,          \* FLANTERM_MAX_ESC_VALUES
          EscMax,             \* UINT32_MAX
          OscBytes            \* sizeof(osc_buf)

\* A scrolling region is at least two lines, and a sequence has up to two values here.
ASSUME TermAssumption ==
    /\ TermCols \in Nat \ {0} /\ TermRows \in Nat /\ TermRows > 1
    /\ EscValues \in Nat /\ EscValues > 1 /\ EscMax \in Nat \ {0} /\ OscBytes \in Nat

VARIABLE term \* struct flanterm_context, and cursor_x, cursor_y of the backend

NoValues == [i \in 1 .. EscValues |-> 0]
DefaultSets == <<"default", "special">>
TopLeft == [x |-> 0, y |-> 0]
AllRows == [top |-> 0, bottom |-> TermRows]

\* flanterm_context_reinit.  What save_state keeps is not reset but saved anew.
Reinit(t) ==
    [t EXCEPT !.wrap = TRUE, !.scroll = TRUE, !.origin = FALSE, !.insert = FALSE,
              !.cursor = TRUE, !.escape = FALSE, !.csi = FALSE, !.osc = FALSE,
              !.oscEscape = FALSE, !.dec = FALSE, !.rrr = FALSE, !.discard = FALSE,
              !.unhandled = FALSE, !.offset = 0, !.n = 0, !.uni = 0, !.gselect = 0,
              !.charset = 0, !.charsets = DefaultSets, !.graphic = FALSE,
              !.margin = AllRows, !.mark = TopLeft]

Saved(t) == [x |-> t.x, y |-> t.y, margin |-> t.margin, origin |-> t.origin, wrap |-> t.wrap,
             charset |-> t.charset, charsets |-> t.charsets]

Fresh0 == [x |-> 0, y |-> 0, wrap |-> TRUE, scroll |-> TRUE, origin |-> FALSE,
           insert |-> FALSE, cursor |-> TRUE, escape |-> FALSE, csi |-> FALSE, osc |-> FALSE,
           oscEscape |-> FALSE, dec |-> FALSE, rrr |-> FALSE, discard |-> FALSE,
           unhandled |-> FALSE, offset |-> 0, n |-> 0, values |-> NoValues, oscLen |-> 0,
           uni |-> 0, lead |-> 0, gselect |-> 0, charset |-> 0, charsets |-> DefaultSets,
           graphic |-> FALSE, margin |-> AllRows, mark |-> TopLeft, saved |-> <<>>]

TermInit == term = [Fresh0 EXCEPT !.saved = Saved(Fresh0)]

(***************************************************************************)
(* The backend.                                                            *)
(***************************************************************************)
Least(a, b) == IF a < b THEN a ELSE b
Most(a, b) == IF a > b THEN a ELSE b

set_cursor_pos(t, x, y) ==
    [t EXCEPT !.x = Least(x, TermCols - 1), !.y = Least(y, TermRows - 1)]

\* get_cursor_pos: behind the last column, the cursor waits to wrap.
X(t) == Least(t.x, TermCols - 1)
Y(t) == Least(t.y, TermRows - 1)

\* flanterm_fb_raw_putchar: the wrap happens before the character is written.
raw_putchar(t) ==
    LET wraps == t.wrap /\ (t.y < t.margin.bottom - 1 \/ t.scroll)
        down == IF t.y + 1 = t.margin.bottom THEN t.y ELSE Least(t.y + 1, TermRows - 1)
        at == IF t.x < TermCols THEN t
              ELSE IF wraps THEN [t EXCEPT !.x = 0, !.y = down]
              ELSE [t EXCEPT !.x = TermCols - 1]
    IN  [at EXCEPT !.x = @ + 1]

\* The same character n times.
put_repeated(t, n) ==
    LET after[i \in 0 .. n] == IF i = 0 THEN t ELSE raw_putchar(after[i - 1])
    IN  after[n]

save_state(t) == [t EXCEPT !.saved = Saved(t)]

restore_state(t) ==
    [t EXCEPT !.x = t.saved.x, !.y = t.saved.y, !.margin = t.saved.margin,
              !.origin = t.saved.origin, !.wrap = t.saved.wrap,
              !.charset = t.saved.charset, !.charsets = t.saved.charsets]

(***************************************************************************)
(* Control characters.                                                     *)
(***************************************************************************)

\* Down one line; at the bottom margin the region scrolls instead.
LineFeed(t, x) ==
    IF Y(t) = t.margin.bottom - 1 \/ Y(t) = TermRows - 1 THEN set_cursor_pos(t, x, Y(t))
    ELSE set_cursor_pos(t, x, Y(t) + 1)

C0 == {"BEL", "BS", "TAB", "LF", "CR", "SO", "SI"}

\* A tab stop is at every eighth column, which is behind the last one here.
execute_c0(t, c) ==
    CASE c = "BS"  -> IF X(t) > 0 THEN set_cursor_pos(t, X(t) - 1, Y(t)) ELSE t
      [] c = "TAB" -> set_cursor_pos(t, Least((X(t) \div 8 + 1) * 8, TermCols - 1), Y(t))
      [] c = "LF"  -> IF Y(t) # t.margin.bottom - 1 /\ Y(t) = TermRows - 1 THEN t
                      ELSE LineFeed(t, X(t))
      [] c = "CR"  -> set_cursor_pos(t, 0, Y(t))
      [] c = "SO"  -> [t EXCEPT !.charset = 1]
      [] c = "SI"  -> [t EXCEPT !.charset = 0]
      [] OTHER     -> t

(***************************************************************************)
(* Control sequences: ESC [ values final.                                  *)
(***************************************************************************)
\* A slip: only the product is tested, not the last digit.
AddDigitUntested(v, d) == IF v > EscMax \div 10 THEN v ELSE v * 10 + d

AddDigit(v, d) ==
    IF v > EscMax \div 10 THEN v
    ELSE IF v * 10 > EscMax - d THEN EscMax ELSE v * 10 + d

\* A number, digit by digit.
AddDigits(v, ds) ==
    LET upto[i \in 0 .. Len(ds)] == IF i = 0 THEN v ELSE AddDigit(upto[i - 1], ds[i])
    IN  upto[Len(ds)]

Cleanup(t) == [t EXCEPT !.csi = FALSE, !.escape = FALSE]

\* A slip: the bottom margin is not held against the number of rows.
MarginsOrdered(top, bottom) == top < bottom - 1

MarginsFit(top, bottom) == top < TermRows /\ bottom <= TermRows /\ top < bottom - 1

\* Where "cursor down" ends: on the screen and, in origin mode, in the region.
RowBelow(t, n) ==
    Least(Least(Y(t) + n, TermRows - 1),
          (IF t.origin THEN t.margin.bottom ELSE TermRows) - 1)

RowAbove(t, n) == Most(Y(t) - Least(n, Y(t)), IF t.origin THEN t.margin.top ELSE 0)

\* Rows count from the top margin in origin mode.
Row(t, n) ==
    LET rows == IF t.origin THEN t.margin.bottom - t.margin.top ELSE TermRows
    IN  Least(IF n = 0 THEN 0 ELSE n - 1, rows - 1) + (IF t.origin THEN t.margin.top ELSE 0)

Col(n) == Least(IF n = 0 THEN 0 ELSE n - 1, TermCols - 1)

set_margins(t) ==
    LET top == IF t.n > 0 THEN t.values[1] - 1 ELSE 0
        bottom == IF t.n > 1 THEN t.values[2] ELSE TermRows
        m == IF MarginsFit(top, bottom) THEN [top |-> top, bottom |-> bottom] ELSE AllRows
    IN  set_cursor_pos([t EXCEPT !.margin = m], 0, IF t.origin THEN m.top ELSE 0)

repeat_char(t, n) == put_repeated(t, Least(n, 65535))

\* Sequences move the cursor, or rewrite cells around it and leave it where it was, no
\* longer waiting to wrap.  They run without scrolling and with wrapping on.  "a", "e",
\* "f" and "`" are other names of "C", "B", "H" and "G".
Erasing == {"J", "K", "X", "P", "@"}

Final(t, c) ==
    LET v == t.values
    IN  CASE c \in {"A", "F"} -> set_cursor_pos(t, IF c = "F" THEN 0 ELSE X(t), RowAbove(t, v[1]))
          [] c \in {"B", "E"} -> set_cursor_pos(t, IF c = "E" THEN 0 ELSE X(t), RowBelow(t, v[1]))
          [] c = "C" -> set_cursor_pos(t, Least(X(t) + v[1], TermCols - 1), Y(t))
          [] c = "D" -> set_cursor_pos(t, X(t) - Least(v[1], X(t)), Y(t))
          [] c = "d" -> set_cursor_pos(t, X(t), Row(t, v[1]))
          [] c = "G" -> set_cursor_pos(t, Col(v[1]), Y(t))
          [] c = "H" -> set_cursor_pos(t, Col(v[2]), Row(t, v[1]))
          [] c \in Erasing -> IF (c = "J" /\ v[1] > 1) \/ (c = "K" /\ v[1] > 2) THEN t
                              ELSE set_cursor_pos(t, X(t), Y(t))
          [] c = "s" -> [t EXCEPT !.mark = [x |-> X(t), y |-> Y(t)]]
          [] c = "u" -> set_cursor_pos(t, t.mark.x, t.mark.y)
          [] c = "r" -> set_margins(t)
          [] c \in {"h", "l"} -> IF t.n > 0 /\ v[1] = 4 THEN [t EXCEPT !.insert = (c = "h")] ELSE t
          [] OTHER -> t  \* reports, colours, scrolling: nothing of this state

\* "b" repeats the last character with the modes as they were.
final_byte(t, c) ==
    LET off == [t EXCEPT !.scroll = FALSE, !.wrap = TRUE]
        done == IF c = "b" /\ t.graphic THEN repeat_char(t, t.values[1]) ELSE Final(off, c)
    IN  Cleanup([done EXCEPT !.scroll = t.scroll, !.wrap = t.wrap])

\* dec_private_parse, for one of the values.
DecMode(t, v, set) ==
    CASE v = 6    -> set_cursor_pos([t EXCEPT !.origin = set], 0, IF set THEN t.margin.top ELSE 0)
      [] v = 7    -> [t EXCEPT !.wrap = set]
      [] v = 25   -> [t EXCEPT !.cursor = set]
      [] v = 1049 -> IF set THEN [save_state(t) EXCEPT !.margin = AllRows, !.x = 0, !.y = 0]
                     ELSE restore_state(t)
      [] OTHER    -> t

\* Every value of the sequence sets or clears its mode.
DecModes(t, set) ==
    LET upto[i \in 0 .. t.n] == IF i = 0 THEN t ELSE DecMode(upto[i - 1], t.values[i], set)
    IN  upto[t.n]

dec_private_parse(t, c) ==
    LET u == [t EXCEPT !.dec = FALSE]
    IN  IF c \in {"h", "l"} THEN DecModes(u, c = "h") ELSE u

\* A value ends, and the values that were left out get the default of the sequence.
EndValues(t, c) ==
    LET n == IF t.rrr THEN t.n + 1 ELSE t.n
        default == IF c \in {"J", "K", "m", "c", "]"} THEN 0 ELSE 1
    IN  [t EXCEPT !.n = n, !.rrr = FALSE,
                  !.values = [i \in 1 .. EscValues |->
                      IF i > n \/ (default # 0 /\ t.values[i] = 0) THEN default ELSE t.values[i]]]

Finals == {"A", "B", "C", "D", "E", "F", "G", "H", "J", "K", "P", "X", "@", "b", "d", "h", "l",
           "m", "r", "s", "u", "M", "S", "x", "c", "\\", "]"}

control_sequence_parse(t, c) ==
    CASE t.offset = 2 /\ c = "[" -> Cleanup([t EXCEPT !.discard = TRUE])
      [] t.offset = 2 /\ c = "?" -> [t EXCEPT !.dec = TRUE]
      [] c \in C0 -> execute_c0(t, c)
      [] c = ";" -> IF t.n = EscValues THEN [t EXCEPT !.rrr = FALSE]
                    ELSE [t EXCEPT !.n = @ + 1, !.rrr = FALSE,
                                   !.values[t.n + 1] = IF t.rrr THEN @ ELSE 0]
      [] OTHER ->
          LET u == EndValues(t, c)
          IN  CASE u.dec -> Cleanup(dec_private_parse(u, c))
                [] ~u.dec /\ c = "ESC" -> [u EXCEPT !.unhandled = FALSE, !.csi = FALSE, !.offset = 0]
                [] ~u.dec /\ c \in Finals /\ u.unhandled -> Cleanup([u EXCEPT !.unhandled = FALSE])
                [] ~u.dec /\ c \in Finals /\ ~u.unhandled -> final_byte(u, c)
                [] OTHER -> [u EXCEPT !.unhandled = TRUE]

(***************************************************************************)
(* Escape sequences.                                                       *)
(***************************************************************************)
OscEnds(t) == [t EXCEPT !.osc = FALSE, !.oscEscape = FALSE, !.escape = FALSE]

\* osc_parse, while it consumes the byte.
osc_parse(t, c) ==
    CASE c = "BEL" \/ (t.oscEscape /\ c = "\\") -> OscEnds(t)
      [] ~t.oscEscape /\ c = "ESC" -> [t EXCEPT !.oscEscape = TRUE]
      [] OTHER -> [t EXCEPT !.oscLen = Least(@ + 1, OscBytes)]

Escape(t, c) ==
    CASE c = "ESC" -> [t EXCEPT !.offset = 0]
      [] c = "]" -> [t EXCEPT !.oscEscape = FALSE, !.osc = TRUE, !.oscLen = 0]
      [] c = "[" -> [t EXCEPT !.values = NoValues, !.n = 0, !.rrr = FALSE, !.unhandled = FALSE,
                              !.csi = TRUE]
      [] OTHER ->
          [(CASE c = "7" -> save_state(t)
              [] c = "8" -> restore_state(t)
              [] c = "c" -> save_state([Reinit(t) EXCEPT !.x = 0, !.y = 0])
              [] c = "D" -> IF Y(t) # t.margin.bottom - 1 /\ Y(t) = TermRows - 1 THEN t
                            ELSE LineFeed(t, X(t))
              [] c = "E" -> LineFeed(t, 0)
              [] c = "M" -> IF Y(t) = t.margin.top THEN set_cursor_pos(t, X(t), Y(t))
                            ELSE IF Y(t) > 0 THEN set_cursor_pos(t, X(t), Y(t) - 1) ELSE t
              [] c \in {"(", ")"} -> [t EXCEPT !.gselect = IF c = "(" THEN 1 ELSE 2]
              [] OTHER -> t) EXCEPT !.escape = FALSE]

\* The number of bytes since ESC matters up to 2.
escape_parse(t, c) ==
    LET u == [t EXCEPT !.offset = Least(@ + 1, 3)]
        aborted == t.osc /\ t.oscEscape /\ c # "\\"
        v == IF aborted THEN [u EXCEPT !.oscEscape = FALSE, !.osc = FALSE, !.offset = 1] ELSE u
    IN  IF t.osc /\ ~aborted THEN osc_parse(u, c)
        ELSE IF v.csi THEN control_sequence_parse(v, c) ELSE Escape(v, c)

(***************************************************************************)
(* flanterm_putchar, an action for each of the states the parser is in.    *)
(***************************************************************************)
Cancels(c) == term.discard \/ c = "CAN"

Discard(c) ==
    /\ Cancels(c)
    /\ term' = [term EXCEPT !.discard = FALSE, !.escape = FALSE, !.csi = FALSE, !.uni = 0,
                            !.osc = FALSE, !.oscEscape = FALSE, !.gselect = 0, !.graphic = FALSE]

\* One more byte of an encoded character.  The last completes it: it has a glyph, or is
\* replaced over its width.
Continues(c, width) ==
    /\ ~Cancels(c) /\ term.uni # 0 /\ c = "cont"
    /\ width > 0 => term.uni = 1
    /\ term' = IF term.uni > 1 THEN [term EXCEPT !.uni = @ - 1]
               ELSE put_repeated([term EXCEPT !.uni = 0, !.graphic = @ \/ width > 0], width)

\* An overlong or too large form is rejected at its second byte, a surrogate at its last;
\* the byte is then taken for a character of its own.
Rejected(c) ==
    /\ ~Cancels(c) /\ c = "cont"
    /\ (term.lead = 2 /\ term.uni \in {1, 2}) \/ (term.lead = 3 /\ term.uni = 3)
    /\ term' = IF term.escape THEN escape_parse([term EXCEPT !.uni = 0], c)
               ELSE raw_putchar([term EXCEPT !.uni = 0, !.graphic = TRUE])

Leads == [lead2 |-> 1, lead3 |-> 2, lead4 |-> 3]

\* Bytes outside an encoded character; one that breaks an encoding off is shown as such.
Begin(c) ==
    IF term.uni # 0 THEN raw_putchar([term EXCEPT !.uni = 0]) ELSE term

Starts(c) ==
    /\ ~Cancels(c) /\ c \in DOMAIN Leads
    /\ term' = [Begin(c) EXCEPT !.gselect = 0, !.uni = Leads[c], !.lead = Leads[c]]

Plain(c) == ~Cancels(c) /\ c \notin DOMAIN Leads /\ (c = "cont" => term.uni = 0)

\* Digits of a control sequence come as runs.
InEscape(c) ==
    /\ Plain(c) /\ Begin(c).escape /\ ~(term.csi /\ c \in {"0", "7", "8"})
    /\ term' = escape_parse(Begin(c), c)

Digits(ds) ==
    /\ term.escape /\ term.csi /\ ~term.osc /\ ~term.discard /\ ~term.rrr /\ term.uni = 0
    /\ LET t == [term EXCEPT !.offset = Least(@ + Len(ds), 3)]
       IN  term' = IF t.n = EscValues THEN t
                   ELSE [t EXCEPT !.rrr = TRUE, !.values[t.n + 1] = AddDigits(@, ds)]

\* The byte that designates a character set, unless it is a control character.
Designates(c) ==
    /\ Plain(c) /\ ~Begin(c).escape /\ Begin(c).gselect # 0 /\ c \notin C0 \cup {"ESC", "DEL"}
    /\ LET g == Begin(c).gselect
       IN  term' = [Begin(c) EXCEPT !.gselect = 0,
                                    !.charsets[g] = IF c = "B" THEN "default"
                                                    ELSE IF c = "0" THEN "special" ELSE @]

Outside(c) == Plain(c) /\ ~Begin(c).escape
                       /\ (Begin(c).gselect = 0 \/ c \in C0 \cup {"ESC", "DEL"})

StartsEscape(c) ==
    /\ Outside(c) /\ c = "ESC"
    /\ term' = [Begin(c) EXCEPT !.gselect = 0, !.escape = TRUE, !.offset = 0]

Controls(c) ==
    /\ Outside(c) /\ c \in C0 \cup {"DEL"}
    /\ term' = execute_c0([Begin(c) EXCEPT !.gselect = 0, !.graphic = FALSE], c)

\* insert_shift moves what is behind the cursor, and not the cursor.
Prints(c) ==
    /\ Outside(c) /\ c \notin C0 \cup {"DEL", "ESC"}
    /\ term' = raw_putchar([Begin(c) EXCEPT !.graphic = TRUE])

TermNext(bytes, digits) ==
    \/ \E c \in bytes : \/ Discard(c) \/ Rejected(c) \/ Starts(c) \/ InEscape(c)
                        \/ Designates(c) \/ StartsEscape(c) \/ Controls(c) \/ Prints(c)
    \/ \E c \in bytes, width \in 0 .. 2 : Continues(c, width)
    \/ \E ds \in digits : Digits(ds)

(***************************************************************************)
(* Properties.                                                             *)
(***************************************************************************)
TermTypeOK ==
    /\ term.n \in 0 .. EscValues /\ term.values \in [1 .. EscValues -> 0 .. EscMax]
    /\ term.oscLen \in 0 .. OscBytes /\ term.gselect \in 0 .. 2 /\ term.uni \in 0 .. 3

\* After any bytes the cursor is on the screen, or waits behind its last column; the
\* scrolling region, the saved one too, is at least two lines of the screen, which the
\* unsigned loops of scroll and revscroll need; and no sequence, completed or broken off,
\* leaves scrolling switched off.
TerminalIsSound ==
    /\ \A s \in {term, term.saved} :
          /\ s.x \in 0 .. TermCols /\ s.y \in 0 .. TermRows - 1
          /\ 0 <= s.margin.top /\ s.margin.top < s.margin.bottom - 1 /\ s.margin.bottom <= TermRows
    /\ term.mark.x \in 0 .. TermCols - 1 /\ term.mark.y \in 0 .. TermRows - 1
    /\ term.scroll
=============================================================================
