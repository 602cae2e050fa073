----------------------------- MODULE FlantermFb -----------------------------
(***************************************************************************)
(* The framebuffer backend (extra/flanterm/flanterm_backends/fb.c): cells  *)
(* are written into a queue, and a flush plots what differs from the grid. *)
(***************************************************************************)
EXTENDS Integers, Sequences

CONSTANTS FbDims,     \* set of [cols, rows]: sizes of a terminal
          FbChar,     \* characters with their colours; "blank" is one of them
          FbGeometry, \* set of [width, height, glyphWidth, glyphHeight, margin, rotation]
          FbManual    \* the host calls flanterm_full_refresh while cells wait in the queue

\* A framebuffer has room for its margins, which flanterm_fb_init does not check.
ASSUME FbAssumption ==
    /\ FbDims \subseteq [cols : Nat \ {0}, rows : Nat \ {0}] /\ "blank" \in FbChar
    /\ FbGeometry \subseteq [width : Nat, height : Nat, glyphWidth : Nat \ {0}, glyphHeight : Nat \ {0},
                             margin : Nat, rotation : {0, 90, 180, 270}]
    /\ \A g \in FbGeometry : g.margin * 2 <= g.width /\ g.margin * 2 <= g.height
    /\ \E g \in FbGeometry : g.rotation = 0

VARIABLES fb,    \* [cols, rows, grid, map, queue, x, y, oldX, oldY, cursor, top, bottom]
          shown, \* cell -> [c, inverse]: what the framebuffer shows
          want,  \* history: cell -> the character that was written there last
          dirty, \* something was written, or the cursor moved, since the last flush
          geo    \* the framebuffer, its margin, glyphs and rotation

fbVars == <<fb, shown, want, dirty, geo>>

Cells(s) == 0 .. s.cols * s.rows - 1
At(s, x, y) == y * s.cols + x
OnScreen(s, x, y) == x < s.cols /\ y < s.rows

FbInit ==
    \E d \in FbDims :
        LET cells == 0 .. d.cols * d.rows - 1
        IN  /\ fb = [cols |-> d.cols, rows |-> d.rows, grid |-> [i \in cells |-> "blank"],
                     map |-> [i \in cells |-> 0], queue |-> <<>>, x |-> 0, y |-> 0,
                     oldX |-> 0, oldY |-> 0, cursor |-> TRUE, top |-> 0, bottom |-> d.rows]
            /\ shown = [i \in cells |-> [c |-> "blank", inverse |-> i = 0]]
            /\ want = [i \in cells |-> "blank"] /\ dirty = FALSE
            /\ geo = CHOOSE g \in FbGeometry : g.rotation = 0

(***************************************************************************)
(* The queue.  map[i] is the place of cell i in it, 0 for none.            *)
(***************************************************************************)
Content(s, i) == IF s.map[i] # 0 THEN s.queue[s.map[i]].c ELSE s.grid[i]

\* A slip: a cell that already waits is not overwritten.
push_to_queue_once(s, c, i) ==
    IF s.map[i] # 0 \/ s.grid[i] = c \/ Len(s.queue) = s.cols * s.rows THEN s
    ELSE [s EXCEPT !.queue = Append(@, [cell |-> i, c |-> c]), !.map[i] = Len(s.queue) + 1]

push_to_queue(s, c, i) ==
    IF s.map[i] # 0 THEN [s EXCEPT !.queue[s.map[i]].c = c]
    ELSE IF s.grid[i] = c \/ Len(s.queue) = s.cols * s.rows THEN s
    ELSE [s EXCEPT !.queue = Append(@, [cell |-> i, c |-> c]), !.map[i] = Len(s.queue) + 1]

\* The cells of a list one after another, each written with what the one d cells on holds by then.
MoveAll(s, to, d) ==
    LET moved(u, i) == push_to_queue(u, Content(u, i + d), i)
        after[k \in 0 .. Len(to)] == IF k = 0 THEN s ELSE moved(after[k - 1], to[k])
    IN  after[Len(to)]

\* n cells from the first one on are cleared.
Blanked(s, first, n) ==
    LET after[k \in 0 .. n] == IF k = 0 THEN s ELSE push_to_queue(after[k - 1], "blank", first + k - 1)
    IN  after[n]

\* How many cells move when the scrolling region does: all of its lines but one.
Moving(s) == (s.bottom - 1 - s.top) * s.cols

flanterm_fb_scroll(s) ==
    LET up == [k \in 1 .. Moving(s) |-> s.top * s.cols + k - 1]
    IN  Blanked(MoveAll(s, up, s.cols), (s.bottom - 1) * s.cols, s.cols)

flanterm_fb_revscroll(s) ==
    LET down == [k \in 1 .. Moving(s) |-> s.bottom * s.cols - k]
    IN  Blanked(MoveAll(s, down, -s.cols), s.top * s.cols, s.cols)

\* flanterm_fb_raw_putchar: wraps first, and scrolls at the bottom margin.
Wrapped(s) ==
    IF s.x < s.cols THEN s
    ELSE IF s.y + 1 = s.bottom THEN [flanterm_fb_scroll(s) EXCEPT !.x = 0]
    ELSE [s EXCEPT !.x = 0, !.y = IF s.y + 1 >= s.rows THEN s.rows - 1 ELSE s.y + 1]

\* insert_shift by one: the cells behind the cursor, from the right.
ShiftedTo(s) == [k \in 1 .. s.cols - 1 - s.x |-> At(s, s.cols - k, s.y)]

(***************************************************************************)
(* What the same operations do to a screen that is only looked at.         *)
(***************************************************************************)
Region(s) == {i \in Cells(s) : s.top * s.cols <= i /\ i < s.bottom * s.cols}
ScrolledUp(s, w) ==
    [i \in Cells(s) |-> IF i \notin Region(s) THEN w[i]
                        ELSE IF i + s.cols \in Region(s) THEN w[i + s.cols] ELSE "blank"]
ScrolledDown(s, w) ==
    [i \in Cells(s) |-> IF i \notin Region(s) THEN w[i]
                        ELSE IF i - s.cols \in Region(s) THEN w[i - s.cols] ELSE "blank"]

(***************************************************************************)
(* Operations.                                                             *)
(***************************************************************************)
Write(c) ==
    LET s == Wrapped(fb)
        w == IF fb.x >= fb.cols /\ fb.y + 1 = fb.bottom THEN ScrolledUp(fb, want) ELSE want
        i == At(s, s.x, s.y)
    IN  /\ fb' = [push_to_queue(s, c, i) EXCEPT !.x = @ + 1]
        /\ want' = [w EXCEPT ![i] = c]
        /\ dirty' = TRUE /\ UNCHANGED <<shown, geo>>

Scroll == fb' = flanterm_fb_scroll(fb) /\ want' = ScrolledUp(fb, want)
          /\ dirty' = TRUE /\ UNCHANGED <<shown, geo>>

RevScroll == fb' = flanterm_fb_revscroll(fb) /\ want' = ScrolledDown(fb, want)
             /\ dirty' = TRUE /\ UNCHANGED <<shown, geo>>

InsertShift ==
    /\ fb.x < fb.cols
    /\ LET to == ShiftedTo(fb)
       IN  /\ fb' = MoveAll(fb, to, -1)
           /\ want' = [i \in Cells(fb) |-> IF \E k \in DOMAIN to : i = to[k] THEN want[i - 1] ELSE want[i]]
    /\ dirty' = TRUE /\ UNCHANGED <<shown, geo>>

flanterm_fb_clear(move) ==
    LET s == Blanked(fb, 0, fb.rows * fb.cols)
    IN  /\ fb' = IF move THEN [s EXCEPT !.x = 0, !.y = 0] ELSE s
        /\ want' = [i \in Cells(fb) |-> "blank"]
        /\ dirty' = TRUE /\ UNCHANGED <<shown, geo>>

flanterm_fb_set_cursor_pos(x, y) ==
    /\ OnScreen(fb, x, y)
    /\ fb' = [fb EXCEPT !.x = x, !.y = y]
    /\ dirty' = TRUE /\ UNCHANGED <<shown, want, geo>>

\* cursor_enabled and the margins belong to flanterm.c.
Configure(on, top, bottom) ==
    /\ top < bottom - 1 /\ bottom <= fb.rows
    /\ fb' = [fb EXCEPT !.cursor = on, !.top = top, !.bottom = bottom]
    /\ dirty' = TRUE /\ UNCHANGED <<shown, want, geo>>

(***************************************************************************)
(* Plotting.                                                               *)
(***************************************************************************)

\* draw_cursor: the cell of the cursor is plotted with its colours swapped; if it waits in
\* the queue, that item is done.
CursorCell(s) == IF s.cursor /\ OnScreen(s, s.x, s.y) THEN {At(s, s.x, s.y)} ELSE {}

draw_cursor(s) ==
    [s EXCEPT !.grid = [i \in Cells(s) |-> IF i \in CursorCell(s) THEN Content(s, i) ELSE s.grid[i]],
              !.map = [i \in Cells(s) |-> IF i \in CursorCell(s) THEN 0 ELSE s.map[i]]]

\* The loop of the flush: an item whose cell is no longer mapped is skipped.
PlotItem(u, q) ==
    IF u.s.map[q.cell] = 0 THEN u
    ELSE [s |-> [u.s EXCEPT !.grid[q.cell] = q.c, !.map[q.cell] = 0],
          view |-> [u.view EXCEPT ![q.cell] = [c |-> q.c, inverse |-> FALSE]]]

PlotQueue(s, view) ==
    LET after[k \in 0 .. Len(s.queue)] ==
            IF k = 0 THEN [s |-> s, view |-> view] ELSE PlotItem(after[k - 1], s.queue[k])
    IN  after[Len(s.queue)]

LeftBehind(s) ==
    IF (<<s.oldX, s.oldY>> # <<s.x, s.y>> \/ ~s.cursor) /\ OnScreen(s, s.oldX, s.oldY)
    THEN {At(s, s.oldX, s.oldY)} ELSE {}

flanterm_fb_double_buffer_flush ==
    LET inverted == [i \in Cells(fb) |-> IF i \in CursorCell(fb)
                                         THEN [c |-> Content(fb, i), inverse |-> TRUE] ELSE shown[i]]
        done == PlotQueue(draw_cursor(fb), inverted)
        s == done.s
    IN  /\ shown' = [i \in Cells(fb) |-> IF i \in LeftBehind(s) THEN [c |-> s.grid[i], inverse |-> FALSE]
                                         ELSE done.view[i]]
        /\ fb' = [s EXCEPT !.queue = <<>>, !.oldX = s.x, !.oldY = s.y]
        /\ dirty' = FALSE /\ UNCHANGED <<want, geo>>

\* flanterm_fb_full_refresh plots the grid; the queue stays as it is.
flanterm_fb_full_refresh ==
    /\ FbManual \/ ~dirty
    /\ shown' = [i \in Cells(fb) |-> IF i \in CursorCell(fb)
                                     THEN [c |-> Content(fb, i), inverse |-> TRUE]
                                     ELSE [c |-> fb.grid[i], inverse |-> FALSE]]
    /\ fb' = draw_cursor(fb)
    /\ UNCHANGED <<want, dirty, geo>>

FbNext ==
    \/ \E c \in FbChar : Write(c)
    \/ Scroll \/ RevScroll \/ InsertShift
    \/ \E move \in BOOLEAN : flanterm_fb_clear(move)
    \/ \E x \in 0 .. fb.cols - 1, y \in 0 .. fb.rows - 1 : flanterm_fb_set_cursor_pos(x, y)
    \/ \E on \in BOOLEAN, top \in 0 .. fb.rows, bottom \in 2 .. fb.rows : Configure(on, top, bottom)
    \/ flanterm_fb_double_buffer_flush \/ flanterm_fb_full_refresh

(***************************************************************************)
(* Geometry: flanterm_fb_init places the cells, plot_char the pixels.      *)
(***************************************************************************)

\* The column and row in memory of a logical pixel, as full_refresh and plot_char take it.
Pixel(g, r, x, y) ==
    CASE r = 0   -> <<x, y>>
      [] r = 90  -> <<g.height - 1 - y, x>>
      [] r = 180 -> <<g.width - 1 - x, g.height - 1 - y>>
      [] r = 270 -> <<y, g.width - 1 - x>>

\* plot_char walks from the first pixel of a cell with an outer and an inner stride.
Strides == [r \in {0, 90, 180, 270} |->
    CASE r = 0   -> [outer |-> <<0, 1>>, inner |-> <<1, 0>>]
      [] r = 90  -> [outer |-> <<-1, 0>>, inner |-> <<0, 1>>]
      [] r = 180 -> [outer |-> <<0, -1>>, inner |-> <<-1, 0>>]
      [] r = 270 -> [outer |-> <<1, 0>>, inner |-> <<0, -1>>]]

FbCols(g) == (g.width - g.margin * 2) \div g.glyphWidth
FbRows(g) == (g.height - g.margin * 2) \div g.glyphHeight
OffsetX(g) == g.margin + ((g.width - g.margin * 2) % g.glyphWidth) \div 2
OffsetY(g) == g.margin + ((g.height - g.margin * 2) % g.glyphHeight) \div 2

plot_char(g, r, x, y) ==
    LET first == Pixel(g, r, OffsetX(g) + x * g.glyphWidth, OffsetY(g) + y * g.glyphHeight)
    IN  {[k \in 1 .. 2 |-> first[k] + gy * Strides[r].outer[k] + gx * Strides[r].inner[k]] :
            gx \in 0 .. g.glyphWidth - 1, gy \in 0 .. g.glyphHeight - 1}

\* flanterm_fb_deinit, and flanterm_fb_init for another framebuffer.
Reopen == geo' \in FbGeometry /\ UNCHANGED <<fb, shown, want, dirty>>

(***************************************************************************)
(* Properties.                                                             *)
(***************************************************************************)
FbTypeOK ==
    /\ \A i \in Cells(fb) : fb.grid[i] \in FbChar /\ fb.map[i] \in 0 .. Len(fb.queue)
    /\ Len(fb.queue) <= fb.cols * fb.rows

\* After a flush the framebuffer shows the text as it was written, scrolled and moved, with
\* the cursor on its cell and nowhere else.
ScreenShowsText ==
    ~dirty => \A i \in Cells(fb) : shown[i] = [c |-> want[i], inverse |-> i \in CursorCell(fb)]

\* In every rotation the cells are plotted inside the framebuffer, apart from each other,
\* and inside the memory that a refresh paints.
CellsAreApart ==
    LET g == geo
        r == geo.rotation
        cells == (0 .. FbCols(g) - 1) \X (0 .. FbRows(g) - 1)
        memory == IF r \in {0, 180} THEN (0 .. g.width - 1) \X (0 .. g.height - 1)
                  ELSE (0 .. g.height - 1) \X (0 .. g.width - 1)
    IN  /\ \A a, b \in cells : a # b => plot_char(g, r, a[1], a[2]) \cap plot_char(g, r, b[1], b[2]) = {}
        /\ \A a \in cells : \A p \in plot_char(g, r, a[1], a[2]) : <<p[1], p[2]>> \in memory
=============================================================================
