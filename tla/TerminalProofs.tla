--------------------------- MODULE TerminalProofs ---------------------------
(***************************************************************************)
(* Proofs about the terminal, for every size, every list of parameters of  *)
(* sgr and every framebuffer.                                              *)
(*                                                                         *)
(* Colours: the attributes in use and the saved ones are drawn as asked    *)
(* for (SgrInv).  Parser: a context is Good if every field is in range and *)
(* a number that is under way has a place among the values; the sets that  *)
(* the fields range over stay unexpanded while a record is put together.   *)
(* Screen: the map and the queue point at each other (Linked), so a queue  *)
(* that is full holds every cell and nothing is dropped; what the cells    *)
(* hold is the text, and the framebuffer is behind by the queue and by the *)
(* old cursor only (FbGood).                                               *)
(***************************************************************************)
EXTENDS MCTerminal, ListProofs, FiniteSetTheorems

(***************************************************************************)
(* Colours.                                                                *)
(***************************************************************************)
\* Colours, choices of one, attributes and what was asked for.
ColourKinds == {"normal", "bright", "rgb", "default_fg", "default_bg", "clear"}
Colours == ColourKinds \X (Nat \cup Seq(Nat))
Choice == -2 .. 7
TextAttrs == [bold : BOOLEAN, bgBold : BOOLEAN, reverse : BOOLEAN, primary : Choice,
              bg : Choice, textFg : Colours, textBg : Colours]
Attrs == [bold : BOOLEAN, bgBold : BOOLEAN, reverse : BOOLEAN, primary : Choice,
          bg : Choice, textFg : Colours, textBg : Colours, saved : TextAttrs]
Requests == [fg : Colours, bg : Colours, saved : Colours \X Colours]

\* What a side of the text is drawn in.
Got(a, fg) == IF fg THEN (IF a.reverse THEN a.textBg ELSE a.textFg)
                    ELSE (IF a.reverse THEN a.textFg ELSE a.textBg)

\* A side whose choice is n is drawn as got when asks was asked for last.
Shows(n, bold, asks, got) ==
    /\ n = NoColour => asks \in {DefaultFg, Transparent}
    /\ n = OwnColour => got = asks
    /\ n \in 0 .. 7 => /\ asks = Normal(n) /\ got[2] = n
                       /\ got[1] \in {"normal", "bright"} /\ (bold => got[1] = "bright")

\* Both sides of the text are drawn as fg and bg ask.
Drawn(a, fg, bg) ==
    Shows(a.primary, a.bold, fg, Got(a, TRUE)) /\ Shows(a.bg, a.bgBold, bg, Got(a, FALSE))

\* The inductive invariant: the attributes in use and the saved ones are drawn as asked for.
SgrInv(a, w) ==
    /\ a \in Attrs /\ w \in Requests
    /\ Drawn(a, w.fg, w.bg) /\ Drawn(a.saved, w.saved[1], w.saved[2])

\* The colours that the model names are colours.
LEMMA ColoursAre ==
    /\ \A n \in Nat : Normal(n) \in Colours /\ Bright(n) \in Colours /\ Rgb(n) \in Colours
    /\ \A v \in Seq(Nat) : Rgb(v) \in Colours
    /\ {DefaultFg, DefaultFgBright, Transparent, DefaultBgBright} \subseteq Colours
BY DEF Normal, Bright, Rgb, DefaultFg, DefaultFgBright, Transparent, DefaultBgBright, Colours,
       ColourKinds

\* Render changes what one side is drawn in.
LEMMA Rendered ==
    ASSUME NEW a \in Attrs, NEW fg \in BOOLEAN, NEW colour \in Colours
    PROVE  LET r == Render(a, fg, colour)
           IN  /\ r \in Attrs /\ Got(r, fg) = colour /\ Got(r, ~fg) = Got(a, ~fg)
               /\ r.primary = a.primary /\ r.bg = a.bg /\ r.bold = a.bold
               /\ r.bgBold = a.bgBold /\ r.reverse = a.reverse /\ r.saved = a.saved
<1>1. CASE fg = TRUE /\ a.reverse = TRUE
  BY <1>1 DEF Render, Got, Attrs
<1>2. CASE fg = TRUE /\ a.reverse = FALSE
  BY <1>2 DEF Render, Got, Attrs
<1>3. CASE fg = FALSE /\ a.reverse = TRUE
  BY <1>3 DEF Render, Got, Attrs
<1>4. CASE fg = FALSE /\ a.reverse = FALSE
  BY <1>4 DEF Render, Got, Attrs
<1>5. a.reverse \in BOOLEAN
  BY DEF Attrs
<1> QED
  BY <1>1, <1>2, <1>3, <1>4, <1>5

\* The attributes of a side after a change of it.
Recoloured(a, r, fg, n, bold, colour) ==
    /\ r \in Attrs /\ r.saved = a.saved
    /\ Got(r, fg) = colour /\ Got(r, ~fg) = Got(a, ~fg)
    /\ fg => r.primary = n /\ r.bold = bold /\ r.bg = a.bg /\ r.bgBold = a.bgBold
    /\ ~fg => r.bg = n /\ r.bgBold = bold /\ r.primary = a.primary /\ r.bold = a.bold

\* A colour for the letters keeps the invariant if it shows what is asked for.
LEMMA RecolouredFg ==
    ASSUME NEW a, NEW w, NEW r, NEW n, NEW bold, NEW colour, NEW new \in Colours, SgrInv(a, w),
           Recoloured(a, r, TRUE, n, bold, colour), Shows(n, bold, new, colour)
    PROVE  SgrInv(r, [w EXCEPT !.fg = new])
<1>1. PICK v : v = [w EXCEPT !.fg = new]
  OBVIOUS
<1>2. v \in Requests /\ v.fg = new /\ v.bg = w.bg /\ v.saved = w.saved
  BY <1>1 DEF SgrInv, Requests
<1>3. Drawn(r, v.fg, v.bg)
  BY <1>2 DEF Drawn, Recoloured, SgrInv
<1> QED
  BY <1>1, <1>2, <1>3 DEF SgrInv, Recoloured

\* The same for the background.
LEMMA RecolouredBg ==
    ASSUME NEW a, NEW w, NEW r, NEW n, NEW bold, NEW colour, NEW new \in Colours, SgrInv(a, w),
           Recoloured(a, r, FALSE, n, bold, colour), Shows(n, bold, new, colour)
    PROVE  SgrInv(r, [w EXCEPT !.bg = new])
<1>1. PICK v : v = [w EXCEPT !.bg = new]
  OBVIOUS
<1>2. v \in Requests /\ v.bg = new /\ v.fg = w.fg /\ v.saved = w.saved
  BY <1>1 DEF SgrInv, Requests
<1>3. Drawn(r, v.fg, v.bg)
  BY <1>2 DEF Drawn, Recoloured, SgrInv
<1> QED
  BY <1>1, <1>2, <1>3 DEF SgrInv, Recoloured

\* The colour asked for stays.
LEMMA RequestKept ==
    ASSUME NEW a, NEW w, NEW r, NEW fg \in BOOLEAN, NEW n \in Choice, NEW bold \in BOOLEAN,
           NEW colour, SgrInv(a, w), Recoloured(a, r, fg, n, bold, colour),
           Shows(n, bold, IF fg THEN w.fg ELSE w.bg, colour)
    PROVE  SgrInv(r, w)
<1>1. w \in Requests /\ w.fg \in Colours /\ w.bg \in Colours
  BY DEF SgrInv, Requests
<1>2. [w EXCEPT !.fg = w.fg] = w /\ [w EXCEPT !.bg = w.bg] = w
  BY <1>1 DEF Requests
<1>3. CASE fg = TRUE
  <2>1. Recoloured(a, r, TRUE, n, bold, colour) /\ Shows(n, bold, w.fg, colour)
    BY <1>3
  <2>2. SgrInv(r, [w EXCEPT !.fg = w.fg])
    BY <1>1, <2>1, RecolouredFg
  <2> QED
    BY <1>2, <2>2
<1>4. CASE fg = FALSE
  <2>1. Recoloured(a, r, FALSE, n, bold, colour) /\ Shows(n, bold, w.bg, colour)
    BY <1>4
  <2>2. SgrInv(r, [w EXCEPT !.bg = w.bg])
    BY <1>1, <2>1, RecolouredBg
  <2> QED
    BY <1>2, <2>2
<1> QED
  BY <1>3, <1>4

\* A side gets another choice of colour, and is then drawn in it.
LEMMA ChosenFg ==
    ASSUME NEW a \in Attrs, NEW n \in Choice, NEW colour \in Colours
    PROVE  Recoloured(a, Render([a EXCEPT !.primary = n], TRUE, colour), TRUE, n, a.bold, colour)
<1>1. PICK b : b = [a EXCEPT !.primary = n]
  OBVIOUS
<1>2. /\ b \in Attrs /\ b.primary = n /\ b.bg = a.bg /\ b.bold = a.bold
      /\ b.bgBold = a.bgBold /\ b.saved = a.saved /\ Got(b, FALSE) = Got(a, FALSE)
  BY <1>1 DEF Attrs, Got
<1>3. Recoloured(a, Render(b, TRUE, colour), TRUE, n, a.bold, colour)
  BY <1>2, Rendered DEF Recoloured
<1> QED
  BY <1>1, <1>3

\* The same for the background.
LEMMA ChosenBg ==
    ASSUME NEW a \in Attrs, NEW n \in Choice, NEW colour \in Colours
    PROVE  Recoloured(a, Render([a EXCEPT !.bg = n], FALSE, colour), FALSE, n, a.bgBold, colour)
<1>1. PICK b : b = [a EXCEPT !.bg = n]
  OBVIOUS
<1>2. /\ b \in Attrs /\ b.bg = n /\ b.primary = a.primary /\ b.bold = a.bold
      /\ b.bgBold = a.bgBold /\ b.saved = a.saved /\ Got(b, TRUE) = Got(a, TRUE)
  BY <1>1 DEF Attrs, Got
<1>3. Recoloured(a, Render(b, FALSE, colour), FALSE, n, a.bgBold, colour)
  BY <1>2, Rendered DEF Recoloured
<1> QED
  BY <1>1, <1>3

\* A side gets bold or loses it.
LEMMA BoldIs ==
    ASSUME NEW a \in Attrs, NEW fg \in BOOLEAN, NEW on \in BOOLEAN, NEW colour \in Colours
    PROVE  LET b == IF fg THEN [a EXCEPT !.bold = on] ELSE [a EXCEPT !.bgBold = on]
               n == IF fg THEN a.primary ELSE a.bg
           IN  /\ Recoloured(a, Render(b, fg, colour), fg, n, on, colour)
               /\ Recoloured(a, b, fg, n, on, Got(a, fg))
<1>1. CASE fg
  <2>1. PICK b : b = [a EXCEPT !.bold = on]
    OBVIOUS
  <2>2. /\ b \in Attrs /\ b.primary = a.primary /\ b.bg = a.bg /\ b.bold = on
        /\ b.bgBold = a.bgBold /\ b.saved = a.saved
        /\ Got(b, FALSE) = Got(a, FALSE) /\ Got(b, TRUE) = Got(a, TRUE)
    BY <2>1 DEF Attrs, Got
  <2>3. Recoloured(a, Render(b, TRUE, colour), TRUE, a.primary, on, colour)
    BY <2>2, Rendered DEF Recoloured
  <2>4. Recoloured(a, b, TRUE, a.primary, on, Got(a, TRUE))
    BY <2>2 DEF Recoloured
  <2> QED
    BY <1>1, <2>1, <2>3, <2>4
<1>2. CASE ~fg
  <2>1. PICK b : b = [a EXCEPT !.bgBold = on]
    OBVIOUS
  <2>2. /\ b \in Attrs /\ b.primary = a.primary /\ b.bg = a.bg /\ b.bgBold = on
        /\ b.bold = a.bold /\ b.saved = a.saved
        /\ Got(b, FALSE) = Got(a, FALSE) /\ Got(b, TRUE) = Got(a, TRUE)
    BY <2>1 DEF Attrs, Got
  <2>3. Recoloured(a, Render(b, FALSE, colour), FALSE, a.bg, on, colour)
    BY <2>2, Rendered DEF Recoloured
  <2>4. Recoloured(a, b, FALSE, a.bg, on, Got(a, FALSE))
    BY <2>2 DEF Recoloured
  <2> QED
    BY <1>2, <2>1, <2>3, <2>4
<1> QED
  BY <1>1, <1>2

\* Bold changes how a side is drawn, never which colour it has.
LEMMA SetBoldKeeps ==
    ASSUME NEW a, NEW w, SgrInv(a, w), NEW fg \in BOOLEAN, NEW on \in BOOLEAN
    PROVE  SgrInv(SetBold(a, fg, on), w)
<1> DEFINE b == IF fg THEN [a EXCEPT !.bold = on] ELSE [a EXCEPT !.bgBold = on]
           asks == IF fg THEN w.fg ELSE w.bg
<1>1. PICK n : n = IF fg THEN a.primary ELSE a.bg
  OBVIOUS
<1>2. a \in Attrs /\ n \in Choice
  BY <1>1 DEF SgrInv, Attrs
<1>3. Shows(n, IF fg THEN a.bold ELSE a.bgBold, asks, Got(a, fg))
  <2>1. CASE fg
    BY <1>1, <2>1 DEF SgrInv, Drawn
  <2>2. CASE ~fg
    BY <1>1, <2>2 DEF SgrInv, Drawn
  <2> QED
    BY <2>1, <2>2
<1>4. \A colour \in Colours : Recoloured(a, Render(b, fg, colour), fg, n, on, colour)
  BY <1>1, <1>2, BoldIs
<1>5. Recoloured(a, b, fg, n, on, Got(a, fg))
  BY <1>1, <1>2, ColoursAre, BoldIs
<1> HIDE DEF b, asks
<1>6. CASE n = OwnColour
  <2>1. Shows(n, on, asks, Got(a, fg))
    BY <1>3, <1>6 DEF Shows, OwnColour, NoColour
  <2>2. SetBold(a, fg, on) = b
    BY <1>1, <1>6 DEF SetBold, b, NoColour, OwnColour
  <2> QED
    BY <1>2, <1>5, <2>1, <2>2, RequestKept DEF asks
<1>7. CASE n = NoColour
  <2>1. PICK colour \in Colours : SetBold(a, fg, on) = Render(b, fg, colour)
    BY <1>1, <1>7, ColoursAre DEF SetBold, b, NoColour, OwnColour
  <2>2. Shows(n, on, asks, colour)
    BY <1>3, <1>7 DEF Shows, OwnColour, NoColour
  <2> QED
    BY <1>2, <1>4, <2>1, <2>2, RequestKept DEF asks
<1>8. CASE n \in 0 .. 7
  <2>1. PICK colour : colour = IF on THEN Bright(n) ELSE Normal(n)
    OBVIOUS
  <2>2. colour \in Colours
    BY <1>8, <2>1, ColoursAre
  <2>3. SetBold(a, fg, on) = Render(b, fg, colour)
    BY <1>1, <1>8, <2>1 DEF SetBold, b, NoColour, OwnColour
  <2>4. Shows(n, on, asks, colour)
    BY <1>3, <1>8, <2>1 DEF Shows, OwnColour, NoColour, Bright, Normal
  <2> QED
    BY <1>2, <1>4, <2>2, <2>3, <2>4, RequestKept DEF asks
<1> QED
  BY <1>2, <1>6, <1>7, <1>8 DEF Choice, NoColour, OwnColour

\* Reverse video swaps the two sides in what is drawn and in what is asked for.
LEMMA SetReverseKeeps ==
    ASSUME NEW a, NEW w, SgrInv(a, w), NEW on \in BOOLEAN
    PROVE  SgrInv(SetReverse(a, on), w)
<1>1. a \in Attrs /\ a.reverse \in BOOLEAN
  BY DEF SgrInv, Attrs
<1>2. CASE a.reverse = on
  BY <1>2 DEF SetReverse
<1>3. CASE a.reverse # on
  <2>1. PICK r : r = SetReverse(a, on)
    OBVIOUS
  <2>2. r = [[a EXCEPT !.reverse = on] EXCEPT !.textFg = a.textBg, !.textBg = a.textFg]
    BY <1>1, <1>3, <2>1 DEF SetReverse, swap_palette, Attrs
  <2>3. /\ r \in Attrs /\ r.primary = a.primary /\ r.bg = a.bg /\ r.bold = a.bold
        /\ r.bgBold = a.bgBold /\ r.saved = a.saved /\ r.reverse = on
        /\ r.textFg = a.textBg /\ r.textBg = a.textFg
    BY <1>1, <2>2 DEF Attrs
  <2>4. Got(r, TRUE) = Got(a, TRUE) /\ Got(r, FALSE) = Got(a, FALSE)
    <3>1. CASE on = TRUE
      BY <1>1, <1>3, <2>3, <3>1 DEF Got
    <3>2. CASE on = FALSE
      BY <1>1, <1>3, <2>3, <3>2 DEF Got
    <3> QED
      BY <3>1, <3>2
  <2>5. Drawn(r, w.fg, w.bg)
    BY <2>3, <2>4 DEF Drawn, SgrInv
  <2> QED
    BY <2>1, <2>3, <2>5 DEF SgrInv
<1> QED
  BY <1>2, <1>3

\* One of the eight colours for the letters.
LEMMA SetColourFg ==
    ASSUME NEW a, NEW w, SgrInv(a, w), NEW n \in 0 .. 7
    PROVE  /\ SgrInv(SetColour(a, TRUE, n), [w EXCEPT !.fg = Normal(n)])
           /\ SgrInv(SetBright(a, TRUE, n), [w EXCEPT !.fg = Normal(n)])
<1>1. a \in Attrs /\ n \in Choice /\ a.bold \in BOOLEAN /\ a.reverse \in BOOLEAN
  BY DEF SgrInv, Attrs, Choice
<1>2. Normal(n) \in Colours /\ Bright(n) \in Colours
  BY ColoursAre
<1>3. Shows(n, a.bold, Normal(n), Bright(n)) /\ (~a.bold => Shows(n, a.bold, Normal(n), Normal(n)))
  BY DEF Shows, Bright, Normal, NoColour, OwnColour
<1>4. \A colour \in Colours : Shows(n, a.bold, Normal(n), colour) =>
        SgrInv(Render([a EXCEPT !.primary = n], TRUE, colour), [w EXCEPT !.fg = Normal(n)])
  <2> TAKE colour \in Colours
  <2> HAVE Shows(n, a.bold, Normal(n), colour)
  <2>1. Recoloured(a, Render([a EXCEPT !.primary = n], TRUE, colour), TRUE, n, a.bold, colour)
    BY <1>1, ChosenFg
  <2> QED
    BY <1>2, <2>1, RecolouredFg
<1>5. SetBright(a, TRUE, n) = Render([a EXCEPT !.primary = n], TRUE, Bright(n))
  BY DEF SetBright
<1>6. \/ SetColour(a, TRUE, n) = Render([a EXCEPT !.primary = n], TRUE, Bright(n))
      \/ ~a.bold /\ SetColour(a, TRUE, n) = Render([a EXCEPT !.primary = n], TRUE, Normal(n))
  <2>1. CASE a.reverse = TRUE
    BY <1>1, <2>1 DEF SetColour
  <2>2. CASE a.reverse = FALSE
    BY <1>1, <2>2 DEF SetColour
  <2> QED
    BY <1>1, <2>1, <2>2
<1> QED
  BY <1>2, <1>3, <1>4, <1>5, <1>6

\* One of the eight colours for the background.
LEMMA SetColourBg ==
    ASSUME NEW a, NEW w, SgrInv(a, w), NEW n \in 0 .. 7
    PROVE  /\ SgrInv(SetColour(a, FALSE, n), [w EXCEPT !.bg = Normal(n)])
           /\ SgrInv(SetBright(a, FALSE, n), [w EXCEPT !.bg = Normal(n)])
<1>1. a \in Attrs /\ n \in Choice /\ a.bgBold \in BOOLEAN /\ a.reverse \in BOOLEAN
  BY DEF SgrInv, Attrs, Choice
<1>2. Normal(n) \in Colours /\ Bright(n) \in Colours
  BY ColoursAre
<1>3. Shows(n, a.bgBold, Normal(n), Bright(n)) /\ (~a.bgBold => Shows(n, a.bgBold, Normal(n), Normal(n)))
  BY DEF Shows, Bright, Normal, NoColour, OwnColour
<1>4. \A colour \in Colours : Shows(n, a.bgBold, Normal(n), colour) =>
        SgrInv(Render([a EXCEPT !.bg = n], FALSE, colour), [w EXCEPT !.bg = Normal(n)])
  <2> TAKE colour \in Colours
  <2> HAVE Shows(n, a.bgBold, Normal(n), colour)
  <2>1. Recoloured(a, Render([a EXCEPT !.bg = n], FALSE, colour), FALSE, n, a.bgBold, colour)
    BY <1>1, ChosenBg
  <2> QED
    BY <1>2, <2>1, RecolouredBg
<1>5. SetBright(a, FALSE, n) = Render([a EXCEPT !.bg = n], FALSE, Bright(n))
  BY DEF SetBright
<1>6. \/ SetColour(a, FALSE, n) = Render([a EXCEPT !.bg = n], FALSE, Bright(n))
      \/ ~a.bgBold /\ SetColour(a, FALSE, n) = Render([a EXCEPT !.bg = n], FALSE, Normal(n))
  <2>1. CASE a.reverse = TRUE
    BY <1>1, <2>1 DEF SetColour
  <2>2. CASE a.reverse = FALSE
    BY <1>1, <2>2 DEF SetColour
  <2> QED
    BY <1>1, <2>1, <2>2
<1> QED
  BY <1>2, <1>3, <1>4, <1>5, <1>6

\* The default colour for the letters.
LEMMA SetDefaultFg ==
    ASSUME NEW a, NEW w, SgrInv(a, w)
    PROVE  SgrInv(SetDefault(a, TRUE), [w EXCEPT !.fg = DefaultFg])
<1>1. a \in Attrs /\ NoColour \in Choice /\ DefaultFg \in Colours
  BY ColoursAre DEF SgrInv, Choice, NoColour
<1>2. PICK colour \in Colours : SetDefault(a, TRUE) = Render([a EXCEPT !.primary = NoColour], TRUE, colour)
  BY ColoursAre DEF SetDefault
<1>3. Recoloured(a, Render([a EXCEPT !.primary = NoColour], TRUE, colour), TRUE, NoColour, a.bold, colour)
  BY <1>1, ChosenFg
<1>4. Shows(NoColour, a.bold, DefaultFg, colour)
  BY DEF Shows, NoColour, OwnColour
<1> QED
  BY <1>1, <1>2, <1>3, <1>4, RecolouredFg

\* The default colour for the background.
LEMMA SetDefaultBg ==
    ASSUME NEW a, NEW w, SgrInv(a, w)
    PROVE  SgrInv(SetDefault(a, FALSE), [w EXCEPT !.bg = Transparent])
<1>1. a \in Attrs /\ NoColour \in Choice /\ Transparent \in Colours
  BY ColoursAre DEF SgrInv, Choice, NoColour
<1>2. PICK colour \in Colours : SetDefault(a, FALSE) = Render([a EXCEPT !.bg = NoColour], FALSE, colour)
  BY ColoursAre DEF SetDefault
<1>3. Recoloured(a, Render([a EXCEPT !.bg = NoColour], FALSE, colour), FALSE, NoColour, a.bgBold, colour)
  BY <1>1, ChosenBg
<1>4. Shows(NoColour, a.bgBold, Transparent, colour)
  BY DEF Shows, NoColour, OwnColour
<1> QED
  BY <1>1, <1>2, <1>3, <1>4, RecolouredBg

\* A colour of the program's own for the letters.
LEMMA SetOwnFg ==
    ASSUME NEW a, NEW w, SgrInv(a, w), NEW colour \in Colours
    PROVE  SgrInv(SetOwn(a, TRUE, colour), [w EXCEPT !.fg = colour])
<1>1. a \in Attrs /\ OwnColour \in Choice
  BY DEF SgrInv, Choice, OwnColour
<1>2. Recoloured(a, SetOwn(a, TRUE, colour), TRUE, OwnColour, a.bold, colour)
  BY <1>1, ChosenFg DEF SetOwn
<1>3. Shows(OwnColour, a.bold, colour, colour)
  BY DEF Shows, NoColour, OwnColour
<1> QED
  BY <1>2, <1>3, RecolouredFg

\* A colour of the program's own for the background.
LEMMA SetOwnBg ==
    ASSUME NEW a, NEW w, SgrInv(a, w), NEW colour \in Colours
    PROVE  SgrInv(SetOwn(a, FALSE, colour), [w EXCEPT !.bg = colour])
<1>1. a \in Attrs /\ OwnColour \in Choice
  BY DEF SgrInv, Choice, OwnColour
<1>2. Recoloured(a, SetOwn(a, FALSE, colour), FALSE, OwnColour, a.bgBold, colour)
  BY <1>1, ChosenBg DEF SetOwn
<1>3. Shows(OwnColour, a.bgBold, colour, colour)
  BY DEF Shows, NoColour, OwnColour
<1> QED
  BY <1>2, <1>3, RecolouredBg

\* One parameter of a list.
LEMMA ChangedKeeps ==
    ASSUME NEW a, NEW w, SgrInv(a, w), NEW v \in Nat
    PROVE  SgrInv(Changed(a, v), Asks(w, v))
<1>1. CASE v = 0
  <2>1. PICK r : r = WithSaved(PlainText, a.saved)
    OBVIOUS
  <2>2. PICK u : u = [w EXCEPT !.fg = DefaultFg, !.bg = Transparent]
    OBVIOUS
  <2>3. Changed(a, v) = r /\ Asks(w, v) = u
    BY <1>1, <2>1, <2>2 DEF Changed, Asks, ResetAttributes
  <2>4. /\ r \in Attrs /\ r.saved = a.saved /\ r.primary = NoColour /\ r.bg = NoColour
    BY <2>1, ColoursAre DEF SgrInv, WithSaved, PlainText, Attrs, Choice, NoColour
  <2>5. u \in Requests /\ u.fg = DefaultFg /\ u.bg = Transparent /\ u.saved = w.saved
    BY <2>2, ColoursAre DEF SgrInv, Requests
  <2>6. Drawn(r, u.fg, u.bg)
    BY <2>4, <2>5 DEF Drawn, Shows, NoColour, OwnColour
  <2> QED
    BY <2>3, <2>4, <2>5, <2>6 DEF SgrInv
<1>2. CASE v \in {1, 22}
  <2>1. v # 0 /\ v \notin {5, 25} /\ v \notin {7, 27} /\ v \notin 30 .. 37
    BY <1>2
  <2>2. v \notin 40 .. 47 /\ v \notin 90 .. 97 /\ v \notin 100 .. 107 /\ v \notin {39, 49}
    BY <1>2
  <2>3. Changed(a, v) = SetBold(a, TRUE, v = 1)
    BY <1>2, <2>1, <2>2, Zenon DEF Changed
  <2>4. Asks(w, v) = w
    BY <1>2 DEF Asks
  <2> QED
    BY <2>3, <2>4, SetBoldKeeps
<1>3. CASE v \in {5, 25}
  <2>1. v # 0 /\ v \notin {1, 22} /\ v \notin {7, 27} /\ v \notin 30 .. 37
    BY <1>3
  <2>2. v \notin 40 .. 47 /\ v \notin 90 .. 97 /\ v \notin 100 .. 107 /\ v \notin {39, 49}
    BY <1>3
  <2>3. Changed(a, v) = SetBold(a, FALSE, v = 5)
    BY <1>3, <2>1, <2>2, Zenon DEF Changed
  <2>4. Asks(w, v) = w
    BY <1>3 DEF Asks
  <2> QED
    BY <2>3, <2>4, SetBoldKeeps
<1>4. CASE v \in {7, 27}
  <2>1. v # 0 /\ v \notin {1, 22} /\ v \notin {5, 25} /\ v \notin 30 .. 37
    BY <1>4
  <2>2. v \notin 40 .. 47 /\ v \notin 90 .. 97 /\ v \notin 100 .. 107 /\ v \notin {39, 49}
    BY <1>4
  <2>3. Changed(a, v) = SetReverse(a, v = 7)
    BY <1>4, <2>1, <2>2, Zenon DEF Changed
  <2>4. Asks(w, v) = w
    BY <1>4 DEF Asks
  <2> QED
    BY <2>3, <2>4, SetReverseKeeps
<1>5. CASE v \in 30 .. 37
  <2>1. v # 0 /\ v \notin {1, 22} /\ v \notin {5, 25} /\ v \notin {7, 27}
    BY <1>5
  <2>2. v \notin 40 .. 47 /\ v \notin 90 .. 97 /\ v \notin 100 .. 107 /\ v \notin {39, 49}
    BY <1>5
  <2>3. Changed(a, v) = SetColour(a, TRUE, v - 30)
    BY <1>5, <2>1, <2>2, Zenon DEF Changed
  <2>4. Asks(w, v) = [w EXCEPT !.fg = Normal(v - 30)]
    BY <1>5 DEF Asks
  <2>5. v - 30 \in 0 .. 7
    BY <1>5
  <2>6. SgrInv(SetColour(a, TRUE, v - 30), [w EXCEPT !.fg = Normal(v - 30)])
    BY <2>5, SetColourFg, Zenon
  <2> QED
    BY <2>3, <2>4, <2>6, Zenon
<1>6. CASE v \in 40 .. 47
  <2>1. v # 0 /\ v \notin {1, 22} /\ v \notin {5, 25} /\ v \notin {7, 27}
    BY <1>6
  <2>2. v \notin 30 .. 37 /\ v \notin 90 .. 97 /\ v \notin 100 .. 107 /\ v \notin {39, 49}
    BY <1>6
  <2>3. Changed(a, v) = SetColour(a, FALSE, v - 40)
    BY <1>6, <2>1, <2>2, Zenon DEF Changed
  <2>4. Asks(w, v) = [w EXCEPT !.bg = Normal(v - 40)]
    BY <1>6 DEF Asks
  <2>5. v - 40 \in 0 .. 7
    BY <1>6
  <2>6. SgrInv(SetColour(a, FALSE, v - 40), [w EXCEPT !.bg = Normal(v - 40)])
    BY <2>5, SetColourBg, Zenon
  <2> QED
    BY <2>3, <2>4, <2>6, Zenon
<1>7. CASE v \in 90 .. 97
  <2>1. v # 0 /\ v \notin {1, 22} /\ v \notin {5, 25} /\ v \notin {7, 27}
    BY <1>7
  <2>2. v \notin 30 .. 37 /\ v \notin 40 .. 47 /\ v \notin 100 .. 107 /\ v \notin {39, 49}
    BY <1>7
  <2>3. Changed(a, v) = SetBright(a, TRUE, v - 90)
    BY <1>7, <2>1, <2>2, Zenon DEF Changed
  <2>4. Asks(w, v) = [w EXCEPT !.fg = Normal(v - 90)]
    BY <1>7 DEF Asks
  <2>5. v - 90 \in 0 .. 7
    BY <1>7
  <2>6. SgrInv(SetBright(a, TRUE, v - 90), [w EXCEPT !.fg = Normal(v - 90)])
    BY <2>5, SetColourFg, Zenon
  <2> QED
    BY <2>3, <2>4, <2>6, Zenon
<1>8. CASE v \in 100 .. 107
  <2>1. v # 0 /\ v \notin {1, 22} /\ v \notin {5, 25} /\ v \notin {7, 27}
    BY <1>8
  <2>2. v \notin 30 .. 37 /\ v \notin 40 .. 47 /\ v \notin 90 .. 97 /\ v \notin {39, 49}
    BY <1>8
  <2>3. Changed(a, v) = SetBright(a, FALSE, v - 100)
    BY <1>8, <2>1, <2>2, Zenon DEF Changed
  <2>4. Asks(w, v) = [w EXCEPT !.bg = Normal(v - 100)]
    BY <1>8 DEF Asks
  <2>5. v - 100 \in 0 .. 7
    BY <1>8
  <2>6. SgrInv(SetBright(a, FALSE, v - 100), [w EXCEPT !.bg = Normal(v - 100)])
    BY <2>5, SetColourBg, Zenon
  <2> QED
    BY <2>3, <2>4, <2>6, Zenon
<1>9. CASE v = 39
  <2>0. Changed(a, v) = SetDefault(a, v = 39) /\ (v = 39) = TRUE
    BY <1>9 DEF Changed
  <2>1. Changed(a, v) = SetDefault(a, TRUE)
    BY <2>0, Zenon
  <2>2. Asks(w, v) = [w EXCEPT !.fg = DefaultFg]
    BY <1>9 DEF Asks
  <2>3. SgrInv(SetDefault(a, TRUE), [w EXCEPT !.fg = DefaultFg])
    BY SetDefaultFg, Zenon
  <2> QED
    BY <2>1, <2>2, <2>3, Zenon
<1>10. CASE v = 49
  <2>0. Changed(a, v) = SetDefault(a, v = 39) /\ (v = 39) = FALSE
    BY <1>10 DEF Changed
  <2>1. Changed(a, v) = SetDefault(a, FALSE)
    BY <2>0, Zenon
  <2>2. Asks(w, v) = [w EXCEPT !.bg = Transparent]
    BY <1>10 DEF Asks
  <2>3. SgrInv(SetDefault(a, FALSE), [w EXCEPT !.bg = Transparent])
    BY SetDefaultBg, Zenon
  <2> QED
    BY <2>1, <2>2, <2>3, Zenon
<1>11. CASE ~(\/ v \in {0, 1, 5, 7, 22, 25, 27, 39, 49} \/ v \in 30 .. 37 \/ v \in 40 .. 47
              \/ v \in 90 .. 97 \/ v \in 100 .. 107)
  <2>1. Changed(a, v) = a
    BY <1>11 DEF Changed
  <2>2. Asks(w, v) = w
    BY <1>11 DEF Asks
  <2> QED
    BY <2>1, <2>2
<1> QED
  BY <1>1, <1>2, <1>3, <1>4, <1>5, <1>6, <1>7, <1>8, <1>9, <1>10, <1>11

\* The states that the loop of sgr() goes through.
SgrStates == {s \in [a : Attrs, w : Requests, i : Nat] : SgrInv(s.a, s.w)}

\* A state of the loop is its attributes, its requests and its place.
LEMMA SgrStateIs ==
    ASSUME NEW a, NEW w, SgrInv(a, w), NEW i \in Nat
    PROVE  [a |-> a, w |-> w, i |-> i] \in SgrStates
<1>1. a \in Attrs /\ w \in Requests
  BY DEF SgrInv
<1> QED
  BY <1>1 DEF SgrStates

\* A turn of the loop keeps the invariant.
LEMMA TurnKeeps ==
    ASSUME NEW s \in SgrStates, NEW vs \in Seq(Nat), s.i > 0
    PROVE  SgrTurn(s, vs) \in SgrStates /\ SgrTurn(s, vs).i > 0
<1>1. /\ s = [a |-> s.a, w |-> s.w, i |-> s.i] /\ s.i \in Nat /\ SgrInv(s.a, s.w)
  BY DEF SgrStates
<1>2. Len(vs) \in Nat /\ \A k \in 1 .. Len(vs) : vs[k] \in Nat
  BY LenProperties, ElementOfSeq
<1>3. \A j \in Nat : j > 0 => [s EXCEPT !.i = j] \in SgrStates /\ [s EXCEPT !.i = j].i > 0
  <2> TAKE j \in Nat
  <2>1. [s EXCEPT !.i = j] = [a |-> s.a, w |-> s.w, i |-> j]
    BY <1>1
  <2> QED
    BY <1>1, <2>1, SgrStateIs
<1> DEFINE fg == vs[s.i] = 38
           Own(c, k) == [a |-> SetOwn(s.a, fg, c), i |-> s.i + k,
                         w |-> IF fg THEN [s.w EXCEPT !.fg = c] ELSE [s.w EXCEPT !.bg = c]]
<1>4. ASSUME NEW c \in Colours, NEW k \in Nat
      PROVE  Own(c, k) \in SgrStates /\ Own(c, k).i > 0
  <2>1. PICK j : j = s.i + k
    OBVIOUS
  <2>2. j \in Nat /\ j > 0
    BY <1>1, <2>1
  <2>3. CASE fg
    <3>0. fg = TRUE
      BY <2>3
    <3>1. SgrInv(SetOwn(s.a, fg, c), [s.w EXCEPT !.fg = c])
      BY <1>1, <3>0, SetOwnFg
    <3>2. Own(c, k) = [a |-> SetOwn(s.a, fg, c), w |-> [s.w EXCEPT !.fg = c], i |-> j]
      BY <2>1, <2>3
    <3> QED
      BY <2>2, <3>1, <3>2, SgrStateIs
  <2>4. CASE ~fg
    <3>0. fg = FALSE
      BY <2>4
    <3>1. SgrInv(SetOwn(s.a, fg, c), [s.w EXCEPT !.bg = c])
      BY <1>1, <3>0, SetOwnBg
    <3>2. Own(c, k) = [a |-> SetOwn(s.a, fg, c), w |-> [s.w EXCEPT !.bg = c], i |-> j]
      BY <2>1, <2>4
    <3> QED
      BY <2>2, <3>1, <3>2, SgrStateIs
  <2> QED
    BY <2>3, <2>4
<1> DEFINE Has(k) == s.i + k <= Len(vs)
<1>5. CASE ~Has(0)
  <2>1. SgrTurn(s, vs) = s
    BY <1>5, Zenon DEF SgrTurn
  <2> QED
    BY <2>1
<1>6. CASE Has(0) /\ vs[s.i] \notin {38, 48}
  <2>1. SgrTurn(s, vs) = [a |-> Changed(s.a, vs[s.i]), w |-> Asks(s.w, vs[s.i]), i |-> s.i + 1]
    BY <1>6, Zenon DEF SgrTurn
  <2>2. vs[s.i] \in Nat /\ s.i + 1 \in Nat /\ s.i + 1 > 0
    BY <1>1, <1>2, <1>6
  <2>3. SgrInv(Changed(s.a, vs[s.i]), Asks(s.w, vs[s.i]))
    BY <1>1, <2>2, ChangedKeeps
  <2> QED
    BY <2>1, <2>2, <2>3, SgrStateIs
<1>7. CASE Has(0) /\ vs[s.i] \in {38, 48}
  <2>1. CASE Has(4) /\ vs[s.i + 1] = 2
    <3>1. ~(vs[s.i + 1] = 5) /\ ~(vs[s.i + 1] \notin {2, 5})
      BY <2>1
    <3>2. vs[s.i + 2] \in Nat /\ vs[s.i + 3] \in Nat /\ vs[s.i + 4] \in Nat
      <4>1. s.i \in Nat /\ Len(vs) \in Nat /\ s.i + 4 <= Len(vs)
        BY <1>1, <1>2, <2>1
      <4>2. s.i + 2 \in 1 .. Len(vs)
        BY <4>1
      <4>3. s.i + 3 \in 1 .. Len(vs)
        BY <4>1, SMTT(30)
      <4>4. s.i + 4 \in 1 .. Len(vs)
        BY <4>1
      <4> QED
        BY <1>2, <4>2, <4>3, <4>4
    <3>3. PICK three : three = <<vs[s.i + 2], vs[s.i + 3], vs[s.i + 4]>>
      OBVIOUS
    <3>4. three \in Seq(Nat)
      BY <3>2, <3>3
    <3>5. Rgb(three) \in Colours
      BY <3>4, ColoursAre
    <3>6. SgrTurn(s, vs) = Own(Rgb(three), 5)
      BY <1>7, <2>1, <3>1, <3>3, Zenon DEF SgrTurn
    <3> QED
      BY <1>4, <3>5, <3>6
  <2>2. CASE Has(2) /\ vs[s.i + 1] = 5
    <3>1. /\ s.i + 2 \in 1 .. Len(vs) /\ vs[s.i + 2] \in Nat /\ vs[s.i + 1] # 2
          /\ ~(vs[s.i + 1] \notin {2, 5})
      BY <1>1, <1>2, <2>2
    <3>2. CASE vs[s.i + 2] >= 256
      <4>1. SgrTurn(s, vs) = [s EXCEPT !.i = s.i + 3]
        BY <1>7, <2>2, <3>1, <3>2, Zenon DEF SgrTurn
      <4>2. s.i + 3 \in Nat /\ s.i + 3 > 0
        BY <1>1
      <4> QED
        BY <1>3, <4>1, <4>2
    <3>3. CASE ~(vs[s.i + 2] >= 256)
      <4>1. Colour256(vs[s.i + 2]) \in Colours
        BY <3>1, ColoursAre DEF Colour256
      <4>2. SgrTurn(s, vs) = Own(Colour256(vs[s.i + 2]), 3)
        BY <1>7, <2>2, <3>1, <3>3, Zenon DEF SgrTurn
      <4> QED
        BY <1>4, <4>1, <4>2
    <3> QED
      BY <3>2, <3>3
  <2>3. CASE Has(1) /\ vs[s.i + 1] \notin {2, 5}
    <3>1. vs[s.i + 1] # 2 /\ vs[s.i + 1] # 5
      BY <2>3
    <3>2. SgrTurn(s, vs) = [s EXCEPT !.i = s.i + 2]
      BY <1>7, <2>3, <3>1, Zenon DEF SgrTurn
    <3>3. s.i + 2 \in Nat /\ s.i + 2 > 0
      BY <1>1
    <3> QED
      BY <1>3, <3>2, <3>3
  <2>4. CASE /\ ~(Has(4) /\ vs[s.i + 1] = 2) /\ ~(Has(2) /\ vs[s.i + 1] = 5)
             /\ ~(Has(1) /\ vs[s.i + 1] \notin {2, 5})
    <3>1. SgrTurn(s, vs) = [s EXCEPT !.i = Len(vs) + 1]
      BY <1>7, <2>4, Zenon DEF SgrTurn
    <3>2. Len(vs) + 1 \in Nat /\ Len(vs) + 1 > 0
      BY <1>2
    <3> QED
      BY <1>3, <3>1, <3>2
  <2> HIDE DEF Has
  <2> QED
    BY <2>1, <2>2, <2>3, <2>4
<1> HIDE DEF Has
<1> QED
  BY <1>5, <1>6, <1>7

\* The loop over the parameters.
LEMMA TurnsKeep ==
    ASSUME NEW a, NEW w, SgrInv(a, w), NEW vs \in Seq(Nat)
    PROVE  LET done == SgrTurns([a |-> a, w |-> w, i |-> 1], vs) IN SgrInv(done.a, done.w)
<1> DEFINE T == {s \in SgrStates : s.i > 0}
           n == Len(vs)
           Rec(f, s) == f = [k \in 0 .. n |-> IF k = 0 THEN s ELSE SgrTurn(f[k - 1], vs)]
           G == [k \in 1 .. n |-> [s \in T |-> SgrTurn(s, vs)]]
<1>1. PICK s : s = [a |-> a, w |-> w, i |-> 1]
  OBVIOUS
<1>2. s \in T
  BY <1>1, SgrStateIs
<1>3. n \in Nat
  BY LenProperties
<1>4. SgrTurns(s, vs) = (CHOOSE f : Rec(f, s))[n]
  BY DEF SgrTurns
<1>5. \A u \in T : SgrTurn(u, vs) \in T
  BY TurnKeeps
<1>6. \A u \in T : SgrInv(u.a, u.w)
  BY DEF SgrStates
<1> HIDE DEF n, T
<1>7. G \in [1 .. n -> [T -> T]]
  BY <1>5
<1> HIDE DEF G
<1>8. PICK f \in [0 .. n -> T] : f[0] = s /\ \A k \in 1 .. n : f[k] = G[k][f[k - 1]]
  <2>1. \E f : Repeats(f, n, T, G, s)
    BY <1>2, <1>3, <1>7, Iteration
  <2> QED
    BY <2>1 DEF Repeats
<1>9. Rec(f, s)
  <2>1. \A k \in 1 .. n : k - 1 \in 0 .. n
    BY <1>3
  <2>2. \A k \in 0 .. n : f[k] = IF k = 0 THEN s ELSE SgrTurn(f[k - 1], vs)
    <3>1. \A k \in 1 .. n : f[k - 1] \in T
      BY <1>8, <2>1
    <3>2. \A k \in 1 .. n, u \in T : G[k][u] = SgrTurn(u, vs)
      BY DEF G
    <3> QED
      BY <1>3, <1>8, <3>1, <3>2, SMTT(30)
  <2> QED
    BY <1>8, <2>2
<1>10. PICK x : x = (CHOOSE g : Rec(g, s)) /\ Rec(x, s)
  BY <1>9
<1>11. x[0] \in T /\ \A k \in 1 .. n : x[k - 1] \in T => x[k] \in T
  <2>0. \A k \in 0 .. n : x[k] = IF k = 0 THEN s ELSE SgrTurn(x[k - 1], vs)
    BY <1>10
  <2>1. x[0] = s
    BY <1>3, <2>0
  <2>2. ASSUME NEW k \in 1 .. n PROVE x[k] = SgrTurn(x[k - 1], vs)
    <3>1. k \in 0 .. n /\ k # 0
      BY <1>3
    <3> QED
      BY <1>10, <3>1
  <2> QED
    BY <1>2, <1>5, <2>1, <2>2
<1>12. \A k \in 0 .. n : x[k] \in T
  BY <1>3, <1>11, StaysIn, Zenon
<1>13. n \in 0 .. n
  BY <1>3
<1>14. SgrTurns(s, vs) \in T
  BY <1>4, <1>10, <1>12, <1>13
<1> QED
  BY <1>1, <1>6, <1>14

\* ESC 7, ESC 8 and ESC c.
LEMMA SaveKeeps ==
    ASSUME SgrInv(attr, asked), SaveAttributes
    PROVE  SgrInv(attr, asked)'
<1>1. attr \in Attrs /\ asked \in Requests /\ Drawn(attr, asked.fg, asked.bg)
  BY DEF SgrInv
<1>2. Kept(attr) \in TextAttrs
  BY <1>1 DEF Kept, Attrs, TextAttrs
<1>3. Drawn(Kept(attr), asked.fg, asked.bg)
  BY <1>1 DEF Drawn, Kept, Got
<1>4. /\ attr' \in Attrs /\ attr'.saved = Kept(attr) /\ attr'.primary = attr.primary
      /\ attr'.bg = attr.bg /\ attr'.bold = attr.bold /\ attr'.bgBold = attr.bgBold
      /\ attr'.reverse = attr.reverse /\ attr'.textFg = attr.textFg /\ attr'.textBg = attr.textBg
  BY <1>1, <1>2 DEF SaveAttributes, Attrs
<1>5. /\ asked' \in Requests /\ asked'.fg = asked.fg /\ asked'.bg = asked.bg
      /\ asked'.saved[1] = asked.fg /\ asked'.saved[2] = asked.bg
  BY <1>1 DEF SaveAttributes, Requests
<1>6. Drawn(attr', asked'.fg, asked'.bg)
  BY <1>1, <1>4, <1>5 DEF Drawn, Got
<1> QED
  BY <1>3, <1>4, <1>5, <1>6 DEF SgrInv

\* ESC 8 brings back the saved attributes and what was asked for them.
LEMMA RestoreKeeps ==
    ASSUME SgrInv(attr, asked), RestoreAttributes
    PROVE  SgrInv(attr, asked)'
<1>1. /\ attr \in Attrs /\ asked \in Requests
      /\ Drawn(attr.saved, asked.saved[1], asked.saved[2])
  BY DEF SgrInv
<1>2. PICK s \in TextAttrs : s = attr.saved
  BY <1>1 DEF Attrs
<1>3. attr' = WithSaved(s, s)
  BY <1>2 DEF RestoreAttributes
<1>4. /\ attr' \in Attrs /\ attr'.saved = s /\ attr'.primary = s.primary
      /\ attr'.bg = s.bg /\ attr'.bold = s.bold /\ attr'.bgBold = s.bgBold
      /\ attr'.reverse = s.reverse /\ attr'.textFg = s.textFg /\ attr'.textBg = s.textBg
  BY <1>3 DEF WithSaved, Attrs, TextAttrs
<1>5. PICK f, g : f = asked.saved[1] /\ g = asked.saved[2]
  OBVIOUS
<1>6. f \in Colours /\ g \in Colours
  BY <1>1, <1>5 DEF Requests
<1>7. asked' = [asked EXCEPT !.fg = f, !.bg = g]
  BY <1>5 DEF RestoreAttributes
<1>8. asked' \in Requests /\ asked'.fg = f /\ asked'.bg = g /\ asked'.saved = asked.saved
  BY <1>1, <1>6, <1>7 DEF Requests
<1>9. Drawn(s, f, g)
  BY <1>1, <1>2, <1>5
<1>10. Drawn(attr', f, g)
  BY <1>4, <1>9 DEF Drawn, Got
<1> QED
  BY <1>4, <1>5, <1>8, <1>9, <1>10 DEF SgrInv

\* The attributes of the start are drawn as asked for.
LEMMA PlainIsDrawn ==
    SgrInv(WithSaved(PlainText, PlainText),
           [fg |-> DefaultFg, bg |-> Transparent, saved |-> <<DefaultFg, Transparent>>])
<1>1. PICK p : p = PlainText
  OBVIOUS
<1>2. p \in TextAttrs /\ p.primary = NoColour /\ p.bg = NoColour
  BY <1>1, ColoursAre DEF PlainText, TextAttrs, Choice, NoColour
<1>3. PICK r : r = WithSaved(p, p)
  OBVIOUS
<1>4. r \in Attrs /\ r.saved = p /\ r.primary = NoColour /\ r.bg = NoColour
  BY <1>2, <1>3 DEF WithSaved, TextAttrs, Attrs
<1>5. PICK u : u = [fg |-> DefaultFg, bg |-> Transparent, saved |-> <<DefaultFg, Transparent>>]
  OBVIOUS
<1>6. /\ u \in Requests /\ u.fg = DefaultFg /\ u.bg = Transparent
      /\ u.saved[1] = DefaultFg /\ u.saved[2] = Transparent
  BY <1>5, ColoursAre DEF Requests
<1>7. Drawn(p, DefaultFg, Transparent) /\ Drawn(r, DefaultFg, Transparent)
  BY <1>2, <1>4 DEF Drawn, Shows, NoColour, OwnColour
<1>8. SgrInv(r, u)
  BY <1>4, <1>6, <1>7 DEF SgrInv
<1> QED
  BY <1>1, <1>3, <1>5, <1>8

\* Every call keeps the invariant.
LEMMA SgrStep ==
    ASSUME SgrInv(attr, asked), [SgrNext]_sgrVars
    PROVE  SgrInv(attr, asked)'
<1>1. ASSUME NEW values \in SgrValues, sgr(values) PROVE SgrInv(attr, asked)'
  <2>1. PICK vs : vs = IF values = <<>> THEN <<0>> ELSE values
    OBVIOUS
  <2>2. vs \in Seq(Nat)
    BY <2>1, SgrAssumption
  <2>3. PICK done : done = SgrTurns([a |-> attr, w |-> asked, i |-> 1], vs)
    OBVIOUS
  <2>4. SgrInv(done.a, done.w)
    BY <2>2, <2>3, TurnsKeep
  <2>5. attr' = done.a /\ asked' = done.w
    BY <1>1, <2>1, <2>3 DEF sgr
  <2> QED
    BY <2>4, <2>5
<1>2. CASE ResetTerminal
  BY <1>2, PlainIsDrawn DEF ResetTerminal
<1>3. CASE UNCHANGED sgrVars
  BY <1>3 DEF sgrVars
<1> QED
  BY <1>1, <1>2, <1>3, SaveKeeps, RestoreKeeps DEF SgrNext

\* The invariant says that colours are kept.
LEMMA InvIsKept ==
    ASSUME SgrInv(attr, asked)
    PROVE  ColourIsKept /\ SgrTypeOK
<1>1. attr \in Attrs /\ Drawn(attr, asked.fg, asked.bg)
  BY DEF SgrInv
<1>2. SgrTypeOK
  BY <1>1 DEF SgrTypeOK, Attrs, Choice
<1> DEFINE shows(n, bold, asks, got) ==
             CASE n = NoColour  -> asks \in {DefaultFg, Transparent}
               [] n = OwnColour -> got = asks
               [] OTHER         -> asks = Normal(n) /\ got[2] = n
                                   /\ got[1] \in (IF bold THEN {"bright"} ELSE {"normal", "bright"})
<1>3. ASSUME NEW n \in Choice, NEW bold \in BOOLEAN, NEW asks, NEW got, Shows(n, bold, asks, got)
      PROVE  shows(n, bold, asks, got)
  <2>1. CASE n = -1
    BY <1>3, <2>1 DEF Shows, NoColour, OwnColour
  <2>2. CASE n = -2
    BY <1>3, <2>2 DEF Shows, NoColour, OwnColour
  <2>3. CASE n \in 0 .. 7
    BY <1>3, <2>3 DEF Shows, NoColour, OwnColour
  <2> QED
    BY <2>1, <2>2, <2>3 DEF Choice
<1> DEFINE fg == IF attr.reverse THEN attr.textBg ELSE attr.textFg
           bg == IF attr.reverse THEN attr.textFg ELSE attr.textBg
<1>4. Got(attr, TRUE) = fg /\ Got(attr, FALSE) = bg
  BY DEF Got
<1>5. attr.primary \in Choice /\ attr.bg \in Choice /\ attr.bold \in BOOLEAN /\ attr.bgBold \in BOOLEAN
  BY <1>1 DEF Attrs
<1>6. Shows(attr.primary, attr.bold, asked.fg, fg) /\ Shows(attr.bg, attr.bgBold, asked.bg, bg)
  BY <1>1, <1>4 DEF Drawn
<1> HIDE DEF shows
<1>7. shows(attr.primary, attr.bold, asked.fg, fg) /\ shows(attr.bg, attr.bgBold, asked.bg, bg)
  BY <1>3, <1>5, <1>6
<1>8. ColourIsKept
  BY <1>7, Zenon DEF ColourIsKept, shows
<1> QED
  BY <1>2, <1>8


(***************************************************************************)
(* The parser and the cursor.                                              *)
(***************************************************************************)
\* The sets that the fields of a context range over; a proof expands one only where it counts.
Flags == BOOLEAN
UpTo(k) == 0 .. k
Margins == {m \in [top : Nat, bottom : Nat] : m.top < m.bottom - 1 /\ m.bottom <= TermRows}
Columns == 0 .. TermCols
Rows == 0 .. TermRows - 1
Points == [x : 0 .. TermCols - 1, y : Rows]
Sets == [1 .. 2 -> {"default", "special"}]
SavedTerm == [x : Columns, y : Rows, margin : Margins, origin : Flags, wrap : Flags,
              charset : UpTo(1), charsets : Sets]
Values == [1 .. EscValues -> 0 .. EscMax]

\* The contexts with scrolling in S, a number of values in N and the flag rrr in R.
Terms(S, N, R) ==
    [x : Columns, y : Rows, wrap : Flags, scroll : S, origin : Flags,
     insert : Flags, cursor : Flags, escape : Flags, csi : Flags, osc : Flags,
     oscEscape : Flags, dec : Flags, rrr : R, discard : Flags,
     unhandled : Flags, offset : UpTo(3), n : N, values : Values, oscLen : UpTo(OscBytes),
     uni : UpTo(3), lead : UpTo(3), gselect : UpTo(2), charset : UpTo(1), charsets : Sets,
     graphic : Flags, margin : Margins, mark : Points, saved : SavedTerm]

\* The smaller of two numbers.
LEMMA LeastIs ==
    ASSUME NEW a \in Int, NEW b \in Int
    PROVE  Least(a, b) \in {a, b} /\ Least(a, b) <= a /\ Least(a, b) <= b /\ Least(a, b) \in Int
BY DEF Least

\* The larger of two numbers.
LEMMA MostIs ==
    ASSUME NEW a \in Int, NEW b \in Int
    PROVE  Most(a, b) \in {a, b} /\ Most(a, b) >= a /\ Most(a, b) >= b /\ Most(a, b) \in Int
BY DEF Most

\* The values that the code assigns belong to their fields.
LEMMA LiteralsFit ==
    /\ TRUE \in Flags /\ FALSE \in Flags
    /\ 0 \in UpTo(1) /\ 1 \in UpTo(1)
    /\ 0 \in UpTo(2) /\ 1 \in UpTo(2) /\ 2 \in UpTo(2)
    /\ 0 \in UpTo(3) /\ 1 \in UpTo(3) /\ 2 \in UpTo(3) /\ 3 \in UpTo(3)
BY DEF Flags, UpTo

\* The fields of the start.
LEMMA StartIs ==
    DefaultSets \in Sets /\ TopLeft \in Points /\ AllRows \in Margins /\ NoValues \in Values
BY TermAssumption DEF DefaultSets, TopLeft, AllRows, NoValues, Sets, Points, Rows, Margins, Values

\* Where the cursor and the margins of a context are.
LEMMA Position ==
    ASSUME NEW S, NEW N, NEW R, NEW t \in Terms(S, N, R)
    PROVE  /\ X(t) \in Nat /\ X(t) <= TermCols - 1 /\ Y(t) \in Nat /\ Y(t) <= TermRows - 1
           /\ t.margin.top \in Nat /\ t.margin.bottom \in Nat
           /\ t.margin.top < t.margin.bottom - 1 /\ t.margin.bottom <= TermRows
<1>1. t.x \in Columns /\ t.y \in Rows /\ t.margin \in Margins
  BY DEF Terms
<1>2. TermCols \in Nat \ {0} /\ TermRows \in Nat /\ TermRows > 1
  BY TermAssumption
<1>3. X(t) \in Nat /\ X(t) <= TermCols - 1
  BY <1>1, <1>2 DEF X, Least, Columns
<1>4. Y(t) \in Nat /\ Y(t) <= TermRows - 1
  BY <1>1, <1>2 DEF Y, Least, Rows
<1>5. /\ t.margin.top \in Nat /\ t.margin.bottom \in Nat
      /\ t.margin.top < t.margin.bottom - 1 /\ t.margin.bottom <= TermRows
  BY <1>1 DEF Margins
<1> QED
  BY <1>3, <1>4, <1>5

\* The cursor is moved to a place on the screen.
LEMMA CursorSet ==
    ASSUME NEW S, NEW N, NEW R, NEW t \in Terms(S, N, R), NEW x \in Nat, NEW y \in Nat
    PROVE  set_cursor_pos(t, x, y) \in Terms(S, N, R)
<1>1. /\ TermCols - 1 \in Nat /\ TermRows - 1 \in Nat
  BY TermAssumption
<1>2. PICK a \in Columns, b \in Rows : a = Least(x, TermCols - 1) /\ b = Least(y, TermRows - 1)
  BY <1>1, TermAssumption DEF Columns, Rows, Least
<1>3. set_cursor_pos(t, x, y) = [t EXCEPT !.x = a, !.y = b]
  BY <1>2 DEF set_cursor_pos
<1>4. [t EXCEPT !.x = a, !.y = b] \in Terms(S, N, R)
  BY DEF Terms
<1> QED
  BY <1>3, <1>4

\* A reset leaves a context of the same kind.
LEMMA ReinitIs ==
    ASSUME NEW S, NEW N, NEW R, NEW t \in Terms(S, N, R)
    PROVE  Reinit(t) \in Terms({TRUE}, {0}, {FALSE})
BY StartIs, LiteralsFit, ZenonT(60) DEF Terms, Reinit

\* The character goes where the cursor is or wraps to.
LEMMA PutIs ==
    ASSUME NEW S, NEW N, NEW R, NEW t \in Terms(S, N, R)
    PROVE  raw_putchar(t) \in Terms(S, N, R)
<1>1. t.x \in Columns /\ t.y \in Rows /\ t.margin \in Margins
  BY DEF Terms
<1>2. TermCols \in Nat \ {0} /\ TermRows \in Nat /\ TermRows > 1
  BY TermAssumption
<1> DEFINE down == IF t.y + 1 = t.margin.bottom THEN t.y ELSE Least(t.y + 1, TermRows - 1)
           wraps == t.wrap /\ (t.y < t.margin.bottom - 1 \/ t.scroll)
           at == IF t.x < TermCols THEN t
                 ELSE IF wraps THEN [t EXCEPT !.x = 0, !.y = down]
                 ELSE [t EXCEPT !.x = TermCols - 1]
<1>3. down \in Rows
  BY <1>1, <1>2 DEF Rows, Least
<1>4. 0 \in Columns /\ 1 \in Columns /\ TermCols - 1 \in Columns /\ TermCols \in Columns
  BY <1>2 DEF Columns
<1> HIDE DEF down, wraps
<1>5. at \in Terms(S, N, R) /\ at.x + 1 \in Columns
  <2>1. CASE t.x < TermCols
    BY <1>1, <1>2, <2>1 DEF Columns
  <2>2. CASE ~(t.x < TermCols) /\ wraps
    <3>1. at = [t EXCEPT !.x = 0, !.y = down]
      BY <2>2
    <3>2. at \in Terms(S, N, R) /\ at.x = 0
      BY <1>3, <1>4, <3>1, ZenonT(60) DEF Terms
    <3> QED
      BY <1>4, <3>2
  <2>3. CASE ~(t.x < TermCols) /\ ~wraps
    <3>1. at = [t EXCEPT !.x = TermCols - 1]
      BY <2>3
    <3>2. at \in Terms(S, N, R) /\ at.x = TermCols - 1
      BY <1>4, <3>1, ZenonT(60) DEF Terms
    <3> QED
      BY <1>2, <1>4, <3>2
  <2> QED
    BY <2>1, <2>2, <2>3
<1>6. raw_putchar(t) = [at EXCEPT !.x = at.x + 1]
  BY DEF raw_putchar, down, wraps
<1> HIDE DEF at
<1> QED
  BY <1>5, <1>6 DEF Terms

\* ESC 7.
LEMMA SaveIs ==
    ASSUME NEW S, NEW N, NEW R, NEW t \in Terms(S, N, R)
    PROVE  save_state(t) \in Terms(S, N, R)
<1>1. PICK s : s = Saved(t)
  OBVIOUS
<1>2. s \in SavedTerm
  BY <1>1 DEF Saved, SavedTerm, Terms
<1>3. save_state(t) = [t EXCEPT !.saved = s]
  BY <1>1 DEF save_state
<1> QED
  BY <1>2, <1>3 DEF Terms

\* ESC 8 restores a place on the screen.
LEMMA RestoreIs ==
    ASSUME NEW S, NEW N, NEW R, NEW t \in Terms(S, N, R)
    PROVE  restore_state(t) \in Terms(S, N, R)
<1>1. t.saved \in SavedTerm
  BY DEF Terms
<1>2. PICK x \in Columns, y \in Rows, m \in Margins, o \in Flags, w \in Flags, g \in UpTo(1), cs \in Sets :
         /\ x = t.saved.x /\ y = t.saved.y /\ m = t.saved.margin /\ o = t.saved.origin
         /\ w = t.saved.wrap /\ g = t.saved.charset /\ cs = t.saved.charsets
  BY <1>1 DEF SavedTerm
<1>3. restore_state(t) = [t EXCEPT !.x = x, !.y = y, !.margin = m, !.origin = o, !.wrap = w,
                                   !.charset = g, !.charsets = cs]
  BY <1>2 DEF restore_state
<1>4. [t EXCEPT !.x = x, !.y = y, !.margin = m, !.origin = o, !.wrap = w,
                !.charset = g, !.charsets = cs] \in Terms(S, N, R)
  BY DEF Terms
<1> QED
  BY <1>3, <1>4

\* A line feed keeps the cursor on the screen.
LEMMA LineFeedIs ==
    ASSUME NEW S, NEW N, NEW R, NEW t \in Terms(S, N, R), NEW x \in Nat
    PROVE  LineFeed(t, x) \in Terms(S, N, R)
<1>1. Y(t) \in Nat /\ Y(t) + 1 \in Nat
  BY Position
<1>2. set_cursor_pos(t, x, Y(t)) \in Terms(S, N, R) /\ set_cursor_pos(t, x, Y(t) + 1) \in Terms(S, N, R)
  BY <1>1, CursorSet
<1> QED
  BY <1>2 DEF LineFeed

\* A control character.
LEMMA ControlIs ==
    ASSUME NEW S, NEW N, NEW R, NEW t \in Terms(S, N, R), NEW c
    PROVE  execute_c0(t, c) \in Terms(S, N, R)
<1>1. X(t) \in Nat /\ Y(t) \in Nat /\ TermCols - 1 \in Nat
  BY Position, TermAssumption
<1>2. (X(t) \div 8 + 1) * 8 \in Nat
  BY <1>1
<1>3. Least((X(t) \div 8 + 1) * 8, TermCols - 1) \in Nat
  BY <1>1, <1>2 DEF Least
<1>4. /\ LineFeed(t, X(t)) \in Terms(S, N, R)
      /\ set_cursor_pos(t, 0, Y(t)) \in Terms(S, N, R)
      /\ X(t) > 0 => set_cursor_pos(t, X(t) - 1, Y(t)) \in Terms(S, N, R)
      /\ set_cursor_pos(t, Least((X(t) \div 8 + 1) * 8, TermCols - 1), Y(t)) \in Terms(S, N, R)
  BY <1>1, <1>3, LineFeedIs, CursorSet
<1>5. [t EXCEPT !.charset = 1] \in Terms(S, N, R) /\ [t EXCEPT !.charset = 0] \in Terms(S, N, R)
  BY LiteralsFit DEF Terms
<1> QED
  BY <1>4, <1>5 DEF execute_c0

\* The same character any number of times.
LEMMA RepeatedIs ==
    ASSUME NEW S, NEW N, NEW R, NEW t \in Terms(S, N, R), NEW n \in Nat
    PROVE  put_repeated(t, n) \in Terms(S, N, R)
<1> DEFINE T == Terms(S, N, R)
           Rec(f) == f = [i \in 0 .. n |-> IF i = 0 THEN t ELSE raw_putchar(f[i - 1])]
           G == [i \in 1 .. n |-> [u \in T |-> raw_putchar(u)]]
<1>1. put_repeated(t, n) = (CHOOSE f : Rec(f))[n]
  BY DEF put_repeated
<1>2. t \in T /\ \A u \in T : raw_putchar(u) \in T
  BY PutIs
<1> HIDE DEF T
<1>3. G \in [1 .. n -> [T -> T]] /\ \A i \in 1 .. n, u \in T : G[i][u] = raw_putchar(u)
  BY <1>2
<1> HIDE DEF G
<1>4. PICK f \in [0 .. n -> T] : f[0] = t /\ \A i \in 1 .. n : f[i] = G[i][f[i - 1]]
  <2>1. \E f : Repeats(f, n, T, G, t)
    BY <1>2, <1>3, Iteration
  <2> QED
    BY <2>1 DEF Repeats
<1>5. Rec(f)
  <2>1. \A i \in 1 .. n : i - 1 \in 0 .. n
    OBVIOUS
  <2>2. \A i \in 0 .. n : f[i] = IF i = 0 THEN t ELSE raw_putchar(f[i - 1])
    BY <1>3, <1>4, <2>1
  <2> QED
    BY <1>4, <2>2
<1>6. PICK x : x = (CHOOSE g : Rec(g)) /\ Rec(x)
  BY <1>5
<1>7. \A i \in 0 .. n : x[i] = IF i = 0 THEN t ELSE raw_putchar(x[i - 1])
  BY <1>6
<1>8. x[0] \in T /\ \A i \in 1 .. n : x[i - 1] \in T => x[i] \in T
  BY <1>2, <1>7
<1>9. \A i \in 0 .. n : x[i] \in T
  BY <1>8, StaysIn, Zenon
<1> QED
  BY <1>1, <1>6, <1>9 DEF T

\* A digit more never takes a value past its largest.
LEMMA DigitIs ==
    ASSUME NEW v \in 0 .. EscMax, NEW d \in Nat
    PROVE  AddDigit(v, d) \in 0 .. EscMax
<1>1. EscMax \in Nat
  BY TermAssumption
<1>2. v * 10 \in Nat
  BY <1>1
<1> QED
  BY <1>1, <1>2 DEF AddDigit

\* A number stays below its limit.
LEMMA DigitsIs ==
    ASSUME NEW v \in 0 .. EscMax, NEW ds \in Seq(Nat)
    PROVE  AddDigits(v, ds) \in 0 .. EscMax
<1> DEFINE T == 0 .. EscMax
           n == Len(ds)
           Rec(f) == f = [i \in 0 .. n |-> IF i = 0 THEN v ELSE AddDigit(f[i - 1], ds[i])]
           G == [i \in 1 .. n |-> [u \in T |-> AddDigit(u, ds[i])]]
<1>1. AddDigits(v, ds) = (CHOOSE f : Rec(f))[n]
  BY DEF AddDigits
<1>2. n \in Nat /\ \A i \in 1 .. n : ds[i] \in Nat
  BY LenProperties, ElementOfSeq
<1>3. v \in T /\ \A i \in 1 .. n, u \in T : AddDigit(u, ds[i]) \in T
  BY <1>2, DigitIs
<1> HIDE DEF T, n
<1>4. G \in [1 .. n -> [T -> T]] /\ \A i \in 1 .. n, u \in T : G[i][u] = AddDigit(u, ds[i])
  BY <1>3
<1> HIDE DEF G
<1>5. PICK f \in [0 .. n -> T] : f[0] = v /\ \A i \in 1 .. n : f[i] = G[i][f[i - 1]]
  <2>1. \E f : Repeats(f, n, T, G, v)
    BY <1>2, <1>3, <1>4, Iteration
  <2> QED
    BY <2>1 DEF Repeats
<1>6. Rec(f)
  <2>1. \A i \in 1 .. n : i - 1 \in 0 .. n
    BY <1>2
  <2>2. \A i \in 0 .. n : f[i] = IF i = 0 THEN v ELSE AddDigit(f[i - 1], ds[i])
    BY <1>2, <1>4, <1>5, <2>1
  <2> QED
    BY <1>5, <2>2
<1>7. PICK x : x = (CHOOSE g : Rec(g)) /\ Rec(x)
  BY <1>6
<1>8. \A i \in 0 .. n : x[i] = IF i = 0 THEN v ELSE AddDigit(x[i - 1], ds[i])
  BY <1>7
<1>9. x[0] \in T /\ \A i \in 1 .. n : x[i - 1] \in T => x[i] \in T
  <2>1. x[0] = v
    BY <1>2, <1>8
  <2>2. ASSUME NEW i \in 1 .. n PROVE x[i] = AddDigit(x[i - 1], ds[i])
    <3>1. i \in 0 .. n /\ i # 0
      BY <1>2
    <3> QED
      BY <1>8, <3>1
  <2> QED
    BY <1>3, <2>1, <2>2
<1>10. \A i \in 0 .. n : x[i] \in T
  BY <1>2, <1>9, StaysIn, Zenon
<1>11. n \in 0 .. n
  BY <1>2
<1> QED
  BY <1>1, <1>7, <1>10, <1>11 DEF T

\* The end of a sequence.
LEMMA CleanupIs ==
    ASSUME NEW S, NEW N, NEW R, NEW t \in Terms(S, N, R)
    PROVE  Cleanup(t) \in Terms(S, N, R)
BY LiteralsFit DEF Cleanup, Terms

\* Rows and columns to move to are numbers.
LEMMA TargetsAre ==
    ASSUME NEW S, NEW N, NEW R, NEW t \in Terms(S, N, R), NEW n \in Nat
    PROVE  RowBelow(t, n) \in Nat /\ RowAbove(t, n) \in Nat /\ Row(t, n) \in Nat /\ Col(n) \in Nat
<1>1. /\ X(t) \in Nat /\ X(t) <= TermCols - 1 /\ Y(t) \in Nat /\ Y(t) <= TermRows - 1
      /\ t.margin.top \in Nat /\ t.margin.bottom \in Nat
      /\ t.margin.top < t.margin.bottom - 1 /\ t.margin.bottom <= TermRows
  BY Position
<1>2. TermCols \in Nat \ {0} /\ TermRows \in Nat /\ TermRows > 1
  BY TermAssumption
<1>3. RowBelow(t, n) \in Nat
  BY <1>1, <1>2 DEF RowBelow, Least
<1>4. RowAbove(t, n) \in Nat
  BY <1>1, <1>2 DEF RowAbove, Least, Most
<1>5. Row(t, n) \in Nat
  BY <1>1, <1>2 DEF Row, Least
<1>6. Col(n) \in Nat
  BY <1>2 DEF Col, Least
<1> QED
  BY <1>3, <1>4, <1>5, <1>6

\* The values of a sequence.
LEMMA ValuesAre ==
    ASSUME NEW S, NEW N, NEW R, NEW t \in Terms(S, N, R), NEW i \in 1 .. EscValues
    PROVE  t.values[i] \in Nat /\ t.values[i] <= EscMax
<1>1. PICK vs \in Values : vs = t.values
  BY DEF Terms
<1>2. vs[i] \in 0 .. EscMax /\ EscMax \in Nat
  BY TermAssumption DEF Values
<1> QED
  BY <1>1, <1>2

\* set_margins gets a first value of at least one; then the new margins fit.
LEMMA SetMarginsIs ==
    ASSUME NEW S, NEW N, N \subseteq Nat, NEW R, NEW t \in Terms(S, N, R), t.values[1] > 0
    PROVE  set_margins(t) \in Terms(S, N, R)
<1>1. TermCols \in Nat \ {0} /\ TermRows \in Nat /\ TermRows > 1 /\ EscValues \in Nat /\ EscValues > 1
  BY TermAssumption
<1>2. t.values[1] \in Nat /\ t.values[2] \in Nat /\ t.n \in Nat
  <2>1. 1 \in 1 .. EscValues /\ 2 \in 1 .. EscValues
    BY <1>1
  <2>2. t.n \in Nat
    BY DEF Terms
  <2> QED
    BY <2>1, <2>2, ValuesAre
<1> DEFINE top == IF t.n > 0 THEN t.values[1] - 1 ELSE 0
           bottom == IF t.n > 1 THEN t.values[2] ELSE TermRows
<1>3. top \in Nat /\ bottom \in Nat
  BY <1>1, <1>2
<1> HIDE DEF top, bottom
<1>4. PICK m : m = IF MarginsFit(top, bottom) THEN [top |-> top, bottom |-> bottom] ELSE AllRows
  OBVIOUS
<1>5. m \in Margins
  BY <1>1, <1>3, <1>4, StartIs DEF MarginsFit, Margins
<1>6. m.top \in Nat
  BY <1>5 DEF Margins
<1>7. [t EXCEPT !.margin = m] \in Terms(S, N, R)
  BY <1>5 DEF Terms
<1>8. set_margins(t) = set_cursor_pos([t EXCEPT !.margin = m], 0, IF t.origin THEN m.top ELSE 0)
  BY <1>4 DEF set_margins, top, bottom
<1>9. (IF t.origin THEN m.top ELSE 0) \in Nat
  BY <1>6
<1> QED
  <2>1. PICK u \in Terms(S, N, R), y \in Nat :
           u = [t EXCEPT !.margin = m] /\ y = (IF t.origin THEN m.top ELSE 0)
    BY <1>7, <1>9
  <2>2. set_cursor_pos(u, 0, y) \in Terms(S, N, R)
    BY CursorSet
  <2> QED
    BY <1>8, <2>1, <2>2

\* The final bytes.
LEMMA FinalIs ==
    ASSUME NEW S, NEW N, N \subseteq Nat, NEW R, NEW t \in Terms(S, N, R), NEW c,
           c = "r" => t.values[1] > 0
    PROVE  Final(t, c) \in Terms(S, N, R)
<1>1. X(t) \in Nat /\ Y(t) \in Nat /\ X(t) <= TermCols - 1 /\ Y(t) <= TermRows - 1
  BY Position
<1>2. TermCols \in Nat \ {0} /\ TermRows \in Nat /\ TermRows > 1 /\ EscValues \in Nat /\ EscValues > 1
  BY TermAssumption
<1>3. PICK v, w : v = t.values[1] /\ w = t.values[2]
  OBVIOUS
<1>4. v \in Nat /\ w \in Nat
  <2>1. 1 \in 1 .. EscValues /\ 2 \in 1 .. EscValues
    BY <1>2
  <2> QED
    BY <1>3, <2>1, ValuesAre
<1>5. RowAbove(t, v) \in Nat /\ RowBelow(t, v) \in Nat /\ Row(t, v) \in Nat /\ Col(v) \in Nat /\ Col(w) \in Nat
  BY <1>4, TargetsAre
<1>6. Least(X(t) + v, TermCols - 1) \in Nat /\ X(t) - Least(v, X(t)) \in Nat
  BY <1>1, <1>2, <1>4 DEF Least
<1>7. \A x \in Nat, y \in Nat : set_cursor_pos(t, x, y) \in Terms(S, N, R)
  BY CursorSet
<1>8. /\ set_cursor_pos(t, X(t), RowAbove(t, v)) \in Terms(S, N, R)
      /\ set_cursor_pos(t, 0, RowAbove(t, v)) \in Terms(S, N, R)
      /\ set_cursor_pos(t, X(t), RowBelow(t, v)) \in Terms(S, N, R)
      /\ set_cursor_pos(t, 0, RowBelow(t, v)) \in Terms(S, N, R)
      /\ set_cursor_pos(t, Least(X(t) + v, TermCols - 1), Y(t)) \in Terms(S, N, R)
      /\ set_cursor_pos(t, X(t) - Least(v, X(t)), Y(t)) \in Terms(S, N, R)
      /\ set_cursor_pos(t, X(t), Row(t, v)) \in Terms(S, N, R)
      /\ set_cursor_pos(t, Col(v), Y(t)) \in Terms(S, N, R)
      /\ set_cursor_pos(t, Col(w), Row(t, v)) \in Terms(S, N, R)
      /\ set_cursor_pos(t, X(t), Y(t)) \in Terms(S, N, R)
  BY <1>1, <1>5, <1>6, <1>7
<1>9. [t EXCEPT !.mark = [x |-> X(t), y |-> Y(t)]] \in Terms(S, N, R)
  <2>1. PICK p : p = [x |-> X(t), y |-> Y(t)]
    OBVIOUS
  <2>2. p \in Points
    BY <1>1, <1>2, <2>1 DEF Points, Rows
  <2>3. [t EXCEPT !.mark = p] \in Terms(S, N, R)
    BY <2>2 DEF Terms
  <2> QED
    BY <2>1, <2>3
<1>10. set_cursor_pos(t, t.mark.x, t.mark.y) \in Terms(S, N, R)
  <2>1. t.mark \in Points
    BY DEF Terms
  <2>2. t.mark.x \in Nat /\ t.mark.y \in Nat
    BY <1>2, <2>1 DEF Points, Rows
  <2> QED
    BY <1>7, <2>2
<1>11. c = "r" => set_margins(t) \in Terms(S, N, R)
  BY SetMarginsIs
<1>12. \A b \in BOOLEAN : [t EXCEPT !.insert = b] \in Terms(S, N, R)
  <2> TAKE b \in BOOLEAN
  <2>1. b \in Flags
    BY DEF Flags
  <2> QED
    BY <2>1 DEF Terms
<1>13. [t EXCEPT !.insert = (c = "h")] \in Terms(S, N, R)
  BY <1>12
<1> QED
  BY <1>3, <1>8, <1>9, <1>10, <1>11, <1>13 DEF Final, Erasing

\* The last byte of a sequence that moves, erases or sets margins.
LEMMA FinalByteIs ==
    ASSUME NEW N, N \subseteq Nat, NEW R, NEW t \in Terms({TRUE}, N, R), NEW c,
           c = "r" => t.values[1] > 0
    PROVE  final_byte(t, c) \in Terms({TRUE}, N, R)
<1> DEFINE off == [t EXCEPT !.scroll = FALSE, !.wrap = TRUE]
<1>1. off \in Terms({FALSE}, N, R) /\ off.values = t.values
  BY LiteralsFit DEF Terms
<1> HIDE DEF off
<1>2. Final(off, c) \in Terms({FALSE}, N, R)
  BY <1>1, FinalIs
<1>3. repeat_char(t, t.values[1]) \in Terms({TRUE}, N, R)
  <2>1. t.values[1] \in Nat
    <3>1. 1 \in 1 .. EscValues
      BY TermAssumption
    <3> QED
      BY <3>1, ValuesAre
  <2>2. Least(t.values[1], 65535) \in Nat
    BY <2>1 DEF Least
  <2> QED
    BY <2>2, RepeatedIs DEF repeat_char
<1>4. PICK done : done = IF c = "b" /\ t.graphic THEN repeat_char(t, t.values[1]) ELSE Final(off, c)
  OBVIOUS
<1>5. \E S : done \in Terms(S, N, R)
  BY <1>2, <1>3, <1>4
<1>6. PICK S : done \in Terms(S, N, R)
  BY <1>5
<1>7. PICK sc \in {TRUE}, w \in Flags : sc = t.scroll /\ w = t.wrap
  BY DEF Terms
<1>8. [done EXCEPT !.scroll = sc, !.wrap = w] \in Terms({TRUE}, N, R)
  BY <1>6 DEF Terms
<1>9. final_byte(t, c) = Cleanup([done EXCEPT !.scroll = sc, !.wrap = w])
  BY <1>4, <1>7 DEF final_byte, off
<1> QED
  BY <1>8, <1>9, CleanupIs

\* One mode.
LEMMA ModeIs ==
    ASSUME NEW S, NEW N, NEW R, NEW t \in Terms(S, N, R), NEW v, NEW set \in BOOLEAN
    PROVE  DecMode(t, v, set) \in Terms(S, N, R)
<1>1. set \in Flags
  BY DEF Flags
<1>2. [t EXCEPT !.wrap = set] \in Terms(S, N, R) /\ [t EXCEPT !.cursor = set] \in Terms(S, N, R)
  BY <1>1 DEF Terms
<1>3. set_cursor_pos([t EXCEPT !.origin = set], 0, IF set THEN t.margin.top ELSE 0) \in Terms(S, N, R)
  <2>1. PICK u : u = [t EXCEPT !.origin = set]
    OBVIOUS
  <2>2. u \in Terms(S, N, R)
    BY <1>1, <2>1 DEF Terms
  <2>3. PICK y \in Nat : y = IF set THEN t.margin.top ELSE 0
    BY Position
  <2>4. set_cursor_pos(u, 0, y) \in Terms(S, N, R)
    BY <2>2, CursorSet
  <2> QED
    BY <2>1, <2>3, <2>4
<1>4. [save_state(t) EXCEPT !.margin = AllRows, !.x = 0, !.y = 0] \in Terms(S, N, R)
  <2>1. PICK u \in Terms(S, N, R) : u = save_state(t)
    BY SaveIs
  <2>2. 0 \in Columns /\ 0 \in Rows
    BY TermAssumption DEF Columns, Rows
  <2>3. [u EXCEPT !.margin = AllRows, !.x = 0, !.y = 0] \in Terms(S, N, R)
    BY <2>2, StartIs DEF Terms
  <2> QED
    BY <2>1, <2>3
<1>5. restore_state(t) \in Terms(S, N, R)
  BY RestoreIs
<1> QED
  BY <1>2, <1>3, <1>4, <1>5 DEF DecMode

\* The modes of a sequence, one after another.
LEMMA ModesAre ==
    ASSUME NEW S, NEW N, N \subseteq Nat, NEW R, NEW t \in Terms(S, N, R), NEW set \in BOOLEAN
    PROVE  DecModes(t, set) \in Terms(S, N, R)
<1> DEFINE T == Terms(S, N, R)
           n == t.n
           Rec(f) == f = [i \in 0 .. n |-> IF i = 0 THEN t ELSE DecMode(f[i - 1], t.values[i], set)]
           G == [i \in 1 .. n |-> [u \in T |-> DecMode(u, t.values[i], set)]]
<1>1. DecModes(t, set) = (CHOOSE f : Rec(f))[n]
  BY DEF DecModes
<1>2. n \in Nat
  BY DEF Terms
<1>3. t \in T /\ \A i \in 1 .. n, u \in T : DecMode(u, t.values[i], set) \in T
  BY ModeIs
<1> HIDE DEF T, n
<1>4. G \in [1 .. n -> [T -> T]] /\ \A i \in 1 .. n, u \in T : G[i][u] = DecMode(u, t.values[i], set)
  BY <1>3
<1> HIDE DEF G
<1>5. PICK f \in [0 .. n -> T] : f[0] = t /\ \A i \in 1 .. n : f[i] = G[i][f[i - 1]]
  <2>1. \E f : Repeats(f, n, T, G, t)
    BY <1>2, <1>3, <1>4, Iteration
  <2> QED
    BY <2>1 DEF Repeats
<1>6. Rec(f)
  <2>1. \A i \in 1 .. n : i - 1 \in 0 .. n
    BY <1>2
  <2>2. \A i \in 0 .. n : f[i] = IF i = 0 THEN t ELSE DecMode(f[i - 1], t.values[i], set)
    BY <1>2, <1>4, <1>5, <2>1
  <2> QED
    BY <1>5, <2>2
<1>7. PICK x : x = (CHOOSE g : Rec(g)) /\ Rec(x)
  BY <1>6
<1>8. \A i \in 0 .. n : x[i] = IF i = 0 THEN t ELSE DecMode(x[i - 1], t.values[i], set)
  BY <1>7
<1>9. x[0] \in T /\ \A i \in 1 .. n : x[i - 1] \in T => x[i] \in T
  <2>1. x[0] = t
    BY <1>2, <1>8
  <2>2. ASSUME NEW i \in 1 .. n PROVE x[i] = DecMode(x[i - 1], t.values[i], set)
    <3>1. i \in 0 .. n /\ i # 0
      BY <1>2
    <3> QED
      BY <1>8, <3>1
  <2> QED
    BY <1>3, <2>1, <2>2
<1>10. \A i \in 0 .. n : x[i] \in T
  BY <1>2, <1>9, StaysIn, Zenon
<1>11. n \in 0 .. n
  BY <1>2
<1> QED
  BY <1>1, <1>7, <1>10, <1>11 DEF T

\* The last byte of ESC [ ?.
LEMMA PrivateIs ==
    ASSUME NEW S, NEW N, N \subseteq Nat, NEW R, NEW t \in Terms(S, N, R), NEW c
    PROVE  dec_private_parse(t, c) \in Terms(S, N, R)
<1>1. PICK u : u = [t EXCEPT !.dec = FALSE]
  OBVIOUS
<1>2. u \in Terms(S, N, R)
  BY <1>1, LiteralsFit DEF Terms
<1>3. (c = "h") \in BOOLEAN
  OBVIOUS
<1>4. DecModes(u, c = "h") \in Terms(S, N, R)
  BY <1>2, <1>3, ModesAre
<1> QED
  BY <1>1, <1>2, <1>4 DEF dec_private_parse

\* A number that is under way has a place among the values.
Closed == Terms({TRUE}, UpTo(EscValues), {FALSE})
Open == Terms({TRUE}, UpTo(EscValues - 1), {TRUE})
Good == Closed \cup Open

\* A larger set of counts and flags.
LEMMA Wider ==
    ASSUME NEW S, NEW N, NEW M, N \subseteq M, NEW R, NEW t \in Terms(S, N, R)
    PROVE  t \in Terms(S, M, R)
BY DEF Terms

\* The counts of values.
LEMMA CountsAre ==
    /\ UpTo(EscValues) \subseteq Nat /\ UpTo(EscValues - 1) \subseteq UpTo(EscValues)
    /\ UpTo(EscValues - 1) \subseteq Nat /\ 0 \in UpTo(EscValues)
BY TermAssumption DEF UpTo

\* Most steps keep a context in a set of this form.
LEMMA GoodIs ==
    ASSUME NEW t \in Good
    PROVE  \E N, R : /\ N \subseteq Nat /\ N \subseteq UpTo(EscValues)
                     /\ t \in Terms({TRUE}, N, R) /\ Terms({TRUE}, N, R) \subseteq Good
<1>1. CASE t \in Closed
  BY <1>1, CountsAre DEF Good, Closed
<1>2. CASE t \in Open
  BY <1>2, CountsAre DEF Good, Open
<1> QED
  BY <1>1, <1>2 DEF Good

\* The end of a sequence ends the number under way; a first value of "r" is not zero.
LEMMA EndValuesIs ==
    ASSUME NEW t \in Good, NEW c
    PROVE  EndValues(t, c) \in Closed /\ (c = "r" => EndValues(t, c).values[1] > 0)
<1>1. EscValues \in Nat /\ EscValues > 1 /\ EscMax \in Nat /\ EscMax > 0
  BY TermAssumption
<1>2. PICK n : n = IF t.rrr THEN t.n + 1 ELSE t.n
  OBVIOUS
<1>3. n \in UpTo(EscValues)
  <2>1. CASE t \in Closed
    <3>1. t.rrr = FALSE /\ t.n \in UpTo(EscValues)
      BY <2>1 DEF Closed, Terms
    <3> QED
      BY <1>2, <3>1
  <2>2. CASE t \in Open
    <3>1. t.rrr = TRUE /\ t.n \in UpTo(EscValues - 1)
      BY <2>2 DEF Open, Terms
    <3> QED
      BY <1>1, <1>2, <3>1 DEF UpTo
  <2> QED
    BY <2>1, <2>2 DEF Good
<1>4. PICK vs \in Values : vs = t.values
  <2>1. PICK N, R : t \in Terms({TRUE}, N, R)
    BY GoodIs
  <2> QED
    BY <2>1 DEF Terms
<1>5. PICK d : d = IF c \in {"J", "K", "m", "c", "]"} THEN 0 ELSE 1
  OBVIOUS
<1>6. d \in 0 .. EscMax /\ (c = "r" => d = 1)
  BY <1>1, <1>5
<1>7. PICK ws : ws = [i \in 1 .. EscValues |-> IF i > n \/ (d # 0 /\ vs[i] = 0) THEN d ELSE vs[i]]
  OBVIOUS
<1>8. ws \in Values
  BY <1>6, <1>7 DEF Values
<1>9. c = "r" => ws[1] > 0
  <2>1. 1 \in 1 .. EscValues /\ vs[1] \in 0 .. EscMax
    BY <1>1 DEF Values
  <2> QED
    BY <1>1, <1>6, <1>7, <2>1
<1>10. PICK u : u = [t EXCEPT !.n = n, !.rrr = FALSE, !.values = ws]
  OBVIOUS
<1>11. u \in Closed /\ u.values = ws
  <2>1. PICK N, R : t \in Terms({TRUE}, N, R)
    BY GoodIs
  <2> QED
    BY <1>3, <1>8, <1>10, <2>1 DEF Terms, Closed
<1>12. EndValues(t, c) = u
  BY <1>2, <1>4, <1>5, <1>7, <1>10 DEF EndValues
<1> QED
  BY <1>9, <1>11, <1>12

\* A semicolon ends a value.
LEMMA SeparatorIs ==
    ASSUME NEW t \in Good
    PROVE  /\ [t EXCEPT !.rrr = FALSE] \in Good
           /\ t.n # EscValues => [t EXCEPT !.n = @ + 1, !.rrr = FALSE,
                                           !.values[t.n + 1] = IF t.rrr THEN @ ELSE 0] \in Good
<1>1. EscValues \in Nat /\ EscValues > 1 /\ EscMax \in Nat /\ EscMax > 0
  BY TermAssumption
<1>2. PICK N, R : N \subseteq UpTo(EscValues) /\ t \in Terms({TRUE}, N, R)
  BY GoodIs
<1>3. [t EXCEPT !.rrr = FALSE] \in Good
  BY <1>2 DEF Good, Closed, Terms
<1>4. ASSUME t.n # EscValues
      PROVE  [t EXCEPT !.n = @ + 1, !.rrr = FALSE, !.values[t.n + 1] = IF t.rrr THEN @ ELSE 0] \in Good
  <2>1. PICK n, vs : n = t.n /\ vs = t.values /\ vs \in Values
    BY <1>2 DEF Terms
  <2>2. n \in 0 .. EscValues
    BY <1>2, <2>1 DEF Terms, UpTo
  <2>3. n + 1 \in 1 .. EscValues /\ n + 1 \in UpTo(EscValues)
    BY <1>1, <1>4, <2>1, <2>2 DEF UpTo
  <2>4. PICK v : v = IF t.rrr THEN vs[n + 1] ELSE 0
    OBVIOUS
  <2>5. v \in 0 .. EscMax
    BY <1>1, <2>1, <2>3, <2>4 DEF Values
  <2>6. PICK ws : ws = [vs EXCEPT ![n + 1] = v]
    OBVIOUS
  <2>7. ws \in Values
    BY <2>1, <2>5, <2>6 DEF Values
  <2>8. PICK m \in UpTo(EscValues) : m = n + 1
    BY <2>3
  <2>9. [t EXCEPT !.n = m, !.rrr = FALSE, !.values = ws] \in Closed
    BY <1>2, <2>7 DEF Closed, Terms
  <2>10. [t EXCEPT !.n = @ + 1, !.rrr = FALSE, !.values[t.n + 1] = IF t.rrr THEN @ ELSE 0]
           = [t EXCEPT !.n = m, !.rrr = FALSE, !.values = ws]
    BY <1>2, <2>1, <2>4, <2>6, <2>8 DEF Terms
  <2> QED
    BY <2>9, <2>10 DEF Good
<1> QED
  BY <1>3, <1>4

\* A run of digits.
LEMMA NumberIs ==
    ASSUME NEW t \in Closed, t.n # EscValues, NEW ds \in Seq(Nat)
    PROVE  [t EXCEPT !.rrr = TRUE, !.values[t.n + 1] = AddDigits(@, ds)] \in Good
<1>1. EscValues \in Nat /\ EscValues > 1
  BY TermAssumption
<1>2. t \in Terms({TRUE}, UpTo(EscValues), {FALSE})
  BY DEF Closed
<1>3. PICK n, vs : n = t.n /\ vs = t.values /\ vs \in Values
  BY <1>2 DEF Terms
<1>4. n \in 0 .. EscValues /\ n # EscValues
  BY <1>2, <1>3 DEF Terms, UpTo
<1>5. n + 1 \in 1 .. EscValues /\ n \in UpTo(EscValues - 1)
  BY <1>1, <1>4 DEF UpTo
<1>6. PICK v \in 0 .. EscMax : v = vs[n + 1]
  BY <1>3, <1>5 DEF Values
<1>7. PICK w \in 0 .. EscMax : w = AddDigits(v, ds)
  BY DigitsIs
<1>8. PICK ws : ws = [vs EXCEPT ![n + 1] = w]
  OBVIOUS
<1>9. ws \in Values
  BY <1>3, <1>8 DEF Values
<1>10. PICK u : u = [t EXCEPT !.rrr = TRUE, !.values = ws]
  OBVIOUS
<1>11. u \in Open
  BY <1>2, <1>3, <1>5, <1>9, <1>10 DEF Terms, Open
<1>12. [t EXCEPT !.rrr = TRUE, !.values[t.n + 1] = AddDigits(@, ds)] = u
  BY <1>2, <1>3, <1>6, <1>7, <1>8, <1>10 DEF Terms
<1> QED
  BY <1>11, <1>12 DEF Good

\* control_sequence_parse.
LEMMA SequenceIs ==
    ASSUME NEW t \in Good, NEW c
    PROVE  control_sequence_parse(t, c) \in Good
<1>1. PICK N, R : N \subseteq Nat /\ t \in Terms({TRUE}, N, R) /\ Terms({TRUE}, N, R) \subseteq Good
  BY GoodIs
<1>2. Cleanup([t EXCEPT !.discard = TRUE]) \in Good
  <2>1. [t EXCEPT !.discard = TRUE] \in Terms({TRUE}, N, R)
    BY <1>1, LiteralsFit DEF Terms
  <2> QED
    BY <1>1, <2>1, CleanupIs
<1>3. [t EXCEPT !.dec = TRUE] \in Good
  BY <1>1, LiteralsFit DEF Terms
<1>4. execute_c0(t, c) \in Good
  BY <1>1, ControlIs
<1>5. /\ t.n = EscValues => [t EXCEPT !.rrr = FALSE] \in Good
      /\ t.n # EscValues => [t EXCEPT !.n = @ + 1, !.rrr = FALSE,
                                      !.values[t.n + 1] = IF t.rrr THEN @ ELSE 0] \in Good
  BY SeparatorIs
<1>6. PICK u : u = EndValues(t, c)
  OBVIOUS
<1>7. u \in Terms({TRUE}, UpTo(EscValues), {FALSE}) /\ (c = "r" => u.values[1] > 0)
  BY <1>6, EndValuesIs DEF Closed
<1>8. Terms({TRUE}, UpTo(EscValues), {FALSE}) \subseteq Good
  BY DEF Good, Closed
<1>9. Cleanup(dec_private_parse(u, c)) \in Good
  BY <1>7, <1>8, CountsAre, PrivateIs, CleanupIs
<1>10. /\ [u EXCEPT !.unhandled = FALSE, !.csi = FALSE, !.offset = 0] \in Good
       /\ [u EXCEPT !.unhandled = TRUE] \in Good
  BY <1>7, <1>8, LiteralsFit DEF Terms
<1>11. Cleanup([u EXCEPT !.unhandled = FALSE]) \in Good
  <2>1. [u EXCEPT !.unhandled = FALSE] \in Terms({TRUE}, UpTo(EscValues), {FALSE})
    BY <1>7, LiteralsFit DEF Terms
  <2> QED
    BY <1>8, <2>1, CleanupIs
<1>12. final_byte(u, c) \in Good
  BY <1>7, <1>8, CountsAre, FinalByteIs
<1> QED
  BY <1>2, <1>3, <1>4, <1>5, <1>6, <1>9, <1>10, <1>11, <1>12 DEF control_sequence_parse

(***************************************************************************)
(* Escape sequences.                                                       *)
(***************************************************************************)
LEMMA OscIs ==
    ASSUME NEW S, NEW N, NEW R, NEW t \in Terms(S, N, R), NEW c
    PROVE  osc_parse(t, c) \in Terms(S, N, R)
<1>1. PICK k : k = Least(t.oscLen + 1, OscBytes)
  OBVIOUS
<1>2. k \in UpTo(OscBytes)
  <2>1. t.oscLen \in 0 .. OscBytes
    BY DEF Terms, UpTo
  <2> QED
    BY <1>1, <2>1, TermAssumption DEF UpTo, Least
<1>3. [t EXCEPT !.oscLen = k] \in Terms(S, N, R)
  BY <1>2 DEF Terms
<1>4. [t EXCEPT !.oscLen = Least(@ + 1, OscBytes)] \in Terms(S, N, R)
  BY <1>1, <1>3
<1>5. OscEnds(t) \in Terms(S, N, R)
  BY LiteralsFit DEF OscEnds, Terms
<1>6. [t EXCEPT !.oscEscape = TRUE] \in Terms(S, N, R)
  BY LiteralsFit DEF Terms
<1> QED
  BY <1>4, <1>5, <1>6 DEF osc_parse

\* The byte after ESC.
LEMMA EscapeIs ==
    ASSUME NEW t \in Good, NEW c
    PROVE  Escape(t, c) \in Good
<1>1. PICK N, R : /\ N \subseteq UpTo(EscValues) /\ t \in Terms({TRUE}, N, R)
                  /\ Terms({TRUE}, N, R) \subseteq Good
  BY GoodIs
<1>2. [t EXCEPT !.offset = 0] \in Good
  BY <1>1, LiteralsFit DEF Terms
<1>3. [t EXCEPT !.oscEscape = FALSE, !.osc = TRUE, !.oscLen = 0] \in Good
  <2>1. 0 \in UpTo(OscBytes)
    BY TermAssumption DEF UpTo
  <2> QED
    BY <1>1, <2>1, LiteralsFit DEF Terms
<1>4. [t EXCEPT !.values = NoValues, !.n = 0, !.rrr = FALSE, !.unhandled = FALSE, !.csi = TRUE] \in Good
  <2>1. [t EXCEPT !.values = NoValues, !.n = 0, !.rrr = FALSE, !.unhandled = FALSE, !.csi = TRUE] \in Closed
    BY <1>1, CountsAre, StartIs, LiteralsFit DEF Terms, Closed
  <2> QED
    BY <2>1 DEF Good
<1> DEFINE T == Terms({TRUE}, N, R)
           Other == CASE c = "7" -> save_state(t)
                      [] c = "8" -> restore_state(t)
                      [] c = "c" -> save_state([Reinit(t) EXCEPT !.x = 0, !.y = 0])
                      [] c = "D" -> IF Y(t) # t.margin.bottom - 1 /\ Y(t) = TermRows - 1 THEN t
                                    ELSE LineFeed(t, X(t))
                      [] c = "E" -> LineFeed(t, 0)
                      [] c = "M" -> IF Y(t) = t.margin.top THEN set_cursor_pos(t, X(t), Y(t))
                                    ELSE IF Y(t) > 0 THEN set_cursor_pos(t, X(t), Y(t) - 1) ELSE t
                      [] c \in {"(", ")"} -> [t EXCEPT !.gselect = IF c = "(" THEN 1 ELSE 2]
                      [] OTHER -> t
<1>5. X(t) \in Nat /\ Y(t) \in Nat
  BY <1>1, Position
<1>6. save_state(t) \in T /\ restore_state(t) \in T
  BY <1>1, SaveIs, RestoreIs
<1>7. LineFeed(t, X(t)) \in T /\ LineFeed(t, 0) \in T
  BY <1>1, <1>5, LineFeedIs
<1>8. set_cursor_pos(t, X(t), Y(t)) \in T /\ (Y(t) > 0 => set_cursor_pos(t, X(t), Y(t) - 1) \in T)
  BY <1>1, <1>5, CursorSet
<1>9. [t EXCEPT !.gselect = 1] \in T /\ [t EXCEPT !.gselect = 2] \in T
  BY <1>1, LiteralsFit DEF Terms
<1>10. save_state([Reinit(t) EXCEPT !.x = 0, !.y = 0]) \in Closed
  <2>1. PICK r : r = Reinit(t)
    OBVIOUS
  <2>2. r \in Terms({TRUE}, {0}, {FALSE})
    BY <1>1, <2>1, ReinitIs
  <2>3. 0 \in Columns /\ 0 \in Rows
    BY TermAssumption DEF Columns, Rows
  <2>4. [r EXCEPT !.x = 0, !.y = 0] \in Terms({TRUE}, {0}, {FALSE})
    BY <2>2, <2>3 DEF Terms
  <2>5. save_state([r EXCEPT !.x = 0, !.y = 0]) \in Terms({TRUE}, {0}, {FALSE})
    BY <2>4, SaveIs
  <2>6. save_state([r EXCEPT !.x = 0, !.y = 0]) \in Closed
    BY <2>5, CountsAre, Wider DEF Closed
  <2> QED
    BY <2>1, <2>6
<1>11. Other \in T \cup Closed
  <2> HIDE DEF T
  <2>1. [t EXCEPT !.gselect = IF c = "(" THEN 1 ELSE 2] \in T
    <3>1. CASE c = "("
      BY <1>9, <3>1
    <3>2. CASE c # "("
      BY <1>9, <3>2
    <3> QED
      BY <3>1, <3>2
  <2>2. t \in T
    BY <1>1 DEF T
  <2> QED
    BY <1>6, <1>7, <1>8, <1>10, <2>1, <2>2
<1> HIDE DEF Other
<1>12. [Other EXCEPT !.escape = FALSE] \in Good
  <2>1. PICK o : o = Other
    OBVIOUS
  <2>2. ASSUME o \in T PROVE [o EXCEPT !.escape = FALSE] \in Good
    BY <1>1, <2>2, LiteralsFit DEF Terms
  <2>3. ASSUME o \in Closed PROVE [o EXCEPT !.escape = FALSE] \in Good
    BY <2>3, LiteralsFit DEF Good, Closed, Terms
  <2>4. [o EXCEPT !.escape = FALSE] \in Good
    BY <1>11, <2>1, <2>2, <2>3
  <2> QED
    BY <2>1, <2>4
<1> QED
  BY <1>2, <1>3, <1>4, <1>12 DEF Escape, Other

\* A byte inside an escape sequence.
LEMMA EscapeParseIs ==
    ASSUME NEW t \in Good, NEW c
    PROVE  escape_parse(t, c) \in Good
<1>1. PICK N, R : t \in Terms({TRUE}, N, R) /\ Terms({TRUE}, N, R) \subseteq Good
  BY GoodIs
<1>2. PICK k : k = Least(t.offset + 1, 3)
  OBVIOUS
<1>3. k \in UpTo(3)
  <2>1. t.offset \in 0 .. 3
    BY <1>1 DEF Terms, UpTo
  <2> QED
    BY <1>2, <2>1 DEF UpTo, Least
<1>4. PICK u : u = [t EXCEPT !.offset = k]
  OBVIOUS
<1>5. u \in Terms({TRUE}, N, R)
  BY <1>1, <1>3, <1>4 DEF Terms
<1> DEFINE aborted == t.osc /\ t.oscEscape /\ c # "\\"
<1>6. PICK v : v = IF aborted THEN [u EXCEPT !.oscEscape = FALSE, !.osc = FALSE, !.offset = 1] ELSE u
  OBVIOUS
<1>7. [u EXCEPT !.oscEscape = FALSE, !.osc = FALSE, !.offset = 1] \in Terms({TRUE}, N, R)
  BY <1>5, LiteralsFit DEF Terms
<1>8. v \in Good /\ u \in Terms({TRUE}, N, R)
  BY <1>1, <1>5, <1>6, <1>7
<1>9. osc_parse(u, c) \in Good /\ control_sequence_parse(v, c) \in Good /\ Escape(v, c) \in Good
  BY <1>1, <1>8, OscIs, SequenceIs, EscapeIs
<1>10. escape_parse(t, c) = IF t.osc /\ ~aborted THEN osc_parse(u, c)
                            ELSE IF v.csi THEN control_sequence_parse(v, c) ELSE Escape(v, c)
  BY <1>2, <1>4, <1>6 DEF escape_parse
<1> HIDE DEF aborted
<1> QED
  BY <1>9, <1>10

(***************************************************************************)
(* The actions.                                                            *)
(***************************************************************************)
LEMMA BeginIs ==
    ASSUME term \in Good, NEW c
    PROVE  Begin(c) \in Good
<1>1. PICK N, R : term \in Terms({TRUE}, N, R) /\ Terms({TRUE}, N, R) \subseteq Good
  BY GoodIs
<1>2. PICK u : u = [term EXCEPT !.uni = 0]
  OBVIOUS
<1>3. u \in Terms({TRUE}, N, R)
  BY <1>1, <1>2, LiteralsFit DEF Terms
<1>4. raw_putchar(u) \in Good
  BY <1>1, <1>3, PutIs
<1> QED
  BY <1>2, <1>4 DEF Begin

\* The terminal starts well.
LEMMA TermInitIs == TermInit => term \in Good
<1> SUFFICES ASSUME TermInit PROVE term \in Good
  OBVIOUS
<1>1. PICK s : s = Saved(Fresh0)
  OBVIOUS
<1>2. s \in SavedTerm
  <2>1. s = [x |-> 0, y |-> 0, margin |-> AllRows, origin |-> FALSE, wrap |-> TRUE,
             charset |-> 0, charsets |-> DefaultSets]
    BY <1>1 DEF Saved, Fresh0
  <2>2. 0 \in Columns /\ 0 \in Rows
    BY TermAssumption DEF Columns, Rows
  <2> QED
    BY <2>1, <2>2, StartIs, LiteralsFit DEF SavedTerm
<1>3. term = [x |-> 0, y |-> 0, wrap |-> TRUE, scroll |-> TRUE, origin |-> FALSE,
           insert |-> FALSE, cursor |-> TRUE, escape |-> FALSE, csi |-> FALSE, osc |-> FALSE,
           oscEscape |-> FALSE, dec |-> FALSE, rrr |-> FALSE, discard |-> FALSE,
           unhandled |-> FALSE, offset |-> 0, n |-> 0, values |-> NoValues, oscLen |-> 0,
           uni |-> 0, lead |-> 0, gselect |-> 0, charset |-> 0, charsets |-> DefaultSets,
           graphic |-> FALSE, margin |-> AllRows, mark |-> TopLeft, saved |-> s]
  BY <1>1, ZenonT(60) DEF TermInit, Fresh0
<1>4. 0 \in Columns /\ 0 \in Rows /\ 0 \in UpTo(OscBytes)
  BY TermAssumption DEF Columns, Rows, UpTo
<1>5. term \in Terms({TRUE}, UpTo(EscValues), {FALSE})
  BY <1>2, <1>3, <1>4, StartIs, LiteralsFit, CountsAre DEF Terms
<1> QED
  BY <1>5 DEF Good, Closed

\* A byte that is not the end of a character keeps the context good.
LEMMA BytesAreGood ==
    ASSUME term \in Good, NEW c,
           \/ Discard(c) \/ Rejected(c) \/ Starts(c) \/ InEscape(c)
           \/ Designates(c) \/ StartsEscape(c) \/ Controls(c) \/ Prints(c)
    PROVE  term' \in Good
<1>1. PICK N, R : term \in Terms({TRUE}, N, R) /\ Terms({TRUE}, N, R) \subseteq Good
  BY GoodIs
<1>2. PICK b : b = Begin(c)
  OBVIOUS
<1>3. b \in Good
  BY <1>2, BeginIs
<1>4. PICK M, P : b \in Terms({TRUE}, M, P) /\ Terms({TRUE}, M, P) \subseteq Good
  BY <1>3, GoodIs
<1>5. CASE Discard(c)
  BY <1>1, <1>5, LiteralsFit DEF Discard, Terms
<1>6. CASE Rejected(c)
  <2>1. PICK u : u = [term EXCEPT !.uni = 0]
    OBVIOUS
  <2>2. u \in Good
    BY <1>1, <2>1, LiteralsFit DEF Terms
  <2>3. escape_parse(u, c) \in Good
    BY <2>2, EscapeParseIs
  <2>4. PICK v : v = [term EXCEPT !.uni = 0, !.graphic = TRUE]
    OBVIOUS
  <2>5. v \in Terms({TRUE}, N, R)
    BY <1>1, <2>4, LiteralsFit DEF Terms
  <2>6. raw_putchar(v) \in Good
    BY <1>1, <2>5, PutIs
  <2>7. term' = IF term.escape THEN escape_parse(u, c) ELSE raw_putchar(v)
    BY <1>6, <2>1, <2>4 DEF Rejected
  <2> QED
    BY <2>3, <2>6, <2>7
<1>7. CASE Starts(c)
  <2>1. PICK k : k = Leads[c]
    OBVIOUS
  <2>2. k \in UpTo(3)
    <3>1. c \in {"lead2", "lead3", "lead4"}
      BY <1>7 DEF Starts, Leads
    <3>2. k \in {1, 2, 3}
      BY <2>1, <3>1 DEF Leads
    <3> QED
      BY <3>2, LiteralsFit
  <2>3. term' = [b EXCEPT !.gselect = 0, !.uni = k, !.lead = k]
    BY <1>2, <1>7, <2>1 DEF Starts
  <2> QED
    BY <1>4, <2>2, <2>3, LiteralsFit DEF Terms
<1>8. CASE InEscape(c)
  BY <1>2, <1>3, <1>8, EscapeParseIs DEF InEscape
<1>9. CASE Designates(c)
  <2>1. PICK g, cs : g = b.gselect /\ cs = b.charsets
    OBVIOUS
  <2>2. g \in 1 .. 2 /\ cs \in Sets
    <3>1. b.gselect \in 0 .. 2 /\ b.charsets \in Sets
      BY <1>4 DEF Terms, UpTo
    <3>2. b.gselect # 0
      BY <1>2, <1>9 DEF Designates
    <3> QED
      BY <2>1, <3>1, <3>2
  <2>3. PICK n : n = IF c = "B" THEN "default" ELSE IF c = "0" THEN "special" ELSE cs[g]
    OBVIOUS
  <2>4. n \in {"default", "special"}
    BY <2>2, <2>3 DEF Sets
  <2>5. PICK ds : ds = [cs EXCEPT ![g] = n]
    OBVIOUS
  <2>6. ds \in Sets
    BY <2>2, <2>4, <2>5 DEF Sets
  <2>7. term' = [b EXCEPT !.gselect = 0, !.charsets = ds]
    BY <1>2, <1>4, <1>9, <2>1, <2>3, <2>5 DEF Designates, Terms
  <2> QED
    BY <1>4, <2>6, <2>7, LiteralsFit DEF Terms
<1>10. CASE StartsEscape(c)
  <2>1. term' = [b EXCEPT !.gselect = 0, !.escape = TRUE, !.offset = 0]
    BY <1>2, <1>10 DEF StartsEscape
  <2> QED
    BY <1>4, <2>1, LiteralsFit DEF Terms
<1>11. CASE Controls(c)
  <2>1. PICK u : u = [b EXCEPT !.gselect = 0, !.graphic = FALSE]
    OBVIOUS
  <2>2. u \in Terms({TRUE}, M, P)
    BY <1>4, <2>1, LiteralsFit DEF Terms
  <2>3. term' = execute_c0(u, c)
    BY <1>2, <1>11, <2>1 DEF Controls
  <2> QED
    BY <1>4, <2>2, <2>3, ControlIs
<1>12. CASE Prints(c)
  <2>1. PICK u : u = [b EXCEPT !.graphic = TRUE]
    OBVIOUS
  <2>2. u \in Terms({TRUE}, M, P)
    BY <1>4, <2>1, LiteralsFit DEF Terms
  <2>3. term' = raw_putchar(u)
    BY <1>2, <1>12, <2>1 DEF Prints
  <2> QED
    BY <1>4, <2>2, <2>3, PutIs
<1> QED
  BY <1>5, <1>6, <1>7, <1>8, <1>9, <1>10, <1>11, <1>12

\* The last byte of a UTF-8 character is printed.
LEMMA ContinuesIsGood ==
    ASSUME term \in Good, NEW c, NEW width \in 0 .. 2, Continues(c, width)
    PROVE  term' \in Good
<1>1. PICK N, R : term \in Terms({TRUE}, N, R) /\ Terms({TRUE}, N, R) \subseteq Good
  BY GoodIs
<1>2. term.uni \in 0 .. 3 /\ term.graphic \in BOOLEAN
  BY <1>1 DEF Terms, UpTo, Flags
<1>3. CASE term.uni > 1
  <2>1. PICK k : k = term.uni - 1
    OBVIOUS
  <2>2. k \in UpTo(3)
    BY <1>2, <1>3, <2>1 DEF UpTo
  <2>3. term' = [term EXCEPT !.uni = k]
    BY <1>3, <2>1 DEF Continues
  <2> QED
    BY <1>1, <2>2, <2>3 DEF Terms
<1>4. CASE ~(term.uni > 1)
  <2>1. PICK g : g = (term.graphic \/ width > 0)
    OBVIOUS
  <2>2. g \in Flags
    BY <2>1 DEF Flags
  <2>3. PICK u : u = [term EXCEPT !.uni = 0, !.graphic = g]
    OBVIOUS
  <2>4. u \in Terms({TRUE}, N, R)
    BY <1>1, <2>2, <2>3, LiteralsFit DEF Terms
  <2>5. term' = put_repeated(u, width)
    BY <1>4, <2>1, <2>3 DEF Continues
  <2>6. width \in Nat
    OBVIOUS
  <2> QED
    BY <1>1, <2>4, <2>5, <2>6, RepeatedIs
<1> QED
  BY <1>3, <1>4

\* The digits of a number.
LEMMA DigitsAreGood ==
    ASSUME term \in Good, NEW ds \in Seq(Nat), Digits(ds)
    PROVE  term' \in Good
<1>1. term \in Closed
  BY DEF Digits, Good, Open, Terms
<1>2. PICK k : k = Least(term.offset + Len(ds), 3)
  OBVIOUS
<1>3. k \in UpTo(3)
  <2>1. term.offset \in 0 .. 3
    BY <1>1 DEF Closed, Terms, UpTo
  <2>2. Len(ds) \in Nat
    BY LenProperties
  <2> QED
    BY <1>2, <2>1, <2>2 DEF UpTo, Least
<1>4. PICK t : t = [term EXCEPT !.offset = k]
  OBVIOUS
<1>5. t \in Closed
  BY <1>1, <1>3, <1>4 DEF Closed, Terms
<1>6. term' = IF t.n = EscValues THEN t
              ELSE [t EXCEPT !.rrr = TRUE, !.values[t.n + 1] = AddDigits(@, ds)]
  BY <1>2, <1>4 DEF Digits
<1> QED
  BY <1>5, <1>6, NumberIs DEF Good

\* A good context is a sound one.
LEMMA GoodIsSound ==
    ASSUME term \in Good
    PROVE  TerminalIsSound /\ TermTypeOK
<1>1. PICK N, R : N \subseteq UpTo(EscValues) /\ term \in Terms({TRUE}, N, R)
  BY GoodIs
<1>2. /\ term.x \in Columns /\ term.y \in Rows /\ term.margin \in Margins /\ term.scroll = TRUE
      /\ term.mark \in Points /\ term.saved \in SavedTerm /\ term.n \in UpTo(EscValues)
      /\ term.values \in Values /\ term.oscLen \in UpTo(OscBytes) /\ term.gselect \in UpTo(2)
      /\ term.uni \in UpTo(3)
  BY <1>1 DEF Terms
<1>3. TermTypeOK
  BY <1>2 DEF TermTypeOK, UpTo, Values
<1>4. term.saved.x \in Columns /\ term.saved.y \in Rows /\ term.saved.margin \in Margins
  BY <1>2 DEF SavedTerm
<1>5. ASSUME NEW m \in Margins PROVE 0 <= m.top /\ m.top < m.bottom - 1 /\ m.bottom <= TermRows
  BY DEF Margins
<1>6. term.mark.x \in 0 .. TermCols - 1 /\ term.mark.y \in 0 .. TermRows - 1
  BY <1>2 DEF Points, Rows
<1>7. ASSUME NEW s \in {term, term.saved}
      PROVE  /\ s.x \in 0 .. TermCols /\ s.y \in 0 .. TermRows - 1
             /\ 0 <= s.margin.top /\ s.margin.top < s.margin.bottom - 1 /\ s.margin.bottom <= TermRows
  <2>1. s.x \in Columns /\ s.y \in Rows /\ s.margin \in Margins
    BY <1>2, <1>4
  <2> QED
    BY <1>5, <2>1 DEF Columns, Rows
<1>8. TerminalIsSound
  BY <1>2, <1>6, <1>7 DEF TerminalIsSound
<1> QED
  BY <1>3, <1>8


(***************************************************************************)
(* The screen: its cells, its queue and what the framebuffer shows.        *)
(***************************************************************************)
\* The fields of a screen of n cells.
Items(n) == [cell : 0 .. n - 1, c : FbChar]
Queues(n) == Seq(Items(n))
Grids(n) == [0 .. n - 1 -> FbChar]
Maps(n) == [0 .. n - 1 -> Nat]

\* The screens of C columns and R lines, which are N cells.
ScreenOf(C, R, N) ==
    [cols : {C}, rows : {R}, grid : Grids(N), map : Maps(N), queue : Queues(N), x : Nat, y : Nat,
     oldX : Nat, oldY : Nat, cursor : BOOLEAN, top : Nat, bottom : Nat]

\* All of a screen but its queue.
Frame(s) == <<s.cols, s.rows, s.grid, s.x, s.y, s.oldX, s.oldY, s.cursor, s.top, s.bottom>>

\* C columns and R lines are N cells.
Size(C, R, N) == C \in Nat \ {0} /\ R \in Nat \ {0} /\ N \in Nat /\ C * R = N

\* The map and the queue point at each other.
Linked(s, N) ==
    /\ \A i \in 0 .. N - 1 :
         s.map[i] \in 0 .. Len(s.queue) /\ (s.map[i] # 0 => s.queue[s.map[i]].cell = i)
    /\ \A k \in 1 .. Len(s.queue) : s.map[s.queue[k].cell] = k

\* A screen has a cell.
LEMMA SizeIs ==
    ASSUME NEW C, NEW R, NEW N, Size(C, R, N)
    PROVE  /\ C \in Nat /\ C > 0 /\ R \in Nat /\ R > 0 /\ N \in Nat /\ N > 0
           /\ C * R = N /\ R * C = N
<1>1. C \in Nat /\ C > 0 /\ R \in Nat /\ R > 0 /\ N \in Nat /\ C * R = N
  BY DEF Size
<1> QED
  BY <1>1

\* The fields of a screen.
LEMMA ScreenIs ==
    ASSUME NEW C, NEW R, NEW N, Size(C, R, N), NEW s \in ScreenOf(C, R, N)
    PROVE  /\ s.cols = C /\ s.rows = R /\ s.cols * s.rows = N /\ Cells(s) = 0 .. N - 1
           /\ s.grid \in Grids(N) /\ s.map \in Maps(N) /\ s.queue \in Queues(N)
           /\ s.x \in Nat /\ s.y \in Nat /\ s.oldX \in Nat /\ s.oldY \in Nat
           /\ s.cursor \in BOOLEAN /\ s.top \in Nat /\ s.bottom \in Nat
<1>1. /\ s.cols = C /\ s.rows = R
      /\ s.grid \in Grids(N) /\ s.map \in Maps(N) /\ s.queue \in Queues(N)
      /\ s.x \in Nat /\ s.y \in Nat /\ s.oldX \in Nat /\ s.oldY \in Nat
      /\ s.cursor \in BOOLEAN /\ s.top \in Nat /\ s.bottom \in Nat
  BY DEF ScreenOf
<1>2. C * R = N
  BY DEF Size
<1> QED
  BY <1>1, <1>2 DEF Cells

\* A screen with another queue and map.
Requeue(s, q, m) == [s EXCEPT !.queue = q, !.map = m]

\* Only the queue and the map are new.
LEMMA Requeued ==
    ASSUME NEW C, NEW R, NEW N, NEW s \in ScreenOf(C, R, N), NEW q \in Queues(N), NEW m \in Maps(N)
    PROVE  LET u == Requeue(s, q, m)
           IN  u \in ScreenOf(C, R, N) /\ u.queue = q /\ u.map = m /\ Frame(u) = Frame(s)
  BY DEF ScreenOf, Frame, Requeue

\* There are n places in a queue of n, and n cells on a screen of n.
LEMMA CellCount ==
    ASSUME NEW n \in Nat
    PROVE  /\ IsFiniteSet(1 .. n) /\ Cardinality(1 .. n) = n
           /\ IsFiniteSet(0 .. n - 1) /\ Cardinality(0 .. n - 1) = n
<1> DEFINE l == n - 1
<1>1. 0 \in Int /\ 1 \in Int /\ n \in Int /\ l \in Int
  OBVIOUS
<1>2. IsFiniteSet(1 .. n) /\ Cardinality(1 .. n) = IF 1 > n THEN 0 ELSE n - 1 + 1
  BY <1>1, FS_Interval, Zenon
<1> HIDE DEF l
<1>3. IsFiniteSet(0 .. l) /\ Cardinality(0 .. l) = IF 0 > l THEN 0 ELSE l - 0 + 1
  BY <1>1, FS_Interval, Zenon
<1>4. (IF 1 > n THEN 0 ELSE n - 1 + 1) = n /\ (IF 0 > l THEN 0 ELSE l - 0 + 1) = n
  BY DEF l
<1> QED
  BY <1>2, <1>3, <1>4 DEF l

\* A queue as long as the screen has cells holds every cell.
LEMMA Room ==
    ASSUME NEW C, NEW R, NEW N, Size(C, R, N), NEW s \in ScreenOf(C, R, N), Linked(s, N),
           NEW i \in 0 .. N - 1, s.map[i] = 0
    PROVE  Len(s.queue) # N
<1> SUFFICES ASSUME Len(s.queue) = N PROVE FALSE
  OBVIOUS
<1>1. N \in Nat /\ s.queue \in Seq(Items(N))
  BY ScreenIs DEF Size, Queues
<1>2. \A k \in 1 .. N : s.queue[k] \in Items(N)
  BY <1>1, ElementOfSeq
<1> DEFINE S == 1 .. N
           T == (0 .. N - 1) \ {i}
           f == [k \in S |-> s.queue[k].cell]
<1>3. \A k \in S : s.queue[k].cell \in T
  <2> TAKE k \in S
  <2>1. s.queue[k].cell \in 0 .. N - 1
    BY <1>2 DEF Items
  <2>2. s.map[s.queue[k].cell] = k
    BY DEF Linked
  <2> QED
    BY <2>1, <2>2
<1>4. f \in [S -> T]
  BY <1>3
<1>5. IsFiniteSet(S) /\ Cardinality(S) = N /\ IsFiniteSet(0 .. N - 1) /\ Cardinality(0 .. N - 1) = N
  BY <1>1, CellCount
<1>6. IsFiniteSet(T) /\ Cardinality(T) = N - 1
  BY <1>5, FS_RemoveElement
<1>7. Cardinality(T) < Cardinality(S)
  BY <1>1, <1>5, <1>6
<1> HIDE DEF S, T, f
<1>8. PICK k, l \in S : k # l /\ f[k] = f[l]
  BY <1>4, <1>5, <1>6, <1>7, FS_PigeonHole
<1>9. s.queue[k].cell = s.queue[l].cell
  BY <1>8 DEF f
<1> QED
  BY <1>8, <1>9 DEF Linked, S

\* What push_to_queue does: one cell has a new content.
Pushed(s, u, c, i, N) ==
    /\ Linked(u, N) /\ Frame(u) = Frame(s)
    /\ \A j \in 0 .. N - 1 : Content(u, j) = IF j = i THEN c ELSE Content(s, j)

\* push_to_queue writes its cell and no other; it never drops the character.
LEMMA PushIs ==
    ASSUME NEW C, NEW R, NEW N, Size(C, R, N), NEW s \in ScreenOf(C, R, N), Linked(s, N),
           NEW c \in FbChar, NEW i \in 0 .. N - 1
    PROVE  push_to_queue(s, c, i) \in ScreenOf(C, R, N) /\ Pushed(s, push_to_queue(s, c, i), c, i, N)
<1> DEFINE u == push_to_queue(s, c, i)
           q == s.queue
           m == s.map
<1>1. s.cols * s.rows = N /\ N \in Nat /\ q \in Seq(Items(N)) /\ m \in [0 .. N - 1 -> Nat] /\ Len(q) \in Nat
  BY ScreenIs, LenProperties DEF Size, Queues, Maps
<1>2. \A k \in 1 .. Len(q) : q[k] \in Items(N)
  BY <1>1, ElementOfSeq
<1>3. CASE m[i] # 0
  <2> DEFINE k == m[i]
             p == [q EXCEPT ![k] = [q[k] EXCEPT !.c = c]]
  <2>1. k \in 1 .. Len(q) /\ q[k].cell = i
    BY <1>3 DEF Linked
  <2>2. q[k] \in Items(N)
    BY <1>2, <2>1
  <2>3. [q[k] EXCEPT !.c = c] \in Items(N) /\ [q[k] EXCEPT !.c = c].c = c
        /\ [q[k] EXCEPT !.c = c].cell = q[k].cell
    BY <2>2 DEF Items
  <2>4. /\ p \in Seq(Items(N)) /\ Len(p) = Len(q)
        /\ \A j \in 1 .. Len(q) : p[j] = IF j = k THEN [q[k] EXCEPT !.c = c] ELSE q[j]
    BY <1>1, <2>1, <2>3, ExceptSeq
  <2>5. u = [s EXCEPT !.queue = p]
    BY <1>3 DEF push_to_queue
  <2> HIDE DEF p
  <2>6. u = Requeue(s, p, m)
    BY <2>5 DEF ScreenOf, Requeue
  <2>7. u \in ScreenOf(C, R, N) /\ u.queue = p /\ u.map = m /\ Frame(u) = Frame(s)
    <3>1. p \in Queues(N) /\ m \in Maps(N)
      BY <1>1, <2>4 DEF Queues, Maps
    <3> HIDE DEF u, m
    <3>2. /\ Requeue(s, p, m) \in ScreenOf(C, R, N) /\ Requeue(s, p, m).queue = p
          /\ Requeue(s, p, m).map = m /\ Frame(Requeue(s, p, m)) = Frame(s)
      BY <3>1, Requeued
    <3> QED
      BY <2>6, <3>2
  <2>8. u.grid = s.grid
    BY <2>7 DEF Frame
  <2>9. \A j \in 1 .. Len(q) : p[j].cell = q[j].cell
    BY <2>3, <2>4
  <2>10. Linked(u, N)
    BY <2>4, <2>7, <2>9 DEF Linked
  <2>11. \A j \in 0 .. N - 1 : m[j] # 0 /\ j # i => m[j] \in 1 .. Len(q) /\ m[j] # k
    BY <2>1 DEF Linked
  <2>12. \A j \in 0 .. N - 1 : Content(u, j) = IF j = i THEN c ELSE Content(s, j)
    BY <1>3, <2>1, <2>3, <2>4, <2>7, <2>8, <2>11 DEF Content
  <2> QED
    BY <2>7, <2>10, <2>12 DEF Pushed
<1>4. CASE m[i] = 0 /\ s.grid[i] = c
  <2>1. u = s
    BY <1>4 DEF push_to_queue
  <2> QED
    BY <1>4, <2>1 DEF Pushed, Content
<1>5. CASE m[i] = 0 /\ s.grid[i] # c
  <2> DEFINE e == [cell |-> i, c |-> c]
             n == Len(q) + 1
             p == Append(q, e)
             l == [m EXCEPT ![i] = n]
  <2>1. Len(q) # N
    BY <1>5, Room
  <2>2. u = Requeue(s, p, l)
    BY <1>1, <1>5, <2>1 DEF push_to_queue, ScreenOf, Requeue
  <2>3. e \in Items(N) /\ e.cell = i /\ e.c = c
    BY DEF Items
  <2>4. /\ p \in Seq(Items(N)) /\ Len(p) = n /\ p[n] = e
        /\ \A j \in 1 .. Len(q) : p[j] = q[j]
    BY <1>1, <2>3, AppendProperties
  <2>5. l \in [0 .. N - 1 -> Nat] /\ n \in Nat /\ n # 0
    BY <1>1
  <2> HIDE DEF p, e
  <2>6. u \in ScreenOf(C, R, N) /\ u.queue = p /\ u.map = l /\ Frame(u) = Frame(s)
    <3>1. p \in Queues(N) /\ l \in Maps(N)
      BY <2>4, <2>5 DEF Queues, Maps
    <3> HIDE DEF u, l
    <3>2. /\ Requeue(s, p, l) \in ScreenOf(C, R, N) /\ Requeue(s, p, l).queue = p
          /\ Requeue(s, p, l).map = l /\ Frame(Requeue(s, p, l)) = Frame(s)
      BY <3>1, Requeued
    <3> QED
      BY <2>2, <3>2
  <2>7. u.grid = s.grid
    BY <2>6 DEF Frame
  <2>8. \A j \in 0 .. N - 1 : l[j] = IF j = i THEN n ELSE m[j]
    BY <1>1
  <2> HIDE DEF l
  <2>9. \A j \in 0 .. N - 1 : j # i => m[j] \in 0 .. Len(q) /\ (m[j] # 0 => m[j] \in 1 .. Len(q) /\ q[m[j]].cell = j)
    BY DEF Linked
  <2>10. ASSUME NEW j \in 0 .. N - 1 PROVE l[j] \in 0 .. Len(p) /\ (l[j] # 0 => p[l[j]].cell = j)
    <3>1. CASE j = i
      BY <1>1, <2>3, <2>4, <2>8, <3>1
    <3>2. CASE j # i
      <4>1. l[j] = m[j] /\ m[j] \in 0 .. Len(q) /\ (m[j] # 0 => p[m[j]] = q[m[j]] /\ q[m[j]].cell = j)
        BY <2>4, <2>8, <2>9, <3>2
      <4> QED
        BY <1>1, <2>4, <4>1
    <3> QED
      BY <3>1, <3>2
  <2>11. ASSUME NEW k \in 1 .. Len(p) PROVE l[p[k].cell] = k
    <3>1. CASE k = n
      BY <2>3, <2>4, <2>8, <3>1
    <3>2. CASE k # n
      <4>1. k \in 1 .. Len(q)
        BY <1>1, <2>4, <3>2
      <4>2. p[k] = q[k] /\ q[k].cell \in 0 .. N - 1 /\ m[q[k].cell] = k
        BY <1>2, <2>4, <4>1 DEF Linked, Items
      <4>3. q[k].cell # i
        BY <1>5, <4>1, <4>2
      <4> QED
        BY <2>8, <4>2, <4>3
    <3> QED
      BY <3>1, <3>2
  <2>12. Linked(u, N)
    BY <2>6, <2>10, <2>11 DEF Linked
  <2>13. \A j \in 0 .. N - 1 : Content(u, j) = IF j = i THEN c ELSE Content(s, j)
    BY <2>3, <2>4, <2>5, <2>6, <2>7, <2>8, <2>9 DEF Content
  <2> QED
    BY <2>6, <2>12, <2>13 DEF Pushed
<1> QED
  BY <1>3, <1>4, <1>5

\* The screens whose map and queue agree.
LinkedOf(C, R, N) == {s \in ScreenOf(C, R, N) : Linked(s, N)}

\* A cell holds a character.
LEMMA ContentIs ==
    ASSUME NEW C, NEW R, NEW N, Size(C, R, N), NEW s \in LinkedOf(C, R, N), NEW i \in 0 .. N - 1
    PROVE  Content(s, i) \in FbChar
<1>1. s \in ScreenOf(C, R, N) /\ Linked(s, N)
  BY DEF LinkedOf
<1>2. s.grid \in [0 .. N - 1 -> FbChar] /\ s.queue \in Seq(Items(N))
  BY <1>1, ScreenIs DEF Grids, Queues
<1>3. s.map[i] # 0 => s.queue[s.map[i]] \in Items(N)
  <2>1. s.map[i] # 0 => s.map[i] \in 1 .. Len(s.queue)
    BY <1>1 DEF Linked
  <2> QED
    BY <1>2, <2>1, ElementOfSeq
<1> QED
  BY <1>2, <1>3 DEF Content, Items

\* The cells of a list, from the first k on, hold what stood d cells on; the others are as before.
Copied(s, u, to, d, k, N) ==
    /\ Frame(u) = Frame(s)
    /\ \A l \in 1 .. k : Content(u, to[l]) = Content(s, to[l] + d)
    /\ \A j \in 0 .. N - 1 : (\A l \in 1 .. k : j # to[l]) => Content(u, j) = Content(s, j)

\* A run of moves reads what stood there at first, if no cell is read once it is written.
LEMMA MoveAllIs ==
    ASSUME NEW C, NEW R, NEW N, Size(C, R, N), NEW s \in LinkedOf(C, R, N), NEW d \in Int,
           NEW to \in Seq(0 .. N - 1), \A k \in 1 .. Len(to) : to[k] + d \in 0 .. N - 1,
           \A k, l \in 1 .. Len(to) : l < k => to[l] # to[k] /\ to[l] # to[k] + d
    PROVE  /\ MoveAll(s, to, d) \in LinkedOf(C, R, N)
           /\ Copied(s, MoveAll(s, to, d), to, d, Len(to), N)
<1> DEFINE n == Len(to)
           T == LinkedOf(C, R, N)
           Move(u, i) == push_to_queue(u, Content(u, i + d), i)
           Rec(f) == f = [k \in 0 .. n |-> IF k = 0 THEN s ELSE Move(f[k - 1], to[k])]
           G == [k \in 1 .. n |-> [u \in T |-> Move(u, to[k])]]
<1>0. n \in Nat /\ N \in Nat /\ \A k \in 1 .. n : to[k] \in 0 .. N - 1
  BY LenProperties, ElementOfSeq DEF Size
<1>1. MoveAll(s, to, d) = (CHOOSE f : Rec(f))[n]
  BY DEF MoveAll
<1>2. ASSUME NEW u \in T, NEW i \in 0 .. N - 1, i + d \in 0 .. N - 1
      PROVE  Move(u, i) \in T /\ Pushed(u, Move(u, i), Content(u, i + d), i, N)
  <2>1. Content(u, i + d) \in FbChar
    BY <1>2, ContentIs
  <2>2. u \in ScreenOf(C, R, N) /\ Linked(u, N)
    BY DEF LinkedOf
  <2>3. /\ Move(u, i) \in ScreenOf(C, R, N)
        /\ Pushed(u, Move(u, i), Content(u, i + d), i, N)
    BY <2>1, <2>2, PushIs
  <2> QED
    BY <2>3 DEF LinkedOf, Pushed
<1>3. s \in T /\ \A k \in 1 .. n, u \in T : Move(u, to[k]) \in T
  BY <1>0, <1>2
<1> HIDE DEF T, Move
<1>4. G \in [1 .. n -> [T -> T]] /\ \A k \in 1 .. n, u \in T : G[k][u] = Move(u, to[k])
  BY <1>3
<1> HIDE DEF G
<1>5. PICK f \in [0 .. n -> T] : f[0] = s /\ \A i \in 1 .. n : f[i] = G[i][f[i - 1]]
  <2>1. \E f : Repeats(f, n, T, G, s)
    BY <1>0, <1>3, <1>4, Iteration
  <2> QED
    BY <2>1 DEF Repeats
<1>6. Rec(f)
  <2>1. \A i \in 1 .. n : i - 1 \in 0 .. n
    BY <1>0
  <2>2. \A i \in 1 .. n : f[i] = Move(f[i - 1], to[i])
    BY <1>4, <1>5, <2>1, Zenon
  <2>3. \A i \in 0 .. n : i = 0 \/ i \in 1 .. n
    BY <1>0
  <2>4. \A i \in 0 .. n : f[i] = IF i = 0 THEN s ELSE Move(f[i - 1], to[i])
    BY <1>5, <2>2, <2>3, Zenon
  <2> QED
    BY <1>5, <2>4
<1>7. PICK x : x = (CHOOSE g : Rec(g)) /\ Rec(x)
  BY <1>6
<1>8. \A i \in 0 .. n : x[i] = IF i = 0 THEN s ELSE Move(x[i - 1], to[i])
  BY <1>7
<1> DEFINE K == {k \in 0 .. n : x[k] \in T /\ Copied(s, x[k], to, d, k, N)}
<1>9. 0 \in K
  BY <1>0, <1>3, <1>8 DEF Copied
<1>10. ASSUME NEW k \in 1 .. n, k - 1 \in K PROVE k \in K
  <2> DEFINE v == x[k - 1]
             u == x[k]
             i == to[k]
  <2>1. /\ k \in 0 .. n /\ k # 0 /\ i \in 0 .. N - 1 /\ i + d \in 0 .. N - 1 /\ u = Move(v, i)
        /\ v \in T /\ Copied(s, v, to, d, k - 1, N)
    BY <1>0, <1>8, <1>10
  <2>2. u \in T /\ Pushed(v, u, Content(v, i + d), i, N)
    BY <1>2, <2>1
  <2>3. \A l \in 1 .. k - 1 : l \in 1 .. n /\ to[l] # i /\ to[l] # i + d /\ to[l] \in 0 .. N - 1
    BY <1>0
  <2>4. Content(v, i + d) = Content(s, i + d)
    BY <2>1, <2>3 DEF Copied
  <2> HIDE DEF v, u
  <2>5. Frame(u) = Frame(s)
    BY <2>1, <2>2 DEF Copied, Pushed
  <2>6. \A j \in 0 .. N - 1 : Content(u, j) = IF j = i THEN Content(s, i + d) ELSE Content(v, j)
    BY <2>2, <2>4 DEF Pushed
  <2>7. \A l \in 1 .. k : l = k \/ l \in 1 .. k - 1
    BY <1>0
  <2>8. \A l \in 1 .. k : Content(u, to[l]) = Content(s, to[l] + d)
    <3>1. \A l \in 1 .. k - 1 : Content(u, to[l]) = Content(s, to[l] + d)
      BY <2>1, <2>3, <2>6 DEF Copied
    <3>2. Content(u, to[k]) = Content(s, to[k] + d)
      BY <2>1, <2>6
    <3> QED
      BY <2>7, <3>1, <3>2
  <2>9. ASSUME NEW j \in 0 .. N - 1, \A l \in 1 .. k : j # to[l] PROVE Content(u, j) = Content(s, j)
    <3>1. k \in 1 .. k /\ \A l \in 1 .. k - 1 : l \in 1 .. k
      BY <1>0
    <3>2. j # i /\ \A l \in 1 .. k - 1 : j # to[l]
      BY <2>9, <3>1
    <3> QED
      BY <2>1, <2>6, <3>2 DEF Copied
  <2> QED
    BY <2>1, <2>2, <2>5, <2>8, <2>9 DEF Copied, u
<1> HIDE DEF K
<1>11. \A k \in 0 .. n : k \in K
  BY <1>0, <1>9, <1>10, CountsUp
<1>12. n \in K /\ MoveAll(s, to, d) = x[n]
  BY <1>0, <1>1, <1>7, <1>11
<1> QED
  BY <1>12 DEF K, T

\* The n cells from a first one on are blank; the others are as before.
Cleared(s, u, first, n, N) ==
    /\ Frame(u) = Frame(s)
    /\ \A j \in 0 .. N - 1 :
         Content(u, j) = IF first <= j /\ j < first + n THEN "blank" ELSE Content(s, j)

\* A run of cells is cleared.
LEMMA BlankedIs ==
    ASSUME NEW C, NEW R, NEW N, Size(C, R, N), NEW s \in LinkedOf(C, R, N),
           NEW first \in Nat, NEW n \in Nat, first + n <= N
    PROVE  /\ Blanked(s, first, n) \in LinkedOf(C, R, N)
           /\ Cleared(s, Blanked(s, first, n), first, n, N)
<1> DEFINE T == LinkedOf(C, R, N)
           Blank(u, k) == push_to_queue(u, "blank", first + k - 1)
           Rec(f) == f = [k \in 0 .. n |-> IF k = 0 THEN s ELSE Blank(f[k - 1], k)]
           G == [k \in 1 .. n |-> [u \in T |-> Blank(u, k)]]
<1>0. N \in Nat /\ \A k \in 1 .. n : first + k - 1 \in 0 .. N - 1
  BY DEF Size
<1>1. Blanked(s, first, n) = (CHOOSE f : Rec(f))[n]
  BY DEF Blanked
<1>2. ASSUME NEW u \in T, NEW k \in 1 .. n
      PROVE  Blank(u, k) \in T /\ Pushed(u, Blank(u, k), "blank", first + k - 1, N)
  <2>1. "blank" \in FbChar
    BY FbAssumption
  <2>2. u \in ScreenOf(C, R, N) /\ Linked(u, N)
    BY DEF LinkedOf
  <2>3. /\ Blank(u, k) \in ScreenOf(C, R, N)
        /\ Pushed(u, Blank(u, k), "blank", first + k - 1, N)
    BY <1>0, <2>1, <2>2, PushIs
  <2> QED
    BY <2>3 DEF LinkedOf, Pushed
<1>3. s \in T /\ \A k \in 1 .. n, u \in T : Blank(u, k) \in T
  BY <1>2
<1> HIDE DEF T, Blank
<1>4. G \in [1 .. n -> [T -> T]] /\ \A k \in 1 .. n, u \in T : G[k][u] = Blank(u, k)
  BY <1>3
<1> HIDE DEF G
<1>5. PICK f \in [0 .. n -> T] : f[0] = s /\ \A i \in 1 .. n : f[i] = G[i][f[i - 1]]
  <2>1. \E f : Repeats(f, n, T, G, s)
    BY <1>3, <1>4, Iteration
  <2> QED
    BY <2>1 DEF Repeats
<1>6. Rec(f)
  <2>1. \A i \in 1 .. n : i - 1 \in 0 .. n
    OBVIOUS
  <2>2. \A i \in 0 .. n : f[i] = IF i = 0 THEN s ELSE Blank(f[i - 1], i)
    BY <1>4, <1>5, <2>1
  <2> QED
    BY <1>5, <2>2
<1>7. PICK x : x = (CHOOSE g : Rec(g)) /\ Rec(x)
  BY <1>6
<1>8. \A i \in 0 .. n : x[i] = IF i = 0 THEN s ELSE Blank(x[i - 1], i)
  BY <1>7
<1> DEFINE K == {k \in 0 .. n : x[k] \in T /\ Cleared(s, x[k], first, k, N)}
<1>9. 0 \in K
  BY <1>0, <1>3, <1>8 DEF Cleared
<1>10. ASSUME NEW k \in 1 .. n, k - 1 \in K PROVE k \in K
  <2> DEFINE v == x[k - 1]
             u == x[k]
             i == first + k - 1
  <2>1. k \in 0 .. n /\ k # 0 /\ u = Blank(v, k) /\ v \in T /\ Cleared(s, v, first, k - 1, N)
    BY <1>8, <1>10
  <2>2. u \in T /\ Pushed(v, u, "blank", i, N)
    BY <1>2, <2>1
  <2> HIDE DEF v, u
  <2>3. Frame(u) = Frame(s)
    BY <2>1, <2>2 DEF Cleared, Pushed
  <2>4. ASSUME NEW j \in 0 .. N - 1
        PROVE  Content(u, j) = IF first <= j /\ j < first + k THEN "blank" ELSE Content(s, j)
    <3>1. Content(u, j) = IF j = i THEN "blank" ELSE Content(v, j)
      BY <2>2 DEF Pushed
    <3>2. Content(v, j) = IF first <= j /\ j < first + (k - 1) THEN "blank" ELSE Content(s, j)
      BY <2>1 DEF Cleared
    <3>3. (first <= j /\ j < first + k) <=> (first <= j /\ j < first + (k - 1)) \/ j = i
      BY <1>0
    <3> QED
      BY <3>1, <3>2, <3>3
  <2> QED
    BY <2>1, <2>2, <2>3, <2>4 DEF Cleared, u
<1> HIDE DEF K
<1>11. \A k \in 0 .. n : k \in K
  BY <1>9, <1>10, CountsUp
<1>12. n \in K /\ Blanked(s, first, n) = x[n]
  BY <1>1, <1>7, <1>11
<1> QED
  BY <1>12 DEF K, T

\* What a cell of the framebuffer shows.
Marks == [c : FbChar, inverse : BOOLEAN]
Views(n) == [0 .. n - 1 -> Marks]
Plots(C, R, N) == [s : ScreenOf(C, R, N), view : Views(N)]

\* All of a screen but its grid and its map.
Rest(s) == <<s.cols, s.rows, s.queue, s.x, s.y, s.oldX, s.oldY, s.cursor, s.top, s.bottom>>

\* A screen with another grid and map.
Replot(s, g, m) == [s EXCEPT !.grid = g, !.map = m]

\* Only the grid and the map are new.
LEMMA Replotted ==
    ASSUME NEW C, NEW R, NEW N, NEW s \in ScreenOf(C, R, N), NEW g \in Grids(N), NEW m \in Maps(N)
    PROVE  LET u == Replot(s, g, m)
           IN  u \in ScreenOf(C, R, N) /\ u.grid = g /\ u.map = m /\ Rest(u) = Rest(s)
  BY DEF ScreenOf, Rest, Replot

\* An item of the queue that is not done is plotted, and its cell no longer waits.
LEMMA PlotIs ==
    ASSUME NEW C, NEW R, NEW N, NEW u \in Plots(C, R, N), NEW q \in Items(N)
    PROVE  LET p == PlotItem(u, q)
           IN  /\ p \in Plots(C, R, N) /\ Rest(p.s) = Rest(u.s)
               /\ \A j \in 0 .. N - 1 :
                    LET now == j = q.cell /\ u.s.map[j] # 0
                    IN  /\ p.s.map[j] = IF now THEN 0 ELSE u.s.map[j]
                        /\ p.s.grid[j] = IF now THEN q.c ELSE u.s.grid[j]
                        /\ p.view[j] = IF now THEN [c |-> q.c, inverse |-> FALSE] ELSE u.view[j]
<1> DEFINE s == u.s
           i == q.cell
           p == PlotItem(u, q)
<1>1. s \in ScreenOf(C, R, N) /\ u.view \in Views(N) /\ i \in 0 .. N - 1 /\ q.c \in FbChar
  BY DEF Plots, Items
<1>2. s.grid \in Grids(N) /\ s.map \in Maps(N)
  BY <1>1 DEF ScreenOf
<1>3. CASE s.map[i] = 0
  <2>1. p = u
    BY <1>3 DEF PlotItem
  <2> QED
    BY <1>3, <2>1
<1>4. CASE s.map[i] # 0
  <2> DEFINE g == [s.grid EXCEPT ![i] = q.c]
             m == [s.map EXCEPT ![i] = 0]
             w == [u.view EXCEPT ![i] = [c |-> q.c, inverse |-> FALSE]]
  <2>1. p = [s |-> Replot(s, g, m), view |-> w]
    BY <1>1, <1>4 DEF PlotItem, Replot, ScreenOf
  <2>2. g \in Grids(N) /\ \A j \in 0 .. N - 1 : g[j] = IF j = i THEN q.c ELSE s.grid[j]
    BY <1>1, <1>2 DEF Grids
  <2>3. m \in Maps(N) /\ \A j \in 0 .. N - 1 : m[j] = IF j = i THEN 0 ELSE s.map[j]
    BY <1>1, <1>2 DEF Maps
  <2>4. w \in Views(N) /\ \A j \in 0 .. N - 1 : w[j] = IF j = i THEN [c |-> q.c, inverse |-> FALSE] ELSE u.view[j]
    BY <1>1 DEF Views, Marks
  <2> HIDE DEF g, m, w
  <2>5. /\ Replot(s, g, m) \in ScreenOf(C, R, N) /\ Replot(s, g, m).grid = g
        /\ Replot(s, g, m).map = m /\ Rest(Replot(s, g, m)) = Rest(s)
    BY <1>1, <2>2, <2>3, Replotted
  <2>6. p.s = Replot(s, g, m) /\ p.view = w
    BY <2>1
  <2>7. p \in Plots(C, R, N)
    BY <2>1, <2>4, <2>5 DEF Plots
  <2>8. p.s.grid = g /\ p.s.map = m /\ Rest(p.s) = Rest(s)
    BY <2>5, <2>6
  <2> HIDE DEF p
  <2> QED
    BY <1>4, <2>2, <2>3, <2>4, <2>6, <2>7, <2>8 DEF p
<1> QED
  BY <1>3, <1>4

\* A queue whose items may be done already.
Waiting(s, N) ==
    /\ \A i \in 0 .. N - 1 :
         s.map[i] \in 0 .. Len(s.queue) /\ (s.map[i] # 0 => s.queue[s.map[i]].cell = i)
    /\ \A k \in 1 .. Len(s.queue) : s.map[s.queue[k].cell] \in {0, k}

\* The first k items of the queue are plotted.
Plotted(s, view, u, k, N) ==
    /\ Rest(u.s) = Rest(s)
    /\ \A j \in 0 .. N - 1 :
         LET done == s.map[j] \in 1 .. k
             c == s.queue[s.map[j]].c
         IN  /\ u.s.map[j] = IF done THEN 0 ELSE s.map[j]
             /\ u.s.grid[j] = IF done THEN c ELSE s.grid[j]
             /\ u.view[j] = IF done THEN [c |-> c, inverse |-> FALSE] ELSE view[j]

\* The flush plots every cell that waits, once.
LEMMA PlotQueueIs ==
    ASSUME NEW C, NEW R, NEW N, Size(C, R, N), NEW s \in ScreenOf(C, R, N), Waiting(s, N),
           NEW view \in Views(N)
    PROVE  /\ PlotQueue(s, view) \in Plots(C, R, N)
           /\ Plotted(s, view, PlotQueue(s, view), Len(s.queue), N)
<1> DEFINE q == s.queue
           n == Len(q)
           T == Plots(C, R, N)
           t == [s |-> s, view |-> view]
           Rec(f) == f = [k \in 0 .. n |-> IF k = 0 THEN t ELSE PlotItem(f[k - 1], q[k])]
           G == [k \in 1 .. n |-> [u \in T |-> PlotItem(u, q[k])]]
<1>0. n \in Nat /\ N \in Nat /\ \A k \in 1 .. n : q[k] \in Items(N) /\ q[k].cell \in 0 .. N - 1
  <2>1. q \in Seq(Items(N)) /\ N \in Nat
    BY ScreenIs DEF Queues, Size
  <2>2. n \in Nat /\ \A k \in 1 .. n : q[k] \in Items(N)
    BY <2>1, LenProperties, ElementOfSeq
  <2> QED
    BY <2>1, <2>2 DEF Items
<1>1. PlotQueue(s, view) = (CHOOSE f : Rec(f))[n]
  BY DEF PlotQueue
<1>2. t \in T /\ t.s = s /\ t.view = view
  BY DEF Plots
<1>3. \A k \in 1 .. n, u \in T : PlotItem(u, q[k]) \in T
  BY <1>0, PlotIs
<1> HIDE DEF T, t
<1>4. G \in [1 .. n -> [T -> T]] /\ \A k \in 1 .. n, u \in T : G[k][u] = PlotItem(u, q[k])
  BY <1>3
<1> HIDE DEF G
<1>5. PICK f \in [0 .. n -> T] : f[0] = t /\ \A i \in 1 .. n : f[i] = G[i][f[i - 1]]
  <2>1. \E f : Repeats(f, n, T, G, t)
    BY <1>0, <1>2, <1>4, Iteration
  <2> QED
    BY <2>1 DEF Repeats
<1>6. Rec(f)
  <2>1. \A i \in 1 .. n : i - 1 \in 0 .. n
    BY <1>0
  <2>2. \A i \in 1 .. n : f[i] = PlotItem(f[i - 1], q[i])
    BY <1>4, <1>5, <2>1, Zenon
  <2>3. \A i \in 0 .. n : i = 0 \/ i \in 1 .. n
    BY <1>0
  <2>4. \A i \in 0 .. n : f[i] = IF i = 0 THEN t ELSE PlotItem(f[i - 1], q[i])
    BY <1>5, <2>2, <2>3, Zenon
  <2> QED
    BY <1>5, <2>4
<1>7. PICK x : x = (CHOOSE g : Rec(g)) /\ Rec(x)
  BY <1>6
<1>8. \A i \in 0 .. n : x[i] = IF i = 0 THEN t ELSE PlotItem(x[i - 1], q[i])
  BY <1>7
<1> DEFINE K == {k \in 0 .. n : x[k] \in T /\ Plotted(s, view, x[k], k, N)}
<1>9. 0 \in K
  BY <1>0, <1>2, <1>8 DEF Plotted
<1>10. ASSUME NEW k \in 1 .. n, k - 1 \in K PROVE k \in K
  <2> DEFINE v == x[k - 1]
             u == x[k]
             e == q[k]
  <2>1. /\ k \in 0 .. n /\ k # 0 /\ u = PlotItem(v, e) /\ v \in Plots(C, R, N)
        /\ e \in Items(N) /\ Plotted(s, view, v, k - 1, N)
    BY <1>0, <1>8, <1>10 DEF T
  <2>2. /\ u \in Plots(C, R, N) /\ Rest(u.s) = Rest(v.s)
        /\ \A j \in 0 .. N - 1 :
             LET now == j = e.cell /\ v.s.map[j] # 0
             IN  /\ u.s.map[j] = IF now THEN 0 ELSE v.s.map[j]
                 /\ u.s.grid[j] = IF now THEN e.c ELSE v.s.grid[j]
                 /\ u.view[j] = IF now THEN [c |-> e.c, inverse |-> FALSE] ELSE v.view[j]
    BY <2>1, PlotIs
  <2>3. Rest(u.s) = Rest(s)
    BY <2>1, <2>2 DEF Plotted
  <2>4. s.map[e.cell] \in {0, k} /\ e.cell \in 0 .. N - 1
    BY <1>0 DEF Waiting
  <2>5. ASSUME NEW j \in 0 .. N - 1
        PROVE  LET done == s.map[j] \in 1 .. k
                   c == s.queue[s.map[j]].c
               IN  /\ u.s.map[j] = IF done THEN 0 ELSE s.map[j]
                   /\ u.s.grid[j] = IF done THEN c ELSE s.grid[j]
                   /\ u.view[j] = IF done THEN [c |-> c, inverse |-> FALSE] ELSE view[j]
    <3> DEFINE done(i) == s.map[j] \in 1 .. i
               c == s.queue[s.map[j]].c
    <3>1. s.map[j] \in 0 .. n /\ (s.map[j] = k => e.cell = j)
      BY DEF Waiting
    <3>2. /\ v.s.map[j] = IF done(k - 1) THEN 0 ELSE s.map[j]
          /\ v.s.grid[j] = IF done(k - 1) THEN c ELSE s.grid[j]
          /\ v.view[j] = IF done(k - 1) THEN [c |-> c, inverse |-> FALSE] ELSE view[j]
      BY <2>1 DEF Plotted
    <3>3. done(k) <=> done(k - 1) \/ s.map[j] = k
      BY <1>0, <3>1
    <3>4. ~(done(k - 1) /\ s.map[j] = k)
      BY <1>0
    <3>5. CASE s.map[j] = k
      <4>1. ~done(k - 1) /\ v.s.map[j] = k /\ j = e.cell /\ c = e.c
        BY <3>1, <3>2, <3>4, <3>5
      <4> HIDE DEF done, c, u, v, e
      <4> QED
        BY <2>1, <2>2, <3>3, <3>5, <4>1 DEF c, done
    <3>6. CASE s.map[j] # k
      <4>1. j = e.cell => v.s.map[j] = 0
        BY <2>4, <3>2, <3>6
      <4>2. u.s.map[j] = v.s.map[j] /\ u.s.grid[j] = v.s.grid[j] /\ u.view[j] = v.view[j]
        BY <2>2, <4>1
      <4> QED
        BY <3>2, <3>3, <3>6, <4>2
    <3> QED
      BY <3>5, <3>6
  <2> QED
    BY <2>1, <2>2, <2>3, <2>5 DEF Plotted, T
<1> HIDE DEF K
<1>11. \A k \in 0 .. n : k \in K
  BY <1>0, <1>9, <1>10, CountsUp
<1>12. n \in K /\ PlotQueue(s, view) = x[n]
  BY <1>0, <1>1, <1>7, <1>11
<1> QED
  BY <1>12 DEF K, T

(***************************************************************************)
(* Lines and columns.                                                      *)
(***************************************************************************)
LEMMA Products ==
    ASSUME NEW a \in Nat, NEW b \in Nat, NEW c \in Nat
    PROVE  a * c \in Nat /\ (a <= b => a * c <= b * c) /\ (a < b => a * c + c <= b * c)
<1>1. a * c \in Nat /\ b * c \in Nat
  OBVIOUS
<1>2. ASSUME a <= b PROVE a * c <= b * c
  <2>1. b - a \in Nat /\ b = a + (b - a)
    BY <1>2
  <2>2. b * c = a * c + (b - a) * c
    BY <2>1
  <2>3. (b - a) * c \in Nat
    BY <2>1
  <2> QED
    BY <1>1, <2>2, <2>3
<1>3. ASSUME a < b PROVE a * c + c <= b * c
  <2>1. b - a - 1 \in Nat /\ b = a + 1 + (b - a - 1)
    BY <1>3
  <2>2. b * c = a * c + c + (b - a - 1) * c
    BY <2>1
  <2>3. (b - a - 1) * c \in Nat
    BY <2>1
  <2> QED
    BY <1>1, <2>2, <2>3
<1> QED
  BY <1>1, <1>2, <1>3

\* A place on the screen is a cell, and places that differ are different cells.
LEMMA AtIs ==
    ASSUME NEW C, NEW R, NEW N, Size(C, R, N), NEW s \in ScreenOf(C, R, N),
           NEW x \in Nat, NEW y \in Nat, OnScreen(s, x, y)
    PROVE  /\ At(s, x, y) \in 0 .. N - 1
           /\ \A a, b \in Nat : OnScreen(s, a, b) /\ At(s, a, b) = At(s, x, y) => a = x /\ b = y
<1>0. s.cols = C /\ s.rows = R
  BY ScreenIs
<1>1. C \in Nat /\ R \in Nat /\ N \in Nat /\ R * C = N /\ x < C /\ y < R /\ s.cols = C /\ s.rows = R
  BY <1>0, SizeIs DEF OnScreen
<1>2. y * C \in Nat /\ y * C + C <= N
  BY <1>1, Products
<1>3. At(s, x, y) \in 0 .. N - 1
  BY <1>1, <1>2 DEF At
<1>4. ASSUME NEW a \in Nat, NEW b \in Nat, OnScreen(s, a, b), At(s, a, b) = At(s, x, y) PROVE a = x /\ b = y
  <2>1. a < C /\ b * C + a = y * C + x /\ b * C \in Nat
    BY <1>1, <1>4 DEF At, OnScreen
  <2>2. ~(b < y)
    BY <1>1, <1>2, <2>1, Products
  <2>3. ~(y < b)
    BY <1>1, <1>2, <2>1, Products
  <2>4. b = y
    BY <2>2, <2>3
  <2> QED
    BY <1>1, <1>2, <2>1, <2>4
<1> QED
  BY <1>3, <1>4

\* The cursor and the margins of a screen.
Placed(s) == s.x <= s.cols /\ s.y < s.rows /\ s.top < s.bottom /\ s.bottom <= s.rows

\* The scrolling region is a run of cells, from a on and short of b.
LEMMA RegionIs ==
    ASSUME NEW C, NEW R, NEW N, Size(C, R, N), NEW s \in ScreenOf(C, R, N), Placed(s)
    PROVE  \E a, b \in Nat :
             /\ a + C <= b /\ b <= N /\ Moving(s) = b - a - C
             /\ s.top * s.cols = a /\ s.bottom * s.cols = b /\ (s.bottom - 1) * s.cols = b - C
             /\ Region(s) = {i \in 0 .. N - 1 : a <= i /\ i < b}
<1> DEFINE a == s.top * C
           b == s.bottom * C
<1>0. s.cols = C /\ s.rows = R /\ s.top \in Nat /\ s.bottom \in Nat /\ Cells(s) = 0 .. N - 1
  BY ScreenIs
<1>1. /\ C \in Nat /\ R \in Nat /\ N \in Nat /\ R * C = N /\ s.cols = C /\ s.rows = R
      /\ s.top \in Nat /\ s.bottom \in Nat /\ s.top < s.bottom /\ s.bottom <= R /\ Cells(s) = 0 .. N - 1
  BY <1>0, SizeIs DEF Placed
<1>2. a \in Nat /\ b \in Nat /\ a + C <= b /\ b <= N
  BY <1>1, Products
<1>3. (s.bottom - 1 - s.top) * C = b - a - C /\ (s.bottom - 1) * C = b - C
  BY <1>1
<1>4. Region(s) = {i \in 0 .. N - 1 : a <= i /\ i < b}
  BY <1>1 DEF Region
<1>5. Moving(s) = b - a - C /\ s.top * s.cols = a /\ s.bottom * s.cols = b /\ (s.bottom - 1) * s.cols = b - C
  BY <1>1, <1>3 DEF Moving
<1> HIDE DEF a, b
<1> QED
  BY <1>2, <1>4, <1>5

\* w is the text of the screen.
TextOf(s, w, N) == w \in Grids(N) /\ \A j \in 0 .. N - 1 : w[j] = Content(s, j)

\* A scroll moves the text of the region up by a line.
LEMMA ScrollIs ==
    ASSUME NEW C, NEW R, NEW N, Size(C, R, N), NEW s \in LinkedOf(C, R, N), Placed(s),
           NEW w, TextOf(s, w, N)
    PROVE  /\ flanterm_fb_scroll(s) \in LinkedOf(C, R, N) /\ Frame(flanterm_fb_scroll(s)) = Frame(s)
           /\ TextOf(flanterm_fb_scroll(s), ScrolledUp(s, w), N)
<1>1. s \in ScreenOf(C, R, N) /\ Linked(s, N) /\ C \in Nat /\ N \in Nat /\ s.cols = C /\ Cells(s) = 0 .. N - 1 /\ C > 0
  <2>1. s \in ScreenOf(C, R, N) /\ Linked(s, N)
    BY DEF LinkedOf
  <2>2. s.cols = C /\ Cells(s) = 0 .. N - 1
    BY <2>1, ScreenIs
  <2> QED
    BY <2>1, <2>2, SizeIs
<1>2. PICK a, b \in Nat :
        /\ a + C <= b /\ b <= N /\ Moving(s) = b - a - C
        /\ s.top * s.cols = a /\ s.bottom * s.cols = b /\ (s.bottom - 1) * s.cols = b - C
        /\ Region(s) = {i \in 0 .. N - 1 : a <= i /\ i < b}
  BY <1>1, RegionIs
<1> DEFINE m == b - a - C
           to == [k \in 1 .. m |-> a + k - 1]
           u == MoveAll(s, to, C)
           v == Blanked(u, b - C, C)
<1>3. m \in Nat /\ b - C \in Nat /\ b - C + C <= N
  BY <1>1, <1>2
<1>4. flanterm_fb_scroll(s) = v
  BY <1>1, <1>2 DEF flanterm_fb_scroll
<1>5. to \in Seq(0 .. N - 1) /\ Len(to) = m /\ \A k \in 1 .. m : to[k] = a + k - 1
  BY <1>1, <1>2, <1>3
<1> HIDE DEF to
<1>a. m = b - a - C /\ m \in Nat /\ a + C <= b /\ b <= N /\ C \in Nat /\ N \in Nat /\ C > 0
  BY <1>1, <1>2, <1>3
<1>b. \A k \in 1 .. m : k \in Nat /\ k >= 1 /\ k <= b - a - C
  BY <1>a
<1> HIDE DEF m
<1>6. (\A k \in 1 .. m : to[k] + C \in 0 .. N - 1)
      /\ \A k, l \in 1 .. m : l < k => to[l] # to[k] /\ to[l] # to[k] + C
  <2>1. ASSUME NEW k \in 1 .. m PROVE to[k] + C \in 0 .. N - 1
    <3>1. to[k] = a + k - 1
      BY <1>5
    <3> QED
      BY <1>a, <1>b, <3>1
  <2>2. ASSUME NEW k \in 1 .. m, NEW l \in 1 .. m, l < k PROVE to[l] # to[k] /\ to[l] # to[k] + C
    <3>1. to[k] = a + k - 1 /\ to[l] = a + l - 1
      BY <1>5
    <3> QED
      BY <1>a, <1>b, <2>2, <3>1
  <2> QED
    BY <2>1, <2>2
<1>7. u \in LinkedOf(C, R, N) /\ Copied(s, u, to, C, m, N)
  <2>1. C \in Int /\ Len(to) = m /\ to \in Seq(0 .. N - 1)
    BY <1>a, <1>5
  <2> QED
    BY <1>6, <2>1, MoveAllIs
<1> HIDE DEF u
<1>8. v \in LinkedOf(C, R, N) /\ Cleared(u, v, b - C, C, N)
  BY <1>1, <1>3, <1>7, BlankedIs
<1> HIDE DEF v
<1>9. Frame(v) = Frame(s)
  BY <1>7, <1>8 DEF Copied, Cleared
<1>10. ASSUME NEW j \in 0 .. N - 1
       PROVE  Content(v, j) = IF j < a \/ j >= b THEN w[j] ELSE IF j + C < b THEN w[j + C] ELSE "blank"
  <2>1. Content(v, j) = IF b - C <= j /\ j < b THEN "blank" ELSE Content(u, j)
    BY <1>1, <1>2, <1>8 DEF Cleared
  <2>2. CASE j < a \/ j >= b
    <3>1. \A l \in 1 .. m : j # to[l]
      BY <1>a, <1>b, <1>5, <2>2
    <3>2. Content(u, j) = Content(s, j)
      BY <1>7, <3>1 DEF Copied
    <3> QED
      BY <1>1, <1>2, <2>1, <2>2, <3>2 DEF TextOf
  <2>3. CASE a <= j /\ j + C < b
    <3>1. j - a + 1 \in 1 .. m /\ to[j - a + 1] = j
      BY <1>a, <1>5, <2>3
    <3>2. Content(u, j) = Content(s, j + C) /\ j + C \in 0 .. N - 1
      BY <1>1, <1>2, <1>7, <2>3, <3>1 DEF Copied
    <3> QED
      BY <1>1, <1>2, <2>1, <2>3, <3>2 DEF TextOf
  <2>4. CASE a <= j /\ j < b /\ j + C >= b
    BY <1>1, <1>2, <2>1, <2>4
  <2> QED
    BY <1>1, <1>2, <2>2, <2>3, <2>4
<1>11. ASSUME NEW j \in 0 .. N - 1
       PROVE  ScrolledUp(s, w)[j] = IF j < a \/ j >= b THEN w[j] ELSE IF j + C < b THEN w[j + C] ELSE "blank"
  <2>1. j \in Region(s) <=> ~(j < a \/ j >= b)
    BY <1>1, <1>2
  <2>2. j \in Region(s) => (j + C \in Region(s) <=> j + C < b)
    BY <1>1, <1>2
  <2>3. ScrolledUp(s, w)[j] = IF j \notin Region(s) THEN w[j]
                              ELSE IF j + C \in Region(s) THEN w[j + C] ELSE "blank"
    BY <1>1 DEF ScrolledUp
  <2> QED
    BY <2>1, <2>2, <2>3
<1>12. \A j \in 0 .. N - 1 : ScrolledUp(s, w)[j] = Content(v, j) /\ Content(v, j) \in FbChar
  BY <1>8, <1>10, <1>11, ContentIs
<1>13. ScrolledUp(s, w) = [j \in 0 .. N - 1 |-> ScrolledUp(s, w)[j]]
  BY <1>1 DEF ScrolledUp
<1> QED
  BY <1>4, <1>8, <1>9, <1>12, <1>13 DEF TextOf, Grids

\* A reverse scroll moves the text of the region down by a line.
LEMMA RevScrollIs ==
    ASSUME NEW C, NEW R, NEW N, Size(C, R, N), NEW s \in LinkedOf(C, R, N), Placed(s),
           NEW w, TextOf(s, w, N)
    PROVE  /\ flanterm_fb_revscroll(s) \in LinkedOf(C, R, N) /\ Frame(flanterm_fb_revscroll(s)) = Frame(s)
           /\ TextOf(flanterm_fb_revscroll(s), ScrolledDown(s, w), N)
<1>1. s \in ScreenOf(C, R, N) /\ Linked(s, N) /\ C \in Nat /\ N \in Nat /\ s.cols = C /\ Cells(s) = 0 .. N - 1 /\ C > 0
  <2>1. s \in ScreenOf(C, R, N) /\ Linked(s, N)
    BY DEF LinkedOf
  <2>2. s.cols = C /\ Cells(s) = 0 .. N - 1
    BY <2>1, ScreenIs
  <2> QED
    BY <2>1, <2>2, SizeIs
<1>2. PICK a, b \in Nat :
        /\ a + C <= b /\ b <= N /\ Moving(s) = b - a - C
        /\ s.top * s.cols = a /\ s.bottom * s.cols = b /\ (s.bottom - 1) * s.cols = b - C
        /\ Region(s) = {i \in 0 .. N - 1 : a <= i /\ i < b}
  BY <1>1, RegionIs
<1> DEFINE m == b - a - C
           to == [k \in 1 .. m |-> b - k]
           u == MoveAll(s, to, -C)
           v == Blanked(u, a, C)
<1>3. m \in Nat /\ -C \in Int /\ a + C <= N
  BY <1>1, <1>2
<1>4. flanterm_fb_revscroll(s) = v
  BY <1>1, <1>2 DEF flanterm_fb_revscroll
<1>5. to \in Seq(0 .. N - 1) /\ Len(to) = m /\ \A k \in 1 .. m : to[k] = b - k
  BY <1>1, <1>2, <1>3
<1> HIDE DEF to
<1>a. m = b - a - C /\ m \in Nat /\ a + C <= b /\ b <= N /\ C \in Nat /\ N \in Nat /\ C > 0
  BY <1>1, <1>2, <1>3
<1>b. \A k \in 1 .. m : k \in Nat /\ k >= 1 /\ k <= b - a - C
  BY <1>a
<1> HIDE DEF m
<1>6. (\A k \in 1 .. m : to[k] + (-C) \in 0 .. N - 1)
      /\ \A k, l \in 1 .. m : l < k => to[l] # to[k] /\ to[l] # to[k] + (-C)
  <2>1. ASSUME NEW k \in 1 .. m PROVE to[k] + (-C) \in 0 .. N - 1
    <3>1. to[k] = b - k
      BY <1>5
    <3> QED
      BY <1>a, <1>b, <3>1
  <2>2. ASSUME NEW k \in 1 .. m, NEW l \in 1 .. m, l < k PROVE to[l] # to[k] /\ to[l] # to[k] + (-C)
    <3>1. to[k] = b - k /\ to[l] = b - l
      BY <1>5
    <3> QED
      BY <1>a, <1>b, <2>2, <3>1
  <2> QED
    BY <2>1, <2>2
<1>7. u \in LinkedOf(C, R, N) /\ Copied(s, u, to, -C, m, N)
  BY <1>1, <1>3, <1>5, <1>6, MoveAllIs
<1> HIDE DEF u
<1>8. v \in LinkedOf(C, R, N) /\ Cleared(u, v, a, C, N)
  BY <1>1, <1>3, <1>7, BlankedIs
<1> HIDE DEF v
<1>9. Frame(v) = Frame(s)
  BY <1>7, <1>8 DEF Copied, Cleared
<1>10. ASSUME NEW j \in 0 .. N - 1
       PROVE  Content(v, j) = IF j < a \/ j >= b THEN w[j] ELSE IF j - C >= a THEN w[j - C] ELSE "blank"
  <2>1. Content(v, j) = IF a <= j /\ j < a + C THEN "blank" ELSE Content(u, j)
    BY <1>1, <1>2, <1>8 DEF Cleared
  <2>2. CASE j < a \/ j >= b
    <3>1. \A l \in 1 .. m : j # to[l]
      BY <1>a, <1>b, <1>5, <2>2
    <3>2. Content(u, j) = Content(s, j)
      BY <1>7, <3>1 DEF Copied
    <3> QED
      BY <1>1, <1>2, <2>1, <2>2, <3>2 DEF TextOf
  <2>3. CASE a + C <= j /\ j < b
    <3>1. b - j \in 1 .. m /\ to[b - j] = j /\ j + (-C) = j - C
      BY <1>a, <1>5, <2>3
    <3>2. Content(u, to[b - j]) = Content(s, to[b - j] + (-C)) /\ j - C \in 0 .. N - 1
      BY <1>a, <1>7, <2>3, <3>1 DEF Copied
    <3> QED
      BY <1>1, <1>2, <2>1, <2>3, <3>1, <3>2 DEF TextOf
  <2>4. CASE a <= j /\ j < a + C
    BY <1>1, <1>2, <2>1, <2>4
  <2> QED
    BY <1>1, <1>2, <2>2, <2>3, <2>4
<1>11. ASSUME NEW j \in 0 .. N - 1
       PROVE  ScrolledDown(s, w)[j] = IF j < a \/ j >= b THEN w[j] ELSE IF j - C >= a THEN w[j - C] ELSE "blank"
  <2>1. j \in Region(s) <=> ~(j < a \/ j >= b)
    BY <1>1, <1>2
  <2>2. j \in Region(s) => (j - C \in Region(s) <=> j - C >= a)
    BY <1>1, <1>2
  <2>3. ScrolledDown(s, w)[j] = IF j \notin Region(s) THEN w[j]
                                ELSE IF j - C \in Region(s) THEN w[j - C] ELSE "blank"
    BY <1>1 DEF ScrolledDown
  <2> QED
    BY <2>1, <2>2, <2>3
<1>12. \A j \in 0 .. N - 1 : ScrolledDown(s, w)[j] = Content(v, j) /\ Content(v, j) \in FbChar
  BY <1>8, <1>10, <1>11, ContentIs
<1>13. ScrolledDown(s, w) = [j \in 0 .. N - 1 |-> ScrolledDown(s, w)[j]]
  BY <1>1 DEF ScrolledDown
<1> QED
  BY <1>4, <1>8, <1>9, <1>12, <1>13 DEF TextOf, Grids

(***************************************************************************)
(* Operations.                                                             *)
(***************************************************************************)
\* The cell that the last flush drew the cursor at.
Behind(s) == IF OnScreen(s, s.oldX, s.oldY) THEN {At(s, s.oldX, s.oldY)} ELSE {}

\* Screen s holds the text w.  The framebuffer, which shows v, is behind it only by the queue and
\* the cursor, and by nothing after a flush.
FbGood(C, R, N, s, w, v, d) ==
    /\ s \in LinkedOf(C, R, N) /\ Placed(s) /\ TextOf(s, w, N) /\ v \in Views(N)
    /\ \A j \in 0 .. N - 1 : j \notin Behind(s) => v[j] = [c |-> s.grid[j], inverse |-> FALSE]
    /\ ~d => /\ s.queue = <<>> /\ s.oldX = s.x /\ s.oldY = s.y
             /\ \A j \in 0 .. N - 1 : v[j] = [c |-> w[j], inverse |-> j \in CursorCell(s)]

\* The grid and the place of the old cursor, which only plotting changes.
Drawing(s) == <<s.cols, s.rows, s.grid, s.oldX, s.oldY>>

\* What is only queued leaves the framebuffer as good as it was.
LEMMA StaysGood ==
    ASSUME NEW C, NEW R, NEW N, NEW s, NEW w, NEW v, NEW d, FbGood(C, R, N, s, w, v, d),
           NEW u \in LinkedOf(C, R, N), Placed(u), NEW t, TextOf(u, t, N), Drawing(u) = Drawing(s)
    PROVE  FbGood(C, R, N, u, t, v, TRUE)
<1>1. u.grid = s.grid /\ u.oldX = s.oldX /\ u.oldY = s.oldY /\ u.cols = s.cols /\ u.rows = s.rows
  BY DEF Drawing
<1>2. Behind(u) = Behind(s)
  BY <1>1 DEF Behind, OnScreen, At
<1> QED
  BY <1>1, <1>2 DEF FbGood

\* The queue, the map and the grid make the text.
LEMMA SameText ==
    ASSUME NEW C, NEW R, NEW N, NEW s \in LinkedOf(C, R, N), NEW u \in ScreenOf(C, R, N),
           u.grid = s.grid, u.map = s.map, u.queue = s.queue
    PROVE  u \in LinkedOf(C, R, N) /\ \A w : TextOf(s, w, N) => TextOf(u, w, N)
<1>1. Linked(s, N)
  BY DEF LinkedOf
<1>2. Linked(u, N)
  BY <1>1 DEF Linked
<1>3. \A j : Content(u, j) = Content(s, j)
  BY DEF Content
<1> QED
  BY <1>2, <1>3 DEF LinkedOf, TextOf

\* The fields of a frame.
LEMMA FrameIs ==
    ASSUME NEW s, NEW u, Frame(u) = Frame(s)
    PROVE  /\ u.cols = s.cols /\ u.rows = s.rows /\ u.grid = s.grid /\ u.x = s.x /\ u.y = s.y
           /\ u.oldX = s.oldX /\ u.oldY = s.oldY /\ u.cursor = s.cursor /\ u.top = s.top
           /\ u.bottom = s.bottom /\ Drawing(u) = Drawing(s) /\ (Placed(s) => Placed(u))
<1>1. /\ u.cols = s.cols /\ u.rows = s.rows /\ u.grid = s.grid /\ u.x = s.x /\ u.y = s.y
      /\ u.oldX = s.oldX /\ u.oldY = s.oldY /\ u.cursor = s.cursor /\ u.top = s.top
      /\ u.bottom = s.bottom
  BY DEF Frame
<1> QED
  BY <1>1 DEF Drawing, Placed

\* A screen with the cursor at another place.
Repositioned(s, x, y) == [s EXCEPT !.x = x, !.y = y]

\* The cursor is moved.
LEMMA CursorMoved ==
    ASSUME NEW C, NEW R, NEW N, NEW s \in LinkedOf(C, R, N), NEW x \in Nat, NEW y \in Nat
    PROVE  LET u == Repositioned(s, x, y)
           IN  /\ u \in LinkedOf(C, R, N) /\ Drawing(u) = Drawing(s)
               /\ u.x = x /\ u.y = y /\ u.top = s.top /\ u.bottom = s.bottom
               /\ u.cols = s.cols /\ u.rows = s.rows
               /\ \A w : TextOf(s, w, N) => TextOf(u, w, N)
<1> DEFINE u == Repositioned(s, x, y)
<1>1. s \in ScreenOf(C, R, N)
  BY DEF LinkedOf
<1>2. /\ u \in ScreenOf(C, R, N) /\ u.grid = s.grid /\ u.map = s.map /\ u.queue = s.queue
      /\ u.x = x /\ u.y = y /\ u.top = s.top /\ u.bottom = s.bottom
      /\ u.cols = s.cols /\ u.rows = s.rows /\ Drawing(u) = Drawing(s)
  BY <1>1 DEF ScreenOf, Drawing, Repositioned
<1> HIDE DEF u
<1>3. u \in LinkedOf(C, R, N) /\ \A w : TextOf(s, w, N) => TextOf(u, w, N)
  BY <1>2, SameText
<1> QED
  BY <1>2, <1>3 DEF u

\* The fields of a screen whose map and queue agree.
LEMMA LinkedIs ==
    ASSUME NEW C, NEW R, NEW N, Size(C, R, N), NEW s \in LinkedOf(C, R, N)
    PROVE  /\ s \in ScreenOf(C, R, N) /\ Linked(s, N)
           /\ s.cols = C /\ s.rows = R /\ s.cols * s.rows = N /\ Cells(s) = 0 .. N - 1
           /\ s.x \in Nat /\ s.y \in Nat /\ s.top \in Nat /\ s.bottom \in Nat
<1>1. s \in ScreenOf(C, R, N) /\ Linked(s, N)
  BY DEF LinkedOf
<1> QED
  BY <1>1, ScreenIs

\* The wrap that precedes a character leaves the cursor on the screen.
LEMMA WrappedIs ==
    ASSUME NEW C, NEW R, NEW N, Size(C, R, N), NEW s \in LinkedOf(C, R, N), Placed(s),
           NEW w, TextOf(s, w, N)
    PROVE  LET u == Wrapped(s)
               t == IF s.x >= s.cols /\ s.y + 1 = s.bottom THEN ScrolledUp(s, w) ELSE w
           IN  /\ u \in LinkedOf(C, R, N) /\ Placed(u) /\ u.x < C /\ Drawing(u) = Drawing(s)
               /\ TextOf(u, t, N)
<1>1. s \in ScreenOf(C, R, N) /\ s.cols = C /\ s.rows = R /\ s.x \in Nat /\ s.y \in Nat
  BY LinkedIs
<1>2. C \in Nat /\ C > 0 /\ R \in Nat /\ R > 0
  BY SizeIs
<1>3. CASE s.x < s.cols
  <2>1. Wrapped(s) = s /\ ~(s.x >= s.cols)
    BY <1>1, <1>2, <1>3 DEF Wrapped
  <2> QED
    BY <1>1, <1>3, <2>1
<1>4. CASE s.x >= s.cols /\ s.y + 1 = s.bottom
  <2> DEFINE v == flanterm_fb_scroll(s)
  <2>1. v \in LinkedOf(C, R, N) /\ Frame(v) = Frame(s) /\ TextOf(v, ScrolledUp(s, w), N)
    BY ScrollIs
  <2>2. Placed(v) /\ Drawing(v) = Drawing(s) /\ v.y = s.y
    BY <2>1, FrameIs
  <2>3. Wrapped(s) = [v EXCEPT !.x = 0]
    BY <1>1, <1>2, <1>4 DEF Wrapped
  <2> HIDE DEF v
  <2>4. [v EXCEPT !.x = 0] = Repositioned(v, 0, v.y)
    <3>1. v \in ScreenOf(C, R, N)
      BY <2>1 DEF LinkedOf
    <3> QED
      BY <3>1 DEF ScreenOf, Repositioned
  <2> DEFINE u == Repositioned(v, 0, v.y)
  <2>5. /\ u \in LinkedOf(C, R, N) /\ Drawing(u) = Drawing(v)
        /\ u.x = 0 /\ u.y = v.y /\ u.top = v.top /\ u.bottom = v.bottom
        /\ u.cols = v.cols /\ u.rows = v.rows /\ TextOf(u, ScrolledUp(s, w), N)
    <3>1. 0 \in Nat /\ v.y \in Nat
      BY <1>1, <2>2
    <3> QED
      BY <2>1, <3>1, CursorMoved
  <2> HIDE DEF u
  <2>6. Placed(u) /\ u.x < C
    <3>1. v.cols = C
      BY <2>1, LinkedIs
    <3> QED
      BY <1>2, <2>2, <2>5, <3>1 DEF Placed
  <2>7. Wrapped(s) = u
    BY <2>3, <2>4 DEF u
  <2> QED
    BY <1>4, <2>2, <2>5, <2>6, <2>7
<1>5. CASE s.x >= s.cols /\ s.y + 1 # s.bottom
  <2> DEFINE y == IF s.y + 1 >= s.rows THEN s.rows - 1 ELSE s.y + 1
             u == Repositioned(s, 0, y)
  <2>1. y \in Nat /\ y < R
    BY <1>1, <1>2
  <2>2. Wrapped(s) = u
    BY <1>1, <1>2, <1>5 DEF Wrapped, Repositioned
  <2> HIDE DEF y
  <2>3. /\ u \in LinkedOf(C, R, N) /\ Drawing(u) = Drawing(s)
        /\ u.x = 0 /\ u.y = y /\ u.top = s.top /\ u.bottom = s.bottom
        /\ u.cols = s.cols /\ u.rows = s.rows /\ TextOf(u, w, N)
    BY <2>1, CursorMoved
  <2> HIDE DEF u
  <2>4. Placed(u) /\ u.x < C
    BY <1>1, <1>2, <2>1, <2>3 DEF Placed
  <2> QED
    BY <1>5, <2>2, <2>3, <2>4
<1> QED
  BY <1>1, <1>2, <1>3, <1>4, <1>5

\* A character is written where the cursor is.
LEMMA PutIsText ==
    ASSUME NEW C, NEW R, NEW N, Size(C, R, N), NEW s \in LinkedOf(C, R, N), Placed(s), s.x < C,
           NEW w, TextOf(s, w, N), NEW c \in FbChar
    PROVE  LET i == At(s, s.x, s.y)
               u == [push_to_queue(s, c, i) EXCEPT !.x = @ + 1]
           IN  /\ u \in LinkedOf(C, R, N) /\ Placed(u) /\ Drawing(u) = Drawing(s)
               /\ TextOf(u, [w EXCEPT ![i] = c], N)
<1> DEFINE i == At(s, s.x, s.y)
           p == push_to_queue(s, c, i)
           t == [w EXCEPT ![i] = c]
<1>1. s \in ScreenOf(C, R, N) /\ Linked(s, N) /\ s.cols = C /\ s.rows = R /\ s.x \in Nat /\ s.y \in Nat
  BY LinkedIs
<1>2. i \in 0 .. N - 1
  <2>1. OnScreen(s, s.x, s.y)
    BY <1>1 DEF OnScreen, Placed
  <2> QED
    BY <1>1, <2>1, AtIs
<1> HIDE DEF i
<1>3. p \in ScreenOf(C, R, N) /\ Pushed(s, p, c, i, N)
  BY <1>1, <1>2, PushIs
<1> HIDE DEF p
<1>4. p \in LinkedOf(C, R, N) /\ Frame(p) = Frame(s)
  BY <1>3 DEF Pushed, LinkedOf
<1>5. /\ Placed(p) /\ Drawing(p) = Drawing(s) /\ p.x = s.x /\ p.cols = C /\ p.y = s.y
      /\ p.x + 1 \in Nat /\ p.y \in Nat
  BY <1>1, <1>4, FrameIs
<1>6. TextOf(p, t, N)
  <2>1. w \in [0 .. N - 1 -> FbChar] /\ \A j \in 0 .. N - 1 : w[j] = Content(s, j)
    BY DEF TextOf, Grids
  <2>2. \A j \in 0 .. N - 1 : Content(p, j) = IF j = i THEN c ELSE Content(s, j)
    BY <1>3 DEF Pushed
  <2>3. t \in [0 .. N - 1 -> FbChar] /\ \A j \in 0 .. N - 1 : t[j] = IF j = i THEN c ELSE w[j]
    BY <1>2, <2>1
  <2> HIDE DEF t
  <2> QED
    BY <2>1, <2>2, <2>3 DEF TextOf, Grids
<1> HIDE DEF t
<1> DEFINE u == Repositioned(p, p.x + 1, p.y)
<1>7. [p EXCEPT !.x = @ + 1] = u
  BY <1>3 DEF ScreenOf, Repositioned
<1>8. /\ u \in LinkedOf(C, R, N) /\ Drawing(u) = Drawing(p)
      /\ u.x = p.x + 1 /\ u.y = p.y /\ u.top = p.top /\ u.bottom = p.bottom
      /\ u.cols = p.cols /\ u.rows = p.rows /\ TextOf(u, t, N)
  <2> DEFINE nx == p.x + 1
             ny == p.y
  <2>1. nx \in Nat /\ ny \in Nat
    BY <1>5
  <2>2. u = Repositioned(p, nx, ny)
    OBVIOUS
  <2> HIDE DEF nx, ny, u
  <2>3. u.x = nx /\ u.y = ny
    BY <1>4, <2>1, <2>2, CursorMoved
  <2>4. /\ u \in LinkedOf(C, R, N) /\ Drawing(u) = Drawing(p)
        /\ u.top = p.top /\ u.bottom = p.bottom
        /\ u.cols = p.cols /\ u.rows = p.rows /\ TextOf(u, t, N)
    BY <1>4, <1>6, <2>1, <2>2, CursorMoved
  <2> QED
    BY <2>3, <2>4 DEF nx, ny
<1> HIDE DEF u
<1>9. Placed(u)
  <2>1. C \in Nat
    BY SizeIs
  <2> QED
    BY <1>1, <1>5, <1>8, <2>1 DEF Placed
<1> QED
  BY <1>5, <1>7, <1>8, <1>9 DEF p, t, i

\* A good screen's map and queue agree.
LEMMA GoodIsLinked ==
    ASSUME NEW C, NEW R, NEW N, Size(C, R, N), NEW s, NEW w, NEW v, NEW d, FbGood(C, R, N, s, w, v, d)
    PROVE  /\ s \in LinkedOf(C, R, N) /\ Placed(s) /\ TextOf(s, w, N)
           /\ s.cols = C /\ s.rows = R /\ Cells(s) = 0 .. N - 1
           /\ s.x \in Nat /\ s.y \in Nat /\ s.top \in Nat /\ s.bottom \in Nat
<1>1. s \in LinkedOf(C, R, N) /\ Placed(s) /\ TextOf(s, w, N)
  BY DEF FbGood
<1> QED
  BY <1>1, LinkedIs

\* A character is written.
LEMMA WriteKeeps ==
    ASSUME NEW C, NEW R, NEW N, Size(C, R, N), FbGood(C, R, N, fb, want, shown, dirty),
           NEW c \in FbChar, Write(c)
    PROVE  FbGood(C, R, N, fb', want', shown', dirty')
<1> DEFINE s == Wrapped(fb)
           w == IF fb.x >= fb.cols /\ fb.y + 1 = fb.bottom THEN ScrolledUp(fb, want) ELSE want
           i == At(s, s.x, s.y)
           u == [push_to_queue(s, c, i) EXCEPT !.x = @ + 1]
           t == [w EXCEPT ![i] = c]
<1>1. fb' = u /\ want' = t /\ dirty' = TRUE /\ shown' = shown
  BY DEF Write
<1>2. fb \in LinkedOf(C, R, N) /\ Placed(fb) /\ TextOf(fb, want, N)
  BY GoodIsLinked
<1>3. s \in LinkedOf(C, R, N) /\ Placed(s) /\ s.x < C /\ Drawing(s) = Drawing(fb) /\ TextOf(s, w, N)
  BY <1>2, WrappedIs
<1> HIDE DEF s, w
<1>4. u \in LinkedOf(C, R, N) /\ Placed(u) /\ Drawing(u) = Drawing(s) /\ TextOf(u, t, N)
  BY <1>3, PutIsText
<1> HIDE DEF u, t
<1>5. Drawing(u) = Drawing(fb)
  BY <1>3, <1>4
<1>6. FbGood(C, R, N, u, t, shown, TRUE)
  BY <1>4, <1>5, StaysGood
<1> QED
  BY <1>1, <1>6

\* A scroll.
LEMMA ScrollKeeps ==
    ASSUME NEW C, NEW R, NEW N, Size(C, R, N), FbGood(C, R, N, fb, want, shown, dirty), Scroll
    PROVE  FbGood(C, R, N, fb', want', shown', dirty')
<1> DEFINE u == flanterm_fb_scroll(fb)
           t == ScrolledUp(fb, want)
<1>1. fb' = u /\ want' = t /\ dirty' = TRUE /\ shown' = shown
  BY DEF Scroll
<1>2. fb \in LinkedOf(C, R, N) /\ Placed(fb) /\ TextOf(fb, want, N)
  BY GoodIsLinked
<1>3. u \in LinkedOf(C, R, N) /\ Frame(u) = Frame(fb) /\ TextOf(u, t, N)
  BY <1>2, ScrollIs
<1> HIDE DEF u, t
<1>4. Placed(u) /\ Drawing(u) = Drawing(fb)
  BY <1>2, <1>3, FrameIs
<1>5. FbGood(C, R, N, u, t, shown, TRUE)
  BY <1>3, <1>4, StaysGood
<1> QED
  BY <1>1, <1>5

\* A reverse scroll.
LEMMA RevScrollKeeps ==
    ASSUME NEW C, NEW R, NEW N, Size(C, R, N), FbGood(C, R, N, fb, want, shown, dirty), RevScroll
    PROVE  FbGood(C, R, N, fb', want', shown', dirty')
<1> DEFINE u == flanterm_fb_revscroll(fb)
           t == ScrolledDown(fb, want)
<1>1. fb' = u /\ want' = t /\ dirty' = TRUE /\ shown' = shown
  BY DEF RevScroll
<1>2. fb \in LinkedOf(C, R, N) /\ Placed(fb) /\ TextOf(fb, want, N)
  BY GoodIsLinked
<1>3. u \in LinkedOf(C, R, N) /\ Frame(u) = Frame(fb) /\ TextOf(u, t, N)
  BY <1>2, RevScrollIs
<1> HIDE DEF u, t
<1>4. Placed(u) /\ Drawing(u) = Drawing(fb)
  BY <1>2, <1>3, FrameIs
<1>5. FbGood(C, R, N, u, t, shown, TRUE)
  BY <1>3, <1>4, StaysGood
<1> QED
  BY <1>1, <1>5

\* The cells behind the cursor move to the right, the last one first.
LEMMA InsertShiftKeeps ==
    ASSUME NEW C, NEW R, NEW N, Size(C, R, N), FbGood(C, R, N, fb, want, shown, dirty), InsertShift
    PROVE  FbGood(C, R, N, fb', want', shown', dirty')
<1> DEFINE to == ShiftedTo(fb)
           u == MoveAll(fb, to, -1)
           t == [i \in Cells(fb) |-> IF \E k \in DOMAIN to : i = to[k] THEN want[i - 1] ELSE want[i]]
           m == C - 1 - fb.x
           a == fb.y * C
<1>1. fb' = u /\ want' = t /\ dirty' = TRUE /\ shown' = shown
  BY DEF InsertShift
<1>2. fb \in LinkedOf(C, R, N) /\ Placed(fb) /\ TextOf(fb, want, N) /\ Cells(fb) = 0 .. N - 1
      /\ fb.cols = C /\ fb.rows = R /\ fb.x \in Nat /\ fb.y \in Nat
  BY GoodIsLinked
<1>3. C \in Nat /\ R \in Nat /\ N \in Nat /\ R * C = N
  BY SizeIs
<1>4. fb.x < C /\ fb.y < R
  BY <1>2 DEF InsertShift, Placed
<1>5. a \in Nat /\ a + C <= N
  BY <1>2, <1>3, <1>4, Products
<1>6. to = [k \in 1 .. m |-> a + (C - k)]
  BY <1>2 DEF ShiftedTo, At
<1> HIDE DEF a
<1>7. m \in Nat /\ m = C - 1 - fb.x
  BY <1>2, <1>3, <1>4
<1> HIDE DEF m
<1>8. \A k \in 1 .. m : k \in Nat /\ k >= 1 /\ k <= m /\ a + (C - k) \in 0 .. N - 1 /\ a + (C - k) >= 1
  BY <1>2, <1>3, <1>5, <1>7
<1>9. to \in Seq(0 .. N - 1) /\ Len(to) = m /\ \A k \in 1 .. m : to[k] = a + (C - k)
  <2> DEFINE S == 0 .. N - 1
  <2>1. to \in [1 .. m -> S]
    BY <1>6, <1>8
  <2>2. \A k \in 1 .. m : to[k] = a + (C - k)
    BY <1>6
  <2> HIDE DEF to, S
  <2>3. to \in Seq(S) /\ Len(to) = m
    BY <1>7, <2>1
  <2> QED
    BY <2>2, <2>3 DEF S
<1> HIDE DEF to
<1>10. \A k \in 1 .. m : to[k] + (-1) \in 0 .. N - 1
  <2> TAKE k \in 1 .. m
  <2>1. to[k] \in 0 .. N - 1 /\ to[k] >= 1
    BY <1>8, <1>9
  <2> QED
    BY <1>3, <2>1
<1>11. \A k, l \in 1 .. m : l < k => to[l] # to[k] /\ to[l] # to[k] + (-1)
  <2> TAKE k, l \in 1 .. m
  <2>1. to[k] = a + (C - k) /\ to[l] = a + (C - l)
    BY <1>9
  <2> QED
    BY <1>3, <1>5, <2>1, <1>8
<1>12. u \in LinkedOf(C, R, N) /\ Copied(fb, u, to, -1, m, N)
  BY <1>2, <1>9, <1>10, <1>11, MoveAllIs, SMTT(30)
<1>13. DOMAIN to = 1 .. m
  BY <1>9, LenProperties
<1> HIDE DEF u
<1>14. ASSUME NEW j \in 0 .. N - 1 PROVE t[j] = Content(u, j) /\ t[j] \in FbChar
  <2>0. \A i \in 0 .. N - 1 : want[i] = Content(fb, i)
    BY <1>2 DEF TextOf
  <2>1. CASE \E k \in 1 .. m : j = to[k]
    <3>1. PICK k \in 1 .. m : j = to[k]
      BY <2>1
    <3>2. t[j] = want[j - 1]
      BY <1>2, <1>13, <3>1
    <3>3. j - 1 \in 0 .. N - 1 /\ j - 1 = to[k] + (-1)
      BY <1>3, <1>10, <3>1
    <3>4. Content(u, to[k]) = Content(fb, to[k] + (-1))
      BY <1>12 DEF Copied
    <3>5. t[j] = Content(u, j)
      BY <2>0, <3>1, <3>2, <3>3, <3>4
    <3> QED
      BY <1>12, <3>5, ContentIs
  <2>2. CASE ~ \E k \in 1 .. m : j = to[k]
    <3>1. t[j] = want[j]
      BY <1>2, <1>13, <2>2
    <3>2. Content(u, j) = Content(fb, j)
      BY <1>12, <2>2 DEF Copied
    <3>3. t[j] = Content(u, j)
      BY <2>0, <3>1, <3>2
    <3> QED
      BY <1>12, <3>3, ContentIs
  <2> QED
    BY <2>1, <2>2
<1>15. t = [j \in 0 .. N - 1 |-> t[j]]
  BY <1>2
<1> HIDE DEF t
<1>16. TextOf(u, t, N)
  BY <1>14, <1>15 DEF TextOf, Grids
<1>17. Placed(u) /\ Drawing(u) = Drawing(fb)
  <2>1. Frame(u) = Frame(fb)
    BY <1>12 DEF Copied
  <2> QED
    BY <1>2, <2>1, FrameIs
<1>18. FbGood(C, R, N, u, t, shown, TRUE)
  BY <1>12, <1>16, <1>17, StaysGood
<1> QED
  BY <1>1, <1>18

\* The screen is cleared.
LEMMA ClearKeeps ==
    ASSUME NEW C, NEW R, NEW N, Size(C, R, N), FbGood(C, R, N, fb, want, shown, dirty),
           NEW move \in BOOLEAN, flanterm_fb_clear(move)
    PROVE  FbGood(C, R, N, fb', want', shown', dirty')
<1> DEFINE s == Blanked(fb, 0, fb.rows * fb.cols)
           t == [i \in Cells(fb) |-> "blank"]
<1>1. /\ fb' = IF move THEN [s EXCEPT !.x = 0, !.y = 0] ELSE s
      /\ want' = t /\ dirty' = TRUE /\ shown' = shown
  BY DEF flanterm_fb_clear
<1>2. fb \in LinkedOf(C, R, N) /\ Placed(fb) /\ Cells(fb) = 0 .. N - 1 /\ fb.cols = C /\ fb.rows = R
  BY GoodIsLinked
<1>3. C \in Nat /\ R \in Nat /\ N \in Nat /\ R * C = N /\ C > 0 /\ R > 0
  BY SizeIs
<1>4. s = Blanked(fb, 0, N)
  BY <1>2, <1>3
<1>5. s \in LinkedOf(C, R, N) /\ Cleared(fb, s, 0, N, N)
  BY <1>2, <1>3, <1>4, BlankedIs
<1> HIDE DEF s
<1>6. TextOf(s, t, N)
  <2>1. \A j \in 0 .. N - 1 : Content(s, j) = "blank"
    BY <1>3, <1>5 DEF Cleared
  <2> QED
    BY <1>2, <2>1, FbAssumption DEF TextOf, Grids
<1> HIDE DEF t
<1>7. Placed(s) /\ Drawing(s) = Drawing(fb)
  <2>1. Frame(s) = Frame(fb)
    BY <1>5 DEF Cleared
  <2> QED
    BY <1>2, <2>1, FrameIs
<1>8. FbGood(C, R, N, s, t, shown, TRUE)
  BY <1>5, <1>6, <1>7, StaysGood
<1> DEFINE u == Repositioned(s, 0, 0)
<1>9. /\ u \in LinkedOf(C, R, N) /\ Drawing(u) = Drawing(s)
      /\ u.x = 0 /\ u.y = 0 /\ u.top = s.top /\ u.bottom = s.bottom
      /\ u.cols = s.cols /\ u.rows = s.rows /\ TextOf(u, t, N)
  BY <1>5, <1>6, CursorMoved
<1>10. [s EXCEPT !.x = 0, !.y = 0] = u
  BY DEF Repositioned
<1> HIDE DEF u
<1>11. Placed(u) /\ Drawing(u) = Drawing(fb)
  <2>1. s.cols = C /\ s.rows = R
    BY <1>5, LinkedIs
  <2> QED
    BY <1>3, <1>7, <1>9, <2>1 DEF Placed
<1>12. FbGood(C, R, N, u, t, shown, TRUE)
  BY <1>9, <1>11, StaysGood
<1> QED
  BY <1>1, <1>8, <1>10, <1>12

\* The cursor is moved.
LEMMA SetCursorKeeps ==
    ASSUME NEW C, NEW R, NEW N, Size(C, R, N), FbGood(C, R, N, fb, want, shown, dirty),
           NEW x \in Nat, NEW y \in Nat, flanterm_fb_set_cursor_pos(x, y)
    PROVE  FbGood(C, R, N, fb', want', shown', dirty')
<1> DEFINE u == Repositioned(fb, x, y)
<1>1. fb' = u /\ want' = want /\ dirty' = TRUE /\ shown' = shown /\ x < fb.cols /\ y < fb.rows
  BY DEF flanterm_fb_set_cursor_pos, Repositioned, OnScreen
<1>2. fb \in LinkedOf(C, R, N) /\ Placed(fb) /\ TextOf(fb, want, N) /\ fb.cols = C /\ fb.rows = R
  BY GoodIsLinked
<1>3. /\ u \in LinkedOf(C, R, N) /\ Drawing(u) = Drawing(fb)
      /\ u.x = x /\ u.y = y /\ u.top = fb.top /\ u.bottom = fb.bottom
      /\ u.cols = fb.cols /\ u.rows = fb.rows /\ TextOf(u, want, N)
  BY <1>2, CursorMoved
<1> HIDE DEF u
<1>4. Placed(u)
  <2>1. C \in Nat /\ R \in Nat
    BY SizeIs
  <2> QED
    BY <1>1, <1>2, <1>3, <2>1 DEF Placed
<1>5. FbGood(C, R, N, u, want, shown, TRUE)
  BY <1>3, <1>4, StaysGood
<1> QED
  BY <1>1, <1>5

\* The margins are set, or the cursor is shown or hidden.
LEMMA ConfigureKeeps ==
    ASSUME NEW C, NEW R, NEW N, Size(C, R, N), FbGood(C, R, N, fb, want, shown, dirty),
           NEW on \in BOOLEAN, NEW top \in Nat, NEW bottom \in Nat, Configure(on, top, bottom)
    PROVE  FbGood(C, R, N, fb', want', shown', dirty')
<1> DEFINE u == [fb EXCEPT !.cursor = on, !.top = top, !.bottom = bottom]
<1>1. fb' = u /\ want' = want /\ dirty' = TRUE /\ shown' = shown /\ top < bottom - 1 /\ bottom <= fb.rows
  BY DEF Configure
<1>2. fb \in LinkedOf(C, R, N) /\ Placed(fb) /\ TextOf(fb, want, N) /\ fb.cols = C /\ fb.rows = R
  BY GoodIsLinked
<1>3. fb \in ScreenOf(C, R, N)
  BY <1>2 DEF LinkedOf
<1>4. /\ u \in ScreenOf(C, R, N) /\ u.grid = fb.grid /\ u.map = fb.map /\ u.queue = fb.queue
      /\ u.x = fb.x /\ u.y = fb.y /\ u.top = top /\ u.bottom = bottom
      /\ u.cols = fb.cols /\ u.rows = fb.rows /\ Drawing(u) = Drawing(fb)
  BY <1>3 DEF ScreenOf, Drawing
<1> HIDE DEF u
<1>5. u \in LinkedOf(C, R, N) /\ TextOf(u, want, N)
  BY <1>2, <1>4, SameText
<1>6. Placed(u)
  BY <1>1, <1>2, <1>4 DEF Placed
<1>7. FbGood(C, R, N, u, want, shown, TRUE)
  BY <1>4, <1>5, <1>6, StaysGood
<1> QED
  BY <1>1, <1>7

(***************************************************************************)
(* Plotting.                                                               *)
(***************************************************************************)
\* The cursor is drawn, and what waited for its cell with it.
LEMMA CursorDrawn ==
    ASSUME NEW C, NEW R, NEW N, Size(C, R, N), NEW s \in LinkedOf(C, R, N)
    PROVE  LET u == draw_cursor(s)
           IN  /\ u \in ScreenOf(C, R, N) /\ Rest(u) = Rest(s) /\ Waiting(u, N) /\ u.queue = s.queue
               /\ \A j \in 0 .. N - 1 :
                    /\ u.map[j] = IF j \in CursorCell(s) THEN 0 ELSE s.map[j]
                    /\ u.grid[j] = IF j \in CursorCell(s) THEN Content(s, j) ELSE s.grid[j]
<1> DEFINE K == CursorCell(s)
           g == [i \in 0 .. N - 1 |-> IF i \in K THEN Content(s, i) ELSE s.grid[i]]
           m == [i \in 0 .. N - 1 |-> IF i \in K THEN 0 ELSE s.map[i]]
           u == draw_cursor(s)
<1>1. s \in ScreenOf(C, R, N) /\ Linked(s, N) /\ Cells(s) = 0 .. N - 1
  BY LinkedIs
<1>2. u = Replot(s, g, m)
  BY <1>1 DEF draw_cursor, Replot
<1> HIDE DEF K
<1>3. g \in Grids(N) /\ \A j \in 0 .. N - 1 : g[j] = IF j \in K THEN Content(s, j) ELSE s.grid[j]
  <2>1. \A j \in 0 .. N - 1 : Content(s, j) \in FbChar
    BY ContentIs
  <2>2. s.grid \in [0 .. N - 1 -> FbChar]
    BY <1>1, ScreenIs DEF Grids
  <2> QED
    BY <2>1, <2>2 DEF Grids
<1>4. m \in Maps(N) /\ \A j \in 0 .. N - 1 : m[j] = IF j \in K THEN 0 ELSE s.map[j]
  <2>1. s.map \in [0 .. N - 1 -> Nat]
    BY <1>1, ScreenIs DEF Maps
  <2> QED
    BY <2>1 DEF Maps
<1> HIDE DEF g, m
<1>5. /\ Replot(s, g, m) \in ScreenOf(C, R, N) /\ Replot(s, g, m).grid = g
      /\ Replot(s, g, m).map = m /\ Rest(Replot(s, g, m)) = Rest(s)
  BY <1>1, <1>3, <1>4, Replotted
<1>6. u \in ScreenOf(C, R, N) /\ u.grid = g /\ u.map = m /\ Rest(u) = Rest(s)
  BY <1>2, <1>5
<1>7. u.queue = s.queue
  BY <1>6 DEF Rest
<1>8. Waiting(u, N)
  <2>1. s.queue \in Seq(Items(N))
    BY <1>1, ScreenIs DEF Queues
  <2>2. \A k \in 1 .. Len(s.queue) : s.queue[k].cell \in 0 .. N - 1
    <3>1. \A k \in 1 .. Len(s.queue) : s.queue[k] \in Items(N)
      BY <2>1, ElementOfSeq
    <3> QED
      BY <3>1 DEF Items
  <2>3. Len(s.queue) \in Nat
    BY <2>1, LenProperties
  <2> HIDE DEF u
  <2>4. ASSUME NEW j \in 0 .. N - 1
        PROVE  u.map[j] \in 0 .. Len(u.queue) /\ (u.map[j] # 0 => u.queue[u.map[j]].cell = j)
    BY <1>1, <1>4, <1>6, <1>7, <2>3 DEF Linked
  <2>5. ASSUME NEW k \in 1 .. Len(u.queue) PROVE u.map[u.queue[k].cell] \in {0, k}
    BY <1>1, <1>4, <1>6, <1>7, <2>2 DEF Linked
  <2> QED
    BY <2>4, <2>5 DEF Waiting
<1> QED
  BY <1>3, <1>4, <1>6, <1>7, <1>8 DEF K

\* A screen without a queue.
Flushed(s) == [s EXCEPT !.queue = <<>>, !.oldX = s.x, !.oldY = s.y]

\* The fields of a screen that was flushed.
LEMMA FlushedIs ==
    ASSUME NEW C, NEW R, NEW N, Size(C, R, N), NEW s \in ScreenOf(C, R, N),
           \A j \in 0 .. N - 1 : s.map[j] = 0
    PROVE  LET u == Flushed(s)
           IN  /\ u \in LinkedOf(C, R, N) /\ u.queue = <<>> /\ u.grid = s.grid /\ u.cols = s.cols
               /\ u.rows = s.rows /\ u.x = s.x /\ u.y = s.y /\ u.oldX = s.x /\ u.oldY = s.y
               /\ u.cursor = s.cursor /\ u.top = s.top /\ u.bottom = s.bottom
               /\ \A j \in 0 .. N - 1 : Content(u, j) = s.grid[j]
<1> DEFINE u == Flushed(s)
           q == <<>>
<1>1. q \in Queues(N) /\ Len(q) = 0
  BY DEF Queues
<1> HIDE DEF q
<1>2. /\ u \in ScreenOf(C, R, N) /\ u.queue = q /\ u.map = s.map /\ u.grid = s.grid /\ u.cols = s.cols
      /\ u.rows = s.rows /\ u.x = s.x /\ u.y = s.y /\ u.oldX = s.x /\ u.oldY = s.y
      /\ u.cursor = s.cursor /\ u.top = s.top /\ u.bottom = s.bottom
  BY <1>1 DEF Flushed, ScreenOf, q
<1> HIDE DEF u
<1>3. Linked(u, N)
  BY <1>1, <1>2 DEF Linked
<1>4. \A j \in 0 .. N - 1 : Content(u, j) = s.grid[j]
  BY <1>2 DEF Content
<1> QED
  BY <1>2, <1>3, <1>4 DEF LinkedOf, u, q

\* The fields that plotting leaves alone.
LEMMA RestIs ==
    ASSUME NEW s, NEW u, Rest(u) = Rest(s)
    PROVE  /\ u.cols = s.cols /\ u.rows = s.rows /\ u.queue = s.queue /\ u.x = s.x /\ u.y = s.y
           /\ u.oldX = s.oldX /\ u.oldY = s.oldY /\ u.cursor = s.cursor /\ u.top = s.top
           /\ u.bottom = s.bottom
  BY DEF Rest

\* What the framebuffer shows after a flush, and the rest of what holds then.
LEMMA ShownIsGood ==
    ASSUME NEW C, NEW R, NEW N, Size(C, R, N), NEW u \in LinkedOf(C, R, N), Placed(u),
           NEW w, TextOf(u, w, N), u.queue = <<>>, u.oldX = u.x, u.oldY = u.y,
           \A j \in 0 .. N - 1 : u.grid[j] = w[j],
           NEW v, v = [j \in 0 .. N - 1 |-> [c |-> w[j], inverse |-> j \in CursorCell(u)]], NEW d
    PROVE  FbGood(C, R, N, u, w, v, d)
<1>1. \A j \in 0 .. N - 1 : w[j] \in FbChar
  BY DEF TextOf, Grids
<1>2. v \in Views(N)
  BY <1>1 DEF Views, Marks
<1>3. \A j \in 0 .. N - 1 : v[j] = [c |-> w[j], inverse |-> j \in CursorCell(u)]
  OBVIOUS
<1>4. CursorCell(u) \subseteq Behind(u)
  BY DEF CursorCell, Behind
<1>5. ASSUME NEW j \in 0 .. N - 1, j \notin Behind(u) PROVE v[j] = [c |-> u.grid[j], inverse |-> FALSE]
  <2>1. (j \in CursorCell(u)) = FALSE
    BY <1>4, <1>5
  <2> QED
    BY <1>3, <2>1
<1> QED
  BY <1>2, <1>3, <1>5 DEF FbGood

\* A flush brings the framebuffer up to the text, with the cursor on one cell.
LEMMA FlushKeeps ==
    ASSUME NEW C, NEW R, NEW N, Size(C, R, N), FbGood(C, R, N, fb, want, shown, dirty),
           flanterm_fb_double_buffer_flush
    PROVE  FbGood(C, R, N, fb', want', shown', dirty')
<1> DEFINE K == CursorCell(fb)
           inverted == [i \in Cells(fb) |-> IF i \in K THEN [c |-> Content(fb, i), inverse |-> TRUE] ELSE shown[i]]
           h == draw_cursor(fb)
           done == PlotQueue(h, inverted)
           s == done.s
           v == [i \in Cells(fb) |-> IF i \in LeftBehind(s) THEN [c |-> s.grid[i], inverse |-> FALSE] ELSE done.view[i]]
           u == Flushed(s)
<1>1. fb' = u /\ want' = want /\ dirty' = FALSE /\ shown' = v
  BY DEF flanterm_fb_double_buffer_flush, Flushed
<1>2. /\ fb \in LinkedOf(C, R, N) /\ Placed(fb) /\ TextOf(fb, want, N) /\ Cells(fb) = 0 .. N - 1
      /\ fb.x \in Nat /\ fb.y \in Nat
  BY GoodIsLinked
<1>3. /\ shown \in Views(N)
      /\ \A j \in 0 .. N - 1 : j \notin Behind(fb) => shown[j] = [c |-> fb.grid[j], inverse |-> FALSE]
  BY DEF FbGood
<1>4. \A j \in 0 .. N - 1 : Content(fb, j) \in FbChar /\ want[j] = Content(fb, j)
  BY <1>2, ContentIs DEF TextOf
<1>5. /\ inverted \in Views(N)
      /\ \A j \in 0 .. N - 1 :
           inverted[j] = IF j \in K THEN [c |-> Content(fb, j), inverse |-> TRUE] ELSE shown[j]
  <2> HIDE DEF K
  <2> QED
    BY <1>2, <1>3, <1>4 DEF Views, Marks
<1>6. /\ h \in ScreenOf(C, R, N) /\ Rest(h) = Rest(fb) /\ Waiting(h, N) /\ h.queue = fb.queue
      /\ \A j \in 0 .. N - 1 :
           /\ h.map[j] = IF j \in K THEN 0 ELSE fb.map[j]
           /\ h.grid[j] = IF j \in K THEN Content(fb, j) ELSE fb.grid[j]
  BY <1>2, CursorDrawn
<1> HIDE DEF h, inverted
<1>7. done \in Plots(C, R, N) /\ Plotted(h, inverted, done, Len(h.queue), N)
  BY <1>5, <1>6, PlotQueueIs
<1> HIDE DEF done
<1>8. s \in ScreenOf(C, R, N) /\ Rest(s) = Rest(fb)
  BY <1>6, <1>7 DEF Plots, Plotted
<1>9. ASSUME NEW j \in 0 .. N - 1
      PROVE  /\ s.map[j] = 0 /\ s.grid[j] = want[j]
             /\ done.view[j] = IF h.map[j] # 0 THEN [c |-> want[j], inverse |-> FALSE] ELSE inverted[j]
             /\ h.map[j] = 0 /\ j \notin K => fb.grid[j] = want[j]
             /\ j \in K => h.map[j] = 0
  <2>1. h.map[j] \in 0 .. Len(h.queue)
    BY <1>6 DEF Waiting
  <2>2. h.map[j] \in 1 .. Len(h.queue) <=> h.map[j] # 0
    BY <2>1
  <2>3. /\ s.map[j] = IF h.map[j] # 0 THEN 0 ELSE h.map[j]
        /\ s.grid[j] = IF h.map[j] # 0 THEN h.queue[h.map[j]].c ELSE h.grid[j]
        /\ done.view[j] = IF h.map[j] # 0 THEN [c |-> h.queue[h.map[j]].c, inverse |-> FALSE] ELSE inverted[j]
    BY <1>7, <2>2 DEF Plotted
  <2>4. want[j] = IF fb.map[j] # 0 THEN fb.queue[fb.map[j]].c ELSE fb.grid[j]
    BY <1>4 DEF Content
  <2>5. want[j] = Content(fb, j)
    BY <1>4
  <2> HIDE DEF K, s
  <2> QED
    BY <1>6, <2>3, <2>4, <2>5
<1> HIDE DEF s
<1>10. /\ s.cols = fb.cols /\ s.rows = fb.rows /\ s.x = fb.x /\ s.y = fb.y /\ s.oldX = fb.oldX
       /\ s.oldY = fb.oldY /\ s.cursor = fb.cursor /\ s.top = fb.top /\ s.bottom = fb.bottom
  BY <1>8, RestIs
<1>11. /\ u \in LinkedOf(C, R, N) /\ u.queue = <<>> /\ u.grid = s.grid /\ u.cols = s.cols
       /\ u.rows = s.rows /\ u.x = s.x /\ u.y = s.y /\ u.oldX = s.x /\ u.oldY = s.y
       /\ u.cursor = s.cursor /\ u.top = s.top /\ u.bottom = s.bottom
       /\ \A j \in 0 .. N - 1 : Content(u, j) = s.grid[j]
  <2>1. \A j \in 0 .. N - 1 : s.map[j] = 0
    BY <1>9
  <2> QED
    BY <1>8, <2>1, FlushedIs
<1> HIDE DEF u
<1>12. Placed(u)
  BY <1>2, <1>10, <1>11 DEF Placed
<1>13. TextOf(u, want, N)
  BY <1>2, <1>9, <1>11 DEF TextOf
<1>14. CursorCell(u) = K
  BY <1>10, <1>11 DEF CursorCell, OnScreen, At
<1>15. ASSUME NEW j \in K PROVE j \notin LeftBehind(s)
  <2>1. fb.cursor /\ OnScreen(fb, fb.x, fb.y) /\ j = At(fb, fb.x, fb.y)
    BY <1>15 DEF CursorCell
  <2>2. fb \in ScreenOf(C, R, N) /\ fb.oldX \in Nat /\ fb.oldY \in Nat
    BY <1>2, ScreenIs DEF LinkedOf
  <2>3. OnScreen(fb, fb.oldX, fb.oldY) /\ At(fb, fb.oldX, fb.oldY) = j => fb.oldX = fb.x /\ fb.oldY = fb.y
    BY <1>2, <2>1, <2>2, AtIs
  <2>4. OnScreen(s, s.oldX, s.oldY) = OnScreen(fb, fb.oldX, fb.oldY) /\ At(s, s.oldX, s.oldY) = At(fb, fb.oldX, fb.oldY)
    BY <1>10 DEF OnScreen, At
  <2>5. SUFFICES ASSUME j \in LeftBehind(s) PROVE FALSE
    OBVIOUS
  <2>6. /\ <<s.oldX, s.oldY>> # <<s.x, s.y>> \/ ~s.cursor
        /\ OnScreen(s, s.oldX, s.oldY) /\ j = At(s, s.oldX, s.oldY)
    BY <2>5 DEF LeftBehind
  <2>7. fb.oldX = fb.x /\ fb.oldY = fb.y
    BY <2>3, <2>4, <2>6
  <2> QED
    BY <1>10, <2>1, <2>6, <2>7
<1>16. ASSUME NEW j \in Behind(fb), j \notin K PROVE j \in LeftBehind(s)
  <2>1. OnScreen(fb, fb.oldX, fb.oldY) /\ j = At(fb, fb.oldX, fb.oldY)
    BY <1>16 DEF Behind
  <2>2. OnScreen(s, s.oldX, s.oldY) /\ j = At(s, s.oldX, s.oldY)
    BY <1>10, <2>1 DEF OnScreen, At
  <2>3. <<s.oldX, s.oldY>> # <<s.x, s.y>> \/ ~s.cursor
    <3>1. SUFFICES ASSUME s.oldX = s.x, s.oldY = s.y, s.cursor PROVE FALSE
      OBVIOUS
    <3>2. fb.cursor /\ OnScreen(fb, fb.x, fb.y) /\ j = At(fb, fb.x, fb.y)
      BY <1>10, <2>1, <3>1
    <3> QED
      BY <1>16, <3>2 DEF CursorCell
  <2> QED
    BY <2>2, <2>3 DEF LeftBehind
<1>17. ASSUME NEW j \in 0 .. N - 1 PROVE v[j] = [c |-> want[j], inverse |-> j \in K]
  <2>0. v[j] = IF j \in LeftBehind(s) THEN [c |-> s.grid[j], inverse |-> FALSE] ELSE done.view[j]
    BY <1>2
  <2> HIDE DEF v, K
  <2>1. CASE j \in K
    <3>1. v[j] = inverted[j] /\ inverted[j] = [c |-> Content(fb, j), inverse |-> TRUE]
      BY <1>5, <1>9, <1>15, <2>0, <2>1
    <3>2. (j \in K) = TRUE
      BY <2>1
    <3> QED
      BY <1>4, <3>1, <3>2
  <2>2. CASE j \notin K
    <3>1. (j \in K) = FALSE
      BY <2>2
    <3>2. CASE j \in LeftBehind(s)
      BY <1>9, <2>0, <3>1, <3>2
    <3>3. CASE j \notin LeftBehind(s) /\ h.map[j] # 0
      BY <1>9, <2>0, <3>1, <3>3
    <3>4. CASE j \notin LeftBehind(s) /\ h.map[j] = 0
      <4>1. v[j] = inverted[j] /\ inverted[j] = shown[j] /\ fb.grid[j] = want[j]
        BY <1>5, <1>9, <2>0, <2>2, <3>4
      <4>2. shown[j] = [c |-> fb.grid[j], inverse |-> FALSE]
        BY <1>3, <1>16, <2>2, <3>4
      <4> QED
        BY <3>1, <4>1, <4>2
    <3> QED
      BY <3>2, <3>3, <3>4
  <2> QED
    BY <2>1, <2>2
<1>18. v = [j \in 0 .. N - 1 |-> [c |-> want[j], inverse |-> j \in CursorCell(u)]]
  <2>1. v = [j \in 0 .. N - 1 |-> v[j]]
    BY <1>2
  <2> HIDE DEF v, K
  <2> QED
    BY <1>14, <1>17, <2>1
<1>19. \A j \in 0 .. N - 1 : u.grid[j] = want[j]
  BY <1>9, <1>11
<1>20. u.oldX = u.x /\ u.oldY = u.y
  BY <1>11
<1> HIDE DEF v
<1>21. FbGood(C, R, N, u, want, v, FALSE)
  BY <1>11, <1>12, <1>13, <1>18, <1>19, <1>20, ShownIsGood
<1> QED
  BY <1>1, <1>21

\* A refresh right after a flush changes nothing that can be seen.
LEMMA RefreshKeeps ==
    ASSUME NEW C, NEW R, NEW N, Size(C, R, N), FbGood(C, R, N, fb, want, shown, dirty),
           ~FbManual, flanterm_fb_full_refresh
    PROVE  FbGood(C, R, N, fb', want', shown', dirty')
<1> DEFINE K == CursorCell(fb)
           u == draw_cursor(fb)
           v == [i \in Cells(fb) |-> IF i \in K THEN [c |-> Content(fb, i), inverse |-> TRUE]
                                     ELSE [c |-> fb.grid[i], inverse |-> FALSE]]
<1>1. fb' = u /\ want' = want /\ dirty' = dirty /\ shown' = v /\ ~dirty
  BY DEF flanterm_fb_full_refresh
<1>2. /\ fb \in LinkedOf(C, R, N) /\ Placed(fb) /\ TextOf(fb, want, N) /\ Cells(fb) = 0 .. N - 1
  BY GoodIsLinked
<1>3. fb.queue = <<>> /\ fb.oldX = fb.x /\ fb.oldY = fb.y
  BY <1>1 DEF FbGood
<1>4. \A j \in 0 .. N - 1 : fb.map[j] = 0
  <2>1. Linked(fb, N) /\ Len(fb.queue) = 0
    BY <1>2, <1>3 DEF LinkedOf
  <2> QED
    BY <2>1 DEF Linked
<1>5. \A j \in 0 .. N - 1 : Content(fb, j) = fb.grid[j] /\ want[j] = fb.grid[j]
  BY <1>2, <1>4 DEF Content, TextOf
<1>6. /\ u \in ScreenOf(C, R, N) /\ Rest(u) = Rest(fb) /\ Waiting(u, N) /\ u.queue = fb.queue
      /\ \A j \in 0 .. N - 1 :
           /\ u.map[j] = IF j \in K THEN 0 ELSE fb.map[j]
           /\ u.grid[j] = IF j \in K THEN Content(fb, j) ELSE fb.grid[j]
  BY <1>2, CursorDrawn
<1> HIDE DEF u
<1>7. \A j \in 0 .. N - 1 : u.map[j] = 0 /\ u.grid[j] = want[j] /\ Content(u, j) = want[j]
  BY <1>4, <1>5, <1>6 DEF Content
<1>8. /\ u.cols = fb.cols /\ u.rows = fb.rows /\ u.x = fb.x /\ u.y = fb.y
      /\ u.oldX = fb.oldX /\ u.oldY = fb.oldY /\ u.cursor = fb.cursor /\ u.top = fb.top
      /\ u.bottom = fb.bottom
  BY <1>6, RestIs
<1>9. u \in LinkedOf(C, R, N)
  <2>1. Len(u.queue) = 0
    BY <1>3, <1>6
  <2> QED
    BY <1>6, <1>7, <2>1 DEF LinkedOf, Linked
<1>10. Placed(u) /\ TextOf(u, want, N)
  BY <1>2, <1>7, <1>8 DEF Placed, TextOf
<1>11. CursorCell(u) = K
  BY <1>8 DEF CursorCell, OnScreen, At
<1>12. v = [j \in 0 .. N - 1 |-> [c |-> want[j], inverse |-> j \in CursorCell(u)]]
  <2>1. ASSUME NEW j \in 0 .. N - 1 PROVE v[j] = [c |-> want[j], inverse |-> j \in K]
    <3>0. v[j] = IF j \in K THEN [c |-> Content(fb, j), inverse |-> TRUE] ELSE [c |-> fb.grid[j], inverse |-> FALSE]
      BY <1>2
    <3> HIDE DEF v, K
    <3>1. CASE j \in K
      <4>1. (j \in K) = TRUE
        BY <3>1
      <4> QED
        BY <1>5, <3>0, <4>1
    <3>2. CASE j \notin K
      <4>1. (j \in K) = FALSE
        BY <3>2
      <4> QED
        BY <1>5, <3>0, <4>1
    <3> QED
      BY <3>1, <3>2
  <2>2. v = [j \in 0 .. N - 1 |-> v[j]]
    BY <1>2
  <2> HIDE DEF v, K
  <2> QED
    BY <1>11, <2>1, <2>2
<1>13. u.queue = <<>> /\ u.oldX = u.x /\ u.oldY = u.y
  BY <1>3, <1>6, <1>8
<1> HIDE DEF v
<1>14. FbGood(C, R, N, u, want, v, dirty)
  BY <1>7, <1>9, <1>10, <1>12, <1>13, ShownIsGood
<1> QED
  BY <1>1, <1>14

\* There is a screen, and all is well with it.
FbInv == \E C, R, N : Size(C, R, N) /\ FbGood(C, R, N, fb, want, shown, dirty)

\* Every operation of the backend keeps the invariant.
LEMMA FbStep ==
    ASSUME FbInv, ~FbManual, FbNext
    PROVE  FbInv'
<1>1. PICK C, R, N : Size(C, R, N) /\ FbGood(C, R, N, fb, want, shown, dirty)
  BY DEF FbInv
<1>2. SUFFICES FbGood(C, R, N, fb', want', shown', dirty')
  BY <1>1 DEF FbInv
<1>3. ASSUME NEW c \in FbChar, Write(c) PROVE FbGood(C, R, N, fb', want', shown', dirty')
  BY <1>1, <1>3, WriteKeeps
<1>4. CASE Scroll
  BY <1>1, <1>4, ScrollKeeps
<1>5. CASE RevScroll
  BY <1>1, <1>5, RevScrollKeeps
<1>6. CASE InsertShift
  BY <1>1, <1>6, InsertShiftKeeps
<1>7. ASSUME NEW move \in BOOLEAN, flanterm_fb_clear(move)
      PROVE  FbGood(C, R, N, fb', want', shown', dirty')
  BY <1>1, <1>7, ClearKeeps
<1>8. ASSUME NEW x \in 0 .. fb.cols - 1, NEW y \in 0 .. fb.rows - 1, flanterm_fb_set_cursor_pos(x, y)
      PROVE  FbGood(C, R, N, fb', want', shown', dirty')
  <2>1. x \in Nat /\ y \in Nat
    OBVIOUS
  <2> QED
    BY <1>1, <1>8, <2>1, SetCursorKeeps
<1>9. ASSUME NEW on \in BOOLEAN, NEW top \in 0 .. fb.rows, NEW bottom \in 2 .. fb.rows,
             Configure(on, top, bottom)
      PROVE  FbGood(C, R, N, fb', want', shown', dirty')
  <2>1. top \in Nat /\ bottom \in Nat
    OBVIOUS
  <2> QED
    BY <1>1, <1>9, <2>1, ConfigureKeeps
<1>10. CASE flanterm_fb_double_buffer_flush
  BY <1>1, <1>10, FlushKeeps
<1>11. CASE flanterm_fb_full_refresh
  BY <1>1, <1>11, RefreshKeeps
<1> QED
  BY <1>3, <1>4, <1>5, <1>6, <1>7, <1>8, <1>9, <1>10, <1>11, Zenon DEF FbNext

\* A blank screen with the cursor in its first cell.
LEMMA FbStart == FbInit => FbInv
<1> SUFFICES ASSUME FbInit PROVE FbInv
  OBVIOUS
<1>1. PICK d \in FbDims :
        LET cells == 0 .. d.cols * d.rows - 1
        IN  /\ fb = [cols |-> d.cols, rows |-> d.rows, grid |-> [i \in cells |-> "blank"],
                     map |-> [i \in cells |-> 0], queue |-> <<>>, x |-> 0, y |-> 0,
                     oldX |-> 0, oldY |-> 0, cursor |-> TRUE, top |-> 0, bottom |-> d.rows]
            /\ shown = [i \in cells |-> [c |-> "blank", inverse |-> i = 0]]
            /\ want = [i \in cells |-> "blank"] /\ dirty = FALSE
  BY DEF FbInit
<1> DEFINE C == d.cols
           R == d.rows
           N == C * R
           g == [i \in 0 .. N - 1 |-> "blank"]
           m == [i \in 0 .. N - 1 |-> 0]
           q == <<>>
<1>2. C \in Nat /\ C > 0 /\ R \in Nat /\ R > 0
  BY FbAssumption
<1>3. Size(C, R, N) /\ N \in Nat
  BY <1>2 DEF Size
<1>4. fb = [cols |-> C, rows |-> R, grid |-> g, map |-> m, queue |-> q, x |-> 0, y |-> 0,
            oldX |-> 0, oldY |-> 0, cursor |-> TRUE, top |-> 0, bottom |-> R]
  BY <1>1
<1>5. want = g /\ shown = [i \in 0 .. N - 1 |-> [c |-> "blank", inverse |-> i = 0]]
  BY <1>1
<1> HIDE DEF C, R, N
<1>6. g \in Grids(N) /\ m \in Maps(N) /\ q \in Queues(N) /\ Len(q) = 0
      /\ \A j \in 0 .. N - 1 : g[j] = "blank" /\ m[j] = 0
  BY FbAssumption DEF Grids, Maps, Queues
<1> HIDE DEF g, m, q
<1>7. /\ fb \in ScreenOf(C, R, N) /\ fb.cols = C /\ fb.rows = R /\ fb.grid = g /\ fb.map = m
      /\ fb.queue = q /\ fb.x = 0 /\ fb.y = 0 /\ fb.oldX = 0 /\ fb.oldY = 0 /\ fb.cursor
      /\ fb.top = 0 /\ fb.bottom = R
  BY <1>2, <1>4, <1>6 DEF ScreenOf
<1>8. fb \in LinkedOf(C, R, N)
  BY <1>6, <1>7 DEF LinkedOf, Linked
<1>9. Placed(fb)
  BY <1>2, <1>7 DEF Placed
<1>10. TextOf(fb, want, N)
  BY <1>5, <1>6, <1>7 DEF TextOf, Content
<1>11. CursorCell(fb) = {0}
  BY <1>2, <1>7 DEF CursorCell, OnScreen, At
<1>12. shown = [j \in 0 .. N - 1 |-> [c |-> want[j], inverse |-> j \in CursorCell(fb)]]
  <2>1. \A j \in 0 .. N - 1 : (j \in CursorCell(fb)) = (j = 0) /\ want[j] = "blank"
    BY <1>5, <1>6, <1>11
  <2> QED
    BY <1>5, <2>1
<1>13. \A j \in 0 .. N - 1 : fb.grid[j] = want[j]
  BY <1>5, <1>7
<1>14. fb.queue = <<>> /\ fb.oldX = fb.x /\ fb.oldY = fb.y
  BY <1>7 DEF q
<1>15. FbGood(C, R, N, fb, want, shown, dirty)
  BY <1>3, <1>8, <1>9, <1>10, <1>12, <1>13, <1>14, ShownIsGood
<1> QED
  BY <1>3, <1>15 DEF FbInv

\* The invariant bounds the queue and says what a flushed screen shows.
LEMMA FbInvIsSound ==
    ASSUME FbInv
    PROVE  FbTypeOK /\ ScreenShowsText
<1>1. PICK C, R, N : Size(C, R, N) /\ FbGood(C, R, N, fb, want, shown, dirty)
  BY DEF FbInv
<1>2. fb \in LinkedOf(C, R, N) /\ Cells(fb) = 0 .. N - 1
  BY <1>1, GoodIsLinked
<1>3. ScreenShowsText
  BY <1>1, <1>2 DEF FbGood, ScreenShowsText
<1>4. fb \in ScreenOf(C, R, N) /\ Linked(fb, N) /\ fb.cols * fb.rows = N
  BY <1>1, <1>2, LinkedIs
<1>5. \A i \in Cells(fb) : fb.grid[i] \in FbChar /\ fb.map[i] \in 0 .. Len(fb.queue)
  <2>1. fb.grid \in [0 .. N - 1 -> FbChar]
    BY <1>1, <1>4, ScreenIs DEF Grids
  <2> QED
    BY <1>2, <1>4, <2>1 DEF Linked
<1>6. Len(fb.queue) <= N
  <2> DEFINE q == fb.queue
             n == Len(q)
             S == 1 .. n
             T == 0 .. N - 1
             f == [k \in S |-> q[k].cell]
  <2>1. q \in Seq(Items(N)) /\ N \in Nat
    BY <1>1, <1>4, ScreenIs, SizeIs DEF Queues
  <2>2. n \in Nat /\ \A k \in 1 .. n : q[k] \in Items(N)
    BY <2>1, LenProperties, ElementOfSeq
  <2>3. f \in [S -> T]
    BY <2>2 DEF Items
  <2>4. IsFiniteSet(S) /\ Cardinality(S) = n /\ IsFiniteSet(T) /\ Cardinality(T) = N
    <3> HIDE DEF n
    <3>1. IsFiniteSet(1 .. n) /\ Cardinality(1 .. n) = n
      BY <2>2, CellCount
    <3>2. IsFiniteSet(0 .. N - 1) /\ Cardinality(0 .. N - 1) = N
      BY <2>1, CellCount
    <3> QED
      BY <3>1, <3>2
  <2>5. \A k, l \in S : f[k] = f[l] => k = l
    BY <1>4 DEF Linked
  <2> HIDE DEF f, S, T, n
  <2>6. ~(Cardinality(T) < Cardinality(S))
    <3>1. SUFFICES ASSUME Cardinality(T) < Cardinality(S) PROVE FALSE
      OBVIOUS
    <3>2. \E k, l \in S : k # l /\ f[k] = f[l]
      BY <2>3, <2>4, <3>1, FS_PigeonHole
    <3> QED
      BY <2>5, <3>2
  <2> QED
    BY <2>1, <2>2, <2>4, <2>6 DEF n, q
<1> QED
  BY <1>3, <1>4, <1>5, <1>6 DEF FbTypeOK

(***************************************************************************)
(* Geometry.                                                               *)
(***************************************************************************)
\* Along one axis, n cells of k pixels from o on lie inside w pixels, each apart from the others.
Apart(w, k, n, o) ==
    /\ o \in Nat /\ n \in Nat
    /\ \A x \in 0 .. n - 1, i \in 0 .. k - 1 : x * k \in Nat /\ o + x * k + i \in 0 .. w - 1
    /\ \A x, y \in 0 .. n - 1, i, j \in 0 .. k - 1 : o + x * k + i = o + y * k + j => x = y

\* The margin and what is left over place the cells.
LEMMA OneAxis ==
    ASSUME NEW w \in Nat, NEW m \in Nat, NEW k \in Nat \ {0}, m * 2 <= w,
           NEW n, n = (w - m * 2) \div k, NEW o, o = m + ((w - m * 2) % k) \div 2
    PROVE  Apart(w, k, n, o)
<1> DEFINE d == w - m * 2
           e == d % k
<1>1. d \in Nat /\ k \in Nat /\ k > 0
  OBVIOUS
<1> HIDE DEF d
<1>2. n = d \div k /\ o = m + e \div 2 /\ w = d + m * 2
  BY DEF d
<1>3. n \in Nat /\ e \in Nat /\ d = k * n + e /\ e < k
  BY <1>1, <1>2
<1> HIDE DEF e
<1>4. o \in Nat /\ o >= m /\ o - m <= e
  BY <1>2, <1>3
<1>5. n * k \in Nat /\ d = n * k + e
  BY <1>1, <1>3
<1>6. ASSUME NEW x \in 0 .. n - 1, NEW i \in 0 .. k - 1
      PROVE  x * k \in Nat /\ o + x * k + i \in 0 .. w - 1
  <2>1. x * k \in Nat /\ x * k + k <= n * k
    BY <1>1, <1>3, Products
  <2> HIDE DEF e
  <2> QED
    BY <1>1, <1>2, <1>3, <1>4, <1>5, <2>1
<1>7. ASSUME NEW x \in 0 .. n - 1, NEW y \in 0 .. n - 1, NEW i \in 0 .. k - 1, NEW j \in 0 .. k - 1,
             o + x * k + i = o + y * k + j
      PROVE  x = y
  <2>1. x \in Nat /\ y \in Nat /\ x * k \in Nat /\ y * k \in Nat /\ x * k + i = y * k + j
    BY <1>3, <1>4, <1>6, <1>7
  <2>2. ~(x < y)
    BY <1>1, <2>1, Products
  <2>3. ~(y < x)
    BY <1>1, <2>1, Products
  <2> QED
    BY <2>1, <2>2, <2>3
<1> QED
  BY <1>3, <1>4, <1>6, <1>7 DEF Apart

\* The walk over a cell with its strides visits the pixels of the cell.
LEMMA PointIs ==
    ASSUME NEW g, NEW r \in {0, 90, 180, 270}, NEW x \in Nat, NEW y \in Nat, g.width \in Nat, g.height \in Nat,
           OffsetX(g) + x * g.glyphWidth \in Nat, OffsetY(g) + y * g.glyphHeight \in Nat,
           NEW p \in plot_char(g, r, x, y)
    PROVE  \E i \in 0 .. g.glyphWidth - 1, j \in 0 .. g.glyphHeight - 1 :
             <<p[1], p[2]>> = Pixel(g, r, OffsetX(g) + x * g.glyphWidth + i, OffsetY(g) + y * g.glyphHeight + j)
<1> DEFINE a == OffsetX(g) + x * g.glyphWidth
           b == OffsetY(g) + y * g.glyphHeight
           f == Pixel(g, r, a, b)
<1>1. PICK i \in 0 .. g.glyphWidth - 1, j \in 0 .. g.glyphHeight - 1 :
        p = [k \in 1 .. 2 |-> f[k] + j * Strides[r].outer[k] + i * Strides[r].inner[k]]
  BY DEF plot_char
<1>2. /\ p[1] = f[1] + j * Strides[r].outer[1] + i * Strides[r].inner[1]
      /\ p[2] = f[2] + j * Strides[r].outer[2] + i * Strides[r].inner[2]
  BY <1>1
<1>3. a \in Nat /\ b \in Nat /\ i \in Int /\ j \in Int
  OBVIOUS
<1> HIDE DEF a, b
<1>4. CASE r = 0
  <2>1. /\ Strides[r].outer[1] = 0 /\ Strides[r].outer[2] = 1 /\ Strides[r].inner[1] = 1 /\ Strides[r].inner[2] = 0
        /\ f[1] = a /\ f[2] = b /\ Pixel(g, r, a + i, b + j) = <<a + i, b + j>>
    BY <1>4 DEF Strides, Pixel
  <2>2. p[1] = a + i /\ p[2] = b + j
    BY <1>2, <1>3, <2>1
  <2> QED
    BY <2>1, <2>2 DEF a, b
<1>5. CASE r = 90
  <2>1. /\ Strides[r].outer[1] = -1 /\ Strides[r].outer[2] = 0 /\ Strides[r].inner[1] = 0 /\ Strides[r].inner[2] = 1
        /\ f[1] = g.height - 1 - b /\ f[2] = a
        /\ Pixel(g, r, a + i, b + j) = <<g.height - 1 - (b + j), a + i>>
    BY <1>5 DEF Strides, Pixel
  <2>2. p[1] = g.height - 1 - (b + j) /\ p[2] = a + i
    BY <1>2, <1>3, <2>1
  <2> QED
    BY <2>1, <2>2 DEF a, b
<1>6. CASE r = 180
  <2>1. /\ Strides[r].outer[1] = 0 /\ Strides[r].outer[2] = -1 /\ Strides[r].inner[1] = -1 /\ Strides[r].inner[2] = 0
        /\ f[1] = g.width - 1 - a /\ f[2] = g.height - 1 - b
        /\ Pixel(g, r, a + i, b + j) = <<g.width - 1 - (a + i), g.height - 1 - (b + j)>>
    BY <1>6 DEF Strides, Pixel
  <2>2. p[1] = g.width - 1 - (a + i) /\ p[2] = g.height - 1 - (b + j)
    BY <1>2, <1>3, <2>1
  <2> QED
    BY <2>1, <2>2 DEF a, b
<1>7. CASE r = 270
  <2>1. /\ Strides[r].outer[1] = 1 /\ Strides[r].outer[2] = 0 /\ Strides[r].inner[1] = 0 /\ Strides[r].inner[2] = -1
        /\ f[1] = b /\ f[2] = g.width - 1 - a
        /\ Pixel(g, r, a + i, b + j) = <<b + j, g.width - 1 - (a + i)>>
    BY <1>7 DEF Strides, Pixel
  <2>2. p[1] = b + j /\ p[2] = g.width - 1 - (a + i)
    BY <1>2, <1>3, <2>1
  <2> QED
    BY <2>1, <2>2 DEF a, b
<1> QED
  BY <1>4, <1>5, <1>6, <1>7

\* The memory that a refresh paints.
Memory(g, r) == IF r \in {0, 180} THEN (0 .. g.width - 1) \X (0 .. g.height - 1)
                ELSE (0 .. g.height - 1) \X (0 .. g.width - 1)

\* A rotation takes the pixels of the screen into memory, each to a place of its own.
LEMMA PixelIs ==
    ASSUME NEW g, g.width \in Nat, g.height \in Nat, NEW r \in {0, 90, 180, 270},
           NEW x \in 0 .. g.width - 1, NEW y \in 0 .. g.height - 1
    PROVE  /\ Pixel(g, r, x, y) \in Memory(g, r)
           /\ \A a \in 0 .. g.width - 1, b \in 0 .. g.height - 1 :
                Pixel(g, r, a, b) = Pixel(g, r, x, y) => a = x /\ b = y
<1>1. CASE r = 0
  BY <1>1 DEF Pixel, Memory
<1>2. CASE r = 90
  BY <1>2 DEF Pixel, Memory
<1>3. CASE r = 180
  BY <1>3 DEF Pixel, Memory
<1>4. CASE r = 270
  BY <1>4 DEF Pixel, Memory
<1> QED
  BY <1>1, <1>2, <1>3, <1>4

\* In every geometry the cells are apart.
LEMMA GeometryIsSound == geo \in FbGeometry => CellsAreApart
<1> SUFFICES ASSUME geo \in FbGeometry PROVE CellsAreApart
  OBVIOUS
<1> DEFINE g == geo
           r == geo.rotation
           Xs == 0 .. FbCols(g) - 1
           Ys == 0 .. FbRows(g) - 1
<1>1. /\ g.width \in Nat /\ g.height \in Nat /\ g.glyphWidth \in Nat \ {0} /\ g.glyphHeight \in Nat \ {0}
      /\ g.margin \in Nat /\ r \in {0, 90, 180, 270} /\ g.margin * 2 <= g.width /\ g.margin * 2 <= g.height
  BY FbAssumption
<1> DEFINE px(x, i) == OffsetX(g) + x * g.glyphWidth + i
           py(y, j) == OffsetY(g) + y * g.glyphHeight + j
           I == 0 .. g.glyphWidth - 1
           J == 0 .. g.glyphHeight - 1
<1>2. /\ OffsetX(g) \in Nat /\ FbCols(g) \in Nat
      /\ \A x \in Xs, i \in I : x * g.glyphWidth \in Nat /\ px(x, i) \in 0 .. g.width - 1
      /\ \A x, y \in Xs, i, j \in I : px(x, i) = px(y, j) => x = y
  <2> DEFINE w == g.width
             m == g.margin
             k == g.glyphWidth
             n == FbCols(g)
             o == OffsetX(g)
  <2>1. w \in Nat /\ m \in Nat /\ k \in Nat \ {0} /\ m * 2 <= w
    BY <1>1
  <2>2. n = (w - m * 2) \div k
    BY DEF FbCols
  <2>3. o = m + ((w - m * 2) % k) \div 2
    BY DEF OffsetX
  <2>4. Apart(w, k, n, o)
    <3> HIDE DEF w, m, k, n, o
    <3> QED
      BY <2>1, <2>2, <2>3, OneAxis, Zenon
  <2> QED
    BY <2>4 DEF Apart
<1>3. /\ OffsetY(g) \in Nat /\ FbRows(g) \in Nat
      /\ \A y \in Ys, j \in J : y * g.glyphHeight \in Nat /\ py(y, j) \in 0 .. g.height - 1
      /\ \A x, y \in Ys, i, j \in J : py(x, i) = py(y, j) => x = y
  <2> DEFINE w == g.height
             m == g.margin
             k == g.glyphHeight
             n == FbRows(g)
             o == OffsetY(g)
  <2>1. w \in Nat /\ m \in Nat /\ k \in Nat \ {0} /\ m * 2 <= w
    BY <1>1
  <2>2. n = (w - m * 2) \div k
    BY DEF FbRows
  <2>3. o = m + ((w - m * 2) % k) \div 2
    BY DEF OffsetY
  <2>4. Apart(w, k, n, o)
    <3> HIDE DEF w, m, k, n, o
    <3> QED
      BY <2>1, <2>2, <2>3, OneAxis, Zenon
  <2> QED
    BY <2>4 DEF Apart
<1>4. ASSUME NEW x \in Xs, NEW y \in Ys, NEW p \in plot_char(g, r, x, y)
      PROVE  \E i \in I, j \in J : <<p[1], p[2]>> = Pixel(g, r, px(x, i), py(y, j))
  <2>1. x \in Nat /\ y \in Nat
    BY <1>2, <1>3
  <2>2. 0 \in I /\ 0 \in J
    BY <1>1
  <2>3. x * g.glyphWidth \in Nat /\ y * g.glyphHeight \in Nat
    BY <1>2, <1>3, <2>2
  <2>4. OffsetX(g) + x * g.glyphWidth \in Nat /\ OffsetY(g) + y * g.glyphHeight \in Nat
    BY <1>2, <1>3, <2>3
  <2> QED
    BY <1>1, <2>1, <2>4, PointIs, SMTT(30)
<1> HIDE DEF px, py, I, J, Xs, Ys
<1>5. ASSUME NEW x \in Xs, NEW y \in Ys, NEW p \in plot_char(g, r, x, y) PROVE <<p[1], p[2]>> \in Memory(g, r)
  <2>1. PICK i \in I, j \in J : <<p[1], p[2]>> = Pixel(g, r, px(x, i), py(y, j))
    BY <1>4
  <2>2. px(x, i) \in 0 .. g.width - 1 /\ py(y, j) \in 0 .. g.height - 1
    BY <1>2, <1>3
  <2> QED
    BY <1>1, <2>1, <2>2, PixelIs, SMTT(30)
<1>6. ASSUME NEW x \in Xs, NEW y \in Ys, NEW a \in Xs, NEW b \in Ys,
             NEW p \in plot_char(g, r, x, y), p \in plot_char(g, r, a, b)
      PROVE  x = a /\ y = b
  <2>1. PICK i \in I, j \in J : <<p[1], p[2]>> = Pixel(g, r, px(x, i), py(y, j))
    BY <1>4
  <2>2. PICK k \in I, l \in J : <<p[1], p[2]>> = Pixel(g, r, px(a, k), py(b, l))
    BY <1>4, <1>6
  <2>3. /\ px(x, i) \in 0 .. g.width - 1 /\ py(y, j) \in 0 .. g.height - 1
        /\ px(a, k) \in 0 .. g.width - 1 /\ py(b, l) \in 0 .. g.height - 1
    BY <1>2, <1>3
  <2>4. px(x, i) = px(a, k) /\ py(y, j) = py(b, l)
    <3>1. Pixel(g, r, px(x, i), py(y, j)) = Pixel(g, r, px(a, k), py(b, l))
      BY <2>1, <2>2
    <3> QED
      BY <1>1, <2>3, <3>1, PixelIs
  <2> QED
    BY <1>2, <1>3, <2>4
<1>7. \A a, b \in Xs \X Ys : a # b => plot_char(g, r, a[1], a[2]) \cap plot_char(g, r, b[1], b[2]) = {}
  <2> SUFFICES ASSUME NEW a \in Xs \X Ys, NEW b \in Xs \X Ys, a # b,
                      NEW p, p \in plot_char(g, r, a[1], a[2]), p \in plot_char(g, r, b[1], b[2])
               PROVE  FALSE
    OBVIOUS
  <2>1. a[1] \in Xs /\ a[2] \in Ys /\ b[1] \in Xs /\ b[2] \in Ys /\ (a[1] = b[1] /\ a[2] = b[2] => a = b)
    OBVIOUS
  <2> QED
    BY <1>6, <2>1
<1>8. \A a \in Xs \X Ys : \A p \in plot_char(g, r, a[1], a[2]) : <<p[1], p[2]>> \in Memory(g, r)
  BY <1>5
<1> QED
  BY <1>7, <1>8 DEF CellsAreApart, Memory, Xs, Ys


(***************************************************************************)
(* The terminal.                                                           *)
(***************************************************************************)
\* The numbers of a group are lists of digits.
LEMMA NumbersAre == \A p \in DOMAIN Groups : Groups[p].numbers \subseteq Seq(Nat)
<1>1. DOMAIN Groups = {"moves", "saves", "osc", "text", "sets", "erase"}
  BY DEF Groups
<1>2. /\ Groups["moves"].numbers = {<<1>>, <<2>>, <<6>>, <<9, 9, 9, 9, 9, 9>>}
      /\ Groups["saves"].numbers = {<<2>>, <<6>>, <<1, 0, 4, 9>>}
      /\ Groups["osc"].numbers = {<<0>>} /\ Groups["text"].numbers = {<<2>>, <<4>>}
      /\ Groups["sets"].numbers = {} /\ Groups["erase"].numbers = {<<2>>}
  BY DEF Groups
<1>3. /\ <<0>> \in Seq(Nat) /\ <<1>> \in Seq(Nat) /\ <<2>> \in Seq(Nat) /\ <<4>> \in Seq(Nat)
      /\ <<6>> \in Seq(Nat)
  OBVIOUS
<1>4. <<9, 9, 9, 9, 9, 9>> \in Seq(Nat) /\ <<1, 0, 4, 9>> \in Seq(Nat)
  OBVIOUS
<1>5. ASSUME NEW p \in DOMAIN Groups PROVE Groups[p].numbers \subseteq Seq(Nat)
  <2>1. p \in {"moves", "saves", "osc", "text", "sets", "erase"}
    BY <1>1
  <2> QED
    BY <1>2, <1>3, <1>4, <2>1, Zenon
<1> QED
  BY <1>5

\* A byte or a number keeps the context good, in whichever group.
LEMMA TermStep ==
    ASSUME term \in Good, NEW B, NEW D, D \subseteq Seq(Nat), TermNext(B, D)
    PROVE  (term \in Good)'
  BY BytesAreGood, ContinuesIsGood, DigitsAreGood DEF TermNext

\* Whatever bytes and numbers flanterm_write gets, not only those of one group: the cursor, the
\* saved one, the margins and the mark stay on the screen, and scrolling is never left off.
THEOREM AnyBytesAreSound ==
    ASSUME NEW CONSTANT bytes, NEW CONSTANT numbers \in SUBSET Seq(Nat)
    PROVE  TermInit /\ [][TermNext(bytes, numbers)]_term => []TerminalIsSound
<1> DEFINE Inv == term \in Good
<1>1. TermInit => Inv
  BY TermInitIs
<1>2. Inv /\ [TermNext(bytes, numbers)]_term => Inv'
  BY TermStep
<1>3. Inv => TerminalIsSound
  BY GoodIsSound
<1> QED
  BY <1>1, <1>2, <1>3, PTL

\* The same for the instance that the run checks: the cursor, the saved cursor, the margins and
\* the mark stay on the screen after the bytes of every group, and scrolling is never left off.
THEOREM TerminalStaysSound == TerminalSpec => []TerminalIsSound
<1> DEFINE Inv == term \in Good
<1>1. TerminalInit => Inv
  BY TermInitIs DEF TerminalInit
<1>2. Inv /\ [TerminalNext]_terminalVars => Inv'
  <2> SUFFICES ASSUME Inv, [TerminalNext]_terminalVars PROVE Inv'
    OBVIOUS
  <2>1. ASSUME part \in DOMAIN Groups, TermNext(Groups[part].bytes, Groups[part].numbers) PROVE Inv'
    BY <2>1, NumbersAre, TermStep
  <2>2. CASE UNCHANGED term
    BY <2>2
  <2> QED
    BY <2>1, <2>2 DEF TerminalNext, terminalVars
<1>3. Inv => TerminalIsSound
  BY GoodIsSound
<1> QED
  BY <1>1, <1>2, <1>3, PTL DEF TerminalSpec

\* Text is drawn in the colours that were asked for last, through bold, reverse video, saving and
\* restoring, in any order and for any parameters of sgr.
THEOREM ColoursAreKept == TerminalSpec => []ColourIsKept
<1> DEFINE Inv == SgrInv(attr, asked)
<1>1. TerminalInit => Inv
  BY PlainIsDrawn DEF TerminalInit, SgrInit
<1>2. Inv /\ [TerminalNext]_terminalVars => Inv'
  <2> SUFFICES ASSUME Inv, [TerminalNext]_terminalVars PROVE Inv'
    OBVIOUS
  <2>1. [SgrNext]_sgrVars
    BY DEF TerminalNext, terminalVars
  <2> QED
    BY <2>1, SgrStep
<1>3. Inv => ColourIsKept
  BY InvIsKept
<1> HIDE DEF Inv
<1> QED
  BY <1>1, <1>2, <1>3, PTL DEF TerminalSpec

\* The backend's part of the invariant.
FbSound == FbInv /\ geo \in FbGeometry

\* The backend starts well, and keeps well unless the host refreshes it between two flushes.
LEMMA FbIsKept ==
    ASSUME ~FbManual
    PROVE  /\ TerminalInit => FbSound
           /\ FbSound /\ [TerminalNext]_terminalVars => FbSound'
<1>1. TerminalInit => FbSound
  <2> SUFFICES ASSUME TerminalInit PROVE FbSound
    OBVIOUS
  <2>1. FbInit
    BY DEF TerminalInit
  <2>2. geo = CHOOSE g \in FbGeometry : g.rotation = 0
    BY <2>1 DEF FbInit
  <2>3. geo \in FbGeometry
    BY <2>2, FbAssumption
  <2> QED
    BY <2>1, <2>3, FbStart DEF FbSound
<1>2. ASSUME FbSound, [TerminalNext]_terminalVars PROVE FbSound'
  <2>1. CASE FbNext
    <3>1. geo' = geo
      BY <2>1 DEF FbNext, Write, Scroll, RevScroll, InsertShift, flanterm_fb_clear,
                  flanterm_fb_set_cursor_pos, Configure, flanterm_fb_double_buffer_flush,
                  flanterm_fb_full_refresh
    <3> QED
      BY <1>2, <2>1, <3>1, FbStep, SMTT(30) DEF FbSound
  <2>2. CASE geo' \in FbGeometry /\ UNCHANGED <<fb, shown, want, dirty>>
    BY <1>2, <2>2 DEF FbSound, FbInv
  <2>3. FbNext \/ (geo' \in FbGeometry /\ UNCHANGED <<fb, shown, want, dirty>>)
    BY <1>2 DEF TerminalNext, terminalVars, fbVars, Reopen, FbSound
  <2> QED
    BY <2>1, <2>2, <2>3
<1> QED
  BY <1>1, <1>2

\* After a flush the framebuffer shows the text as it was written, scrolled and moved, with the
\* cursor on its cell and nowhere else, on a screen of any size; and in every rotation the cells
\* of any framebuffer are apart and inside it.
THEOREM ScreenStaysSound ==
    ASSUME ~FbManual
    PROVE  TerminalSpec => []ScreenIsSound
<1>1. /\ TerminalInit => FbSound
      /\ FbSound /\ [TerminalNext]_terminalVars => FbSound'
  BY FbIsKept
<1>2. FbSound => ScreenIsSound
  BY FbInvIsSound, GeometryIsSound DEF FbSound, ScreenIsSound
<1> QED
  BY <1>1, <1>2, PTL DEF TerminalSpec

\* The parser's counts, the queue of the backend and the attributes keep their types.
THEOREM TerminalTypes ==
    ASSUME ~FbManual
    PROVE  TerminalSpec => []TerminalTypeOK
<1> DEFINE Inv == term \in Good /\ SgrInv(attr, asked) /\ FbSound
<1>1. TerminalInit => Inv
  BY FbIsKept, TermInitIs, PlainIsDrawn DEF TerminalInit, SgrInit
<1>2. Inv /\ [TerminalNext]_terminalVars => Inv'
  <2> SUFFICES ASSUME Inv, [TerminalNext]_terminalVars PROVE Inv'
    OBVIOUS
  <2>1. (term \in Good)'
    <3>1. ASSUME part \in DOMAIN Groups, TermNext(Groups[part].bytes, Groups[part].numbers)
          PROVE  (term \in Good)'
      BY <3>1, NumbersAre, TermStep
    <3>2. CASE UNCHANGED term
      BY <3>2
    <3> QED
      BY <3>1, <3>2 DEF TerminalNext, terminalVars
  <2>2. SgrInv(attr, asked)'
    <3>1. [SgrNext]_sgrVars
      BY DEF TerminalNext, terminalVars
    <3> QED
      BY <3>1, SgrStep
  <2> QED
    BY <2>1, <2>2, FbIsKept
<1>3. Inv => TerminalTypeOK
  BY GoodIsSound, InvIsKept, FbInvIsSound DEF TerminalTypeOK, FbSound
<1> HIDE DEF Inv
<1> QED
  BY <1>1, <1>2, <1>3, PTL DEF TerminalSpec
=============================================================================
