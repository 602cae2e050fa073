----------------------------- MODULE MCTerminal -----------------------------
(***************************************************************************)
(* The terminal: its parser and cursor under the bytes of one group of     *)
(* escape sequences, its colours, its cells on the screen, or the place of *)
(* the cells in a framebuffer.                                             *)
(***************************************************************************)
EXTENDS Flanterm, FlantermFb, FlantermSgr

VARIABLE part
terminalVars == <<term, fbVars, sgrVars, part>>

\* The bytes and the numbers of each group.
Groups ==
  [moves |-> [bytes |-> {"ESC", "[", "?", ";", "r", "H", "A", "B", "d", "h", "l", "LF", "x"},
              numbers |-> {<<1>>, <<2>>, <<6>>, <<9, 9, 9, 9, 9, 9>>}],
   saves |-> [bytes |-> {"ESC", "[", "?", "7", "8", "h", "l", "r", "LF"},
              numbers |-> {<<2>>, <<6>>, <<1, 0, 4, 9>>}],
   osc   |-> [bytes |-> {"ESC", "]", "[", "\\", "BEL", "CAN", "x", "LF", "%"}, numbers |-> {<<0>>}],
   text  |-> [bytes |-> {"ESC", "[", "lead2", "lead3", "lead4", "cont", "x", "b", "h", "l", "CR", "BS",
                         "DEL", "E", "D", "M"},
              numbers |-> {<<2>>, <<4>>}],
   sets  |-> [bytes |-> {"ESC", "(", "B", "0", "SO", "SI", "x", "7", "8", "lead2"}, numbers |-> {}],
   erase |-> [bytes |-> {"ESC", "[", "J", "K", "G", "C", "F", "m", "x", "TAB", "P", "s", "u", "c"},
              numbers |-> {<<2>>}]]

\* A column and a row of cells, and framebuffers whose margins do not divide evenly.
Screens == {[cols |-> 1, rows |-> 3], [cols |-> 3, rows |-> 1]}
Framebuffers == [width : {7, 8}, height : {5}, glyphWidth : {2}, glyphHeight : {2},
                 margin : {0, 1}, rotation : {0, 90, 180, 270}]

\* Calls of sgr: every attribute, colours of each kind, and sequences cut short.
Sgrs == {<<>>, <<1>>, <<22>>, <<5>>, <<25>>, <<7>>, <<27>>, <<31>>, <<42>>, <<93>>, <<101>>, <<39>>,
         <<49>>, <<38, 5, 3>>, <<48, 5, 12>>, <<38, 2, 1, 2, 3>>, <<48, 5, 200, 31>>, <<38, 5>>,
         <<48, 5, 256, 7>>, <<38, 9, 1>>}

TerminalInit ==
  /\ part \in DOMAIN Groups \cup {"sgr", "screen", "geometry"}
  /\ TermInit /\ FbInit /\ SgrInit
  /\ part # "screen" => fb.cols = 1

TerminalNext ==
  /\ UNCHANGED part
  /\ \/ /\ part \in DOMAIN Groups
        /\ TermNext(Groups[part].bytes, Groups[part].numbers)
        /\ UNCHANGED <<fbVars, sgrVars>>
     \/ part = "sgr" /\ SgrNext /\ UNCHANGED <<term, fbVars>>
     \/ part = "screen" /\ FbNext /\ UNCHANGED <<term, sgrVars>>
     \/ part = "geometry" /\ Reopen /\ UNCHANGED <<term, sgrVars>>

TerminalSpec == TerminalInit /\ [][TerminalNext]_terminalVars

\* The types of the parser's, the screen's and the colours' state.
TerminalTypeOK == TermTypeOK /\ FbTypeOK /\ SgrTypeOK

\* The cells on the screen, which stay where they are while text is written.
ScreenIsSound == ScreenShowsText /\ (part = "geometry" => CellsAreApart)
=============================================================================
