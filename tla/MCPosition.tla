----------------------------- MODULE MCPosition -----------------------------
(* Openings set up in the header, as a text does. *)
EXTENDS Position

\* keywords and men that set up board, white's men first
Header(board, white) ==
  LET men(color) ==
        LET own == {s \in DOMAIN board : board[s].color = color}
            places == SetToSeq(own)
        IN  [i \in DOMAIN places |->
               Written(board[places[i]].piece, Off, FALSE, places[i], VOID)]
  IN  <<Word("clearboard"), Word("configwhite")>> \o men(WHITE)
      \o <<Word("configblack")>> \o men(BLACK) \o <<Word("startplay")>>
      \o (IF white THEN <<Word("whitesmove")>> ELSE <<Word("blacksmove")>>)

Opening(board, white) ==
  [board |-> board, white |-> white, header |-> Header(board, white)]
W(s, p) == s :> Man(p, WHITE)
B(s, p) == s :> Man(p, BLACK)

\* two white rooks on one line, the king between them at home, a black knight
\* to take
Rooks == W(<<1, 1>>, ROOK) @@ W(<<1, 5>>, KING) @@ W(<<1, 8>>, ROOK)
           @@ B(<<4, 1>>, KNIGHT) @@ B(<<8, 5>>, KING) @@ B(<<8, 8>>, ROOK)
\* pawns that meet, and two knights that reach the same square
Pawns == W(<<2, 3>>, PAWN) @@ W(<<2, 5>>, PAWN) @@ W(<<1, 2>>, KNIGHT)
           @@ W(<<1, 6>>, KNIGHT) @@ B(<<4, 4>>, PAWN) @@ B(<<7, 3>>, PAWN)
\* a queen and bishops that see each other through men
Queens == W(<<1, 1>>, QUEEN) @@ W(<<3, 3>>, QUEEN) @@ W(<<2, 1>>, PAWN)
            @@ B(<<5, 5>>, BISHOP) @@ B(<<6, 4>>, BISHOP)
\* the usual men, by the keyword
Usual == [board |-> [s \in {1, 2, 7, 8} \X (1 .. 8) |->
            Man(IF s[1] \in {2, 7} THEN PAWN
                ELSE IF s[2] \in {1, 8} THEN ROOK
                ELSE IF s[2] \in {2, 7} THEN KNIGHT
                ELSE IF s[2] \in {3, 6} THEN BISHOP
                ELSE IF s[2] = 4 THEN QUEEN ELSE KING,
                IF s[1] < 3 THEN WHITE ELSE BLACK)],
          white |-> TRUE, header |-> <<Word("default"), Word("startplay")>>]
MCTexts == {Usual, Opening(Rooks, TRUE), Opening(Pawns, TRUE), Opening(Queens, FALSE)}
MCTargets == {<<1, 3>>, <<1, 4>>, <<1, 7>>, <<4, 1>>, <<8, 6>>, <<8, 7>>, <<3, 3>>,
              <<3, 4>>, <<4, 4>>, <<4, 3>>, <<5, 5>>}
\* a white pawn on the fifth line, a black one on the seventh beside it
Passing == W(<<5, 5>>, PAWN) @@ W(<<1, 5>>, KING)
             @@ B(<<7, 4>>, PAWN) @@ B(<<8, 5>>, KING)
PassingTexts == {Opening(Passing, FALSE)}
PassingTargets == {<<5, 4>>, <<6, 4>>, <<1, 4>>, <<8, 4>>}
=============================================================================
