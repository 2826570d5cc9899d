------------------------------- MODULE Chess --------------------------------
(***************************************************************************)
(* The rules of chess that the notation program (hw2) reads games by, as   *)
(* far as its board goes: how the pieces move, castling, captures in       *)
(* passing and promotion; not check.  It is the reference that module      *)
(* Position is compared with, and is written from the rules, so nothing    *)
(* here is looked up in the tables of the program.                         *)
(*                                                                         *)
(* A square is <<line, column>>, the code's lig and col; a board maps its  *)
(* occupied squares to a piece and a colour.                               *)
(***************************************************************************)
EXTENDS Integers, Functions

VOID == 0
KING == 1
QUEEN == 2
ROOK == 3
BISHOP == 4
KNIGHT == 5
PAWN == 6
Pieces == KING .. PAWN
WHITE == 1
BLACK == -1
Squares == (1 .. 8) \X (1 .. 8)

Man(p, c) == [piece |-> p, color |-> c]
Boards == UNION {[S -> [piece : Pieces, color : {WHITE, BLACK}]] :
                    S \in SUBSET Squares}
NoMan == Man(VOID, VOID)
At(b, s) == IF s \in DOMAIN b THEN b[s] ELSE NoMan
Take(b, S) == Restrict(b, DOMAIN b \ S)
Put(b, s, man) == [t \in DOMAIN b \cup {s} |-> IF t = s THEN man ELSE b[t]]
Shift(b, s, t) == Put(Take(b, {s}), t, b[s])

Abs(n) == IF n < 0 THEN -n ELSE n
Forward(c) == c                           \* white pawns go up the lines
HomeRow(c) == IF c = WHITE THEN 1 ELSE 8
Line(c, n) == IF c = WHITE THEN n ELSE 9 - n

\* the squares strictly between two squares of a line or diagonal
Between(s, t) ==
  {u \in Squares : \E k \in 1 .. 6, n \in 2 .. 7 : /\ k < n
     /\ n * (u[1] - s[1]) = k * (t[1] - s[1])
     /\ n * (u[2] - s[2]) = k * (t[2] - s[2])
     /\ \/ Abs(t[1] - s[1]) = n /\ Abs(t[2] - s[2]) \in {0, n}
        \/ Abs(t[2] - s[2]) = n /\ t[1] = s[1]}
Clear(b, s, t) == Between(s, t) \cap DOMAIN b = {}

\* the piece that stands on s reaches t
Reaches(b, s, t) ==
  LET up == Abs(t[1] - s[1])
      side == Abs(t[2] - s[2])
      straight == up = 0 \/ side = 0
  IN  CASE b[s].piece = KING   -> up <= 1 /\ side <= 1
        [] b[s].piece = QUEEN  -> (straight \/ up = side) /\ Clear(b, s, t)
        [] b[s].piece = ROOK   -> straight /\ Clear(b, s, t)
        [] b[s].piece = BISHOP -> up = side /\ Clear(b, s, t)
        [] b[s].piece = KNIGHT -> {up, side} = {1, 2}
        [] b[s].piece = PAWN   ->
             LET c == b[s].color
                 step == Forward(c) * (t[1] - s[1])
             IN  IF t \in DOMAIN b THEN step = 1 /\ side = 1
                 ELSE /\ side = 0
                      /\ \/ step = 1
                         \/ step = 2 /\ s[1] = Line(c, 2) /\ Clear(b, s, t)

(* A move is [kind, from, to, promotion].                                  *)
Move(kind, s, t, p) == [kind |-> kind, from |-> s, to |-> t, promotion |-> p]
NoMove == Move("none", <<0, 0>>, <<0, 0>>, VOID)

Promotes(b, s, t) == b[s].piece = PAWN /\ t[1] = Line(b[s].color, 8)
Plain(b, c, T) ==
  {mv \in [kind : {"plain"}, from : DOMAIN b, to : T,
           promotion : {VOID, QUEEN, KNIGHT}] :
     /\ b[mv.from].color = c /\ At(b, mv.to).color # c
     /\ Reaches(b, mv.from, mv.to)
     /\ Promotes(b, mv.from, mv.to) <=> mv.promotion # VOID}

\* the king and a rook at home, and nothing between them
Castles(b, c) ==
  LET row == HomeRow(c)
      home(col, p) == At(b, <<row, col>>) = Man(p, c)
      free(cols) == \A col \in cols : <<row, col>> \notin DOMAIN b
  IN  {mv \in {Move("short", <<row, 5>>, <<row, 7>>, VOID),
               Move("long", <<row, 5>>, <<row, 3>>, VOID)} :
         /\ home(5, KING)
         /\ IF mv.kind = "short" THEN home(8, ROOK) /\ free({6, 7})
            ELSE home(1, ROOK) /\ free({2, 3, 4})}

\* a pawn that has just gone two lines may be taken where it would have stopped
InPassing(b, c, last) ==
  LET s == last.from
      t == last.to
  IN  IF /\ last.kind = "plain" /\ t \in DOMAIN b /\ b[t] = Man(PAWN, -c)
         /\ Abs(t[1] - s[1]) = 2
      THEN {Move("passing", u, <<t[1] + Forward(c), t[2]>>, VOID) :
              u \in {v \in DOMAIN b : /\ b[v] = Man(PAWN, c) /\ v[1] = t[1]
                                      /\ Abs(v[2] - t[2]) = 1}}
      ELSE {}

Legal(b, c, last, T) == Plain(b, c, T) \cup Castles(b, c) \cup InPassing(b, c, last)

\* the board after a legal move
After(b, mv) ==
  LET row == mv.from[1]
      man == IF mv.promotion = VOID THEN b[mv.from]
             ELSE Man(mv.promotion, b[mv.from].color)
      king == Put(Take(b, {mv.from}), mv.to, man)
  IN  CASE mv.kind = "short"   -> Shift(king, <<row, 8>>, <<row, 6>>)
        [] mv.kind = "long"    -> Shift(king, <<row, 1>>, <<row, 4>>)
        [] mv.kind = "passing" -> Take(king, {<<row, mv.to[2]>>})
        [] OTHER -> king
=============================================================================
