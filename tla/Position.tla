------------------------------ MODULE Position ------------------------------
(***************************************************************************)
(* The position and the moves of the chess notation program                *)
(* (hw2/src/notation.c): the board, the tree of moves and variations, the  *)
(* stack of lines left for a variation, and what each token read by the    *)
(* lexer does to them.                                                     *)
(*                                                                         *)
(* The text is taken to be the record of a game: first keywords and men    *)
(* that set up the board, then legal moves, each in one of the notations   *)
(* that name it alone, and variations, each after the move it replaces.    *)
(* What the output drivers print is left out, except that printing a move  *)
(* takes it back and makes it again.  Characters are abstracted: a move    *)
(* token says which of its parts are written.                              *)
(***************************************************************************)
EXTENDS Chess, Sequences, FiniteSets, SequencesExt

CONSTANTS VARIATION_MAX,
          Texts,     \* the openings: [board, white, header]
          Targets,   \* squares that the moves of the texts go to (bound)
          Allowed,   \* kinds of legal moves in the texts (bound)
          MaxNodes   \* moves and variations in a text (bound)

ASSUME VariationAssumption == VARIATION_MAX \in Nat \ {0}
ASSUME TargetsAssumption == Targets \subseteq Squares
ASSUME MaxNodesAssumption == MaxNodes \in Nat

VARIABLES text,        \* the opening, and how much of its header is read
          said,        \* the legal move that the last token stood for
          tos,         \* the current board, "top of stack"
          nodes,       \* the moves allocated so far; 0 is the null pointer
          m,           \* the current move
          stack,       \* per level, the move and the board left
          config,      \* [on, side]: configuring, configside
          error_flag,
          over,        \* "no", "exit" at once, or "end" through free_everything
          frees        \* how often each move has been freed
vars == <<text, said, tos, nodes, m, stack, config, error_flag, over, frees>>

NULL == 0
NONE == 0
MOVE == 1
PRISE == 2
GRANDROQUE == 3
PETITROQUE == 4
EN_PASSANT == 5
PROMOTION == 6
PROM_ET_PRISE == 7
Types == NONE .. PROM_ET_PRISE
Castling == {GRANDROQUE, PETITROQUE}
Off == <<0, 0>>                           \* a square that is not known
Places == (0 .. 8) \X (0 .. 8)

NewMove == [next |-> NULL, prev |-> NULL, sub |-> NULL, move |-> 0,
            whiteturn |-> FALSE, type |-> NONE, piece |-> VOID, from |-> Off,
            to |-> Off, prise |-> VOID, promotion |-> VOID]
InitParse(d) == [d EXCEPT !.type = MOVE, !.piece = VOID, !.from = Off, !.to = Off,
                          !.prise = VOID, !.promotion = VOID]

Depl == [next : Nat, prev : Nat, sub : Nat, move : Nat, whiteturn : BOOLEAN,
         type : Types, piece : Pieces \cup {VOID}, from : Places, to : Places,
         prise : Pieces \cup {VOID}, promotion : Pieces \cup {VOID}]

CURCOLOR(d) == IF d.whiteturn THEN WHITE ELSE BLACK
OPPCOLOR(d) == IF d.whiteturn THEN BLACK ELSE WHITE
\* init_board: the men at the start of a game
Standard ==
  [s \in {1, 2, 7, 8} \X (1 .. 8) |->
     Man(IF s[1] \in {2, 7} THEN PAWN
         ELSE <<ROOK, KNIGHT, BISHOP, QUEEN, KING, BISHOP, KNIGHT, ROOK>>[s[2]],
         IF s[1] <= 2 THEN WHITE ELSE BLACK)]
SetBoard(b, s, piece, color) ==
  IF piece = VOID THEN Take(b, {s}) ELSE Put(b, s, Man(piece, color))
ClsBoard(b, s) == Take(b, {s})

(* The tables of moves, in the order in which they are tried.              *)
Rays(directions) ==
  [i \in 1 .. 7 * Len(directions) |->
     LET d == directions[(i + 6) \div 7]
         n == 7 - ((i - 1) % 7)
     IN  <<n * d[1], n * d[2]>>]
m_bishop == Rays(<<<<1, 1>>, <<1, -1>>, <<-1, -1>>, <<-1, 1>>>>)
m_rook == Rays(<<<<1, 0>>, <<-1, 0>>, <<0, 1>>, <<0, -1>>>>)
m_queen == m_bishop \o m_rook
m_king == <<<<1, 1>>, <<1, 0>>, <<1, -1>>, <<-1, 1>>, <<-1, 0>>, <<-1, -1>>,
            <<0, 1>>, <<0, -1>>>>
m_knight == <<<<2, 1>>, <<2, -1>>, <<-2, 1>>, <<-2, -1>>,
              <<1, 2>>, <<1, -2>>, <<-1, 2>>, <<-1, -2>>>>
m_pawn_x(color) == <<<<color, 1>>, <<color, -1>>>>
m_pawn_d(color) == <<<<color, 0>>, <<2 * color, 0>>>> \o m_pawn_x(color)

Table(d) ==
  CASE d.piece = KING   -> m_king
    [] d.piece = QUEEN  -> m_queen
    [] d.piece = ROOK   -> m_rook
    [] d.piece = BISHOP -> m_bishop
    [] d.piece = KNIGHT -> m_knight
    [] d.piece = PAWN   -> IF d.prise # VOID THEN m_pawn_x(CURCOLOR(d))
                           ELSE m_pawn_d(CURCOLOR(d))
    [] OTHER -> <<>>
Slides(d) == d.piece \in {BISHOP, ROOK, QUEEN, KING}

SIGN(n) == IF n >= 0 THEN 1 ELSE -1
PathFree(b, s, t) ==
  LET up == t[1] - s[1]
      side == t[2] - s[2]
      li == IF up = 0 THEN 0 ELSE SIGN(up)
      ci == IF side = 0 THEN 0 ELSE SIGN(side)
      n == IF Abs(up) > Abs(side) THEN Abs(up) ELSE Abs(side)
  IN  \A i \in 1 .. n - 1 : <<s[1] + i * li, s[2] + i * ci>> \notin DOMAIN b

\* guess_depl: where the piece of d may have come from, as places of the table
Back(d, i) == <<d.to[1] - Table(d)[i][1], d.to[2] - Table(d)[i][2]>>
Fits(b, d, s) ==
  /\ s \in Squares
  /\ At(b, s) = Man(d.piece, CURCOLOR(d))
  /\ Slides(d) => PathFree(b, s, d.to)
  /\ d.from[1] \in {0, s[1]}
  /\ d.from[2] \in {0, s[2]}
Origins(b, d) == {i \in DOMAIN Table(d) : Fits(b, d, Back(d, i))}

(* ---- making a move and taking it back ---- *)
RoqueRow(d) == IF d.whiteturn THEN 1 ELSE 8

DoMove(b, d) ==
  LET moved == ClsBoard(SetBoard(b, d.to, d.piece, CURCOLOR(d)), d.from)
      row == RoqueRow(d)
      castled(king, rook, corner) ==
        LET men == SetBoard(SetBoard(b, <<row, king>>, KING, CURCOLOR(d)),
                            <<row, rook>>, ROOK, CURCOLOR(d))
        IN  ClsBoard(ClsBoard(men, <<row, 5>>), <<row, corner>>)
  IN  CASE d.type \in {MOVE, PRISE, PROMOTION, PROM_ET_PRISE} -> moved
        [] d.type = GRANDROQUE -> castled(3, 4, 1)
        [] d.type = PETITROQUE -> castled(7, 6, 8)
        [] d.type = EN_PASSANT ->
             ClsBoard(ClsBoard(SetBoard(b, d.to, d.piece, CURCOLOR(d)),
                               <<d.to[1], d.from[2]>>), d.from)
        [] OTHER -> b

\* the captured piece comes back in the other side's colour
GivenBackOwn(b, d) == SetBoard(b, d.to, d.prise, CURCOLOR(d))
GivenBack(b, d) == SetBoard(b, d.to, d.prise, OPPCOLOR(d))

UndoMove(b, d) ==
  LET row == RoqueRow(d)
      back(board, piece) == SetBoard(board, d.from, piece, CURCOLOR(d))
      uncastled(king, rook, corner) ==
        LET empty == ClsBoard(ClsBoard(b, <<row, king>>), <<row, rook>>)
        IN  SetBoard(SetBoard(empty, <<row, 5>>, KING, CURCOLOR(d)),
                     <<row, corner>>, ROOK, CURCOLOR(d))
  IN  CASE d.type = MOVE -> back(ClsBoard(b, d.to), d.piece)
        [] d.type = PRISE -> back(GivenBack(b, d), d.piece)
        [] d.type = GRANDROQUE -> uncastled(3, 4, 1)
        [] d.type = PETITROQUE -> uncastled(7, 6, 8)
        [] d.type = EN_PASSANT ->
             back(SetBoard(ClsBoard(b, d.to), <<d.to[1], d.from[2]>>,
                           PAWN, OPPCOLOR(d)), d.piece)
        [] d.type = PROMOTION -> back(ClsBoard(b, d.to), PAWN)
        [] d.type = PROM_ET_PRISE -> back(GivenBack(b, d), PAWN)
        [] OTHER -> b

(* ---- checking and executing the move d on board b ---- *)
CheckRoqueFromCorner(b, d) ==
  LET between == IF d.type = GRANDROQUE THEN 1 .. 4 ELSE {6}
  IN  \A col \in between : <<RoqueRow(d), col>> \notin DOMAIN b
CheckRoque(b, d) ==
  LET between == IF d.type = GRANDROQUE THEN 2 .. 4 ELSE {6}
  IN  \A col \in between : <<RoqueRow(d), col>> \notin DOMAIN b

\* a king that goes two columns is castling
KingsMoveMirrored(d) ==
  LET side == d.to[2] - d.from[2]
  IN  IF d.piece = KING /\ Abs(side) = 2
      THEN [d EXCEPT !.type = IF side = 2 THEN GRANDROQUE ELSE PETITROQUE]
      ELSE d
KingsMove(d) ==
  LET side == d.to[2] - d.from[2]
  IN  IF d.piece = KING /\ Abs(side) = 2
      THEN [d EXCEPT !.type = IF side = 2 THEN PETITROQUE ELSE GRANDROQUE]
      ELSE d

\* a pawn that leaves its column for an empty square passes another pawn
Passes(b, d) ==
  /\ d.piece = PAWN /\ d.from[2] # d.to[2]
  /\ d.to \notin DOMAIN b
  /\ At(b, <<d.from[1], d.to[2]>>).piece = PAWN

Coherent(b, d) ==
  /\ At(b, d.from) = Man(d.piece, CURCOLOR(d))
  /\ d.to \in DOMAIN b => d.type \in {PRISE, PROM_ET_PRISE}
  /\ ~(At(b, d.to).color = At(b, d.from).color /\ d.prise # VOID)

CheckMove(b, d) ==
  LET k == KingsMove(d)
  IN  IF k.type \in Castling THEN [d |-> k, b |-> b, ok |-> CheckRoque(b, k)]
      ELSE IF ~Coherent(b, k) THEN [d |-> k, b |-> b, ok |-> FALSE]
      ELSE IF Passes(b, k)
      THEN [d |-> [k EXCEPT !.type = EN_PASSANT],
            b |-> ClsBoard(b, <<k.from[1], k.to[2]>>), ok |-> TRUE]
      ELSE [d |-> k, b |-> b, ok |-> Origins(b, k) # {}]

GuessMove(b, d) ==
  LET origins == Origins(b, d)
  IN  IF (d.from[1] # 0 /\ d.from[2] # 0) \/ d.type \in Castling
      THEN [d |-> d, ok |-> TRUE]
      ELSE IF origins = {} THEN [d |-> d, ok |-> FALSE]
      ELSE [d |-> [d EXCEPT !.from = Back(d, Min(origins))], ok |-> TRUE]

\* what the input leaves out: the piece is the one that is there, and a move
\* to an occupied square captures
Completed(b, d) ==
  LET found == IF d.from # Off THEN [d EXCEPT !.piece = At(b, d.from).piece] ELSE d
  IN  IF d.to \in DOMAIN b
      THEN [found EXCEPT !.type = PRISE, !.prise = b[d.to].piece] ELSE found

\* castling notes the row; printing takes any other move back and remakes it
Executed(b, d) ==
  LET guess == GuessMove(b, IF d.piece = VOID THEN [d EXCEPT !.piece = PAWN] ELSE d)
      check == CheckMove(b, Completed(b, guess.d))
      done == DoMove(check.b, check.d)
      castles == check.d.type \in Castling
  IN  [d |-> IF castles THEN [check.d EXCEPT !.from[1] = RoqueRow(check.d)]
             ELSE check.d,
       b |-> IF castles THEN done ELSE DoMove(UndoMove(done, check.d), check.d),
       ok |-> guess.ok /\ check.ok]

(* ---- reading the text ---- *)
\* a move token: what is written of the piece, of the square left, the cross,
\* the square reached and the piece promoted to
Written(piece, from, cross, to, promotion) ==
  [keyword |-> "", piece |-> piece, from |-> from, cross |-> cross, to |-> to,
   promotion |-> promotion]
Word(name) == [Written(VOID, Off, FALSE, Off, VOID) EXCEPT !.keyword = name]

\* the automaton of parse_move
Parsed(d, t) ==
  LET promotes == t.promotion # VOID
      whence == t.from # Off
  IN  [InitParse(d) EXCEPT
         !.piece = IF promotes /\ ~whence /\ ~t.cross THEN VOID ELSE t.piece,
         !.from = t.from,
         !.to = t.to,
         !.prise = IF t.cross /\ whence THEN t.piece ELSE VOID,
         !.promotion = t.promotion,
         !.type = IF promotes THEN IF t.cross THEN PROM_ET_PRISE ELSE PROMOTION
                  ELSE IF t.cross THEN PRISE ELSE MOVE]

AddTrailingMove ==
  [NewMove EXCEPT !.prev = m, !.whiteturn = ~nodes[m].whiteturn,
     !.move = nodes[m].move + IF nodes[m].whiteturn THEN 0 ELSE 1]
Chained(d) == Append([nodes EXCEPT ![m].next = Len(nodes) + 1], d)

\* a token that castles has no squares
Roque(type) == [InitParse(AddTrailingMove) EXCEPT !.type = type]

Running == over = "no"
InHeader == text.read < Len(text.opening.header)
Unmoved == UNCHANGED <<text, config, stack, frees>>

\* read one more move, already parsed
Play(d, mv) ==
  LET e == Executed(tos, d)
  IN  /\ nodes' = Chained(e.d)
      /\ m' = Len(nodes) + 1
      /\ tos' = e.b
      /\ said' = mv
      /\ error_flag' = (error_flag \/ ~e.ok)
      /\ over' = IF error_flag' THEN "exit" ELSE over

(* ---- the header: @ keywords and the men of a board being set up ---- *)
FreeMoveList == nodes' = <<[nodes[1] EXCEPT !.next = NULL, !.sub = NULL]>> /\ m' = 1

Keyword(name) ==
  /\ said' = NoMove
  /\ UNCHANGED <<stack, error_flag, over, frees>>
  /\ \/ /\ name \in {"startplay", "whitesmove", "blacksmove"}
        /\ config' = IF name = "startplay" THEN [config EXCEPT !.on = FALSE] ELSE config
        /\ nodes' = [nodes EXCEPT
             ![m].move = IF name = "blacksmove" THEN 1 ELSE 0,
             ![m].whiteturn = (name = "blacksmove")]
        /\ UNCHANGED <<tos, m>>
     \/ /\ name \in {"configwhite", "configblack"}
        /\ config' = [on |-> TRUE, side |-> IF name = "configwhite" THEN WHITE ELSE BLACK]
        /\ FreeMoveList
        /\ UNCHANGED tos
     \/ /\ name \in {"clearboard", "default"}
        /\ tos' = IF name = "clearboard" THEN Take(tos, DOMAIN tos) ELSE Standard
        /\ FreeMoveList
        /\ UNCHANGED config

Configure(t) ==
  LET d == Parsed(AddTrailingMove, t)
      put == IF d.piece = VOID THEN [d EXCEPT !.piece = PAWN] ELSE d
  IN  /\ config.on
      /\ nodes' = Chained(put)
      /\ m' = Len(nodes) + 1
      /\ tos' = Put(tos, put.to, Man(put.piece, config.side))
      /\ said' = NoMove
      /\ UNCHANGED <<stack, config, error_flag, over, frees>>

\* the board that a header sets up: each of its tokens adds to what those
\* before it have made of the usual men
Setup(header) ==
  LET after[k \in 0 .. Len(header)] ==
        IF k = 0 THEN [board |-> Standard, side |-> VOID]
        ELSE LET before == after[k - 1]
                 t == header[k]
             IN  CASE t.keyword = "clearboard"  -> [before EXCEPT !.board = [s \in {} |-> NoMan]]
                   [] t.keyword = "default"     -> [before EXCEPT !.board = Standard]
                   [] t.keyword = "configwhite" -> [before EXCEPT !.side = WHITE]
                   [] t.keyword = "configblack" -> [before EXCEPT !.side = BLACK]
                   [] t.keyword = "" ->
                        LET man == IF t.piece = VOID THEN PAWN ELSE t.piece
                        IN  [before EXCEPT !.board = Put(@, t.to, Man(man, before.side))]
                   [] OTHER -> before
  IN  after

(* A text says truly what board it sets up and who moves first.            *)
FirstMove(white) ==
  IF white THEN {Word("startplay"), Word("whitesmove")} ELSE {Word("blacksmove")}
HeaderTokens ==
  {Word(name) : name \in {"startplay", "whitesmove", "blacksmove", "configwhite",
                          "configblack", "clearboard", "default"}}
    \cup [keyword : {""}, piece : Pieces \cup {VOID}, from : {Off}, cross : {FALSE},
          to : Squares, promotion : {VOID}]
ASSUME TextsAssumption ==
  \A o \in Texts :
    /\ o.white \in BOOLEAN
    /\ o.header \in Seq(HeaderTokens) /\ o.header # <<>>
    /\ Last(o.header) \in FirstMove(o.white)
    /\ o.board = Setup(o.header)[Len(o.header)].board

ReadHeader ==
  LET token == text.opening.header[text.read + 1]
  IN  /\ Running /\ InHeader
      /\ text' = [text EXCEPT !.read = @ + 1]
      /\ \/ token.keyword # "" /\ Keyword(token.keyword)
         \/ token.keyword = "" /\ Configure(token)

(* ---- what the text says, by the rules of chess ---- *)
IsMove(d) == d.from # Off
Meaning(d) ==
  LET row == d.from[1]
  IN  CASE d.type = PETITROQUE -> Move("short", <<row, 5>>, <<row, 7>>, VOID)
        [] d.type = GRANDROQUE -> Move("long", <<row, 5>>, <<row, 3>>, VOID)
        [] d.type = EN_PASSANT -> Move("passing", d.from, d.to, VOID)
        [] OTHER -> Move("plain", d.from, d.to, d.promotion)
\* what the moves that lead to each node of ns make of the opening; the head of
\* a variation stands where the move it replaces was
PlayedIn(ns, start) ==
  LET at[n \in 0 .. Len(ns)] ==
        IF n = NULL THEN start
        ELSE IF ns[n].type = NONE THEN at[ns[ns[n].prev].prev]
        ELSE IF IsMove(ns[n])
        THEN LET before == at[ns[n].prev]
             IN  [board |-> After(before.board, Meaning(ns[n])),
                  plies |-> before.plies + 1, last |-> Meaning(ns[n])]
        ELSE start
  IN  at
Start == [board |-> text.opening.board, plies |-> 0, last |-> NoMove]
Played == PlayedIn(nodes, Start)
Replayed(n) == Played[n].board

\* plies played before n in the text's own numbering, where white's are odd
Ply(n) == Played[n].plies + IF text.opening.white THEN 0 ELSE 1
ToMove == IF Ply(m) % 2 = 0 THEN WHITE ELSE BLACK
LastMove == Played[m].last
Kind(mv) == IF mv.promotion # VOID THEN "promotion" ELSE mv.kind
LegalMoves(T) == Legal(tos, ToMove, LastMove, T)

\* the notations that name mv and no other move: both squares, or the piece
\* with the column it leaves, or the piece alone; the cross may be left out
\* but a pawn's capture names its column
Notations(mv) ==
  LET p == At(tos, mv.from).piece
      letter == IF p = PAWN THEN VOID ELSE p
      captures == mv.to \in DOMAIN tos \/ mv.kind = "passing"
      rivals == {r \in LegalMoves({mv.to}) :
                   /\ r.to = mv.to /\ r.from # mv.from
                   /\ At(tos, r.from).piece = p}
      named(froms, pieces) ==
        [keyword : {""}, piece : pieces, from : froms, cross : {captures, FALSE},
         to : {mv.to}, promotion : {mv.promotion}]
      castling == mv.kind \in {"short", "long"}
  IN  named({mv.from}, {VOID, p})
      \cup (IF castling \/ \E r \in rivals : r.from[2] = mv.from[2] THEN {}
            ELSE named({<<0, mv.from[2]>>}, {letter}))
      \cup (IF castling \/ rivals # {} \/ (p = PAWN /\ captures) THEN {}
            ELSE named({Off}, {letter}))

(* ---- the game: moves and variations ---- *)
InGame == Running /\ ~InHeader
Room ==
  Cardinality({n \in DOMAIN nodes : nodes[n].type = NONE \/ IsMove(nodes[n])})
    < MaxNodes

ParseMove ==
  /\ InGame /\ Room
  /\ \E mv \in LegalMoves(Targets) :
       /\ Kind(mv) \in Allowed
       /\ \E t \in Notations(mv) : Play(Parsed(AddTrailingMove, t), mv)
  /\ Unmoved

ParseRoque ==
  /\ InGame /\ Room
  /\ \E mv \in LegalMoves(Targets) :
       /\ mv.kind \in {"short", "long"} \cap Allowed
       /\ Play(Roque(IF mv.kind = "short" THEN PETITROQUE ELSE GRANDROQUE), mv)
  /\ Unmoved

LastSub(n) ==
  LET last[k \in DOMAIN nodes] ==
        IF nodes[k].sub = NULL THEN k ELSE last[nodes[k].sub]
  IN  last[n]

\* a variation is numbered from the move before the one it replaces
AddVariationAsNext ==
  Append([nodes EXCEPT ![LastSub(m)].sub = Len(nodes) + 1],
         [NewMove EXCEPT !.prev = m, !.whiteturn = nodes[m].whiteturn,
                         !.move = nodes[m].move])
AddVariation ==
  LET before == nodes[nodes[m].prev]
  IN  Append([nodes EXCEPT ![LastSub(m)].sub = Len(nodes) + 1],
             [NewMove EXCEPT !.prev = m, !.whiteturn = before.whiteturn,
                             !.move = before.move])

(* free_recursively: s is [nodes, frees]; a node freed cuts the next link  *)
(* of the node it points back to, unless that is the one being gone through*)
Walks == [nodes : Seq(Depl), frees : Seq(Nat)]
DetachesAll(d, up) == up # NULL
Detaches(d, up) == up \notin {NULL, d}
Detach(s, d, child) ==
  LET up == s.nodes[child].prev
  IN  [nodes |-> IF Detaches(d, up) THEN [s.nodes EXCEPT ![up].next = NULL]
                 ELSE s.nodes,
       frees |-> [s.frees EXCEPT ![child] = @ + 1]]
\* its calls nest no deeper than there are moves
FreeBelow(depth) ==
  LET below[k \in 0 .. depth] ==
        [s \in Walks |-> [d \in Nat |->
           LET sub == s.nodes[d].sub
               a == IF sub = NULL THEN s
                    ELSE [Detach(below[k - 1][s][sub], d, sub) EXCEPT
                            !.nodes[d].sub = NULL]
               next == a.nodes[d].next
           IN  IF k = 0 THEN s
               ELSE IF next = NULL THEN a
               ELSE [Detach(below[k - 1][a][next], d, next) EXCEPT
                       !.nodes[d].next = NULL]]]
  IN  below[depth]
First(ns, n) ==
  LET first[k \in DOMAIN ns] ==
        IF ns[k].prev = NULL THEN k ELSE first[ns[k].prev]
  IN  first[n]

FreeEverything(ns) ==
  LET first == First(ns, m)
      freed == FreeBelow(Len(ns))[[nodes |-> ns, frees |-> [n \in DOMAIN ns |-> 0]]][first]
  IN  [freed.frees EXCEPT ![first] = @ + 1]

TooDeep == Len(stack) >= VARIATION_MAX

EnterVariation ==
  /\ InGame
  /\ TooDeep \/ Room
  /\ IsMove(nodes[m]) \/ nodes[m].prev = NULL
  /\ said' = NoMove
  /\ UNCHANGED <<text, config>>
  /\ \/ /\ TooDeep
        /\ error_flag' = TRUE
        /\ UNCHANGED <<tos, nodes, m, stack, over, frees>>
     \/ /\ ~TooDeep /\ nodes[m].prev = NULL
        /\ nodes' = Append([nodes EXCEPT ![LastSub(m)].sub = Len(nodes) + 1],
                           [NewMove EXCEPT !.prev = m])
        /\ frees' = FreeEverything(nodes')
        /\ over' = "end"
        /\ UNCHANGED <<tos, m, stack, error_flag>>
     \/ /\ ~TooDeep /\ nodes[m].prev # NULL
        /\ stack' = Append(stack, [d |-> m, b |-> tos])
        /\ nodes' = AddVariation
        /\ m' = Len(nodes')
        /\ tos' = UndoMove(tos, nodes[m])
        /\ UNCHANGED <<error_flag, over, frees>>

ExitVariation ==
  /\ InGame
  /\ said' = NoMove
  /\ UNCHANGED <<text, nodes, config, over, frees>>
  /\ \/ stack = <<>> /\ error_flag' = TRUE /\ UNCHANGED <<tos, m, stack>>
     \/ /\ stack # <<>>
        /\ m' = Last(stack).d
        /\ tos' = Last(stack).b
        /\ stack' = Front(stack)
        /\ UNCHANGED error_flag

\* the end of the text
End ==
  /\ InGame
  /\ over' = "end"
  /\ frees' = FreeEverything(nodes)
  /\ said' = NoMove
  /\ UNCHANGED <<text, tos, nodes, m, stack, config, error_flag>>

Init ==
  /\ text \in [opening : Texts, read : {0}]
  /\ said = NoMove
  /\ tos = Standard
  /\ nodes = <<InitParse(NewMove)>>
  /\ m = 1
  /\ stack = <<>>
  /\ config = [on |-> FALSE, side |-> VOID]
  /\ error_flag = FALSE
  /\ over = "no"
  /\ frees = <<>>

Next == \/ ReadHeader \/ ParseMove \/ ParseRoque
        \/ EnterVariation \/ ExitVariation \/ End

Spec == Init /\ [][Next]_vars

-----------------------------------------------------------------------------
Links == 0 .. Len(nodes)
\* The type of the state; in particular the stack is never deeper than its array
\* and a move made has both its squares, guessed or written (guess_move).
TypeOK ==
  /\ text \in [opening : Texts, read : Nat] /\ text.read <= Len(text.opening.header)
  /\ DOMAIN tos \subseteq Squares
  /\ \A s \in DOMAIN tos : tos[s].piece \in Pieces /\ tos[s].color \in {WHITE, BLACK}
  /\ nodes \in Seq(Depl)
  /\ \A n \in DOMAIN nodes :
       LET d == nodes[n]
       IN  /\ {d.next, d.prev, d.sub} \subseteq Links
           /\ IsMove(d) => d.type \in Castling \/ d.from \in Squares
  /\ m \in DOMAIN nodes
  /\ Len(stack) <= VARIATION_MAX
  /\ \A l \in DOMAIN stack : stack[l].d \in DOMAIN nodes
  /\ config \in [on : BOOLEAN, side : {WHITE, BLACK, VOID}]
  /\ error_flag \in BOOLEAN
  /\ over \in {"no", "exit", "end"}
  /\ over # "end" => frees = <<>>

\* The current board, and each board left for a variation, is what the moves
\* of its line make of the opening: taking back the move that a variation
\* replaces, remaking moves to print them, and coming out of a variation leave
\* nothing behind and lose nothing (notation.c undo_move, enter_variation).
BoardIsLine ==
  ~InHeader /\ over # "exit" =>
    /\ tos = Replayed(m)
    /\ \A l \in DOMAIN stack : stack[l].b = Replayed(stack[l].d)

\* Moves and heads of variations are numbered by their place in their own line,
\* through variations and back: the side to move and the number follow from the
\* plies before (add_trailing_move, add_variation, the @startplay and
\* @blacksmove keywords).  A variation that replaces no move ends the program.
Replaces(n) == nodes[n].type = NONE /\ IsMove(nodes[nodes[n].prev])
NumberedByPly ==
  /\ TypeOK
  /\ ~InHeader => \A n \in DOMAIN nodes :
       IsMove(nodes[n]) \/ Replaces(n) =>
         /\ nodes[n].whiteturn = (Ply(n) % 2 = 1)
         /\ nodes[n].move = (Ply(n) + 1) \div 2

\* At the end every move of the play and of its variations has been freed, and
\* once, unless some move has two variations (then free_recursively cuts the
\* rest of its line off; hw2/Homework Doc/README.md:417-433 wants all freed).
FreedAtEnd ==
  LET heads(n) == {h \in DOMAIN nodes : nodes[h].type = NONE /\ nodes[h].prev = n}
  IN  over = "end" =>
        /\ \A n \in DOMAIN nodes : frees[n] <= 1
        /\ (\A n \in DOMAIN nodes : Cardinality(heads(n)) <= 1) =>
             \A n \in DOMAIN nodes : frees[n] = 1

\* A legal move, in any notation that names it alone, is the move made
\* (parse_move, guess_move, guess_depl, check_move, do_move).
MovesAsWritten == [][said' # NoMove => tos' = After(tos, said')]_vars

\* No legal move is refused: the error flag is only raised by a brace that opens
\* a variation too deep or closes none.
LegalIsAccepted == [][~error_flag /\ error_flag' => said' = NoMove]_vars
=============================================================================
