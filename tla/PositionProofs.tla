--------------------------- MODULE PositionProofs ---------------------------
(***************************************************************************)
(* Proofs about Position, for texts whose moves are plain moves, captures  *)
(* and castling, however long they are and however deep their variations:  *)
(* the board is always that of the line, moves are numbered by their line, *)
(* and a legal move, in any notation that names it alone, is accepted and  *)
(* is the one made.  At the end every move is freed, once.                 *)
(*                                                                         *)
(* A promotion makes no new piece, and do_move and undo_move disagree on   *)
(* captures in passing: for texts with these BoardIsLine is false.         *)
(*                                                                         *)
(* The invariant says what each node of the tree of moves is (Tree,        *)
(* MadeMoves), so that the move that a variation replaces can be taken     *)
(* back.  That the tables and paths of guess_move find just the squares    *)
(* the rules allow, and that a move made and taken back leaves the board   *)
(* as it was, are facts about the operators (the lemmas down to RoqueMade).*)
(*                                                                         *)
(* LinkInv says that the links on and down make a tree as the links back   *)
(* do (Woven), and that the lines still open end where the stack says      *)
(* (Threads).  That free_everything goes all through such a tree is shown  *)
(* by induction on how far a node is from the end (FreedDeep).             *)
(***************************************************************************)
EXTENDS Position, WellFoundedInduction, FiniteSetTheorems, SequenceTheorems, TLAPS

OrdinaryMoves == Allowed \subseteq {"plain", "short", "long"}

-----------------------------------------------------------------------------
Men == [piece : Pieces, color : {WHITE, BLACK}]
Board(b) == b \in [DOMAIN b -> Men] /\ DOMAIN b \subseteq Squares

\* the tree of moves: a node comes after the one it points back to, and a
\* variation's head points back to a move
Linked(ns) ==
  \A n \in DOMAIN ns : /\ ns[n].prev \in 0 .. n - 1
                       /\ ns[n].type = NONE => ns[n].prev # NULL

\* what PlayedIn says of node n, from what it says of the nodes before
PlayedAt(ns, start, at, n) ==
  IF n = NULL THEN start
  ELSE IF ns[n].type = NONE THEN at[ns[ns[n].prev].prev]
  ELSE IF IsMove(ns[n])
  THEN LET before == at[ns[n].prev]
       IN  [board |-> After(before.board, Meaning(ns[n])),
            plies |-> before.plies + 1, last |-> Meaning(ns[n])]
  ELSE start
Solves(ns, start, at) ==
  at = [n \in 0 .. Len(ns) |-> PlayedAt(ns, start, at, n)]

\* the header makes no move
Blank(ns) == \A n \in DOMAIN ns : ns[n].type = MOVE /\ ns[n].from = Off

-----------------------------------------------------------------------------
(* The inductive invariant.                                                *)
Tree ==
  /\ Linked(nodes)
  /\ Solves(nodes, Start, Played)
  /\ \A n \in DOMAIN nodes : nodes[n].type = NONE => ~IsMove(nodes[n])
  /\ \A n \in DOMAIN Played : Played[n].plies \in Nat
SettingUp ==
  /\ config.on => config.side # VOID
  /\ InHeader =>
       LET setup == Setup(text.opening.header)[text.read]
       IN  /\ over = "no" /\ stack = <<>> /\ error_flag = FALSE
           /\ setup = [board |-> tos, side |-> config.side]
           /\ Blank(nodes)
Numbered(n) ==
  /\ nodes[n].whiteturn = (Ply(n) % 2 = 1)
  /\ nodes[n].move = (Ply(n) + 1) \div 2
LineBoards ==
  /\ \A n \in DOMAIN Played : Board(Played[n].board)
  /\ tos = Played[m].board
  /\ stack \in Seq(Range(stack))
  /\ \A l \in DOMAIN stack : /\ IsMove(nodes[stack[l].d])
                             /\ stack[l].b = Played[stack[l].d].board
TakenBack(n) ==
  LET d == nodes[n]
  IN  /\ d.type \in {MOVE, PRISE, GRANDROQUE, PETITROQUE}
      /\ d.prev # NULL
      /\ UndoMove(Played[n].board, d) = Played[d.prev].board
      /\ Numbered(n) /\ Numbered(d.prev)
MadeMoves == \A n \in DOMAIN nodes : IsMove(nodes[n]) => TakenBack(n)
NumberedHeads == \A n \in DOMAIN nodes : Replaces(n) => Numbered(n)
IInv ==
  /\ TypeOK /\ Board(tos) /\ Tree /\ SettingUp
  /\ ~InHeader => LineBoards /\ MadeMoves /\ NumberedHeads /\ Numbered(m)

(* What it leaves to say of the links of the tree, from which all is freed.*)
Children(ns, n) == {ns[n].next, ns[n].sub} \ {NULL}

\* each node but the first is the next move or the variation of one before it,
\* and of no other
Woven(ns) ==
  /\ \A n \in 2 .. Len(ns) : ns[n].prev # NULL /\ \E p \in DOMAIN ns : n \in Children(ns, p)
  /\ \A n \in DOMAIN ns :
       /\ ns[n].next # NULL =>
            /\ ns[n].next > n /\ ns[ns[n].next].prev = n
            /\ ns[ns[n].next].type # NONE
       /\ ns[n].sub # NULL =>
            /\ ns[n].sub > n /\ ns[ns[n].sub].type = NONE
            /\ ns[ns[n].sub].prev = IF ns[n].type = NONE THEN ns[n].prev ELSE n
       /\ \A p \in DOMAIN ns : ns[p].sub = ns[n].sub => p = n \/ ns[n].sub = NULL

\* a line ends at the current move, and one at each move left for a variation
Threads ==
  /\ nodes[m].next = NULL
  /\ \A l \in DOMAIN stack :
       /\ nodes[stack[l].d].next = NULL /\ stack[l].d < m
       /\ \A i \in DOMAIN stack : i < l => stack[i].d < stack[l].d
LinkInv == Woven(nodes) /\ Threads /\ FreedAtEnd

-----------------------------------------------------------------------------
(* What is played at each node.                                            *)

\* A set of numbers that is not empty has a least member.
LEMMA LeastOf ==
  ASSUME NEW S, S \subseteq Nat, S # {}
  PROVE  \E k \in S : \A j \in S : k <= j
<1>1. PICK x \in S : TRUE
  OBVIOUS
<1>2. IsWellFoundedOn(OpToRel(<, Nat), Nat)
  BY NatLessThanWellFounded
<1>3. \E k \in S : \A j \in S : ~(<<j, k>> \in OpToRel(<, Nat))
  BY <1>2, WFMin
<1>4. \E k \in S : \A j \in S : ~(j < k)
  <2>1. \A j, k \in Nat : j < k => <<j, k>> \in OpToRel(<, Nat)
    BY DEF OpToRel
  <2> QED BY <1>3, <2>1
<1> QED BY <1>4

\* The equations of the game tree have one solution at most.
LEMMA SolvesOnce ==
  ASSUME NEW ns \in Seq(Depl), Linked(ns), NEW start,
         NEW f, Solves(ns, start, f), NEW g, Solves(ns, start, g)
  PROVE  f = g
<1> DEFINE N == 0 .. Len(ns)
           Apart == {n \in N : f[n] # g[n]}
<1>1. f = [n \in N |-> PlayedAt(ns, start, f, n)] /\ g = [n \in N |-> PlayedAt(ns, start, g, n)]
  BY DEF Solves
<1>2. ASSUME Apart # {} PROVE FALSE
  <2>1. PICK n \in Apart : \A j \in Apart : n <= j
    <3>1. Apart \subseteq Nat
      OBVIOUS
    <3> HIDE DEF Apart
    <3> QED BY <1>2, <3>1, LeastOf
  <2>2. n \in N /\ f[n] # g[n]
    BY <2>1
  <2>3. \A k \in N : k < n => f[k] = g[k]
    BY <2>1
  <2>4. f[n] = PlayedAt(ns, start, f, n) /\ g[n] = PlayedAt(ns, start, g, n)
    BY <1>1, <2>2
  <2>5. n # NULL
    BY <2>2, <2>4 DEF PlayedAt
  <2>6. n \in DOMAIN ns /\ n \in Nat
    BY <2>2, <2>5 DEF NULL
  <2>7. /\ ns[n].prev \in N /\ ns[n].prev < n
        /\ ns[n].type = NONE => ns[n].prev \in DOMAIN ns
    BY <2>2, <2>6 DEF Linked, NULL
  <2>8. ns[n].type = NONE => /\ ns[ns[n].prev].prev \in N
                             /\ ns[ns[n].prev].prev < n
    <3>1. SUFFICES ASSUME ns[n].type = NONE
                   PROVE  ns[ns[n].prev].prev \in N /\ ns[ns[n].prev].prev < n
      OBVIOUS
    <3>2. PICK k \in DOMAIN ns : k = ns[n].prev
      BY <2>7, <3>1
    <3>3. ns[k].prev \in 0 .. k - 1
      BY <3>2 DEF Linked
    <3> QED BY <2>7, <3>2, <3>3
  <2>9. f[ns[n].prev] = g[ns[n].prev]
    BY <2>3, <2>7
  <2>10. ns[n].type = NONE => f[ns[ns[n].prev].prev] = g[ns[ns[n].prev].prev]
    BY <2>3, <2>8
  <2>11. PlayedAt(ns, start, f, n) = PlayedAt(ns, start, g, n)
    BY <2>5, <2>9, <2>10 DEF PlayedAt
  <2> QED BY <2>2, <2>4, <2>11
<1>3. \A n \in N : f[n] = g[n]
  BY <1>2
<1> QED BY <1>1, <1>3

\* A solution of the equations of the game tree is what PlayedIn says.
LEMMA PlayedInIs ==
  ASSUME NEW ns \in Seq(Depl), Linked(ns), NEW start, NEW f, Solves(ns, start, f)
  PROVE  PlayedIn(ns, start) = f
<1>1. PlayedIn(ns, start) =
        CHOOSE g : g = [n \in 0 .. Len(ns) |-> PlayedAt(ns, start, g, n)]
  BY Zenon DEF PlayedIn, PlayedAt
<1>2. f = [n \in 0 .. Len(ns) |-> PlayedAt(ns, start, f, n)]
  BY DEF Solves
<1>3. Solves(ns, start, PlayedIn(ns, start))
  BY <1>1, <1>2, Zenon DEF Solves
<1> QED BY <1>3, SolvesOnce

\* the moves of ns are also those of ns2, which has one node more
Extends(ns, ns2) ==
  /\ Len(ns2) = Len(ns) + 1
  /\ \A n \in DOMAIN ns :
       /\ ns2[n].prev = ns[n].prev /\ ns2[n].type = ns[n].type
       /\ ns2[n].from = ns[n].from /\ ns2[n].to = ns[n].to
       /\ ns2[n].piece = ns[n].piece /\ ns2[n].prise = ns[n].prise
       /\ ns2[n].promotion = ns[n].promotion
       /\ ns2[n].whiteturn = ns[n].whiteturn /\ ns2[n].move = ns[n].move

\* A node more leaves what is played at the others, and follows from them.
LEMMA PlayedExtends ==
  ASSUME NEW ns \in Seq(Depl), Linked(ns), NEW ns2 \in Seq(Depl), Linked(ns2),
         Extends(ns, ns2), NEW start, NEW at, Solves(ns, start, at),
         NEW at2, at2 = PlayedIn(ns2, start)
  PROVE  /\ Solves(ns2, start, at2)
         /\ \A n \in 0 .. Len(ns) : at2[n] = at[n]
         /\ at2[Len(ns2)] = PlayedAt(ns2, start, at, Len(ns2))
<1> DEFINE new == Len(ns2)
           N == 0 .. Len(ns)
           f == [n \in 0 .. new |->
                   IF n = new THEN PlayedAt(ns2, start, at, new) ELSE at[n]]
<1>1. Len(ns) \in Nat /\ new = Len(ns) + 1 /\ new \in DOMAIN ns2
  BY DEF Extends
<1>2. \A n \in N : f[n] = at[n]
  BY <1>1
<1>3. f[new] = PlayedAt(ns2, start, at, new)
  BY <1>1
<1> HIDE DEF f
<1>4. \A n \in DOMAIN ns2 : /\ ns2[n].prev \in N
                            /\ ns2[n].type = NONE => ns2[ns2[n].prev].prev \in N
  <2> SUFFICES ASSUME NEW n \in DOMAIN ns2
               PROVE  /\ ns2[n].prev \in N
                      /\ ns2[n].type = NONE => ns2[ns2[n].prev].prev \in N
    OBVIOUS
  <2>1. n \in 1 .. new
    OBVIOUS
  <2>2. PICK k : k = ns2[n].prev
    OBVIOUS
  <2>3. k \in 0 .. n - 1 /\ (ns2[n].type = NONE => k # 0)
    BY <2>2 DEF Linked, NULL
  <2>4. k \in N
    BY <1>1, <2>1, <2>3
  <2>5. k # 0 => ns2[k].prev \in 0 .. k - 1
    <3>1. k # 0 => k \in DOMAIN ns2
      BY <1>1, <2>4
    <3> QED BY <3>1 DEF Linked
  <2>6. k # 0 => ns2[k].prev \in N
    BY <1>1, <2>4, <2>5
  <2> QED BY <2>2, <2>3, <2>4, <2>6
<1>5. \A n \in DOMAIN ns2 : PlayedAt(ns2, start, f, n) = PlayedAt(ns2, start, at, n)
  BY <1>2, <1>4 DEF PlayedAt
<1>6. \A n \in DOMAIN ns : PlayedAt(ns2, start, at, n) = PlayedAt(ns, start, at, n)
  <2> SUFFICES ASSUME NEW n \in DOMAIN ns
               PROVE  PlayedAt(ns2, start, at, n) = PlayedAt(ns, start, at, n)
    OBVIOUS
  <2>1. /\ ns2[n].prev = ns[n].prev /\ ns2[n].type = ns[n].type
        /\ ns2[n].from = ns[n].from /\ ns2[n].to = ns[n].to
        /\ ns2[n].promotion = ns[n].promotion
    BY DEF Extends
  <2>2. Meaning(ns2[n]) = Meaning(ns[n]) /\ IsMove(ns2[n]) = IsMove(ns[n])
    BY <2>1 DEF Meaning, IsMove
  <2>3. ns[n].type = NONE => ns2[ns[n].prev].prev = ns[ns[n].prev].prev
    <3>1. n \in 1 .. Len(ns)
      OBVIOUS
    <3>2. ns[n].prev \in 0 .. n - 1 /\ (ns[n].type = NONE => ns[n].prev # 0)
      BY DEF Linked, NULL
    <3>3. ns[n].type = NONE => ns[n].prev \in DOMAIN ns
      BY <3>1, <3>2
    <3> QED BY <3>3 DEF Extends
  <2> QED BY <2>1, <2>2, <2>3 DEF PlayedAt
<1>7. \A n \in N : at[n] = PlayedAt(ns, start, at, n)
  BY DEF Solves
<1>8. \A n \in 0 .. new : f[n] = PlayedAt(ns2, start, f, n)
  <2> SUFFICES ASSUME NEW n \in 0 .. new PROVE f[n] = PlayedAt(ns2, start, f, n)
    OBVIOUS
  <2>1. CASE n = 0
    <3>1. f[0] = at[0] /\ at[0] = PlayedAt(ns, start, at, 0)
      BY <1>1, <1>2, <1>7
    <3> QED BY <2>1, <3>1 DEF PlayedAt, NULL
  <2>2. CASE n \in DOMAIN ns
    <3>1. n \in N /\ n \in DOMAIN ns2
      BY <1>1, <2>2
    <3> QED BY <1>2, <1>5, <1>6, <1>7, <2>2, <3>1
  <2>3. CASE n = new
    BY <1>1, <1>3, <1>5, <2>3
  <2> QED BY <1>1, <2>1, <2>2, <2>3
<1>9. Solves(ns2, start, f)
  <2>1. f = [n \in 0 .. new |-> f[n]]
    BY DEF f
  <2> QED BY <1>8, <2>1 DEF Solves
<1>10. at2 = f
  BY <1>9, PlayedInIs
<1> QED BY <1>2, <1>3, <1>9, <1>10

-----------------------------------------------------------------------------
(* Boards, and what making and undoing a move does to them.                *)

IsFcn(f) == f = [x \in DOMAIN f |-> f[x]]

\* Two functions with the same domain and the same values are equal.
LEMMA SameFcn ==
  ASSUME NEW f, IsFcn(f), NEW g, IsFcn(g), DOMAIN f = DOMAIN g,
         \A x \in DOMAIN f : f[x] = g[x]
  PROVE  f = g
BY DEF IsFcn

\* c is board b with a man put on s; c is board b without the men on S
IsPut(b, s, man, c) ==
  /\ IsFcn(c) /\ DOMAIN c = DOMAIN b \cup {s} /\ c[s] = man
  /\ \A t \in DOMAIN b : t # s => c[t] = b[t]
IsTake(b, S, c) ==
  /\ IsFcn(c) /\ DOMAIN c = DOMAIN b \ S
  /\ \A t \in DOMAIN c : c[t] = b[t]

\* A man put on a square changes that square only.
LEMMA PutIs ==
  ASSUME NEW b, NEW s, NEW man
  PROVE  IsPut(b, s, man, Put(b, s, man))
BY DEF Put, IsFcn, IsPut

\* The other squares keep their men when some are cleared.
LEMMA TakeIs ==
  ASSUME NEW b, NEW S
  PROVE  IsTake(b, S, Take(b, S))
BY DEF Take, Restrict, IsFcn, IsTake

\* A board with a man put on it, or some taken, is a board.
LEMMA BoardOps ==
  ASSUME NEW b, Board(b)
  PROVE  /\ IsFcn(b)
         /\ \A s \in Squares, man \in Men : Board(Put(b, s, man))
         /\ \A S : Board(Take(b, S))
<1>1. IsFcn(b)
  BY DEF Board, IsFcn
<1>2. ASSUME NEW s \in Squares, NEW man \in Men PROVE Board(Put(b, s, man))
  <2>1. PICK c : c = Put(b, s, man)
    OBVIOUS
  <2>2. IsPut(b, s, man, c)
    BY <2>1, PutIs
  <2>3. \A t \in DOMAIN c : c[t] \in Men
    BY <2>2 DEF Board, IsPut, IsTake
  <2>4. c \in [DOMAIN c -> Men]
    BY <2>2, <2>3 DEF IsFcn, IsPut, IsTake
  <2> QED BY <2>1, <2>2, <2>4 DEF Board, IsPut, IsTake
<1>3. ASSUME NEW S PROVE Board(Take(b, S))
  <2>1. PICK c : c = Take(b, S)
    OBVIOUS
  <2>2. IsTake(b, S, c)
    BY <2>1, TakeIs
  <2>3. \A t \in DOMAIN c : c[t] \in Men
    BY <2>2 DEF Board, IsPut, IsTake
  <2>4. c \in [DOMAIN c -> Men]
    BY <2>2, <2>3 DEF IsFcn, IsPut, IsTake
  <2> QED BY <2>1, <2>2, <2>4 DEF Board, IsPut, IsTake
<1> QED BY <1>1, <1>2, <1>3

\* A man is known by its piece and its colour.
LEMMA ManIs ==
  ASSUME NEW b, Board(b), NEW s \in DOMAIN b
  PROVE  b[s] \in Men /\ b[s] = Man(b[s].piece, b[s].color)
BY DEF Board, Men, Man

\* what check_move leaves of a plain move from s to t
Ready(b, d, s, t) ==
  /\ d.from = s /\ d.to = t
  /\ d.piece = b[s].piece /\ CURCOLOR(d) = b[s].color
  /\ IF t \in DOMAIN b
     THEN d.type = PRISE /\ d.prise = b[t].piece /\ OPPCOLOR(d) = b[t].color
     ELSE d.type = MOVE

\* A plain move carries its man to its square, and undone gives the board back.
LEMMA PlainDone ==
  ASSUME NEW b, Board(b), NEW s \in DOMAIN b, NEW t \in Squares, s # t,
         NEW d, Ready(b, d, s, t)
  PROVE  /\ DoMove(b, d) = Put(Take(b, {s}), t, b[s])
         /\ UndoMove(DoMove(b, d), d) = b
<1>1. b[s] = Man(d.piece, CURCOLOR(d)) /\ d.piece # VOID
  BY ManIs DEF Ready, Men, Pieces, KING, PAWN, VOID
<1>2. PICK x : x = Put(b, t, b[s])
  OBVIOUS
<1>3. IsPut(b, t, b[s], x)
  BY <1>2, PutIs
<1>4. PICK y : y = Take(x, {s})
  OBVIOUS
<1>5. IsTake(x, {s}, y)
  BY <1>4, TakeIs
<1>6. DoMove(b, d) = y
  <2>1. d.type \in {MOVE, PRISE, PROMOTION, PROM_ET_PRISE}
    BY DEF Ready
  <2> QED BY <1>1, <1>2, <1>4, <2>1
             DEF DoMove, SetBoard, ClsBoard, Ready, MOVE, PRISE, GRANDROQUE,
                 PETITROQUE, EN_PASSANT, PROMOTION, PROM_ET_PRISE
<1>7. PICK v : v = Take(b, {s})
  OBVIOUS
<1>8. IsTake(b, {s}, v)
  BY <1>7, TakeIs
<1>9. PICK w : w = Put(v, t, b[s])
  OBVIOUS
<1>10. IsPut(v, t, b[s], w)
  BY <1>9, PutIs
<1>11. y = w
  <2>1. DOMAIN y = DOMAIN w
    BY <1>3, <1>5, <1>8, <1>10 DEF IsPut, IsTake
  <2>2. \A u \in DOMAIN y : y[u] = w[u]
    BY <1>3, <1>5, <1>8, <1>10 DEF IsPut, IsTake
  <2> QED BY <1>5, <1>10, <2>1, <2>2, SameFcn DEF IsPut, IsTake
<1>12. UndoMove(y, d) = b
  <2>1. CASE t \notin DOMAIN b
    <3>1. PICK p : p = Take(y, {t})
      OBVIOUS
    <3>2. IsTake(y, {t}, p)
      BY <3>1, TakeIs
    <3>3. PICK q : q = Put(p, s, b[s])
      OBVIOUS
    <3>4. IsPut(p, s, b[s], q)
      BY <3>3, PutIs
    <3>5. UndoMove(y, d) = q
      BY <1>1, <2>1, <3>1, <3>3
         DEF UndoMove, SetBoard, ClsBoard, Ready, MOVE, PRISE, GRANDROQUE, PETITROQUE,
             EN_PASSANT, PROMOTION, PROM_ET_PRISE
    <3>6. DOMAIN q = DOMAIN b
      BY <1>3, <1>5, <2>1, <3>2, <3>4 DEF IsPut, IsTake
    <3>7. \A u \in DOMAIN q : q[u] = b[u]
      BY <1>3, <1>5, <2>1, <3>2, <3>4 DEF IsPut, IsTake
    <3> QED BY <3>4, <3>5, <3>6, <3>7, SameFcn, BoardOps DEF IsPut, IsTake
  <2>2. CASE t \in DOMAIN b
    <3>0. b[t] = Man(d.prise, OPPCOLOR(d)) /\ d.prise # VOID /\ d.type = PRISE
      BY <2>2, ManIs DEF Ready, Men, Pieces, KING, PAWN, VOID
    <3>1. PICK p : p = Put(y, t, b[t])
      OBVIOUS
    <3>2. IsPut(y, t, b[t], p)
      BY <3>1, PutIs
    <3>3. PICK q : q = Put(p, s, b[s])
      OBVIOUS
    <3>4. IsPut(p, s, b[s], q)
      BY <3>3, PutIs
    <3>5. UndoMove(y, d) = q
      BY <1>1, <3>0, <3>1, <3>3
         DEF UndoMove, GivenBack, SetBoard, Ready, MOVE, PRISE, GRANDROQUE,
             PETITROQUE, EN_PASSANT, PROMOTION, PROM_ET_PRISE
    <3>6. DOMAIN q = DOMAIN b
      BY <1>3, <1>5, <2>2, <3>2, <3>4 DEF IsPut, IsTake
    <3>7. \A u \in DOMAIN q : q[u] = b[u]
      BY <1>3, <1>5, <2>2, <3>2, <3>4 DEF IsPut, IsTake
    <3> QED BY <3>4, <3>5, <3>6, <3>7, SameFcn, BoardOps DEF IsPut, IsTake
  <2> QED BY <2>1, <2>2
<1> QED BY <1>6, <1>7, <1>9, <1>11, <1>12

\* King and rook cross over to two free squares and come back.
LEMMA CrossOver ==
  ASSUME NEW b, Board(b), NEW e \in DOMAIN b, NEW c \in DOMAIN b, e # c,
         NEW k \in Squares, NEW r \in Squares, k # r,
         k \notin DOMAIN b, r \notin DOMAIN b,
         NEW x, x = Take(Take(Put(Put(b, k, b[e]), r, b[c]), {e}), {c})
  PROVE  /\ x = Shift(Put(Take(b, {e}), k, b[e]), c, r)
         /\ Put(Put(Take(Take(x, {k}), {r}), e, b[e]), c, b[c]) = b
<1>1. PICK x1 : x1 = Put(b, k, b[e])
  OBVIOUS
<1>2. PICK x2 : x2 = Put(x1, r, b[c])
  OBVIOUS
<1>3. PICK x3 : x3 = Take(x2, {e})
  OBVIOUS
<1>4. x = Take(x3, {c})
  BY <1>1, <1>2, <1>3
<1>5. IsPut(b, k, b[e], x1) /\ IsPut(x1, r, b[c], x2)
  BY <1>1, <1>2, PutIs
<1>6. IsTake(x2, {e}, x3) /\ IsTake(x3, {c}, x)
  BY <1>3, <1>4, TakeIs
<1>7. /\ IsFcn(x) /\ DOMAIN x = (DOMAIN b \cup {k, r}) \ {e, c}
      /\ x[k] = b[e] /\ x[r] = b[c]
      /\ \A u \in DOMAIN b : u \notin {e, c} => x[u] = b[u]
  <2>1. DOMAIN x = (DOMAIN b \cup {k, r}) \ {e, c} /\ IsFcn(x)
    BY <1>5, <1>6 DEF IsPut, IsTake
  <2>2. x[k] = b[e] /\ x[r] = b[c]
    BY <1>5, <1>6 DEF IsPut, IsTake
  <2>3. \A u \in DOMAIN b : u \notin {e, c} => x[u] = b[u]
    BY <1>5, <1>6 DEF IsPut, IsTake
  <2> QED BY <2>1, <2>2, <2>3
<1>8. x = Shift(Put(Take(b, {e}), k, b[e]), c, r)
  <2>1. PICK y1 : y1 = Take(b, {e})
    OBVIOUS
  <2>2. PICK y2 : y2 = Put(y1, k, b[e])
    OBVIOUS
  <2>3. PICK y3 : y3 = Take(y2, {c})
    OBVIOUS
  <2>4. PICK y : y = Put(y3, r, y2[c])
    OBVIOUS
  <2>5. IsTake(b, {e}, y1) /\ IsPut(y1, k, b[e], y2)
    BY <2>1, <2>2, PutIs, TakeIs
  <2>6. IsTake(y2, {c}, y3) /\ IsPut(y3, r, y2[c], y)
    BY <2>3, <2>4, PutIs, TakeIs
  <2>7. y2[c] = b[c]
    BY <2>5 DEF IsTake, IsPut
  <2>8. DOMAIN x = DOMAIN y
    BY <1>7, <2>5, <2>6 DEF IsTake, IsPut
  <2>9. \A u \in DOMAIN x : x[u] = y[u]
    BY <1>7, <2>5, <2>6, <2>7 DEF IsTake, IsPut
  <2>10. x = y
    BY <1>7, <2>6, <2>8, <2>9, SameFcn DEF IsPut
  <2> QED BY <2>1, <2>2, <2>3, <2>4, <2>10 DEF Shift
<1>9. Put(Put(Take(Take(x, {k}), {r}), e, b[e]), c, b[c]) = b
  <2>1. PICK y1 : y1 = Take(x, {k})
    OBVIOUS
  <2>2. PICK y2 : y2 = Take(y1, {r})
    OBVIOUS
  <2>3. PICK y3 : y3 = Put(y2, e, b[e])
    OBVIOUS
  <2>4. PICK y : y = Put(y3, c, b[c])
    OBVIOUS
  <2>5. IsTake(x, {k}, y1) /\ IsTake(y1, {r}, y2)
    BY <2>1, <2>2, TakeIs
  <2>6. IsPut(y2, e, b[e], y3) /\ IsPut(y3, c, b[c], y)
    BY <2>3, <2>4, PutIs
  <2>7. DOMAIN y2 = DOMAIN b \ {e, c} /\ \A u \in DOMAIN y2 : y2[u] = b[u]
    <3>1. DOMAIN y2 = DOMAIN b \ {e, c}
      BY <1>7, <2>5 DEF IsTake
    <3> QED BY <1>7, <2>5, <3>1 DEF IsTake
  <2>8. DOMAIN y = DOMAIN b
    BY <2>6, <2>7 DEF IsPut
  <2>9. \A u \in DOMAIN y : y[u] = b[u]
    BY <2>6, <2>7, <2>8 DEF IsPut
  <2>10. y = b
    BY <2>6, <2>8, <2>9, SameFcn, BoardOps DEF IsPut
  <2> QED BY <2>1, <2>2, <2>3, <2>4, <2>10
<1> QED BY <1>8, <1>9

\* Castling is done as the rules say, and undone.
LEMMA CastlingDone ==
  ASSUME NEW b, Board(b), NEW d, NEW mv \in Castles(b, CURCOLOR(d)),
         d.type = IF mv.kind = "short" THEN PETITROQUE ELSE GRANDROQUE
  PROVE  /\ DoMove(b, d) = After(b, mv)
         /\ UndoMove(After(b, mv), d) = b
<1> DEFINE row == RoqueRow(d)
           short == mv.kind = "short"
           corner == IF short THEN 8 ELSE 1
           king == IF short THEN 7 ELSE 3
           rook == IF short THEN 6 ELSE 4
<1>1. PICK e, c, k, r : /\ e = <<row, 5>> /\ c = <<row, corner>>
                        /\ k = <<row, king>> /\ r = <<row, rook>>
  OBVIOUS
<1>2. row = HomeRow(CURCOLOR(d)) /\ row \in {1, 8}
  BY DEF RoqueRow, HomeRow, CURCOLOR, WHITE, BLACK
<1>3. /\ mv.kind \in {"short", "long"} /\ mv.from = e /\ mv.to = k
      /\ mv.promotion = VOID
  BY <1>1, <1>2 DEF Castles, Move
<1>4. /\ At(b, e) = Man(KING, CURCOLOR(d)) /\ At(b, c) = Man(ROOK, CURCOLOR(d))
      /\ k \notin DOMAIN b /\ r \notin DOMAIN b
  BY <1>1, <1>2 DEF Castles, Move
<1>5. /\ e \in DOMAIN b /\ c \in DOMAIN b
      /\ b[e] = Man(KING, CURCOLOR(d)) /\ b[c] = Man(ROOK, CURCOLOR(d))
  BY <1>4 DEF At, NoMan, Man, KING, ROOK, VOID
<1>6. e # c /\ k # r /\ k \in Squares /\ r \in Squares /\ c # k
  BY <1>1, <1>2 DEF Squares
<1>7. PICK x : x = Take(Take(Put(Put(b, k, b[e]), r, b[c]), {e}), {c})
  OBVIOUS
<1>8. /\ x = Shift(Put(Take(b, {e}), k, b[e]), c, r)
      /\ Put(Put(Take(Take(x, {k}), {r}), e, b[e]), c, b[c]) = b
  BY <1>5, <1>6, <1>4, <1>7, CrossOver
<1>9. After(b, mv) = Shift(Put(Take(b, {e}), k, b[e]), c, r)
  <2>1. mv.from[1] = row
    BY <1>1, <1>3
  <2>2. CASE short
    BY <1>1, <1>3, <2>1, <2>2 DEF After
  <2>3. CASE ~short
    BY <1>1, <1>3, <2>1, <2>3 DEF After
  <2> QED BY <2>2, <2>3
<1>10. DoMove(b, d) = x
  <2>2. CASE short
    BY <1>1, <1>5, <1>7, <2>2 DEF DoMove, SetBoard, ClsBoard, MOVE, PRISE, GRANDROQUE,
       PETITROQUE, EN_PASSANT, PROMOTION, PROM_ET_PRISE, KING, ROOK, VOID
  <2>3. CASE ~short
    BY <1>1, <1>5, <1>7, <2>3 DEF DoMove, SetBoard, ClsBoard, MOVE, PRISE, GRANDROQUE,
       PETITROQUE, EN_PASSANT, PROMOTION, PROM_ET_PRISE, KING, ROOK, VOID
  <2> QED BY <2>2, <2>3
<1>11. UndoMove(x, d) = Put(Put(Take(Take(x, {k}), {r}), e, b[e]), c, b[c])
  <2>2. CASE short
    BY <1>1, <1>5, <2>2 DEF UndoMove, SetBoard, ClsBoard, MOVE, PRISE, GRANDROQUE,
       PETITROQUE, EN_PASSANT, PROMOTION, PROM_ET_PRISE, KING, ROOK, VOID
  <2>3. CASE ~short
    BY <1>1, <1>5, <2>3 DEF UndoMove, SetBoard, ClsBoard, MOVE, PRISE, GRANDROQUE,
       PETITROQUE, EN_PASSANT, PROMOTION, PROM_ET_PRISE, KING, ROOK, VOID
  <2> QED BY <2>2, <2>3
<1> QED BY <1>8, <1>9, <1>10, <1>11

-----------------------------------------------------------------------------
(* The tables of moves.                                                    *)

\* the entries of r are one to seven steps in each of the four directions ds
RaysOf(r, ds) ==
  /\ r \in [1 .. 28 -> Int \X Int]
  /\ \A j \in 1 .. 4, n \in 1 .. 7 :
       7 * j + 1 - n \in 1 .. 28 /\ r[7 * j + 1 - n] = <<n * ds[j][1], n * ds[j][2]>>
  /\ \A i \in 1 .. 28 : \E j \in 1 .. 4, n \in 1 .. 7 :
       r[i] = <<n * ds[j][1], n * ds[j][2]>>

\* That is what Rays gives.
LEMMA RaysAre ==
  ASSUME NEW ds \in [1 .. 4 -> Int \X Int], Len(ds) = 4
  PROVE  RaysOf(Rays(ds), ds) /\ Rays(ds) \in Seq(Int \X Int)
<1> DEFINE at(i) == LET d == ds[(i + 6) \div 7]
                        n == 7 - ((i - 1) % 7)
                    IN  <<n * d[1], n * d[2]>>
<1>1. Rays(ds) = [i \in 1 .. 28 |-> at(i)]
  BY DEF Rays
<1>2. \A i \in 1 .. 28 : \E j \in 1 .. 4, n \in 1 .. 7 : at(i) = <<n * ds[j][1], n * ds[j][2]>>
  <2> SUFFICES ASSUME NEW i \in 1 .. 28
               PROVE  \E j \in 1 .. 4, n \in 1 .. 7 : at(i) = <<n * ds[j][1], n * ds[j][2]>>
    OBVIOUS
  <2>1. PICK j : j = (i + 6) \div 7
    OBVIOUS
  <2>2. PICK n : n = 7 - ((i - 1) % 7)
    OBVIOUS
  <2>3. j \in 1 .. 4
    BY <2>1
  <2>4. n \in 1 .. 7
    BY <2>2
  <2> QED BY <2>1, <2>2, <2>3, <2>4
<1>3. ASSUME NEW j \in 1 .. 4, NEW n \in 1 .. 7
      PROVE  /\ 7 * j + 1 - n \in 1 .. 28
             /\ at(7 * j + 1 - n) = <<n * ds[j][1], n * ds[j][2]>>
  <2>1. j \in {1, 2, 3, 4} /\ n \in {1, 2, 3, 4, 5, 6, 7}
    OBVIOUS
  <2>2. (7 * j + 1 - n + 6) \div 7 = j
    BY <2>1
  <2>3. 7 - ((7 * j + 1 - n - 1) % 7) = n
    BY <2>1
  <2> QED BY <2>2, <2>3
<1>4. \A i \in 1 .. 28 : at(i) \in Int \X Int
  <2> SUFFICES ASSUME NEW i \in 1 .. 28 PROVE at(i) \in Int \X Int
    OBVIOUS
  <2>1. PICK j \in 1 .. 4, n \in 1 .. 7 : at(i) = <<n * ds[j][1], n * ds[j][2]>>
    BY <1>2
  <2>2. ds[j] \in Int \X Int
    OBVIOUS
  <2>3. n * ds[j][1] \in Int /\ n * ds[j][2] \in Int
    BY <2>2
  <2> HIDE DEF at
  <2> QED BY <2>1, <2>3
<1> HIDE DEF at
<1>5. PICK r : r = Rays(ds)
  OBVIOUS
<1>6. r \in [1 .. 28 -> Int \X Int] /\ \A i \in 1 .. 28 : r[i] = at(i)
  BY <1>1, <1>4, <1>5
<1>7. r \in Seq(Int \X Int)
  <2>1. ASSUME NEW S, NEW n \in Nat, NEW f \in [1 .. n -> S] PROVE f \in Seq(S)
    <3>1. Seq(S) = UNION {[1 .. k -> S] : k \in Nat}
      BY SeqDef, Zenon
    <3> QED BY <3>1, Zenon
  <2>2. 28 \in Nat
    OBVIOUS
  <2> QED BY <1>6, <2>1, <2>2
<1>8. \A j \in 1 .. 4, n \in 1 .. 7 :
        7 * j + 1 - n \in 1 .. 28 /\ r[7 * j + 1 - n] = <<n * ds[j][1], n * ds[j][2]>>
  BY <1>3, <1>6
<1>9. \A i \in 1 .. 28 : \E j \in 1 .. 4, n \in 1 .. 7 :
        r[i] = <<n * ds[j][1], n * ds[j][2]>>
  BY <1>2, <1>6
<1>10. RaysOf(r, ds)
  BY <1>6, <1>8, <1>9, Zenon DEF RaysOf
<1> QED BY <1>5, <1>7, <1>10

\* (u, v) is n steps in one of the four directions of a bishop, or of a rook
Slanted(u, v, n) == <<u, v>> \in {<<n, n>>, <<n, -n>>, <<-n, -n>>, <<-n, n>>}
Straight(u, v, n) == <<u, v>> \in {<<n, 0>>, <<-n, 0>>, <<0, n>>, <<0, -n>>}
Entry(table, u, v) == \E i \in DOMAIN table : table[i] = <<u, v>>

\* The bishop's table is the diagonals.
LEMMA BishopTable ==
  /\ m_bishop \in Seq(Int \X Int)
  /\ \A u, v \in Int :
       Entry(m_bishop, u, v) <=> \E n \in 1 .. 7 : Slanted(u, v, n)
<1> DEFINE ds == <<<<1, 1>>, <<1, -1>>, <<-1, -1>>, <<-1, 1>>>>
<1>1. ds \in [1 .. 4 -> Int \X Int] /\ Len(ds) = 4
  OBVIOUS
<1>2. /\ ds[1] = <<1, 1>> /\ ds[2] = <<1, -1>> /\ ds[3] = <<-1, -1>> /\ ds[4] = <<-1, 1>>
  OBVIOUS
<1>3. m_bishop = Rays(ds)
  BY DEF m_bishop
<1> HIDE DEF ds
<1>4. RaysOf(m_bishop, ds) /\ m_bishop \in Seq(Int \X Int)
  BY <1>1, <1>3, RaysAre
<1>5. ASSUME NEW u \in Int, NEW v \in Int, Entry(m_bishop, u, v)
      PROVE  \E n \in 1 .. 7 : Slanted(u, v, n)
  <2>1. PICK i \in 1 .. 28 : m_bishop[i] = <<u, v>>
    BY <1>4, <1>5 DEF Entry, RaysOf
  <2>2. PICK j \in 1 .. 4, n \in 1 .. 7 : m_bishop[i] = <<n * ds[j][1], n * ds[j][2]>>
    BY <1>4 DEF RaysOf
  <2>3. j \in {1, 2, 3, 4}
    OBVIOUS
  <2>4. Slanted(u, v, n)
    BY <1>2, <2>1, <2>2, <2>3 DEF Slanted
  <2> QED BY <2>4
<1>6. ASSUME NEW u \in Int, NEW v \in Int, NEW n \in 1 .. 7, Slanted(u, v, n)
      PROVE  Entry(m_bishop, u, v)
  <2>1. PICK j \in 1 .. 4 : <<n * ds[j][1], n * ds[j][2]>> = <<u, v>>
    BY <1>2, <1>6 DEF Slanted
  <2>2. 7 * j + 1 - n \in DOMAIN m_bishop /\ m_bishop[7 * j + 1 - n] = <<u, v>>
    BY <1>4, <2>1 DEF RaysOf
  <2> QED BY <2>2 DEF Entry
<1> QED BY <1>4, <1>5, <1>6

\* The rook's table is the lines and columns.
LEMMA RookTable ==
  /\ m_rook \in Seq(Int \X Int)
  /\ \A u, v \in Int :
       Entry(m_rook, u, v) <=> \E n \in 1 .. 7 : Straight(u, v, n)
<1> DEFINE ds == <<<<1, 0>>, <<-1, 0>>, <<0, 1>>, <<0, -1>>>>
<1>1. ds \in [1 .. 4 -> Int \X Int] /\ Len(ds) = 4
  OBVIOUS
<1>2. /\ ds[1] = <<1, 0>> /\ ds[2] = <<-1, 0>> /\ ds[3] = <<0, 1>> /\ ds[4] = <<0, -1>>
  OBVIOUS
<1>3. m_rook = Rays(ds)
  BY DEF m_rook
<1> HIDE DEF ds
<1>4. RaysOf(m_rook, ds) /\ m_rook \in Seq(Int \X Int)
  BY <1>1, <1>3, RaysAre
<1>5. ASSUME NEW u \in Int, NEW v \in Int, Entry(m_rook, u, v)
      PROVE  \E n \in 1 .. 7 : Straight(u, v, n)
  <2>1. PICK i \in 1 .. 28 : m_rook[i] = <<u, v>>
    BY <1>4, <1>5 DEF Entry, RaysOf
  <2>2. PICK j \in 1 .. 4, n \in 1 .. 7 : m_rook[i] = <<n * ds[j][1], n * ds[j][2]>>
    BY <1>4 DEF RaysOf
  <2>3. j \in {1, 2, 3, 4}
    OBVIOUS
  <2>4. Straight(u, v, n)
    BY <1>2, <2>1, <2>2, <2>3 DEF Straight
  <2> QED BY <2>4
<1>6. ASSUME NEW u \in Int, NEW v \in Int, NEW n \in 1 .. 7, Straight(u, v, n)
      PROVE  Entry(m_rook, u, v)
  <2>1. PICK j \in 1 .. 4 : <<n * ds[j][1], n * ds[j][2]>> = <<u, v>>
    BY <1>2, <1>6 DEF Straight
  <2>2. 7 * j + 1 - n \in DOMAIN m_rook /\ m_rook[7 * j + 1 - n] = <<u, v>>
    BY <1>4, <2>1 DEF RaysOf
  <2> QED BY <2>2 DEF Entry
<1> QED BY <1>4, <1>5, <1>6

\* The queen's table is the bishop's and the rook's.
LEMMA QueenTable ==
  \A u, v \in Int :
    Entry(m_queen, u, v) <=> Entry(m_bishop, u, v) \/ Entry(m_rook, u, v)
<1>1. PICK f, g, h : f = m_bishop /\ g = m_rook /\ h = f \o g
  OBVIOUS
<1>2. h = m_queen
  BY <1>1 DEF m_queen
<1>3. f \in Seq(Int \X Int) /\ g \in Seq(Int \X Int)
  BY <1>1, BishopTable, RookTable
<1>4. ASSUME NEW u, NEW v PROVE Entry(h, u, v) <=> Entry(f, u, v) \/ Entry(g, u, v)
  <2>1. Entry(f, u, v) => Entry(h, u, v)
    <3>1. \A i \in DOMAIN f : i \in DOMAIN h /\ h[i] = f[i]
      BY <1>1, <1>3
    <3> QED BY <3>1 DEF Entry
  <2>2. Entry(g, u, v) => Entry(h, u, v)
    <3>1. SUFFICES ASSUME Entry(g, u, v) PROVE Entry(h, u, v)
      OBVIOUS
    <3>2. PICK i \in DOMAIN g : g[i] = <<u, v>>
      BY <3>1 DEF Entry
    <3>3. Len(f) + i \in DOMAIN h /\ h[Len(f) + i] = g[i]
      BY <1>1, <1>3
    <3> QED BY <3>2, <3>3 DEF Entry
  <2>3. Entry(h, u, v) => Entry(f, u, v) \/ Entry(g, u, v)
    <3>1. SUFFICES ASSUME NEW i \in DOMAIN h, h[i] = <<u, v>>
                   PROVE  Entry(f, u, v) \/ Entry(g, u, v)
      BY DEF Entry
    <3>2. i \in 1 .. Len(f) + Len(g)
      BY <1>1, <1>3
    <3>3. CASE i <= Len(f)
      <4>1. i \in DOMAIN f /\ h[i] = f[i]
        BY <1>1, <1>3, <3>2, <3>3
      <4> QED BY <3>1, <4>1 DEF Entry
    <3>4. CASE i > Len(f)
      <4>1. i - Len(f) \in DOMAIN g /\ h[i] = g[i - Len(f)]
        BY <1>1, <1>3, <3>2, <3>4
      <4> QED BY <3>1, <4>1 DEF Entry
    <3> QED BY <3>2, <3>3, <3>4, <1>3
  <2> QED BY <2>1, <2>2, <2>3
<1> QED BY <1>1, <1>2, <1>4

\* The king's table is the squares around him.
LEMMA KingTable ==
  \A u, v \in Int :
    Entry(m_king, u, v) <=> Slanted(u, v, 1) \/ Straight(u, v, 1)
<1>1. DOMAIN m_king = {1, 2, 3, 4, 5, 6, 7, 8}
  BY DEF m_king
<1> QED BY <1>1 DEF Entry, m_king, Slanted, Straight

\* The knight's table is his eight leaps.
LEMMA KnightTable ==
  \A u, v \in Int :
    Entry(m_knight, u, v) <=> {Abs(u), Abs(v)} = {1, 2}
<1>1. DOMAIN m_knight = {1, 2, 3, 4, 5, 6, 7, 8}
  BY DEF m_knight
<1>2. \A u, v \in Int : Entry(m_knight, u, v) <=>
        <<u, v>> \in {<<2, 1>>, <<2, -1>>, <<-2, 1>>, <<-2, -1>>,
                      <<1, 2>>, <<1, -2>>, <<-1, 2>>, <<-1, -2>>}
  BY <1>1 DEF Entry, m_knight
<1>3. \A u, v \in Int : {Abs(u), Abs(v)} = {1, 2} <=>
        \/ Abs(u) = 1 /\ Abs(v) = 2
        \/ Abs(u) = 2 /\ Abs(v) = 1
  OBVIOUS
<1> QED BY <1>2, <1>3 DEF Abs

-----------------------------------------------------------------------------
(* The tables and the paths against the rules.                             *)

\* t is n squares from s in direction (li, ci)
Ray(s, t, li, ci, n) ==
  /\ li \in {-1, 0, 1} /\ ci \in {-1, 0, 1} /\ (li # 0 \/ ci # 0) /\ n \in 1 .. 7
  /\ t[1] = s[1] + n * li /\ t[2] = s[2] + n * ci

\* Along a ray the squares passed are counted by their distance.
LEMMA Proportion ==
  ASSUME NEW n \in 1 .. 7, NEW k \in Int, NEW x \in Int, NEW l \in {-1, 0, 1}
  PROVE  n * x = k * (n * l) <=> x = k * l
<1>1. n \in {1, 2, 3, 4, 5, 6, 7}
  OBVIOUS
<1>2. CASE l = 0
  BY <1>1, <1>2
<1>3. CASE l = 1
  BY <1>1, <1>3
<1>4. CASE l = -1
  BY <1>1, <1>4
<1> QED BY <1>2, <1>3, <1>4

Along(up, side, li, ci, n) ==
  /\ li = IF up = 0 THEN 0 ELSE SIGN(up)
  /\ ci = IF side = 0 THEN 0 ELSE SIGN(side)
  /\ n = IF Abs(up) > Abs(side) THEN Abs(up) ELSE Abs(side)
  /\ up = n * li /\ side = n * ci
  /\ Abs(up) = n \/ Abs(side) = n
  /\ Abs(up) \in {0, n} /\ Abs(side) \in {0, n}

\* A ray has the length and the direction that path_free works out.
LEMMA RayIs ==
  ASSUME NEW s \in Squares, NEW t \in Squares, NEW li, NEW ci, NEW n, Ray(s, t, li, ci, n)
  PROVE  Along(t[1] - s[1], t[2] - s[2], li, ci, n)
<1>1. PICK up, side : up = t[1] - s[1] /\ side = t[2] - s[2]
  OBVIOUS
<1>2. up \in Int /\ side \in Int /\ n \in 1 .. 7 /\ up = n * li /\ side = n * ci
  BY <1>1 DEF Squares, Ray
<1>3. /\ li \in {-1, 0, 1} /\ ci \in {-1, 0, 1} /\ (li # 0 \/ ci # 0)
  BY DEF Ray
<1>4. up = (IF li = 0 THEN 0 ELSE IF li = 1 THEN n ELSE -n)
  BY <1>2, <1>3
<1>5. side = (IF ci = 0 THEN 0 ELSE IF ci = 1 THEN n ELSE -n)
  BY <1>2, <1>3
<1>6. li = IF up = 0 THEN 0 ELSE SIGN(up)
  BY <1>2, <1>3, <1>4 DEF SIGN
<1>7. ci = IF side = 0 THEN 0 ELSE SIGN(side)
  BY <1>2, <1>3, <1>5 DEF SIGN
<1>8. /\ n = IF Abs(up) > Abs(side) THEN Abs(up) ELSE Abs(side)
      /\ Abs(up) = n \/ Abs(side) = n
      /\ Abs(up) \in {0, n} /\ Abs(side) \in {0, n}
  BY <1>2, <1>3, <1>4, <1>5 DEF Abs
<1> QED BY <1>1, <1>2, <1>6, <1>7, <1>8 DEF Along

\* path_free sees the squares that lie between the two.
LEMMA RayPath ==
  ASSUME NEW b, DOMAIN b \subseteq Squares, NEW s \in Squares, NEW t \in Squares,
         NEW li, NEW ci, NEW n, Ray(s, t, li, ci, n)
  PROVE  PathFree(b, s, t) <=> Clear(b, s, t)
<1>0. Along(t[1] - s[1], t[2] - s[2], li, ci, n)
  BY RayIs
<1>1. /\ n \in 1 .. 7 /\ li \in {-1, 0, 1} /\ ci \in {-1, 0, 1}
      /\ t[1] - s[1] = n * li /\ t[2] - s[2] = n * ci
      /\ Abs(t[1] - s[1]) = n \/ Abs(t[2] - s[2]) = n
      /\ Abs(t[1] - s[1]) \in {0, n} /\ Abs(t[2] - s[2]) \in {0, n}
  BY <1>0 DEF Ray, Along
<1>2. PathFree(b, s, t) <=>
        \A i \in 1 .. n - 1 : <<s[1] + i * li, s[2] + i * ci>> \notin DOMAIN b
  <2>1. PICK up, side : up = t[1] - s[1] /\ side = t[2] - s[2]
    OBVIOUS
  <2>2. Along(up, side, li, ci, n)
    BY <1>0, <2>1
  <2> QED BY <2>1, <2>2 DEF PathFree, Along
<1>3. ASSUME NEW u \in Squares, NEW i \in 1 .. n - 1,
             u = <<s[1] + i * li, s[2] + i * ci>>
      PROVE  u \in Between(s, t)
  <2>1. n * (u[1] - s[1]) = i * (n * li) /\ n * (u[2] - s[2]) = i * (n * ci)
    <3>1. u[1] - s[1] = i * li /\ u[2] - s[2] = i * ci
      BY <1>1, <1>3 DEF Squares
    <3>2. u[1] - s[1] \in Int /\ u[2] - s[2] \in Int /\ i \in Int
      BY DEF Squares
    <3> QED BY <1>1, <3>1, <3>2, Proportion
  <2>2. i \in 1 .. 6 /\ n \in 2 .. 7 /\ i < n
    BY <1>1
  <2>3. n * (u[1] - s[1]) = i * (t[1] - s[1]) /\ n * (u[2] - s[2]) = i * (t[2] - s[2])
    BY <1>1, <2>1
  <2>4. \/ Abs(t[1] - s[1]) = n /\ Abs(t[2] - s[2]) \in {0, n}
        \/ Abs(t[2] - s[2]) = n /\ t[1] = s[1]
    <3>1. Abs(t[1] - s[1]) = 0 => t[1] = s[1]
      BY DEF Abs, Squares
    <3> QED BY <1>1, <3>1
  <2> QED BY <2>2, <2>3, <2>4 DEF Between
<1>4. ASSUME NEW u \in Between(s, t)
      PROVE  \E i \in 1 .. n - 1 : u = <<s[1] + i * li, s[2] + i * ci>>
  <2>1. PICK k \in 1 .. 6, h \in 2 .. 7 :
          /\ k < h
          /\ h * (u[1] - s[1]) = k * (t[1] - s[1])
          /\ h * (u[2] - s[2]) = k * (t[2] - s[2])
          /\ \/ Abs(t[1] - s[1]) = h /\ Abs(t[2] - s[2]) \in {0, h}
             \/ Abs(t[2] - s[2]) = h /\ t[1] = s[1]
    BY DEF Between
  <2>2. u \in Squares
    BY DEF Between
  <2>3. h = n
    BY <1>1, <2>1
  <2>4. n * (u[1] - s[1]) = k * (n * li) /\ n * (u[2] - s[2]) = k * (n * ci)
    BY <1>1, <2>1, <2>3
  <2>5. u[1] - s[1] = k * li /\ u[2] - s[2] = k * ci
    <3>1. u[1] - s[1] \in Int /\ u[2] - s[2] \in Int /\ k \in Int
      BY <2>2 DEF Squares
    <3> QED BY <1>1, <2>4, <3>1, Proportion
  <2>6. k * li \in Int /\ k * ci \in Int
    BY <1>1
  <2>7. u[1] = s[1] + k * li /\ u[2] = s[2] + k * ci
    BY <2>2, <2>5, <2>6 DEF Squares
  <2>8. u = <<u[1], u[2]>>
    BY <2>2 DEF Squares
  <2>9. k \in 1 .. n - 1
    BY <2>1, <2>3
  <2> QED BY <2>7, <2>8, <2>9
<1>5. ASSUME PathFree(b, s, t) PROVE Clear(b, s, t)
  BY <1>2, <1>4, <1>5 DEF Clear
<1>6. ASSUME Clear(b, s, t) PROVE PathFree(b, s, t)
  <2>1. ASSUME NEW i \in 1 .. n - 1, <<s[1] + i * li, s[2] + i * ci>> \in DOMAIN b
        PROVE  FALSE
    <3>1. PICK u : u = <<s[1] + i * li, s[2] + i * ci>>
      OBVIOUS
    <3>2. u \in DOMAIN b /\ u \in Squares
      BY <2>1, <3>1
    <3>3. u \in Between(s, t)
      BY <1>3, <3>1, <3>2
    <3> QED BY <1>6, <3>2, <3>3 DEF Clear
  <2> QED BY <1>2, <2>1
<1> QED BY <1>5, <1>6

\* Two squares of a line, a column or a diagonal are on a ray.
LEMMA Rays2 ==
  ASSUME NEW s \in Squares, NEW t \in Squares, s # t,
         NEW u, NEW v, u = t[1] - s[1], v = t[2] - s[2]
  PROVE  /\ u \in -7 .. 7 /\ v \in -7 .. 7 /\ (u # 0 \/ v # 0)
         /\ (Abs(u) = Abs(v)) <=> \E n \in 1 .. 7 : Slanted(u, v, n)
         /\ (Abs(u) = 0 \/ Abs(v) = 0) <=> \E n \in 1 .. 7 : Straight(u, v, n)
         /\ (Abs(u) <= 1 /\ Abs(v) <= 1) <=> Slanted(u, v, 1) \/ Straight(u, v, 1)
         /\ \A n \in 1 .. 7 : Slanted(u, v, n) \/ Straight(u, v, n) =>
              \E li, ci : Ray(s, t, li, ci, n)
<1>1. u \in -7 .. 7 /\ v \in -7 .. 7 /\ (u # 0 \/ v # 0)
  BY DEF Squares
<1>2. ASSUME Abs(u) = Abs(v) PROVE \E n \in 1 .. 7 : Slanted(u, v, n)
  <2>1. Abs(u) \in 1 .. 7 /\ Slanted(u, v, Abs(u))
    BY <1>1, <1>2 DEF Abs, Slanted
  <2> QED BY <2>1
<1>3. ASSUME NEW n \in 1 .. 7, Slanted(u, v, n) PROVE Abs(u) = Abs(v)
  BY <1>1, <1>3 DEF Abs, Slanted
<1>4. ASSUME Abs(u) = 0 \/ Abs(v) = 0 PROVE \E n \in 1 .. 7 : Straight(u, v, n)
  <2>1. PICK n : n = Abs(u) + Abs(v)
    OBVIOUS
  <2>2. n \in 1 .. 7 /\ Straight(u, v, n)
    BY <1>1, <1>4, <2>1 DEF Abs, Straight
  <2> QED BY <2>2
<1>5. ASSUME NEW n \in 1 .. 7, Straight(u, v, n) PROVE Abs(u) = 0 \/ Abs(v) = 0
  BY <1>1, <1>5 DEF Abs, Straight
<1>6. (Abs(u) <= 1 /\ Abs(v) <= 1) <=> Slanted(u, v, 1) \/ Straight(u, v, 1)
  BY <1>1 DEF Abs, Slanted, Straight
<1>7. ASSUME NEW n \in 1 .. 7, Slanted(u, v, n) \/ Straight(u, v, n)
      PROVE  \E li, ci : Ray(s, t, li, ci, n)
  <2>1. PICK li \in {-1, 0, 1}, ci \in {-1, 0, 1} :
          (li # 0 \/ ci # 0) /\ u = n * li /\ v = n * ci
    <3>1. \/ u = n * 1 /\ v = n * 1
          \/ u = n * 1 /\ v = n * (-1)
          \/ u = n * (-1) /\ v = n * (-1)
          \/ u = n * (-1) /\ v = n * 1
          \/ u = n * 1 /\ v = n * 0
          \/ u = n * (-1) /\ v = n * 0
          \/ u = n * 0 /\ v = n * 1
          \/ u = n * 0 /\ v = n * (-1)
      BY <1>1, <1>7 DEF Slanted, Straight
    <3> QED BY <3>1
  <2>2. PICK x, y : x = n * li /\ y = n * ci
    OBVIOUS
  <2>3. t[1] = s[1] + x /\ t[2] = s[2] + y
    BY <1>1, <2>1, <2>2 DEF Squares
  <2>4. Ray(s, t, li, ci, n)
    BY <2>1, <2>2, <2>3 DEF Ray
  <2> QED BY <2>4
<1> QED BY <1>1, <1>2, <1>3, <1>4, <1>5, <1>6, <1>7

\* The squares from which a piece that is not a pawn reaches t, by the rules,
\* are those that its table finds.
LEMMA TableReaches ==
  ASSUME NEW b, Board(b), NEW s \in DOMAIN b, NEW t \in Squares, s # t,
         NEW d, d.piece = b[s].piece, d.piece # PAWN
  PROVE  Reaches(b, s, t) <=>
           /\ Entry(Table(d), t[1] - s[1], t[2] - s[2])
           /\ Slides(d) => PathFree(b, s, t)
<1>1. PICK u, v : u = t[1] - s[1] /\ v = t[2] - s[2]
  OBVIOUS
<1>2. s \in Squares /\ DOMAIN b \subseteq Squares
  BY DEF Board
<1>3. /\ u \in -7 .. 7 /\ v \in -7 .. 7 /\ (u # 0 \/ v # 0)
      /\ (Abs(u) = Abs(v)) <=> \E n \in 1 .. 7 : Slanted(u, v, n)
      /\ (Abs(u) = 0 \/ Abs(v) = 0) <=> \E n \in 1 .. 7 : Straight(u, v, n)
      /\ (Abs(u) <= 1 /\ Abs(v) <= 1) <=> Slanted(u, v, 1) \/ Straight(u, v, 1)
      /\ \A n \in 1 .. 7 : Slanted(u, v, n) \/ Straight(u, v, n) =>
              \E li, ci : Ray(s, t, li, ci, n)
  BY <1>1, <1>2, Rays2
<1>4. u \in Int /\ v \in Int
  BY <1>3
<1>5. (Abs(u) = Abs(v) \/ Abs(u) = 0 \/ Abs(v) = 0) =>
        (PathFree(b, s, t) <=> Clear(b, s, t))
  <2>1. SUFFICES ASSUME Abs(u) = Abs(v) \/ Abs(u) = 0 \/ Abs(v) = 0
                 PROVE  PathFree(b, s, t) <=> Clear(b, s, t)
    OBVIOUS
  <2>2. \E n \in 1 .. 7 : \E li, ci : Ray(s, t, li, ci, n)
    BY <1>3, <2>1
  <2>3. PICK n, li, ci : Ray(s, t, li, ci, n)
    BY <2>2
  <2> QED BY <1>2, <2>3, RayPath
<1>6. b[s].piece \in {KING, QUEEN, ROOK, BISHOP, KNIGHT}
  <2>1. b[s] \in Men
    BY ManIs
  <2> QED BY <2>1 DEF Men, Pieces, KING, QUEEN, ROOK, BISHOP, KNIGHT, PAWN

<1>7. CASE b[s].piece = KING
  <2>1. Reaches(b, s, t) <=> Abs(u) <= 1 /\ Abs(v) <= 1
    BY <1>1, <1>7 DEF Reaches, KING, QUEEN, ROOK, BISHOP, KNIGHT, PAWN
  <2>2. Entry(Table(d), u, v) <=> Abs(u) <= 1 /\ Abs(v) <= 1
    <3>1. Table(d) = m_king
      BY <1>7 DEF Table, KING, QUEEN, ROOK, BISHOP, KNIGHT, PAWN
    <3> QED BY <1>3, <1>4, <3>1, KingTable
  <2>3. ASSUME Abs(u) <= 1, Abs(v) <= 1 PROVE PathFree(b, s, t)
    <3>1. PICK li, ci : Ray(s, t, li, ci, 1)
      BY <1>3, <2>3
    <3>2. Along(u, v, li, ci, 1)
      BY <1>1, <1>2, <3>1, RayIs
    <3> QED BY <1>1, <3>2 DEF Along, PathFree
  <2> QED BY <1>1, <2>1, <2>2, <2>3
<1>8. CASE b[s].piece = QUEEN
  <2>1. Reaches(b, s, t) <=>
          (Abs(u) = 0 \/ Abs(v) = 0 \/ Abs(u) = Abs(v)) /\ Clear(b, s, t)
    BY <1>1, <1>8 DEF Reaches, KING, QUEEN, ROOK, BISHOP, KNIGHT, PAWN
  <2>2. Entry(Table(d), u, v) <=> Abs(u) = 0 \/ Abs(v) = 0 \/ Abs(u) = Abs(v)
    <3>1. Table(d) = m_queen
      BY <1>8 DEF Table, KING, QUEEN, ROOK, BISHOP, KNIGHT, PAWN
    <3>2. Entry(m_queen, u, v) <=> Entry(m_bishop, u, v) \/ Entry(m_rook, u, v)
      BY <1>4, QueenTable
    <3>3. Entry(m_bishop, u, v) <=> Abs(u) = Abs(v)
      BY <1>3, <1>4, BishopTable
    <3>4. Entry(m_rook, u, v) <=> Abs(u) = 0 \/ Abs(v) = 0
      BY <1>3, <1>4, RookTable
    <3> QED BY <3>1, <3>2, <3>3, <3>4
  <2>3. Slides(d)
    BY <1>8 DEF Slides
  <2> QED BY <1>1, <1>5, <2>1, <2>2, <2>3
<1>9. CASE b[s].piece = ROOK
  <2>1. Reaches(b, s, t) <=> (Abs(u) = 0 \/ Abs(v) = 0) /\ Clear(b, s, t)
    BY <1>1, <1>9 DEF Reaches, KING, QUEEN, ROOK, BISHOP, KNIGHT, PAWN
  <2>2. Entry(Table(d), u, v) <=> Abs(u) = 0 \/ Abs(v) = 0
    <3>1. Table(d) = m_rook
      BY <1>9 DEF Table, KING, QUEEN, ROOK, BISHOP, KNIGHT, PAWN
    <3> QED BY <1>3, <1>4, <3>1, RookTable
  <2>3. Slides(d)
    BY <1>9 DEF Slides
  <2> QED BY <1>1, <1>5, <2>1, <2>2, <2>3
<1>10. CASE b[s].piece = BISHOP
  <2>1. Reaches(b, s, t) <=> Abs(u) = Abs(v) /\ Clear(b, s, t)
    BY <1>1, <1>10 DEF Reaches, KING, QUEEN, ROOK, BISHOP, KNIGHT, PAWN
  <2>2. Entry(Table(d), u, v) <=> Abs(u) = Abs(v)
    <3>1. Table(d) = m_bishop
      BY <1>10 DEF Table, KING, QUEEN, ROOK, BISHOP, KNIGHT, PAWN
    <3> QED BY <1>3, <1>4, <3>1, BishopTable
  <2>3. Slides(d)
    BY <1>10 DEF Slides
  <2> QED BY <1>1, <1>5, <2>1, <2>2, <2>3
<1>11. CASE b[s].piece = KNIGHT
  <2>1. Reaches(b, s, t) <=> {Abs(u), Abs(v)} = {1, 2}
    BY <1>1, <1>11 DEF Reaches, KING, QUEEN, ROOK, BISHOP, KNIGHT, PAWN
  <2>2. Entry(Table(d), u, v) <=> {Abs(u), Abs(v)} = {1, 2}
    <3>1. Table(d) = m_knight
      BY <1>11 DEF Table, KING, QUEEN, ROOK, BISHOP, KNIGHT, PAWN
    <3> QED BY <1>4, <3>1, KnightTable
  <2>3. ~Slides(d)
    BY <1>11 DEF Slides, KING, QUEEN, ROOK, BISHOP, KNIGHT
  <2> QED BY <1>1, <2>1, <2>2, <2>3
<1> QED BY <1>6, <1>7, <1>8, <1>9, <1>10, <1>11

-----------------------------------------------------------------------------
(* Guessing where a piece comes from.                                      *)

\* Every table is a list of steps.
LEMMA TableSteps ==
  ASSUME NEW d
  PROVE  /\ DOMAIN Table(d) \subseteq Nat
         /\ \A i \in DOMAIN Table(d) : Table(d)[i] \in Int \X Int
<1> DEFINE Good(f) == /\ DOMAIN f \subseteq Nat
                      /\ \A i \in DOMAIN f : f[i] \in Int \X Int
<1>1. \A f \in Seq(Int \X Int) : Good(f)
  OBVIOUS
<1>2. Good(m_bishop) /\ Good(m_rook) /\ Good(m_queen)
  <2>1. PICK f, g : f = m_bishop /\ g = m_rook
    OBVIOUS
  <2>2. f \in Seq(Int \X Int) /\ g \in Seq(Int \X Int)
    BY <2>1, BishopTable, RookTable
  <2>3. f \o g \in Seq(Int \X Int)
    BY <2>2
  <2> QED BY <1>1, <2>1, <2>2, <2>3 DEF m_queen
<1>3. Good(m_king)
  <2>1. DOMAIN m_king = {1, 2, 3, 4, 5, 6, 7, 8}
    BY DEF m_king
  <2> QED BY <2>1 DEF m_king
<1>4. Good(m_knight)
  <2>1. DOMAIN m_knight = {1, 2, 3, 4, 5, 6, 7, 8}
    BY DEF m_knight
  <2> QED BY <2>1 DEF m_knight
<1>5. Good(<<>>)
  OBVIOUS
<1>6. \A c \in {1, -1} : Good(m_pawn_x(c)) /\ Good(m_pawn_d(c))
  <2> SUFFICES ASSUME NEW c \in {1, -1} PROVE Good(m_pawn_x(c)) /\ Good(m_pawn_d(c))
    OBVIOUS
  <2>1. m_pawn_x(c) \in Seq(Int \X Int)
    BY DEF m_pawn_x
  <2>2. <<<<c, 0>>, <<2 * c, 0>>>> \in Seq(Int \X Int)
    OBVIOUS
  <2>3. m_pawn_d(c) \in Seq(Int \X Int)
    BY <2>1, <2>2 DEF m_pawn_d
  <2> QED BY <1>1, <2>1, <2>3
<1>7. CURCOLOR(d) \in {1, -1}
  BY DEF CURCOLOR, WHITE, BLACK
<1> HIDE DEF Good
<1>8. Good(Table(d))
  BY <1>2, <1>3, <1>4, <1>5, <1>6, <1>7 DEF Table
<1> QED BY <1>8 DEF Good

\* A place of the table and the square it leads back to determine each other.
LEMMA BackIs ==
  ASSUME NEW d, d.to \in Squares, NEW s \in Squares
  PROVE  /\ Entry(Table(d), d.to[1] - s[1], d.to[2] - s[2]) <=>
              \E i \in DOMAIN Table(d) : Back(d, i) = s
<1>1. \A i \in DOMAIN Table(d) : Table(d)[i] \in Int \X Int
  BY TableSteps
<1>2. PICK f : f = Table(d)
  OBVIOUS
<1>3. ASSUME NEW i \in DOMAIN f
      PROVE  f[i] = <<d.to[1] - s[1], d.to[2] - s[2]>> <=>
               <<d.to[1] - f[i][1], d.to[2] - f[i][2]>> = s
  <2>1. PICK x, y \in Int : f[i] = <<x, y>>
    BY <1>1, <1>2
  <2>2. PICK p, q \in Int : s = <<p, q>>
    BY DEF Squares
  <2>3. PICK v, w \in Int : d.to = <<v, w>>
    BY DEF Squares
  <2> QED BY <2>1, <2>2, <2>3
<1> QED BY <1>2, <1>3 DEF Entry, Back

\* The first origin in the table is the right one when an origin that leads to
\* another square comes later.
LEMMA FirstOrigin ==
  ASSUME NEW b, NEW d, NEW s, NEW i \in Origins(b, d), Back(d, i) = s,
         \A j \in Origins(b, d) : Back(d, j) = s \/ i <= j
  PROVE  Origins(b, d) # {} /\ Back(d, Min(Origins(b, d))) = s
<1>1. PICK O : O = Origins(b, d)
  OBVIOUS
<1>2. O \subseteq Nat /\ i \in O
  BY <1>1, TableSteps DEF Origins
<1>3. \E k \in O : \A j \in O : k <= j
  BY <1>2, LeastOf
<1>4. Min(O) \in O /\ \A j \in O : Min(O) <= j
  BY <1>3 DEF Min
<1>5. Min(O) \in Nat /\ i \in Nat /\ Min(O) <= i
  BY <1>2, <1>4
<1>6. Back(d, Min(O)) = s
  <2>1. CASE i <= Min(O)
    <3>1. Min(O) = i
      BY <1>5, <2>1
    <3> QED BY <3>1
  <2>2. CASE ~(i <= Min(O))
    BY <1>1, <1>4, <2>2
  <2> QED BY <2>1, <2>2
<1> QED BY <1>1, <1>2, <1>6

\* mv is a plain legal move of side c, that promotes no pawn
Ordinary(b, c, mv) ==
  /\ mv.from \in DOMAIN b /\ mv.to \in Squares /\ mv.from # mv.to
  /\ b[mv.from].color = c
  /\ mv.to \in DOMAIN b => b[mv.to].color = -c
  /\ Reaches(b, mv.from, mv.to)

\* d is a move of mv's piece to mv's square, not yet known to come from there
Stands(b, d, mv) ==
  /\ d.to = mv.to /\ d.piece = b[mv.from].piece /\ CURCOLOR(d) = b[mv.from].color
  /\ d.from[1] \in {0, mv.from[1]} /\ d.from[2] \in {0, mv.from[2]}

\* A piece that is not a pawn is found at the squares it reaches t from.
LEMMA PieceOrigins ==
  ASSUME NEW b, Board(b), NEW mv, NEW d, Ordinary(b, CURCOLOR(d), mv), Stands(b, d, mv),
         d.piece # PAWN
  PROVE  /\ \E i \in Origins(b, d) : Back(d, i) = mv.from
         /\ \A i \in Origins(b, d) :
              LET s == Back(d, i)
              IN  /\ s \in DOMAIN b /\ b[s] = b[mv.from] /\ Reaches(b, s, mv.to)
                  /\ d.from[1] \in {0, s[1]} /\ d.from[2] \in {0, s[2]}
<1>1. PICK s, t : s = mv.from /\ t = mv.to
  OBVIOUS
<1>2. /\ s \in DOMAIN b /\ s \in Squares /\ t \in Squares /\ s # t /\ d.to = t
      /\ b[s] = Man(d.piece, CURCOLOR(d)) /\ Reaches(b, s, t)
  BY <1>1, ManIs DEF Ordinary, Stands, Board
<1>3. /\ Entry(Table(d), t[1] - s[1], t[2] - s[2])
      /\ Slides(d) => PathFree(b, s, t)
  BY <1>1, <1>2, TableReaches DEF Stands
<1>4. PICK i \in DOMAIN Table(d) : Back(d, i) = s
  BY <1>2, <1>3, BackIs
<1>5. Fits(b, d, s)
  BY <1>1, <1>2, <1>3 DEF Fits, At, Stands
<1>6. i \in Origins(b, d)
  BY <1>4, <1>5 DEF Origins
<1>7. ASSUME NEW j \in Origins(b, d), NEW r, r = Back(d, j)
      PROVE  /\ r \in DOMAIN b /\ b[r] = b[s] /\ Reaches(b, r, t)
             /\ d.from[1] \in {0, r[1]} /\ d.from[2] \in {0, r[2]}
  <2>1. j \in DOMAIN Table(d) /\ Fits(b, d, r)
    BY <1>7 DEF Origins
  <2>2. r \in Squares /\ At(b, r) = Man(d.piece, CURCOLOR(d))
    BY <2>1 DEF Fits
  <2>3. d.piece \in Pieces
    BY <1>1, <1>2, ManIs DEF Men, Stands
  <2>4. r \in DOMAIN b /\ b[r] = Man(d.piece, CURCOLOR(d))
    BY <2>2, <2>3 DEF At, NoMan, Man, Pieces, KING, PAWN, VOID
  <2>5. r # t
    <3>1. t \in DOMAIN b => b[t].color = -CURCOLOR(d)
      BY <1>1 DEF Ordinary
    <3>2. CURCOLOR(d) # -CURCOLOR(d)
      BY DEF CURCOLOR, WHITE, BLACK
    <3> QED BY <2>4, <3>1, <3>2 DEF Man
  <2>6. Entry(Table(d), t[1] - r[1], t[2] - r[2])
    BY <1>2, <1>7, <2>1, <2>2, BackIs
  <2>7. Slides(d) => PathFree(b, r, t)
    BY <1>2, <2>1 DEF Fits
  <2>8. Reaches(b, r, t)
    <3>1. d.piece = b[r].piece
      BY <2>4 DEF Man
    <3> QED BY <1>2, <2>4, <2>5, <2>6, <2>7, <3>1, TableReaches
  <2> QED BY <1>2, <2>1, <2>4, <2>8 DEF Fits
<1> QED BY <1>1, <1>4, <1>6, <1>7

\* A pawn is found where it stands: a straight move is found before a capture
\* that its table also holds, and a capture is found by its column.
LEMMA PawnOrigins ==
  ASSUME NEW b, Board(b), NEW mv, NEW d, Ordinary(b, CURCOLOR(d), mv), Stands(b, d, mv),
         d.piece = PAWN, d.prise # VOID => mv.to \in DOMAIN b
  PROVE  \E i \in Origins(b, d) :
           /\ Back(d, i) = mv.from
           /\ (mv.to \in DOMAIN b => d.from[2] # 0) =>
                \A j \in Origins(b, d) : Back(d, j) = mv.from \/ i <= j
<1>1. PICK s, t, c : s = mv.from /\ t = mv.to /\ c = CURCOLOR(d)
  OBVIOUS
<1>2. /\ s \in DOMAIN b /\ s \in Squares /\ t \in Squares /\ s # t /\ d.to = t
      /\ b[s] = Man(PAWN, c) /\ Reaches(b, s, t) /\ c \in {1, -1}
      /\ d.from[1] \in {0, s[1]} /\ d.from[2] \in {0, s[2]}
  BY ZenonT(30), <1>1, ManIs DEF Ordinary, Stands, Board, CURCOLOR, WHITE, BLACK
<1>3. PICK x, y, v, w \in 1 .. 8 : s = <<x, y>> /\ t = <<v, w>>
  <2>1. /\ s = <<s[1], s[2]>> /\ s[1] \in 1 .. 8 /\ s[2] \in 1 .. 8
        /\ t = <<t[1], t[2]>> /\ t[1] \in 1 .. 8 /\ t[2] \in 1 .. 8
    BY <1>2 DEF Squares
  <2> QED BY <2>1
<1>4. IF t \in DOMAIN b THEN c * (v - x) = 1 /\ Abs(w - y) = 1
      ELSE /\ Abs(w - y) = 0
           /\ c * (v - x) = 1 \/ (c * (v - x) = 2 /\ Clear(b, s, t))
  BY <1>2, <1>3 DEF Reaches, Man, Forward, KING, QUEEN, ROOK, BISHOP, KNIGHT, PAWN
<1>5. /\ t \in DOMAIN b => v = x + c /\ (w = y + 1 \/ w = y - 1)
      /\ t \notin DOMAIN b => w = y /\ (v = x + c \/ (v = x + 2 * c /\ Clear(b, s, t)))
  BY <1>2, <1>4 DEF Abs
<1>6. PICK f : f = Table(d)
  OBVIOUS
<1>7. f = IF d.prise # VOID THEN <<<<c, 1>>, <<c, -1>>>>
          ELSE <<<<c, 0>>, <<2 * c, 0>>, <<c, 1>>, <<c, -1>>>>
  <2>1. f = IF d.prise # VOID THEN m_pawn_x(c) ELSE m_pawn_d(c)
    BY <1>1, <1>6 DEF Table, Stands, KING, QUEEN, ROOK, BISHOP, KNIGHT, PAWN
  <2>2. m_pawn_x(c) = <<<<c, 1>>, <<c, -1>>>>
    BY DEF m_pawn_x
  <2>3. m_pawn_d(c) = <<<<c, 0>>, <<2 * c, 0>>, <<c, 1>>, <<c, -1>>>>
    <3>1. ASSUME NEW S, NEW e1 \in S, NEW e2 \in S, NEW e3 \in S, NEW e4 \in S
          PROVE  <<e1, e2>> \o <<e3, e4>> = <<e1, e2, e3, e4>>
      <4>1. PICK p, q, r, k : p = <<e1, e2>> /\ q = <<e3, e4>> /\ r = p \o q
                              /\ k = <<e1, e2, e3, e4>>
        OBVIOUS
      <4>2. p \in Seq(S) /\ q \in Seq(S) /\ Len(p) = 2 /\ Len(q) = 2
            /\ k \in Seq(S) /\ Len(k) = 4
        BY <4>1
      <4>3. r \in Seq(S) /\ Len(r) = 4 /\ r[1] = p[1] /\ r[2] = p[2] /\ r[3] = q[1] /\ r[4] = q[2]
        BY <4>1, <4>2
      <4>4. \A i \in 1 .. 4 : r[i] = k[i]
        BY <4>1, <4>3
      <4> QED BY <4>1, <4>2, <4>3, <4>4, SeqEqual
    <3>2. \A e1, e2, e3, e4 : <<e1, e2>> \o <<e3, e4>> = <<e1, e2, e3, e4>>
      <4> SUFFICES ASSUME NEW e1, NEW e2, NEW e3, NEW e4
                   PROVE  <<e1, e2>> \o <<e3, e4>> = <<e1, e2, e3, e4>>
        OBVIOUS
      <4>1. PICK S : S = {e1, e2, e3, e4}
        OBVIOUS
      <4> QED BY <3>1, <4>1
    <3> QED BY <2>2, <3>2 DEF m_pawn_d
  <2> QED BY <2>1, <2>2, <2>3
<1>8. \A i \in DOMAIN f : Back(d, i) = <<v - f[i][1], w - f[i][2]>>
  BY <1>2, <1>3, <1>6 DEF Back
<1>9. Fits(b, d, s)
  <2>1. At(b, s) = Man(d.piece, CURCOLOR(d))
    BY <1>1, <1>2 DEF At
  <2>2. ~Slides(d)
    BY DEF Slides, KING, QUEEN, ROOK, BISHOP, PAWN
  <2> QED BY <1>2, <2>1, <2>2 DEF Fits
<1>10. \A i \in DOMAIN f : Back(d, i) = s => i \in Origins(b, d)
  BY <1>6, <1>9 DEF Origins
<1>11. \A j \in Origins(b, d) : j \in DOMAIN f /\ Fits(b, d, Back(d, j))
  BY <1>6 DEF Origins
<1>12. CASE t \in DOMAIN b
  <2>1. PICK i \in DOMAIN f : f[i] = <<c, w - y>> /\ \A j \in DOMAIN f : f[j][2] = w - y => j = i
    <3>1. w - y \in {1, -1}
      BY <1>5, <1>12
    <3>2. CASE d.prise # VOID
      <4>1. /\ DOMAIN f = 1 .. 2 /\ f[1] = <<c, 1>> /\ f[2] = <<c, -1>>
        BY <1>7, <3>2
      <4>2. CASE w - y = 1
        BY <4>1, <4>2
      <4>3. CASE w - y = -1
        BY <4>1, <4>3
      <4> QED BY <3>1, <4>2, <4>3
    <3>3. CASE ~(d.prise # VOID)
      <4>1. /\ DOMAIN f = 1 .. 4 /\ f[1] = <<c, 0>> /\ f[2] = <<2 * c, 0>>
            /\ f[3] = <<c, 1>> /\ f[4] = <<c, -1>>
        BY <1>7, <3>3
      <4>2. CASE w - y = 1
        BY <4>1, <4>2
      <4>3. CASE w - y = -1
        BY <4>1, <4>3
      <4> QED BY <3>1, <4>2, <4>3
    <3> QED BY <3>2, <3>3
  <2>2. Back(d, i) = s
    BY <1>2, <1>3, <1>5, <1>8, <1>12, <2>1
  <2>3. ASSUME d.from[2] # 0, NEW j \in Origins(b, d) PROVE Back(d, j) = s
    <3>1. j \in DOMAIN f /\ Back(d, j)[2] = s[2]
      BY <1>2, <1>11, <2>3 DEF Fits
    <3>2. w - f[j][2] = y
      BY <1>3, <1>8, <3>1
    <3>3. f[j][2] \in Int
      BY <1>6, <3>1, TableSteps
    <3>4. f[j][2] = w - y
      BY <3>2, <3>3
    <3> QED BY <2>1, <2>2, <3>1, <3>4
  <2> QED BY <1>1, <1>10, <1>12, <2>2, <2>3
<1>13. CASE t \notin DOMAIN b
  <2>1. d.prise = VOID
    BY <1>1, <1>13
  <2>2. /\ DOMAIN f = 1 .. 4 /\ f[1] = <<c, 0>> /\ f[2] = <<2 * c, 0>>
    BY <1>7, <2>1
  <2>3. CASE v = x + c
    <3>1. Back(d, 1) = s
      BY <1>2, <1>3, <1>5, <1>8, <1>13, <2>2, <2>3
    <3>2. \A j \in Origins(b, d) : 1 <= j
      BY <1>11, <2>2
    <3> QED BY <1>1, <1>10, <2>2, <3>1, <3>2
  <2>4. CASE v = x + 2 * c /\ Clear(b, s, t)
    <3>1. Back(d, 2) = s
      BY <1>2, <1>3, <1>5, <1>8, <1>13, <2>2, <2>4
    <3>2. Back(d, 1) = <<v - c, w>>
      BY <1>3, <1>8, <2>2
    <3>3. ASSUME 1 \in Origins(b, d) PROVE FALSE
      <4>1. PICK u : u = Back(d, 1)
        OBVIOUS
      <4>2. u \in Squares /\ At(b, u) = Man(PAWN, c)
        BY <1>1, <1>11, <3>3, <4>1 DEF Fits
      <4>3. u \in DOMAIN b
        BY <4>2 DEF At, NoMan, Man, PAWN, VOID
      <4>4. u[1] - s[1] = c /\ u[2] - s[2] = 0 /\ t[1] - s[1] = 2 * c /\ t[2] - s[2] = 0
        BY <1>2, <1>3, <1>5, <1>13, <2>4, <3>2, <4>1
      <4>5. u \in Between(s, t)
        <5>1. 2 * (u[1] - s[1]) = 1 * (t[1] - s[1]) /\ 2 * (u[2] - s[2]) = 1 * (t[2] - s[2])
          BY <1>2, <4>4
        <5>2. Abs(t[1] - s[1]) = 2 /\ Abs(t[2] - s[2]) = 0
          BY <1>2, <4>4 DEF Abs
        <5>3. 1 \in 1 .. 6 /\ 2 \in 2 .. 7 /\ 1 < 2
          OBVIOUS
        <5> QED BY <4>2, <5>1, <5>2, <5>3 DEF Between
      <4> QED BY <2>4, <4>3, <4>5 DEF Clear
    <3>4. \A j \in Origins(b, d) : 2 <= j
      BY <1>11, <2>2, <3>3
    <3> QED BY <1>1, <1>10, <2>2, <3>1, <3>4
  <2> QED BY <1>5, <1>13, <2>3, <2>4
<1> QED BY <1>12, <1>13

-----------------------------------------------------------------------------
(* Reading and executing a legal move.                                     *)

\* what the rules allow and the texts hold: a plain move or castling
LegalHere(b, c, mv) ==
  \/ mv.kind = "plain" /\ mv = Move("plain", mv.from, mv.to, VOID) /\ Ordinary(b, c, mv)
  \/ mv.kind \in {"short", "long"} /\ mv \in Castles(b, c)

\* A legal move that neither promotes nor captures in passing is one of those.
LEMMA LegalIs ==
  ASSUME NEW b, Board(b), NEW c \in {WHITE, BLACK}, NEW last, NEW T, T \subseteq Squares,
         NEW mv \in Legal(b, c, last, T), Kind(mv) \in {"plain", "short", "long"}
  PROVE  LegalHere(b, c, mv)
<1>1. mv.promotion = VOID /\ mv.kind \in {"plain", "short", "long"}
  BY DEF Kind
<1>2. CASE mv \in Castles(b, c)
  <2>1. mv.kind \in {"short", "long"}
    BY <1>2 DEF Castles, Move
  <2> QED BY <1>2, <2>1 DEF LegalHere
<1>3. CASE mv \in InPassing(b, c, last)
  <2>1. mv.kind = "passing"
    BY <1>3 DEF InPassing, Move
  <2> QED BY <1>1, <2>1
<1>4. CASE mv \in Plain(b, c, T)
  <2>1. /\ mv \in [kind : {"plain"}, from : DOMAIN b, to : T,
                   promotion : {VOID, QUEEN, KNIGHT}]
        /\ b[mv.from].color = c /\ At(b, mv.to).color # c
        /\ Reaches(b, mv.from, mv.to)
    BY <1>4 DEF Plain
  <2>2. mv = Move("plain", mv.from, mv.to, VOID) /\ mv.kind = "plain"
    BY <1>1, <2>1 DEF Move
  <2>3. mv.from \in DOMAIN b /\ mv.to \in Squares
    BY <2>1
  <2>4. mv.from # mv.to
    BY <2>1, <2>3 DEF At
  <2>5. mv.to \in DOMAIN b => b[mv.to].color = -c
    <3>1. mv.to \in DOMAIN b => b[mv.to] \in Men /\ b[mv.to].color # c
      BY <2>1, ManIs DEF At
    <3> QED BY <3>1 DEF Men, WHITE, BLACK
  <2> QED BY <2>1, <2>2, <2>3, <2>4, <2>5 DEF Ordinary, LegalHere
<1> QED BY <1>2, <1>3, <1>4 DEF Legal

\* t names mv and no other move: it gives the square that mv leaves, or the
\* piece alone or with its column, when no other such piece reaches the square
Token(b, mv, t) ==
  LET p == b[mv.from].piece
  IN  /\ t.to = mv.to /\ t.promotion = VOID
      /\ t.cross \in BOOLEAN /\ (t.cross => mv.to \in DOMAIN b)
      /\ \/ t.from = mv.from /\ t.piece \in {VOID, p}
         \/ /\ mv.kind = "plain" /\ t.from \in {Off, <<0, mv.from[2]>>}
            /\ IF p = PAWN THEN t.piece = VOID /\ (t.from = Off => mv.to \notin DOMAIN b)
               ELSE /\ t.piece = p
                    /\ \A r \in DOMAIN b :
                         b[r] = b[mv.from] /\ Reaches(b, r, mv.to)
                           /\ t.from[2] \in {0, r[2]} => r = mv.from

\* Each of the notations that the text may use does.
LEMMA NotationsName ==
  ASSUME Board(tos), NEW mv, LegalHere(tos, ToMove, mv), NEW t \in Notations(mv)
  PROVE  Token(tos, mv, t)
<1> DEFINE p == At(tos, mv.from).piece
           letter == IF p = PAWN THEN VOID ELSE p
           captures == mv.to \in DOMAIN tos \/ mv.kind = "passing"
           rivals == {r \in LegalMoves({mv.to}) :
                        /\ r.to = mv.to /\ r.from # mv.from
                        /\ At(tos, r.from).piece = p}
           named(froms, pieces) ==
             [keyword : {""}, piece : pieces, from : froms, cross : {captures, FALSE},
              to : {mv.to}, promotion : {mv.promotion}]
           castling == mv.kind \in {"short", "long"}
<1>1. mv.promotion = VOID /\ mv.from \in DOMAIN tos /\ mv.kind \in {"plain", "short", "long"}
  <2>1. CASE mv.kind = "plain"
    <3>1. LegalHere(tos, ToMove, mv) =>
            mv = Move("plain", mv.from, mv.to, VOID) /\ Ordinary(tos, ToMove, mv)
      BY <2>1 DEF LegalHere
    <3>2. mv.promotion = VOID
      BY <3>1 DEF Move
    <3> QED BY <2>1, <3>1, <3>2 DEF Ordinary
  <2>2. CASE mv.kind # "plain"
    <3>1. mv.kind \in {"short", "long"} /\ mv \in Castles(tos, ToMove)
      BY <2>2 DEF LegalHere
    <3>2. mv.promotion = VOID /\ mv.from = <<HomeRow(ToMove), 5>>
          /\ At(tos, mv.from) = Man(KING, ToMove)
      BY <3>1 DEF Castles, Move
    <3>3. mv.from \in DOMAIN tos
      BY <3>2 DEF At, NoMan, Man, KING, VOID
    <3> QED BY <3>1, <3>2, <3>3
  <2> QED BY <2>1, <2>2
<1>2. /\ p = tos[mv.from].piece
      /\ captures = (mv.to \in DOMAIN tos)
  BY <1>1 DEF At
<1>3. \/ t \in named({mv.from}, {VOID, p})
      \/ /\ ~castling /\ ~(\E r \in rivals : r.from[2] = mv.from[2])
         /\ t \in named({<<0, mv.from[2]>>}, {letter})
      \/ /\ ~castling /\ rivals = {} /\ ~(p = PAWN /\ captures)
         /\ t \in named({Off}, {letter})
  <2>1. Notations(mv) =
          named({mv.from}, {VOID, p})
          \cup (IF castling \/ \E r \in rivals : r.from[2] = mv.from[2] THEN {}
                ELSE named({<<0, mv.from[2]>>}, {letter}))
          \cup (IF castling \/ rivals # {} \/ (p = PAWN /\ captures) THEN {}
                ELSE named({Off}, {letter}))
    BY Zenon DEF Notations
  <2> HIDE DEF p, letter, captures, rivals, named, castling
  <2> QED BY <2>1
<1>4. ASSUME NEW F, NEW P, t \in named(F, P)
      PROVE  /\ t.to = mv.to /\ t.promotion = VOID /\ t.from \in F /\ t.piece \in P
             /\ t.cross \in BOOLEAN /\ (t.cross => mv.to \in DOMAIN tos)
  BY <1>1, <1>2, <1>4
<1>5. ASSUME mv.kind = "plain", p # PAWN, NEW r \in DOMAIN tos, r # mv.from,
             tos[r] = tos[mv.from], Reaches(tos, r, mv.to)
      PROVE  \E v \in rivals : v.from = r
  <2>1. PICK v : v = Move("plain", r, mv.to, VOID)
    OBVIOUS
  <2>2. /\ v \in [kind : {"plain"}, from : DOMAIN tos, to : {mv.to},
                  promotion : {VOID, QUEEN, KNIGHT}]
        /\ v.from = r /\ v.to = mv.to /\ v.promotion = VOID
    BY <2>1 DEF Move
  <2>3. Ordinary(tos, ToMove, mv)
    BY <1>5 DEF LegalHere
  <2>4. tos[r].color = ToMove /\ At(tos, mv.to).color # ToMove
    BY <1>5, <2>3 DEF Ordinary, At, NoMan, Man, VOID, WHITE, BLACK, ToMove
  <2>5. ~Promotes(tos, v.from, v.to)
    BY <1>2, <1>5, <2>2 DEF Promotes
  <2>6. v \in Plain(tos, ToMove, {mv.to})
    BY <1>5, <2>2, <2>4, <2>5 DEF Plain
  <2>7. v \in LegalMoves({mv.to})
    BY <2>6 DEF LegalMoves, Legal
  <2>8. At(tos, v.from).piece = p
    BY <1>2, <1>5, <2>2 DEF At
  <2> QED BY <1>5, <2>2, <2>7, <2>8
<1>6. mv.from[2] # 0 /\ Off[2] = 0
  BY <1>1 DEF Board, Squares, Off
<1> HIDE DEF p, letter, captures, rivals, named
<1>7. CASE t \in named({mv.from}, {VOID, p})
  <2>1. /\ t.to = mv.to /\ t.promotion = VOID /\ t.from = mv.from
        /\ t.piece \in {VOID, p} /\ t.cross \in BOOLEAN
        /\ t.cross => mv.to \in DOMAIN tos
    BY <1>4, <1>7
  <2> QED BY <1>2, <2>1 DEF Token
<1>8. CASE /\ ~castling /\ ~(\E r \in rivals : r.from[2] = mv.from[2])
           /\ t \in named({<<0, mv.from[2]>>}, {letter})
  <2>1. /\ t.to = mv.to /\ t.promotion = VOID /\ t.from = <<0, mv.from[2]>>
        /\ t.piece = letter /\ t.cross \in BOOLEAN /\ (t.cross => mv.to \in DOMAIN tos)
    BY <1>4, <1>8
  <2>2. mv.kind = "plain"
    BY <1>1, <1>8
  <2>3. t.from # Off
    BY <1>6, <2>1
  <2>4. CASE p = PAWN
    BY <1>2, <2>1, <2>2, <2>3, <2>4 DEF Token, letter
  <2>5. CASE p # PAWN
    <3>1. ASSUME NEW r \in DOMAIN tos, tos[r] = tos[mv.from], Reaches(tos, r, mv.to),
                 t.from[2] \in {0, r[2]}, r # mv.from
          PROVE  FALSE
      <4>1. t.from[2] = mv.from[2]
        BY <2>1
      <4>2. r[2] = mv.from[2]
        BY <1>6, <3>1, <4>1
      <4> QED BY <1>5, <1>8, <2>2, <2>5, <3>1, <4>2
    <3> QED BY <1>2, <2>1, <2>2, <2>5, <3>1 DEF Token, letter
  <2> QED BY <2>4, <2>5
<1>9. CASE /\ ~castling /\ rivals = {} /\ ~(p = PAWN /\ captures)
           /\ t \in named({Off}, {letter})
  <2>1. /\ t.to = mv.to /\ t.promotion = VOID /\ t.from = Off
        /\ t.piece = letter /\ t.cross \in BOOLEAN /\ (t.cross => mv.to \in DOMAIN tos)
    BY <1>4, <1>9
  <2>2. mv.kind = "plain"
    BY <1>1, <1>9
  <2>4. CASE p = PAWN
    BY <1>2, <1>9, <2>1, <2>2, <2>4 DEF Token, letter
  <2>5. CASE p # PAWN
    <3>1. ASSUME NEW r \in DOMAIN tos, tos[r] = tos[mv.from], Reaches(tos, r, mv.to),
                 r # mv.from
          PROVE  FALSE
      BY <1>5, <1>9, <2>2, <2>5, <3>1
    <3> QED BY <1>2, <2>1, <2>2, <2>5, <3>1 DEF Token, letter
  <2> QED BY <2>4, <2>5
<1> QED BY <1>3, <1>7, <1>8, <1>9

\* x is a move read on behalf of d: the same node, its links and its numbering
Fresh(d, x) ==
  /\ x \in Depl
  /\ x.next = d.next /\ x.prev = d.prev /\ x.sub = d.sub
  /\ x.whiteturn = d.whiteturn /\ x.move = d.move

\* the automaton's letters for a pawn, or none, are filled in
Lettered(d) == IF d.piece = VOID THEN [d EXCEPT !.piece = PAWN] ELSE d

\* what the automaton has read of the legal move mv
Reading(b, d, mv, x) ==
  /\ Fresh(d, x) /\ x.to = mv.to /\ x.promotion = VOID
  /\ x.type \in {MOVE, PRISE} /\ (x.type = PRISE => mv.to \in DOMAIN b)
  /\ x.prise # VOID => mv.to \in DOMAIN b

\* A token of the move is read so.
LEMMA TokenRead ==
  ASSUME NEW b, Board(b), NEW mv, mv.from \in DOMAIN b, mv.to \in Squares, NEW t,
         Token(b, mv, t), NEW d \in Depl,
         NEW x, x = Lettered(Parsed(d, t))
  PROVE  /\ Reading(b, d, mv, x) /\ x.from = t.from
         /\ x.piece = IF t.piece = VOID THEN PAWN ELSE t.piece
         /\ (t.from # mv.from /\ t.piece = VOID) => x.prise = VOID
<1>1. b[mv.from].piece \in Pieces /\ mv.from \in Squares
  BY ManIs DEF Men, Board
<1>2. /\ t.to = mv.to /\ t.promotion = VOID
      /\ t.cross \in BOOLEAN /\ (t.cross => mv.to \in DOMAIN b)
  BY DEF Token
<1>3. t.piece \in Pieces \cup {VOID} /\ t.from \in Places
  <2>1. CASE t.from = mv.from /\ t.piece \in {VOID, b[mv.from].piece}
    BY <1>1, <2>1 DEF Squares, Places
  <2>2. CASE ~(t.from = mv.from /\ t.piece \in {VOID, b[mv.from].piece})
    <3>1. t.from \in {Off, <<0, mv.from[2]>>}
      BY <2>2 DEF Token
    <3>2. t.piece \in {VOID, b[mv.from].piece}
      BY <2>2 DEF Token
    <3> QED BY <1>1, <3>1, <3>2 DEF Squares, Places, Off
  <2> QED BY <2>1, <2>2
<1>4. PICK y : y = Parsed(d, t)
  OBVIOUS
<1>5. /\ y = [InitParse(d) EXCEPT !.piece = t.piece, !.from = t.from, !.to = t.to,
                !.prise = IF t.cross /\ t.from # Off THEN t.piece ELSE VOID,
                !.promotion = t.promotion,
                !.type = IF t.cross THEN PRISE ELSE MOVE]
  BY <1>2, <1>4 DEF Parsed
<1>6. /\ y \in Depl /\ y.piece = t.piece /\ y.from = t.from /\ y.to = t.to
      /\ y.prise = (IF t.cross /\ t.from # Off THEN t.piece ELSE VOID)
      /\ y.promotion = VOID /\ y.type = (IF t.cross THEN PRISE ELSE MOVE)
      /\ y.next = d.next /\ y.prev = d.prev /\ y.sub = d.sub
      /\ y.whiteturn = d.whiteturn /\ y.move = d.move
  <2>1. mv.to \in Places
    BY DEF Squares, Places
  <2>2. MOVE \in Types /\ PRISE \in Types
    BY DEF Types, MOVE, PRISE, NONE, PROM_ET_PRISE
  <2>3. t.cross = TRUE \/ t.cross = FALSE
    BY <1>2
  <2>4. PICK pr, ty : /\ pr = IF t.cross /\ t.from # Off THEN t.piece ELSE VOID
                      /\ ty = IF t.cross THEN PRISE ELSE MOVE
    OBVIOUS
  <2>5. pr \in Pieces \cup {VOID} /\ ty \in Types
    BY <1>3, <2>2, <2>4
  <2> QED BY ZenonT(30), <1>2, <1>3, <1>5, <2>1, <2>4, <2>5 DEF Depl, InitParse
<1>7. PAWN \in Pieces \cup {VOID}
  BY DEF Pieces, KING, PAWN
<1>8. /\ x \in Depl /\ x.piece = (IF t.piece = VOID THEN PAWN ELSE t.piece)
      /\ x.from = t.from /\ x.to = mv.to
      /\ x.prise = y.prise /\ x.promotion = VOID /\ x.type = y.type
      /\ x.next = d.next /\ x.prev = d.prev /\ x.sub = d.sub
      /\ x.whiteturn = d.whiteturn /\ x.move = d.move
  <2>1. CASE t.piece = VOID
    <3>1. x = [y EXCEPT !.piece = PAWN]
      BY <1>4, <1>6, <2>1 DEF Lettered
    <3> QED BY <1>2, <1>6, <1>7, <2>1, <3>1 DEF Depl
  <2>2. CASE t.piece # VOID
    <3>1. x = y
      BY <1>4, <1>6, <2>2 DEF Lettered
    <3> QED BY <1>2, <1>6, <2>2, <3>1
  <2> QED BY <2>1, <2>2
<1>9. Reading(b, d, mv, x)
  BY <1>2, <1>6, <1>8 DEF Reading, Fresh, MOVE, PRISE
<1> QED BY <1>6, <1>8, <1>9

\* The square that a token leaves out is guessed.
LEMMA TokenGuessed ==
  ASSUME NEW b, Board(b), NEW d \in Depl, NEW mv, LegalHere(b, CURCOLOR(d), mv),
         mv.from \in DOMAIN b, mv.to \in Squares,
         NEW t, Token(b, mv, t), NEW x, x = Lettered(Parsed(d, t))
  PROVE  \E g : /\ GuessMove(b, x) = [d |-> g, ok |-> TRUE]
                /\ Reading(b, d, mv, g) /\ g.from = mv.from
<1>1. /\ Reading(b, d, mv, x) /\ x.from = t.from
      /\ x.piece = IF t.piece = VOID THEN PAWN ELSE t.piece
      /\ (t.from # mv.from /\ t.piece = VOID) => x.prise = VOID
  BY TokenRead
<1>2. mv.from \in Squares /\ b[mv.from].piece \in Pieces
  BY ManIs DEF Men, Board
<1>3. CASE t.from = mv.from
  <2>1. x.from[1] # 0 /\ x.from[2] # 0
    BY <1>1, <1>2, <1>3 DEF Squares
  <2>2. GuessMove(b, x) = [d |-> x, ok |-> TRUE]
    BY <2>1 DEF GuessMove
  <2> QED BY <1>1, <1>3, <2>2
<1>4. CASE t.from # mv.from
  <2>1. /\ mv.kind = "plain" /\ t.from \in {Off, <<0, mv.from[2]>>}
        /\ IF b[mv.from].piece = PAWN
           THEN t.piece = VOID /\ (t.from = Off => mv.to \notin DOMAIN b)
           ELSE /\ t.piece = b[mv.from].piece
                /\ \A r \in DOMAIN b :
                     b[r] = b[mv.from] /\ Reaches(b, r, mv.to)
                       /\ t.from[2] \in {0, r[2]} => r = mv.from
    BY <1>4 DEF Token
  <2>2. Ordinary(b, CURCOLOR(d), mv) /\ CURCOLOR(x) = CURCOLOR(d)
    BY <1>1, <2>1 DEF LegalHere, Reading, Fresh, CURCOLOR
  <2>3. x.piece = b[mv.from].piece
    BY <1>1, <1>2, <2>1 DEF Pieces, KING, PAWN, VOID
  <2>4. x.from[1] = 0 /\ x.from[2] \in {0, mv.from[2]}
    BY <1>1, <2>1 DEF Off
  <2>5. Stands(b, x, mv)
    BY <1>1, <2>2, <2>3, <2>4 DEF Stands, Ordinary, Reading
  <2>6. \E i \in Origins(b, x) : /\ Back(x, i) = mv.from
                                 /\ \A j \in Origins(b, x) : Back(x, j) = mv.from \/ i <= j
    <3>1. CASE x.piece = PAWN
      <4>1. x.prise = VOID
        BY <1>1, <1>4, <2>1, <2>3, <3>1
      <4>2. PICK i \in Origins(b, x) :
              /\ Back(x, i) = mv.from
              /\ (mv.to \in DOMAIN b => x.from[2] # 0) =>
                   \A j \in Origins(b, x) : Back(x, j) = mv.from \/ i <= j
        BY <2>2, <2>5, <3>1, <4>1, PawnOrigins
      <4>3. mv.to \in DOMAIN b => x.from[2] # 0
        BY <1>1, <1>2, <2>1, <2>3, <3>1 DEF Squares
      <4> QED BY <4>2, <4>3
    <3>2. CASE x.piece # PAWN
      <4>1. /\ \E i \in Origins(b, x) : Back(x, i) = mv.from
            /\ \A i \in Origins(b, x) :
                 LET s == Back(x, i)
                 IN  /\ s \in DOMAIN b /\ b[s] = b[mv.from] /\ Reaches(b, s, mv.to)
                     /\ x.from[1] \in {0, s[1]} /\ x.from[2] \in {0, s[2]}
        BY <2>2, <2>5, <3>2, PieceOrigins
      <4>2. \A i \in Origins(b, x) : Back(x, i) = mv.from
        BY <1>1, <2>1, <2>3, <3>2, <4>1
      <4> QED BY <4>1, <4>2
    <3> QED BY <3>1, <3>2
  <2>7. Origins(b, x) # {} /\ Back(x, Min(Origins(b, x))) = mv.from
    BY <2>6, FirstOrigin
  <2>8. x.type \notin Castling
    BY <1>1 DEF Reading, Castling, MOVE, PRISE, GRANDROQUE, PETITROQUE
  <2>9. PICK g : g = [x EXCEPT !.from = mv.from]
    OBVIOUS
  <2>10. GuessMove(b, x) = [d |-> g, ok |-> TRUE]
    BY <2>4, <2>7, <2>8, <2>9 DEF GuessMove
  <2>11. Reading(b, d, mv, g) /\ g.from = mv.from
    <3>1. mv.from \in Places
      BY <1>2 DEF Squares, Places
    <3> QED BY <1>1, <2>9, <3>1 DEF Reading, Fresh, Depl
  <2> QED BY <2>10, <2>11
<1> QED BY <1>3, <1>4

\* what executing the legal move mv on board b, on behalf of d, has to give
Made(b, d, mv, e) ==
  /\ e.ok = TRUE /\ Board(e.b) /\ e.b = After(b, mv)
  /\ Fresh(d, e.d) /\ Meaning(e.d) = mv /\ IsMove(e.d)
  /\ e.d.type \in {MOVE, PRISE, GRANDROQUE, PETITROQUE}
  /\ e.d.type \in Castling \/ e.d.from \in Squares
  /\ UndoMove(e.b, e.d) = b

\* what check_move accepts: mv itself
Checked(b, d, mv, f) ==
  /\ Fresh(d, f) /\ f.from = mv.from /\ f.to = mv.to /\ f.promotion = VOID
  /\ IF mv.kind = "plain" THEN Ready(b, f, mv.from, mv.to)
     ELSE f.type = IF mv.kind = "short" THEN PETITROQUE ELSE GRANDROQUE

\* What the board tells of a move whose squares are both known.
LEMMA CompletedIs ==
  ASSUME NEW b, Board(b), NEW d \in Depl, NEW mv, mv.from \in DOMAIN b,
         NEW g, Reading(b, d, mv, g), g.from = mv.from,
         NEW h, h = Completed(b, g)
  PROVE  /\ Fresh(d, h) /\ h.from = mv.from /\ h.to = mv.to /\ h.promotion = VOID
         /\ h.piece = b[mv.from].piece /\ CURCOLOR(h) = CURCOLOR(d)
         /\ IF mv.to \in DOMAIN b THEN h.type = PRISE /\ h.prise = b[mv.to].piece
            ELSE h.type = MOVE /\ h.prise = VOID
<1>1. mv.from \in Squares /\ b[mv.from].piece \in Pieces
  BY ManIs DEF Men, Board
<1>2. g.from # Off /\ g \in Depl
  BY <1>1 DEF Squares, Off, Reading, Fresh
<1>3. PICK y : y = [g EXCEPT !.piece = b[mv.from].piece]
  OBVIOUS
<1>4. h = IF mv.to \in DOMAIN b THEN [y EXCEPT !.type = PRISE, !.prise = b[mv.to].piece]
          ELSE y
  BY <1>2, <1>3 DEF Completed, At, Reading
<1>5. /\ y \in Depl /\ y.piece = b[mv.from].piece /\ y.from = mv.from /\ y.to = mv.to
      /\ y.next = d.next /\ y.prev = d.prev /\ y.sub = d.sub /\ y.promotion = VOID
      /\ y.whiteturn = d.whiteturn /\ y.move = d.move
      /\ y.type = g.type /\ y.prise = g.prise
  BY <1>1, <1>2, <1>3 DEF Depl, Reading, Fresh
<1>6. PRISE \in Types
  BY DEF Types, PRISE, NONE, PROM_ET_PRISE
<1>7. CASE mv.to \in DOMAIN b
  <2>1. b[mv.to].piece \in Pieces
    BY <1>7, ManIs DEF Men
  <2>2. h \in Depl
    BY ZenonT(30), <1>4, <1>5, <1>6, <1>7, <2>1 DEF Depl
  <2>3. /\ h.piece = y.piece /\ h.from = y.from /\ h.to = y.to
        /\ h.next = y.next /\ h.prev = y.prev /\ h.sub = y.sub
        /\ h.promotion = y.promotion /\ h.whiteturn = y.whiteturn /\ h.move = y.move
        /\ h.type = PRISE /\ h.prise = b[mv.to].piece
    BY <1>4, <1>5, <1>7 DEF Depl
  <2> QED BY <1>5, <1>7, <2>2, <2>3 DEF Fresh, CURCOLOR
<1>8. CASE mv.to \notin DOMAIN b
  <2>1. h = y
    BY <1>4, <1>8
  <2>2. y.type = MOVE /\ y.prise = VOID
    BY <1>5, <1>8 DEF Reading
  <2> QED BY <1>5, <1>8, <2>1, <2>2 DEF Fresh, CURCOLOR
<1> QED BY <1>7, <1>8

\* A legal move is checked to be that move.
LEMMA CheckedIs ==
  ASSUME NEW b, Board(b), NEW d \in Depl, NEW mv, LegalHere(b, CURCOLOR(d), mv),
         mv.from \in DOMAIN b,
         NEW g, Reading(b, d, mv, g), g.from = mv.from
  PROVE  \E f : /\ CheckMove(b, Completed(b, g)) = [d |-> f, b |-> b, ok |-> TRUE]
                /\ Checked(b, d, mv, f)
<1>1. PICK h : h = Completed(b, g)
  OBVIOUS
<1>2. /\ Fresh(d, h) /\ h.from = mv.from /\ h.to = mv.to /\ h.promotion = VOID
      /\ h.piece = b[mv.from].piece /\ CURCOLOR(h) = CURCOLOR(d)
      /\ IF mv.to \in DOMAIN b THEN h.type = PRISE /\ h.prise = b[mv.to].piece
         ELSE h.type = MOVE /\ h.prise = VOID
  BY <1>1, CompletedIs
<1>3. h.type \notin Castling
  BY <1>2 DEF Castling, MOVE, PRISE, GRANDROQUE, PETITROQUE
<1>4. CASE mv.kind = "plain"
  <2>1. Ordinary(b, CURCOLOR(d), mv)
    BY <1>4 DEF LegalHere
  <2>2. /\ mv.to \in Squares /\ mv.from \in Squares /\ mv.from # mv.to
        /\ b[mv.from].color = CURCOLOR(d)
        /\ mv.to \in DOMAIN b => b[mv.to].color = -CURCOLOR(d)
        /\ Reaches(b, mv.from, mv.to)
    BY <2>1 DEF Ordinary, Board
  <2>3. b[mv.from] = Man(h.piece, CURCOLOR(h)) /\ h.piece \in Pieces
    BY <1>2, <2>2, ManIs DEF Men
  <2>4. KingsMove(h) = h
    <3>1. h.piece = KING => Abs(mv.to[2] - mv.from[2]) <= 1
      <4>1. b[mv.from].piece = KING => Abs(mv.to[2] - mv.from[2]) <= 1
        BY <2>2 DEF Reaches, KING, QUEEN, ROOK, BISHOP, KNIGHT, PAWN
      <4> QED BY <1>2, <4>1
    <3> QED BY <1>2, <3>1 DEF KingsMove
  <2>5. Coherent(b, h)
    <3>1. At(b, h.from) = Man(h.piece, CURCOLOR(h)) /\ At(b, h.from).color = CURCOLOR(d)
      BY <1>2, <2>2, <2>3 DEF At
    <3>2. At(b, h.to).color # CURCOLOR(d)
      BY <1>2, <2>2 DEF At, NoMan, Man, CURCOLOR, WHITE, BLACK, VOID
    <3> QED BY <1>2, <3>1, <3>2 DEF Coherent
  <2>6. ~Passes(b, h)
    <3>1. ASSUME b[mv.from].piece = PAWN, mv.to \notin DOMAIN b
          PROVE  Abs(mv.to[2] - mv.from[2]) = 0
      BY <2>2, <3>1 DEF Reaches, KING, QUEEN, ROOK, BISHOP, KNIGHT, PAWN
    <3>2. ASSUME b[mv.from].piece = PAWN, mv.to \notin DOMAIN b
          PROVE  mv.to[2] = mv.from[2]
      BY <2>2, <3>1, <3>2 DEF Abs, Squares
    <3> QED BY <1>2, <3>2 DEF Passes
  <2>7. Stands(b, h, mv)
    BY <1>2, <2>2 DEF Stands
  <2>8. Origins(b, h) # {}
    <3>1. Ordinary(b, CURCOLOR(h), mv)
      BY <1>2, <2>1
    <3>2. CASE h.piece = PAWN
      <4>1. h.prise # VOID => mv.to \in DOMAIN b
        BY <1>2
      <4> QED BY <2>7, <3>1, <3>2, <4>1, PawnOrigins
    <3>3. CASE h.piece # PAWN
      BY <2>7, <3>1, <3>3, PieceOrigins
    <3> QED BY <3>2, <3>3
  <2>9. CheckMove(b, h) = [d |-> h, b |-> b, ok |-> TRUE]
    BY <1>3, <2>4, <2>5, <2>6, <2>8 DEF CheckMove
  <2>10. Ready(b, h, mv.from, mv.to)
    <3>1. OPPCOLOR(h) = -CURCOLOR(d)
      BY <1>2 DEF OPPCOLOR, CURCOLOR, WHITE, BLACK
    <3> QED BY <1>2, <2>2, <3>1 DEF Ready
  <2>11. Checked(b, d, mv, h)
    BY <1>2, <1>4, <2>10 DEF Checked
  <2> QED BY <1>1, <2>9, <2>11
<1>5. CASE mv.kind # "plain"
  <2>1. mv.kind \in {"short", "long"} /\ mv \in Castles(b, CURCOLOR(d))
    BY <1>5 DEF LegalHere
  <2>2. PICK row : row = HomeRow(CURCOLOR(d))
    OBVIOUS
  <2>3. /\ mv.from = <<row, 5>> /\ mv.to = <<row, IF mv.kind = "short" THEN 7 ELSE 3>>
        /\ At(b, <<row, 5>>) = Man(KING, CURCOLOR(d))
        /\ IF mv.kind = "short" THEN \A col \in {6, 7} : <<row, col>> \notin DOMAIN b
           ELSE \A col \in {2, 3, 4} : <<row, col>> \notin DOMAIN b
    BY <2>1, <2>2 DEF Castles, Move
  <2>4. h.piece = KING
    BY <1>2, <2>3 DEF At, Man
  <2>5. PICK type : type = IF mv.kind = "short" THEN PETITROQUE ELSE GRANDROQUE
    OBVIOUS
  <2>6. KingsMove(h) = [h EXCEPT !.type = type]
    <3>1. CASE mv.kind = "short"
      <4>1. h.to[2] - h.from[2] = 2
        BY <1>2, <2>3, <3>1
      <4> QED BY <2>4, <2>5, <3>1, <4>1 DEF KingsMove, Abs
    <3>2. CASE mv.kind = "long"
      <4>1. h.to[2] - h.from[2] = -2
        BY <1>2, <2>3, <3>2
      <4> QED BY <2>4, <2>5, <3>2, <4>1 DEF KingsMove, Abs
    <3> QED BY <2>1, <3>1, <3>2
  <2>7. PICK k : k = [h EXCEPT !.type = type]
    OBVIOUS
  <2>8. type \in Types /\ type \in Castling
    BY <2>5 DEF Types, Castling, GRANDROQUE, PETITROQUE, NONE, PROM_ET_PRISE
  <2>9. /\ Fresh(d, k) /\ k.type = type /\ k.from = mv.from /\ k.to = mv.to
        /\ k.promotion = VOID
    BY <1>2, <2>7, <2>8 DEF Fresh, Depl
  <2>10. RoqueRow(k) = row
    BY <2>2, <2>9 DEF RoqueRow, HomeRow, CURCOLOR, Fresh, WHITE, BLACK
  <2>11. CheckRoque(b, k)
    <3>1. CASE mv.kind = "short"
      <4>1. k.type # GRANDROQUE
        BY <2>5, <2>9, <3>1 DEF GRANDROQUE, PETITROQUE
      <4> QED BY <2>3, <2>10, <3>1, <4>1 DEF CheckRoque
    <3>2. CASE mv.kind = "long"
      <4>1. \A col \in 2 .. 4 : col \in {2, 3, 4}
        OBVIOUS
      <4>2. k.type = GRANDROQUE
        BY <2>5, <2>9, <3>2
      <4> QED BY <2>3, <2>10, <3>2, <4>1, <4>2 DEF CheckRoque
    <3> QED BY <2>1, <3>1, <3>2
  <2>12. CheckMove(b, h) = [d |-> k, b |-> b, ok |-> TRUE]
    BY <2>6, <2>7, <2>8, <2>9, <2>11 DEF CheckMove
  <2>13. Checked(b, d, mv, k)
    BY <1>5, <2>5, <2>9 DEF Checked
  <2> QED BY <1>1, <2>12, <2>13
<1> QED BY <1>4, <1>5

\* A legal move leaves a board.
LEMMA AfterBoard ==
  ASSUME NEW b, Board(b), NEW c \in {WHITE, BLACK}, NEW mv, LegalHere(b, c, mv)
  PROVE  Board(After(b, mv))
<1>1. CASE mv.kind = "plain"
  <2>1. /\ mv = Move("plain", mv.from, mv.to, VOID)
        /\ mv.from \in DOMAIN b /\ mv.to \in Squares
    BY <1>1 DEF LegalHere, Ordinary
  <2>2. mv.promotion = VOID
    BY <2>1 DEF Move
  <2>3. b[mv.from] \in Men
    BY <2>1, ManIs
  <2>4. PICK x : x = Take(b, {mv.from})
    OBVIOUS
  <2>5. Board(x)
    BY <2>4, BoardOps
  <2>6. Board(Put(x, mv.to, b[mv.from]))
    BY <2>1, <2>3, <2>5, BoardOps
  <2>7. After(b, mv) = Put(x, mv.to, b[mv.from])
    BY <1>1, <2>2, <2>4 DEF After
  <2> QED BY <2>6, <2>7
<1>2. CASE mv.kind # "plain"
  <2>1. mv.kind \in {"short", "long"} /\ mv \in Castles(b, c)
    BY <1>2 DEF LegalHere
  <2>2. PICK d : d = [NewMove EXCEPT !.whiteturn = (c = WHITE),
                        !.type = IF mv.kind = "short" THEN PETITROQUE ELSE GRANDROQUE]
    OBVIOUS
  <2>3. CURCOLOR(d) = c /\ d.type = IF mv.kind = "short" THEN PETITROQUE ELSE GRANDROQUE
    BY <2>2 DEF CURCOLOR, NewMove, WHITE, BLACK
  <2>4. After(b, mv) = DoMove(b, d)
    BY <2>1, <2>3, CastlingDone
  <2>5. PICK row, king, rook, corner :
          /\ row = RoqueRow(d)
          /\ king = (IF mv.kind = "short" THEN 7 ELSE 3)
          /\ rook = (IF mv.kind = "short" THEN 6 ELSE 4)
          /\ corner = (IF mv.kind = "short" THEN 8 ELSE 1)
    OBVIOUS
  <2>6. PICK x : x = Put(b, <<row, king>>, Man(KING, c))
    OBVIOUS
  <2>7. PICK y : y = Put(x, <<row, rook>>, Man(ROOK, c))
    OBVIOUS
  <2>8. PICK z : z = Take(y, {<<row, 5>>})
    OBVIOUS
  <2>9. DoMove(b, d) = Take(z, {<<row, corner>>})
    <3>1. CASE mv.kind = "short"
      BY <2>3, <2>5, <2>6, <2>7, <2>8, <3>1 DEF DoMove, SetBoard, ClsBoard, MOVE, PRISE,
         GRANDROQUE, PETITROQUE, EN_PASSANT, PROMOTION, PROM_ET_PRISE, KING, ROOK, VOID
    <3>2. CASE mv.kind = "long"
      BY <2>3, <2>5, <2>6, <2>7, <2>8, <3>2 DEF DoMove, SetBoard, ClsBoard, MOVE, PRISE,
         GRANDROQUE, PETITROQUE, EN_PASSANT, PROMOTION, PROM_ET_PRISE, KING, ROOK, VOID
    <3> QED BY <2>1, <3>1, <3>2
  <2>10. /\ <<row, king>> \in Squares /\ <<row, rook>> \in Squares
         /\ Man(KING, c) \in Men /\ Man(ROOK, c) \in Men
    BY <2>5 DEF Squares, Man, Men, RoqueRow, Pieces, KING, ROOK, PAWN
  <2>11. Board(x)
    BY <2>6, <2>10, BoardOps
  <2>12. Board(y)
    BY <2>7, <2>10, <2>11, BoardOps
  <2>13. Board(z)
    BY <2>8, <2>12, BoardOps
  <2>14. Board(Take(z, {<<row, corner>>}))
    BY <2>13, BoardOps
  <2> QED BY <2>4, <2>9, <2>14
<1> QED BY <1>1, <1>2

\* The squares of a legal move.
LEMMA LegalSquares ==
  ASSUME NEW b, Board(b), NEW c \in {WHITE, BLACK}, NEW mv, LegalHere(b, c, mv)
  PROVE  mv.from \in DOMAIN b /\ mv.from \in Squares /\ mv.to \in Squares
<1>1. CASE mv.kind = "plain"
  BY <1>1 DEF LegalHere, Ordinary, Board
<1>2. CASE mv.kind # "plain"
  <2>1. mv \in Castles(b, c)
    BY <1>2 DEF LegalHere
  <2>2. PICK row : row = HomeRow(c)
    OBVIOUS
  <2>3. /\ mv.from = <<row, 5>> /\ mv.to \in {<<row, 7>>, <<row, 3>>}
        /\ At(b, mv.from) = Man(KING, c) /\ row \in 1 .. 8
    BY <2>1, <2>2 DEF Castles, Move, HomeRow
  <2>4. mv.from \in DOMAIN b
    BY <2>3 DEF At, NoMan, Man, KING, VOID
  <2> QED BY <2>3, <2>4 DEF Squares
<1> QED BY <1>1, <1>2

\* Castling executed: the row is noted, the board is the one after it.
LEMMA CastlingMade ==
  ASSUME NEW b, Board(b), NEW d \in Depl, NEW mv, LegalHere(b, CURCOLOR(d), mv),
         mv.kind \in {"short", "long"},
         NEW f, Fresh(d, f), f.type = IF mv.kind = "short" THEN PETITROQUE ELSE GRANDROQUE
  PROVE  Made(b, d, mv, [d |-> [f EXCEPT !.from[1] = RoqueRow(f)],
                         b |-> DoMove(b, f), ok |-> TRUE])
<1>1. PICK g, e : /\ g = [f EXCEPT !.from[1] = RoqueRow(f)]
                  /\ e = [d |-> g, b |-> DoMove(b, f), ok |-> TRUE]
  OBVIOUS
<1>2. f \in Depl /\ f.from \in Places /\ RoqueRow(f) \in {1, 8}
  BY DEF Fresh, Depl, RoqueRow
<1>3. PICK p, q \in 0 .. 8 : f.from = <<p, q>>
  BY <1>2 DEF Places
<1>4. g = [f EXCEPT !.from = <<RoqueRow(f), q>>]
  BY <1>1, <1>3
<1>5. <<RoqueRow(f), q>> \in Places
  BY <1>2, <1>3 DEF Places
<1>6. /\ g \in Depl /\ g.from = <<RoqueRow(f), q>> /\ g.type = f.type
      /\ g.whiteturn = d.whiteturn /\ Fresh(d, g)
  BY <1>2, <1>4, <1>5 DEF Depl, Fresh
<1>7. /\ CURCOLOR(g) = CURCOLOR(d) /\ CURCOLOR(f) = CURCOLOR(d)
      /\ RoqueRow(f) = HomeRow(CURCOLOR(d)) /\ CURCOLOR(d) \in {WHITE, BLACK}
  BY <1>6 DEF Fresh, CURCOLOR, RoqueRow, HomeRow, WHITE, BLACK
<1>8. mv \in Castles(b, CURCOLOR(d))
  BY DEF LegalHere
<1>9. DoMove(b, f) = After(b, mv)
  BY <1>7, <1>8, CastlingDone
<1>10. UndoMove(After(b, mv), g) = b
  BY <1>6, <1>7, <1>8, CastlingDone
<1>11. Board(After(b, mv))
  BY <1>7, AfterBoard
<1>12. Meaning(g) = mv
  <2>1. PICK row : row = RoqueRow(f)
    OBVIOUS
  <2>2. g.from[1] = row
    BY <1>6, <2>1
  <2>3. mv = IF mv.kind = "short" THEN Move("short", <<row, 5>>, <<row, 7>>, VOID)
             ELSE Move("long", <<row, 5>>, <<row, 3>>, VOID)
    BY <1>7, <1>8, <2>1 DEF Castles, Move
  <2>4. CASE mv.kind = "short"
    <3>1. g.type = PETITROQUE
      BY <1>6, <2>4
    <3> QED BY <2>2, <2>3, <2>4, <3>1 DEF Meaning, GRANDROQUE, PETITROQUE, EN_PASSANT
  <2>5. CASE mv.kind # "short"
    <3>1. g.type = GRANDROQUE
      BY <1>6, <2>5
    <3> QED BY <2>2, <2>3, <2>5, <3>1 DEF Meaning, GRANDROQUE, PETITROQUE, EN_PASSANT
  <2> QED BY <2>4, <2>5
<1>13. IsMove(g)
  BY <1>2, <1>6 DEF IsMove, Off
<1>14. g.type \in Castling /\ g.type \in {MOVE, PRISE, GRANDROQUE, PETITROQUE}
  BY <1>6 DEF Castling
<1>15. e.d = g /\ e.b = After(b, mv) /\ e.ok = TRUE
  BY <1>1, <1>9
<1>16. Made(b, d, mv, e)
  BY <1>6, <1>10, <1>11, <1>12, <1>13, <1>14, <1>15 DEF Made
<1> QED BY <1>1, <1>16

\* A plain move executed.
LEMMA PlainMade ==
  ASSUME NEW b, Board(b), NEW d \in Depl, NEW mv, LegalHere(b, CURCOLOR(d), mv),
         mv.kind = "plain", NEW f, Checked(b, d, mv, f)
  PROVE  Made(b, d, mv, [d |-> f, b |-> DoMove(UndoMove(DoMove(b, f), f), f), ok |-> TRUE])
<1>1. PICK e : e = [d |-> f, b |-> DoMove(UndoMove(DoMove(b, f), f), f), ok |-> TRUE]
  OBVIOUS
<1>2. /\ Ready(b, f, mv.from, mv.to) /\ Fresh(d, f) /\ f.from = mv.from
      /\ f.to = mv.to /\ f.promotion = VOID
  BY DEF Checked
<1>3. /\ mv = Move("plain", mv.from, mv.to, VOID) /\ mv.from \in DOMAIN b
      /\ mv.to \in Squares /\ mv.from # mv.to /\ mv.from \in Squares
  BY DEF LegalHere, Ordinary, Board
<1>4. /\ DoMove(b, f) = Put(Take(b, {mv.from}), mv.to, b[mv.from])
      /\ UndoMove(DoMove(b, f), f) = b
  BY <1>2, <1>3, PlainDone
<1>5. mv.promotion = VOID
  BY <1>3 DEF Move
<1>6. DoMove(b, f) = After(b, mv)
  BY <1>4, <1>5 DEF After
<1>7. f.type \in {MOVE, PRISE}
  BY <1>2 DEF Ready
<1>8. Meaning(f) = mv
  BY <1>2, <1>3, <1>7 DEF Meaning, MOVE, PRISE, GRANDROQUE, PETITROQUE, EN_PASSANT
<1>9. IsMove(f) /\ f.from \in Squares
  BY <1>2, <1>3 DEF IsMove, Off, Squares
<1>10. CURCOLOR(d) \in {WHITE, BLACK}
  BY DEF CURCOLOR
<1>11. Board(After(b, mv))
  BY <1>10, AfterBoard
<1>12. e.d = f /\ e.b = After(b, mv) /\ e.ok = TRUE /\ UndoMove(e.b, f) = b
  BY <1>1, <1>4, <1>6
<1>13. Made(b, d, mv, e)
  BY <1>2, <1>7, <1>8, <1>9, <1>11, <1>12 DEF Made
<1> QED BY <1>1, <1>13

\* A legal move is executed from any token that names it alone.
LEMMA TokenMade ==
  ASSUME NEW b, Board(b), NEW d \in Depl, NEW mv, LegalHere(b, CURCOLOR(d), mv),
         NEW t, Token(b, mv, t)
  PROVE  Made(b, d, mv, Executed(b, Parsed(d, t)))
<1>1. mv.from \in DOMAIN b /\ mv.from \in Squares /\ mv.to \in Squares
  <2>1. CURCOLOR(d) \in {WHITE, BLACK}
    BY DEF CURCOLOR
  <2> QED BY <2>1, LegalSquares
<1>2. PICK p, x : p = Parsed(d, t) /\ x = Lettered(p)
  OBVIOUS
<1>3. PICK g : /\ GuessMove(b, x) = [d |-> g, ok |-> TRUE]
               /\ Reading(b, d, mv, g) /\ g.from = mv.from
  BY <1>1, <1>2, TokenGuessed
<1>4. PICK f : /\ CheckMove(b, Completed(b, g)) = [d |-> f, b |-> b, ok |-> TRUE]
               /\ Checked(b, d, mv, f)
  BY <1>1, <1>3, CheckedIs
<1>5. Executed(b, p) =
        [d |-> IF f.type \in Castling THEN [f EXCEPT !.from[1] = RoqueRow(f)] ELSE f,
         b |-> IF f.type \in Castling THEN DoMove(b, f)
               ELSE DoMove(UndoMove(DoMove(b, f), f), f),
         ok |-> TRUE]
  <2>1. PICK guess : guess = GuessMove(b, x)
    OBVIOUS
  <2>2. guess.d = g /\ guess.ok = TRUE
    BY <1>3, <2>1
  <2>3. PICK check : check = CheckMove(b, Completed(b, guess.d))
    OBVIOUS
  <2>4. check.d = f /\ check.b = b /\ check.ok = TRUE
    BY <1>4, <2>2, <2>3
  <2>5. Executed(b, p) =
          [d |-> IF check.d.type \in Castling
                 THEN [check.d EXCEPT !.from[1] = RoqueRow(check.d)] ELSE check.d,
           b |-> IF check.d.type \in Castling THEN DoMove(check.b, check.d)
                 ELSE DoMove(UndoMove(DoMove(check.b, check.d), check.d), check.d),
           ok |-> guess.ok /\ check.ok]
    BY <1>2, <2>1, <2>3, Zenon DEF Executed, Lettered
  <2> QED BY <2>2, <2>4, <2>5
<1>6. CASE mv.kind = "plain"
  <2>1. f.type \notin Castling
    BY <1>4, <1>6 DEF Checked, Ready, Castling, MOVE, PRISE, GRANDROQUE, PETITROQUE
  <2>2. Executed(b, p) =
          [d |-> f, b |-> DoMove(UndoMove(DoMove(b, f), f), f), ok |-> TRUE]
    BY <1>5, <2>1
  <2> QED BY <1>2, <1>4, <1>6, <2>2, PlainMade
<1>7. CASE mv.kind # "plain"
  <2>1. /\ f.type = IF mv.kind = "short" THEN PETITROQUE ELSE GRANDROQUE
        /\ Fresh(d, f) /\ mv.kind \in {"short", "long"}
    BY <1>4, <1>7 DEF Checked, LegalHere
  <2>2. f.type \in Castling
    BY <2>1 DEF Castling
  <2>3. Executed(b, p) =
          [d |-> [f EXCEPT !.from[1] = RoqueRow(f)], b |-> DoMove(b, f), ok |-> TRUE]
    BY <1>5, <2>2
  <2> QED BY <1>2, <2>1, <2>3, CastlingMade
<1> QED BY <1>6, <1>7

\* And castling from its own token, that names no square.
LEMMA RoqueMade ==
  ASSUME NEW b, Board(b), NEW d \in Depl, NEW mv, LegalHere(b, CURCOLOR(d), mv),
         mv.kind \in {"short", "long"},
         NEW type, type = IF mv.kind = "short" THEN PETITROQUE ELSE GRANDROQUE
  PROVE  Made(b, d, mv, Executed(b, [InitParse(d) EXCEPT !.type = type]))
<1>1. PICK p, x : p = [InitParse(d) EXCEPT !.type = type] /\ x = Lettered(p)
  OBVIOUS
<1>2. type \in Types /\ type \in Castling
  BY DEF Types, Castling, GRANDROQUE, PETITROQUE, NONE, PROM_ET_PRISE
<1>3. /\ p \in Depl /\ p.type = type /\ p.piece = VOID /\ p.from = Off /\ p.to = Off
      /\ p.next = d.next /\ p.prev = d.prev /\ p.sub = d.sub
      /\ p.whiteturn = d.whiteturn /\ p.move = d.move
  <2>1. Off \in Places
    BY DEF Off, Places
  <2> QED BY <1>1, <1>2, <2>1 DEF Depl, InitParse
<1>4. x = [p EXCEPT !.piece = PAWN]
  BY <1>1, <1>3 DEF Lettered
<1>5. PAWN \in Pieces
  BY DEF Pieces, KING, PAWN
<1>6. /\ Fresh(d, x) /\ x.type = type /\ x.piece = PAWN /\ x.from = Off /\ x.to = Off
  BY <1>3, <1>4, <1>5 DEF Depl, Fresh
<1>7. GuessMove(b, x) = [d |-> x, ok |-> TRUE]
  BY <1>2, <1>6 DEF GuessMove
<1>8. Completed(b, x) = x
  <2>1. Off \notin DOMAIN b
    BY DEF Board, Squares, Off
  <2> QED BY <1>6, <2>1 DEF Completed
<1>9. KingsMove(x) = x
  BY <1>6 DEF KingsMove, KING, PAWN
<1>10. CheckRoque(b, x)
  <2>1. PICK row : row = HomeRow(CURCOLOR(d))
    OBVIOUS
  <2>2. RoqueRow(x) = row
    BY <1>6, <2>1 DEF RoqueRow, HomeRow, CURCOLOR, Fresh, WHITE, BLACK
  <2>3. mv \in Castles(b, CURCOLOR(d))
    BY DEF LegalHere
  <2>4. IF mv.kind = "short" THEN \A col \in {6, 7} : <<row, col>> \notin DOMAIN b
        ELSE \A col \in {2, 3, 4} : <<row, col>> \notin DOMAIN b
    BY <2>1, <2>3 DEF Castles, Move
  <2>5. CASE mv.kind = "short"
    <3>1. x.type # GRANDROQUE
      BY <1>6, <2>5 DEF GRANDROQUE, PETITROQUE
    <3> QED BY <2>2, <2>4, <2>5, <3>1 DEF CheckRoque
  <2>6. CASE mv.kind = "long"
    <3>1. \A col \in 2 .. 4 : col \in {2, 3, 4}
      OBVIOUS
    <3>2. x.type = GRANDROQUE
      BY <1>6, <2>6
    <3> QED BY <2>2, <2>4, <2>6, <3>1, <3>2 DEF CheckRoque
  <2> QED BY <2>5, <2>6
<1>11. CheckMove(b, x) = [d |-> x, b |-> b, ok |-> TRUE]
  BY <1>2, <1>6, <1>9, <1>10 DEF CheckMove
<1>12. Executed(b, p) =
         [d |-> [x EXCEPT !.from[1] = RoqueRow(x)], b |-> DoMove(b, x), ok |-> TRUE]
  <2>1. PICK guess : guess = GuessMove(b, x)
    OBVIOUS
  <2>2. guess.d = x /\ guess.ok = TRUE
    BY <1>7, <2>1
  <2>3. PICK check : check = CheckMove(b, Completed(b, guess.d))
    OBVIOUS
  <2>4. check.d = x /\ check.b = b /\ check.ok = TRUE
    BY <1>8, <1>11, <2>2, <2>3
  <2>5. Executed(b, p) =
          [d |-> IF check.d.type \in Castling
                 THEN [check.d EXCEPT !.from[1] = RoqueRow(check.d)] ELSE check.d,
           b |-> IF check.d.type \in Castling THEN DoMove(check.b, check.d)
                 ELSE DoMove(UndoMove(DoMove(check.b, check.d), check.d), check.d),
           ok |-> guess.ok /\ check.ok]
    BY <1>1, <2>1, <2>3, Zenon DEF Executed, Lettered
  <2> QED BY <1>2, <1>6, <2>2, <2>4, <2>5
<1> QED BY <1>1, <1>6, <1>12, CastlingMade

-----------------------------------------------------------------------------
(* The board that a header sets up.                                        *)
\* what the token t adds to what those before it have set up
SetupBy(t, before) ==
  CASE t.keyword = "clearboard"  -> [before EXCEPT !.board = [s \in {} |-> NoMan]]
    [] t.keyword = "default"     -> [before EXCEPT !.board = Standard]
    [] t.keyword = "configwhite" -> [before EXCEPT !.side = WHITE]
    [] t.keyword = "configblack" -> [before EXCEPT !.side = BLACK]
    [] t.keyword = "" ->
         LET man == IF t.piece = VOID THEN PAWN ELSE t.piece
         IN  [before EXCEPT !.board = Put(@, t.to, Man(man, before.side))]
    [] OTHER -> before
SetupAt(header, after, k) ==
  IF k = 0 THEN [board |-> Standard, side |-> VOID]
  ELSE SetupBy(header[k], after[k - 1])

\* The equations of a header have a solution: Setup.
LEMMA SetupIs ==
  ASSUME NEW h, Len(h) \in Nat
  PROVE  \A k \in 0 .. Len(h) : Setup(h)[k] = SetupAt(h, Setup(h), k)
<1> DEFINE N == Len(h)
           Sol(n, f) == f = [k \in 0 .. n |-> SetupAt(h, f, k)]
           Bad == {n \in 0 .. N : \A f : ~Sol(n, f)}
<1>1. ASSUME Bad # {} PROVE FALSE
  <2>1. PICK n \in Bad : \A j \in Bad : n <= j
    <3>1. Bad \subseteq Nat
      OBVIOUS
    <3> HIDE DEF Bad
    <3> QED BY <1>1, <3>1, LeastOf
  <2>2. n \in 0 .. N /\ \A f : ~Sol(n, f)
    BY <2>1
  <2>3. CASE n = 0
    <3>1. PICK f : f = [k \in 0 .. 0 |-> [board |-> Standard, side |-> VOID]]
      OBVIOUS
    <3>2. \A k \in 0 .. 0 : SetupAt(h, f, k) = [board |-> Standard, side |-> VOID]
      BY DEF SetupAt
    <3>3. Sol(0, f)
      BY <3>1, <3>2
    <3> QED BY <2>2, <2>3, <3>3
  <2>4. CASE n # 0
    <3>1. n - 1 \in 0 .. N /\ n - 1 \notin Bad
      BY <2>1, <2>2, <2>4
    <3>2. PICK f : Sol(n - 1, f)
      BY <3>1
    <3>3. PICK g : g = [k \in 0 .. n |-> IF k = n THEN SetupBy(h[n], f[n - 1]) ELSE f[k]]
      OBVIOUS
    <3>4. \A k \in 0 .. n : g[k] = SetupAt(h, g, k)
      <4> SUFFICES ASSUME NEW k \in 0 .. n PROVE g[k] = SetupAt(h, g, k)
        OBVIOUS
      <4>1. CASE k = n
        <5>1. g[k] = SetupBy(h[n], f[n - 1]) /\ g[n - 1] = f[n - 1]
          BY <2>2, <2>4, <3>3, <4>1
        <5> QED BY <2>4, <4>1, <5>1 DEF SetupAt
      <4>2. CASE k # n
        <5>1. k \in 0 .. n - 1 /\ g[k] = f[k] /\ (k # 0 => g[k - 1] = f[k - 1])
          BY <2>2, <3>3, <4>2
        <5>2. f[k] = SetupAt(h, f, k)
          BY <3>2, <5>1
        <5> QED BY <5>1, <5>2 DEF SetupAt
      <4> QED BY <4>1, <4>2
    <3>5. Sol(n, g)
      BY <3>3, <3>4
    <3> QED BY <2>2, <3>5
  <2> QED BY <2>3, <2>4
<1>2. PICK f : Sol(N, f)
  <2>1. N \in 0 .. N /\ N \notin Bad
    BY <1>1
  <2> QED BY <2>1
<1>3. Setup(h) = CHOOSE g : g = [k \in 0 .. Len(h) |-> SetupAt(h, g, k)]
  BY Zenon DEF Setup, SetupAt, SetupBy
<1>4. Setup(h) = [k \in 0 .. Len(h) |-> SetupAt(h, Setup(h), k)]
  BY <1>2, <1>3, Zenon
<1> QED BY <1>4

-----------------------------------------------------------------------------
(* How the tree of moves grows.                                            *)
Nodes(ns) ==
  /\ ns \in Seq(Depl)
  /\ \A n \in DOMAIN ns :
       LET d == ns[n]
       IN  /\ {d.next, d.prev, d.sub} \subseteq 0 .. Len(ns)
           /\ IsMove(d) => d.type \in Castling \/ d.from \in Squares
           /\ d.type = NONE => ~IsMove(d)

\* node k of ns now links to the node that is to come
LinkedTo(ns, k, ns1) == \/ ns1 = [ns EXCEPT ![k].next = Len(ns) + 1]
                      \/ ns1 = [ns EXCEPT ![k].sub = Len(ns) + 1]

\* d is a new node, and ns2 is ns with it
Addable(ns, d) ==
  /\ d \in Depl /\ d.next = NULL /\ d.sub = NULL /\ d.prev \in DOMAIN ns
  /\ IsMove(d) => d.type \in Castling \/ d.from \in Squares
  /\ d.type = NONE => ~IsMove(d)
GrownBy(ns, d, ns2) ==
  /\ Nodes(ns2) /\ Linked(ns2) /\ Extends(ns, ns2)
  /\ Len(ns2) = Len(ns) + 1 /\ ns2[Len(ns2)] = d
  /\ (Blank(ns) /\ d.type = MOVE /\ d.from = Off) => Blank(ns2)

\* A node is added after another one, as its next move or as a variation.
LEMMA Grown ==
  ASSUME NEW ns, Nodes(ns), Linked(ns), NEW k, NEW d, Addable(ns, d),
         NEW ns1, LinkedTo(ns, k, ns1), NEW ns2, ns2 = Append(ns1, d)
  PROVE  GrownBy(ns, d, ns2)
<1>0. /\ d \in Depl /\ d.next = NULL /\ d.sub = NULL /\ d.prev \in DOMAIN ns
      /\ IsMove(d) => d.type \in Castling \/ d.from \in Squares
      /\ d.type = NONE => ~IsMove(d)
  BY DEF Addable
<1>1. PICK N \in Nat : N = Len(ns) /\ DOMAIN ns = 1 .. N
  BY DEF Nodes
<1>2. \A n \in DOMAIN ns : ns[n] \in Depl
  BY DEF Nodes
<1>3. /\ ns1 \in Seq(Depl) /\ Len(ns1) = N /\ DOMAIN ns1 = 1 .. N
      /\ \A n \in 1 .. N :
           /\ ns1[n].prev = ns[n].prev /\ ns1[n].type = ns[n].type
           /\ ns1[n].from = ns[n].from /\ ns1[n].to = ns[n].to
           /\ ns1[n].piece = ns[n].piece /\ ns1[n].prise = ns[n].prise
           /\ ns1[n].promotion = ns[n].promotion
           /\ ns1[n].whiteturn = ns[n].whiteturn /\ ns1[n].move = ns[n].move
           /\ ns1[n].next \in {ns[n].next, N + 1} /\ ns1[n].sub \in {ns[n].sub, N + 1}
  <2>1. /\ DOMAIN ns1 = 1 .. N
        /\ \A n \in 1 .. N : ns1[n] \in {ns[n], [ns[n] EXCEPT !.next = N + 1],
                                         [ns[n] EXCEPT !.sub = N + 1]}
    BY <1>1, <1>2 DEF Nodes, LinkedTo
  <2>2. \A n \in 1 .. N :
          /\ ns1[n] \in Depl
          /\ ns1[n].prev = ns[n].prev /\ ns1[n].type = ns[n].type
          /\ ns1[n].from = ns[n].from /\ ns1[n].to = ns[n].to
          /\ ns1[n].piece = ns[n].piece /\ ns1[n].prise = ns[n].prise
          /\ ns1[n].promotion = ns[n].promotion
          /\ ns1[n].whiteturn = ns[n].whiteturn /\ ns1[n].move = ns[n].move
          /\ ns1[n].next \in {ns[n].next, N + 1} /\ ns1[n].sub \in {ns[n].sub, N + 1}
    <3> DEFINE Like(x, y) ==
                 /\ y \in Depl
                 /\ y.prev = x.prev /\ y.type = x.type
                 /\ y.from = x.from /\ y.to = x.to
                 /\ y.piece = x.piece /\ y.prise = x.prise
                 /\ y.promotion = x.promotion
                 /\ y.whiteturn = x.whiteturn /\ y.move = x.move
                 /\ y.next \in {x.next, N + 1} /\ y.sub \in {x.sub, N + 1}
    <3>1. ASSUME NEW x \in Depl, NEW v \in Nat, v = N + 1, NEW y,
                 y \in {x, [x EXCEPT !.next = v], [x EXCEPT !.sub = v]}
          PROVE  Like(x, y)
      <4>1. CASE y = x
        BY <3>1, <4>1
      <4>2. CASE y = [x EXCEPT !.next = v]
        BY <3>1, <4>2 DEF Depl
      <4>3. CASE y = [x EXCEPT !.sub = v]
        BY <3>1, <4>3 DEF Depl
      <4> QED BY <3>1, <4>1, <4>2, <4>3
    <3>2. N + 1 \in Nat
      BY <1>1
    <3> HIDE DEF Like
    <3>3. \A n \in 1 .. N : Like(ns[n], ns1[n])
      BY <1>1, <1>2, <2>1, <3>1, <3>2
    <3> QED BY <3>3 DEF Like
  <2>3. ns1 \in Seq(Depl) /\ Len(ns1) = N
    <3>1. ns1 = [n \in 1 .. N |-> ns1[n]]
      BY <1>1 DEF Nodes, LinkedTo
    <3>2. ns1 \in [1 .. N -> Depl]
      BY <2>2, <3>1
    <3> QED BY <3>2
  <2> QED BY <2>1, <2>2, <2>3
<1>4. /\ ns2 \in Seq(Depl) /\ Len(ns2) = N + 1 /\ ns2[N + 1] = d
      /\ \A n \in 1 .. N : ns2[n] = ns1[n]
      /\ DOMAIN ns2 = 1 .. N + 1
  <2> HIDE DEF Depl
  <2> QED BY <1>0, <1>3
<1>5. Extends(ns, ns2)
  BY <1>1, <1>3, <1>4 DEF Extends
<1>6. Linked(ns2)
  <2> SUFFICES ASSUME NEW n \in 1 .. N + 1
               PROVE  ns2[n].prev \in 0 .. n - 1 /\ (ns2[n].type = NONE => ns2[n].prev # NULL)
    BY <1>4 DEF Linked
  <2>1. CASE n \in 1 .. N
    BY <1>1, <1>3, <1>4, <2>1 DEF Linked
  <2>2. CASE n = N + 1
    <3>1. d.prev \in 1 .. N
      BY <1>0, <1>1
    <3> QED BY <1>0, <1>1, <1>4, <2>2, <3>1 DEF NULL
  <2>3. n \in 1 .. N \/ n = N + 1
    BY <1>1
  <2> QED BY <2>1, <2>2, <2>3
<1>7. Nodes(ns2)
  <2> SUFFICES ASSUME NEW n \in 1 .. N + 1
               PROVE  /\ {ns2[n].next, ns2[n].prev, ns2[n].sub} \subseteq 0 .. N + 1
                      /\ IsMove(ns2[n]) => ns2[n].type \in Castling \/ ns2[n].from \in Squares
                      /\ ns2[n].type = NONE => ~IsMove(ns2[n])
    BY <1>4 DEF Nodes
  <2>1. CASE n \in 1 .. N
    <3>1. /\ {ns[n].next, ns[n].prev, ns[n].sub} \subseteq 0 .. N
          /\ IsMove(ns[n]) => ns[n].type \in Castling \/ ns[n].from \in Squares
          /\ ns[n].type = NONE => ~IsMove(ns[n])
      BY <1>1, <2>1 DEF Nodes
    <3>2. IsMove(ns2[n]) = IsMove(ns[n])
      BY <1>3, <1>4, <2>1 DEF IsMove
    <3> QED BY <1>3, <1>4, <2>1, <3>1, <3>2
  <2>2. CASE n = N + 1
    <3>1. d.prev \in 1 .. N
      BY <1>0, <1>1
    <3> QED BY <1>0, <1>1, <1>4, <2>2, <3>1 DEF NULL
  <2>3. n \in 1 .. N \/ n = N + 1
    BY <1>1
  <2> QED BY <2>1, <2>2, <2>3
<1>8. ASSUME Blank(ns), d.type = MOVE, d.from = Off PROVE Blank(ns2)
  <2> SUFFICES ASSUME NEW n \in 1 .. N + 1 PROVE ns2[n].type = MOVE /\ ns2[n].from = Off
    BY <1>4 DEF Blank
  <2>1. CASE n \in 1 .. N
    BY <1>1, <1>3, <1>4, <1>8, <2>1 DEF Blank
  <2> QED BY <1>4, <1>8, <2>1
<1> QED BY <1>1, <1>4, <1>5, <1>6, <1>7, <1>8 DEF GrownBy

\* Keywords number the current node, or leave the first node alone.
LEMMA Renumbered ==
  ASSUME NEW ns, Nodes(ns), Linked(ns), Blank(ns), NEW k \in DOMAIN ns,
         NEW w \in BOOLEAN, NEW v \in Nat,
         NEW ns2, \/ ns2 = [ns EXCEPT ![k].move = v, ![k].whiteturn = w]
                  \/ ns2 = <<[ns[1] EXCEPT !.next = NULL, !.sub = NULL]>>
  PROVE  Nodes(ns2) /\ Linked(ns2) /\ Blank(ns2)
<1>1. PICK N \in Nat : N = Len(ns) /\ DOMAIN ns = 1 .. N
  BY DEF Nodes
<1>2. 1 \in DOMAIN ns /\ N >= 1
  BY <1>1
<1>3. \A n \in DOMAIN ns : ns[n] \in Depl /\ ns[n].type = MOVE /\ ns[n].from = Off
  BY DEF Nodes, Blank
<1>4. \A n \in DOMAIN ns : ns[n].prev \in 0 .. n - 1
  BY DEF Linked
<1>5. \A n \in DOMAIN ns : {ns[n].next, ns[n].prev, ns[n].sub} \subseteq 0 .. N
  BY <1>1 DEF Nodes
<1> DEFINE Shape(M) ==
             /\ ns2 \in Seq(Depl) /\ Len(ns2) = M /\ DOMAIN ns2 = 1 .. M /\ M <= N
             /\ \A n \in 1 .. M : /\ ns2[n].type = MOVE /\ ns2[n].from = Off
                                  /\ ns2[n].prev = ns[n].prev
                                  /\ ns2[n].next \in {ns[n].next, NULL}
                                  /\ ns2[n].sub \in {ns[n].sub, NULL}
             /\ M = N \/ (M = 1 /\ ns2[1].next = NULL /\ ns2[1].sub = NULL)
<1>6. PICK M \in Nat : Shape(M)
  <2>1. CASE ns2 = [ns EXCEPT ![k].move = v, ![k].whiteturn = w]
    <3>1. /\ DOMAIN ns2 = 1 .. N
          /\ \A n \in 1 .. N : ns2[n] \in {ns[n], [ns[n] EXCEPT !.move = v, !.whiteturn = w]}
      <4>1. ns2 = [n \in 1 .. N |-> IF n = k THEN [ns[n] EXCEPT !.move = v, !.whiteturn = w]
                                    ELSE ns[n]]
        BY <1>1, <1>3, <2>1 DEF Nodes, Depl
      <4> QED BY <4>1
    <3>2. \A n \in 1 .. N : /\ ns2[n] \in Depl /\ ns2[n].type = MOVE /\ ns2[n].from = Off
                            /\ ns2[n].prev = ns[n].prev /\ ns2[n].next = ns[n].next
                            /\ ns2[n].sub = ns[n].sub
      <4> DEFINE Like(x, y) ==
                   /\ y \in Depl /\ y.type = x.type /\ y.from = x.from
                   /\ y.prev = x.prev /\ y.next = x.next /\ y.sub = x.sub
      <4>1. ASSUME NEW x \in Depl, NEW y, y \in {x, [x EXCEPT !.move = v, !.whiteturn = w]}
            PROVE  Like(x, y)
        BY <4>1 DEF Depl
      <4> HIDE DEF Like
      <4>2. \A n \in 1 .. N : Like(ns[n], ns2[n])
        <5> SUFFICES ASSUME NEW n \in 1 .. N PROVE Like(ns[n], ns2[n])
          OBVIOUS
        <5>1. PICK x : x = ns[n]
          OBVIOUS
        <5>2. PICK y : y = ns2[n]
          OBVIOUS
        <5>3. x \in Depl /\ y \in {x, [x EXCEPT !.move = v, !.whiteturn = w]}
          BY <1>1, <1>3, <3>1, <5>1, <5>2
        <5> QED BY <4>1, <5>1, <5>2, <5>3
      <4> QED BY <1>1, <1>3, <4>2 DEF Like
    <3>3. ns2 \in Seq(Depl) /\ Len(ns2) = N
      <4>1. ns2 = [n \in 1 .. N |-> ns2[n]]
        BY <1>1, <2>1 DEF Nodes
      <4>2. ns2 \in [1 .. N -> Depl]
        BY <3>2, <4>1
      <4> QED BY <4>2
    <3>4. Shape(N)
      <4>1. ns2 \in Seq(Depl) /\ Len(ns2) = N /\ DOMAIN ns2 = 1 .. N /\ N <= N
        <5>1. DOMAIN ns2 = 1 .. N
          BY <3>1
        <5>2. N <= N
          BY <1>1
        <5> QED BY <3>3, <5>1, <5>2
      <4>2. \A n \in 1 .. N : /\ ns2[n].type = MOVE /\ ns2[n].from = Off
                              /\ ns2[n].prev = ns[n].prev
                              /\ ns2[n].next \in {ns[n].next, NULL}
                              /\ ns2[n].sub \in {ns[n].sub, NULL}
        BY <3>2
      <4> QED BY <4>1, <4>2
    <3> HIDE DEF Shape
    <3> QED BY <1>1, <3>4
  <2>2. CASE ns2 = <<[ns[1] EXCEPT !.next = NULL, !.sub = NULL]>>
    <3>1. PICK x \in Depl : x = ns[1] /\ x.type = MOVE /\ x.from = Off
      BY <1>2, <1>3
    <3>2. PICK y : y = [x EXCEPT !.next = NULL, !.sub = NULL]
      OBVIOUS
    <3>3. /\ y \in Depl /\ y.type = x.type /\ y.from = x.from /\ y.prev = x.prev
          /\ y.next = NULL /\ y.sub = NULL
      BY <3>2 DEF Depl, NULL
    <3>4. ns2 = <<y>>
      BY <2>2, <3>1, <3>2
    <3>5. ns2 \in Seq(Depl) /\ Len(ns2) = 1 /\ DOMAIN ns2 = 1 .. 1 /\ ns2[1] = y
      <4> HIDE DEF Depl
      <4> QED BY <3>3, <3>4
    <3>6. Shape(1)
      BY <1>1, <1>2, <3>1, <3>3, <3>5
    <3> HIDE DEF Shape
    <3> QED BY <3>6
  <2> QED BY <2>1, <2>2
<1>7. Linked(ns2)
  BY <1>1, <1>4, <1>6 DEF Linked, NONE, MOVE
<1>8. Blank(ns2)
  BY <1>6 DEF Blank
<1>9. Nodes(ns2)
  <2> SUFFICES ASSUME NEW n \in 1 .. M
               PROVE  /\ {ns2[n].next, ns2[n].prev, ns2[n].sub} \subseteq 0 .. M
                      /\ ~IsMove(ns2[n])
    BY <1>6 DEF Nodes
  <2>1. ~IsMove(ns2[n])
    BY <1>6 DEF IsMove
  <2>2. CASE M = N
    <3>1. {ns[n].next, ns[n].prev, ns[n].sub} \subseteq 0 .. N
      BY <1>1, <1>5, <2>2
    <3> QED BY <1>6, <2>1, <2>2, <3>1 DEF NULL
  <2>3. CASE M = 1 /\ ns2[1].next = NULL /\ ns2[1].sub = NULL
    <3>1. n = 1 /\ ns2[n].prev = 0
      BY <1>1, <1>2, <1>4, <1>6, <2>3
    <3> QED BY <2>1, <2>3, <3>1 DEF NULL
  <2> QED BY <1>6, <2>2, <2>3
<1> QED BY <1>7, <1>8, <1>9

\* Before the first move the opening stands at every node.
LEMMA BlankPlayed ==
  ASSUME NEW ns, Nodes(ns), Linked(ns), Blank(ns), NEW start, NEW at, at = PlayedIn(ns, start)
  PROVE  Solves(ns, start, at) /\ \A n \in 0 .. Len(ns) : at[n] = start
<1>1. PICK f : f = [n \in 0 .. Len(ns) |-> start]
  OBVIOUS
<1>2. \A n \in 0 .. Len(ns) : PlayedAt(ns, start, f, n) = start
  <2> SUFFICES ASSUME NEW n \in 0 .. Len(ns), n # 0 PROVE PlayedAt(ns, start, f, n) = start
    BY DEF PlayedAt, NULL
  <2>1. n \in DOMAIN ns
    BY DEF Nodes
  <2>2. ns[n].type # NONE /\ ~IsMove(ns[n])
    BY <2>1 DEF Blank, IsMove, NONE, MOVE
  <2> QED BY <2>2 DEF PlayedAt
<1>3. Solves(ns, start, f)
  BY <1>1, <1>2 DEF Solves
<1>4. at = f
  <2>1. ns \in Seq(Depl)
    BY DEF Nodes
  <2> QED BY <1>3, <2>1, PlayedInIs
<1> QED BY <1>1, <1>3, <1>4

\* A new move follows the current one.
LEMMA TrailingMove ==
  ASSUME Nodes(nodes), m \in DOMAIN nodes
  PROVE  /\ AddTrailingMove \in Depl
         /\ AddTrailingMove.next = NULL /\ AddTrailingMove.sub = NULL
         /\ AddTrailingMove.prev = m
         /\ AddTrailingMove.whiteturn = (~nodes[m].whiteturn)
         /\ AddTrailingMove.move = nodes[m].move + IF nodes[m].whiteturn THEN 0 ELSE 1
<1>1. nodes[m] \in Depl /\ m \in Nat
  BY DEF Nodes
<1>2. PICK w \in BOOLEAN, v \in Nat :
        w = (~nodes[m].whiteturn) /\ v = nodes[m].move + IF nodes[m].whiteturn THEN 0 ELSE 1
  <2>1. nodes[m].move \in Nat
    BY <1>1 DEF Depl
  <2>2. (~nodes[m].whiteturn) \in BOOLEAN
    OBVIOUS
  <2>3. nodes[m].move + (IF nodes[m].whiteturn THEN 0 ELSE 1) \in Nat
    BY <2>1
  <2> QED BY <2>2, <2>3
<1>3. AddTrailingMove = [NewMove EXCEPT !.prev = m, !.whiteturn = w, !.move = v]
  BY <1>2 DEF AddTrailingMove
<1>4. NewMove \in Depl /\ NewMove.next = NULL /\ NewMove.sub = NULL
  BY DEF NewMove, Depl, NULL, NONE, Types, PROM_ET_PRISE, VOID, Off, Places
<1>5. PICK x \in Depl : x = NewMove /\ x.next = NULL /\ x.sub = NULL
  BY <1>4
<1> QED BY <1>1, <1>2, <1>3, <1>5 DEF Depl

\* d is the move after k, or the head of a variation that follows those that k
\* is of or begins
NextAdded(ns, k, d, ns2) ==
  /\ ns2 = Append([ns EXCEPT ![k].next = Len(ns) + 1], d)
  /\ ns[k].next = NULL /\ d.type # NONE /\ d.prev = k
SubAdded(ns, k, d, ns2) ==
  /\ ns2 = Append([ns EXCEPT ![k].sub = Len(ns) + 1], d)
  /\ ns[k].sub = NULL /\ d.type = NONE
  /\ d.prev = IF ns[k].type = NONE THEN ns[k].prev ELSE k

\* The node added is a child of k's, and the others keep their places.
LEMMA WovenGrows ==
  ASSUME NEW ns, Nodes(ns), Linked(ns), Woven(ns), NEW k \in DOMAIN ns, NEW d, Addable(ns, d),
         NEW ns2, NextAdded(ns, k, d, ns2) \/ SubAdded(ns, k, d, ns2)
  PROVE  /\ Woven(ns2) /\ ns2[Len(ns) + 1].next = NULL
         /\ \A n \in DOMAIN ns : n # k \/ SubAdded(ns, k, d, ns2) => ns2[n].next = ns[n].next
<1>1. PICK N \in Nat : N = Len(ns) /\ DOMAIN ns = 1 .. N /\ ns \in Seq(Depl)
  <2>1. ns \in Seq(Depl)
    BY DEF Nodes
  <2> HIDE DEF Depl
  <2> QED BY <2>1
<1>2. d \in Depl /\ d.next = NULL /\ d.sub = NULL /\ d.prev \in 1 .. N /\ k \in 1 .. N
  BY <1>1 DEF Addable
<1>3. PICK M : M = N + 1 /\ M \in Nat /\ M # NULL /\ M \notin 1 .. N
  BY <1>1 DEF NULL
<1>4. PICK nx, sb, ns1 :
        /\ ns2 = Append(ns1, d)
        /\ \/ nx = TRUE /\ sb = FALSE /\ ns1 = [ns EXCEPT ![k].next = M]
              /\ ns[k].next = NULL /\ d.type # NONE /\ d.prev = k
           \/ nx = FALSE /\ sb = TRUE /\ ns1 = [ns EXCEPT ![k].sub = M]
              /\ ns[k].sub = NULL /\ d.type = NONE
              /\ d.prev = IF ns[k].type = NONE THEN ns[k].prev ELSE k
        /\ SubAdded(ns, k, d, ns2) => nx = FALSE
  <2>1. CASE NextAdded(ns, k, d, ns2)
    <3>1. ~SubAdded(ns, k, d, ns2)
      BY <2>1 DEF NextAdded, SubAdded
    <3>2. PICK ns1 : ns1 = [ns EXCEPT ![k].next = M]
      OBVIOUS
    <3>3. ns2 = Append(ns1, d) /\ ns[k].next = NULL /\ d.type # NONE /\ d.prev = k
      BY <1>1, <1>3, <2>1, <3>2 DEF NextAdded
    <3> QED BY <3>1, <3>2, <3>3
  <2>2. CASE SubAdded(ns, k, d, ns2)
    <3>1. PICK ns1 : ns1 = [ns EXCEPT ![k].sub = M]
      OBVIOUS
    <3>2. /\ ns2 = Append(ns1, d) /\ ns[k].sub = NULL /\ d.type = NONE
          /\ d.prev = IF ns[k].type = NONE THEN ns[k].prev ELSE k
      BY <1>1, <1>3, <2>2, <3>1 DEF SubAdded
    <3> QED BY <3>1, <3>2
  <2> QED BY <2>1, <2>2
<1>5. /\ DOMAIN ns1 = 1 .. N /\ ns1 \in Seq(Depl) /\ Len(ns1) = N
      /\ \A n \in 1 .. N :
           /\ ns1[n].prev = ns[n].prev /\ ns1[n].type = ns[n].type
           /\ ns1[n].next = IF n = k /\ nx THEN M ELSE ns[n].next
           /\ ns1[n].sub = IF n = k /\ sb THEN M ELSE ns[n].sub
  <2>1. CASE nx = TRUE /\ sb = FALSE /\ ns1 = [ns EXCEPT ![k].next = M]
    <3>1. PICK x \in Depl : x = ns[k]
      BY <1>1
    <3>2. PICK y : y = [x EXCEPT !.next = M]
      OBVIOUS
    <3>3. y \in Depl /\ y.prev = x.prev /\ y.type = x.type /\ y.next = M /\ y.sub = x.sub
      BY <1>3, <3>2 DEF Depl
    <3>4. ns1 = [n \in 1 .. N |-> IF n = k THEN y ELSE ns[n]]
      BY <1>1, <2>1, <3>1, <3>2
    <3>5. ns1 \in [1 .. N -> Depl]
      BY <1>1, <3>3, <3>4
    <3>6. ns1 \in Seq(Depl) /\ Len(ns1) = N /\ DOMAIN ns1 = 1 .. N
      BY <1>1, <3>5
    <3> QED BY <2>1, <3>1, <3>3, <3>4, <3>6
  <2>2. CASE nx = FALSE /\ sb = TRUE /\ ns1 = [ns EXCEPT ![k].sub = M]
    <3>1. PICK x \in Depl : x = ns[k]
      BY <1>1
    <3>2. PICK y : y = [x EXCEPT !.sub = M]
      OBVIOUS
    <3>3. y \in Depl /\ y.prev = x.prev /\ y.type = x.type /\ y.sub = M /\ y.next = x.next
      BY <1>3, <3>2 DEF Depl
    <3>4. ns1 = [n \in 1 .. N |-> IF n = k THEN y ELSE ns[n]]
      BY <1>1, <2>2, <3>1, <3>2
    <3>5. ns1 \in [1 .. N -> Depl]
      BY <1>1, <3>3, <3>4
    <3>6. ns1 \in Seq(Depl) /\ Len(ns1) = N /\ DOMAIN ns1 = 1 .. N
      BY <1>1, <3>5
    <3> QED BY <2>2, <3>1, <3>3, <3>4, <3>6
  <2> QED BY <1>4, <2>1, <2>2
<1>6. /\ ns2 \in Seq(Depl) /\ Len(ns2) = M /\ DOMAIN ns2 = 1 .. M /\ ns2[M] = d
      /\ \A n \in 1 .. N : ns2[n] = ns1[n]
  <2> HIDE DEF Depl
  <2> QED BY <1>1, <1>2, <1>3, <1>4, <1>5
<1>7. \A n \in 1 .. N :
        /\ ns[n].next \in 0 .. N /\ ns[n].sub \in 0 .. N /\ n # M
        /\ ns2[n].prev = ns[n].prev /\ ns2[n].type = ns[n].type
        /\ ns2[n].next = IF n = k /\ nx THEN M ELSE ns[n].next
        /\ ns2[n].sub = IF n = k /\ sb THEN M ELSE ns[n].sub
  BY <1>1, <1>3, <1>5, <1>6 DEF Nodes
<1>8. \A n \in 1 .. M : n \in 1 .. N \/ n = M
  BY <1>1, <1>3
<1>9. \A n \in 2 .. M : ns2[n].prev # NULL /\ \E p \in 1 .. M : n \in Children(ns2, p)
  <2> SUFFICES ASSUME NEW n \in 2 .. M
               PROVE  ns2[n].prev # NULL /\ \E p \in 1 .. M : n \in Children(ns2, p)
    OBVIOUS
  <2>1. CASE n \in 1 .. N
    <3>1. n \in 2 .. N
      BY <1>1, <2>1
    <3>2. ns[n].prev # NULL /\ \E p \in 1 .. N : n \in Children(ns, p)
      BY <1>1, <3>1 DEF Woven
    <3>3. PICK p \in 1 .. N : n \in Children(ns, p)
      BY <3>2
    <3>4. n \in Children(ns2, p)
      BY <1>4, <1>7, <3>3 DEF Children
    <3>5. p \in 1 .. M
      BY <1>3
    <3> QED BY <1>7, <2>1, <3>2, <3>4, <3>5
  <2>2. CASE n = M
    <3>1. M \in Children(ns2, k)
      BY <1>2, <1>3, <1>4, <1>7 DEF Children
    <3>2. k \in 1 .. M /\ d.prev # NULL
      BY <1>2, <1>3 DEF NULL
    <3> QED BY <1>6, <2>2, <3>1, <3>2
  <2> QED BY <1>1, <1>3, <1>8, <2>1, <2>2
<1>10. \A n \in 1 .. M : ns2[n].next # NULL =>
         /\ ns2[n].next > n /\ ns2[ns2[n].next].prev = n
         /\ ns2[ns2[n].next].type # NONE
  <2> SUFFICES ASSUME NEW n \in 1 .. M, ns2[n].next # NULL
               PROVE  /\ ns2[n].next > n /\ ns2[ns2[n].next].prev = n
                      /\ ns2[ns2[n].next].type # NONE
    OBVIOUS
  <2>1. n \in 1 .. N
    BY <1>2, <1>6, <1>8
  <2>2. CASE n = k /\ nx
    BY <1>2, <1>3, <1>4, <1>6, <1>7, <2>2
  <2>3. CASE ~(n = k /\ nx)
    <3>1. PICK c \in 1 .. N : c = ns[n].next /\ c = ns2[n].next
      BY <1>1, <1>7, <2>1, <2>3 DEF NULL
    <3>2. c > n /\ ns[c].prev = n /\ ns[c].type # NONE
      <4>1. ns[n].next # NULL => /\ ns[n].next > n /\ ns[ns[n].next].prev = n
                                 /\ ns[ns[n].next].type # NONE
        BY <1>1, <2>1 DEF Woven
      <4> QED BY <3>1, <4>1 DEF NULL
    <3> QED BY <1>7, <3>1, <3>2
  <2> QED BY <2>2, <2>3
<1>11. \A n \in 1 .. M : ns2[n].sub # NULL =>
         /\ ns2[n].sub > n /\ ns2[ns2[n].sub].type = NONE
         /\ ns2[ns2[n].sub].prev = IF ns2[n].type = NONE THEN ns2[n].prev ELSE n
  <2> SUFFICES ASSUME NEW n \in 1 .. M, ns2[n].sub # NULL
               PROVE  /\ ns2[n].sub > n /\ ns2[ns2[n].sub].type = NONE
                      /\ ns2[ns2[n].sub].prev = IF ns2[n].type = NONE THEN ns2[n].prev ELSE n
    OBVIOUS
  <2>1. n \in 1 .. N
    BY <1>2, <1>6, <1>8
  <2>2. CASE n = k /\ sb
    BY <1>2, <1>3, <1>4, <1>6, <1>7, <2>2
  <2>3. CASE ~(n = k /\ sb)
    <3>1. PICK c \in 1 .. N : c = ns[n].sub /\ c = ns2[n].sub
      BY <1>1, <1>7, <2>1, <2>3 DEF NULL
    <3>2. /\ c > n /\ ns[c].type = NONE
          /\ ns[c].prev = IF ns[n].type = NONE THEN ns[n].prev ELSE n
      BY <1>1, <2>1, <3>1 DEF Woven, NULL
    <3> QED BY <1>7, <2>1, <3>1, <3>2
  <2> QED BY <2>2, <2>3
<1>12. \A n, p \in 1 .. M : ns2[p].sub = ns2[n].sub => p = n \/ ns2[n].sub = NULL
  <2> SUFFICES ASSUME NEW n \in 1 .. M, NEW p \in 1 .. M,
                      ns2[p].sub = ns2[n].sub, ns2[n].sub # NULL
               PROVE  p = n
    OBVIOUS
  <2>1. n \in 1 .. N /\ p \in 1 .. N
    BY <1>2, <1>6, <1>8
  <2>2. CASE ns2[n].sub = M
    <3>1. n = k /\ p = k
      BY <1>1, <1>3, <1>7, <2>1, <2>2
    <3> QED BY <3>1
  <2>3. CASE ns2[n].sub # M
    <3>1. ns[p].sub = ns[n].sub /\ ns[n].sub # NULL
      BY <1>7, <2>1, <2>3
    <3>2. ns[p].sub = ns[n].sub => p = n \/ ns[n].sub = NULL
      BY <1>1, <2>1 DEF Woven
    <3> QED BY <3>1, <3>2
  <2> QED BY <2>2, <2>3
<1>13. Woven(ns2)
  <2>1. DOMAIN ns2 = 1 .. M /\ Len(ns2) = M
    BY <1>6
  <2> QED BY <1>9, <1>10, <1>11, <1>12, <2>1 DEF Woven
<1>14. ns2[Len(ns) + 1].next = NULL
  BY <1>1, <1>2, <1>3, <1>6
<1>15. \A n \in DOMAIN ns :
         n # k \/ SubAdded(ns, k, d, ns2) => ns2[n].next = ns[n].next
  BY <1>1, <1>4, <1>7
<1> QED BY <1>13, <1>14, <1>15

-----------------------------------------------------------------------------
(* Trees.                                                                  *)
\* K gives the children of each of the nodes 1 .. N: later nodes, each the child
\* of one node only
Sprouts(N, K) ==
  /\ N \in Nat
  /\ \A n \in 1 .. N : K[n] \subseteq n + 1 .. N
  /\ \A n, p \in 1 .. N : \A c : c \in K[n] /\ c \in K[p] => n = p

\* the nodes below d: those in every set that has its children and theirs
Closed(N, K, C) == \A x \in 1 .. N : x \in C => K[x] \subseteq C
Under(N, K, d) ==
  {n \in 1 .. N : \A C \in SUBSET (1 .. N) : K[d] \subseteq C /\ Closed(N, K, C) => n \in C}

\* A node's children are below it, and what is below one below it; nothing
\* that is not later is.
LEMMA UnderClosed ==
  ASSUME NEW N, NEW K, Sprouts(N, K), NEW d \in 1 .. N
  PROVE  /\ K[d] \subseteq Under(N, K, d) /\ Closed(N, K, Under(N, K, d))
         /\ Under(N, K, d) \subseteq d + 1 .. N
         /\ \A C \in SUBSET (1 .. N) :
              K[d] \subseteq C /\ Closed(N, K, C) => Under(N, K, d) \subseteq C
<1>1. N \in Nat /\ \A n \in 1 .. N : K[n] \subseteq n + 1 .. N /\ K[n] \subseteq 1 .. N
  BY DEF Sprouts
<1>2. K[d] \subseteq Under(N, K, d)
  BY <1>1 DEF Under
<1>3. Closed(N, K, Under(N, K, d))
  BY <1>1 DEF Under, Closed
<1>4. \A C \in SUBSET (1 .. N) :
        K[d] \subseteq C /\ Closed(N, K, C) => Under(N, K, d) \subseteq C
  BY DEF Under
<1>5. Under(N, K, d) \subseteq d + 1 .. N
  <2>1. PICK C : C = d + 1 .. N
    OBVIOUS
  <2>2. C \in SUBSET (1 .. N) /\ K[d] \subseteq C
    BY <1>1, <2>1
  <2>3. Closed(N, K, C)
    <3> SUFFICES ASSUME NEW x \in 1 .. N, x \in C PROVE K[x] \subseteq C
      BY DEF Closed
    <3>1. K[x] \subseteq x + 1 .. N /\ x + 1 .. N \subseteq d + 1 .. N
      BY <1>1, <2>1
    <3> QED BY <2>1, <3>1
  <2> QED BY <1>4, <2>1, <2>2, <2>3
<1> QED BY <1>2, <1>3, <1>4, <1>5

\* What is below a child is below the node.
LEMMA UnderChild ==
  ASSUME NEW N, NEW K, Sprouts(N, K), NEW d \in 1 .. N, NEW c \in K[d]
  PROVE  /\ c \in 1 .. N /\ c > d
         /\ c \in Under(N, K, d) /\ Under(N, K, c) \subseteq Under(N, K, d)
<1>1. c \in d + 1 .. N /\ d + 1 .. N \subseteq 1 .. N /\ N \in Nat
  BY DEF Sprouts
<1>2. c \in 1 .. N /\ c > d
  BY <1>1
<1>3. c \in Under(N, K, d) /\ K[c] \subseteq Under(N, K, d)
  BY <1>2, UnderClosed DEF Closed
<1>4. Under(N, K, d) \in SUBSET (1 .. N) /\ Closed(N, K, Under(N, K, d))
  BY UnderClosed DEF Under
<1> QED BY <1>2, <1>3, <1>4, UnderClosed

\* What is below a node is one of its children or below one.
LEMMA UnderSplit ==
  ASSUME NEW N, NEW K, Sprouts(N, K), NEW d \in 1 .. N, NEW n \in Under(N, K, d)
  PROVE  n \in K[d] \/ \E c \in K[d] : n \in Under(N, K, c)
<1>1. PICK C : C = {x \in 1 .. N : x \in K[d] \/ \E c \in K[d] : x \in Under(N, K, c)}
  OBVIOUS
<1>2. \A c \in K[d] : c \in 1 .. N
  BY UnderChild
<1>3. C \in SUBSET (1 .. N) /\ K[d] \subseteq C
  BY <1>1, <1>2
<1>4. Closed(N, K, C)
  <2> SUFFICES ASSUME NEW x \in 1 .. N, x \in C, NEW y \in K[x] PROVE y \in C
    BY DEF Closed
  <2>1. PICK c \in K[d] : x = c \/ x \in Under(N, K, c)
    BY <1>1
  <2>2. c \in 1 .. N /\ y \in 1 .. N
    BY <1>2, UnderChild
  <2>3. y \in Under(N, K, c)
    BY <2>1, <2>2, UnderClosed DEF Closed
  <2> QED BY <1>1, <2>2, <2>3
<1>5. n \in C
  BY <1>3, <1>4, UnderClosed
<1> QED BY <1>1, <1>5

\* and its parent is the node itself or below it.
LEMMA UnderParent ==
  ASSUME NEW N, NEW K, Sprouts(N, K), NEW d \in 1 .. N, NEW n \in Under(N, K, d)
  PROVE  \E p \in {d} \cup Under(N, K, d) : n \in K[p]
<1>1. PICK C : C = {x \in 1 .. N : x \in Under(N, K, d) /\ \E p \in {d} \cup Under(N, K, d) : x \in K[p]}
  OBVIOUS
<1>2. K[d] \subseteq C /\ C \in SUBSET (1 .. N)
  BY <1>1, UnderClosed DEF Under
<1>3. Closed(N, K, C)
  <2> SUFFICES ASSUME NEW x \in 1 .. N, x \in C, NEW y \in K[x] PROVE y \in C
    BY DEF Closed
  <2>1. x \in Under(N, K, d)
    BY <1>1
  <2>2. y \in Under(N, K, d) /\ y \in 1 .. N
    BY <2>1, UnderClosed, UnderChild DEF Closed
  <2> QED BY <1>1, <2>1, <2>2
<1> QED BY <1>1, <1>2, <1>3, UnderClosed

\* Nothing is below two children of a node.
LEMMA UnderApart ==
  ASSUME NEW N, NEW K, Sprouts(N, K), NEW d \in 1 .. N, NEW c \in K[d], NEW e \in K[d], c # e
  PROVE  ({c} \cup Under(N, K, c)) \cap ({e} \cup Under(N, K, e)) = {}
<1>1. c \in 1 .. N /\ e \in 1 .. N /\ c > d /\ e > d /\ N \in Nat
  BY UnderChild DEF Sprouts
<1>2. PICK X : X = ({c} \cup Under(N, K, c)) \cap ({e} \cup Under(N, K, e))
  OBVIOUS
<1>3. ASSUME X # {} PROVE FALSE
  <2>1. X \subseteq 1 .. N
    BY <1>1, <1>2 DEF Under
  <2>2. X \subseteq Nat
    BY <2>1
  <2>3. PICK n \in X : \A j \in X : n <= j
    BY <1>3, <2>2, LeastOf
  <2>4. n \in 1 .. N
    BY <2>1
  <2>5. CASE n = c
    <3>1. n \in Under(N, K, e)
      BY <1>2, <2>5
    <3>2. PICK p \in {e} \cup Under(N, K, e) : n \in K[p]
      BY <1>1, <3>1, UnderParent
    <3>3. p \in 1 .. N /\ p > d
      <4>1. \A x \in Under(N, K, e) : x \in e + 1 .. N
        BY <1>1, UnderClosed
      <4> QED BY <1>1, <4>1
    <3>4. p = d
      BY <2>5, <3>2, <3>3 DEF Sprouts
    <3> QED BY <3>3, <3>4
  <2>6. CASE n = e
    <3>1. n \in Under(N, K, c)
      BY <1>2, <2>6
    <3>2. PICK p \in {c} \cup Under(N, K, c) : n \in K[p]
      BY <1>1, <3>1, UnderParent
    <3>3. p \in 1 .. N /\ p > d
      <4>1. \A x \in Under(N, K, c) : x \in c + 1 .. N
        BY <1>1, UnderClosed
      <4> QED BY <1>1, <4>1
    <3>4. p = d
      BY <2>6, <3>2, <3>3 DEF Sprouts
    <3> QED BY <3>3, <3>4
  <2>7. CASE n # c /\ n # e
    <3>1. n \in Under(N, K, c) /\ n \in Under(N, K, e)
      BY <1>2, <2>7
    <3>2. PICK p \in {c} \cup Under(N, K, c) : n \in K[p]
      BY <1>1, <3>1, UnderParent
    <3>3. PICK q \in {e} \cup Under(N, K, e) : n \in K[q]
      BY <1>1, <3>1, UnderParent
    <3>4. p \in 1 .. N /\ q \in 1 .. N
      BY <1>1 DEF Under
    <3>5. p = q
      BY <3>2, <3>3, <3>4 DEF Sprouts
    <3>6. p \in X /\ n > p
      BY <1>2, <3>2, <3>4, <3>5, UnderChild
    <3> QED BY <2>3, <2>4, <3>4, <3>6
  <2> QED BY <2>5, <2>6, <2>7
<1> QED BY <1>2, <1>3

\* If each node but the first is a child, all are below the first.
LEMMA AllUnder ==
  ASSUME NEW N, NEW K, Sprouts(N, K), N >= 1,
         \A n \in 2 .. N : \E p \in 1 .. N : n \in K[p]
  PROVE  Under(N, K, 1) = 2 .. N
<1>0. N \in Nat /\ 1 \in 1 .. N
  BY DEF Sprouts
<1>1. Under(N, K, 1) \subseteq 2 .. N
  BY <1>0, UnderClosed
<1>2. PICK X : X = {n \in 2 .. N : n \notin Under(N, K, 1)}
  OBVIOUS
<1>3. ASSUME X # {} PROVE FALSE
  <2>1. X \subseteq Nat
    BY <1>0, <1>2
  <2>2. PICK n \in X : \A j \in X : n <= j
    BY <1>3, <2>1, LeastOf
  <2>3. n \in 2 .. N /\ n \notin Under(N, K, 1)
    BY <1>2
  <2>4. PICK p \in 1 .. N : n \in K[p]
    BY <2>3
  <2>5. p < n /\ n \in Nat /\ p \in Nat
    BY <1>0, <2>3, <2>4, UnderChild
  <2>6. p = 1 \/ p \in Under(N, K, 1)
    <3>1. p \notin X
      BY <2>2, <2>5
    <3>2. p = 1 \/ p \in 2 .. N
      BY <1>0, <2>4
    <3> QED BY <1>2, <3>1, <3>2
  <2>7. n \in Under(N, K, 1)
    BY <1>0, <2>4, <2>6, UnderClosed DEF Closed
  <2> QED BY <2>3, <2>7
<1> QED BY <1>1, <1>2, <1>3

(* Links followed to their end.                                            *)
\* each node links to nothing or to one of less weight
Leads(N, p, mu, M) ==
  /\ N \in Nat /\ M \in Nat
  /\ \A n \in 1 .. N : /\ mu[n] \in 0 .. M
                       /\ p[n] = 0 \/ (p[n] \in 1 .. N /\ mu[p[n]] < mu[n])
Chased(D, p, f) == f = [n \in D |-> IF p[n] = 0 THEN n ELSE f[p[n]]]

\* The equations of the end of the links have a solution,
LEMMA ChaseIs ==
  ASSUME NEW N, NEW p, NEW mu, NEW M, Leads(N, p, mu, M)
  PROVE  \E f : Chased(1 .. N, p, f)
<1> DEFINE Light(b) == {n \in 1 .. N : mu[n] < b}
           Bad == {b \in Nat : \A f : ~Chased(Light(b), p, f)}
<1>1. ASSUME Bad # {} PROVE FALSE
  <2>1. PICK b \in Bad : \A j \in Bad : b <= j
    <3>1. Bad \subseteq Nat
      OBVIOUS
    <3> HIDE DEF Bad
    <3> QED BY <1>1, <3>1, LeastOf
  <2>2. b \in Nat /\ \A f : ~Chased(Light(b), p, f)
    BY <2>1
  <2>3. CASE b = 0
    <3>1. \A n \in 1 .. N : ~(mu[n] < 0)
      BY DEF Leads
    <3>2. Light(0) = {}
      BY <3>1
    <3>3. PICK f : f = [n \in Light(0) |-> n]
      OBVIOUS
    <3>4. \A n \in Light(0) : FALSE
      BY <3>2
    <3>5. Chased(Light(0), p, f)
      <4> HIDE DEF Light
      <4> QED BY <3>3, <3>4 DEF Chased
    <3> QED BY <2>2, <2>3, <3>5
  <2>4. CASE b # 0
    <3>1. PICK c \in Nat : c + 1 = b
      <4>1. b - 1 \in Nat /\ (b - 1) + 1 = b
        BY <2>2, <2>4
      <4> QED BY <4>1
    <3>2. c \notin Bad
      BY <2>1, <3>1
    <3>3. PICK f : Chased(Light(c), p, f)
      BY <3>2
    <3>4. PICK g : g = [n \in Light(b) |-> IF p[n] = 0 THEN n ELSE f[p[n]]]
      OBVIOUS
    <3>5. \A n \in Light(b) : p[n] # 0 => p[n] \in Light(c) /\ p[n] \in Light(b)
      <4> SUFFICES ASSUME NEW n \in 1 .. N, mu[n] < b, p[n] # 0
                   PROVE  p[n] \in Light(c) /\ p[n] \in Light(b)
        OBVIOUS
      <4>1. /\ mu[n] \in Nat /\ mu[p[n]] < mu[n] /\ p[n] \in 1 .. N
            /\ mu[p[n]] \in Nat
        BY DEF Leads
      <4>2. mu[p[n]] < c /\ mu[p[n]] < b
        BY <3>1, <4>1
      <4> QED BY <4>1, <4>2
    <3> HIDE DEF Light
    <3>6. \A n \in Light(b) : p[n] # 0 => g[p[n]] = f[p[n]]
      <4> SUFFICES ASSUME NEW n \in Light(b), p[n] # 0 PROVE g[p[n]] = f[p[n]]
        OBVIOUS
      <4>1. p[n] \in Light(c) /\ p[n] \in Light(b)
        BY <3>5
      <4>2. f[p[n]] = IF p[p[n]] = 0 THEN p[n] ELSE f[p[p[n]]]
        BY <3>3, <4>1 DEF Chased
      <4>3. g[p[n]] = IF p[p[n]] = 0 THEN p[n] ELSE f[p[p[n]]]
        BY <3>4, <4>1
      <4> QED BY <4>2, <4>3
    <3>7. g = [n \in Light(b) |-> IF p[n] = 0 THEN n ELSE g[p[n]]]
      BY <3>4, <3>6
    <3> QED BY <2>2, <3>7 DEF Chased
  <2> QED BY <2>3, <2>4
<1>2. M + 1 \in Nat /\ M + 1 \notin Bad
  <2>1. M + 1 \in Nat
    BY DEF Leads
  <2> HIDE DEF Bad
  <2> QED BY <1>1, <2>1
<1>3. PICK f : Chased(Light(M + 1), p, f)
  BY <1>2
<1>4. Light(M + 1) = 1 .. N
  <2>1. \A n \in 1 .. N : mu[n] < M + 1
    BY DEF Leads
  <2> QED BY <2>1
<1> QED BY <1>3, <1>4

\* and the end is where nothing is linked to, in any set that has the links.
LEMMA ChaseEnds ==
  ASSUME NEW N, NEW p, NEW mu, NEW M, Leads(N, p, mu, M), NEW f, Chased(1 .. N, p, f),
         NEW S \in SUBSET (1 .. N), \A n \in S : p[n] = 0 \/ p[n] \in S
  PROVE  \A n \in S : f[n] \in S /\ p[f[n]] = 0
<1> DEFINE Fails(n) == ~(f[n] \in S /\ p[f[n]] = 0)
           Bad == {b \in Nat : \E n \in S : mu[n] = b /\ Fails(n)}
<1>1. ASSUME Bad # {} PROVE FALSE
  <2>1. PICK b \in Bad : \A j \in Bad : b <= j
    <3>1. Bad \subseteq Nat
      OBVIOUS
    <3> HIDE DEF Bad
    <3> QED BY <1>1, <3>1, LeastOf
  <2>2. PICK n \in S : mu[n] = b /\ Fails(n)
    BY <2>1
  <2>3. n \in 1 .. N /\ f[n] = IF p[n] = 0 THEN n ELSE f[p[n]]
    BY DEF Chased
  <2>4. p[n] # 0
    BY <2>2, <2>3
  <2>5. /\ p[n] \in S /\ p[n] \in 1 .. N /\ mu[p[n]] < mu[n]
        /\ mu[n] \in Nat /\ mu[p[n]] \in Nat
    BY <2>3, <2>4 DEF Leads
  <2>6. mu[p[n]] \notin Bad
    BY <2>1, <2>2, <2>5
  <2> QED BY <2>2, <2>3, <2>4, <2>5, <2>6
<1>2. SUFFICES ASSUME NEW n \in S, Fails(n) PROVE FALSE
  OBVIOUS
<1>3. mu[n] \in Nat
  BY DEF Leads
<1> QED BY <1>1, <1>2, <1>3

-----------------------------------------------------------------------------
(* The ends of the links of the tree of moves.                             *)
\* The links back from any move lead to the first.
LEMMA FirstIs ==
  ASSUME NEW ns, Nodes(ns), Linked(ns), Woven(ns), NEW n \in DOMAIN ns
  PROVE  First(ns, n) = 1
<1>1. PICK N \in Nat : N = Len(ns) /\ DOMAIN ns = 1 .. N
  BY DEF Nodes
<1>2. PICK p : p = [k \in 1 .. N |-> ns[k].prev]
  OBVIOUS
<1>3. PICK mu : mu = [k \in 1 .. N |-> k]
  OBVIOUS
<1>4. \A k \in 1 .. N : p[k] \in 0 .. k - 1 /\ mu[k] = k
  BY <1>1, <1>2, <1>3 DEF Linked
<1>5. Leads(N, p, mu, N)
  <2> SUFFICES ASSUME NEW k \in 1 .. N
               PROVE  mu[k] \in 0 .. N /\ (p[k] = 0 \/ (p[k] \in 1 .. N /\ mu[p[k]] < mu[k]))
    BY <1>1 DEF Leads
  <2>1. p[k] \in 0 .. k - 1 /\ mu[k] = k
    BY <1>4
  <2>2. CASE p[k] # 0
    <3>1. p[k] \in 1 .. N /\ p[k] < k
      BY <1>1, <2>1, <2>2
    <3>2. mu[p[k]] = p[k]
      BY <1>4, <3>1
    <3> QED BY <1>1, <2>1, <3>1, <3>2
  <2> QED BY <1>1, <2>1, <2>2
<1>6. PICK f : Chased(1 .. N, p, f)
  BY <1>5, ChaseIs
<1>7. \A g : g = [k \in DOMAIN ns |-> IF ns[k].prev = NULL THEN k ELSE g[ns[k].prev]]
               <=> Chased(1 .. N, p, g)
  <2> SUFFICES ASSUME NEW g
               PROVE  [k \in DOMAIN ns |-> IF ns[k].prev = NULL THEN k ELSE g[ns[k].prev]]
                        = [k \in 1 .. N |-> IF p[k] = 0 THEN k ELSE g[p[k]]]
    BY DEF Chased
  <2>1. \A k \in 1 .. N : p[k] = ns[k].prev
    BY <1>2
  <2> QED BY <1>1, <2>1 DEF NULL
<1>8. PICK g : /\ Chased(1 .. N, p, g)
               /\ First(ns, n) = g[n]
  <2>1. PICK g : g = CHOOSE h : h = [k \in DOMAIN ns |-> IF ns[k].prev = NULL THEN k
                                                         ELSE h[ns[k].prev]]
    OBVIOUS
  <2>2. g = [k \in DOMAIN ns |-> IF ns[k].prev = NULL THEN k ELSE g[ns[k].prev]]
    BY <1>6, <1>7, <2>1
  <2>3. First(ns, n) = g[n]
    BY <2>1, Zenon DEF First
  <2> QED BY <1>7, <2>2, <2>3
<1>9. g[n] \in 1 .. N /\ p[g[n]] = 0
  <2>1. PICK S : S = 1 .. N
    OBVIOUS
  <2>2. \A k \in S : p[k] = 0 \/ p[k] \in S
    BY <1>5, <2>1 DEF Leads
  <2>3. S \in SUBSET (1 .. N) /\ n \in S
    BY <1>1, <2>1
  <2>4. \A k \in S : g[k] \in S /\ p[g[k]] = 0
    BY <1>5, <1>8, <2>2, <2>3, ChaseEnds
  <2> QED BY <2>1, <2>3, <2>4
<1>10. PICK e \in 1 .. N : e = g[n] /\ p[e] = 0
  BY <1>9
<1>11. ns[e].prev = NULL
  BY <1>2, <1>10 DEF NULL
<1>12. e \notin 2 .. N
  BY <1>1, <1>11 DEF Woven
<1> QED BY <1>1, <1>8, <1>10, <1>12

\* A new variation of a move goes to the end of its variations.
LEMMA LastSubIs ==
  ASSUME Nodes(nodes), Linked(nodes), Woven(nodes), NEW n \in DOMAIN nodes,
         nodes[n].type # NONE
  PROVE  \E j \in DOMAIN nodes :
           /\ j = LastSub(n) /\ nodes[j].sub = NULL
           /\ j = n \/ (nodes[j].type = NONE /\ nodes[j].prev = n)
<1>1. PICK N \in Nat : N = Len(nodes) /\ DOMAIN nodes = 1 .. N
  BY DEF Nodes
<1>2. PICK p : p = [k \in 1 .. N |-> nodes[k].sub]
  OBVIOUS
<1>3. PICK mu : mu = [k \in 1 .. N |-> N - k]
  OBVIOUS
<1>4. \A k \in 1 .. N : /\ p[k] = nodes[k].sub /\ mu[k] = N - k
                        /\ p[k] = 0 \/ p[k] \in k + 1 .. N
  <2> SUFFICES ASSUME NEW k \in 1 .. N, nodes[k].sub # 0
               PROVE  nodes[k].sub \in k + 1 .. N
    BY <1>2, <1>3
  <2>1. nodes[k].sub \in 0 .. N
    BY <1>1 DEF Nodes
  <2>2. nodes[k].sub > k
    BY <1>1 DEF Woven, NULL
  <2> QED BY <1>1, <2>1, <2>2
<1>5. Leads(N, p, mu, N)
  <2> SUFFICES ASSUME NEW k \in 1 .. N
               PROVE  mu[k] \in 0 .. N /\ (p[k] = 0 \/ (p[k] \in 1 .. N /\ mu[p[k]] < mu[k]))
    BY <1>1 DEF Leads
  <2>1. CASE p[k] # 0
    <3>1. p[k] \in k + 1 .. N /\ p[k] \in 1 .. N
      BY <1>1, <1>4, <2>1
    <3>2. mu[p[k]] = N - p[k] /\ mu[k] = N - k
      BY <1>4, <3>1
    <3> QED BY <1>1, <3>1, <3>2
  <2> QED BY <1>1, <1>4, <2>1
<1>6. PICK f : Chased(1 .. N, p, f)
  BY <1>5, ChaseIs
<1>7. \A g : g = [k \in DOMAIN nodes |-> IF nodes[k].sub = NULL THEN k ELSE g[nodes[k].sub]]
               <=> Chased(1 .. N, p, g)
  <2> SUFFICES ASSUME NEW g
               PROVE  [k \in DOMAIN nodes |-> IF nodes[k].sub = NULL THEN k ELSE g[nodes[k].sub]]
                        = [k \in 1 .. N |-> IF p[k] = 0 THEN k ELSE g[p[k]]]
    BY DEF Chased
  <2>1. \A k \in 1 .. N : p[k] = nodes[k].sub
    BY <1>2
  <2> QED BY <1>1, <2>1 DEF NULL
<1>8. PICK g : /\ Chased(1 .. N, p, g)
               /\ LastSub(n) = g[n]
  <2>1. PICK g : g = CHOOSE h : h = [k \in DOMAIN nodes |-> IF nodes[k].sub = NULL THEN k
                                                            ELSE h[nodes[k].sub]]
    OBVIOUS
  <2>2. g = [k \in DOMAIN nodes |-> IF nodes[k].sub = NULL THEN k ELSE g[nodes[k].sub]]
    BY <1>6, <1>7, <2>1
  <2>3. LastSub(n) = g[n]
    BY <2>1, Zenon DEF LastSub
  <2> QED BY <1>7, <2>2, <2>3
<1>9. PICK S : S = {k \in 1 .. N : k = n \/ (nodes[k].type = NONE /\ nodes[k].prev = n)}
  OBVIOUS
<1>10. \A k \in S : p[k] = 0 \/ p[k] \in S
  <2> SUFFICES ASSUME NEW k \in S, p[k] # 0 PROVE p[k] \in S
    OBVIOUS
  <2>1. k \in 1 .. N /\ (k = n \/ (nodes[k].type = NONE /\ nodes[k].prev = n))
    BY <1>9
  <2>2. p[k] = nodes[k].sub /\ p[k] \in 1 .. N
    BY <1>1, <1>4, <2>1
  <2>3. /\ nodes[p[k]].type = NONE
        /\ nodes[p[k]].prev = IF nodes[k].type = NONE THEN nodes[k].prev ELSE k
    BY <1>1, <2>1, <2>2 DEF Woven, NULL
  <2> QED BY <1>9, <2>1, <2>2, <2>3
<1>11. g[n] \in S /\ p[g[n]] = 0
  <2>1. n \in S /\ S \in SUBSET (1 .. N)
    BY <1>1, <1>9
  <2> QED BY <1>5, <1>8, <1>10, <2>1, ChaseEnds
<1> QED BY <1>1, <1>4, <1>8, <1>9, <1>11 DEF NULL

-----------------------------------------------------------------------------
(* Freeing the tree.                                                       *)
\* the walk from d in s, where w is what walks one call deeper do
CutSub(s, d) == [s EXCEPT !.nodes[d].sub = NULL]
CutNext(s, d) == [s EXCEPT !.nodes[d].next = NULL]
FreeSub(w, s, d) ==
  IF s.nodes[d].sub = NULL THEN s
  ELSE CutSub(Detach(w[s][s.nodes[d].sub], d, s.nodes[d].sub), d)
FreeNext(w, a, d) ==
  IF a.nodes[d].next = NULL THEN a
  ELSE CutNext(Detach(w[a][a.nodes[d].next], d, a.nodes[d].next), d)
FreeOne(k, w, s, d) == IF k = 0 THEN s ELSE FreeNext(w, FreeSub(w, s, d), d)
FreeLayer(k, w) == [s \in Walks |-> [d \in Nat |-> FreeOne(k, w, s, d)]]

\* The equations of free_recursively have a solution at any depth.
LEMMA FreeBelowIs ==
  ASSUME NEW depth \in Nat
  PROVE  \E f : /\ FreeBelow(depth) = f[depth]
                /\ \A k \in 0 .. depth : f[k] = FreeLayer(k, f[k - 1])
<1>0. \A w : FreeLayer(0, w) = [s \in Walks |-> [d \in Nat |-> s]]
  <2>1. ASSUME NEW k, k = 0, NEW w, NEW s, NEW d PROVE FreeOne(k, w, s, d) = s
    BY <2>1, Zenon DEF FreeOne
  <2>2. \A w, s, d : FreeOne(0, w, s, d) = s
    BY <2>1
  <2> QED BY <2>2 DEF FreeLayer
<1> DEFINE Sol(n, f) == f = [k \in 0 .. n |-> FreeLayer(k, f[k - 1])]
           Bad == {n \in 0 .. depth : \A f : ~Sol(n, f)}
<1>1. ASSUME Bad # {} PROVE FALSE
  <2>1. PICK n \in Bad : \A j \in Bad : n <= j
    <3>1. Bad \subseteq Nat
      OBVIOUS
    <3> HIDE DEF Bad
    <3> QED BY <1>1, <3>1, LeastOf
  <2>2. n \in 0 .. depth /\ \A f : ~Sol(n, f)
    BY <2>1
  <2>3. CASE n = 0
    <3>1. PICK f : f = [k \in 0 .. 0 |-> [s \in Walks |-> [d \in Nat |-> s]]]
      OBVIOUS
    <3>2. \A k \in 0 .. 0 : FreeLayer(k, f[k - 1]) = [s \in Walks |-> [d \in Nat |-> s]]
      <4> SUFFICES ASSUME NEW k \in 0 .. 0
                   PROVE  FreeLayer(k, f[k - 1]) = [s \in Walks |-> [d \in Nat |-> s]]
        OBVIOUS
      <4>1. k = 0
        OBVIOUS
      <4> QED BY <1>0, <4>1
    <3>3. Sol(0, f)
      BY <3>1, <3>2
    <3> QED BY <2>2, <2>3, <3>3
  <2>4. CASE n # 0
    <3>1. n - 1 \in 0 .. depth /\ n - 1 \notin Bad
      BY <2>1, <2>2, <2>4
    <3>2. PICK f : Sol(n - 1, f)
      BY <3>1
    <3>3. PICK g : g = [k \in 0 .. n |-> IF k = n THEN FreeLayer(n, f[n - 1]) ELSE f[k]]
      OBVIOUS
    <3>4. \A k \in 0 .. n : g[k] = FreeLayer(k, g[k - 1])
      <4> SUFFICES ASSUME NEW k \in 0 .. n PROVE g[k] = FreeLayer(k, g[k - 1])
        OBVIOUS
      <4>1. CASE k = n
        <5>1. g[k] = FreeLayer(n, f[n - 1]) /\ g[n - 1] = f[n - 1]
          BY <2>2, <2>4, <3>3, <4>1
        <5> QED BY <4>1, <5>1
      <4>2. CASE k # n
        <5>1. k \in 0 .. n - 1 /\ g[k] = f[k] /\ f[k] = FreeLayer(k, f[k - 1])
          BY <2>2, <3>2, <3>3, <4>2
        <5>2. CASE k = 0
          BY <1>0, <5>1, <5>2
        <5>3. CASE k # 0
          <6>1. k - 1 \in 0 .. n /\ k - 1 # n
            BY <2>2, <5>1, <5>3
          <6>2. g[k - 1] = f[k - 1]
            BY <3>3, <6>1
          <6> QED BY <5>1, <6>2
        <5> QED BY <5>2, <5>3
      <4> QED BY <4>1, <4>2
    <3>5. Sol(n, g)
      BY <3>3, <3>4
    <3> QED BY <2>2, <3>5
  <2> QED BY <2>3, <2>4
<1>2. PICK f : Sol(depth, f)
  <2>1. depth \in 0 .. depth
    OBVIOUS
  <2>2. depth \notin Bad
    BY <1>1
  <2> QED BY <2>1, <2>2
<1>3. PICK g : g = CHOOSE h : h = [k \in 0 .. depth |-> FreeLayer(k, h[k - 1])]
  OBVIOUS
<1>4. Sol(depth, g)
  BY <1>2, <1>3
<1>5. FreeBelow(depth) = g[depth]
  BY <1>3, Zenon DEF FreeBelow, FreeLayer, FreeOne, FreeNext, FreeSub, CutNext, CutSub
<1> QED BY <1>4, <1>5

\* xs is ns with some links cut, and s a walk through it
Trimmed(ns, xs) ==
  /\ xs \in Seq(Depl) /\ Len(xs) = Len(ns)
  /\ \A n \in DOMAIN ns : /\ xs[n].prev = ns[n].prev
                          /\ xs[n].next \in {NULL, ns[n].next}
                          /\ xs[n].sub \in {NULL, ns[n].sub}
Pruned(ns, s) == s \in Walks /\ Trimmed(ns, s.nodes) /\ Len(s.frees) = Len(ns)
SameLinks(x, y) == x.next = y.next /\ x.sub = y.sub

\* A link cut leaves the others.
LEMMA CutIs ==
  ASSUME NEW ns \in Seq(Depl), NEW xs, Trimmed(ns, xs), NEW u \in DOMAIN ns, NEW ys,
         \/ ys = [xs EXCEPT ![u].next = NULL]
         \/ ys = [xs EXCEPT ![u].sub = NULL]
  PROVE  /\ Trimmed(ns, ys)
         /\ \A n \in DOMAIN ns : n # u => SameLinks(ys[n], xs[n])
         /\ ys = [xs EXCEPT ![u].sub = NULL] => ys[u].next = xs[u].next
<1>1. PICK N \in Nat : N = Len(ns) /\ DOMAIN ns = 1 .. N
  OBVIOUS
<1>2. xs \in Seq(Depl) /\ Len(xs) = N /\ DOMAIN xs = 1 .. N
  BY <1>1 DEF Trimmed
<1> DEFINE Like(x, y) ==
             /\ y \in Depl /\ y.prev = x.prev
             /\ y.next \in {NULL, x.next} /\ y.sub \in {NULL, x.sub}
<1>3. ASSUME NEW x \in Depl PROVE Like(x, [x EXCEPT !.next = NULL])
  BY DEF Depl, NULL
<1>4. ASSUME NEW x \in Depl
      PROVE  Like(x, [x EXCEPT !.sub = NULL]) /\ [x EXCEPT !.sub = NULL].next = x.next
  BY DEF Depl, NULL
<1>5. PICK x \in Depl : x = xs[u]
  BY <1>1, <1>2
<1>6. PICK y : /\ y = [x EXCEPT !.next = NULL] \/ y = [x EXCEPT !.sub = NULL]
               /\ ys = [n \in 1 .. N |-> IF n = u THEN y ELSE xs[n]]
  <2>1. CASE ys = [xs EXCEPT ![u].next = NULL]
    <3>1. ys = [n \in 1 .. N |-> IF n = u THEN [x EXCEPT !.next = NULL] ELSE xs[n]]
      BY <1>2, <1>5, <2>1
    <3> QED BY <3>1
  <2>2. CASE ys = [xs EXCEPT ![u].sub = NULL]
    <3>1. ys = [n \in 1 .. N |-> IF n = u THEN [x EXCEPT !.sub = NULL] ELSE xs[n]]
      BY <1>2, <1>5, <2>2
    <3> QED BY <3>1
  <2> QED BY <2>1, <2>2
<1>7. Like(x, y)
  BY <1>3, <1>4, <1>6
<1> HIDE DEF Like
<1>8. ys[u] = y /\ \A n \in 1 .. N : n # u => ys[n] = xs[n]
  BY <1>1, <1>6
<1>9. ys \in Seq(Depl) /\ Len(ys) = N
  <2>1. y \in Depl /\ \A n \in 1 .. N : xs[n] \in Depl
    BY <1>2, <1>7 DEF Like
  <2>2. ys \in [1 .. N -> Depl]
    BY <1>6, <2>1
  <2> QED BY <2>2
<1>10. \A n \in 1 .. N : /\ ys[n].prev = ns[n].prev
                         /\ ys[n].next \in {NULL, ns[n].next}
                         /\ ys[n].sub \in {NULL, ns[n].sub}
  <2> SUFFICES ASSUME NEW n \in 1 .. N
               PROVE  /\ ys[n].prev = ns[n].prev
                      /\ ys[n].next \in {NULL, ns[n].next}
                      /\ ys[n].sub \in {NULL, ns[n].sub}
    OBVIOUS
  <2>1. /\ xs[n].prev = ns[n].prev
        /\ xs[n].next \in {NULL, ns[n].next}
        /\ xs[n].sub \in {NULL, ns[n].sub}
    BY <1>1 DEF Trimmed
  <2>2. CASE n = u
    BY <1>5, <1>7, <1>8, <2>1, <2>2 DEF Like
  <2>3. CASE n # u
    BY <1>8, <2>1, <2>3
  <2> QED BY <2>2, <2>3
<1>11. Trimmed(ns, ys)
  BY <1>1, <1>9, <1>10 DEF Trimmed
<1>12. \A n \in DOMAIN ns : n # u => SameLinks(ys[n], xs[n])
  BY <1>1, <1>8 DEF SameLinks
<1>13. ASSUME ys = [xs EXCEPT ![u].sub = NULL] PROVE ys[u].next = xs[u].next
  <2>1. ys[u] = [x EXCEPT !.sub = NULL]
    BY <1>1, <1>2, <1>5, <1>13
  <2> QED BY <1>4, <1>5, <2>1
<1> QED BY <1>11, <1>12, <1>13

\* A child freed: it is counted, and cuts at most the link of the node it
\* points back to.
LEMMA DetachIs ==
  ASSUME NEW ns \in Seq(Depl), NEW s, Pruned(ns, s), NEW d, NEW c \in DOMAIN ns,
         NEW r, r = Detach(s, d, c), ns[c].prev \in DOMAIN ns
  PROVE  /\ r = [nodes |-> r.nodes, frees |-> r.frees]
         /\ Trimmed(ns, r.nodes)
         /\ r.frees \in Seq(Nat) /\ Len(r.frees) = Len(ns)
         /\ \A n \in DOMAIN ns : r.frees[n] = s.frees[n] + IF n = c THEN 1 ELSE 0
         /\ ns[c].prev = d => r.nodes = s.nodes
<1>1. PICK N \in Nat : N = Len(ns) /\ DOMAIN ns = 1 .. N
  OBVIOUS
<1>2. /\ s.nodes \in Seq(Depl) /\ Trimmed(ns, s.nodes)
      /\ s.frees \in Seq(Nat) /\ Len(s.frees) = N
  BY <1>1 DEF Pruned, Walks
<1>3. PICK xs, fr : xs = s.nodes /\ fr = s.frees
  OBVIOUS
<1>4. PICK up : up = ns[c].prev /\ up = xs[c].prev /\ up \in DOMAIN ns
  BY <1>2, <1>3 DEF Trimmed
<1>5. PICK ys, gr : /\ ys = IF Detaches(d, up) THEN [xs EXCEPT ![up].next = NULL] ELSE xs
                    /\ gr = [fr EXCEPT ![c] = @ + 1]
  OBVIOUS
<1>6. r = [nodes |-> ys, frees |-> gr]
  BY <1>3, <1>4, <1>5 DEF Detach
<1>7. r.nodes = ys /\ r.frees = gr
  BY <1>6
<1>8. Trimmed(ns, ys)
  <2>1. CASE Detaches(d, up)
    <3>1. ys = [xs EXCEPT ![up].next = NULL]
      BY <1>5, <2>1
    <3> QED BY <1>2, <1>3, <1>4, <3>1, CutIs
  <2> QED BY <1>2, <1>3, <1>5, <2>1
<1>9. gr = [n \in 1 .. N |-> fr[n] + IF n = c THEN 1 ELSE 0]
  <2>1. \A n \in 1 .. N : fr[n] \in Nat
    BY <1>2, <1>3
  <2>2. fr = [n \in 1 .. N |-> fr[n]]
    BY <1>2, <1>3
  <2>3. gr = [n \in 1 .. N |-> IF n = c THEN fr[n] + 1 ELSE fr[n]]
    <3>1. c \in 1 .. N /\ DOMAIN fr = 1 .. N
      BY <1>1, <2>2
    <3> QED BY <1>5, <2>2, <3>1
  <2>4. \A n \in 1 .. N : (IF n = c THEN fr[n] + 1 ELSE fr[n])
                            = fr[n] + (IF n = c THEN 1 ELSE 0)
    BY <2>1
  <2> QED BY <2>3, <2>4
<1>10. gr \in Seq(Nat) /\ Len(gr) = N
  <2>1. \A n \in 1 .. N : fr[n] + (IF n = c THEN 1 ELSE 0) \in Nat
    BY <1>2, <1>3
  <2>2. gr \in [1 .. N -> Nat]
    BY <1>9, <2>1
  <2> QED BY <2>2
<1>11. ns[c].prev = d => ys = xs
  BY <1>4, <1>5 DEF Detaches
<1>12. \A n \in DOMAIN ns : gr[n] = fr[n] + IF n = c THEN 1 ELSE 0
  BY <1>1, <1>9
<1> QED BY <1>1, <1>3, <1>6, <1>7, <1>8, <1>10, <1>11, <1>12

\* the moves and variations below a move, and with it
Kids(ns) == [n \in DOMAIN ns |-> Children(ns, n)]
Below(ns, n) == Under(Len(ns), Kids(ns), n)
Family(ns, n) == {n} \cup Below(ns, n)
\* no move has two variations
Single(ns) == \A n \in DOMAIN ns : ns[n].type = NONE => ns[n].sub = NULL

\* what is below d is that of its next move and that of its variation
TreeAt(ns, d) ==
  /\ \A c \in Children(ns, d) :
       /\ c \in DOMAIN ns /\ c > d
       /\ Family(ns, c) \subseteq Below(ns, d) /\ d \notin Family(ns, c)
       /\ ns[c].prev \in DOMAIN ns /\ (Single(ns) => ns[c].prev = d)
  /\ Below(ns, d) \subseteq DOMAIN ns /\ d \notin Below(ns, d)
  /\ \A n \in Below(ns, d) : \E c \in Children(ns, d) : n \in Family(ns, c)
  /\ \A c, e \in Children(ns, d) : c # e => Family(ns, c) \cap Family(ns, e) = {}
  /\ ns[d].next # NULL => ns[d].next # ns[d].sub

\* Kids is the tree that the links of the nodes make.
LEMMA WovenSprouts ==
  ASSUME NEW ns, Nodes(ns), Linked(ns), Woven(ns)
  PROVE  Sprouts(Len(ns), Kids(ns))
<1>1. PICK N \in Nat : N = Len(ns) /\ DOMAIN ns = 1 .. N
  BY DEF Nodes
<1>2. PICK K : K = Kids(ns)
  OBVIOUS
<1>3. \A n \in 1 .. N : K[n] = Children(ns, n)
  BY <1>1, <1>2 DEF Kids
<1>4. \A n \in 1 .. N : \A c \in K[n] :
        /\ c \in n + 1 .. N
        /\ c = ns[n].next \/ c = ns[n].sub
        /\ c = ns[n].next => ns[c].prev = n /\ ns[c].type # NONE
        /\ c = ns[n].sub => ns[c].type = NONE
  <2> SUFFICES ASSUME NEW n \in 1 .. N, NEW c \in K[n]
               PROVE  /\ c \in n + 1 .. N
                      /\ c = ns[n].next \/ c = ns[n].sub
                      /\ c = ns[n].next => ns[c].prev = n /\ ns[c].type # NONE
                      /\ c = ns[n].sub => ns[c].type = NONE
    OBVIOUS
  <2>1. c # NULL /\ (c = ns[n].next \/ c = ns[n].sub)
    BY <1>3 DEF Children
  <2>2. c \in 0 .. N
    BY <1>1, <2>1 DEF Nodes
  <2>3. /\ c = ns[n].next => c > n /\ ns[c].prev = n /\ ns[c].type # NONE
        /\ c = ns[n].sub => c > n /\ ns[c].type = NONE
    BY <1>1, <2>1 DEF Woven
  <2>4. c \in n + 1 .. N
    BY <1>1, <2>1, <2>2, <2>3
  <2> QED BY <2>1, <2>3, <2>4
<1>5. ASSUME NEW n \in 1 .. N, NEW p \in 1 .. N, NEW c, c \in K[n], c \in K[p]
      PROVE  n = p
  <2>1. CASE c = ns[n].next
    <3>1. ns[c].prev = n /\ ns[c].type # NONE
      BY <1>4, <1>5, <2>1
    <3>2. c = ns[p].next
      BY <1>4, <1>5, <3>1
    <3> QED BY <1>4, <1>5, <3>1, <3>2
  <2>2. CASE c # ns[n].next
    <3>1. c = ns[n].sub /\ ns[c].type = NONE
      BY <1>4, <1>5, <2>2
    <3>2. c = ns[p].sub
      BY <1>4, <1>5, <3>1
    <3>3. c # NULL
      BY <1>3, <1>5 DEF Children
    <3>4. ns[p].sub = ns[n].sub => p = n \/ ns[n].sub = NULL
      BY <1>1 DEF Woven
    <3> QED BY <3>1, <3>2, <3>3, <3>4
  <2> QED BY <2>1, <2>2
<1>6. Sprouts(N, K)
  <2>1. \A n \in 1 .. N : K[n] \subseteq n + 1 .. N
    BY <1>4
  <2> QED BY <1>1, <1>5, <2>1 DEF Sprouts
<1> QED BY <1>1, <1>2, <1>6

\* What is freed below a node is the families of its links, which are apart.
LEMMA WovenTree ==
  ASSUME NEW ns, Nodes(ns), Linked(ns), Woven(ns), NEW d \in DOMAIN ns
  PROVE  TreeAt(ns, d)
<1>1. PICK N \in Nat : N = Len(ns) /\ DOMAIN ns = 1 .. N
  BY DEF Nodes
<1>2. PICK K : K = Kids(ns)
  OBVIOUS
<1>3. Sprouts(N, K)
  BY <1>1, <1>2, WovenSprouts
<1>4. d \in 1 .. N /\ K[d] = Children(ns, d)
  BY <1>1, <1>2 DEF Kids
<1>5. \A n : Below(ns, n) = Under(N, K, n) /\ Family(ns, n) = {n} \cup Under(N, K, n)
  BY <1>1, <1>2 DEF Below, Family
<1>6. Under(N, K, d) \subseteq d + 1 .. N /\ d \notin Under(N, K, d)
  <2>1. Under(N, K, d) \subseteq d + 1 .. N
    BY <1>3, <1>4, UnderClosed
  <2>2. d \notin d + 1 .. N
    BY <1>4
  <2> QED BY <2>1, <2>2
<1>7. ASSUME NEW c \in Children(ns, d)
      PROVE  /\ c \in DOMAIN ns /\ c > d
             /\ Family(ns, c) \subseteq Below(ns, d) /\ d \notin Family(ns, c)
  <2>1. c \in K[d]
    BY <1>4
  <2>2. /\ c \in 1 .. N /\ c > d
        /\ c \in Under(N, K, d) /\ Under(N, K, c) \subseteq Under(N, K, d)
    BY <1>3, <1>4, <2>1, UnderChild
  <2> QED BY <1>1, <1>5, <1>6, <2>2
<1>8. ASSUME NEW c \in Children(ns, d)
      PROVE  ns[c].prev \in DOMAIN ns /\ (Single(ns) => ns[c].prev = d)
  <2>1. c # NULL /\ (c = ns[d].next \/ c = ns[d].sub)
    BY DEF Children
  <2>2. CASE c = ns[d].next
    BY <2>1, <2>2 DEF Woven
  <2>3. CASE c = ns[d].sub
    <3>1. ns[c].prev = IF ns[d].type = NONE THEN ns[d].prev ELSE d
      BY <2>1, <2>3 DEF Woven
    <3>2. CASE ns[d].type = NONE
      <4>1. ns[d].prev \in 0 .. d - 1 /\ ns[d].prev # NULL
        BY <3>2 DEF Linked
      <4>2. ns[d].prev \in DOMAIN ns
        BY <1>1, <4>1 DEF NULL
      <4>3. ~Single(ns)
        BY <2>1, <2>3, <3>2 DEF Single
      <4> QED BY <3>1, <3>2, <4>2, <4>3
    <3> QED BY <3>1, <3>2
  <2> QED BY <2>1, <2>2, <2>3
<1>9. \A n \in Below(ns, d) : \E c \in Children(ns, d) : n \in Family(ns, c)
  <2> SUFFICES ASSUME NEW n \in Under(N, K, d)
               PROVE  \E c \in K[d] : n = c \/ n \in Under(N, K, c)
    BY <1>4, <1>5
  <2> QED BY <1>3, <1>4, UnderSplit
<1>10. \A c, e \in Children(ns, d) : c # e => Family(ns, c) \cap Family(ns, e) = {}
  <2> SUFFICES ASSUME NEW c \in K[d], NEW e \in K[d], c # e
               PROVE  ({c} \cup Under(N, K, c)) \cap ({e} \cup Under(N, K, e)) = {}
    BY <1>4, <1>5
  <2> QED BY <1>3, <1>4, UnderApart
<1>11. ns[d].next # NULL => ns[d].next # ns[d].sub
  BY DEF Woven
<1>12. Below(ns, d) \subseteq DOMAIN ns /\ d \notin Below(ns, d)
  <2>1. Under(N, K, d) \subseteq 1 .. N
    BY DEF Under
  <2> QED BY <1>1, <1>5, <1>6, <2>1
<1> QED BY <1>7, <1>8, <1>9, <1>10, <1>11, <1>12 DEF TreeAt

\* from s to r, some of the nodes of A are freed, and once
Frees(ns, s, r, A) ==
  /\ Pruned(ns, r)
  /\ \A n \in DOMAIN ns : \/ r.frees[n] = s.frees[n]
                          \/ n \in A /\ r.frees[n] = s.frees[n] + 1
\* all of them are, and links are cut within B
Whole(ns, s, C) == \A n \in C : SameLinks(s.nodes[n], ns[n])
Clears(ns, s, r, A, B) ==
  /\ \A n \in A : r.frees[n] = s.frees[n] + 1
  /\ \A n \in DOMAIN ns \ B : SameLinks(r.nodes[n], s.nodes[n])
FreedFrom(ns, s, r, d) ==
  /\ Frees(ns, s, r, Below(ns, d))
  /\ (Single(ns) /\ Whole(ns, s, Family(ns, d))) =>
       Clears(ns, s, r, Below(ns, d), Family(ns, d))

\* A child of d is freed after what is below it.
LEMMA ChildFreed ==
  ASSUME NEW ns, Nodes(ns), NEW d \in DOMAIN ns, TreeAt(ns, d), NEW c \in Children(ns, d),
         TreeAt(ns, c), NEW s, Pruned(ns, s), NEW r0, FreedFrom(ns, s, r0, c), NEW r,
         r = CutNext(Detach(r0, d, c), d) \/ r = CutSub(Detach(r0, d, c), d)
  PROVE  /\ Frees(ns, s, r, Family(ns, c))
         /\ (Single(ns) /\ Whole(ns, s, Family(ns, c))) =>
              /\ Clears(ns, s, r, Family(ns, c), {d} \cup Family(ns, c))
              /\ r = CutSub(Detach(r0, d, c), d) => r.nodes[d].next = s.nodes[d].next
<1>1. PICK N \in Nat : N = Len(ns) /\ DOMAIN ns = 1 .. N /\ ns \in Seq(Depl)
  BY DEF Nodes
<1>2. /\ c \in 1 .. N /\ d \notin Family(ns, c) /\ ns[c].prev \in DOMAIN ns
      /\ Single(ns) => ns[c].prev = d
  BY <1>1 DEF TreeAt
<1>3. c \notin Below(ns, c) /\ Below(ns, c) \subseteq 1 .. N
  BY <1>1 DEF TreeAt
<1>4. Frees(ns, s, r0, Below(ns, c)) /\ Pruned(ns, r0)
  BY DEF FreedFrom, Frees
<1>5. PICK r1 : r1 = Detach(r0, d, c)
  OBVIOUS
<1>6. PICK xs, fr :
        /\ r1 = [nodes |-> xs, frees |-> fr] /\ Trimmed(ns, xs)
        /\ fr \in Seq(Nat) /\ Len(fr) = N
        /\ \A n \in 1 .. N : fr[n] = r0.frees[n] + IF n = c THEN 1 ELSE 0
        /\ ns[c].prev = d => xs = r0.nodes
  <2>1. /\ r1 = [nodes |-> r1.nodes, frees |-> r1.frees]
        /\ Trimmed(ns, r1.nodes)
        /\ r1.frees \in Seq(Nat) /\ Len(r1.frees) = Len(ns)
        /\ \A n \in DOMAIN ns : r1.frees[n] = r0.frees[n] + IF n = c THEN 1 ELSE 0
        /\ ns[c].prev = d => r1.nodes = r0.nodes
    BY <1>1, <1>2, <1>4, <1>5, DetachIs
  <2> QED BY <1>1, <2>1
<1>7. PICK ys : /\ r = [nodes |-> ys, frees |-> fr]
                /\ \/ ys = [xs EXCEPT ![d].next = NULL]
                   \/ ys = [xs EXCEPT ![d].sub = NULL]
                /\ r = CutSub(r1, d) => ys = [xs EXCEPT ![d].sub = NULL]
  <2>1. CASE r = CutNext(r1, d) /\ r # CutSub(r1, d)
    <3>1. r = [r1 EXCEPT !.nodes[d].next = NULL]
      BY <2>1 DEF CutNext
    <3> QED BY <1>6, <2>1, <3>1
  <2>2. CASE r = CutSub(r1, d)
    <3>1. r = [r1 EXCEPT !.nodes[d].sub = NULL]
      BY <2>2 DEF CutSub
    <3> QED BY <1>6, <3>1
  <2> QED BY <1>5, <2>1, <2>2
<1>8. /\ Trimmed(ns, ys)
      /\ \A n \in 1 .. N : n # d => SameLinks(ys[n], xs[n])
      /\ ys = [xs EXCEPT ![d].sub = NULL] => ys[d].next = xs[d].next
  <2>1. /\ Trimmed(ns, ys)
        /\ \A n \in DOMAIN ns : n # d => SameLinks(ys[n], xs[n])
        /\ ys = [xs EXCEPT ![d].sub = NULL] => ys[d].next = xs[d].next
    <3>1. ns \in Seq(Depl) /\ Trimmed(ns, xs) /\ d \in DOMAIN ns
      BY <1>1, <1>6
    <3>2. ys = [xs EXCEPT ![d].next = NULL] \/ ys = [xs EXCEPT ![d].sub = NULL]
      BY <1>7
    <3> QED BY ONLY <3>1, <3>2, CutIs
  <2> QED BY <1>1, <2>1
<1>9. r.nodes = ys /\ r.frees = fr
  BY <1>7
<1>10. Pruned(ns, r)
  <2>1. ys \in Seq(Depl)
    BY <1>8 DEF Trimmed
  <2>2. r \in Walks
    BY <1>6, <1>7, <2>1 DEF Walks
  <2> QED BY <1>1, <1>6, <1>8, <1>9, <2>2 DEF Pruned
<1>11. \A n \in 1 .. N : s.frees[n] \in Nat /\ r0.frees[n] \in Nat
  <2>1. /\ s.frees \in Seq(Nat) /\ Len(s.frees) = N
        /\ r0.frees \in Seq(Nat) /\ Len(r0.frees) = N
    BY <1>1, <1>4 DEF Pruned, Walks
  <2> QED BY <2>1
<1>12. Frees(ns, s, r, Family(ns, c))
  <2> SUFFICES ASSUME NEW n \in 1 .. N
               PROVE  \/ r.frees[n] = s.frees[n]
                      \/ n \in Family(ns, c) /\ r.frees[n] = s.frees[n] + 1
    BY <1>1, <1>10 DEF Frees
  <2>1. \/ r0.frees[n] = s.frees[n]
        \/ n \in Below(ns, c) /\ r0.frees[n] = s.frees[n] + 1
    BY <1>1, <1>4 DEF Frees
  <2>2. CASE n = c
    <3>1. r0.frees[n] = s.frees[n]
      BY <1>3, <2>1, <2>2
    <3> QED BY <1>6, <1>9, <2>2, <3>1 DEF Family
  <2>3. CASE n # c
    <3>1. r.frees[n] = r0.frees[n]
      BY <1>6, <1>9, <1>11, <2>3
    <3> QED BY <2>1, <3>1 DEF Family
  <2> QED BY <2>2, <2>3
<1>13. ASSUME Single(ns), Whole(ns, s, Family(ns, c))
       PROVE  /\ Clears(ns, s, r, Family(ns, c), {d} \cup Family(ns, c))
              /\ r = CutSub(r1, d) => r.nodes[d].next = s.nodes[d].next
  <2>1. Clears(ns, s, r0, Below(ns, c), Family(ns, c))
    BY <1>13 DEF FreedFrom
  <2>2. xs = r0.nodes
    BY <1>2, <1>6, <1>13
  <2>3. \A n \in Family(ns, c) : r.frees[n] = s.frees[n] + 1
    <3> SUFFICES ASSUME NEW n \in Family(ns, c) PROVE r.frees[n] = s.frees[n] + 1
      OBVIOUS
    <3>1. n \in 1 .. N
      BY <1>2, <1>3 DEF Family
    <3>2. CASE n = c
      <4>1. r0.frees[n] = s.frees[n]
        BY <1>1, <1>3, <1>4, <3>1, <3>2 DEF Frees
      <4> QED BY <1>6, <1>9, <3>1, <3>2, <4>1
    <3>3. CASE n # c
      <4>1. r0.frees[n] = s.frees[n] + 1
        BY <2>1, <3>3 DEF Clears, Family
      <4> QED BY <1>6, <1>9, <1>11, <3>1, <3>3, <4>1
    <3> QED BY <3>2, <3>3
  <2>4. \A n \in DOMAIN ns : n \notin Family(ns, c) => SameLinks(xs[n], s.nodes[n])
    BY <2>1, <2>2 DEF Clears
  <2>5. \A n \in DOMAIN ns : n # d /\ n \notin Family(ns, c) => SameLinks(ys[n], s.nodes[n])
    BY <1>1, <1>8, <2>4 DEF SameLinks
  <2>6. Clears(ns, s, r, Family(ns, c), {d} \cup Family(ns, c))
    BY <1>9, <2>3, <2>5 DEF Clears
  <2>7. ASSUME r = CutSub(r1, d)
        PROVE  r.nodes[d].next = s.nodes[d].next
    BY <1>2, <1>7, <1>8, <1>9, <2>4, <2>7 DEF SameLinks
  <2> QED BY <2>6, <2>7
<1> QED BY <1>5, <1>12, <1>13

\* The walk from d, when the walks from its children free what is below them.
LEMMA FreeOneFrees ==
  ASSUME NEW ns, Nodes(ns), NEW d \in DOMAIN ns, \A n \in DOMAIN ns : TreeAt(ns, n),
         NEW s, Pruned(ns, s), NEW k, k # 0, NEW w,
         \A x : Pruned(ns, x) =>
           \A c \in Children(ns, d) : FreedFrom(ns, x, w[x][c], c)
  PROVE  FreedFrom(ns, s, FreeOne(k, w, s, d), d)
<1>1. PICK N \in Nat : N = Len(ns) /\ DOMAIN ns = 1 .. N
  BY DEF Nodes
<1>2. TreeAt(ns, d) /\ \A c \in Children(ns, d) : TreeAt(ns, c)
  <2>1. TreeAt(ns, d)
    OBVIOUS
  <2> QED BY <2>1 DEF TreeAt
<1>3. \A x : Pruned(ns, x) =>
        /\ x.nodes[d].next \in {NULL, ns[d].next} /\ x.nodes[d].sub \in {NULL, ns[d].sub}
        /\ \A n \in DOMAIN ns : x.frees[n] \in Nat
  <2> SUFFICES ASSUME NEW x, Pruned(ns, x)
               PROVE  /\ x.nodes[d].next \in {NULL, ns[d].next}
                      /\ x.nodes[d].sub \in {NULL, ns[d].sub}
                      /\ \A n \in DOMAIN ns : x.frees[n] \in Nat
    OBVIOUS
  <2>1. x.frees \in Seq(Nat) /\ Len(x.frees) = N
    BY <1>1 DEF Pruned, Walks
  <2> QED BY <1>1, <2>1 DEF Pruned, Trimmed
<1>4. PICK sub : sub = s.nodes[d].sub
  OBVIOUS
<1>5. sub # NULL => sub = ns[d].sub /\ sub \in Children(ns, d)
  BY <1>3, <1>4 DEF Children
<1>6. PICK a : a = IF sub = NULL THEN s
                   ELSE CutSub(Detach(w[s][sub], d, sub), d)
  OBVIOUS
<1>7. PICK A : A = IF sub = NULL THEN {} ELSE Family(ns, sub)
  OBVIOUS
<1>8. /\ Frees(ns, s, a, A)
      /\ (Single(ns) /\ Whole(ns, s, A)) =>
           Clears(ns, s, a, A, {d} \cup A) /\ a.nodes[d].next = s.nodes[d].next
  <2>1. CASE sub = NULL
    <3>1. a = s /\ A = {}
      BY <1>6, <1>7, <2>1
    <3> QED BY <3>1 DEF Frees, Clears, SameLinks
  <2>2. CASE sub # NULL
    <3>1. PICK r0 : r0 = w[s][sub] /\ FreedFrom(ns, s, r0, sub)
      BY <1>5, <2>2
    <3>2. a = CutSub(Detach(r0, d, sub), d) /\ A = Family(ns, sub)
      BY <1>6, <1>7, <2>2, <3>1
    <3>3. sub \in Children(ns, d) /\ TreeAt(ns, sub)
      BY <1>2, <1>5, <2>2
    <3>4. /\ Frees(ns, s, a, Family(ns, sub))
          /\ (Single(ns) /\ Whole(ns, s, Family(ns, sub))) =>
               /\ Clears(ns, s, a, Family(ns, sub), {d} \cup Family(ns, sub))
               /\ a = CutSub(Detach(r0, d, sub), d) =>
                    a.nodes[d].next = s.nodes[d].next
      <4>1. /\ Nodes(ns) /\ d \in DOMAIN ns /\ TreeAt(ns, d) /\ sub \in Children(ns, d)
            /\ TreeAt(ns, sub) /\ Pruned(ns, s) /\ FreedFrom(ns, s, r0, sub)
            /\ a = CutNext(Detach(r0, d, sub), d) \/ a = CutSub(Detach(r0, d, sub), d)
        BY <1>2, <3>1, <3>2, <3>3
      <4> QED BY ONLY <4>1, ChildFreed
    <3> QED BY <3>2, <3>4
  <2> QED BY <2>1, <2>2
<1>9. Pruned(ns, a)
  BY <1>8 DEF Frees
<1>10. PICK next : next = a.nodes[d].next
  OBVIOUS
<1>11. next # NULL => next = ns[d].next /\ next \in Children(ns, d)
  BY <1>3, <1>9, <1>10 DEF Children
<1>12. PICK r : r = IF next = NULL THEN a
                    ELSE CutNext(Detach(w[a][next], d, next), d)
  OBVIOUS
<1>13. PICK B : B = IF next = NULL THEN {} ELSE Family(ns, next)
  OBVIOUS
<1>14. /\ Frees(ns, a, r, B)
       /\ (Single(ns) /\ Whole(ns, a, B)) => Clears(ns, a, r, B, {d} \cup B)
  <2>1. CASE next = NULL
    <3>1. r = a /\ B = {}
      BY <1>12, <1>13, <2>1
    <3> QED BY <1>9, <3>1 DEF Frees, Clears, SameLinks
  <2>2. CASE next # NULL
    <3>1. PICK r0 : r0 = w[a][next] /\ FreedFrom(ns, a, r0, next)
      BY <1>9, <1>11, <2>2
    <3>2. r = CutNext(Detach(r0, d, next), d) /\ B = Family(ns, next)
      BY <1>12, <1>13, <2>2, <3>1
    <3>3. next \in Children(ns, d) /\ TreeAt(ns, next)
      BY <1>2, <1>11, <2>2
    <3> QED BY <1>2, <1>9, <3>1, <3>2, <3>3, ChildFreed
  <2> QED BY <2>1, <2>2
<1>15. FreeOne(k, w, s, d) = r
  <2>1. a = FreeSub(w, s, d)
    BY <1>4, <1>6 DEF FreeSub
  <2>2. r = FreeNext(w, a, d)
    BY <1>10, <1>12 DEF FreeNext
  <2> QED BY <2>1, <2>2 DEF FreeOne
<1>16. /\ A \cap B = {} /\ A \subseteq Below(ns, d) /\ B \subseteq Below(ns, d)
       /\ Below(ns, d) \subseteq DOMAIN ns /\ d \notin Below(ns, d)
  <2>1. A \subseteq Below(ns, d) /\ B \subseteq Below(ns, d)
    BY <1>2, <1>5, <1>7, <1>11, <1>13 DEF TreeAt
  <2>2. A \cap B = {}
    <3>1. (sub # NULL /\ next # NULL) => next # sub
      BY <1>2, <1>5, <1>11 DEF TreeAt
    <3>2. (sub # NULL /\ next # NULL) => Family(ns, sub) \cap Family(ns, next) = {}
      BY <1>2, <1>5, <1>11, <3>1 DEF TreeAt
    <3> QED BY <1>7, <1>13, <3>2
  <2> QED BY <1>2, <2>1, <2>2 DEF TreeAt
<1>17. Frees(ns, s, r, Below(ns, d))
  <2>1. Pruned(ns, r)
    BY <1>14 DEF Frees
  <2>2. ASSUME NEW n \in DOMAIN ns
        PROVE  \/ r.frees[n] = s.frees[n]
               \/ n \in Below(ns, d) /\ r.frees[n] = s.frees[n] + 1
    <3>1. \/ a.frees[n] = s.frees[n]
          \/ n \in A /\ a.frees[n] = s.frees[n] + 1
      BY <1>8 DEF Frees
    <3>2. \/ r.frees[n] = a.frees[n]
          \/ n \in B /\ r.frees[n] = a.frees[n] + 1
      BY <1>14 DEF Frees
    <3> QED BY <1>16, <3>1, <3>2
  <2> QED BY <2>1, <2>2 DEF Frees
<1>18. ASSUME Single(ns), Whole(ns, s, Family(ns, d))
       PROVE  Clears(ns, s, r, Below(ns, d), Family(ns, d))
  <2>1. Whole(ns, s, A)
    BY <1>16, <1>18 DEF Whole, Family
  <2>2. Clears(ns, s, a, A, {d} \cup A) /\ a.nodes[d].next = s.nodes[d].next
    BY <1>8, <1>18, <2>1
  <2>3. Whole(ns, a, B)
    <3> SUFFICES ASSUME NEW n \in B PROVE SameLinks(a.nodes[n], ns[n])
      BY DEF Whole
    <3>1. n \in DOMAIN ns /\ n \notin {d} \cup A /\ n \in Family(ns, d)
      BY <1>16 DEF Family
    <3>2. SameLinks(a.nodes[n], s.nodes[n])
      BY <2>2, <3>1 DEF Clears
    <3>3. SameLinks(s.nodes[n], ns[n])
      BY <1>18, <3>1 DEF Whole
    <3> QED BY <3>2, <3>3 DEF SameLinks
  <2>4. Clears(ns, a, r, B, {d} \cup B)
    BY <1>14, <1>18, <2>3
  <2>5. sub = ns[d].sub /\ next = ns[d].next
    <3>1. SameLinks(s.nodes[d], ns[d])
      BY <1>18 DEF Whole, Family
    <3> QED BY <1>4, <1>10, <2>2, <3>1 DEF SameLinks
  <2>6. \A n \in Below(ns, d) : n \in A \/ n \in B
    <3> SUFFICES ASSUME NEW n \in Below(ns, d) PROVE n \in A \/ n \in B
      OBVIOUS
    <3>1. PICK c \in Children(ns, d) : n \in Family(ns, c)
      BY <1>2 DEF TreeAt
    <3>2. c # NULL /\ (c = sub \/ c = next)
      BY <2>5 DEF Children
    <3> QED BY <1>7, <1>13, <3>1, <3>2
  <2>7. \A n \in Below(ns, d) : r.frees[n] = s.frees[n] + 1
    <3> SUFFICES ASSUME NEW n \in Below(ns, d) PROVE r.frees[n] = s.frees[n] + 1
      OBVIOUS
    <3>1. n \in DOMAIN ns
      BY <1>16
    <3>2. CASE n \in A
      <4>1. n \notin B /\ a.frees[n] = s.frees[n] + 1
        BY <1>16, <2>2, <3>2 DEF Clears
      <4>2. r.frees[n] = a.frees[n]
        BY <1>14, <3>1, <4>1 DEF Frees
      <4> QED BY <4>1, <4>2
    <3>3. CASE n \in B
      <4>1. n \notin A /\ r.frees[n] = a.frees[n] + 1
        BY <1>16, <2>4, <3>3 DEF Clears
      <4>2. a.frees[n] = s.frees[n]
        BY <1>8, <3>1, <4>1 DEF Frees
      <4> QED BY <4>1, <4>2
    <3> QED BY <2>6, <3>2, <3>3
  <2>8. \A n \in DOMAIN ns \ Family(ns, d) : SameLinks(r.nodes[n], s.nodes[n])
    <3> SUFFICES ASSUME NEW n \in DOMAIN ns, n \notin Family(ns, d)
                 PROVE  SameLinks(r.nodes[n], s.nodes[n])
      OBVIOUS
    <3>1. n # d /\ n \notin A /\ n \notin B
      BY <1>16 DEF Family
    <3>2. SameLinks(r.nodes[n], a.nodes[n]) /\ SameLinks(a.nodes[n], s.nodes[n])
      BY <2>2, <2>4, <3>1 DEF Clears
    <3> QED BY <3>2 DEF SameLinks
  <2> QED BY <2>7, <2>8 DEF Clears
<1> QED BY <1>15, <1>17, <1>18 DEF FreedFrom

\* A walk deep enough frees what is below the node that it starts from.
LEMMA FreedDeep ==
  ASSUME NEW ns, Nodes(ns), \A n \in DOMAIN ns : TreeAt(ns, n), NEW depth \in Nat,
         NEW f, \A k \in 0 .. depth : f[k] = FreeLayer(k, f[k - 1])
  PROVE  \A k \in 0 .. depth : \A d \in DOMAIN ns : Len(ns) - d <= k =>
           \A s : Pruned(ns, s) => FreedFrom(ns, s, f[k][s][d], d)
<1>1. PICK N \in Nat : N = Len(ns) /\ DOMAIN ns = 1 .. N
  BY DEF Nodes
<1> DEFINE Good(k) == \A d \in DOMAIN ns : N - d <= k =>
                        \A s : Pruned(ns, s) => FreedFrom(ns, s, f[k][s][d], d)
           Bad == {k \in 0 .. depth : ~Good(k)}
<1>2. \A k \in 0 .. depth : \A s : Pruned(ns, s) => \A d \in DOMAIN ns :
        f[k][s][d] = FreeOne(k, f[k - 1], s, d)
  <2> SUFFICES ASSUME NEW k \in 0 .. depth, NEW s, Pruned(ns, s), NEW d \in DOMAIN ns
               PROVE  f[k][s][d] = FreeOne(k, f[k - 1], s, d)
    OBVIOUS
  <2>1. s \in Walks /\ d \in Nat
    BY <1>1 DEF Pruned
  <2>2. f[k] = FreeLayer(k, f[k - 1])
    OBVIOUS
  <2> QED BY <2>1, <2>2 DEF FreeLayer
<1>3. ASSUME Bad # {} PROVE FALSE
  <2>1. PICK k \in Bad : \A j \in Bad : k <= j
    <3>1. Bad \subseteq Nat
      OBVIOUS
    <3> HIDE DEF Bad
    <3> QED BY <1>3, <3>1, LeastOf
  <2>2. k \in 0 .. depth /\ ~Good(k)
    BY <2>1
  <2>3. PICK d : d \in DOMAIN ns /\ N - d <= k
                 /\ \E s : Pruned(ns, s) /\ ~FreedFrom(ns, s, f[k][s][d], d)
    BY <2>2
  <2>4. PICK s : Pruned(ns, s) /\ ~FreedFrom(ns, s, f[k][s][d], d)
    BY <2>3
  <2>5. f[k][s][d] = FreeOne(k, f[k - 1], s, d)
    BY <1>2, <2>2, <2>3, <2>4
  <2>6. TreeAt(ns, d)
    BY <2>3
  <2>7. CASE k = 0
    <3>1. f[k][s][d] = s
      BY <2>5, <2>7 DEF FreeOne
    <3>2. Below(ns, d) = {}
      <4>1. d = N
        BY <1>1, <2>3, <2>4, <2>7
      <4>2. \A c \in Children(ns, d) : c \in 1 .. N /\ c > d
        BY <1>1, <2>6 DEF TreeAt
      <4>3. Children(ns, d) = {}
        BY <4>1, <4>2
      <4> QED BY <2>6, <4>3 DEF TreeAt
    <3> QED BY <2>3, <2>4, <3>1, <3>2 DEF FreedFrom, Frees, Clears, SameLinks
  <2>8. CASE k # 0
    <3>1. k - 1 \in 0 .. depth /\ k - 1 \notin Bad
      BY <2>1, <2>2, <2>8
    <3>2. Good(k - 1)
      BY <3>1
    <3>3. \A x : Pruned(ns, x) =>
            \A c \in Children(ns, d) : FreedFrom(ns, x, f[k - 1][x][c], c)
      <4> SUFFICES ASSUME NEW x, Pruned(ns, x), NEW c \in Children(ns, d)
                   PROVE  FreedFrom(ns, x, f[k - 1][x][c], c)
        OBVIOUS
      <4>1. c \in 1 .. N /\ c > d
        BY <1>1, <2>6 DEF TreeAt
      <4>2. N - c <= k - 1
        BY <1>1, <2>2, <2>3, <2>4, <4>1
      <4> QED BY <1>1, <3>2, <4>1, <4>2
    <3>4. PICK w : w = f[k - 1]
      OBVIOUS
    <3>5. FreedFrom(ns, s, FreeOne(k, w, s, d), d)
      BY <2>3, <2>4, <2>8, <3>3, <3>4, FreeOneFrees
    <3> QED BY <2>3, <2>4, <2>5, <3>4, <3>5
  <2> QED BY <2>7, <2>8
<1> HIDE DEF Good
<1>4. \A k \in 0 .. depth : Good(k)
  BY <1>3
<1> QED BY <1>1, <1>4 DEF Good

\* Freeing everything frees no move twice and, unless some move has two
\* variations, every move.
LEMMA FreedOnce ==
  ASSUME NEW ns, Nodes(ns), Linked(ns), Woven(ns), m \in DOMAIN ns
  PROVE  \A n \in DOMAIN ns : /\ FreeEverything(ns)[n] <= 1
                              /\ Single(ns) => FreeEverything(ns)[n] = 1
<1>1. PICK N \in Nat : N = Len(ns) /\ DOMAIN ns = 1 .. N /\ ns \in Seq(Depl)
  BY DEF Nodes
<1>2. 1 \in 1 .. N /\ N >= 1
  BY <1>1
<1>3. First(ns, m) = 1
  BY FirstIs
<1>4. \A n \in DOMAIN ns : TreeAt(ns, n)
  BY WovenTree
<1>5. PICK f : /\ FreeBelow(N) = f[N]
               /\ \A k \in 0 .. N : f[k] = FreeLayer(k, f[k - 1])
  BY <1>1, FreeBelowIs
<1>6. PICK zero : zero = [n \in DOMAIN ns |-> 0]
  OBVIOUS
<1>7. PICK s : s = [nodes |-> ns, frees |-> zero]
  OBVIOUS
<1>8. s.nodes = ns /\ s.frees = zero
  BY <1>7
<1>9. Pruned(ns, s)
  <2>1. zero \in Seq(Nat) /\ Len(zero) = N
    <3>1. zero \in [1 .. N -> Nat]
      BY <1>1, <1>6
    <3> QED BY <3>1
  <2>2. s \in Walks
    BY <1>1, <1>7, <2>1 DEF Walks
  <2>3. Trimmed(ns, ns)
    BY <1>1 DEF Trimmed
  <2> QED BY <1>1, <1>8, <2>1, <2>2, <2>3 DEF Pruned
<1>10. PICK r : r = FreeBelow(N)[s][1]
  OBVIOUS
<1>11. FreedFrom(ns, s, r, 1)
  <2>1. \A k \in 0 .. N : \A d \in DOMAIN ns : Len(ns) - d <= k =>
          \A x : Pruned(ns, x) => FreedFrom(ns, x, f[k][x][d], d)
    BY <1>1, <1>4, <1>5, FreedDeep
  <2>2. N \in 0 .. N /\ 1 \in DOMAIN ns /\ Len(ns) - 1 <= N
    BY <1>1, <1>2
  <2>3. FreedFrom(ns, s, f[N][s][1], 1)
    BY <1>9, <2>1, <2>2
  <2> QED BY <1>5, <1>10, <2>3
<1>12. Below(ns, 1) = 2 .. N
  <2>1. PICK K : K = Kids(ns)
    OBVIOUS
  <2>2. Sprouts(N, K)
    BY <1>1, <2>1, WovenSprouts
  <2>3. \A n \in 2 .. N : \E p \in 1 .. N : n \in K[p]
    BY <1>1, <2>1 DEF Woven, Kids
  <2>4. Under(N, K, 1) = 2 .. N
    BY <1>2, <2>2, <2>3, AllUnder
  <2> QED BY <1>1, <2>1, <2>4 DEF Below
<1>13. \A n \in 1 .. N : r.frees[n] = 0 \/ (n \in 2 .. N /\ r.frees[n] = 1)
  BY <1>1, <1>6, <1>8, <1>11, <1>12 DEF FreedFrom, Frees
<1>14. Single(ns) => \A n \in 2 .. N : r.frees[n] = 1
  <2> SUFFICES ASSUME Single(ns), NEW n \in 2 .. N PROVE r.frees[n] = 1
    OBVIOUS
  <2>1. Whole(ns, s, Family(ns, 1))
    BY <1>8 DEF Whole, SameLinks
  <2>2. r.frees[n] = s.frees[n] + 1
    BY <1>11, <1>12, <2>1 DEF FreedFrom, Clears
  <2>3. s.frees[n] = 0
    BY <1>1, <1>6, <1>8
  <2> QED BY <2>2, <2>3
<1>15. PICK fr : fr = r.frees /\ fr = [n \in 1 .. N |-> fr[n]]
  <2>1. r.frees \in Seq(Nat) /\ Len(r.frees) = N
    BY <1>1, <1>11 DEF FreedFrom, Frees, Pruned, Walks
  <2> QED BY <2>1
<1>16. FreeEverything(ns) = [fr EXCEPT ![1] = @ + 1]
  BY <1>1, <1>3, <1>6, <1>7, <1>10, <1>15, Zenon DEF FreeEverything
<1>17. \A n \in 1 .. N : FreeEverything(ns)[n] = IF n = 1 THEN 1 ELSE fr[n]
  <2>1. fr[1] = 0
    BY <1>2, <1>13, <1>15
  <2> QED BY <1>2, <1>15, <1>16, <2>1
<1> SUFFICES ASSUME NEW n \in 1 .. N
             PROVE  /\ FreeEverything(ns)[n] <= 1
                    /\ Single(ns) => FreeEverything(ns)[n] = 1
  BY <1>1
<1>18. n = 1 \/ n \in 2 .. N
  BY <1>1
<1> QED BY <1>13, <1>14, <1>15, <1>17, <1>18

-----------------------------------------------------------------------------
(* The header.                                                             *)
\* Each text begins with a header, that ends by saying who moves.
LEMMA TextFacts ==
  ASSUME NEW o \in Texts, NEW h, h = o.header
  PROVE  /\ o.white \in BOOLEAN /\ Len(h) \in Nat /\ Len(h) >= 1
         /\ \A k \in 1 .. Len(h) : h[k] \in HeaderTokens
         /\ h[Len(h)] \in FirstMove(o.white)
         /\ o.board = Setup(h)[Len(h)].board
<1>1. /\ o.white \in BOOLEAN /\ h \in Seq(HeaderTokens) /\ h # <<>>
      /\ Last(h) \in FirstMove(o.white) /\ o.board = Setup(h)[Len(h)].board
  BY TextsAssumption
<1>2. Len(h) \in Nat /\ Len(h) >= 1 /\ \A k \in 1 .. Len(h) : h[k] \in HeaderTokens
  <2> HIDE DEF HeaderTokens
  <2> QED BY <1>1, EmptySeq
<1> QED BY <1>1, <1>2 DEF Last

\* The usual men stand on a board.
LEMMA StandardBoard == Board(Standard)
<1>1. \A s \in {1, 2, 7, 8} \X (1 .. 8) : Standard[s] \in Men
  <2> SUFFICES ASSUME NEW x \in {1, 2, 7, 8}, NEW y \in 1 .. 8
               PROVE  Standard[<<x, y>>] \in Men
    OBVIOUS
  <2>1. <<x, y>> \in {1, 2, 7, 8} \X (1 .. 8)
    OBVIOUS
  <2>2. PICK p : p = <<ROOK, KNIGHT, BISHOP, QUEEN, KING, BISHOP, KNIGHT, ROOK>>[y]
    OBVIOUS
  <2>3. p \in Pieces /\ PAWN \in Pieces
    BY <2>2 DEF Pieces, KING, QUEEN, ROOK, BISHOP, KNIGHT, PAWN
  <2>4. Standard[<<x, y>>] = Man(IF x \in {2, 7} THEN PAWN ELSE p,
                                 IF x <= 2 THEN WHITE ELSE BLACK)
    BY <2>1, <2>2 DEF Standard
  <2> QED BY <2>3, <2>4 DEF Man, Men
<1>2. DOMAIN Standard = {1, 2, 7, 8} \X (1 .. 8)
  BY DEF Standard
<1>3. Standard = [s \in DOMAIN Standard |-> Standard[s]]
  BY DEF Standard
<1>4. DOMAIN Standard \subseteq Squares
  BY <1>2 DEF Squares
<1> QED BY <1>1, <1>2, <1>3, <1>4 DEF Board

\* A man of the header is a node of the tree that moves nothing.
ConfiguredBy(t, put) ==
  /\ config.on /\ nodes' = Chained(put) /\ m' = Len(nodes) + 1
  /\ tos' = Put(tos, put.to, Man(put.piece, config.side))
  /\ said' = NoMove /\ UNCHANGED config /\ t.to \in Squares
  /\ put \in Depl /\ put.next = NULL /\ put.sub = NULL /\ put.prev = m
  /\ put.type = MOVE /\ put.from = Off /\ put.to = t.to
  /\ put.piece = (IF t.piece = VOID THEN PAWN ELSE t.piece) /\ put.piece \in Pieces

\* The values that a man of the header has.
LEMMA HeaderFacts ==
  Squares \subseteq Places /\ Off \in Places /\ MOVE \in Types /\ PAWN \in Pieces
BY DEF Squares, Places, Off, Types, MOVE, NONE, PROM_ET_PRISE, Pieces, KING, PAWN

\* Configure adds such a node (configure, add_trailing_move).
LEMMA ConfiguredNode ==
  ASSUME Nodes(nodes), m \in DOMAIN nodes, NEW t \in HeaderTokens, t.keyword = "", Configure(t)
  PROVE  \E put : ConfiguredBy(t, put)
<1>1. PICK d, put : /\ d = Parsed(AddTrailingMove, t)
                    /\ put = IF d.piece = VOID THEN [d EXCEPT !.piece = PAWN] ELSE d
  OBVIOUS
<1>2. /\ config.on /\ nodes' = Chained(put) /\ m' = Len(nodes) + 1
      /\ tos' = Put(tos, put.to, Man(put.piece, config.side))
      /\ said' = NoMove /\ UNCHANGED config
  BY <1>1 DEF Configure
<1>3. /\ t.piece \in Pieces \cup {VOID} /\ t.from = Off /\ t.cross = FALSE
      /\ t.to \in Squares /\ t.promotion = VOID
  BY DEF HeaderTokens, Word, Written
<1>4. AddTrailingMove \in Depl /\ AddTrailingMove.next = NULL /\ AddTrailingMove.sub = NULL
      /\ AddTrailingMove.prev = m
  BY TrailingMove
<1>5. /\ d \in Depl /\ d.next = NULL /\ d.sub = NULL /\ d.prev = m
      /\ d.type = MOVE /\ d.from = Off /\ d.to = t.to /\ d.piece = t.piece
  <2>1. d = [InitParse(AddTrailingMove) EXCEPT !.piece = t.piece, !.from = Off,
               !.to = t.to, !.prise = VOID, !.promotion = VOID, !.type = MOVE]
    BY <1>1, <1>3 DEF Parsed
  <2>2. t.to \in Places /\ Off \in Places /\ MOVE \in Types
    BY <1>3, HeaderFacts
  <2>3. PICK a \in Depl : a = AddTrailingMove /\ a.next = NULL /\ a.sub = NULL /\ a.prev = m
    BY <1>4
  <2>4. d = [InitParse(a) EXCEPT !.piece = t.piece, !.from = Off,
               !.to = t.to, !.prise = VOID, !.promotion = VOID, !.type = MOVE]
    BY <2>1, <2>3
  <2> QED BY ZenonT(30), <1>3, <2>2, <2>3, <2>4 DEF Depl, InitParse
<1>6. PICK piece : piece = IF t.piece = VOID THEN PAWN ELSE t.piece
  OBVIOUS
<1>7. piece \in Pieces
  BY <1>3, <1>6, HeaderFacts
<1>8. /\ put \in Depl /\ put.next = NULL /\ put.sub = NULL /\ put.prev = m
      /\ put.type = MOVE /\ put.from = Off /\ put.to = t.to /\ put.piece = piece
  <2>1. CASE d.piece = VOID
    <3>1. put = [d EXCEPT !.piece = piece]
      BY <1>1, <1>5, <1>6, <2>1
    <3> QED BY <1>5, <1>7, <3>1 DEF Depl
  <2>2. CASE d.piece # VOID
    BY <1>1, <1>5, <1>6, <2>2
  <2> QED BY <2>1, <2>2
<1> QED BY <1>2, <1>3, <1>6, <1>7, <1>8 DEF ConfiguredBy

\* What one token of the header does.
LEMMA HeaderStep ==
  ASSUME IInv, ReadHeader, NEW o, o = text.opening, NEW h, h = o.header,
         NEW k, k = text.read
  PROVE  /\ o \in Texts /\ k \in Nat /\ k < Len(h)
         /\ text' \in [opening : Texts, read : Nat] /\ text'.opening = o /\ text'.read = k + 1
         /\ Nodes(nodes') /\ Linked(nodes') /\ Blank(nodes') /\ m' \in DOMAIN nodes'
         /\ Board(tos') /\ config' \in [on : BOOLEAN, side : {WHITE, BLACK, VOID}]
         /\ config'.on => config'.side # VOID
         /\ Setup(h)[k + 1] = [board |-> tos', side |-> config'.side]
         /\ said' = NoMove
         /\ h[k + 1] \in FirstMove(o.white) =>
              /\ nodes'[m'].whiteturn = (~o.white)
              /\ nodes'[m'].move = IF o.white THEN 0 ELSE 1
<1>1. /\ text \in [opening : Texts, read : Nat] /\ InHeader
      /\ text' = [text EXCEPT !.read = @ + 1]
  BY DEF IInv, TypeOK, ReadHeader
<1>2. o \in Texts /\ k \in Nat /\ k < Len(h) /\ Len(h) \in Nat
  BY <1>1, TextFacts DEF InHeader
<1>3. text' \in [opening : Texts, read : Nat] /\ text'.opening = o /\ text'.read = k + 1
  BY <1>1
<1>4. /\ Nodes(nodes) /\ Linked(nodes) /\ Blank(nodes) /\ m \in DOMAIN nodes
      /\ Board(tos) /\ config \in [on : BOOLEAN, side : {WHITE, BLACK, VOID}]
      /\ config.on => config.side # VOID
      /\ Setup(h)[k] = [board |-> tos, side |-> config.side]
  BY <1>1 DEF IInv, TypeOK, Tree, SettingUp, Nodes, Links
<1>5. PICK t : t = h[k + 1] /\ t \in HeaderTokens
  BY <1>2, TextFacts
<1>6. Setup(h)[k + 1] = SetupBy(t, [board |-> tos, side |-> config.side])
  <2>1. k + 1 \in 0 .. Len(h) /\ k + 1 # 0 /\ k + 1 - 1 = k
    BY <1>2
  <2> QED BY <1>2, <1>4, <1>5, <2>1, SetupIs DEF SetupAt
<1>7. \/ t.keyword # "" /\ Keyword(t.keyword)
      \/ t.keyword = "" /\ Configure(t)
  BY <1>5 DEF ReadHeader
<1>8. ASSUME t \in FirstMove(o.white)
      PROVE  IF o.white THEN t.keyword \in {"startplay", "whitesmove"}
             ELSE t.keyword = "blacksmove"
  BY <1>8 DEF FirstMove, Word, Written
<1>9. 1 \in DOMAIN nodes
  BY <1>4 DEF Nodes
<1>10. CASE /\ t.keyword \in {"startplay", "whitesmove", "blacksmove"}
            /\ config' = IF t.keyword = "startplay" THEN [config EXCEPT !.on = FALSE] ELSE config
            /\ nodes' = [nodes EXCEPT
                 ![m].move = IF t.keyword = "blacksmove" THEN 1 ELSE 0,
                 ![m].whiteturn = (t.keyword = "blacksmove")]
            /\ UNCHANGED <<tos, m>> /\ said' = NoMove
  <2>1. PICK w \in BOOLEAN, v \in Nat : /\ w = (t.keyword = "blacksmove")
                                        /\ v = IF t.keyword = "blacksmove" THEN 1 ELSE 0
    OBVIOUS
  <2>2. nodes' = [nodes EXCEPT ![m].move = v, ![m].whiteturn = w]
    BY <1>10, <2>1
  <2>3. Nodes(nodes') /\ Linked(nodes') /\ Blank(nodes')
    BY <1>4, <2>2, Renumbered
  <2>4. m' \in DOMAIN nodes' /\ nodes'[m'].whiteturn = w /\ nodes'[m'].move = v
    <3>1. nodes[m] \in Depl
      BY <1>4 DEF Nodes
    <3>2. m' = m /\ DOMAIN nodes' = DOMAIN nodes
      BY <1>10, <2>2
    <3>3. nodes'[m] = [nodes[m] EXCEPT !.move = v, !.whiteturn = w]
      BY <1>4, <2>2
    <3> QED BY <1>4, <3>1, <3>2, <3>3 DEF Depl
  <2>5. /\ config' \in [on : BOOLEAN, side : {WHITE, BLACK, VOID}]
        /\ config'.side = config.side /\ (config'.on => config.on)
    BY <1>4, <1>10
  <2>6. Setup(h)[k + 1] = [board |-> tos', side |-> config'.side]
    <3>1. SetupBy(t, [board |-> tos, side |-> config.side])
          = [board |-> tos, side |-> config.side]
      BY <1>10 DEF SetupBy
    <3> QED BY <1>6, <1>10, <2>5, <3>1
  <2>7. t \in FirstMove(o.white) => /\ nodes'[m'].whiteturn = (~o.white)
                                    /\ nodes'[m'].move = IF o.white THEN 0 ELSE 1
    <3>1. o.white \in BOOLEAN
      BY <1>2, TextFacts
    <3> QED BY <1>8, <2>1, <2>4, <3>1
  <2> QED BY <1>2, <1>3, <1>4, <1>5, <1>10, <2>3, <2>4, <2>5, <2>6, <2>7
<1>11. ASSUME FreeMoveList
       PROVE  Nodes(nodes') /\ Linked(nodes') /\ Blank(nodes') /\ m' \in DOMAIN nodes'
  <2>1. nodes' = <<[nodes[1] EXCEPT !.next = NULL, !.sub = NULL]>> /\ m' = 1
    BY <1>11 DEF FreeMoveList
  <2>2. PICK w \in BOOLEAN, v \in Nat : w = FALSE /\ v = 0
    OBVIOUS
  <2>3. Nodes(nodes') /\ Linked(nodes') /\ Blank(nodes')
    BY <1>4, <2>1, Renumbered
  <2>4. m' \in DOMAIN nodes'
    <3>1. PICK x : nodes' = <<x>>
      BY <2>1
    <3> QED BY <2>1, <3>1
  <2> QED BY <2>3, <2>4
<1>12. CASE /\ t.keyword \in {"configwhite", "configblack"}
            /\ config' = [on |-> TRUE,
                           side |-> IF t.keyword = "configwhite" THEN WHITE ELSE BLACK]
            /\ FreeMoveList /\ UNCHANGED tos /\ said' = NoMove
  <2>1. /\ config' \in [on : BOOLEAN, side : {WHITE, BLACK, VOID}]
        /\ config'.side # VOID
    BY <1>12 DEF WHITE, BLACK, VOID
  <2>2. Setup(h)[k + 1] = [board |-> tos', side |-> config'.side]
    <3>1. SetupBy(t, [board |-> tos, side |-> config.side])
          = [board |-> tos, side |-> config'.side]
      BY <1>12 DEF SetupBy
    <3> QED BY <1>6, <1>12, <3>1
  <2>3. t \notin FirstMove(o.white)
    BY <1>8, <1>12
  <2> QED BY <1>2, <1>3, <1>4, <1>5, <1>11, <1>12, <2>1, <2>2, <2>3
<1>13. CASE /\ t.keyword \in {"clearboard", "default"}
            /\ tos' = IF t.keyword = "clearboard" THEN Take(tos, DOMAIN tos) ELSE Standard
            /\ FreeMoveList /\ UNCHANGED config /\ said' = NoMove
  <2>1. Board(tos')
    BY <1>4, <1>13, BoardOps, StandardBoard
  <2>2. Setup(h)[k + 1] = [board |-> tos', side |-> config'.side]
    <3>1. CASE t.keyword = "clearboard"
      <4>1. PICK e : e = [s \in {} |-> NoMan]
        OBVIOUS
      <4>2. tos' = e
        <5>1. IsTake(tos, DOMAIN tos, tos')
          BY <1>13, <3>1, TakeIs
        <5>2. DOMAIN tos' = {} /\ IsFcn(tos')
          BY <5>1 DEF IsTake
        <5>3. DOMAIN e = {} /\ IsFcn(e)
          BY <4>1 DEF IsFcn
        <5> QED BY <5>2, <5>3, SameFcn
      <4>3. SetupBy(t, [board |-> tos, side |-> config.side])
            = [board |-> e, side |-> config.side]
        BY <3>1, <4>1 DEF SetupBy
      <4> QED BY <1>6, <1>13, <4>2, <4>3
    <3>2. CASE t.keyword = "default"
      <4>1. SetupBy(t, [board |-> tos, side |-> config.side])
              = [board |-> Standard, side |-> config.side]
        BY <3>2 DEF SetupBy
      <4>2. tos' = Standard
        BY <1>13, <3>2
      <4> QED BY <1>6, <1>13, <4>1, <4>2
    <3> QED BY <1>13, <3>1, <3>2
  <2>3. t \notin FirstMove(o.white)
    BY <1>8, <1>13
  <2> QED BY <1>2, <1>3, <1>4, <1>5, <1>11, <1>13, <2>1, <2>2, <2>3
<1>14. CASE t.keyword = "" /\ Configure(t)
  <2>1. PICK put : ConfiguredBy(t, put)
    BY <1>4, <1>5, <1>14, ConfiguredNode
  <2>2. /\ config.on /\ nodes' = Chained(put) /\ m' = Len(nodes) + 1
        /\ tos' = Put(tos, put.to, Man(put.piece, config.side))
        /\ said' = NoMove /\ UNCHANGED config
    BY <2>1 DEF ConfiguredBy
  <2>3. t.to \in Squares
    BY <2>1 DEF ConfiguredBy
  <2>6. PICK piece : piece = IF t.piece = VOID THEN PAWN ELSE t.piece
    OBVIOUS
  <2>8. /\ put \in Depl /\ put.next = NULL /\ put.sub = NULL /\ put.prev = m
        /\ put.type = MOVE /\ put.from = Off /\ put.to = t.to /\ put.piece = piece
    BY <2>1, <2>6 DEF ConfiguredBy
  <2>7. piece \in Pieces
    BY <2>1, <2>6 DEF ConfiguredBy
  <2>9. Nodes(nodes') /\ Linked(nodes') /\ Blank(nodes') /\ m' \in DOMAIN nodes'
    <3>1. PICK ns1 : ns1 = [nodes EXCEPT ![m].next = Len(nodes) + 1]
      OBVIOUS
    <3>2. nodes' = Append(ns1, put)
      BY <2>2, <3>1 DEF Chained
    <3>3. ~IsMove(put) /\ put.type # NONE
      BY <2>8 DEF IsMove, NONE, MOVE
    <3>4. /\ Nodes(nodes') /\ Linked(nodes') /\ Blank(nodes') /\ Len(nodes') = Len(nodes) + 1
      <4>1. LinkedTo(nodes, m, ns1)
        BY <3>1 DEF LinkedTo
      <4>2. Addable(nodes, put)
        BY <1>4, <2>8, <3>3 DEF Addable
      <4>3. GrownBy(nodes, put, nodes')
        BY <1>4, <3>2, <4>1, <4>2, Grown
      <4> QED BY <1>4, <2>8, <4>3 DEF GrownBy
    <3>5. m' \in DOMAIN nodes'
      <4>1. Len(nodes) \in Nat /\ DOMAIN nodes' = 1 .. Len(nodes')
        BY <1>4, <3>4 DEF Nodes
      <4> QED BY <2>2, <3>4, <4>1
    <3> QED BY <3>4, <3>5
  <2>10. config.side \in {WHITE, BLACK}
    BY <1>4, <2>2
  <2>11. Board(tos')
    <3>1. Man(piece, config.side) \in Men
      BY <2>7, <2>10 DEF Man, Men
    <3> QED BY <1>4, <2>2, <2>3, <2>8, <3>1, BoardOps
  <2>12. Setup(h)[k + 1] = [board |-> tos', side |-> config'.side]
    <3>1. SetupBy(t, [board |-> tos, side |-> config.side])
            = [board |-> Put(tos, t.to, Man(piece, config.side)), side |-> config.side]
      BY <1>14, <2>6 DEF SetupBy
    <3> QED BY <1>6, <2>2, <2>8, <3>1
  <2>13. t \notin FirstMove(o.white)
    BY <1>8, <1>14
  <2> QED BY <1>2, <1>3, <1>4, <1>5, <2>2, <2>9, <2>11, <2>12, <2>13
<1>15. CASE Keyword(t.keyword)
  BY <1>10, <1>12, <1>13, <1>15 DEF Keyword
<1> QED BY <1>7, <1>14, <1>15

-----------------------------------------------------------------------------
(* The game: what a node more leaves true of the others.                   *)
\* Taking back depends on what is moved, not on the links.
LEMMA UndoSame ==
  ASSUME NEW d, NEW e, e.type = d.type, e.from = d.from, e.to = d.to,
         e.piece = d.piece, e.prise = d.prise, e.whiteturn = d.whiteturn, NEW b
  PROVE  UndoMove(b, e) = UndoMove(b, d)
<1>1. RoqueRow(e) = RoqueRow(d) /\ CURCOLOR(e) = CURCOLOR(d) /\ GivenBack(b, e) = GivenBack(b, d)
      /\ OPPCOLOR(e) = OPPCOLOR(d)
  BY DEF RoqueRow, CURCOLOR, OPPCOLOR, GivenBack
<1> QED BY <1>1 DEF UndoMove

\* The parity and the number of the next ply.
LEMMA NextPly ==
  ASSUME NEW p \in Nat, NEW w, NEW v, w = (p % 2 = 1), v = (p + 1) \div 2
  PROVE  /\ (~w) = ((p + 1) % 2 = 1)
         /\ v + (IF w THEN 0 ELSE 1) = (p + 1 + 1) \div 2
<1>0. PICK q \in Nat : q = p + 1
  OBVIOUS
<1>1. CASE p % 2 = 1
  <2>1. q % 2 = 0 /\ (q + 1) \div 2 = q \div 2 /\ q \div 2 \in Nat
    BY <1>0, <1>1
  <2>2. w = TRUE /\ v = q \div 2
    BY <1>0, <1>1
  <2> QED BY <1>0, <2>1, <2>2
<1>2. CASE p % 2 # 1
  <2>1. q % 2 = 1 /\ (q + 1) \div 2 = q \div 2 + 1
    BY <1>0, <1>2
  <2>2. w = FALSE /\ v = q \div 2
    BY <1>0, <1>2
  <2> QED BY <1>0, <2>1, <2>2
<1> QED BY <1>1, <1>2

\* what stays true of a node when the tree grows
Kept(n) ==
  /\ nodes'[n].prev = nodes[n].prev /\ nodes'[n].type = nodes[n].type
  /\ IsMove(nodes'[n]) = IsMove(nodes[n])
  /\ Numbered(n) => Numbered(n)'
  /\ (IsMove(nodes[n]) /\ TakenBack(n)) => TakenBack(n)'
  /\ Replaces(n)' => Replaces(n)

\* The nodes that were there keep their place in the game.
LEMMA TreeGrows ==
  ASSUME IInv, UNCHANGED text, NEW d, GrownBy(nodes, d, nodes')
  PROVE  /\ Solves(nodes', Start', Played')
         /\ \A n \in 0 .. Len(nodes) : Played'[n] = Played[n]
         /\ Played'[Len(nodes)+1] = PlayedAt(nodes', Start, Played, Len(nodes) + 1)
         /\ \A n \in DOMAIN nodes : Kept(n)
<1>1. /\ nodes \in Seq(Depl) /\ Linked(nodes) /\ Solves(nodes, Start, Played)
      /\ \A n \in DOMAIN Played : Played[n].plies \in Nat
  BY DEF IInv, TypeOK, Tree
<1>2. /\ nodes' \in Seq(Depl) /\ Linked(nodes') /\ Extends(nodes, nodes')
      /\ Len(nodes') = Len(nodes) + 1
  BY DEF GrownBy, Nodes
<1>3. Start' = Start
  BY DEF Start
<1>4. PICK at, at2 : at = Played /\ at2 = Played' /\ at2 = PlayedIn(nodes', Start)
  BY <1>3 DEF Played
<1>5. /\ Solves(nodes', Start, at2)
      /\ \A n \in 0 .. Len(nodes) : at2[n] = at[n]
      /\ at2[Len(nodes')] = PlayedAt(nodes', Start, at, Len(nodes'))
  BY <1>1, <1>2, <1>4, PlayedExtends
<1>6. ASSUME NEW n \in DOMAIN nodes PROVE Kept(n)
  <2>1. /\ nodes'[n].prev = nodes[n].prev /\ nodes'[n].type = nodes[n].type
        /\ nodes'[n].from = nodes[n].from /\ nodes'[n].to = nodes[n].to
        /\ nodes'[n].piece = nodes[n].piece /\ nodes'[n].prise = nodes[n].prise
        /\ nodes'[n].whiteturn = nodes[n].whiteturn /\ nodes'[n].move = nodes[n].move
    BY <1>2 DEF Extends
  <2>2. IsMove(nodes'[n]) = IsMove(nodes[n])
    BY <2>1 DEF IsMove
  <2>3. DOMAIN nodes = 1 .. Len(nodes) /\ Len(nodes) \in Nat
    BY <1>1
  <2>4. n \in 0 .. Len(nodes) /\ nodes[n].prev \in 0 .. n - 1
    BY <1>1, <2>3 DEF Linked
  <2>5. \A k \in 0 .. Len(nodes) : Played'[k] = Played[k] /\ Ply(k)' = Ply(k)
    BY <1>4, <1>5 DEF Ply
  <2>6. \A k \in DOMAIN nodes : Numbered(k) => Numbered(k)'
    <3> SUFFICES ASSUME NEW k \in DOMAIN nodes, Numbered(k) PROVE Numbered(k)'
      OBVIOUS
    <3>1. nodes'[k].whiteturn = nodes[k].whiteturn /\ nodes'[k].move = nodes[k].move
      BY <1>2 DEF Extends
    <3>2. k \in 0 .. Len(nodes)
      BY <2>3
    <3>3. Ply(k)' = Ply(k)
      BY <2>5, <3>2
    <3> QED BY <3>1, <3>3 DEF Numbered
  <2>7. ASSUME IsMove(nodes[n]), TakenBack(n) PROVE TakenBack(n)'
    <3>1. /\ nodes[n].type \in {MOVE, PRISE, GRANDROQUE, PETITROQUE}
          /\ nodes[n].prev # NULL
          /\ UndoMove(Played[n].board, nodes[n]) = Played[nodes[n].prev].board
          /\ Numbered(n) /\ Numbered(nodes[n].prev)
      BY <2>7 DEF TakenBack
    <3>2. nodes[n].prev \in DOMAIN nodes /\ nodes[n].prev \in 0 .. Len(nodes)
      BY <2>3, <2>4, <3>1 DEF NULL
    <3>3. PICK k : k = nodes[n].prev /\ k \in DOMAIN nodes /\ nodes'[n].prev = k
      BY <2>1, <3>2
    <3>5. Numbered(n)' /\ Numbered(k)'
      BY <2>6, <3>1, <3>3
    <3>4. UndoMove(Played'[n].board, nodes'[n]) = Played'[nodes'[n].prev].board
      <4>1. UndoMove(Played[n].board, nodes'[n]) = UndoMove(Played[n].board, nodes[n])
        BY <2>1, UndoSame
      <4> QED BY <2>1, <2>4, <2>5, <3>1, <3>2, <4>1
    <3> QED BY <2>1, <3>1, <3>3, <3>4, <3>5 DEF TakenBack
  <2>8. Replaces(n)' => Replaces(n)
    <3>1. SUFFICES ASSUME Replaces(n)' PROVE Replaces(n)
      OBVIOUS
    <3>2. nodes'[n].type = NONE /\ IsMove(nodes'[nodes'[n].prev])
      BY <3>1 DEF Replaces
    <3>3. PICK k : k = nodes[n].prev /\ k \in DOMAIN nodes
      <4>1. nodes[n].prev # NULL
        BY <1>1, <2>1, <3>2 DEF Linked
      <4> QED BY <2>3, <2>4, <4>1 DEF NULL
    <3>4. IsMove(nodes'[k]) = IsMove(nodes[k])
      BY <1>2, <3>3 DEF Extends, IsMove
    <3> QED BY <2>1, <3>2, <3>3, <3>4 DEF Replaces
  <2> QED BY <2>1, <2>2, <2>6, <2>7, <2>8 DEF Kept
<1> QED BY <1>2, <1>3, <1>4, <1>5, <1>6

-----------------------------------------------------------------------------
(* The game: its moves.                                                    *)
\* The side to move, by the rules, is the side that the program moves.
LEMMA ToMoveIs ==
  ASSUME IInv, ~InHeader
  PROVE  /\ ToMove = CURCOLOR(AddTrailingMove) /\ ToMove \in {WHITE, BLACK}
         /\ AddTrailingMove \in Depl /\ AddTrailingMove.next = NULL
         /\ AddTrailingMove.sub = NULL /\ AddTrailingMove.prev = m
         /\ AddTrailingMove.whiteturn = ((Ply(m) + 1) % 2 = 1)
         /\ AddTrailingMove.move = (Ply(m) + 1 + 1) \div 2
         /\ Ply(m) \in Nat
<1>1. Nodes(nodes) /\ m \in DOMAIN nodes /\ Numbered(m)
  BY DEF IInv, TypeOK, Tree, Nodes, Links
<1>2. Ply(m) \in Nat
  <2>1. Played[m].plies \in Nat
    <3>1. DOMAIN Played = 0 .. Len(nodes) /\ DOMAIN nodes = 1 .. Len(nodes)
      BY <1>1 DEF IInv, Tree, Solves, Nodes
    <3>2. m \in DOMAIN Played
      BY <1>1, <3>1
    <3> QED BY <3>2 DEF IInv, Tree
  <2> QED BY <2>1 DEF Ply
<1>3. /\ AddTrailingMove \in Depl
      /\ AddTrailingMove.next = NULL /\ AddTrailingMove.sub = NULL
      /\ AddTrailingMove.prev = m
      /\ AddTrailingMove.whiteturn = (~nodes[m].whiteturn)
      /\ AddTrailingMove.move = nodes[m].move + IF nodes[m].whiteturn THEN 0 ELSE 1
  BY <1>1, TrailingMove
<1>4. PICK p, w, v : /\ p = Ply(m) /\ w = nodes[m].whiteturn /\ v = nodes[m].move
                    /\ w = (p % 2 = 1) /\ v = (p + 1) \div 2 /\ p \in Nat
  BY <1>1, <1>2 DEF Numbered
<1>5. /\ (~w) = ((p + 1) % 2 = 1)
      /\ v + (IF w THEN 0 ELSE 1) = (p + 1 + 1) \div 2
  BY <1>4, NextPly
<1>6. ToMove = IF w THEN BLACK ELSE WHITE
  <2>1. p % 2 = 0 \/ p % 2 = 1
    BY <1>4
  <2>2. CASE p % 2 = 0
    <3>0. ~(p % 2 = 1)
      BY <2>2
    <3>1. w = FALSE
      BY <1>4, <3>0, Zenon
    <3> QED BY <1>4, <2>2, <3>1 DEF ToMove
  <2>3. CASE p % 2 = 1
    <3>1. w = TRUE
      BY <1>4, <2>3
    <3> QED BY <1>4, <2>3, <3>1 DEF ToMove
  <2> QED BY <2>1, <2>2, <2>3
<1>7. CURCOLOR(AddTrailingMove) = IF w THEN BLACK ELSE WHITE
  BY <1>3, <1>4 DEF CURCOLOR
<1> QED BY <1>2, <1>3, <1>4, <1>5, <1>6, <1>7

\* A legal move of the texts is one that has been dealt with.
LEMMA LegalMoveIs ==
  ASSUME IInv, ~InHeader, NEW mv \in LegalMoves(Targets), Kind(mv) \in {"plain", "short", "long"}
  PROVE  LegalHere(tos, ToMove, mv)
<1>1. Board(tos) /\ ToMove \in {WHITE, BLACK}
  BY ToMoveIs DEF IInv
<1> QED BY <1>1, LegalIs, TargetsAssumption DEF LegalMoves

\* Making a legal move keeps the invariant.
LEMMA MoveInv ==
  ASSUME IInv, InGame, NEW mv, LegalHere(tos, ToMove, mv),
         NEW e, Made(tos, AddTrailingMove, mv, e),
         nodes' = Chained(e.d), m' = Len(nodes) + 1, tos' = e.b,
         error_flag' = (error_flag \/ ~e.ok),
         over' = IF error_flag' THEN "exit" ELSE over, Unmoved
  PROVE  IInv' /\ error_flag' = error_flag /\ tos' = After(tos, mv)
<1>1. /\ TypeOK /\ Board(tos) /\ Tree /\ SettingUp /\ ~InHeader /\ over = "no"
      /\ LineBoards /\ MadeMoves /\ NumberedHeads /\ Numbered(m)
  BY DEF IInv, InGame, Running
<1>2. Nodes(nodes) /\ Linked(nodes) /\ m \in DOMAIN nodes /\ error_flag \in BOOLEAN
  BY <1>1 DEF TypeOK, Tree, Nodes, Links
<1>3. PICK N \in Nat : N = Len(nodes) /\ DOMAIN nodes = 1 .. N
  BY <1>2 DEF Nodes
<1>4. PICK d : d = e.d
  OBVIOUS
<1>5. /\ e.ok = TRUE /\ Board(e.b) /\ e.b = After(tos, mv)
      /\ Fresh(AddTrailingMove, d) /\ Meaning(d) = mv /\ IsMove(d)
      /\ d.type \in {MOVE, PRISE, GRANDROQUE, PETITROQUE}
      /\ d.type \in Castling \/ d.from \in Squares
      /\ UndoMove(e.b, d) = tos
  BY <1>4 DEF Made
<1>6. /\ d \in Depl /\ d.next = NULL /\ d.sub = NULL /\ d.prev = m
      /\ d.whiteturn = ((Ply(m) + 1) % 2 = 1) /\ d.move = (Ply(m) + 1 + 1) \div 2
      /\ Ply(m) \in Nat
  BY <1>1, <1>5, ToMoveIs DEF Fresh
<1>7. d.type # NONE
  BY <1>5 DEF NONE, MOVE, PRISE, GRANDROQUE, PETITROQUE
<1>8. GrownBy(nodes, d, nodes')
  <2>1. PICK ns1 : ns1 = [nodes EXCEPT ![m].next = Len(nodes) + 1]
    OBVIOUS
  <2>2. nodes' = Append(ns1, d) /\ LinkedTo(nodes, m, ns1)
    BY <1>4, <2>1 DEF Chained, LinkedTo
  <2>3. Addable(nodes, d)
    BY <1>2, <1>5, <1>6, <1>7 DEF Addable
  <2> QED BY <1>2, <2>2, <2>3, Grown
<1>9. UNCHANGED text
  BY DEF Unmoved
<1>10. /\ Solves(nodes', Start', Played')
       /\ \A n \in 0 .. N : Played'[n] = Played[n]
       /\ Played'[N + 1] = PlayedAt(nodes', Start, Played, N + 1)
       /\ \A n \in 1 .. N : Kept(n)
  BY <1>3, <1>8, <1>9, TreeGrows
<1>11. /\ Nodes(nodes') /\ Linked(nodes') /\ Len(nodes') = N + 1 /\ nodes'[N + 1] = d
       /\ DOMAIN nodes' = 1 .. N + 1
  BY <1>3, <1>8 DEF GrownBy, Nodes
<1>12. Played'[N + 1] = [board |-> After(tos, mv), plies |-> Played[m].plies + 1, last |-> mv]
  <2>1. Played[m].board = tos
    BY <1>1 DEF LineBoards
  <2>2. N + 1 # NULL
    BY <1>3 DEF NULL
  <2> QED BY <1>5, <1>6, <1>7, <1>10, <1>11, <2>1, <2>2 DEF PlayedAt
<1>13. PICK k : k = m /\ k \in 1 .. N /\ k \in 0 .. N /\ m' = N + 1
  BY <1>2, <1>3
<1>14. Played'[k] = Played[k] /\ Played[k].board = tos /\ Numbered(k)'
  <2>1. Played'[k] = Played[k] /\ Kept(k) /\ Numbered(k)
    BY <1>1, <1>10, <1>13
  <2> QED BY <1>1, <1>13, <2>1 DEF LineBoards, Kept
<1>15. Numbered(N + 1)'
  <2>1. Ply(N + 1)' = Ply(m) + 1
    <3>1. Played'[N + 1].plies = Played[m].plies + 1 /\ Played[m].plies \in Nat
      <4>1. m \in DOMAIN Played
        BY <1>1, <1>2, <1>3 DEF Tree, Solves
      <4> QED BY <1>1, <1>12, <4>1 DEF Tree
    <3>2. Ply(N + 1)' = Played'[N + 1].plies + IF text.opening.white THEN 0 ELSE 1
      BY <1>9 DEF Ply
    <3> QED BY <3>1, <3>2 DEF Ply
  <2>2. nodes'[N + 1].whiteturn = ((Ply(m) + 1) % 2 = 1)
        /\ nodes'[N + 1].move = (Ply(m) + 1 + 1) \div 2
    BY <1>6, <1>11
  <2> QED BY <2>1, <2>2 DEF Numbered
<1>16. TakenBack(N + 1)'
  <2>1. d.prev = k /\ k # NULL
    BY <1>6, <1>13 DEF NULL
  <2>2. UndoMove(Played'[N + 1].board, d) = Played'[k].board
    BY <1>5, <1>12, <1>14
  <2> QED BY <1>5, <1>11, <1>14, <1>15, <2>1, <2>2 DEF TakenBack
<1>17. MadeMoves'
  <2> SUFFICES ASSUME NEW n \in 1 .. N + 1, IsMove(nodes'[n]) PROVE TakenBack(n)'
    BY <1>11 DEF MadeMoves
  <2>1. CASE n \in 1 .. N
    <3>1. Kept(n) /\ IsMove(nodes[n])
      BY <1>10, <2>1 DEF Kept
    <3>2. TakenBack(n)
      BY <1>1, <1>3, <2>1, <3>1 DEF MadeMoves
    <3> QED BY <3>1, <3>2 DEF Kept
  <2>2. CASE n = N + 1
    BY <1>16, <2>2
  <2>3. n \in 1 .. N \/ n = N + 1
    BY <1>3
  <2> QED BY <2>1, <2>2, <2>3
<1>18. NumberedHeads'
  <2> SUFFICES ASSUME NEW n \in 1 .. N + 1, Replaces(n)' PROVE Numbered(n)'
    BY <1>11 DEF NumberedHeads
  <2>1. CASE n \in 1 .. N
    <3>1. Kept(n)
      BY <1>10, <2>1
    <3>2. Numbered(n)
      BY <1>1, <1>3, <2>1, <3>1 DEF NumberedHeads, Kept
    <3> QED BY <3>1, <3>2 DEF Kept
  <2>2. CASE n = N + 1
    BY <1>15, <2>2
  <2>3. n \in 1 .. N \/ n = N + 1
    BY <1>3
  <2> QED BY <2>1, <2>2, <2>3
<1>19. DOMAIN Played' = 0 .. N + 1 /\ DOMAIN Played = 0 .. N
  BY <1>1, <1>3, <1>10, <1>11 DEF Solves, Tree
<1>20. LineBoards'
  <2>1. \A n \in DOMAIN Played' : Board(Played'[n].board)
    <3> SUFFICES ASSUME NEW n \in 0 .. N + 1 PROVE Board(Played'[n].board)
      BY <1>19
    <3>1. CASE n \in 0 .. N
      BY <1>1, <1>10, <1>19, <3>1 DEF LineBoards
    <3>2. CASE n = N + 1
      BY <1>5, <1>12, <3>2
    <3>3. n \in 0 .. N \/ n = N + 1
      BY <1>3
    <3> QED BY <3>1, <3>2, <3>3
  <2>2. tos' = Played'[N + 1].board
    BY <1>5, <1>12
  <2>3. stack' = stack /\ stack \in Seq(Range(stack))
    BY <1>1 DEF Unmoved, LineBoards
  <2>4. ASSUME NEW l \in DOMAIN stack
        PROVE  IsMove(nodes'[stack[l].d]) /\ stack[l].b = Played'[stack[l].d].board
    <3>1. PICK x : x = stack[l].d /\ x \in 1 .. N /\ x \in 0 .. N
      BY <1>1, <1>3 DEF TypeOK
    <3>2. IsMove(nodes[x]) /\ stack[l].b = Played[x].board
      BY <1>1, <3>1 DEF LineBoards
    <3>3. Kept(x) /\ Played'[x] = Played[x]
      BY <1>10, <3>1
    <3> QED BY <3>1, <3>2, <3>3 DEF Kept
  <2> QED BY <1>13, <2>1, <2>2, <2>3, <2>4 DEF LineBoards
<1>21. Tree'
  <2>1. \A n \in DOMAIN Played' : Played'[n].plies \in Nat
    <3> SUFFICES ASSUME NEW n \in 0 .. N + 1 PROVE Played'[n].plies \in Nat
      BY <1>19
    <3>0. \A j \in 0 .. N : Played[j].plies \in Nat
      BY <1>1, <1>19 DEF Tree
    <3>1. CASE n \in 0 .. N
      BY <1>10, <3>0, <3>1
    <3>2. CASE n = N + 1
      <4>1. Played'[n].plies = Played[m].plies + 1
        BY <1>12, <3>2
      <4>2. m \in 0 .. N
        BY <1>13
      <4> QED BY <3>0, <4>1, <4>2
    <3>3. n \in 0 .. N \/ n = N + 1
      BY <1>3
    <3> QED BY <3>1, <3>2, <3>3
  <2>2. \A n \in DOMAIN nodes' : nodes'[n].type = NONE => ~IsMove(nodes'[n])
    BY <1>11 DEF Nodes
  <2> QED BY <1>10, <1>11, <2>1, <2>2 DEF Tree
<1>22. SettingUp' /\ ~InHeader'
  BY <1>1, <1>9 DEF SettingUp, InHeader, Unmoved
<1>23. m' \in DOMAIN nodes' /\ Numbered(m)'
  <2>1. m' \in DOMAIN nodes'
    BY <1>3, <1>11, <1>13
  <2>2. /\ nodes'[N + 1].whiteturn = (Ply(N + 1)' % 2 = 1)
        /\ nodes'[N + 1].move = (Ply(N + 1)' + 1) \div 2
    BY <1>15 DEF Numbered
  <2>3. Ply(m)' = Ply(N + 1)'
    BY <1>13 DEF Ply
  <2> QED BY <1>13, <2>1, <2>2, <2>3 DEF Numbered
<1>24. error_flag' = error_flag /\ over' \in {"no", "exit"}
  BY <1>1, <1>2, <1>5
<1>25. TypeOK'
  <2>1. /\ text' \in [opening : Texts, read : Nat] /\ text'.read <= Len(text'.opening.header)
        /\ Len(stack') <= VARIATION_MAX /\ stack' = stack
        /\ config' \in [on : BOOLEAN, side : {WHITE, BLACK, VOID}]
        /\ error_flag' \in BOOLEAN /\ over' \in {"no", "exit", "end"}
        /\ frees' = <<>>
    BY <1>1, <1>9, <1>24 DEF TypeOK, Unmoved
  <2>2. \A l \in DOMAIN stack' : stack'[l].d \in DOMAIN nodes'
    <3>1. \A l \in DOMAIN stack : stack[l].d \in 1 .. N
      BY <1>1, <1>3 DEF TypeOK
    <3>2. 1 .. N \subseteq 1 .. N + 1
      BY <1>3
    <3> QED BY <1>11, <2>1, <3>1, <3>2
  <2>3. /\ DOMAIN tos' \subseteq Squares
        /\ \A s \in DOMAIN tos' : tos'[s].piece \in Pieces /\ tos'[s].color \in {WHITE, BLACK}
    BY <1>5 DEF Board, Men
  <2>4. /\ nodes' \in Seq(Depl)
        /\ \A n \in DOMAIN nodes' :
             /\ {nodes'[n].next, nodes'[n].prev, nodes'[n].sub} \subseteq 0 .. Len(nodes')
             /\ IsMove(nodes'[n]) => nodes'[n].type \in Castling \/ nodes'[n].from \in Squares
    BY <1>11 DEF Nodes
  <2> QED BY <1>23, <2>1, <2>2, <2>3, <2>4 DEF TypeOK, Links
<1>26. Board(tos')
  BY <1>5
<1> QED BY <1>5, <1>17, <1>18, <1>20, <1>21, <1>22, <1>23, <1>24, <1>25,
          <1>26 DEF IInv

-----------------------------------------------------------------------------
(* The game: its variations.                                               *)
\* d is the head of a variation on node k
HeadOf(k, d) ==
  /\ d \in Depl /\ d.next = NULL /\ d.sub = NULL /\ d.prev = k
  /\ d.type = NONE /\ d.from = Off
Headed(d) ==
  nodes' = Append([nodes EXCEPT ![LastSub(m)].sub = Len(nodes) + 1], d)

\* what the head d, added on node k, which follows p, leaves of the N nodes before
HeadOn(N, k, p, d) ==
  /\ Tree' /\ MadeMoves' /\ Nodes(nodes')
  /\ \A n \in DOMAIN Played' : Board(Played'[n].board)
  /\ N \in Nat /\ DOMAIN nodes = 1 .. N /\ DOMAIN nodes' = 1 .. N + 1
  /\ Len(nodes') = N + 1 /\ nodes'[N + 1] = d /\ k \in 1 .. N
  /\ \A n \in 0 .. N : Played'[n] = Played[n]
  /\ \A n \in 1 .. N : Kept(n)
  /\ p \in 0 .. N /\ Played'[N + 1] = Played[p]
  /\ \A n \in 1 .. N : Replaces(n)' => Numbered(n)'

\* The head of a variation is added.
LEMMA HeadAdded ==
  ASSUME IInv, ~InHeader, UNCHANGED text, NEW N, N = Len(nodes),
         NEW k, k = m, NEW p, p = nodes[k].prev, NEW d, HeadOf(k, d), Headed(d)
  PROVE  HeadOn(N, k, p, d)
<1>0. PICK ns1 : ns1 = [nodes EXCEPT ![LastSub(m)].sub = Len(nodes) + 1]
  OBVIOUS
<1>00. /\ d \in Depl /\ d.next = NULL /\ d.sub = NULL /\ d.prev = k
       /\ d.type = NONE /\ d.from = Off /\ nodes' = Append(ns1, d)
  BY <1>0 DEF HeadOf, Headed
<1>1. /\ TypeOK /\ Tree /\ LineBoards /\ MadeMoves /\ NumberedHeads
      /\ Nodes(nodes) /\ Linked(nodes) /\ k \in DOMAIN nodes
  BY DEF IInv, TypeOK, Tree, Nodes, Links
<1>2. N \in Nat /\ DOMAIN nodes = 1 .. N
  BY <1>1 DEF Nodes
<1>3. ~IsMove(d)
  BY <1>00 DEF IsMove
<1>4. GrownBy(nodes, d, nodes')
  <2>1. Addable(nodes, d)
    BY <1>00, <1>1, <1>3 DEF Addable
  <2>2. PICK j : j = LastSub(m)
    OBVIOUS
  <2>3. LinkedTo(nodes, j, ns1)
    BY <1>0, <2>2 DEF LinkedTo
  <2> QED BY <1>00, <1>1, <2>1, <2>3, Grown
<1>5. /\ Solves(nodes', Start', Played')
      /\ \A n \in 0 .. N : Played'[n] = Played[n]
      /\ Played'[N + 1] = PlayedAt(nodes', Start, Played, N + 1)
      /\ \A n \in 1 .. N : Kept(n)
  BY <1>2, <1>4, TreeGrows
<1>6. /\ Nodes(nodes') /\ Linked(nodes') /\ Len(nodes') = N + 1 /\ nodes'[N + 1] = d
      /\ DOMAIN nodes' = 1 .. N + 1
  <2>1. Nodes(nodes') /\ Linked(nodes') /\ Len(nodes') = N + 1 /\ nodes'[N + 1] = d
    BY <1>4 DEF GrownBy
  <2>2. nodes' \in Seq(Depl)
    BY <2>1 DEF Nodes
  <2> QED BY <2>1, <2>2
<1>7. p \in 0 .. N
  <2>1. k \in 1 .. N /\ p \in 0 .. k - 1
    BY <1>1, <1>2 DEF Linked
  <2> QED BY <1>2, <2>1
<1>8. Played'[N + 1] = Played[p]
  <2>1. nodes'[k].prev = p
    BY <1>1, <1>2, <1>5 DEF Kept
  <2>2. N + 1 # NULL
    BY <1>2 DEF NULL
  <2> QED BY <1>00, <1>5, <1>6, <2>1, <2>2 DEF PlayedAt
<1>9. DOMAIN Played' = 0 .. N + 1 /\ DOMAIN Played = 0 .. N
  BY <1>1, <1>2, <1>5, <1>6 DEF Solves, Tree
<1>10. ASSUME NEW n \in DOMAIN Played'
       PROVE  Board(Played'[n].board) /\ Played'[n].plies \in Nat
  <2>1. \A j \in 0 .. N : Board(Played[j].board) /\ Played[j].plies \in Nat
    BY <1>1, <1>9 DEF LineBoards, Tree
  <2>2. CASE n \in 0 .. N
    BY <1>5, <2>1, <2>2
  <2>3. CASE n = N + 1
    BY <1>7, <1>8, <2>1, <2>3
  <2>4. n \in 0 .. N \/ n = N + 1
    BY <1>2, <1>9
  <2> QED BY <2>2, <2>3, <2>4
<1>11. Tree'
  <2>1. \A n \in DOMAIN nodes' : nodes'[n].type = NONE => ~IsMove(nodes'[n])
    BY <1>6 DEF Nodes
  <2> QED BY <1>5, <1>6, <1>10, <2>1 DEF Tree
<1>12. MadeMoves'
  <2> SUFFICES ASSUME NEW n \in 1 .. N + 1, IsMove(nodes'[n]) PROVE TakenBack(n)'
    BY <1>6 DEF MadeMoves
  <2>1. n \in 1 .. N
    <3>1. n # N + 1
      BY <1>3, <1>6
    <3> QED BY <1>2, <3>1
  <2>2. Kept(n) /\ IsMove(nodes[n])
    BY <1>5, <2>1 DEF Kept
  <2>3. TakenBack(n)
    BY <1>1, <1>2, <2>1, <2>2 DEF MadeMoves
  <2> QED BY <2>2, <2>3 DEF Kept
<1>13. ASSUME NEW n \in 1 .. N, Replaces(n)' PROVE Numbered(n)'
  <2>1. Kept(n)
    BY <1>5
  <2>2. Numbered(n)
    BY <1>1, <1>2, <1>13, <2>1 DEF NumberedHeads, Kept
  <2> QED BY <2>1, <2>2 DEF Kept
<1> QED BY <1>1, <1>2, <1>5, <1>6, <1>7, <1>8, <1>10, <1>11, <1>12, <1>13 DEF HeadOn

\* A variation entered adds a head on the current move.
LEMMA EnterAdds ==
  ASSUME IInv, EnterVariation, ~TooDeep
  PROVE  \E d : HeadOf(m, d) /\ Headed(d)
<1>1. Nodes(nodes) /\ Linked(nodes) /\ m \in DOMAIN nodes
  BY DEF IInv, TypeOK, Tree, Nodes, Links
<1>2. NewMove \in Depl /\ NewMove.next = NULL /\ NewMove.sub = NULL
      /\ NewMove.type = NONE /\ NewMove.from = Off
  BY DEF NewMove, Depl, NULL, NONE, Types, PROM_ET_PRISE, VOID, Off, Places
<1>3. PICK k, p, P : k = m /\ p = nodes[k].prev /\ P = nodes[p] /\ k \in Nat
  BY <1>1 DEF Nodes
<1>4. CASE nodes[m].prev = NULL
  <2>1. PICK d : d = [NewMove EXCEPT !.prev = k]
    OBVIOUS
  <2>2. Headed(d)
    BY <1>3, <1>4, <2>1 DEF EnterVariation, Headed
  <2>3. HeadOf(k, d)
    BY <1>2, <1>3, <2>1 DEF HeadOf, Depl
  <2> QED BY <1>3, <2>2, <2>3
<1>5. CASE nodes[m].prev # NULL
  <2>1. P \in Depl
    <3>1. p \in 0 .. k - 1 /\ p # 0
      BY <1>1, <1>3, <1>5 DEF Linked, NULL
    <3>2. p \in DOMAIN nodes
      BY <1>1, <1>3, <3>1 DEF Nodes
    <3> QED BY <1>1, <1>3, <3>2 DEF Nodes
  <2>2. PICK d : d = [NewMove EXCEPT !.prev = k, !.whiteturn = P.whiteturn, !.move = P.move]
    OBVIOUS
  <2>3. Headed(d)
    BY <1>3, <1>5, <2>2 DEF EnterVariation, AddVariation, Headed
  <2>4. HeadOf(k, d)
    BY ZenonT(30), <1>2, <1>3, <2>1, <2>2 DEF HeadOf, Depl
  <2> QED BY <1>3, <2>3, <2>4
<1> QED BY <1>4, <1>5

\* The levels left keep their boards when the tree grows.
LEMMA LevelsKept ==
  ASSUME TypeOK, LineBoards, NEW N, DOMAIN nodes = 1 .. N, N \in Nat,
         \A n \in 0 .. N : Played'[n] = Played[n], \A n \in 1 .. N : Kept(n)
  PROVE  \A l \in DOMAIN stack :
           /\ IsMove(nodes'[stack[l].d]) /\ stack[l].b = Played'[stack[l].d].board
           /\ stack[l].d \in 1 .. N
<1> SUFFICES ASSUME NEW l \in DOMAIN stack
             PROVE  /\ IsMove(nodes'[stack[l].d]) /\ stack[l].b = Played'[stack[l].d].board
                    /\ stack[l].d \in 1 .. N
  OBVIOUS
<1>1. PICK x : x = stack[l].d /\ x \in 1 .. N /\ x \in 0 .. N
  BY DEF TypeOK
<1>2. IsMove(nodes[x]) /\ stack[l].b = Played[x].board
  BY <1>1 DEF LineBoards
<1>3. Kept(x) /\ Played'[x] = Played[x]
  BY <1>1
<1> QED BY <1>1, <1>2, <1>3 DEF Kept

\* A sequence is one of its own members.
LEMMA SeqRange ==
  ASSUME NEW S, NEW s \in Seq(S)
  PROVE  s \in Seq(Range(s))
<1>1. s = [i \in 1 .. Len(s) |-> s[i]] /\ Len(s) \in Nat /\ DOMAIN s = 1 .. Len(s)
  OBVIOUS
<1>2. \A i \in 1 .. Len(s) : s[i] \in Range(s)
  BY <1>1 DEF Range
<1>3. s \in [1 .. Len(s) -> Range(s)]
  BY <1>1, <1>2
<1> QED BY <1>1, <1>3

\* Entering a variation keeps the invariant.
LEMMA EnterInv ==
  ASSUME IInv, EnterVariation
  PROVE  IInv'
<1>1. /\ TypeOK /\ Board(tos) /\ Tree /\ SettingUp /\ ~InHeader /\ over = "no"
      /\ LineBoards /\ MadeMoves /\ NumberedHeads /\ Numbered(m)
      /\ UNCHANGED <<text, config>> /\ said' = NoMove
      /\ IsMove(nodes[m]) \/ nodes[m].prev = NULL
  BY DEF IInv, InGame, Running, EnterVariation
<1>2. SettingUp' /\ ~InHeader'
  BY <1>1 DEF SettingUp, InHeader
<1>3. /\ text' \in [opening : Texts, read : Nat] /\ text'.read <= Len(text'.opening.header)
      /\ config' \in [on : BOOLEAN, side : {WHITE, BLACK, VOID}]
      /\ error_flag \in BOOLEAN /\ frees = <<>> /\ Len(stack) <= VARIATION_MAX
      /\ Nodes(nodes) /\ Linked(nodes) /\ m \in DOMAIN nodes
  BY <1>1 DEF TypeOK, Tree, Nodes, Links
<1>4. PICK N, k, p, ns1, P : /\ N = Len(nodes) /\ k = m /\ p = nodes[k].prev
                           /\ ns1 = [nodes EXCEPT ![LastSub(m)].sub = Len(nodes) + 1]
                           /\ P = nodes[p]
  OBVIOUS
<1>5. NewMove \in Depl /\ NewMove.next = NULL /\ NewMove.sub = NULL
      /\ NewMove.type = NONE /\ NewMove.from = Off
  BY DEF NewMove, Depl, NULL, NONE, Types, PROM_ET_PRISE, VOID, Off, Places
<1>6. CASE /\ error_flag' = TRUE
           /\ UNCHANGED <<tos, nodes, m, stack, over, frees>>
  <2>1. Start' = Start /\ Played' = Played
    BY <1>1, <1>6 DEF Start, Played
  <2>2. Tree' /\ LineBoards'
    BY <1>1, <1>6, <2>1 DEF Tree, LineBoards
  <2>3. MadeMoves' /\ NumberedHeads' /\ Numbered(m)'
    BY <1>1, <1>6, <2>1 DEF MadeMoves, NumberedHeads, Numbered, TakenBack, Replaces, Ply
  <2>4. TypeOK'
    BY <1>1, <1>3, <1>6 DEF TypeOK, Links
  <2> QED BY <1>1, <1>2, <1>6, <2>2, <2>3, <2>4 DEF IInv
<1>7. CASE /\ nodes[m].prev = NULL
           /\ nodes' = Append(ns1, [NewMove EXCEPT !.prev = m])
           /\ over' = "end" /\ UNCHANGED <<tos, m, stack, error_flag>>
  <2>1. PICK d : d = [NewMove EXCEPT !.prev = k]
    OBVIOUS
  <2>2. /\ d \in Depl /\ d.next = NULL /\ d.sub = NULL /\ d.prev = k /\ d.type = NONE
        /\ d.from = Off
    <3>1. k \in Nat
      BY <1>3, <1>4 DEF Nodes
    <3> QED BY <1>5, <2>1, <3>1 DEF Depl
  <2>3. HeadOn(N, k, p, d)
    <3>1. Headed(d) /\ HeadOf(k, d)
      BY <1>4, <1>7, <2>1, <2>2 DEF Headed, HeadOf
    <3> QED BY <1>1, <1>4, <3>1, HeadAdded
  <2>30. /\ Tree' /\ MadeMoves' /\ Nodes(nodes')
         /\ \A n \in DOMAIN Played' : Board(Played'[n].board)
         /\ N \in Nat /\ DOMAIN nodes = 1 .. N /\ DOMAIN nodes' = 1 .. N + 1
         /\ Len(nodes') = N + 1 /\ nodes'[N + 1] = d /\ k \in 1 .. N
         /\ \A n \in 0 .. N : Played'[n] = Played[n]
         /\ \A n \in 1 .. N : Kept(n)
         /\ \A n \in 1 .. N : Replaces(n)' => Numbered(n)'
    BY <2>3 DEF HeadOn
  <2>4. LineBoards'
    <3>1. \A l \in DOMAIN stack :
            IsMove(nodes'[stack[l].d]) /\ stack[l].b = Played'[stack[l].d].board
      BY <1>1, <2>30, LevelsKept
    <3>2. k \in 0 .. N /\ Played[k].board = tos
      BY <1>1, <1>4, <2>30 DEF LineBoards
    <3>3. tos' = Played'[m'].board
      BY <1>4, <1>7, <2>30, <3>2
    <3> QED BY <1>1, <1>7, <2>30, <3>1, <3>3 DEF LineBoards
  <2>5. ~Replaces(N + 1)'
    <3>1. ~IsMove(nodes[k])
      BY <1>1, <1>4, <1>7, <2>30 DEF MadeMoves, TakenBack
    <3>2. ~IsMove(nodes'[k])
      BY <2>30, <3>1 DEF Kept
    <3> QED BY <2>2, <2>30, <3>2 DEF Replaces
  <2>6. NumberedHeads'
    <3> SUFFICES ASSUME NEW n \in 1 .. N + 1, Replaces(n)' PROVE Numbered(n)'
      BY <2>30 DEF NumberedHeads
    <3>1. CASE n \in 1 .. N
      BY <2>30, <3>1
    <3>2. CASE n = N + 1
      BY <2>5, <3>2
    <3>3. n \in 1 .. N \/ n = N + 1
      BY <2>30
    <3> QED BY <3>1, <3>2, <3>3
  <2>7. Numbered(m)'
    <3>1. Numbered(k)'
      BY <1>1, <1>4, <2>30 DEF Kept
    <3> QED BY <1>4, <1>7, <3>1 DEF Numbered, Ply
  <2>8. TypeOK'
    <3>1. /\ m' \in DOMAIN nodes' /\ Len(stack') <= VARIATION_MAX
          /\ error_flag' \in BOOLEAN /\ over' \in {"no", "exit", "end"}
          /\ ~(over' # "end")
      BY <1>3, <1>4, <1>7, <2>30
    <3>2. \A l \in DOMAIN stack' : stack'[l].d \in DOMAIN nodes'
      <4>1. \A l \in DOMAIN stack : stack[l].d \in 1 .. N
        BY <1>1, <2>30 DEF TypeOK
      <4>2. 1 .. N \subseteq 1 .. N + 1
        BY <2>30
      <4> QED BY <1>7, <2>30, <4>1, <4>2
    <3>3. /\ DOMAIN tos' \subseteq Squares
          /\ \A s \in DOMAIN tos' : tos'[s].piece \in Pieces /\ tos'[s].color \in {WHITE, BLACK}
      BY <1>1, <1>7 DEF TypeOK
    <3>4. /\ nodes' \in Seq(Depl)
          /\ \A n \in DOMAIN nodes' :
               /\ {nodes'[n].next, nodes'[n].prev, nodes'[n].sub} \subseteq 0 .. Len(nodes')
               /\ IsMove(nodes'[n]) => nodes'[n].type \in Castling \/ nodes'[n].from \in Squares
      BY <2>30 DEF Nodes
    <3> QED BY <1>3, <3>1, <3>2, <3>3, <3>4 DEF TypeOK, Links
  <2>9. Board(tos')
    BY <1>1, <1>7
  <2> QED BY <1>2, <2>30, <2>4, <2>6, <2>7, <2>8, <2>9 DEF IInv
<1>8. CASE /\ Len(stack) < VARIATION_MAX /\ nodes[m].prev # NULL
           /\ stack' = Append(stack, [d |-> m, b |-> tos])
           /\ nodes' = AddVariation
           /\ m' = Len(nodes')
           /\ tos' = UndoMove(tos, nodes[m])
           /\ UNCHANGED <<error_flag, over, frees>>
  <2>0. p \in DOMAIN nodes /\ nodes[k].prev = p /\ P \in Depl /\ k \in Nat
    <3>1. k \in 1 .. N /\ DOMAIN nodes = 1 .. N /\ N \in Nat
      BY <1>3, <1>4 DEF Nodes
    <3>2. p \in 0 .. k - 1 /\ p # 0
      BY <1>3, <1>4, <1>8 DEF Linked, NULL
    <3>3. p \in DOMAIN nodes
      BY <3>1, <3>2
    <3> QED BY <1>3, <1>4, <3>1, <3>3 DEF Nodes
  <2>1. PICK d : d = [NewMove EXCEPT !.prev = k, !.whiteturn = P.whiteturn, !.move = P.move]
    OBVIOUS
  <2>2. /\ d \in Depl /\ d.next = NULL /\ d.sub = NULL /\ d.prev = k /\ d.type = NONE
        /\ d.from = Off /\ d.whiteturn = P.whiteturn /\ d.move = P.move
    BY <1>5, <2>0, <2>1 DEF Depl
  <2>3. HeadOn(N, k, p, d)
    <3>1. Headed(d) /\ HeadOf(k, d)
      BY <1>4, <1>8, <2>1, <2>2 DEF Headed, HeadOf, AddVariation
    <3> QED BY <1>1, <1>4, <3>1, HeadAdded
  <2>30. /\ Tree' /\ MadeMoves' /\ Nodes(nodes')
         /\ \A n \in DOMAIN Played' : Board(Played'[n].board)
         /\ N \in Nat /\ DOMAIN nodes = 1 .. N /\ DOMAIN nodes' = 1 .. N + 1
         /\ Len(nodes') = N + 1 /\ nodes'[N + 1] = d /\ k \in 1 .. N
         /\ \A n \in 0 .. N : Played'[n] = Played[n]
         /\ \A n \in 1 .. N : Kept(n)
         /\ p \in 0 .. N /\ Played'[N + 1] = Played[p]
         /\ \A n \in 1 .. N : Replaces(n)' => Numbered(n)'
    BY <2>3 DEF HeadOn
  <2>4. IsMove(nodes[k]) /\ TakenBack(k)
    BY <1>1, <1>3, <1>4, <1>8 DEF MadeMoves
  <2>5. tos' = Played[p].board /\ Numbered(p)
    <3>1. UndoMove(Played[k].board, nodes[k]) = Played[p].board /\ Numbered(p)
      BY <1>4, <2>4 DEF TakenBack
    <3>2. tos = Played[k].board
      BY <1>1, <1>4 DEF LineBoards
    <3> QED BY <1>4, <1>8, <3>1, <3>2
  <2>6. m' = N + 1 /\ tos' = Played'[N + 1].board /\ Board(tos')
    <3>1. N + 1 \in DOMAIN Played'
      BY <2>30 DEF Tree, Solves
    <3> QED BY <1>8, <2>30, <2>5, <3>1
  <2>7. Numbered(N + 1)'
    <3>1. P.whiteturn = (Ply(p) % 2 = 1) /\ P.move = (Ply(p) + 1) \div 2
      BY <1>4, <2>5 DEF Numbered
    <3>2. Ply(N + 1)' = Ply(p)
      BY <1>1, <2>30 DEF Ply
    <3> QED BY <2>2, <2>30, <3>1, <3>2 DEF Numbered
  <2>8. NumberedHeads'
    <3> SUFFICES ASSUME NEW n \in 1 .. N + 1, Replaces(n)' PROVE Numbered(n)'
      BY <2>30 DEF NumberedHeads
    <3>1. CASE n \in 1 .. N
      BY <2>30, <3>1
    <3>2. CASE n = N + 1
      BY <2>7, <3>2
    <3>3. n \in 1 .. N \/ n = N + 1
      BY <2>30
    <3> QED BY <3>1, <3>2, <3>3
  <2>9. Numbered(m)'
    <3>1. /\ nodes'[N + 1].whiteturn = (Ply(N + 1)' % 2 = 1)
          /\ nodes'[N + 1].move = (Ply(N + 1)' + 1) \div 2
      BY <2>7 DEF Numbered
    <3>2. Ply(m)' = Ply(N + 1)'
      BY <2>6 DEF Ply
    <3> QED BY <2>6, <3>1, <3>2 DEF Numbered
  <2>10. PICK level, L : level = [d |-> k, b |-> tos] /\ L = Len(stack)
    OBVIOUS
  <2>11. /\ stack' \in Seq(Range(stack')) /\ L \in Nat
         /\ DOMAIN stack' = 1 .. L + 1 /\ DOMAIN stack = 1 .. L /\ Len(stack') = L + 1
         /\ stack'[L + 1] = level /\ \A l \in 1 .. L : stack'[l] = stack[l]
    <3>1. PICK S : S = Range(stack) \cup {level}
      OBVIOUS
    <3>2. stack \in Seq(Range(stack))
      BY <1>1 DEF LineBoards
    <3>3. Range(stack) \subseteq S /\ level \in S
      BY <3>1
    <3>4. stack \in Seq(S)
      <4>1. PICK R : R = Range(stack)
        OBVIOUS
      <4> QED BY <3>2, <3>3, <4>1
    <3>5. stack' = Append(stack, level)
      BY <1>4, <1>8, <2>10
    <3>6. /\ stack' \in Seq(S) /\ L \in Nat
          /\ DOMAIN stack' = 1 .. L + 1 /\ DOMAIN stack = 1 .. L /\ Len(stack') = L + 1
          /\ stack'[L + 1] = level /\ \A l \in 1 .. L : stack'[l] = stack[l]
      BY <2>10, <3>3, <3>4, <3>5
    <3>7. stack' \in Seq(Range(stack'))
      BY <3>6, SeqRange
    <3> QED BY <3>6, <3>7
  <2>12. ASSUME NEW l \in DOMAIN stack'
         PROVE  /\ IsMove(nodes'[stack'[l].d]) /\ stack'[l].b = Played'[stack'[l].d].board
                /\ stack'[l].d \in DOMAIN nodes'
    <3>1. CASE l \in 1 .. L
      <4>1. PICK x : x = stack[l]
        OBVIOUS
      <4>2. IsMove(nodes'[x.d]) /\ x.b = Played'[x.d].board /\ x.d \in 1 .. N
        BY <1>1, <2>30, <2>11, <3>1, <4>1, LevelsKept
      <4>3. x.d \in DOMAIN nodes'
        BY <2>30, <4>2
      <4> QED BY <2>11, <3>1, <4>1, <4>2, <4>3
    <3>2. CASE l = L + 1
      <4>1. IsMove(nodes'[k]) /\ Played'[k] = Played[k] /\ k \in DOMAIN nodes'
        BY <2>30, <2>4 DEF Kept
      <4>2. tos = Played[k].board
        BY <1>1, <1>4 DEF LineBoards
      <4>3. stack'[l].d = k /\ stack'[l].b = tos
        BY <2>10, <2>11, <3>2
      <4> QED BY <4>1, <4>2, <4>3
    <3>3. l \in 1 .. L \/ l = L + 1
      BY <2>11
    <3> QED BY <3>1, <3>2, <3>3
  <2>13. LineBoards'
    BY <2>30, <2>6, <2>11, <2>12 DEF LineBoards
  <2>14. TypeOK'
    <3>1. /\ m' \in DOMAIN nodes' /\ Len(stack') <= VARIATION_MAX
          /\ error_flag' \in BOOLEAN /\ over' \in {"no", "exit", "end"}
          /\ frees' = <<>>
      BY <1>1, <1>3, <1>8, <2>30, <2>6, <2>10, <2>11, VariationAssumption
    <3>2. \A l \in DOMAIN stack' : stack'[l].d \in DOMAIN nodes'
      BY <2>12
    <3>3. /\ DOMAIN tos' \subseteq Squares
          /\ \A s \in DOMAIN tos' : tos'[s].piece \in Pieces /\ tos'[s].color \in {WHITE, BLACK}
      BY <2>6 DEF Board, Men
    <3>4. /\ nodes' \in Seq(Depl)
          /\ \A n \in DOMAIN nodes' :
               /\ {nodes'[n].next, nodes'[n].prev, nodes'[n].sub} \subseteq 0 .. Len(nodes')
               /\ IsMove(nodes'[n]) => nodes'[n].type \in Castling \/ nodes'[n].from \in Squares
      BY <2>30 DEF Nodes
    <3> QED BY <1>3, <3>1, <3>2, <3>3, <3>4 DEF TypeOK, Links
  <2> QED BY <1>2, <2>30, <2>6, <2>8, <2>9, <2>13, <2>14 DEF IInv
<1>9. \/ /\ error_flag' = TRUE
         /\ UNCHANGED <<tos, nodes, m, stack, over, frees>>
      \/ /\ nodes[m].prev = NULL
         /\ nodes' = Append(ns1, [NewMove EXCEPT !.prev = m])
         /\ over' = "end" /\ UNCHANGED <<tos, m, stack, error_flag>>
      \/ /\ Len(stack) < VARIATION_MAX /\ nodes[m].prev # NULL
         /\ stack' = Append(stack, [d |-> m, b |-> tos])
         /\ nodes' = AddVariation
         /\ m' = Len(nodes')
         /\ tos' = UndoMove(tos, nodes[m])
         /\ UNCHANGED <<error_flag, over, frees>>
  <2>1. CASE TooDeep
    BY <2>1 DEF EnterVariation
  <2>2. CASE ~TooDeep
    <3>1. Len(stack) < VARIATION_MAX
      <4>1. stack \in Seq(Range(stack))
        BY <1>1 DEF LineBoards
      <4>2. Len(stack) \in Nat
        BY <4>1
      <4> QED BY <2>2, <4>2, VariationAssumption DEF TooDeep
    <3>2. CASE nodes[m].prev = NULL
      BY <1>4, <2>2, <3>2, Zenon DEF EnterVariation
    <3>3. CASE nodes[m].prev # NULL
      BY <1>4, <2>2, <3>1, <3>3, Zenon DEF EnterVariation
    <3> QED BY <3>2, <3>3
  <2> QED BY <2>1, <2>2
<1> QED BY <1>6, <1>7, <1>8, <1>9

-----------------------------------------------------------------------------
(* The invariant.                                                          *)
\* It holds when a text is opened.
LEMMA InitInv == Init => IInv
<1> SUFFICES ASSUME Init PROVE IInv
  OBVIOUS
<1>1. /\ text \in [opening : Texts, read : {0}] /\ tos = Standard
      /\ nodes = <<InitParse(NewMove)>> /\ m = 1 /\ stack = <<>>
      /\ config = [on |-> FALSE, side |-> VOID] /\ error_flag = FALSE
      /\ over = "no" /\ frees = <<>>
  BY DEF Init
<1>2. PICK o, h : o = text.opening /\ h = o.header
  OBVIOUS
<1>3. o \in Texts /\ text.read = 0 /\ text \in [opening : Texts, read : Nat]
  BY <1>1, <1>2
<1>4. Len(h) \in Nat /\ Len(h) >= 1 /\ o.white \in BOOLEAN
  BY <1>2, <1>3, TextFacts
<1>5. InHeader /\ text.read <= Len(text.opening.header)
  BY <1>2, <1>3, <1>4 DEF InHeader
<1>6. PICK d : d = InitParse(NewMove)
  OBVIOUS
<1>7. /\ d \in Depl /\ d.next = NULL /\ d.prev = NULL /\ d.sub = NULL
      /\ d.type = MOVE /\ d.from = Off
  <2>0. /\ NewMove \in Depl
        /\ NewMove.next = NULL /\ NewMove.prev = NULL /\ NewMove.sub = NULL
    BY DEF NewMove, Depl, NULL, NONE, Types, PROM_ET_PRISE, VOID, Off, Places
  <2>1. PICK x \in Depl : x = NewMove /\ x.next = NULL /\ x.prev = NULL /\ x.sub = NULL
    BY <2>0
  <2>2. MOVE \in Types /\ Off \in Places
    BY DEF MOVE, Types, NONE, PROM_ET_PRISE, Off, Places
  <2>3. d = InitParse(x)
    BY <1>6, <2>1
  <2> QED BY <2>1, <2>2, <2>3 DEF InitParse, Depl
<1>8. nodes = <<d>> /\ DOMAIN nodes = {1} /\ Len(nodes) = 1 /\ nodes[1] = d
  BY <1>1, <1>6
<1>9. Nodes(nodes) /\ Linked(nodes) /\ Blank(nodes)
  <2>1. nodes \in Seq(Depl)
    BY <1>7, <1>8
  <2>2. ~IsMove(d) /\ d.type # NONE
    BY <1>7 DEF IsMove, MOVE, NONE
  <2>3. Nodes(nodes)
    BY <1>7, <1>8, <2>1, <2>2 DEF Nodes, NULL
  <2>4. Linked(nodes)
    BY <1>7, <1>8, <2>2 DEF Linked, NULL
  <2> QED BY <1>7, <1>8, <2>3, <2>4 DEF Blank
<1>10. Solves(nodes, Start, Played) /\ \A n \in 0 .. Len(nodes) : Played[n] = Start
  BY <1>9, BlankPlayed DEF Played
<1>11. Tree
  <2>1. \A n \in DOMAIN Played : Played[n].plies \in Nat
    <3>1. Start.plies = 0
      BY DEF Start
    <3>2. DOMAIN Played = 0 .. Len(nodes)
      BY <1>10 DEF Solves
    <3> QED BY <1>10, <3>1, <3>2
  <2> QED BY <1>9, <1>10, <2>1 DEF Tree, Nodes
<1>12. SettingUp
  <2>1. Setup(h)[0] = [board |-> Standard, side |-> VOID]
    BY <1>4, SetupIs DEF SetupAt
  <2> QED BY <1>1, <1>2, <1>3, <1>9, <2>1 DEF SettingUp
<1>13. Board(tos)
  BY <1>1, StandardBoard
<1>14. TypeOK
  <2>1. /\ DOMAIN tos \subseteq Squares
        /\ \A s \in DOMAIN tos : tos[s].piece \in Pieces /\ tos[s].color \in {WHITE, BLACK}
    BY <1>13 DEF Board, Men
  <2>2. /\ nodes \in Seq(Depl)
        /\ \A n \in DOMAIN nodes :
             /\ {nodes[n].next, nodes[n].prev, nodes[n].sub} \subseteq 0 .. Len(nodes)
             /\ IsMove(nodes[n]) => nodes[n].type \in Castling \/ nodes[n].from \in Squares
    BY <1>9 DEF Nodes
  <2>3. m \in DOMAIN nodes /\ Len(stack) <= VARIATION_MAX /\ DOMAIN stack = {}
    BY <1>1, <1>8, VariationAssumption
  <2>4. config \in [on : BOOLEAN, side : {WHITE, BLACK, VOID}]
    BY <1>1
  <2> QED BY <1>1, <1>3, <1>5, <2>1, <2>2, <2>3, <2>4 DEF TypeOK, Links
<1> QED BY <1>5, <1>11, <1>12, <1>13, <1>14 DEF IInv

\* Reading the header keeps it.
LEMMA HeaderInv ==
  ASSUME IInv, ReadHeader
  PROVE  IInv' /\ said' = NoMove /\ error_flag' = error_flag
<1>1. PICK o, h, k : o = text.opening /\ h = o.header /\ k = text.read
  OBVIOUS
<1>2. /\ o \in Texts /\ k \in Nat /\ k < Len(h)
      /\ text' \in [opening : Texts, read : Nat] /\ text'.opening = o /\ text'.read = k + 1
      /\ Nodes(nodes') /\ Linked(nodes') /\ Blank(nodes') /\ m' \in DOMAIN nodes'
      /\ Board(tos') /\ config' \in [on : BOOLEAN, side : {WHITE, BLACK, VOID}]
      /\ config'.on => config'.side # VOID
      /\ Setup(h)[k + 1] = [board |-> tos', side |-> config'.side]
      /\ said' = NoMove
      /\ h[k + 1] \in FirstMove(o.white) =>
           /\ nodes'[m'].whiteturn = (~o.white)
           /\ nodes'[m'].move = IF o.white THEN 0 ELSE 1
  BY <1>1, HeaderStep
<1>3. /\ InHeader /\ Running /\ over = "no" /\ stack = <<>> /\ error_flag = FALSE
      /\ frees = <<>> /\ TypeOK
  BY DEF IInv, SettingUp, ReadHeader, Running, TypeOK
<1>4. UNCHANGED <<stack, error_flag, over, frees>>
  BY DEF ReadHeader, Keyword, Configure
<1>5. /\ Len(h) \in Nat /\ Len(h) >= 1 /\ o.white \in BOOLEAN
      /\ h[Len(h)] \in FirstMove(o.white) /\ o.board = Setup(h)[Len(h)].board
  BY <1>1, <1>2, TextFacts
<1>6. text'.read <= Len(text'.opening.header)
  BY <1>1, <1>2, <1>5
<1>7. /\ Solves(nodes', Start', Played')
      /\ \A n \in 0 .. Len(nodes') : Played'[n] = Start'
      /\ DOMAIN Played' = 0 .. Len(nodes')
  <2>1. PICK st, at : st = Start' /\ at = Played' /\ at = PlayedIn(nodes', st)
    BY DEF Played
  <2>2. Solves(nodes', st, at) /\ \A n \in 0 .. Len(nodes') : at[n] = st
    BY <1>2, <2>1, BlankPlayed
  <2>3. DOMAIN at = 0 .. Len(nodes')
    BY <2>2 DEF Solves
  <2> QED BY <2>1, <2>2, <2>3
<1>8. /\ Start'.board = o.board /\ Start'.plies = 0
      /\ text'.opening.white = o.white
  BY <1>2 DEF Start
<1>9. Tree'
  <2>1. \A n \in DOMAIN Played' : Played'[n].plies \in Nat
    BY <1>7, <1>8
  <2> QED BY <1>2, <1>7, <2>1 DEF Tree, Nodes
<1>10. SettingUp'
  BY <1>1, <1>2, <1>3, <1>4 DEF SettingUp
<1>11. TypeOK'
  <2>1. /\ DOMAIN tos' \subseteq Squares
        /\ \A s \in DOMAIN tos' : tos'[s].piece \in Pieces /\ tos'[s].color \in {WHITE, BLACK}
    BY <1>2 DEF Board, Men
  <2>2. /\ nodes' \in Seq(Depl)
        /\ \A n \in DOMAIN nodes' :
             /\ {nodes'[n].next, nodes'[n].prev, nodes'[n].sub} \subseteq 0 .. Len(nodes')
             /\ IsMove(nodes'[n]) => nodes'[n].type \in Castling \/ nodes'[n].from \in Squares
    BY <1>2 DEF Nodes
  <2>3. Len(stack') <= VARIATION_MAX /\ DOMAIN stack' = {}
    BY <1>3, <1>4, VariationAssumption
  <2> QED BY <1>2, <1>3, <1>4, <1>6, <2>1, <2>2, <2>3 DEF TypeOK, Links
<1>12. ASSUME ~InHeader' PROVE (LineBoards /\ MadeMoves /\ NumberedHeads /\ Numbered(m))'
  <2>1. k + 1 = Len(h)
    BY <1>1, <1>2, <1>5, <1>12 DEF InHeader
  <2>2. tos' = o.board
    BY <1>2, <1>5, <2>1
  <2>3. ASSUME NEW n \in DOMAIN nodes'
        PROVE  ~IsMove(nodes'[n]) /\ ~Replaces(n)'
    BY <1>2, <2>3 DEF Blank, IsMove, Replaces, MOVE, NONE
  <2>4. DOMAIN nodes' = 1 .. Len(nodes') /\ Len(nodes') \in Nat
    BY <1>2 DEF Nodes
  <2>5. PICK q : q = m' /\ q \in DOMAIN nodes' /\ q \in 0 .. Len(nodes')
    BY <1>2, <2>4
  <2>6. LineBoards'
    <3>1. \A n \in DOMAIN Played' : Board(Played'[n].board)
      BY <1>2, <1>7, <1>8, <2>2
    <3>2. tos' = Played'[m'].board
      BY <1>7, <1>8, <2>2, <2>5
    <3>3. stack' = <<>> /\ <<>> \in Seq(Range(<<>>)) /\ DOMAIN <<>> = {}
      BY <1>3, <1>4
    <3> QED BY <3>1, <3>2, <3>3 DEF LineBoards
  <2>7. Numbered(m)'
    <3>1. Ply(m)' = IF o.white THEN 0 ELSE 1
      <4>1. Played'[m'].plies = 0
        BY <1>7, <1>8, <2>5
      <4> QED BY <1>8, <4>1 DEF Ply
    <3>2. /\ nodes'[m'].whiteturn = (~o.white)
          /\ nodes'[m'].move = IF o.white THEN 0 ELSE 1
      BY <1>2, <1>5, <2>1
    <3>3. CASE o.white = TRUE
      <4>1. Ply(m)' = 0 /\ nodes'[m'].whiteturn = FALSE /\ nodes'[m'].move = 0
        BY <3>1, <3>2, <3>3
      <4>2. (Ply(m)' % 2 = 1) = FALSE /\ (Ply(m)' + 1) \div 2 = 0
        BY <4>1
      <4> QED BY <4>1, <4>2 DEF Numbered
    <3>4. CASE o.white = FALSE
      <4>1. Ply(m)' = 1 /\ nodes'[m'].whiteturn = TRUE /\ nodes'[m'].move = 1
        BY <3>1, <3>2, <3>4
      <4>2. (Ply(m)' % 2 = 1) = TRUE /\ (Ply(m)' + 1) \div 2 = 1
        BY <4>1
      <4> QED BY <4>1, <4>2 DEF Numbered
    <3> QED BY <1>5, <3>3, <3>4
  <2>8. MadeMoves' /\ NumberedHeads'
    BY <2>3 DEF MadeMoves, NumberedHeads
  <2> QED BY <2>6, <2>7, <2>8
<1> QED BY <1>2, <1>4, <1>9, <1>10, <1>11, <1>12 DEF IInv

\* A move token makes a legal move, the one that the text means.
MoveMade(mv, e) ==
  /\ InGame /\ Unmoved /\ LegalHere(tos, ToMove, mv) /\ Made(tos, AddTrailingMove, mv, e)
  /\ nodes' = Chained(e.d) /\ m' = Len(nodes) + 1 /\ tos' = e.b /\ said' = mv
  /\ error_flag' = (error_flag \/ ~e.ok)
  /\ over' = IF error_flag' THEN "exit" ELSE over

\* parse_move and parse_roque make such a move.
LEMMA ParseMoveMade ==
  ASSUME IInv, OrdinaryMoves, ParseMove
  PROVE  \E mv, e : MoveMade(mv, e)
<1>1. InGame /\ ~InHeader /\ Unmoved /\ Board(tos)
  BY DEF ParseMove, InGame, IInv
<1>2. PICK mv \in LegalMoves(Targets) :
        Kind(mv) \in Allowed /\ \E t \in Notations(mv) : Play(Parsed(AddTrailingMove, t), mv)
  BY DEF ParseMove
<1>3. PICK t \in Notations(mv) : Play(Parsed(AddTrailingMove, t), mv)
  BY <1>2
<1>4. LegalHere(tos, ToMove, mv)
  BY <1>1, <1>2, LegalMoveIs DEF OrdinaryMoves
<1>5. Token(tos, mv, t)
  BY <1>1, <1>4, NotationsName
<1>6. PICK e : e = Executed(tos, Parsed(AddTrailingMove, t))
  OBVIOUS
<1>7. AddTrailingMove \in Depl /\ ToMove = CURCOLOR(AddTrailingMove)
  BY <1>1, ToMoveIs
<1>8. Made(tos, AddTrailingMove, mv, e)
  BY <1>1, <1>4, <1>5, <1>6, <1>7, TokenMade
<1>9. /\ nodes' = Chained(e.d) /\ m' = Len(nodes) + 1 /\ tos' = e.b /\ said' = mv
      /\ error_flag' = (error_flag \/ ~e.ok)
      /\ over' = IF error_flag' THEN "exit" ELSE over
  BY <1>3, <1>6 DEF Play
<1> QED BY <1>1, <1>4, <1>8, <1>9 DEF MoveMade

\* So does a token that castles.
LEMMA ParseRoqueMade ==
  ASSUME IInv, OrdinaryMoves, ParseRoque
  PROVE  \E mv, e : MoveMade(mv, e)
<1>1. InGame /\ ~InHeader /\ Unmoved /\ Board(tos)
  BY DEF ParseRoque, InGame, IInv
<1>2. PICK mv \in LegalMoves(Targets) :
        /\ mv.kind \in {"short", "long"} \cap Allowed
        /\ Play(Roque(IF mv.kind = "short" THEN PETITROQUE ELSE GRANDROQUE), mv)
  BY DEF ParseRoque
<1>3. Kind(mv) \in {"plain", "short", "long"}
  <2>1. mv.promotion = VOID
    BY <1>2 DEF LegalMoves, Legal, Plain, Castles, InPassing, Move
  <2> QED BY <1>2, <2>1 DEF Kind
<1>4. LegalHere(tos, ToMove, mv)
  BY <1>1, <1>3, LegalMoveIs
<1>5. PICK type : type = IF mv.kind = "short" THEN PETITROQUE ELSE GRANDROQUE
  OBVIOUS
<1>6. PICK e : e = Executed(tos, [InitParse(AddTrailingMove) EXCEPT !.type = type])
  OBVIOUS
<1>7. AddTrailingMove \in Depl /\ ToMove = CURCOLOR(AddTrailingMove)
  BY <1>1, ToMoveIs
<1>8. Made(tos, AddTrailingMove, mv, e)
  BY <1>1, <1>2, <1>4, <1>5, <1>6, <1>7, RoqueMade
<1>9. /\ nodes' = Chained(e.d) /\ m' = Len(nodes) + 1 /\ tos' = e.b /\ said' = mv
      /\ error_flag' = (error_flag \/ ~e.ok)
      /\ over' = IF error_flag' THEN "exit" ELSE over
  BY <1>2, <1>5, <1>6 DEF Play, Roque
<1> QED BY <1>1, <1>4, <1>8, <1>9 DEF MoveMade

\* Either token makes one.
LEMMA MoveIsMade ==
  ASSUME IInv, OrdinaryMoves, ParseMove \/ ParseRoque
  PROVE  \E mv, e : MoveMade(mv, e)
BY ParseMoveMade, ParseRoqueMade

\* The move keeps the invariant.
LEMMA ParseInv ==
  ASSUME IInv, OrdinaryMoves, ParseMove \/ ParseRoque
  PROVE  IInv' /\ error_flag' = error_flag /\ tos' = After(tos, said')
<1>1. PICK mv, e : MoveMade(mv, e)
  BY MoveIsMade
<1>2. /\ InGame /\ Unmoved /\ LegalHere(tos, ToMove, mv) /\ Made(tos, AddTrailingMove, mv, e)
      /\ nodes' = Chained(e.d) /\ m' = Len(nodes) + 1 /\ tos' = e.b /\ said' = mv
      /\ error_flag' = (error_flag \/ ~e.ok)
      /\ over' = IF error_flag' THEN "exit" ELSE over
  BY <1>1 DEF MoveMade
<1>3. IInv' /\ error_flag' = error_flag /\ tos' = After(tos, mv)
  BY <1>2, MoveInv
<1> QED BY <1>2, <1>3

\* Coming out of a variation keeps it: the move it replaces was numbered.
LEMMA ExitInv ==
  ASSUME IInv, ExitVariation
  PROVE  IInv'
<1>1. /\ TypeOK /\ Board(tos) /\ Tree /\ SettingUp /\ ~InHeader /\ over = "no"
      /\ LineBoards /\ MadeMoves /\ NumberedHeads /\ Numbered(m)
      /\ UNCHANGED <<text, nodes, config, over, frees>>
  BY DEF IInv, InGame, Running, ExitVariation
<1>2. Start' = Start /\ Played' = Played
  BY <1>1 DEF Start, Played
<1>3. Tree' /\ SettingUp' /\ ~InHeader' /\ MadeMoves' /\ NumberedHeads'
  <2>1. Tree' /\ SettingUp' /\ ~InHeader'
    BY <1>1, <1>2 DEF Tree, SettingUp, InHeader
  <2>2. \A n : /\ Numbered(n) => Numbered(n)'
               /\ Replaces(n)' => Replaces(n)
    BY <1>1, <1>2 DEF Numbered, Ply, Replaces
  <2>3. \A n : TakenBack(n) => TakenBack(n)'
    BY <1>1, <1>2, <2>2 DEF TakenBack
  <2> QED BY <1>1, <2>1, <2>2, <2>3 DEF MadeMoves, NumberedHeads
<1>4. \A n : Numbered(n) => Numbered(n)'
  BY <1>1, <1>2 DEF Numbered, Ply
<1>5. CASE error_flag' = TRUE /\ UNCHANGED <<tos, m, stack>>
  <2>1. LineBoards'
    BY <1>1, <1>2, <1>5 DEF LineBoards
  <2>2. Numbered(m)'
    <3>1. PICK k : k = m
      OBVIOUS
    <3>2. Numbered(k)'
      BY <1>1, <1>4, <3>1
    <3> QED BY <1>5, <3>1, <3>2 DEF Numbered, Ply
  <2>3. TypeOK'
    BY <1>1, <1>5 DEF TypeOK, Links
  <2> QED BY <1>1, <1>3, <1>5, <2>1, <2>2, <2>3 DEF IInv
<1>6. CASE /\ stack # <<>> /\ m' = Last(stack).d /\ tos' = Last(stack).b
           /\ stack' = Front(stack) /\ UNCHANGED error_flag
  <2>1. PICK S, L : S = Range(stack) /\ L = Len(stack)
    OBVIOUS
  <2>2. /\ stack \in Seq(S) /\ L \in Nat /\ L >= 1 /\ DOMAIN stack = 1 .. L
        /\ L <= VARIATION_MAX /\ L - 1 \in Nat
    <3>1. stack \in Seq(S) /\ stack # <<>>
      BY <1>1, <1>6, <2>1 DEF LineBoards
    <3> QED BY <1>1, <2>1, <3>1, EmptySeq DEF TypeOK
  <2>3. PICK x, b : x = stack[L].d /\ b = stack[L].b
    OBVIOUS
  <2>4. /\ x \in DOMAIN nodes /\ IsMove(nodes[x]) /\ b = Played[x].board
        /\ m' = x /\ tos' = b
    BY <1>1, <1>6, <2>1, <2>2, <2>3 DEF TypeOK, LineBoards, Last
  <2>5. /\ stack' \in Seq(S) /\ Len(stack') = L - 1 /\ DOMAIN stack' = 1 .. L - 1
        /\ \A l \in 1 .. L - 1 : stack'[l] = stack[l]
    <3>1. stack' = SubSeq(stack, 1, L - 1)
      BY <1>6, <2>1 DEF Front
    <3>2. stack' \in Seq(S)
      BY <2>2, <3>1
    <3>3. Len(stack') = L - 1 /\ \A l \in 1 .. L - 1 : stack'[l] = stack[l]
      BY <2>2, <3>1
    <3> QED BY <3>2, <3>3
  <2>6. \A l \in 1 .. L - 1 : l \in DOMAIN stack
    BY <2>2
  <2>7. DOMAIN Played = 0 .. Len(nodes) /\ DOMAIN nodes = 1 .. Len(nodes) /\ Len(nodes) \in Nat
    BY <1>1 DEF Tree, Solves, TypeOK
  <2>8. x \in DOMAIN Played
    BY <2>4, <2>7
  <2>9. Board(tos')
    BY <1>1, <2>4, <2>8 DEF LineBoards
  <2>10. LineBoards'
    <3>1. stack' \in Seq(Range(stack'))
      BY <2>5, SeqRange
    <3>2. \A l \in DOMAIN stack' : IsMove(nodes[stack'[l].d])
                                   /\ stack'[l].b = Played[stack'[l].d].board
      BY <1>1, <2>5, <2>6 DEF LineBoards
    <3>3. \A n \in DOMAIN Played : Board(Played[n].board)
      BY <1>1 DEF LineBoards
    <3> QED BY <1>1, <1>2, <2>4, <3>1, <3>2, <3>3 DEF LineBoards
  <2>11. Numbered(m)'
    <3>1. Numbered(x)'
      BY <1>1, <1>4, <2>4 DEF MadeMoves, TakenBack
    <3> QED BY <2>4, <3>1 DEF Numbered, Ply
  <2>12. TypeOK'
    <3>1. /\ DOMAIN tos' \subseteq Squares
          /\ \A s \in DOMAIN tos' : tos'[s].piece \in Pieces /\ tos'[s].color \in {WHITE, BLACK}
      BY <2>9 DEF Board, Men
    <3>2. Len(stack') <= VARIATION_MAX
      BY <2>2, <2>5, VariationAssumption
    <3>3. \A l \in DOMAIN stack' : stack'[l].d \in DOMAIN nodes
      BY <1>1, <2>5, <2>6 DEF TypeOK
    <3> QED BY <1>1, <1>6, <2>4, <3>1, <3>2, <3>3 DEF TypeOK, Links
  <2> QED BY <1>3, <2>9, <2>10, <2>11, <2>12 DEF IInv
<1> QED BY <1>5, <1>6 DEF ExitVariation

\* The end of the text, and steps that change nothing, keep it.
LEMMA EndInv ==
  ASSUME IInv, \/ End
               \/ UNCHANGED vars
  PROVE  IInv'
<1>1. /\ TypeOK /\ Board(tos) /\ Tree /\ SettingUp
      /\ UNCHANGED <<text, tos, nodes, m, stack, config, error_flag>>
      /\ UNCHANGED <<over, frees>> \/ (over' = "end" /\ ~InHeader)
  BY DEF IInv, End, vars, InGame
<1>2. Start' = Start /\ Played' = Played /\ InHeader' = InHeader
  BY <1>1 DEF Start, Played, InHeader
<1>3. Tree' /\ SettingUp' /\ Board(tos')
  BY <1>1, <1>2 DEF Tree, SettingUp
<1>4. TypeOK'
  BY <1>1 DEF TypeOK, Links
<1>5. ASSUME ~InHeader PROVE (LineBoards /\ MadeMoves /\ NumberedHeads /\ Numbered(m))'
  <2>1. LineBoards /\ MadeMoves /\ NumberedHeads /\ Numbered(m)
    BY <1>5 DEF IInv
  <2> QED BY <1>1, <1>2, <2>1
          DEF LineBoards, MadeMoves, NumberedHeads, Numbered, TakenBack, Replaces, Ply
<1> QED BY <1>2, <1>3, <1>4, <1>5 DEF IInv

\* Each step keeps it; a step that makes a move makes the one said, and raises
\* no error.
LEMMA StepInv ==
  ASSUME IInv, OrdinaryMoves, [Next]_vars
  PROVE  IInv'
BY HeaderInv, ParseInv, EnterInv, ExitInv, EndInv DEF Next

-----------------------------------------------------------------------------
(* The links of the tree stay as they are meant, so that all can be freed. *)
\* They do at the first move alone, and when it is renumbered.
LEMMA WovenOne ==
  ASSUME NEW x, x.next = NULL, x.sub = NULL, NEW ns, ns = <<x>>
  PROVE  Woven(ns) /\ ns[1].next = NULL
<1>1. DOMAIN ns = {1} /\ Len(ns) = 1 /\ ns[1] = x
  OBVIOUS
<1> QED BY <1>1 DEF Woven

\* a node's number and side are set anew, as blacksmove does
NumberSet(ns, k, v, w, ns2) == ns2 = [ns EXCEPT ![k].move = v, ![k].whiteturn = w]

LEMMA WovenSame ==
  ASSUME NEW ns, Nodes(ns), Woven(ns), NEW k \in DOMAIN ns, NEW w \in BOOLEAN, NEW v \in Nat,
         NEW ns2, NumberSet(ns, k, v, w, ns2)
  PROVE  Woven(ns2) /\ \A n \in DOMAIN ns : ns2[n].next = ns[n].next
<1>1. PICK N \in Nat : N = Len(ns) /\ DOMAIN ns = 1 .. N
  BY DEF Nodes
<1>2. DOMAIN ns2 = 1 .. N /\ Len(ns2) = N
  <2>1. ns2 = [n \in 1 .. N |-> ns2[n]]
    BY <1>1 DEF Nodes, NumberSet
  <2> QED BY <1>1, <2>1
<1>3. \A n \in 1 .. N : /\ ns2[n].prev = ns[n].prev /\ ns2[n].type = ns[n].type
                        /\ ns2[n].next = ns[n].next /\ ns2[n].sub = ns[n].sub
                        /\ ns[n].next \in 0 .. N /\ ns[n].sub \in 0 .. N
  <2> SUFFICES ASSUME NEW n \in 1 .. N
               PROVE  /\ ns2[n].prev = ns[n].prev /\ ns2[n].type = ns[n].type
                      /\ ns2[n].next = ns[n].next /\ ns2[n].sub = ns[n].sub
                      /\ ns[n].next \in 0 .. N /\ ns[n].sub \in 0 .. N
    OBVIOUS
  <2>1. PICK x \in Depl : x = ns[n]
    BY <1>1 DEF Nodes
  <2>2. x.next \in 0 .. N /\ x.sub \in 0 .. N
    BY <1>1, <2>1 DEF Nodes
  <2>3. ns2[n] = IF n = k THEN [x EXCEPT !.move = v, !.whiteturn = w] ELSE x
    BY <1>1, <2>1 DEF Depl, NumberSet
  <2> QED BY <2>1, <2>2, <2>3 DEF Depl
<1>4. \A n \in 1 .. N : Children(ns2, n) = Children(ns, n)
  BY <1>3 DEF Children
<1>5. \A n \in 2 .. N : ns2[n].prev # NULL /\ \E p \in 1 .. N : n \in Children(ns2, p)
  <2> SUFFICES ASSUME NEW n \in 2 .. N
               PROVE  ns2[n].prev # NULL /\ \E p \in 1 .. N : n \in Children(ns2, p)
    OBVIOUS
  <2>1. ns[n].prev # NULL /\ \E p \in 1 .. N : n \in Children(ns, p)
    BY <1>1 DEF Woven
  <2>2. PICK p \in 1 .. N : n \in Children(ns, p)
    BY <2>1
  <2>3. Children(ns2, p) = Children(ns, p)
    BY <1>4
  <2>4. ns2[n].prev = ns[n].prev
    BY <1>3
  <2> QED BY <2>1, <2>2, <2>3, <2>4
<1>6. ASSUME NEW n \in 1 .. N
      PROVE  /\ ns2[n].next # NULL =>
                  /\ ns2[n].next > n /\ ns2[ns2[n].next].prev = n
                  /\ ns2[ns2[n].next].type # NONE
             /\ ns2[n].sub # NULL =>
                  /\ ns2[n].sub > n /\ ns2[ns2[n].sub].type = NONE
                  /\ ns2[ns2[n].sub].prev = IF ns2[n].type = NONE THEN ns2[n].prev ELSE n
  <2>1. /\ ns[n].next # NULL =>
             /\ ns[n].next > n /\ ns[ns[n].next].prev = n
             /\ ns[ns[n].next].type # NONE
        /\ ns[n].sub # NULL =>
             /\ ns[n].sub > n /\ ns[ns[n].sub].type = NONE
             /\ ns[ns[n].sub].prev = IF ns[n].type = NONE THEN ns[n].prev ELSE n
    BY <1>1 DEF Woven
  <2>2. /\ ns[n].next # NULL => ns[n].next \in 1 .. N
        /\ ns[n].sub # NULL => ns[n].sub \in 1 .. N
    BY <1>1, <1>3 DEF NULL
  <2>3. PICK a, b : a = ns[n].next /\ b = ns[n].sub
    OBVIOUS
  <2>4. ns2[n].next = a /\ ns2[n].sub = b /\ ns2[n].type = ns[n].type /\ ns2[n].prev = ns[n].prev
    BY <1>3, <2>3
  <2>5. a # NULL => ns2[a].prev = ns[a].prev /\ ns2[a].type = ns[a].type
    BY <1>3, <2>2, <2>3
  <2>6. b # NULL => ns2[b].prev = ns[b].prev /\ ns2[b].type = ns[b].type
    BY <1>3, <2>2, <2>3
  <2> QED BY <2>1, <2>3, <2>4, <2>5, <2>6
<1>7. \A n, p \in 1 .. N : ns2[p].sub = ns2[n].sub => p = n \/ ns2[n].sub = NULL
  <2> SUFFICES ASSUME NEW n \in 1 .. N, NEW p \in 1 .. N, ns2[p].sub = ns2[n].sub
               PROVE  p = n \/ ns2[n].sub = NULL
    OBVIOUS
  <2>1. ns[p].sub = ns[n].sub => p = n \/ ns[n].sub = NULL
    BY <1>1 DEF Woven
  <2> QED BY <1>3, <2>1
<1>8. Woven(ns2)
  <2>1. \A n \in 1 .. N :
          /\ ns2[n].next # NULL =>
               /\ ns2[n].next > n /\ ns2[ns2[n].next].prev = n
               /\ ns2[ns2[n].next].type # NONE
          /\ ns2[n].sub # NULL =>
               /\ ns2[n].sub > n /\ ns2[ns2[n].sub].type = NONE
               /\ ns2[ns2[n].sub].prev = IF ns2[n].type = NONE THEN ns2[n].prev ELSE n
    BY <1>6
  <2>2. Len(ns2) = N /\ DOMAIN ns2 = 1 .. N
    BY <1>2
  <2> QED BY ONLY <1>5, <1>7, <2>1, <2>2 DEF Woven
<1> QED BY <1>1, <1>3, <1>8

\* If no move has two variations, no head of a variation links to another.
LEMMA SingleHeads ==
  ASSUME NEW ns, Nodes(ns), Linked(ns), Woven(ns),
         \A n \in DOMAIN ns :
           Cardinality({h \in DOMAIN ns : ns[h].type = NONE /\ ns[h].prev = n}) <= 1
  PROVE  Single(ns)
<1> SUFFICES ASSUME NEW n \in DOMAIN ns, ns[n].type = NONE, ns[n].sub # NULL PROVE FALSE
  BY DEF Single
<1>1. PICK N \in Nat : N = Len(ns) /\ DOMAIN ns = 1 .. N
  BY DEF Nodes
<1>2. PICK c : c = ns[n].sub
  OBVIOUS
<1>3. c \in 1 .. N
  BY <1>1, <1>2 DEF Nodes, NULL
<1>4. c > n /\ ns[c].type = NONE /\ ns[c].prev = ns[n].prev
  BY <1>2 DEF Woven
<1>5. PICK p : p = ns[n].prev /\ p \in 1 .. N
  <2>1. ns[n].prev \in 0 .. n - 1 /\ ns[n].prev # NULL
    BY DEF Linked
  <2> QED BY <1>1, <2>1 DEF NULL
<1>6. PICK H : H = {h \in 1 .. N : ns[h].type = NONE /\ ns[h].prev = p}
  OBVIOUS
<1>7. n \in H /\ c \in H /\ c # n
  BY <1>1, <1>3, <1>4, <1>5, <1>6
<1>8. Cardinality(H) <= 1
  BY <1>1, <1>5, <1>6
<1>9. IsFiniteSet(H)
  <2>1. IsFiniteSet(1 .. N)
    BY <1>1, FS_Interval
  <2> QED BY <1>6, <2>1, FS_Subset
<1>10. Cardinality(H) \in Nat /\ Cardinality(H) # 0
  BY <1>7, <1>9, FS_CardinalityType, FS_EmptySet
<1>11. \E x : H = {x}
  <2>1. Cardinality(H) = 1
    BY <1>8, <1>10
  <2> QED BY <1>9, <2>1, FS_Singleton
<1> QED BY <1>7, <1>11

\* What freeing the tree as it stands leaves at the end.
LEMMA FreedHere ==
  ASSUME Nodes(nodes'), Linked(nodes'), Woven(nodes'), m \in DOMAIN nodes',
         frees' = FreeEverything(nodes')
  PROVE  FreedAtEnd'
<1>1. PICK ns : ns = nodes'
  OBVIOUS
<1>2. \A n \in DOMAIN ns : /\ FreeEverything(ns)[n] <= 1
                           /\ Single(ns) => FreeEverything(ns)[n] = 1
  BY <1>1, FreedOnce
<1>3. (\A n \in DOMAIN ns :
         Cardinality({h \in DOMAIN ns : ns[h].type = NONE /\ ns[h].prev = n}) <= 1)
        => Single(ns)
  BY <1>1, SingleHeads
<1> QED BY <1>1, <1>2, <1>3 DEF FreedAtEnd

\* The first move, alone, links to nothing.
LEMMA InitLinks == Init => LinkInv
<1> SUFFICES ASSUME Init PROVE LinkInv
  OBVIOUS
<1>1. nodes = <<InitParse(NewMove)>> /\ m = 1 /\ stack = <<>> /\ over = "no"
  BY DEF Init
<1>2. PICK x : x = InitParse(NewMove)
  OBVIOUS
<1>3. x.next = NULL /\ x.sub = NULL
  BY <1>2 DEF InitParse, NewMove
<1>4. Woven(nodes) /\ nodes[1].next = NULL
  BY <1>1, <1>2, <1>3, WovenOne
<1>5. DOMAIN stack = {}
  BY <1>1
<1> QED BY <1>1, <1>4, <1>5 DEF LinkInv, Threads, FreedAtEnd

\* A token of the header keeps it: it links a node to the last, or starts anew.
LEMMA HeaderLinks ==
  ASSUME IInv, LinkInv, ReadHeader
  PROVE  LinkInv'
<1>1. PICK o, h, k : o = text.opening /\ h = o.header /\ k = text.read
  OBVIOUS
<1>2. /\ TypeOK /\ InHeader /\ over = "no" /\ stack = <<>>
      /\ Nodes(nodes) /\ Linked(nodes) /\ m \in DOMAIN nodes
      /\ Woven(nodes) /\ nodes[m].next = NULL
  BY DEF IInv, TypeOK, Tree, SettingUp, Nodes, Links, ReadHeader, LinkInv, Threads
<1>3. UNCHANGED <<stack, over>>
  BY DEF ReadHeader, Keyword, Configure
<1>4. PICK t : t = h[k + 1] /\ t \in HeaderTokens
  BY <1>1, <1>2, HeaderStep, TextFacts
<1>5. \/ t.keyword # "" /\ Keyword(t.keyword)
      \/ t.keyword = "" /\ Configure(t)
  BY <1>1, <1>4 DEF ReadHeader
<1>6. Woven(nodes') /\ nodes'[m'].next = NULL
  <2>1. CASE /\ nodes' = [nodes EXCEPT
                  ![m].move = IF t.keyword = "blacksmove" THEN 1 ELSE 0,
                  ![m].whiteturn = (t.keyword = "blacksmove")]
             /\ UNCHANGED m
    <3>1. PICK w \in BOOLEAN, v \in Nat : /\ w = (t.keyword = "blacksmove")
                                          /\ v = IF t.keyword = "blacksmove" THEN 1 ELSE 0
      OBVIOUS
    <3>2. NumberSet(nodes, m, v, w, nodes')
      BY <2>1, <3>1 DEF NumberSet
    <3>3. Nodes(nodes) /\ Woven(nodes) /\ m \in DOMAIN nodes
      BY <1>2
    <3>4. Woven(nodes') /\ \A n \in DOMAIN nodes : nodes'[n].next = nodes[n].next
      BY ONLY <3>2, <3>3, WovenSame
    <3> QED BY <1>2, <2>1, <3>4
  <2>2. CASE FreeMoveList
    <3>1. nodes' = <<[nodes[1] EXCEPT !.next = NULL, !.sub = NULL]>> /\ m' = 1
      BY <2>2 DEF FreeMoveList
    <3>2. PICK x : x = [nodes[1] EXCEPT !.next = NULL, !.sub = NULL]
      OBVIOUS
    <3>3. x.next = NULL /\ x.sub = NULL
      <4>1. nodes[1] \in Depl
        BY <1>2 DEF Nodes
      <4> QED BY <3>2, <4>1 DEF Depl
    <3> QED BY <3>1, <3>2, <3>3, WovenOne
  <2>3. CASE t.keyword = "" /\ Configure(t)
    <3>1. PICK d : ConfiguredBy(t, d)
      BY <1>2, <1>4, <2>3, ConfiguredNode
    <3>2. /\ d \in Depl /\ d.next = NULL /\ d.sub = NULL /\ d.prev = m
          /\ d.type = MOVE /\ d.from = Off
          /\ nodes' = Chained(d) /\ m' = Len(nodes) + 1
      BY <3>1 DEF ConfiguredBy
    <3>3. ~IsMove(d) /\ d.type # NONE
      BY <3>2 DEF IsMove, NONE, MOVE
    <3>4. Addable(nodes, d)
      BY <1>2, <3>2, <3>3 DEF Addable
    <3>5. NextAdded(nodes, m, d, nodes')
      BY <1>2, <3>2, <3>3 DEF NextAdded, Chained
    <3>6. Woven(nodes') /\ nodes'[Len(nodes) + 1].next = NULL
      BY <1>2, <3>4, <3>5, WovenGrows
    <3> QED BY <3>2, <3>6
  <2>4. ASSUME Keyword(t.keyword) PROVE Woven(nodes') /\ nodes'[m'].next = NULL
    BY <2>1, <2>2, <2>4 DEF Keyword
  <2> QED BY <1>5, <2>3, <2>4
<1>7. stack' = <<>> /\ DOMAIN <<>> = {} /\ over' = "no"
  BY <1>2, <1>3
<1> QED BY <1>6, <1>7 DEF LinkInv, Threads, FreedAtEnd

\* A move keeps it: the line goes on at its end.
LEMMA MoveLinks ==
  ASSUME IInv, LinkInv, OrdinaryMoves, ParseMove \/ ParseRoque
  PROVE  LinkInv'
<1>1. /\ Nodes(nodes) /\ Linked(nodes) /\ m \in DOMAIN nodes /\ TypeOK
      /\ Woven(nodes) /\ Threads
  BY DEF IInv, TypeOK, Tree, Nodes, Links, LinkInv
<1>2. PICK mv, e : MoveMade(mv, e)
  BY MoveIsMade
<1>3. PICK d : d = e.d
  OBVIOUS
<1>4. /\ Fresh(AddTrailingMove, d) /\ d.type # NONE
      /\ IsMove(d) => d.type \in Castling \/ d.from \in Squares
      /\ nodes' = Chained(d) /\ m' = Len(nodes) + 1 /\ stack' = stack /\ over' # "end"
  <2>1. over = "no" /\ (over' = over \/ over' = "exit") /\ stack' = stack
    BY <1>2 DEF MoveMade, InGame, Running, Unmoved
  <2> QED BY <1>2, <1>3, <2>1
          DEF MoveMade, Made, NONE, MOVE, PRISE, GRANDROQUE, PETITROQUE
<1>5. d \in Depl /\ d.next = NULL /\ d.sub = NULL /\ d.prev = m
  BY <1>1, <1>4, TrailingMove DEF Fresh
<1>6. Addable(nodes, d)
  BY <1>1, <1>4, <1>5 DEF Addable
<1>7. NextAdded(nodes, m, d, nodes')
  BY <1>1, <1>4, <1>5 DEF NextAdded, Chained, Threads
<1>8. /\ Woven(nodes') /\ nodes'[Len(nodes) + 1].next = NULL
      /\ \A n \in DOMAIN nodes : n # m => nodes'[n].next = nodes[n].next
  BY <1>1, <1>6, <1>7, WovenGrows
<1>9. Threads'
  <2>1. PICK q : q = m /\ q \in Nat /\ m' > q
    BY <1>1, <1>4 DEF Nodes
  <2>2. ASSUME NEW l \in DOMAIN stack
        PROVE  nodes'[stack[l].d].next = NULL /\ stack[l].d < m'
    <3>1. stack[l].d \in DOMAIN nodes /\ nodes[stack[l].d].next = NULL /\ stack[l].d < q
      BY <1>1, <2>1 DEF Threads, TypeOK
    <3>2. stack[l].d \in Nat
      BY <1>1, <3>1 DEF Nodes
    <3>3. m' \in Nat
      BY <1>1, <1>4 DEF Nodes
    <3> QED BY <1>8, <2>1, <3>1, <3>2, <3>3
  <2> QED BY <1>1, <1>4, <1>8, <2>2 DEF Threads
<1> QED BY <1>4, <1>8, <1>9 DEF LinkInv, FreedAtEnd

\* The head of a variation goes to the end of those of the current move.
LEMMA HeadLinks ==
  ASSUME IInv, LinkInv, EnterVariation, ~TooDeep
  PROVE  /\ Nodes(nodes') /\ Linked(nodes') /\ Woven(nodes')
         /\ Len(nodes') = Len(nodes) + 1 /\ nodes'[Len(nodes) + 1].next = NULL
         /\ \A n \in DOMAIN nodes : nodes'[n].next = nodes[n].next
<1>1. /\ Nodes(nodes) /\ Linked(nodes) /\ m \in DOMAIN nodes /\ Woven(nodes)
      /\ IsMove(nodes[m]) \/ nodes[m].prev = NULL
  BY DEF IInv, TypeOK, Tree, Nodes, Links, LinkInv, EnterVariation
<1>2. nodes[m].type # NONE
  BY <1>1 DEF Nodes, Linked
<1>3. PICK j \in DOMAIN nodes :
        /\ j = LastSub(m) /\ nodes[j].sub = NULL
        /\ j = m \/ (nodes[j].type = NONE /\ nodes[j].prev = m)
  BY <1>1, <1>2, LastSubIs
<1>4. PICK d : HeadOf(m, d) /\ Headed(d)
  BY EnterAdds
<1>5. /\ d \in Depl /\ d.next = NULL /\ d.sub = NULL /\ d.prev = m
      /\ d.type = NONE /\ ~IsMove(d)
  BY <1>4 DEF HeadOf, IsMove
<1>6. Addable(nodes, d)
  BY <1>1, <1>5 DEF Addable
<1>7. SubAdded(nodes, j, d, nodes')
  BY <1>2, <1>3, <1>4, <1>5 DEF SubAdded, Headed
<1>8. /\ Woven(nodes') /\ nodes'[Len(nodes) + 1].next = NULL
      /\ \A n \in DOMAIN nodes : nodes'[n].next = nodes[n].next
  BY <1>1, <1>3, <1>6, <1>7, WovenGrows
<1>9. GrownBy(nodes, d, nodes')
  <2>1. PICK ns1 : ns1 = [nodes EXCEPT ![j].sub = Len(nodes) + 1]
    OBVIOUS
  <2>2. LinkedTo(nodes, j, ns1) /\ nodes' = Append(ns1, d)
    BY <1>7, <2>1 DEF LinkedTo, SubAdded
  <2> QED BY <1>1, <1>6, <2>2, Grown
<1> QED BY <1>8, <1>9 DEF GrownBy

\* A variation keeps it: the head is hung below the move replaced, or below the
\* last head there, and the line left ends at its level of the stack.
LEMMA EnterLinks ==
  ASSUME IInv, LinkInv, EnterVariation
  PROVE  LinkInv'
<1>1. /\ Nodes(nodes) /\ m \in DOMAIN nodes /\ TypeOK /\ over = "no"
      /\ Woven(nodes) /\ Threads /\ stack \in Seq(Range(stack))
  BY DEF IInv, TypeOK, Tree, LineBoards, Nodes, Links, LinkInv, EnterVariation, InGame, Running
<1>2. PICK N \in Nat : N = Len(nodes) /\ DOMAIN nodes = 1 .. N
  BY <1>1 DEF Nodes
<1>3. CASE TooDeep
  <2>1. UNCHANGED <<nodes, m, stack, over>>
    BY <1>3 DEF EnterVariation
  <2> QED BY <1>1, <2>1 DEF LinkInv, Threads, FreedAtEnd
<1>4. CASE ~TooDeep
  <2>1. /\ Nodes(nodes') /\ Linked(nodes') /\ Woven(nodes')
        /\ Len(nodes') = N + 1 /\ nodes'[N + 1].next = NULL
        /\ \A n \in 1 .. N : nodes'[n].next = nodes[n].next
    BY <1>2, <1>4, HeadLinks
  <2>2. \A l \in DOMAIN stack : stack[l].d \in 1 .. N /\ nodes'[stack[l].d].next = NULL
    BY <1>1, <1>2, <2>1 DEF TypeOK, Threads
  <2>3. CASE nodes[m].prev = NULL
    <3>1. frees' = FreeEverything(nodes') /\ UNCHANGED <<m, stack>>
      BY <1>4, <2>3 DEF EnterVariation
    <3>2. m \in DOMAIN nodes'
      <4>1. DOMAIN nodes' = 1 .. N + 1
        BY <2>1 DEF Nodes
      <4> QED BY <1>1, <1>2, <4>1
    <3>3. FreedAtEnd'
      BY <2>1, <3>1, <3>2, FreedHere
    <3>4. Threads'
      BY <1>1, <1>2, <2>1, <2>2, <3>1 DEF Threads
    <3> QED BY <2>1, <3>3, <3>4 DEF LinkInv
  <2>4. CASE nodes[m].prev # NULL
    <3>1. /\ stack' = Append(stack, [d |-> m, b |-> tos]) /\ m' = Len(nodes')
          /\ over' = over
      BY <1>4, <2>4 DEF EnterVariation
    <3>2. PICK x, q : x = [d |-> m, b |-> tos] /\ q = m /\ x.d = q
      <4>1. [d |-> m, b |-> tos].d = m
        OBVIOUS
      <4> QED BY <4>1
    <3>3. q \in 1 .. N /\ nodes'[q].next = NULL
      BY <1>1, <1>2, <2>1, <3>2 DEF Threads
    <3>4. PICK L \in Nat : L = Len(stack) /\ DOMAIN stack = 1 .. L
      BY <1>1
    <3>5. /\ DOMAIN stack' = 1 .. L + 1 /\ stack'[L + 1] = x
          /\ \A l \in 1 .. L : stack'[l] = stack[l]
      BY <1>1, <3>1, <3>2, <3>4
    <3>6. \A l \in 1 .. L : /\ stack[l].d \in 1 .. N /\ nodes'[stack[l].d].next = NULL
                            /\ stack[l].d < q
                            /\ \A i \in 1 .. L : i < l => stack[i].d < stack[l].d
      BY <1>1, <2>2, <3>2, <3>4 DEF Threads
    <3>7. ASSUME NEW l \in 1 .. L + 1
          PROVE  /\ nodes'[stack'[l].d].next = NULL /\ stack'[l].d < N + 1
                 /\ \A i \in 1 .. L + 1 : i < l => stack'[i].d < stack'[l].d
      <4>1. CASE l \in 1 .. L
        <5>1. \A i \in 1 .. L + 1 : i < l => i \in 1 .. L
          BY <3>4, <4>1
        <5>2. stack'[l] = stack[l]
          BY <3>5, <4>1
        <5>3. nodes'[stack[l].d].next = NULL /\ stack[l].d < N + 1
          BY <1>2, <3>6, <4>1
        <5>4. ASSUME NEW i \in 1 .. L + 1, i < l PROVE stack'[i].d < stack'[l].d
          <6>1. i \in 1 .. L /\ stack'[i] = stack[i]
            BY <3>5, <5>1, <5>4
          <6> QED BY <3>6, <4>1, <5>2, <5>4, <6>1
        <5> QED BY <5>2, <5>3, <5>4
      <4>2. CASE l = L + 1
        <5>1. \A i \in 1 .. L + 1 : i < l => i \in 1 .. L
          BY <3>4, <4>2
        <5> QED BY <1>2, <3>2, <3>3, <3>5, <3>6, <4>2, <5>1
      <4>3. l \in 1 .. L \/ l = L + 1
        BY <3>4
      <4> QED BY <4>1, <4>2, <4>3
    <3>8. Threads'
      BY <2>1, <3>1, <3>5, <3>7 DEF Threads
    <3> QED BY <1>1, <2>1, <3>1, <3>8 DEF LinkInv, FreedAtEnd
  <2> QED BY <2>3, <2>4
<1> QED BY <1>3, <1>4

\* Coming out of a variation keeps it: the line left before ends at its move.
LEMMA ExitLinks ==
  ASSUME IInv, LinkInv, ExitVariation
  PROVE  LinkInv'
<1>1. /\ over = "no" /\ Woven(nodes) /\ Threads /\ stack \in Seq(Range(stack))
      /\ UNCHANGED <<nodes, over>>
  BY DEF IInv, LineBoards, LinkInv, ExitVariation, InGame, Running
<1>2. CASE UNCHANGED <<m, stack>>
  BY <1>1, <1>2 DEF LinkInv, Threads, FreedAtEnd
<1>3. CASE stack # <<>> /\ m' = Last(stack).d /\ stack' = Front(stack)
  <2>1. PICK L : L = Len(stack) /\ L \in Nat /\ L >= 1 /\ DOMAIN stack = 1 .. L
    BY <1>1, <1>3, EmptySeq
  <2>2. m' = stack[L].d
    BY <1>3, <2>1 DEF Last
  <2>3. DOMAIN stack' = 1 .. L - 1 /\ \A l \in 1 .. L - 1 : stack'[l] = stack[l]
    <3>1. stack' = SubSeq(stack, 1, L - 1) /\ L - 1 \in Nat
      BY <1>3, <2>1 DEF Front
    <3> QED BY <1>1, <2>1, <3>1
  <2>4. \A l \in 1 .. L : /\ nodes[stack[l].d].next = NULL
                          /\ \A i \in 1 .. L : i < l => stack[i].d < stack[l].d
    BY <1>1, <2>1 DEF Threads
  <2>5. \A l \in 1 .. L - 1 : l \in 1 .. L /\ l < L
    BY <2>1
  <2>6. nodes'[m'].next = NULL
    <3>1. L \in 1 .. L
      BY <2>1
    <3> QED BY <1>1, <2>2, <2>4, <3>1
  <2>7. ASSUME NEW l \in 1 .. L - 1
        PROVE  /\ nodes'[stack'[l].d].next = NULL /\ stack'[l].d < m'
               /\ \A i \in 1 .. L - 1 : i < l => stack'[i].d < stack'[l].d
    <3>1. stack'[l] = stack[l] /\ l \in 1 .. L /\ l < L
      BY <2>3, <2>5
    <3>2. nodes[stack[l].d].next = NULL /\ stack[l].d < stack[L].d
      BY <2>1, <2>4, <3>1
    <3>3. ASSUME NEW i \in 1 .. L - 1, i < l PROVE stack'[i].d < stack'[l].d
      <4>1. i \in 1 .. L /\ stack'[i] = stack[i]
        BY <2>3, <2>5
      <4> QED BY <2>4, <3>1, <3>3, <4>1
    <3> QED BY <1>1, <2>2, <3>1, <3>2, <3>3
  <2>8. Threads'
    BY <2>3, <2>6, <2>7 DEF Threads
  <2> QED BY <1>1, <2>8 DEF LinkInv, FreedAtEnd
<1> QED BY <1>2, <1>3 DEF ExitVariation

\* The end frees the tree as it stands.
LEMMA EndLinks ==
  ASSUME IInv, LinkInv, End \/ UNCHANGED vars
  PROVE  LinkInv'
<1>1. /\ Nodes(nodes) /\ Linked(nodes) /\ m \in DOMAIN nodes
      /\ Woven(nodes) /\ Threads /\ FreedAtEnd /\ UNCHANGED <<nodes, m, stack>>
  BY DEF IInv, TypeOK, Tree, Nodes, Links, LinkInv, End, vars
<1>2. Woven(nodes') /\ Threads'
  BY <1>1 DEF Threads
<1>3. CASE End
  <2>1. frees' = FreeEverything(nodes')
    BY <1>1, <1>3 DEF End
  <2> QED BY <1>1, <1>2, <2>1, FreedHere DEF LinkInv
<1>4. CASE UNCHANGED vars
  BY <1>1, <1>2, <1>4 DEF LinkInv, FreedAtEnd, vars
<1> QED BY <1>3, <1>4

\* Every step keeps it.
LEMMA StepLinks ==
  ASSUME IInv, LinkInv, OrdinaryMoves, [Next]_vars
  PROVE  LinkInv'
BY HeaderLinks, MoveLinks, EnterLinks, ExitLinks, EndLinks DEF Next

-----------------------------------------------------------------------------
(* The theorems.                                                           *)
\* Whatever the text does, the tree of moves, the board, the levels left for a
\* variation and the numbers of moves agree: IInv is inductive.
THEOREM Invariance == ASSUME OrdinaryMoves PROVE Spec => []IInv
<1>1. Init => IInv
  BY InitInv
<1>2. IInv /\ [Next]_vars => IInv'
  BY StepInv
<1> QED BY <1>1, <1>2, PTL DEF Spec

\* The state has its type; the stack stays within its array and every move made
\* has both its squares (enter_variation, guess_move).
THEOREM TypeCorrect == ASSUME OrdinaryMoves PROVE Spec => []TypeOK
<1>1. IInv => TypeOK
  BY DEF IInv
<1> QED BY <1>1, Invariance, PTL

\* The board is always what the moves of the line make of the opening, and so
\* is each board left for a variation (undo_move, enter_variation, exit_variation).
THEOREM BoardFollowsLine == ASSUME OrdinaryMoves PROVE Spec => []BoardIsLine
<1>1. IInv => BoardIsLine
  BY DEF IInv, BoardIsLine, LineBoards, Replayed
<1> QED BY <1>1, Invariance, PTL

\* Moves and heads of variations are numbered by their place in their line
\* (add_trailing_move, add_variation).
THEOREM NumbersFollowPlies == ASSUME OrdinaryMoves PROVE Spec => []NumberedByPly
<1>1. IInv => NumberedByPly
  BY DEF IInv, NumberedByPly, MadeMoves, TakenBack, NumberedHeads, Numbered
<1> QED BY <1>1, Invariance, PTL

\* A legal move, in any notation that names it alone, is the one made (parse_move,
\* guess_move, check_move, do_move).
THEOREM MovesMade == ASSUME OrdinaryMoves PROVE Spec => MovesAsWritten
<1>1. ASSUME IInv, [Next]_vars PROVE [said' # NoMove => tos' = After(tos, said')]_vars
  <2>1. CASE ReadHeader
    BY <1>1, <2>1, HeaderInv
  <2>2. CASE ParseMove \/ ParseRoque
    BY <1>1, <2>2, ParseInv
  <2>3. CASE EnterVariation \/ ExitVariation \/ End
    BY <2>3 DEF EnterVariation, ExitVariation, End
  <2> QED BY <1>1, <2>1, <2>2, <2>3 DEF Next
<1> QED BY <1>1, Invariance, PTL DEF Spec, MovesAsWritten

\* No legal move is refused (check_move, guess_move and check_roque).
THEOREM LegalAccepted == ASSUME OrdinaryMoves PROVE Spec => LegalIsAccepted
<1>1. ASSUME IInv, [Next]_vars PROVE [~error_flag /\ error_flag' => said' = NoMove]_vars
  <2>1. CASE ReadHeader
    BY <1>1, <2>1, HeaderInv
  <2>2. CASE ParseMove \/ ParseRoque
    BY <1>1, <2>2, ParseInv
  <2>3. CASE EnterVariation \/ ExitVariation \/ End
    BY <2>3 DEF EnterVariation, ExitVariation, End
  <2> QED BY <1>1, <2>1, <2>2, <2>3 DEF Next
<1> QED BY <1>1, Invariance, PTL DEF Spec, LegalIsAccepted

\* At the end every move is freed, and once, unless some move has two variations
\* (free_everything, free_recursively).
THEOREM AllFreed == ASSUME OrdinaryMoves PROVE Spec => []FreedAtEnd
<1>1. Init => IInv /\ LinkInv
  BY InitInv, InitLinks
<1>2. (IInv /\ LinkInv) /\ [Next]_vars => (IInv /\ LinkInv)'
  BY StepInv, StepLinks
<1>3. LinkInv => FreedAtEnd
  BY DEF LinkInv
<1> QED BY <1>1, <1>2, <1>3, PTL DEF Spec
=============================================================================
