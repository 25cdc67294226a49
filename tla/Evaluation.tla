----------------------------- MODULE Evaluation -----------------------------
(***************************************************************************)
(* The static evaluation of engine/evaluation.py.  The code has it twice:  *)
(* evaluate() for the search, evaluate_breakdown() for the screen; it also *)
(* counts the moves of a piece by loops of its own.                        *)
(***************************************************************************)
EXTENDS JanggiRules

DEFAULT_CONFIG ==
  [material        |-> [t \in {KING, GUARD, CHARIOT, CANNON, HORSE, ELEPHANT, PAWN} |->
                          CASE t = KING -> 0      [] t = GUARD -> 300 [] t = CHARIOT -> 1300
                            [] t = CANNON -> 700  [] t = HORSE -> 500 [] t = ELEPHANT -> 300
                            [] t = PAWN -> 200],
   pst_weight      |-> 100,
   pawn_connected  |-> 12,
   guard_adjacent  |-> 10,
   king_danger     |-> [t \in {CHARIOT, CANNON, HORSE, ELEPHANT, PAWN} |->
                          CASE t = CHARIOT -> 24 [] t = CANNON -> 18   [] t = HORSE -> 14
                            [] t = ELEPHANT -> 8 [] t = PAWN -> 10],
   mobility_weight |-> [t \in {CHARIOT, CANNON, HORSE, ELEPHANT} |->
                          IF t \in {CANNON, HORSE} THEN 3 ELSE 2],
   tempo           |-> 10]

MirrorSquare(s) == <<ROWS - 1 - s[1], s[2]>>

\* What standing on a square is worth to a piece of Cho, who goes up the board.
If(condition, n) == IF condition THEN n ELSE 0
OnSquare(type, s) ==
  LET r == s[1]  c == s[2]
  IN  CASE type = PAWN     -> <<14, 44, 36, 26, 16, 8, 0, 0, 0, 0>>[r + 1]
                                + If(c \in 3 .. 5 /\ r <= 3, 6)
        [] type = HORSE    -> If(c \in 1 .. 7, 6) + If(c \in 2 .. 6, 6) + If(r \in 2 .. 7, 6)
                                + If(r = 9, -4)
        [] type = ELEPHANT -> If(c \in 1 .. 7, 4) + If(r \in 2 .. 7, 4)
        [] type = CHARIOT  -> If(r <= 3, 8) + If(r <= 2 /\ c \in 3 .. 5, 6)
        [] type = CANNON   -> IF s = <<7, 4>> THEN 30 ELSE If(c = 4 /\ r >= 5, 10)
        [] type = KING     -> If(r = 7, -10)
        [] type = GUARD    -> If(s \in {<<9, 3>>, <<9, 5>>}, 4)

PST == Table([color \in Sides |->
         Table([x \in (DOMAIN DEFAULT_CONFIG.material) \X Squares |->
                  OnSquare(x[1], IF color = CHO THEN x[2] ELSE MirrorSquare(x[2]))])])

DANGER_ZONE(color) == {s \in Squares : s[2] \in 2 .. 6 /\ (s[1] >= 5 <=> color = CHO)}

-----------------------------------------------------------------------------
(* The moves of a piece, counted *)

Mobility(b, s) ==
  LET p == b[s]
      enters(q) == q.color # p.color
      along(ray) == Cardinality({i \in Sight(ray, 0, b) : enters(b[ray[i]])})
      over(ray) == MapThenSumSet(LAMBDA k : Cardinality({i \in Sight(ray, k, b) :
                                   enters(b[ray[i]]) /\ b[ray[i]].type # CANNON}), Screens(ray, b))
  IN  CASE p.type = CHARIOT  -> MapThenSumSet(along, RAYS_ALL[s])
        [] p.type = CANNON   -> MapThenSumSet(over, RAYS_ALL[s])
        [] p.type = HORSE    ->
             Cardinality({x \in HORSE_MOVES[s] : b[x[1]] = EMPTY /\ enters(b[x[2]])})
        [] p.type = ELEPHANT ->
             Cardinality({x \in ELEPHANT_MOVES[s] :
                            b[x[1]] = EMPTY /\ b[x[2]] = EMPTY /\ enters(b[x[3]])})

-----------------------------------------------------------------------------
(* The terms *)

Endangering(b, color, cfg) ==
  {s \in Own(b, Other(color)) \cap DANGER_ZONE(color) : b[s].type \in DOMAIN cfg.king_danger}
Danger(b, color, cfg) == MapThenSumSet(LAMBDA s : cfg.king_danger[b[s].type], Endangering(b, color, cfg))

Movers(b, color, cfg) == {s \in Own(b, color) : b[s].type \in DOMAIN cfg.mobility_weight}

ConnectedPawns(b, color) ==
  Cardinality({s \in Own(b, color) :
                 /\ b[s].type = PAWN /\ s[2] < COLS - 1
                 /\ b[<<s[1], s[2] + 1>>] = b[s]})

AdjacentGuards(p, color) ==
  Cardinality({s \in PALACE_STEPS[p.kings[color]] : p.board[s] = Of(color, GUARD)})

Sign(color) == IF color = CHO THEN 1 ELSE -1

\* evaluate_breakdown(): every term for itself, each man with its sign.
Breakdown(p, cfg) ==
  LET b == p.board
      men == Own(b, CHO) \union Own(b, HAN)
      of(s) == Sign(b[s].color)
      flip == Sign(p.side)
      material == MapThenSumSet(LAMBDA s : of(s) * cfg.material[b[s].type], men)
      pst      == MapThenSumSet(LAMBDA s : (of(s) * PST[b[s].color][<<b[s].type, s>>] * cfg.pst_weight)
                                             \div 100, men)
      pawns    == cfg.pawn_connected * (ConnectedPawns(b, CHO) - ConnectedPawns(b, HAN))
      safety   == Danger(b, HAN, cfg) - Danger(b, CHO, cfg)
                    + cfg.guard_adjacent * (AdjacentGuards(p, CHO) - AdjacentGuards(p, HAN))
      mobility == MapThenSumSet(LAMBDA s : of(s) * cfg.mobility_weight[b[s].type] * Mobility(b, s),
                                Movers(b, CHO, cfg) \union Movers(b, HAN, cfg))
      tempo    == flip * cfg.tempo
  IN  [material |-> flip * material, pst |-> flip * pst, pawn_structure |-> flip * pawns,
       king_safety |-> flip * safety, mobility |-> flip * mobility, tempo |-> flip * tempo,
       total |-> flip * (material + pst + pawns + safety + mobility + tempo)]

\* evaluate(): what one side has, then the other's taken from it.
SideScore(p, color, cfg) ==
  LET b == p.board
  IN  MapThenSumSet(LAMBDA s : cfg.material[b[s].type]
                                 + (PST[color][<<b[s].type, s>>] * cfg.pst_weight) \div 100, Own(b, color))
        + MapThenSumSet(LAMBDA s : cfg.mobility_weight[b[s].type] * Mobility(b, s),
                        Movers(b, color, cfg))
        + cfg.pawn_connected * ConnectedPawns(b, color)
        + Danger(b, Other(color), cfg)
        + cfg.guard_adjacent * AdjacentGuards(p, color)

Evaluate(p, cfg) == SideScore(p, p.side, cfg) - SideScore(p, Other(p.side), cfg) + cfg.tempo
=============================================================================
