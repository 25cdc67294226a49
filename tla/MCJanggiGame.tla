--------------------------- MODULE MCJanggiGame ---------------------------
(* Small endgames of JanggiGame, each with the squares its moves may go to. *)
EXTENDS JanggiGame

\* Pieces on the board, as <<row, col, color, type>>.
Board(pieces) ==
  [s \in Squares |->
     IF \A x \in pieces : <<x[1], x[2]>> # s THEN EMPTY
     ELSE LET x == CHOOSE y \in pieces : <<y[1], y[2]>> = s IN Of(x[3], x[4])]

Kings == {<<8, 4, CHO, KING>>, <<1, 4, HAN, KING>>}

\* Facing kings, a screen to take, a chariot and a cannon that can give check.
Facing == [board |-> Board(Kings \union {<<9, 4, CHO, CHARIOT>>, <<4, 3, HAN, CANNON>>,
                                         <<4, 5, CHO, PAWN>>}),
           side |-> CHO, ply |-> 2, depth |-> 5,
           to |-> {<<8, 3>>, <<8, 4>>, <<1, 3>>, <<1, 4>>, <<4, 4>>, <<4, 5>>, <<4, 6>>}]
\* Shuffling with a capture on the way: positions repeat before and after it.
Shuffle == [board |-> Board({<<8, 4, CHO, KING>>, <<0, 3, HAN, KING>>,
                             <<5, 0, CHO, CHARIOT>>, <<5, 1, HAN, PAWN>>}),
            side |-> CHO, ply |-> 0, depth |-> 9,
            to |-> {<<5, 0>>, <<5, 1>>, <<0, 3>>, <<0, 4>>}]
\* Every kind of piece in and around Han's palace.
Palace == [board |-> Board({<<8, 3, CHO, KING>>, <<0, 4, HAN, KING>>, <<1, 4, HAN, GUARD>>,
                            <<2, 3, CHO, PAWN>>, <<2, 5, CHO, CHARIOT>>, <<3, 2, CHO, HORSE>>,
                            <<4, 2, CHO, ELEPHANT>>, <<0, 3, HAN, CANNON>>, <<7, 4, HAN, ELEPHANT>>,
                            <<6, 3, HAN, HORSE>>, <<0, 5, CHO, CANNON>>}),
           side |-> CHO, ply |-> 6, depth |-> 3,
           to |-> {<<0, 4>>, <<1, 4>>, <<1, 3>>, <<2, 4>>, <<8, 4>>, <<9, 4>>}]

\* The first moves of a whole game, with a different set-up on each side.
Opening == [board |-> InitialBoard(<<HORSE, ELEPHANT, HORSE, ELEPHANT>>,
                                   <<HORSE, ELEPHANT, ELEPHANT, HORSE>>),
            side |-> CHO, ply |-> 0, depth |-> 2,
            to |-> {s \in Squares : s[2] \in {2, 4}}]

MCStarts == {Facing, Shuffle, Palace, Opening}
\* Games that end before the search's own limit (8) and games that go on after it.
MCRules == {[bikjang |-> b, repetition |-> "draw", max_plies |-> IF b = "off" THEN 7 ELSE 9] :
              b \in {"draw", "forced", "off"}}
=============================================================================
