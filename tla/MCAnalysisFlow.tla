--------------------------- MODULE MCAnalysisFlow ---------------------------
(***************************************************************************)
(* Instances of AnalysisFlow: a new game, a position after it and one that *)
(* ends the game; `start2` is the new game under other rules.              *)
(***************************************************************************)
EXTENDS AnalysisFlow

CONSTANTS start, mid, mate, start2

MCPositions == {start, mid, mate, start2}
MCOver      == {mate}
\* Position.stateKey() does not tell the rules apart.
MCStateKey  == [p \in MCPositions |-> IF p = start2 THEN start ELSE p]
MCBudgets   == {1, 2}

MCRulesPositions == {start, start2}
MCNone           == {}
MCRulesKey       == [p \in MCRulesPositions |-> start]
=============================================================================
