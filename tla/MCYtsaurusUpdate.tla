--------------------------- MODULE MCYtsaurusUpdate ---------------------------
EXTENDS UpdateRefinement, TLC
CONSTANTS m, hp, tn, s, qt, yc, b1, p1, p2

MCCells == b1 :> IF TabletNodes = {} THEN 0 ELSE 2
MCOrder == SelectSeq(<<m, yc, hp, tn, s, qt>>,
                     LAMBDA c : c \in Components \cup {yc})
===============================================================================
