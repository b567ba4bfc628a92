------------------------------ MODULE MC_Bills ------------------------------
EXTENDS Bills, TLC

CONSTANTS own, stf, late, b1, b2, c1, c2

Member(owner, rate) == [st |-> "active", owner |-> owner, rate |-> rate]
Absent == [st |-> "none", owner |-> FALSE, rate |-> None]
Half == [type |-> "percentage", value |-> 50]
MCRates == {Half}
MCRules == {[type |-> "fixed", value |-> 1]}

\* The owner does services too; the third row is made when they are deleted.
MCTeams == {[e \in {own, stf, late} |->
               IF e = own THEN Member(TRUE, None)
               ELSE IF e = stf THEN Member(FALSE, Half) ELSE Absent]}
MCTags == {[male |-> 3, female |-> 0, cost |-> 1],
           [male |-> 2, female |-> 5, cost |-> 0]}
MCMenus == {[s \in {1, 2} |->
               [active |-> TRUE,
                tag |-> IF s = 1 THEN [male |-> 3, female |-> 0, cost |-> 1]
                        ELSE [male |-> 2, female |-> 5, cost |-> 0]]]}
MCDiscounts == {[type |-> "flat", value |-> 4]}
Symmetry == Permutations({b1, b2}) \cup Permutations({c1, c2})
=============================================================================
