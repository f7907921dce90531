---- MODULE MCConsensus ----
EXTENDS Consensus
CONSTANTS s1, s2, e1, e2, m1
MCSportOf == [e \in {e1, e2} |-> IF e = e1 THEN s1 ELSE s2]
MCBookLists == { << <<52, 52>>, <<63, 42>>, <<66, 44>> >>, << <<63, 42>>, << >> >> }
MCSportKeys == <<s1, s2>>
MCFits == [m \in {m1} |-> {e1, e2}]
====
