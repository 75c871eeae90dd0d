---------------------------- MODULE ResultTables ----------------------------
(***************************************************************************)
(* The tables a run writes its results to, and the order it writes them    *)
(* in: every 500 rows are a chunk, and every chunk a commit of its own.    *)
(***************************************************************************)
EXTENDS Naturals, Sequences

CONSTANT WritePlan  \* the table each chunk of a run goes to, in write order

Tables == {"universe", "scores", "parts", "details"}
CountedTables == {"universe", "scores", "parts"}  \* those count_rows compares

ASSUME WritePlanAssumption == WritePlan \in Seq(Tables)

Chunks == DOMAIN WritePlan

\* The chunks of a run that the program means for table t.
Written(t) == {k \in Chunks : WritePlan[k] = t}

=============================================================================
