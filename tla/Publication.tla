---------------------------- MODULE Publication ----------------------------
(***************************************************************************)
(* What the publication tables promise their readers, whatever the runs    *)
(* that write them are doing: for each day there is at most one published  *)
(* run, it is swapped in one step, only a run whose result rows are all    *)
(* stored may be put there, every run that ever was there is remembered in *)
(* order and was put there once, and the rows of the run readers are sent  *)
(* to are never taken away.                                                *)
(***************************************************************************)
EXTENDS Naturals, Sequences

CONSTANTS Runs, Days, None

VARIABLES
    board,  \* day -> the run published for it, or None
    past,   \* day -> every run published for it, oldest first
    whole   \* the runs whose result rows are all stored

vars == <<board, past, whole>>

Init ==
    /\ board = [d \in Days |-> None]
    /\ past = [d \in Days |-> <<>>]
    /\ whole \in SUBSET Runs

\* The last result row of run r is stored.
Fill(r) ==
    /\ whole' = whole \cup {r}
    /\ UNCHANGED <<board, past>>

\* Rows of the runs of S are deleted: never those of a published run.
Discard(S) ==
    /\ \A d \in Days : board[d] \notin S
    /\ whole' = whole \ S
    /\ UNCHANGED <<board, past>>

\* Run r becomes day d's publication.
Post(r, d) ==
    /\ r \in whole
    /\ \A e \in Days : \A i \in DOMAIN past[e] : past[e][i] # r
    /\ board' = [board EXCEPT ![d] = r]
    /\ past' = [past EXCEPT ![d] = Append(@, r)]
    /\ UNCHANGED whole

Next ==
    \/ \E r \in Runs : Fill(r) \/ \E d \in Days : Post(r, d)
    \/ \E S \in SUBSET Runs : Discard(S)

Spec == Init /\ [][Next]_vars

============================================================================
