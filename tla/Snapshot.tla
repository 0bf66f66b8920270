------------------------------ MODULE Snapshot ------------------------------
(***************************************************************************)
(* What a monitor promises of the rows it shows, without its mutex, its    *)
(* commands and the places of a query.  Rows are shown of statistics that  *)
(* were whole when they were taken.  They were taken after the rows before *)
(* them had been cleared, and after a check, since then, that had found    *)
(* those of that moment not too old; how long after, nothing says.  A load *)
(* in between leaves no trace in what is shown; unless it writes on the    *)
(* very statistics that were taken (shared): then the rows are those of    *)
(* the moment, which may be made of an old and a new page.                 *)
(***************************************************************************)
EXTENDS Integers

CONSTANTS
    Oldest,        \* the greatest age that a check passes
    Rows(_, _, _)  \* the rows of shared, or not shared, statistics: the
                   \* first groups from the one, the rest from the other

VARIABLES
    shared,   \* loads write on the statistics that have been taken
    current,  \* what a reader may find of them: one of these
    age,      \* how long ago they were stored
    checked,  \* an update has passed the check and has taken none yet
    taken,    \* what an update has taken and not yet shown
    shown     \* the rows

snapshotVars == <<shared, current, age, checked, taken, shown>>

NoRows == [o \in {} |-> o]
Whole  == \A s, t \in current : s = t

SnapshotInit ==
    /\ shared \in BOOLEAN
    /\ Whole /\ age \in Nat
    /\ checked = FALSE /\ taken = {} /\ shown = NoRows

Pass ==
    /\ age' \in {age, age + 1}
    /\ UNCHANGED <<shared, current, checked, taken, shown>>

(* A load that writes on shared statistics is seen before it has ended.    *)
Write ==
    /\ shared /\ Whole
    /\ \E old, new \in current' : current = {old} /\ current' = {old, new}
    /\ UNCHANGED <<shared, age, checked, taken, shown>>

Store ==
    /\ \E new \in current' :
            /\ current' = {new}
            /\ shared => new \in current
    /\ age' = 0
    /\ UNCHANGED <<shared, checked, taken, shown>>

Clear ==
    /\ ~checked /\ taken = {}
    /\ shown' = NoRows
    /\ UNCHANGED <<shared, current, age, checked, taken>>

Check ==
    /\ ~checked /\ taken = {} /\ shown = NoRows
    /\ age <= Oldest
    /\ checked' = TRUE
    /\ UNCHANGED <<shared, current, age, taken, shown>>

Take ==
    /\ checked /\ checked' = FALSE
    /\ Whole
    /\ taken' = current
    /\ UNCHANGED <<shared, current, age, shown>>

Show ==
    /\ taken # {}
    /\ \E a, b \in (IF shared THEN current ELSE taken) :
            shown' = Rows(shared, a, b)
    /\ taken' = {}
    /\ UNCHANGED <<shared, current, age, checked>>

SnapshotNext == Pass \/ Write \/ Store \/ Clear \/ Check \/ Take \/ Show

SnapshotSpec == SnapshotInit /\ [][SnapshotNext]_snapshotVars
=============================================================================
