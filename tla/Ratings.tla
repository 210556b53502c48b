------------------------------ MODULE Ratings ------------------------------
(***************************************************************************)
(* The ratings of one technician and the average and count kept on the     *)
(* technician's row.  Each transaction inserts a rating, then counts, then *)
(* averages, then writes both figures; at READ COMMITTED every statement   *)
(* sees the rows committed by then and the transaction's own.  A figure is *)
(* represented by the set of ratings it was taken over.                    *)
(***************************************************************************)
CONSTANTS Raters, Rated      \* handlers; completed orders of the technician

VARIABLES
    ratings,    \* orders with a committed rating
    figures,    \* the ratings behind rating_count and rating_avg
    rater,      \* what each handler is doing
    settled     \* the last write was by a transaction that met no other write

vars == <<ratings, figures, rater, settled>>

Phases == {"idle", "insert", "count", "average", "write", "delete"}

TypeOK ==
    /\ ratings \subseteq Rated
    /\ figures \in [count : SUBSET Rated, average : SUBSET Rated]
    /\ rater \in [Raters -> [phase : Phases, order : Rated, alone : BOOLEAN,
                             count : SUBSET Rated, average : SUBSET Rated]]
    /\ settled \in BOOLEAN

Rater(phase, o, alone) ==
    [phase |-> phase, order |-> o, alone |-> alone, count |-> {}, average |-> {}]

Init ==
    /\ ratings = {}
    /\ figures = [count |-> {}, average |-> {}]
    /\ rater \in [Raters -> {Rater("idle", o, FALSE) : o \in Rated}]
    /\ settled = TRUE

-----------------------------------------------------------------------------
\* What the statements of a transaction see, and would see without its insert.
InTransaction(h) == rater[h].phase \in {"count", "average", "write"}
SeesOthers(h) == ratings
Sees(h) == ratings \cup {rater[h].order}

\* After a write by h no other transaction under way is alone any more.
NotAlone(h, entry) ==
    [g \in Raters |-> IF g = h THEN entry ELSE [rater[g] EXCEPT !.alone = FALSE]]

\* The order is read: it is completed, has a technician and is the customer's.
CheckOrder(h, o) ==
    /\ rater[h].phase = "idle"
    /\ rater' = [rater EXCEPT ![h] = Rater("insert", o, FALSE)]
    /\ UNCHANGED <<ratings, figures, settled>>

\* The insert waits for another transaction that inserted the same order's
\* rating, and fails on one that is committed.
Insert(h) ==
    /\ rater[h].phase = "insert"
    /\ \A g \in Raters : InTransaction(g) => rater[g].order # rater[h].order
    /\ rater' = IF rater[h].order \in ratings
                THEN [rater EXCEPT ![h].phase = "idle"]
                ELSE NotAlone(h, Rater("count", rater[h].order, ~ \E g \in Raters : InTransaction(g)))
    /\ UNCHANGED <<ratings, figures, settled>>

Count(h) ==
    /\ rater[h].phase = "count"
    /\ rater' = [rater EXCEPT ![h].phase = "average", ![h].count = Sees(h)]
    /\ UNCHANGED <<ratings, figures, settled>>

Average(h) ==
    /\ rater[h].phase = "average"
    /\ rater' = [rater EXCEPT ![h].phase = "write", ![h].average = Sees(h)]
    /\ UNCHANGED <<ratings, figures, settled>>

\* The update of the technician's row and the commit.
Commit(h) ==
    /\ rater[h].phase = "write"
    /\ ratings' = ratings \cup {rater[h].order}
    /\ figures' = [count |-> rater[h].count, average |-> rater[h].average]
    /\ settled' = rater[h].alone
    /\ rater' = NotAlone(h, Rater("idle", rater[h].order, FALSE))

Rollback(h) ==
    /\ InTransaction(h)
    /\ rater' = [rater EXCEPT ![h] = Rater("idle", rater[h].order, FALSE)]
    /\ UNCHANGED <<ratings, figures, settled>>

\* The head office deletes a rating; the figures stay as they are.
FindRating(h, o) ==
    /\ rater[h].phase = "idle"
    /\ o \in ratings
    /\ rater' = [rater EXCEPT ![h] = Rater("delete", o, FALSE)]
    /\ UNCHANGED <<ratings, figures, settled>>

DeleteRating(h) ==
    /\ rater[h].phase = "delete"
    /\ rater' = NotAlone(h, Rater("idle", rater[h].order, FALSE))
    /\ ratings' = ratings \ {rater[h].order}
    /\ settled' = (settled /\ rater[h].order \notin ratings)
    /\ UNCHANGED figures

Next ==
    \/ \E h \in Raters, o \in Rated : CheckOrder(h, o) \/ FindRating(h, o)
    \/ \E h \in Raters :
         Insert(h) \/ Count(h) \/ Average(h) \/ Commit(h) \/ Rollback(h) \/ DeleteRating(h)

Spec == Init /\ [][Next]_vars

-----------------------------------------------------------------------------
\* Count and average are those of the committed ratings whenever the last write
\* was by a transaction that overlapped no other write: an overlap or a deletion
\* spoils them, and the next rating given undisturbed repairs them.
FiguresExactOnceSettled ==
    settled => figures = [count |-> ratings, average |-> ratings]
=============================================================================
