---------------------------- MODULE LatestResult ----------------------------
(* What a list on the screen owes its user: the rows shown answer the question *)
(* that is shown with them, completely; nothing of a question asked before is  *)
(* among them, however late its answer comes; and a failure takes none away    *)
(* that were there. A question has parts, asked for one after another.         *)
EXTENDS Naturals, Sequences

CONSTANTS
    Questions,  \* what can be asked
    Row         \* Row[q][p]: the rows that may answer part p of question q

VARIABLES
    question,   \* the question shown
    rows,       \* the answers shown: one for each part
    waiting     \* whether a part is on its way

vars == <<question, rows, waiting>>

Init == question \in Questions /\ rows = <<>> /\ waiting = FALSE

Ask(q) ==
    /\ question' = q /\ rows' = <<>> /\ waiting' = TRUE

AskMore ==
    /\ ~waiting /\ rows # <<>>
    /\ waiting' = TRUE
    /\ UNCHANGED <<question, rows>>

Show ==
    /\ waiting
    /\ \E row \in Row[question][Len(rows) + 1] : rows' = Append(rows, row)
    /\ waiting' = FALSE
    /\ UNCHANGED question

Fail ==
    /\ waiting /\ waiting' = FALSE
    /\ UNCHANGED <<question, rows>>

Next == (\E q \in Questions : Ask(q)) \/ AskMore \/ Show \/ Fail

Spec == Init /\ [][Next]_vars
=============================================================================
