------------------------------ MODULE DiffList ------------------------------
(* Lists that reach the screen as diffs (diff_list.dart): the native side sends *)
(* eyeball_im's VectorDiffs, a controller applies a batch of them to its list. *)
(* Positions count from 0. Clear and Truncate are left out: neither list of    *)
(* this project receives one.                                                   *)
EXTENDS Integers, Sequences, SequencesExt

Diff(op, at, values) == [op |-> op, at |-> at, values |-> values]

ApplyDiff(list, d) ==
    CASE d.op = "append"    -> list \o d.values
      [] d.op = "pushFront" -> d.values \o list
      [] d.op = "pushBack"  -> list \o d.values
      [] d.op = "popFront"  -> Tail(list)
      [] d.op = "popBack"   -> Front(list)
      [] d.op = "insert"    -> InsertAt(list, d.at + 1, d.values[1])
      [] d.op = "set"       -> [list EXCEPT ![d.at + 1] = d.values[1]]
      [] d.op = "remove"    -> RemoveAt(list, d.at + 1)
      [] d.op = "reset"     -> d.values

ApplyDiffs(list, batch) ==
    LET applied[n \in 0 .. Len(batch)] ==
            IF n = 0 THEN list ELSE ApplyDiff(applied[n - 1], batch[n])
    IN  applied[Len(batch)]

\* What a controller shows once the batches under way have arrived.
Arrived(list, sink) ==
    LET shown[n \in 0 .. Len(sink)] ==
            IF n = 0 THEN list ELSE ApplyDiffs(shown[n - 1], sink[n])
    IN  shown[Len(sink)]
=============================================================================
