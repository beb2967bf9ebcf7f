------------------------------- MODULE WriteLog -------------------------------
(***************************************************************************)
(* What the write engine promises its callers, without threads, batches,   *)
(* connections or retries: accepted writes wait in line and are committed  *)
(* or given up from the front; direct saves join the committed log at      *)
(* once; the cloud holds a prefix of the committed log that is never taken *)
(* back; a rebuild keeps exactly that prefix.                              *)
(***************************************************************************)
EXTENDS Naturals, Sequences

CONSTANTS
  Writes,   \* writes that wait in line
  Skipped,  \* the writes among them that leave no trace when committed
  Saves     \* direct transactions

VARIABLES
  waiting,    \* accepted writes that are not yet decided, oldest first
  committed,  \* the log of the local database
  published   \* length of the prefix of the log that the cloud holds

logVars == <<waiting, committed, published>>

Init == waiting = <<>> /\ committed = <<>> /\ published = 0

\* A caller was told True.
Accept == \E w \in Writes : /\ waiting' = Append(waiting, w)
                            /\ UNCHANGED <<committed, published>>

Rest(n) == SubSeq(waiting, n + 1, Len(waiting))

Increasing(g) == \A j, k \in DOMAIN g : j < k => g[j] < g[k]

\* The oldest n writes take effect together, or none of them does: the log
\* grows by those of them that leave a trace, in their order.  They leave the
\* line, unless the answer was lost: then they wait to be decided again.
Commit == \E n \in 1 .. Len(waiting), m \in 0 .. Len(waiting) :
            \E g \in [1 .. m -> 1 .. n] :
              /\ Increasing(g)
              /\ {g[k] : k \in 1 .. m} = {i \in 1 .. n : waiting[i] \notin Skipped}
              /\ committed' = committed \o [k \in 1 .. m |-> waiting[g[k]]]
              /\ waiting' \in {waiting, Rest(n)}
              /\ UNCHANGED published

\* The oldest n writes are given up together: a rejected batch, or the end of
\* the process.
GiveUp == \E n \in 1 .. Len(waiting) :
            /\ waiting' = Rest(n)
            /\ UNCHANGED <<committed, published>>

Save == \E s \in Saves : /\ committed' = Append(committed, s)
                         /\ UNCHANGED <<waiting, published>>

\* The cloud catches up with the whole log.
Publish == /\ published' = Len(committed)
           /\ UNCHANGED <<waiting, committed>>

\* The local database is made anew from the cloud.
Rebuild == /\ committed' = SubSeq(committed, 1, published)
           /\ UNCHANGED <<waiting, published>>

Next == Accept \/ Commit \/ GiveUp \/ Save \/ Publish \/ Rebuild

LogSpec == Init /\ [][Next]_logVars
=============================================================================
