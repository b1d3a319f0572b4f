---------------------------- MODULE Reachability ----------------------------
(***************************************************************************)
(* What analyze.h promises of a traversal, without saying how it is done:  *)
(* from the seeds it is given it marks the addresses that control flow     *)
(* reaches, in any order, one at a time, and stops when no reached address *)
(* is left unmarked.  Analyze.tla is shown to implement this.              *)
(***************************************************************************)
VARIABLES
  succ,      \* the control-flow graph: a function from nodes to sets
  seeds,     \* the nodes asked for so far
  marked,    \* the nodes found so far
  running    \* the traversal has been started and has not returned

vars == <<succ, seeds, marked, running>>

Node == DOMAIN succ

\* Nodes that control reaches in at most one step from what is marked.
Frontier ==
  LET edges == succ
  IN  (seeds \cup UNION {edges[n] : n \in marked}) \cap DOMAIN edges

Init == seeds = {} /\ marked = {} /\ running = FALSE

\* Seeds are only added between traversals.
Seed == /\ ~running
        /\ UNCHANGED <<marked, running, succ>>
        /\ \E n \in Node : seeds' = seeds \cup {n}

Start == ~running /\ running' = TRUE /\ UNCHANGED <<succ, seeds, marked>>

Mark == /\ running
        /\ \E n \in Frontier \ marked : marked' = marked \cup {n}
        /\ UNCHANGED <<succ, seeds, running>>

\* A traversal may return only when it has nothing left to find.
Return == /\ running
          /\ Frontier \subseteq marked
          /\ running' = FALSE
          /\ UNCHANGED <<succ, seeds, marked>>

Next == Seed \/ Start \/ Mark \/ Return

Spec == Init /\ [][Next]_vars
=============================================================================
