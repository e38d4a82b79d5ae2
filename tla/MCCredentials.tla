-------------------------- MODULE MCCredentials --------------------------
(* Credentials with all tasks in one process.                              *)
EXTENDS Credentials, TLC

OneHome == [t \in Tasks |-> CHOOSE p \in Procs : TRUE]

\* Bounds: one refresh is cut short, and not beside a login or switch, after which only TypeOK is
\* still in question in this process.
Explored == Cardinality(lost) < 2 /\ (touched = {} \/ lost = {})

TaskSymmetry == Permutations(Tasks)

=============================================================================
