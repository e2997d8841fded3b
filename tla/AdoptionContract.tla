-------------------------- MODULE AdoptionContract --------------------------
(***************************************************************************)
(* What explicit Adoption, Retirement and purge promise, whatever the two  *)
(* stores, the gateway and the Pi extensions do to keep it: a Role has at  *)
(* most one occupant, a Pi session is adopted once in its life, a          *)
(* successor names the retired occupant it replaces, and history is purged *)
(* from its newest end.                                                    *)
(***************************************************************************)
CONSTANTS
  Sessions,  \* visible Pi sessions, each one exact binding
  Roles,     \* the Roles of the Team Goal
  Runs,      \* Agent Runs
  NoRun      \* "no predecessor"

VARIABLES
  runs,      \* the Agent Runs that are retained
  purged     \* the sessions whose retired run was deleted

vars == <<runs, purged>>

Init == runs = {} /\ purged = {}

RunsOf(r) == {x \in runs : x.role = r}

\* A free session takes a vacant Role; it succeeds a retired occupant of the
\* Role exactly when one is retained.
Adopt(n, s, r, predecessor) ==
  /\ \A x \in runs : x.run # n /\ x.session # s
  /\ s \notin purged
  /\ \A x \in RunsOf(r) : x.retired
  /\ IF RunsOf(r) = {} THEN predecessor = NoRun
     ELSE \E x \in RunsOf(r) : predecessor = x.run
  /\ runs' = runs \cup {[run |-> n, session |-> s, role |-> r,
                         predecessor |-> predecessor, retired |-> FALSE]}
  /\ UNCHANGED purged

\* Retirement is irreversible and keeps the run.
Retire(x) ==
  /\ x \in runs /\ ~x.retired
  /\ runs' = (runs \ {x}) \cup {[x EXCEPT !.retired = TRUE]}
  /\ UNCHANGED purged

\* Only a retired run that no retained run succeeds is deleted, and its
\* session never comes back.
Purge(x) ==
  /\ x \in runs /\ x.retired
  /\ \A y \in runs : y.predecessor # x.run
  /\ runs' = runs \ {x}
  /\ purged' = purged \cup {x.session}

Next ==
  \/ \E n \in Runs, s \in Sessions, r \in Roles, p \in Runs \cup {NoRun} : Adopt(n, s, r, p)
  \/ \E x \in runs : Retire(x) \/ Purge(x)

Spec == Init /\ [][Next]_vars
=============================================================================
