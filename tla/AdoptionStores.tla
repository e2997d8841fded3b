--------------------------- MODULE AdoptionStores ---------------------------
(***************************************************************************)
(* The SQLite database of live Adoption: manual/live-adoption-store.ts and *)
(* manual/live-retirement-store.ts over one file.  Each operation is one   *)
(* BEGIN IMMEDIATE transaction.  An operation whose UNIQUE constraint or   *)
(* check fails is rolled back, so its guard is the condition under which   *)
(* it commits.  The row of a run keeps its exact binding, here its session.*)
(***************************************************************************)
EXTENDS Naturals, FiniteSets

CONSTANTS
  Sessions,      \* visible Pi sessions, each with one exact binding
  Roles,         \* the Roles of the Team Goal
  MaxProposals,  \* bound: Adoption proposals, hence Agent Runs
  Null           \* "none"

Proposals == 1..MaxProposals

ASSUME StoresAssumption == MaxProposals \in Nat /\ Null \notin Nat \cup Sessions

VARIABLES
  adopted,       \* adopted_runs: first occupants, a retired one included
  replacements,  \* retirement_replacements: successors, retired ones included
  retired,       \* retired_runs
  fences,        \* purged_bindings
  generation,    \* retirement_vacancies: the counter of each Role
  takeovers      \* adoption_takeovers and replacement_takeovers

stores == <<adopted, replacements, retired, fences, generation, takeovers>>

Rows == [run : Proposals, session : Sessions, role : Roles]
ReplacementRows == [run : Proposals, session : Sessions, role : Roles,
                    predecessor : Proposals, generation : Nat]
\* "at" stands for retired_at, which only orders the rows of one Role.
RetiredRows == [run : Proposals, session : Sessions, role : Roles, at : Nat]

StoresTypeOK ==
  /\ adopted \subseteq Rows
  /\ replacements \subseteq ReplacementRows
  /\ retired \subseteq RetiredRows
  /\ fences \subseteq Sessions
  /\ generation \in [Roles -> Nat]
  /\ takeovers \subseteq Proposals

StoresInit ==
  /\ adopted = {} /\ replacements = {}
  /\ retired = {} /\ fences = {}
  /\ generation = [r \in Roles |-> 0]
  /\ takeovers = {}

-----------------------------------------------------------------------------
(* Queries. *)

RetiredRuns == {x.run : x \in retired}
RetiredOf(r) == {x \in retired : x.role = r}
LastRetired(r) == CHOOSE x \in RetiredOf(r) : \A y \in RetiredOf(r) : y.at <= x.at

\* The rows of the runs that hold their Role.
Live(rows) == {x \in rows : x.run \notin RetiredRuns}

\* A retained commitment of a binding: adopted_runs is asked first.
CommittedByBinding(s) ==
  LET first == {x.run : x \in {y \in adopted : y.session = s}}
      later == {x.run : x \in {y \in replacements : y.session = s}}
  IN IF first # {} THEN CHOOSE n \in first : TRUE
     ELSE IF later # {} THEN CHOOSE n \in later : TRUE
     ELSE Null

\* A binding with a tombstone or a fence has no authority left.
IsRetired(s) == s \in fences \/ \E x \in retired : x.session = s

Larger(m, n) == IF m >= n THEN m ELSE n

CurrentVacancyGeneration_CountsRows(r) == Cardinality(RetiredOf(r))

\* The stored counter survives a purge; the count of rows covers databases
\* written before the counter existed.
CurrentVacancyGeneration(r) == Larger(generation[r], Cardinality(RetiredOf(r)))

\* adopted_runs has a row of this exact binding, a retired one included.
BindingCommitted(s) == \E x \in adopted : x.session = s

\* No live replacement holds the Role.
RoleVacant(r) == \A x \in Live(replacements) : x.role # r

\* A live replacement occupies the Role; else any retired row empties it.
RoleOccupied(r) ==
  \/ ~RoleVacant(r)
  \/ RetiredOf(r) = {} /\ \E x \in adopted : x.role = r

\* The Role is empty and has retired history.
Vacated(r) == RetiredOf(r) # {} /\ RoleVacant(r)

\* The predecessor and generation a successor of a vacated Role would carry.
RetirementVacancy(r) ==
  [predecessor |-> LastRetired(r).run, generation |-> CurrentVacancyGeneration(r)]

-----------------------------------------------------------------------------
(* Transactions. *)

\* UNIQUE (role), UNIQUE (binding), and the primary key.
Insertable(n, s, r) == \A x \in adopted : x.run # n /\ x.session # s /\ x.role # r

CommitAdoption(n, s, r) ==
  /\ Insertable(n, s, r)
  /\ adopted' = adopted \cup {[run |-> n, session |-> s, role |-> r]}
  /\ UNCHANGED <<replacements, retired, fences, generation, takeovers>>

\* The replacement table repeats UNIQUE (role), but has no UNIQUE (binding).
ReplacementAdmitted(r, vacancy) ==
  /\ \E x \in retired : x.run = vacancy.predecessor /\ x.role = r
  /\ vacancy.generation = CurrentVacancyGeneration(r)
  /\ RoleVacant(r)
  /\ \A x \in replacements : x.role # r

ReplacementInsertable(n, r, vacancy) ==
  ReplacementAdmitted(r, vacancy) /\ \A x \in replacements : x.run # n

CommitReplacementAdoption(n, s, r, vacancy) ==
  /\ ReplacementInsertable(n, r, vacancy)
  /\ replacements' = replacements \cup
       {[run |-> n, session |-> s, role |-> r,
         predecessor |-> vacancy.predecessor, generation |-> vacancy.generation]}
  /\ UNCHANGED <<adopted, retired, fences, generation, takeovers>>

\* Retirement appends the tombstone and advances the Role's generation.  The
\* replay of a retirement changes nothing and is left out.
CommitRetirement(x) ==
  /\ x.run \notin RetiredRuns
  /\ \A y \in retired : y.session # x.session
  /\ retired' = retired \cup {[run |-> x.run, session |-> x.session, role |-> x.role,
                              at |-> CurrentVacancyGeneration(x.role)]}
  /\ generation' = [generation EXCEPT ![x.role] = CurrentVacancyGeneration(x.role) + 1]
  /\ UNCHANGED <<adopted, replacements, fences, takeovers>>

PurgeRetiredRun_NoSuccessorCheck(x) ==
  /\ x \in retired
  /\ fences' = fences \cup {x.session}
  /\ adopted' = {y \in adopted : y.run # x.run}
  /\ replacements' = {y \in replacements : y.run # x.run}
  /\ retired' = retired \ {x}
  /\ takeovers' = takeovers \ {x.run}
  /\ UNCHANGED generation

\* A purge deletes every row of the newest run of a chain and leaves a fence.
PurgeRetiredRun(x) ==
  /\ x \in retired
  /\ \A y \in replacements : y.predecessor # x.run
  /\ fences' = fences \cup {x.session}
  /\ adopted' = {y \in adopted : y.run # x.run}
  /\ replacements' = {y \in replacements : y.run # x.run}
  /\ retired' = retired \ {x}
  /\ takeovers' = takeovers \ {x.run}
  /\ UNCHANGED generation

RecordManualTakeover(n) ==
  /\ takeovers' = takeovers \cup {n}
  /\ UNCHANGED <<adopted, replacements, retired, fences, generation>>
=============================================================================
