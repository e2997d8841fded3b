---------------------------- MODULE AdoptionProofs ----------------------------
(***************************************************************************)
(* Theorems about LiveAdoption, for all sessions, Roles and bounds.        *)
(*                                                                         *)
(* 1. The vacancy of a Role.  Every step of the gateway, the user and the  *)
(*    Pi sessions runs at most one transaction of AdoptionStores, so what  *)
(*    concerns the durable rows alone is proved from the transactions.     *)
(*                                                                         *)
(* 2. LiveAdoption implements AdoptionContract.  Most of the contract is   *)
(*    in the rows and the phases of the proposals; that a session is not   *)
(*    adopted twice is not, because replacements are not looked up by      *)
(*    binding: it rests on the order of the frames between the gateway and *)
(*    the Pi that refuses.                                                 *)
(*                                                                         *)
(* 3. Leases, takeovers and recovery, on top of the invariant of 2.        *)
(***************************************************************************)
EXTENDS LiveAdoption, SequenceTheorems, FiniteSetTheorems, TLAPS

-----------------------------------------------------------------------------
(* The vacancy of a Role. *)

\* What a step may do to the rows that carry the vacancy of a Role.
VacancyStep ==
  \/ UNCHANGED <<retired, generation>>
  \/ \E x \in adopted \cup replacements : CommitRetirement(x)
  \/ \E x \in retired : PurgeRetiredRun(x)

\* The counter of a Role covers the retired rows it still has.
VacancyCounted ==
  /\ generation \in [Roles -> Nat]
  /\ IsFiniteSet(retired)
  /\ \A r \in Roles : Cardinality(RetiredOf(r)) <= generation[r]

-----------------------------------------------------------------------------

\* No handler touches the vacancy except through retirement and purge.
LEMMA OnlyTransactions ==
  ASSUME [Next]_vars PROVE VacancyStep
<1> USE DEF VacancyStep, stores
<1>1. CASE GatewayStep
  <2>1. ASSUME NEW c \in Conns, HandleRegister(c) PROVE VacancyStep
    BY <2>1 DEF HandleRegister, Register, BeginRecovery, Reject
  <2>2. ASSUME NEW c \in Conns, HandleTakeover(c) PROVE VacancyStep
    BY <2>2 DEF HandleTakeover, RecordManualTakeover, Reject
  <2>3. ASSUME NEW c \in Conns,
               HandleRecoveryProof(c) \/ HandleLifecycle(c) \/ HandleAcknowledgement(c)
               \/ HandleReady(c) \/ HandleClosed(c)
        PROVE VacancyStep
    BY <2>3 DEF HandleRecoveryProof, HandleLifecycle, HandleAcknowledgement, HandleReady,
                HandleClosed, Reject
  <2>4. ASSUME NEW p \in Proposals, CommitAcknowledged(p) PROVE VacancyStep
    BY <2>4 DEF CommitAcknowledged, Insertion, CommitAdoption, CommitReplacementAdoption
  <2>5. ASSUME NEW p \in Proposals, CommitRefused(p) PROVE VacancyStep
    BY <2>5 DEF CommitRefused
  <2>6. CASE Lapse \/ Sweep \/ CrashGateway
    BY <2>6 DEF Lapse, Sweep, CrashGateway
  <2>7. QED BY <1>1, <2>1, <2>2, <2>3, <2>4, <2>5, <2>6 DEF GatewayStep
<1>2. CASE UserStep
  <2>1. ASSUME NEW s \in Sessions, NEW r \in Roles, RequestAdoption(s, r) PROVE VacancyStep
    BY <2>1 DEF RequestAdoption
  <2>2. ASSUME NEW p \in Proposals, AuthorizeAdoption(p) PROVE VacancyStep
    BY <2>2 DEF AuthorizeAdoption
  <2>3. ASSUME NEW x \in adopted \cup replacements, RetireAgentRun(x) PROVE VacancyStep
    BY <2>3 DEF RetireAgentRun
  <2>4. ASSUME NEW x \in retired, PurgeRetiredAgentRun(x) PROVE VacancyStep
    BY <2>4 DEF PurgeRetiredAgentRun
  <2>5. QED BY <1>2, <2>1, <2>2, <2>3, <2>4 DEF UserStep
<1>3. CASE PiStep
  BY <1>3 DEF PiStep, Connect, ReceiveRegistered, ReceiveRequest, ReceiveChallenge,
              ReceiveCommitted, ReceiveEnd, RepeatReady, Input, ChangeActivity, Disconnect, Quit
<1>4. CASE UNCHANGED vars
  BY <1>4 DEF vars
<1>5. QED BY <1>1, <1>2, <1>3, <1>4 DEF Next

\* The retired rows of a Role are finitely many and are counted.
LEMMA RetiredCount ==
  ASSUME VacancyCounted, NEW r \in Roles
  PROVE  /\ IsFiniteSet(RetiredOf(r))
         /\ Cardinality(RetiredOf(r)) \in Nat
         /\ CurrentVacancyGeneration(r) = generation[r]
<1>1. RetiredOf(r) \subseteq retired BY DEF RetiredOf
<1>2. IsFiniteSet(RetiredOf(r)) BY <1>1, FS_Subset DEF VacancyCounted
<1>3. Cardinality(RetiredOf(r)) \in Nat BY <1>2, FS_CardinalityType
<1>4. QED BY <1>2, <1>3 DEF VacancyCounted, CurrentVacancyGeneration, Larger

\* Retirement counts the row it adds; the counter of the Role moves on.
LEMMA RetirementCounted ==
  ASSUME VacancyCounted, NEW x, CommitRetirement(x)
  PROVE  /\ VacancyCounted'
         /\ \A r \in Roles : generation[r] <= generation'[r]
<1> DEFINE row == [run |-> x.run, session |-> x.session, role |-> x.role,
                   at |-> CurrentVacancyGeneration(x.role)]
<1>1. retired' = retired \cup {row} BY DEF CommitRetirement
<1>2. generation' = [generation EXCEPT ![x.role] = CurrentVacancyGeneration(x.role) + 1]
  BY DEF CommitRetirement
<1>3. IsFiniteSet(retired') BY <1>1, FS_AddElement DEF VacancyCounted
<1>4. ASSUME NEW r \in Roles, r # x.role
      PROVE RetiredOf(r)' = RetiredOf(r) /\ generation'[r] = generation[r]
  BY <1>1, <1>2, <1>4 DEF RetiredOf, VacancyCounted
<1>5. CASE x.role \in Roles
  <2> DEFINE r == x.role
  <2>1. /\ IsFiniteSet(RetiredOf(r)) /\ Cardinality(RetiredOf(r)) \in Nat
        /\ CurrentVacancyGeneration(r) = generation[r]
    BY <1>5, RetiredCount
  <2>2. generation'[r] = generation[r] + 1 /\ generation' \in [Roles -> Nat]
    BY <1>2, <1>5, <2>1 DEF VacancyCounted
  <2>3. RetiredOf(r)' = RetiredOf(r) \cup {row} BY <1>1 DEF RetiredOf
  <2>4. \/ Cardinality(RetiredOf(r)') = Cardinality(RetiredOf(r))
        \/ Cardinality(RetiredOf(r)') = Cardinality(RetiredOf(r)) + 1
    BY <2>1, <2>3, FS_AddElement
  <2>5. Cardinality(RetiredOf(r)') <= generation'[r] /\ generation[r] <= generation'[r]
    BY <1>5, <2>1, <2>2, <2>4 DEF VacancyCounted
  <2>6. \A q \in Roles : Cardinality(RetiredOf(q)') <= generation'[q] /\ generation[q] <= generation'[q]
    <3> TAKE q \in Roles
    <3>1. CASE q = r BY <2>5, <3>1
    <3>2. CASE q # r BY <1>4, <3>2 DEF VacancyCounted
    <3>3. QED BY <3>1, <3>2
  <2>7. QED BY <1>3, <2>2, <2>6 DEF VacancyCounted
<1>6. CASE x.role \notin Roles
  <2>1. generation' = generation BY <1>2, <1>6 DEF VacancyCounted
  <2>2. \A q \in Roles : RetiredOf(q)' = RetiredOf(q) BY <1>4, <1>6
  <2>3. QED BY <1>3, <2>1, <2>2 DEF VacancyCounted
<1>7. QED BY <1>5, <1>6

\* A purge only takes rows away.
LEMMA PurgeCounted ==
  ASSUME VacancyCounted, NEW x, PurgeRetiredRun(x)
  PROVE  VacancyCounted' /\ generation' = generation
<1>1. retired' = retired \ {x} /\ generation' = generation BY DEF PurgeRetiredRun
<1>2. IsFiniteSet(retired') BY <1>1, FS_Subset DEF VacancyCounted
<1>3. ASSUME NEW r \in Roles PROVE Cardinality(RetiredOf(r)') <= generation'[r]
  <2>1. RetiredOf(r)' \subseteq RetiredOf(r) BY <1>1 DEF RetiredOf
  <2>2. IsFiniteSet(RetiredOf(r)) /\ Cardinality(RetiredOf(r)) \in Nat BY RetiredCount
  <2>3. IsFiniteSet(RetiredOf(r)') BY <2>1, <2>2, FS_Subset
  <2>4. Cardinality(RetiredOf(r)') <= Cardinality(RetiredOf(r)) BY <2>1, <2>2, FS_Subset
  <2>5. Cardinality(RetiredOf(r)') \in Nat BY <2>3, FS_CardinalityType
  <2>6. Cardinality(RetiredOf(r)) <= generation[r] /\ generation[r] \in Nat BY DEF VacancyCounted
  <2>7. QED BY <1>1, <2>2, <2>4, <2>5, <2>6
<1>4. QED BY <1>1, <1>2, <1>3 DEF VacancyCounted

\* The counter covers the rows and never falls.
LEMMA VacancyStepCounted ==
  ASSUME VacancyCounted, VacancyStep
  PROVE  /\ VacancyCounted'
         /\ \A r \in Roles : CurrentVacancyGeneration(r)' >= CurrentVacancyGeneration(r)
<1>1. /\ VacancyCounted'
      /\ \A r \in Roles : generation[r] <= generation'[r]
  <2>1. CASE UNCHANGED <<retired, generation>>
    BY <2>1 DEF VacancyCounted, RetiredOf
  <2>2. ASSUME NEW x \in adopted \cup replacements, CommitRetirement(x)
        PROVE VacancyCounted' /\ \A r \in Roles : generation[r] <= generation'[r]
    BY <2>2, RetirementCounted
  <2>3. ASSUME NEW x \in retired, PurgeRetiredRun(x)
        PROVE VacancyCounted' /\ \A r \in Roles : generation[r] <= generation'[r]
    <3>1. VacancyCounted' /\ generation' = generation BY <2>3, PurgeCounted
    <3>2. QED BY <3>1 DEF VacancyCounted
  <2>4. QED BY <2>1, <2>2, <2>3 DEF VacancyStep
<1>2. \A r \in Roles : CurrentVacancyGeneration(r) = generation[r] BY RetiredCount
<1>3. \A r \in Roles : CurrentVacancyGeneration(r)' = generation'[r]
  <2> TAKE r \in Roles
  <2>1. RetiredOf(r)' \subseteq retired' BY DEF RetiredOf
  <2>2. Cardinality(RetiredOf(r)') \in Nat
    BY <1>1, <2>1, FS_Subset, FS_CardinalityType DEF VacancyCounted
  <2>3. QED BY <1>1, <2>2 DEF VacancyCounted, CurrentVacancyGeneration, Larger
<1>4. \A r \in Roles : generation[r] \in Nat /\ generation'[r] \in Nat
  BY <1>1 DEF VacancyCounted
<1>5. QED BY <1>1, <1>2, <1>3, <1>4

\* The counters start at the empty count.
LEMMA VacancyInit == ASSUME Init PROVE VacancyCounted
<1>1. retired = {} /\ generation = [r \in Roles |-> 0] BY DEF Init, StoresInit
<1>2. IsFiniteSet(retired) BY <1>1, FS_EmptySet
<1>3. \A r \in Roles : RetiredOf(r) = {} BY <1>1 DEF RetiredOf
<1>4. \A r \in Roles : Cardinality(RetiredOf(r)) = 0 BY <1>3, FS_EmptySet
<1>5. QED BY <1>1, <1>2, <1>4 DEF VacancyCounted

\* Whatever is retired, replaced and purged, and whatever crashes, the vacancy
\* generation of a Role never falls (live-retirement-store.ts
\* currentVacancyGeneration, commitRetirement, purgeRetiredRun): an old
\* generation can be refused by comparing it with the current one.
THEOREM VacancyCorrect == Spec => VacancyAdvances
<1>1. Init => VacancyCounted BY VacancyInit
<1>2. VacancyCounted /\ [Next]_vars => VacancyCounted'
  BY OnlyTransactions, VacancyStepCounted
<1>3. VacancyCounted /\ [Next]_vars
        => [\A r \in Roles : CurrentVacancyGeneration(r)' >= CurrentVacancyGeneration(r)]_vars
  BY OnlyTransactions, VacancyStepCounted
<1>4. QED BY <1>1, <1>2, <1>3, PTL DEF Spec, VacancyAdvances

-----------------------------------------------------------------------------
(* Types. *)

RunOrNull == Proposals \cup {Null}
FramesToPi ==
  [type : {"registered"}, rev : Nat] \cup [type : {"request"}, run : RunOrNull, rev : Nat]
  \cup [type : {"challenge", "committed"}, run : RunOrNull] \cup [type : {"rejected", "closed"}]
FramesToGateway ==
  [type : {"register", "lifecycle"}, activity : Activities]
  \cup [type : {"acknowledged", "refused", "ready", "takeover", "proof"}, run : RunOrNull]
  \cup [type : {"closed"}]
Extensions ==
  [alive : BOOLEAN, activity : Activities, conn : Conns \cup {0}, rev : Nat, managed : BOOLEAN,
   ack : RunOrNull, sessionAck : RunOrNull, committed : RunOrNull, candidate : RunOrNull,
   takeover : BOOLEAN]

EntryRecords == [conn : Conns, rev : Nat, activity : Activities, available : BOOLEAN, live : BOOLEAN]

Occupants == adopted \cup replacements

RowTypes ==
  /\ \A x \in Occupants : x.run \in Proposals /\ x.session \in Sessions /\ x.role \in Roles
  /\ \A x \in replacements : x.predecessor \in Proposals

ProposalTypes ==
  /\ phase \in [Proposals -> Phases] /\ DOMAIN proposal = Proposals
  /\ \A p \in Proposals : phase[p] # "unused" =>
       proposal[p] \in [session : Sessions, role : Roles, conn : Conns, rev : Nat]
  /\ listed \subseteq Proposals

EntryTypes ==
  /\ DOMAIN observed = Sessions
  /\ \A s \in Sessions : observed[s] # Null =>
       observed[s] \in EntryRecords
  /\ revision \in Nat

WireTypes ==
  /\ toPi \in [Conns -> Seq(FramesToPi)] /\ toGateway \in [Conns -> Seq(FramesToGateway)]
  /\ pi \in [Sessions -> Extensions]
  /\ owner \in [Conns -> Sessions \cup {Null}]
  /\ \A c \in serving : c \in Conns /\ owner[c] # Null
  /\ \A s \in Sessions : pi[s].conn # 0 => owner[pi[s].conn] = s

-----------------------------------------------------------------------------
(* The rows. *)

RowsSound ==
  /\ \A x, y \in adopted : x.run = y.run \/ x.role = y.role => x = y
  /\ \A x, y \in replacements : x.run = y.run \/ x.role = y.role => x = y
  /\ \A x \in adopted, y \in replacements : x.run # y.run
  /\ \A x \in Occupants : phase[x.run] = "committed"
  /\ \A t \in retired : \E x \in Occupants : x.run = t.run /\ x.session = t.session /\ x.role = t.role
  /\ \A t, u \in retired : t.run = u.run => t = u
  /\ \A x \in adopted : x.run \notin RetiredRuns =>
       RetiredOf(x.role) = {} /\ \A y \in replacements : y.role # x.role

-----------------------------------------------------------------------------
(* The coordinator. *)

InPlay(p) == phase[p] \in {"proposed", "authorized", "acknowledged"}
Pending == listed \ late

\* What a commit asks of a proposal, as far as it matters here.
Viable(p) ==
  LET s == proposal[p].session IN
  /\ phase[p] = "acknowledged" /\ p \in contexts /\ p \notin late
  /\ observed[s] # Null /\ observed[s].conn = proposal[p].conn /\ observed[s].rev = proposal[p].rev

ProposalsSound ==
  /\ \A p \in listed : InPlay(p)
  /\ \A p \in Proposals : InPlay(p) => proposal[p].rev <= revision
  /\ \A p \in Proposals : phase[p] # "unused" => owner[proposal[p].conn] = proposal[p].session
  /\ \A p, q \in Pending : proposal[p].session = proposal[q].session => p = q
  /\ \A p \in Proposals : Viable(p) => p \in listed

EntriesSound ==
  /\ \A s \in Sessions : observed[s] # Null =>
       observed[s].rev <= revision /\ owner[observed[s].conn] = s
  /\ \A s \in fences \cap Sessions : observed[s] = Null

-----------------------------------------------------------------------------
(* The frames. *)

Without(frames, type) == \A i \in DOMAIN frames : frames[i].type # type
AckIn(frames, p) == \E i \in DOMAIN frames : frames[i].type = "acknowledged" /\ frames[i].run = p

\* Connections that registered their session.
Used(c) ==
  \/ \E p \in Proposals : phase[p] # "unused" /\ proposal[p].conn = c
  \/ \E s \in Sessions : observed[s] # Null /\ observed[s].conn = c

\* A connection registers first, and is challenged only instead of that.
RegistersFirst(frames) == \A i \in DOMAIN frames : frames[i].type = "register" => i = 1
RegistersSound ==
  \A c \in Conns :
    /\ RegistersFirst(toGateway[c])
    /\ Used(c) => Without(toGateway[c], "register")
    /\ Used(c) \/ ~Without(toGateway[c], "register") => Without(toPi[c], "challenge")
    /\ owner[c] = Null => toPi[c] = <<>>

\* Frames about a proposal travel on its connection, once it is authorized.
Mentioned(p, c) ==
  p \in Proposals /\ phase[p] \notin {"unused", "proposed"} /\ proposal[p].conn = c
MentionsSound ==
  \A c \in Conns :
    /\ \A i \in DOMAIN toPi[c] : toPi[c][i].type = "request" => Mentioned(toPi[c][i].run, c)
    /\ \A i \in DOMAIN toGateway[c] :
         toGateway[c][i].type = "acknowledged" => Mentioned(toGateway[c][i].run, c)

\* The request of a pending proposal is the last one, and once it is
\* acknowledged there is none.
RequestLast(frames, p) ==
  \A i, j \in DOMAIN frames :
    i < j /\ frames[i].type = "request" /\ frames[i].run = p => frames[j].type # "request"
Answered(p) ==
  LET c == proposal[p].conn IN
  /\ phase[p] = "acknowledged" \/ AckIn(toGateway[c], p)
  /\ pi[proposal[p].session].conn = c
RequestsSound ==
  \A p \in Pending :
    LET c == proposal[p].conn IN
    /\ RequestLast(toPi[c], p)
    /\ Answered(p) => pi[proposal[p].session].ack = p /\ Without(toPi[c], "request")

\* The Pi of an occupant refuses every further request: it is managed, or the
\* commitment (or a rejection, which ends the connection) comes before it.
Settling(frames, ack, n) ==
  \E i \in DOMAIN frames :
    /\ (frames[i] = CommittedFrame(n) /\ ack = n) \/ frames[i] = Rejected
    /\ \A j \in 1 .. i - 1 : frames[j].type # "request"
OccupantSettled(x) ==
  LET s == x.session
      c == observed[s].conn IN
  observed[s] # Null =>
    /\ pi[s].conn = c => pi[s].managed \/ Settling(toPi[c], pi[s].ack, x.run)
    /\ \A p \in Pending : proposal[p].session = s =>
         phase[p] # "acknowledged" /\ ~AckIn(toGateway[c], p)
OccupantsSound == \A x \in Occupants : OccupantSettled(x)

Ledger == RowTypes /\ ProposalTypes /\ EntryTypes /\ RowsSound /\ ProposalsSound /\ EntriesSound
Frames == WireTypes /\ RegistersSound /\ MentionsSound /\ RequestsSound /\ OccupantsSound
ContractInv == Ledger /\ Frames

-----------------------------------------------------------------------------
(* Queues of frames. *)

\* What a queue is with one more frame at its end.
LEMMA AppendedTo ==
  ASSUME NEW S, NEW q \in Seq(S), NEW f \in S
  PROVE  /\ Append(q, f) \in Seq(S)
         /\ DOMAIN q = 1 .. Len(q) /\ Len(q) \in Nat
         /\ DOMAIN Append(q, f) = 1 .. Len(q) + 1
         /\ \A i \in 1 .. Len(q) : Append(q, f)[i] = q[i]
         /\ Append(q, f)[Len(q) + 1] = f
  BY AppendProperties, LenProperties

\* What a queue is without its first frame.
LEMMA TailOf ==
  ASSUME NEW S, NEW q \in Seq(S), q # <<>>
  PROVE  /\ Tail(q) \in Seq(S) /\ Head(q) \in S /\ Head(q) = q[1]
         /\ DOMAIN q = 1 .. Len(q) /\ Len(q) \in Nat \ {0}
         /\ DOMAIN Tail(q) = 1 .. Len(q) - 1
         /\ \A i \in 1 .. Len(q) - 1 : Tail(q)[i] = q[i + 1]
  BY HeadTailProperties, LenProperties, EmptySeq

\* What a new frame leaves as it was.
LEMMA AppendToPi ==
  ASSUME NEW q \in Seq(FramesToPi), NEW f \in FramesToPi
  PROVE  /\ \A t : f.type # t /\ Without(q, t) => Without(Append(q, f), t)
         /\ \A p : f.type # "request" /\ RequestLast(q, p) => RequestLast(Append(q, f), p)
         /\ \A a, n : Settling(q, a, n) => Settling(Append(q, f), a, n)
<1>1. /\ DOMAIN q = 1 .. Len(q) /\ Len(q) \in Nat
      /\ DOMAIN Append(q, f) = 1 .. Len(q) + 1
      /\ \A i \in 1 .. Len(q) : Append(q, f)[i] = q[i]
      /\ Append(q, f)[Len(q) + 1] = f
  BY AppendedTo
<1>2. ASSUME NEW t, f.type # t, Without(q, t) PROVE Without(Append(q, f), t)
  BY <1>1, <1>2 DEF Without
<1>3. ASSUME NEW p, f.type # "request", RequestLast(q, p) PROVE RequestLast(Append(q, f), p)
  <2> SUFFICES ASSUME NEW i \in 1 .. Len(q) + 1, NEW j \in 1 .. Len(q) + 1,
                      i < j, Append(q, f)[i].type = "request", Append(q, f)[i].run = p
               PROVE  Append(q, f)[j].type # "request"
    BY <1>1 DEF RequestLast
  <2>1. i \in 1 .. Len(q) BY <1>1
  <2>2. CASE j = Len(q) + 1 BY <1>1, <1>3, <2>2
  <2>3. CASE j \in 1 .. Len(q) BY <1>1, <1>3, <2>1, <2>3 DEF RequestLast
  <2>4. QED BY <1>1, <2>2, <2>3
<1>4. ASSUME NEW a, NEW n, Settling(q, a, n) PROVE Settling(Append(q, f), a, n)
  <2>1. PICK i \in DOMAIN q :
          /\ (q[i] = CommittedFrame(n) /\ a = n) \/ q[i] = Rejected
          /\ \A j \in 1 .. i - 1 : q[j].type # "request"
    BY <1>4 DEF Settling
  <2>2. i \in 1 .. Len(q) + 1 /\ Append(q, f)[i] = q[i] BY <1>1, <2>1
  <2>3. \A j \in 1 .. i - 1 : Append(q, f)[j] = q[j] BY <1>1, <2>1
  <2>4. QED BY <1>1, <2>1, <2>2, <2>3 DEF Settling
<1>5. QED BY <1>2, <1>3, <1>4

\* What the Pi's taking its next frame leaves as it was.
LEMMA TailToPi ==
  ASSUME NEW q \in Seq(FramesToPi), q # <<>>
  PROVE  /\ \A t : Without(q, t) => Without(Tail(q), t)
         /\ \A p : RequestLast(q, p) => RequestLast(Tail(q), p)
         /\ \A p : RequestLast(q, p) /\ Head(q).type = "request" /\ Head(q).run = p =>
              Without(Tail(q), "request")
         /\ \A a, n : Settling(q, a, n) /\ Head(q) # Rejected
                      /\ ~(Head(q) = CommittedFrame(n) /\ a = n) =>
              Settling(Tail(q), a, n) /\ Head(q).type # "request"
<1>1. /\ Head(q) = q[1]
      /\ DOMAIN q = 1 .. Len(q) /\ Len(q) \in Nat \ {0}
      /\ DOMAIN Tail(q) = 1 .. Len(q) - 1
      /\ \A i \in 1 .. Len(q) - 1 : Tail(q)[i] = q[i + 1]
  BY TailOf
<1>2. ASSUME NEW t, Without(q, t) PROVE Without(Tail(q), t)
  BY <1>1, <1>2 DEF Without
<1>3. ASSUME NEW p, RequestLast(q, p) PROVE RequestLast(Tail(q), p)
  <2> SUFFICES ASSUME NEW i \in 1 .. Len(q) - 1, NEW j \in 1 .. Len(q) - 1,
                      i < j, Tail(q)[i].type = "request", Tail(q)[i].run = p
               PROVE  Tail(q)[j].type # "request"
    BY <1>1 DEF RequestLast
  <2>1. i + 1 \in 1 .. Len(q) /\ j + 1 \in 1 .. Len(q) /\ i + 1 < j + 1 BY <1>1
  <2>2. QED BY <1>1, <1>3, <2>1 DEF RequestLast
<1>4. ASSUME NEW p, RequestLast(q, p), Head(q).type = "request", Head(q).run = p
      PROVE Without(Tail(q), "request")
  <2> SUFFICES ASSUME NEW j \in 1 .. Len(q) - 1 PROVE Tail(q)[j].type # "request"
    BY <1>1 DEF Without
  <2>1. 1 \in 1 .. Len(q) /\ j + 1 \in 1 .. Len(q) /\ 1 < j + 1 BY <1>1
  <2>2. QED BY <1>1, <1>4, <2>1 DEF RequestLast
<1>5. ASSUME NEW a, NEW n, Settling(q, a, n), Head(q) # Rejected,
             ~(Head(q) = CommittedFrame(n) /\ a = n)
      PROVE Settling(Tail(q), a, n) /\ Head(q).type # "request"
  <2>1. PICK i \in 1 .. Len(q) :
          /\ (q[i] = CommittedFrame(n) /\ a = n) \/ q[i] = Rejected
          /\ \A j \in 1 .. i - 1 : q[j].type # "request"
    BY <1>1, <1>5 DEF Settling
  <2>2. i # 1 BY <1>1, <1>5, <2>1
  <2>3. i - 1 \in 1 .. Len(q) - 1 /\ Tail(q)[i - 1] = q[i] BY <1>1, <2>1, <2>2
  <2>4. \A j \in 1 .. (i - 1) - 1 : Tail(q)[j] = q[j + 1] /\ j + 1 \in 1 .. i - 1
    BY <1>1, <2>1, <2>2
  <2>5. 1 \in 1 .. i - 1 BY <2>1, <2>2
  <2>6. QED BY <1>1, <2>1, <2>3, <2>4, <2>5 DEF Settling
<1>6. QED BY <1>2, <1>3, <1>4, <1>5

\* What the gateway's taking a frame leaves as it was.
LEMMA TailToGateway ==
  ASSUME NEW q \in Seq(FramesToGateway), q # <<>>
  PROVE  /\ \A t : Without(q, t) => Without(Tail(q), t)
         /\ RegistersFirst(q) => Without(Tail(q), "register")
         /\ \A p : AckIn(Tail(q), p) => AckIn(q, p)
         /\ \A i \in DOMAIN Tail(q) : \E j \in DOMAIN q : Tail(q)[i] = q[j]
<1>1. /\ DOMAIN q = 1 .. Len(q) /\ Len(q) \in Nat \ {0}
      /\ DOMAIN Tail(q) = 1 .. Len(q) - 1
      /\ \A i \in 1 .. Len(q) - 1 : Tail(q)[i] = q[i + 1]
  BY TailOf
<1>2. \A i \in 1 .. Len(q) - 1 : i + 1 \in 1 .. Len(q) /\ i + 1 # 1 BY <1>1
<1>3. QED BY <1>1, <1>2 DEF Without, RegistersFirst, AckIn

\* What the Pi's frames leave as it was.
LEMMA ConcatToGateway ==
  ASSUME NEW q \in Seq(FramesToGateway), NEW g \in Seq(FramesToGateway), Without(g, "register")
  PROVE  /\ q \o g \in Seq(FramesToGateway)
         /\ RegistersFirst(q) => RegistersFirst(q \o g)
         /\ Without(q, "register") => Without(q \o g, "register")
         /\ \A p : AckIn(q \o g, p) => AckIn(q, p) \/ AckIn(g, p)
         /\ \A i \in DOMAIN (q \o g) :
              (\E j \in DOMAIN q : (q \o g)[i] = q[j]) \/ (\E j \in DOMAIN g : (q \o g)[i] = g[j])
<1>1. /\ q \o g \in Seq(FramesToGateway) /\ Len(q) \in Nat /\ Len(g) \in Nat
      /\ DOMAIN q = 1 .. Len(q) /\ DOMAIN g = 1 .. Len(g)
      /\ DOMAIN (q \o g) = 1 .. Len(q) + Len(g)
      /\ \A i \in 1 .. Len(q) + Len(g) :
           (q \o g)[i] = IF i <= Len(q) THEN q[i] ELSE g[i - Len(q)]
  BY ConcatProperties, LenProperties
<1>2. ASSUME NEW i \in 1 .. Len(q) + Len(g)
      PROVE  \/ i \in 1 .. Len(q) /\ (q \o g)[i] = q[i]
             \/ i - Len(q) \in 1 .. Len(g) /\ (q \o g)[i] = g[i - Len(q)]
  BY <1>1, <1>2
<1>3. QED BY <1>1, <1>2 DEF Without, RegistersFirst, AckIn
-----------------------------------------------------------------------------
(* Quiet steps. *)

\* The coordinator decides proposals or forgets them; entries only go.
Shrinks ==
  /\ proposal' = proposal /\ late \subseteq late' /\ listed' \subseteq listed
  /\ contexts' \subseteq contexts
  /\ phase' \in [Proposals -> Phases]
  /\ \A p \in Proposals : phase'[p] = phase[p]
       \/ (InPlay(p) /\ phase'[p] \in {"failed", "committed"} /\ p \notin listed')
  /\ \A p \in listed \ listed' : phase'[p] # "acknowledged" \/ p \notin contexts'
  /\ DOMAIN observed' = Sessions
  /\ \A s \in Sessions : observed'[s] # Null =>
       /\ observed[s] # Null /\ observed'[s].conn = observed[s].conn
       /\ observed'[s] \in EntryRecords

\* The Pi gets no frame of a loud type, the gateway gets none.
QuietQueues(loud) ==
  /\ toPi' \in [Conns -> Seq(FramesToPi)] /\ toGateway' \in [Conns -> Seq(FramesToGateway)]
  /\ \A c \in Conns : toGateway'[c] = toGateway[c]
       \/ (toGateway[c] # <<>> /\ toGateway'[c] = Tail(toGateway[c]))
  /\ \A c \in Conns : toPi'[c] = toPi[c]
       \/ (owner[c] # Null /\ \E f \in FramesToPi :
             f.type \notin loud /\ toPi'[c] = Append(toPi[c], f))
QuietWire ==
  /\ QuietQueues({"request", "challenge"}) /\ serving' \subseteq serving /\ owner' = owner /\ pi' = pi
  /\ Occupants' \subseteq Occupants

\* No entry gets a revision, no session a fence while it is observed.
QuietRegistry ==
  /\ \A s \in Sessions : observed'[s] # Null => observed'[s].rev = observed[s].rev
  /\ revision' \in Nat /\ revision <= revision'
  /\ \A c \in Conns : owner[c] # Null => owner'[c] = owner[c]
  /\ \A s \in Sessions \cap (fences' \ fences) : observed'[s] = Null

\* What a queue may have lost or gained on such a step.
QueuesKept ==
  \A c \in Conns :
    /\ \A p : AckIn(toGateway'[c], p) => AckIn(toGateway[c], p)
    /\ \A t : Without(toGateway[c], t) => Without(toGateway'[c], t)
    /\ RegistersFirst(toGateway[c]) => RegistersFirst(toGateway'[c])
    /\ \A i \in DOMAIN toGateway'[c] :
         \E j \in DOMAIN toGateway[c] : toGateway'[c][i] = toGateway[c][j]
    /\ Without(toPi[c], "request") => Without(toPi'[c], "request")
    /\ \A p : RequestLast(toPi[c], p) => RequestLast(toPi'[c], p)
    /\ \A a, n : Settling(toPi[c], a, n) => Settling(toPi'[c], a, n)
    /\ owner[c] = Null => toPi'[c] = toPi[c]
    /\ \A i \in DOMAIN toPi'[c] : toPi'[c][i].type = "request" =>
         \E j \in DOMAIN toPi[c] : toPi'[c][i] = toPi[c][j]

\* Frames handled, and frames that ask for nothing sent, keep what the queues
\* had to satisfy.
LEMMA QueuesKeep ==
  ASSUME WireTypes, QuietQueues({"request"})
  PROVE  QueuesKept
<1> SUFFICES ASSUME NEW c \in Conns PROVE QueuesKept!(c)
  BY DEF QueuesKept
<1>1. toGateway[c] \in Seq(FramesToGateway) /\ toPi[c] \in Seq(FramesToPi) BY DEF WireTypes
<1>2. /\ \A p : AckIn(toGateway'[c], p) => AckIn(toGateway[c], p)
      /\ \A t : Without(toGateway[c], t) => Without(toGateway'[c], t)
      /\ RegistersFirst(toGateway[c]) => RegistersFirst(toGateway'[c])
      /\ \A i \in DOMAIN toGateway'[c] :
           \E j \in DOMAIN toGateway[c] : toGateway'[c][i] = toGateway[c][j]
  <2>1. CASE toGateway'[c] = toGateway[c] BY <2>1
  <2>2. CASE toGateway[c] # <<>> /\ toGateway'[c] = Tail(toGateway[c])
    BY <1>1, <2>2, TailToGateway DEF Without, RegistersFirst
  <2>3. QED BY <2>1, <2>2 DEF QuietQueues
<1>3. CASE toPi'[c] = toPi[c] BY <1>2, <1>3
<1>4. ASSUME owner[c] # Null, NEW f \in FramesToPi, f.type # "request",
             toPi'[c] = Append(toPi[c], f)
      PROVE QueuesKept!(c)
  <2>1. \A i \in DOMAIN toPi'[c] : toPi'[c][i].type = "request" =>
          \E j \in DOMAIN toPi[c] : toPi'[c][i] = toPi[c][j]
    BY <1>1, <1>4, AppendedTo
  <2>2. QED BY <1>1, <1>2, <1>4, <2>1, AppendToPi
<1>5. QED BY <1>3, <1>4 DEF QuietQueues

\* A quiet step keeps the order of registration and challenge.
LEMMA RegistersKept ==
  ASSUME WireTypes, RegistersSound, QuietQueues({"request", "challenge"}), owner' = owner,
         \A c \in Conns : Used(c)' => Used(c)
  PROVE  RegistersSound' /\ QueuesKept
<1>1. QuietQueues({"request"}) BY DEF QuietQueues
<1>2. QueuesKept BY <1>1, QueuesKeep
<1>3. ASSUME NEW c \in Conns, Without(toPi[c], "challenge") PROVE Without(toPi'[c], "challenge")
  <2>1. toPi[c] \in Seq(FramesToPi) BY DEF WireTypes
  <2>2. ASSUME NEW f \in FramesToPi, f.type # "challenge", toPi'[c] = Append(toPi[c], f)
        PROVE Without(toPi'[c], "challenge")
    BY <1>3, <2>1, <2>2, AppendToPi
  <2>3. QED BY <1>3, <2>2 DEF QuietQueues
<1>4. QED BY <1>2, <1>3 DEF RegistersSound, QueuesKept

\* A step that only forgets makes no connection used.
LEMMA UsedBefore ==
  ASSUME Shrinks
  PROVE  \A c \in Conns : Used(c)' => Used(c)
  BY DEF Used, Shrinks, InPlay

\* The remaining frames still speak of authorized proposals.
LEMMA MentionsKept ==
  ASSUME MentionsSound, QueuesKept, \A p, c : Mentioned(p, c) => Mentioned(p, c)'
  PROVE  MentionsSound'
  BY DEF MentionsSound, QueuesKept

\* The proposals still pending are answered as before.
LEMMA RequestsKept ==
  ASSUME ProposalTypes, RequestsSound, QueuesKept, pi' = pi,
         \A p \in Pending' : /\ p \in Pending /\ phase[p] # "unused"
                             /\ proposal'[p] = proposal[p]
                             /\ phase'[p] = "acknowledged" =>
                                  phase[p] = "acknowledged" \/ AckIn(toGateway[proposal[p].conn], p)
  PROVE  RequestsSound'
<1> SUFFICES ASSUME NEW p \in Pending' PROVE (RequestsSound!(p))'
  BY DEF RequestsSound
<1>1. p \in Pending /\ proposal'[p] = proposal[p] /\ proposal[p].conn \in Conns
  BY DEF Pending, ProposalTypes
<1>2. Answered(p)' => Answered(p) BY <1>1 DEF Answered, QueuesKept
<1>3. QED BY <1>1, <1>2 DEF RequestsSound, QueuesKept

\* A Pi that was settled stays so.
LEMMA OccupantKept ==
  ASSUME EntryTypes, QueuesKept, pi' = pi,
         NEW x, x.session \in Sessions, OccupantSettled(x),
         observed'[x.session] # Null =>
           observed[x.session] # Null /\ observed'[x.session].conn = observed[x.session].conn,
         \A p \in Pending' : proposal'[p].session = x.session =>
           \/ phase'[p] # "acknowledged" /\ \A c \in Conns : ~AckIn(toGateway'[c], p)
           \/ p \in Pending /\ phase'[p] = phase[p] /\ proposal'[p] = proposal[p]
  PROVE  OccupantSettled(x)'
<1> DEFINE s == x.session
           c == observed[s].conn
<1>1. CASE observed'[s] # Null
  <2>1. observed[s] # Null /\ observed'[s].conn = c /\ c \in Conns
    BY <1>1 DEF EntryTypes, EntryRecords
  <2>2. /\ pi[s].conn = c => pi[s].managed \/ Settling(toPi[c], pi[s].ack, x.run)
        /\ \A p \in Pending : proposal[p].session = s =>
             phase[p] # "acknowledged" /\ ~AckIn(toGateway[c], p)
    BY <2>1 DEF OccupantSettled
  <2>3. pi'[s].conn = c => pi'[s].managed \/ Settling(toPi'[c], pi'[s].ack, x.run)
    BY <2>1, <2>2 DEF QueuesKept
  <2>4. \A p \in Pending' : proposal'[p].session = s =>
          phase'[p] # "acknowledged" /\ ~AckIn(toGateway'[c], p)
    BY <2>1, <2>2 DEF QueuesKept
  <2>5. QED BY <2>1, <2>3, <2>4 DEF OccupantSettled
<1>2. QED BY <1>1 DEF OccupantSettled

\* A quiet step keeps what is known of the frames.
LEMMA QuietFrames ==
  ASSUME Ledger, Frames, Shrinks, QuietWire
  PROVE  Frames'
<1> USE DEF Ledger, Frames
<1>1. RegistersSound' /\ QueuesKept
  <2>1. \A c \in Conns : Used(c)' => Used(c) BY UsedBefore
  <2>2. QED BY <2>1, RegistersKept DEF QuietWire
<1>2. WireTypes'
  BY DEF QuietWire, QuietQueues, WireTypes
<1>4. MentionsSound'
  <2>1. \A p, c : Mentioned(p, c) => Mentioned(p, c)' BY DEF Mentioned, Shrinks
  <2>2. QED BY <1>1, <2>1, MentionsKept
<1>5. \A p \in Pending' : p \in Pending /\ phase'[p] = phase[p] /\ phase[p] # "unused"
  BY DEF Pending, Shrinks, ProposalTypes, ProposalsSound, InPlay
<1>6. RequestsSound'
  BY <1>1, <1>5, RequestsKept DEF Shrinks, QuietWire
<1>7. OccupantsSound'
  <2> SUFFICES ASSUME NEW x \in Occupants' PROVE OccupantSettled(x)'
    BY DEF OccupantsSound
  <2>1. OccupantSettled(x) /\ x.session \in Sessions BY DEF QuietWire, RowTypes, OccupantsSound
  <2>2. QED BY <1>1, <1>5, <2>1, OccupantKept DEF Shrinks, QuietWire
<1>8. QED BY <1>1, <1>2, <1>4, <1>6, <1>7

\* What sending one frame does to the queues.
LEMMA SentTo ==
  ASSUME WireTypes, NEW c \in Conns, NEW f \in FramesToPi
  PROVE  /\ Sent(c, f) \in [Conns -> Seq(FramesToPi)]
         /\ \A k \in Conns : k # c => Sent(c, f)[k] = toPi[k]
         /\ Sent(c, f)[c] = toPi[c] \/ Sent(c, f)[c] = Append(toPi[c], f)
<1>1. toPi \in [Conns -> Seq(FramesToPi)] /\ Append(toPi[c], f) \in Seq(FramesToPi)
  BY AppendedTo DEF WireTypes
<1>2. QED BY <1>1 DEF Sent

\* What handling one frame does to the queues.
LEMMA HandledFrom ==
  ASSUME WireTypes, NEW c, NEW types, Handles(c, types), Handled(c)
  PROVE  /\ c \in Conns /\ owner[c] \in Sessions /\ owner[c] # Null
         /\ toGateway[c] \in Seq(FramesToGateway) /\ toGateway[c] # <<>>
         /\ Head(toGateway[c]) \in FramesToGateway
         /\ toGateway' \in [Conns -> Seq(FramesToGateway)]
         /\ toGateway'[c] = Tail(toGateway[c])
         /\ \A k \in Conns : k # c => toGateway'[k] = toGateway[k]
<1>1. c \in Conns /\ owner[c] \in Sessions /\ owner[c] # Null BY DEF Handles, WireTypes
<1>2. toGateway \in [Conns -> Seq(FramesToGateway)] /\ toGateway[c] # <<>> BY DEF Handles, WireTypes
<1>3. Tail(toGateway[c]) \in Seq(FramesToGateway) /\ Head(toGateway[c]) \in FramesToGateway
  BY <1>1, <1>2, TailOf
<1>4. QED BY <1>1, <1>2, <1>3 DEF Handled

\* Forgetting the proposals of sessions, and losing connections.
LEMMA Losing ==
  ASSUME Ledger, NEW lost, NEW expired, LoseConnections(lost, expired)
  PROVE  /\ Shrinks
         /\ \A s \in Sessions : observed'[s] # Null => observed'[s].rev = observed[s].rev
<1> USE DEF Ledger
<1> DEFINE entries == {s \in Sessions : observed[s] # Null /\ observed[s].conn \in lost}
           gone == UNION {PendingOf(s) : s \in entries}
<1>1. gone \subseteq listed /\ \A p \in gone : proposal[p].session \in entries
  BY DEF PendingOf
<1>2. listed' = listed \ gone
      /\ phase' = [p \in Proposals |->
           IF p \in gone /\ phase[p] # "acknowledged" THEN "failed" ELSE phase[p]]
  BY DEF LoseConnections, Invalidate
<1>3. phase' \in [Proposals -> Phases]
      /\ \A p \in Proposals : phase'[p] = phase[p]
           \/ (InPlay(p) /\ phase'[p] = "failed" /\ p \notin listed')
  BY <1>1, <1>2 DEF ProposalTypes, ProposalsSound, Phases
<1>4. contexts' = {p \in contexts : proposal[p].session \notin entries} /\ UNCHANGED <<proposal, late>>
  BY DEF LoseConnections
<1>5. \A p \in listed \ listed' : p \notin contexts' BY <1>1, <1>2, <1>4
<1>6. observed' = [s \in Sessions |->
          IF s \in expired THEN Null
          ELSE IF s \in entries THEN [observed[s] EXCEPT !.available = FALSE]
          ELSE observed[s]]
  BY DEF LoseConnections
<1>7. DOMAIN observed' = Sessions
      /\ \A s \in Sessions : observed'[s] # Null =>
         /\ observed[s] # Null /\ observed'[s].conn = observed[s].conn
         /\ observed'[s].rev = observed[s].rev
         /\ observed'[s] \in EntryRecords
  BY <1>6 DEF EntryTypes, EntryRecords
<1>8. QED BY <1>2, <1>3, <1>4, <1>5, <1>7 DEF Shrinks

\* A frame that is answered.
LEMMA Answering ==
  ASSUME Ledger, Frames, NEW c, NEW types, Handles(c, types), Handled(c),
         NEW f \in FramesToPi, NEW loud, f.type \notin loud, toPi' = Sent(c, f)
  PROVE  QuietQueues(loud)
<1>1. /\ c \in Conns /\ owner[c] # Null
      /\ toGateway' \in [Conns -> Seq(FramesToGateway)]
      /\ \A k \in Conns : toGateway'[k] = toGateway[k]
           \/ (toGateway[k] # <<>> /\ toGateway'[k] = Tail(toGateway[k]))
  BY HandledFrom DEF Frames
<1>2. /\ toPi' \in [Conns -> Seq(FramesToPi)]
      /\ \A k \in Conns : k # c => toPi'[k] = toPi[k]
      /\ toPi'[c] = toPi[c] \/ toPi'[c] = Append(toPi[c], f)
  BY <1>1, SentTo DEF Frames
<1>3. QED BY <1>1, <1>2 DEF QuietQueues

\* A frame that is answered with a rejection changes the wire only.
LEMMA Rejecting ==
  ASSUME Ledger, Frames, NEW c, NEW types, Handles(c, types), Handled(c),
         toPi' = Sent(c, Rejected), UNCHANGED <<adopted, replacements, serving, owner, pi>>
  PROVE  QuietWire
<1>1. Rejected \in FramesToPi /\ Rejected.type \notin {"request", "challenge"}
  BY DEF Rejected, FramesToPi
<1>2. QuietQueues({"request", "challenge"}) BY <1>1, Answering
<1>3. QED BY <1>2 DEF QuietWire, Occupants

Quiet == Shrinks /\ QuietWire /\ QuietRegistry

\* Nothing but the frames changes.
LEMMA Still ==
  ASSUME Ledger, UNCHANGED <<coordinator, observed, revision, fences, owner>>
  PROVE  Shrinks /\ QuietRegistry
  BY DEF Ledger, Shrinks, QuietRegistry, coordinator, ProposalTypes, EntryTypes

\* The frames that register nothing, ask for nothing and commit nothing.
LEMMA QuietHandlers ==
  ASSUME Ledger, Frames, NEW c \in Conns,
         HandleRecoveryProof(c) \/ HandleReady(c) \/ HandleTakeover(c) \/ HandleClosed(c)
  PROVE  Quiet
<1> USE DEF Ledger, Frames
<1>1. CASE HandleRecoveryProof(c)
  <2>1. Handles(c, {"proof"}) /\ Handled(c) /\ UNCHANGED <<stores, coordinator, observed, registry,
          serving, owner, pi>>
    BY <1>1 DEF HandleRecoveryProof
  <2>2. FrameRun(c) \in RunOrNull
    BY <2>1, HandledFrom DEF Handles, FrameRun, FramesToGateway
  <2>3. Rejected \in FramesToPi /\ CommittedFrame(FrameRun(c)) \in FramesToPi
        /\ Rejected.type = "rejected" /\ CommittedFrame(FrameRun(c)).type = "committed"
    BY <2>2 DEF Rejected, CommittedFrame, FramesToPi
  <2>4. toPi' = Sent(c, Rejected) \/ toPi' = Sent(c, CommittedFrame(FrameRun(c)))
    BY <1>1 DEF HandleRecoveryProof
  <2>5. QuietWire
    <3>1. CASE toPi' = Sent(c, Rejected) BY <2>1, <3>1, Rejecting DEF stores
    <3>2. CASE toPi' = Sent(c, CommittedFrame(FrameRun(c)))
      <4>1. QuietQueues({"request", "challenge"}) BY <2>1, <2>3, <3>2, Answering
      <4>2. QED BY <2>1, <4>1 DEF QuietWire, Occupants, stores
    <3>3. QED BY <2>4, <3>1, <3>2
  <2>6. QED BY <2>1, <2>5, Still DEF Quiet, stores, registry
<1>2. CASE HandleReady(c)
  <2>1. Handles(c, {"ready"}) /\ Handled(c) /\ UNCHANGED <<stores, coordinator, observed, registry,
          serving, owner, pi>>
    BY <1>2 DEF HandleReady, Reject, leases
  <2>2. toPi' = toPi \/ toPi' = Sent(c, Rejected) BY <1>2 DEF HandleReady, Reject
  <2>3. QuietWire
    <3>1. CASE toPi' = toPi
      BY <2>1, <3>1, HandledFrom DEF QuietWire, QuietQueues, Occupants, stores, WireTypes
    <3>2. CASE toPi' = Sent(c, Rejected) BY <2>1, <3>2, Rejecting DEF stores
    <3>3. QED BY <2>2, <3>1, <3>2
  <2>4. QED BY <2>1, <2>3, Still DEF Quiet, stores, registry
<1>3. CASE HandleTakeover(c)
  <2>1. Handles(c, {"takeover"}) /\ Handled(c)
        /\ UNCHANGED <<adopted, replacements, fences, registry, serving, owner, pi>>
    BY <1>3 DEF HandleTakeover, RecordManualTakeover, Reject, stores
  <2>2. toPi' = toPi \/ toPi' = Sent(c, Rejected) BY <1>3 DEF HandleTakeover, Reject
  <2>3. QuietWire
    <3>1. CASE toPi' = toPi
      BY <2>1, <3>1, HandledFrom DEF QuietWire, QuietQueues, Occupants, WireTypes
    <3>2. CASE toPi' = Sent(c, Rejected) BY <2>1, <3>2, Rejecting
    <3>3. QED BY <2>2, <3>1, <3>2
  <2>4. Shrinks /\ QuietRegistry
    <3>1. CASE LoseConnections({c}, {})
      BY <2>1, <3>1, Losing DEF QuietRegistry, registry, EntryTypes
    <3>2. CASE UNCHANGED <<coordinator, observed>>
      BY <2>1, <3>2, Still DEF registry
    <3>3. QED BY <1>3, <3>1, <3>2 DEF HandleTakeover, Reject, leases
  <2>5. QED BY <2>3, <2>4 DEF Quiet
<1>4. CASE HandleClosed(c)
  <2>1. Handles(c, {"closed"}) /\ Handled(c) /\ LoseConnections({c}, {})
        /\ UNCHANGED <<stores, registry, owner, toPi, pi>> /\ serving' \subseteq serving
    BY <1>4 DEF HandleClosed
  <2>2. QuietWire
    BY <2>1, HandledFrom DEF QuietWire, QuietQueues, Occupants, stores, WireTypes
  <2>3. QuietRegistry /\ Shrinks
    BY <2>1, Losing DEF QuietRegistry, registry, stores, EntryTypes
  <2>4. QED BY <2>2, <2>3 DEF Quiet
<1>5. QED BY <1>1, <1>2, <1>3, <1>4

\* Deadlines and refusals.
LEMMA QuietDeadlines ==
  ASSUME Ledger, Frames, Lapse \/ Sweep \/ \E p \in Proposals : CommitRefused(p)
  PROVE  Quiet
<1> USE DEF Ledger, Frames
<1>1. CASE Lapse
  <2>1. UNCHANGED <<stores, proposal, phase, listed, contexts, registry, wire, pi>>
    BY <1>1 DEF Lapse
  <2> DEFINE kept == \A s \in Sessions : observed'[s] # Null =>
                       /\ observed[s] # Null /\ observed'[s] \in EntryRecords
                       /\ observed'[s].conn = observed[s].conn /\ observed'[s].rev = observed[s].rev
  <2>2. late \subseteq late' /\ DOMAIN observed' = Sessions /\ kept
    <3>1. CASE late \subseteq late' /\ observed' = observed BY <3>1 DEF EntryTypes
    <3>2. ASSUME NEW s \in Sessions, LapseObserved(s) PROVE late' = late /\ DOMAIN observed' = Sessions /\ kept
      <4>1. /\ observed[s] # Null /\ late' = late
            /\ observed' = [observed EXCEPT ![s] = [observed[s] EXCEPT !.live = FALSE]]
        BY <3>2 DEF LapseObserved
      <4>2. observed[s] \in EntryRecords
        BY <4>1 DEF EntryTypes
      <4>3. /\ observed'[s] = [observed[s] EXCEPT !.live = FALSE]
            /\ DOMAIN observed' = Sessions
            /\ \A k \in Sessions : k # s => observed'[k] = observed[k]
        BY <4>1 DEF EntryTypes
      <4>4. /\ observed'[s].conn = observed[s].conn /\ observed'[s].rev = observed[s].rev
            /\ observed'[s] \in EntryRecords
        BY <4>2, <4>3 DEF EntryRecords
      <4>5. DOMAIN observed' = Sessions /\ \A k \in Sessions : k # s => observed'[k] = observed[k]
        BY <4>3
      <4>6. late' = late /\ observed[s] # Null BY <4>1
      <4>7. QED BY <4>4, <4>5, <4>6 DEF EntryTypes
    <3>3. QED
      <4>1. ASSUME NEW c, LapseManaged(c) \/ LapseRecovery(c) \/ LapseProposal(c)
            PROVE late \subseteq late' /\ observed' = observed
        BY <4>1 DEF LapseManaged, LapseRecovery, LapseProposal
      <4>2. QED BY <1>1, <3>1, <3>2, <4>1 DEF Lapse
  <2>4. Shrinks /\ QuietRegistry
    BY <2>1, <2>2 DEF Shrinks, QuietRegistry, stores, registry, wire, ProposalTypes, EntryTypes
  <2>5. QuietWire
    BY <2>1 DEF QuietWire, QuietQueues, wire, stores, Occupants, WireTypes
  <2>6. QED BY <2>4, <2>5 DEF Quiet
<1>2. CASE Sweep
  <2>1. UNCHANGED <<stores, registry, wire, pi>> BY <1>2 DEF Sweep
  <2>2. \E lost, expired : LoseConnections(lost, expired) BY <1>2 DEF Sweep
  <2>3. Shrinks /\ QuietRegistry
    BY <2>1, <2>2, Losing DEF QuietRegistry, stores, registry, wire, EntryTypes
  <2>4. QuietWire
    BY <2>1 DEF QuietWire, QuietQueues, wire, stores, Occupants, WireTypes
  <2>5. QED BY <2>3, <2>4 DEF Quiet
<1>3. ASSUME NEW p \in Proposals, CommitRefused(p) PROVE Quiet
  <2> DEFINE c == proposal[p].conn
  <2>1. /\ phase[p] = "acknowledged"
        /\ phase' = [phase EXCEPT ![p] = "failed"] /\ listed' = listed \ {p}
        /\ toPi' = Sent(c, Rejected)
        /\ UNCHANGED <<stores, proposal, late, contexts, leases, registry, serving, owner, toGateway,
                       pi>>
    BY <1>3 DEF CommitRefused, InvalidateProposal
  <2>2. c \in Conns /\ owner[c] # Null
    BY <2>1, StoresAssumption DEF ProposalTypes, ProposalsSound
  <2>3. Rejected \in FramesToPi /\ Rejected.type = "rejected" BY DEF Rejected, FramesToPi
  <2>4. /\ toPi' \in [Conns -> Seq(FramesToPi)]
        /\ \A k \in Conns : k # c => toPi'[k] = toPi[k]
        /\ toPi'[c] = toPi[c] \/ toPi'[c] = Append(toPi[c], Rejected)
    BY <2>1, <2>2, <2>3, SentTo
  <2>5. QuietWire
    BY <2>1, <2>2, <2>3, <2>4 DEF QuietWire, QuietQueues, stores, Occupants, WireTypes
  <2>6. Shrinks /\ QuietRegistry
    BY <2>1 DEF Shrinks, QuietRegistry, stores, leases, registry, ProposalTypes, EntryTypes, InPlay,
                Phases
  <2>7. QED BY <2>5, <2>6 DEF Quiet
<1>4. QED BY <1>1, <1>2, <1>3

\* Retirement and purge.
LEMMA QuietUser ==
  ASSUME Ledger, Frames,
         \/ \E x \in Occupants : RetireAgentRun(x)
         \/ \E x \in retired : PurgeRetiredAgentRun(x)
  PROVE  Quiet
<1> USE DEF Ledger, Frames
<1>1. ASSUME NEW x, RetireAgentRun(x) PROVE Quiet
  <2>1. UNCHANGED <<adopted, replacements, fences, proposal, phase, late, listed, observed, registry,
                    wire, pi>>
        /\ contexts' \subseteq contexts
    BY <1>1 DEF RetireAgentRun, CommitRetirement, DropAuthority
  <2>2. QuietWire BY <2>1 DEF QuietWire, QuietQueues, wire, Occupants, WireTypes
  <2>3. Shrinks /\ QuietRegistry
    BY <2>1 DEF Shrinks, QuietRegistry, registry, wire, ProposalTypes, EntryTypes
  <2>4. QED BY <2>2, <2>3 DEF Quiet
<1>2. ASSUME NEW x \in retired, PurgeRetiredAgentRun(x) PROVE Quiet
  <2>1. /\ UNCHANGED <<proposal, phase, late, registry, wire, pi>>
        /\ adopted' \subseteq adopted /\ replacements' \subseteq replacements
        /\ fences' = fences \cup {x.session}
        /\ contexts' = {p \in contexts : proposal[p].session # x.session}
        /\ observed' = [observed EXCEPT ![x.session] = Null]
        /\ listed' = {p \in listed : proposal[p].session # x.session}
    BY <1>2 DEF PurgeRetiredAgentRun, PurgeRetiredRun, DropAuthority
  <2>2. QuietWire BY <2>1 DEF QuietWire, QuietQueues, wire, Occupants, WireTypes
  <2>3. Shrinks /\ QuietRegistry
    BY <2>1 DEF Shrinks, QuietRegistry, registry, wire, ProposalTypes, EntryTypes
  <2>4. QED BY <2>2, <2>3 DEF Quiet
<1>3. QED BY <1>1, <1>2

-----------------------------------------------------------------------------
(* The other steps of the gateway and the user. *)

\* What committedByBinding tells of the rows of a session.
LEMMA BindingQueries ==
  ASSUME RowTypes, NEW s
  PROVE  /\ CommittedByBinding(s) = Null => \A x \in Occupants : x.session # s
         /\ CommittedByBinding(s) # Null => CommittedByBinding(s) \in Proposals
<1> DEFINE first == {x.run : x \in {y \in adopted : y.session = s}}
           later == {x.run : x \in {y \in replacements : y.session = s}}
<1>1. first \subseteq Proposals /\ later \subseteq Proposals BY DEF RowTypes, Occupants
<1>2. Null \notin Proposals BY StoresAssumption DEF Proposals
<1>3. CASE first # {}
  <2>1. CommittedByBinding(s) = CHOOSE n \in first : TRUE BY <1>3 DEF CommittedByBinding
  <2>2. QED BY <1>1, <1>2, <1>3, <2>1
<1>4. CASE first = {} /\ later # {}
  <2>1. CommittedByBinding(s) = CHOOSE n \in later : TRUE BY <1>4 DEF CommittedByBinding
  <2>2. QED BY <1>1, <1>2, <1>4, <2>1
<1>5. CASE first = {} /\ later = {}
  <2>1. CommittedByBinding(s) = Null BY <1>5 DEF CommittedByBinding
  <2>2. \A x \in Occupants : x.session # s BY <1>5 DEF Occupants
  <2>3. QED BY <2>1, <2>2
<1>6. QED BY <1>3, <1>4, <1>5

\* What registering a session that has no commitment does.
Observes(c) ==
  /\ Handles(c, {"register"}) /\ Handled(c)
  /\ \A x \in Occupants : x.session # owner[c]
  /\ owner[c] \notin fences /\ ~(c <= highWater[owner[c]])
  /\ revision' = revision + 1 /\ highWater' = [highWater EXCEPT ![owner[c]] = c]
  /\ \E a \in Activities : observed' = [observed EXCEPT ![owner[c]] = ObservedEntry(c, revision + 1, a)]
  /\ Invalidate(PendingOf(owner[c]))
  /\ toPi' = Sent(c, [type |-> "registered", rev |-> revision + 1])
  /\ UNCHANGED <<stores, proposal, late, contexts, managed, recoveries, serving, owner, pi>>

\* What challenging a committed session does.
Challenges(c) ==
  /\ Handles(c, {"register"}) /\ Handled(c)
  /\ \E lost : LoseConnections(lost, {})
  /\ \E n \in Proposals : toPi' = Sent(c, [type |-> "challenge", run |-> n])
  /\ UNCHANGED <<stores, registry, serving, owner, pi>>

\* A registration is rejected, observed or challenged.
LEMMA Registering ==
  ASSUME Ledger, Frames, NEW c \in Conns, HandleRegister(c)
  PROVE  Quiet \/ Observes(c) \/ Challenges(c)
<1> USE DEF Ledger, Frames
<1> DEFINE s == owner[c]
<1>1. /\ Handles(c, {"register"}) /\ Handled(c)
      /\ Register(c, s) \/ BeginRecovery(c, s)
      /\ UNCHANGED <<serving, owner, pi>>
  BY DEF HandleRegister
<1>2. CASE Reject(c)
  <2>1. toPi' = Sent(c, Rejected) /\ UNCHANGED <<stores, coordinator, leases, registry>>
    BY <1>2 DEF Reject
  <2>2. QuietWire BY <1>1, <2>1, Rejecting DEF stores
  <2>3. QED BY <1>1, <2>1, <2>2, Still DEF Quiet, stores, leases, registry
<1>3. CASE Register(c, s) /\ ~Reject(c)
  <2>1. /\ CommittedByBinding(s) = Null
        /\ ~(c <= highWater[s])
        /\ revision' = revision + 1 /\ highWater' = [highWater EXCEPT ![s] = c]
        /\ UNCHANGED <<stores, proposal, late, contexts, managed, recoveries>>
    BY <1>3 DEF Register
  <2>2. CASE s \in fences
    <3>1. toPi' = Sent(c, Rejected) /\ UNCHANGED <<observed, listed, phase>>
      BY <1>3, <2>2 DEF Register
    <3>2. QuietWire BY <1>1, <2>1, <3>1, Rejecting DEF stores
    <3>3. Shrinks /\ QuietRegistry
      BY <1>1, <2>1, <3>1 DEF Shrinks, QuietRegistry, stores, ProposalTypes, EntryTypes
    <3>4. QED BY <3>2, <3>3 DEF Quiet
  <2>3. CASE s \notin fences
    <3>1. Head(toGateway[c]) \in FramesToGateway /\ Head(toGateway[c]).type = "register"
      BY <1>1, HandledFrom DEF Handles
    <3>2. Head(toGateway[c]).activity \in Activities BY <3>1 DEF FramesToGateway
    <3>3. \A x \in Occupants : x.session # s BY <2>1, BindingQueries
    <3>4. QED BY <1>1, <1>3, <2>1, <2>3, <3>2, <3>3 DEF Register, Observes
  <2>4. QED BY <2>2, <2>3
<1>4. CASE BeginRecovery(c, s) /\ ~Reject(c)
  <2>1. CommittedByBinding(s) \in Proposals BY <1>4, BindingQueries DEF BeginRecovery
  <2>2. QED BY <1>1, <1>4, <2>1 DEF BeginRecovery, Challenges
<1>5. QED BY <1>1, <1>2, <1>3, <1>4

\* A registration starts its connection, which nobody used before.
LEMMA ObservesFrames ==
  ASSUME Ledger, Frames, NEW c \in Conns, Observes(c)
  PROVE  Frames'
<1> USE DEF Ledger, Frames
<1> DEFINE s == owner[c]
           f == [type |-> "registered", rev |-> revision + 1]
<1>1. Handles(c, {"register"}) /\ Handled(c) /\ toPi' = Sent(c, f)
      /\ UNCHANGED <<stores, proposal, late, serving, owner, pi>>
  BY DEF Observes
<1>2. f \in FramesToPi /\ f.type \notin {"request", "challenge"} BY DEF FramesToPi, EntryTypes
<1>3. QuietQueues({"request", "challenge"}) /\ QuietQueues({"request"})
  <2>1. f.type \notin {"request"} BY <1>2
  <2>2. QED BY <1>1, <1>2, <2>1, Answering
<1>4. QueuesKept BY <1>3, QueuesKeep
<1>5. s \in Sessions /\ owner[c] # Null BY <1>1, HandledFrom
<1>6. PICK a \in Activities : observed' = [observed EXCEPT ![s] = ObservedEntry(c, revision + 1, a)]
  BY DEF Observes
<1>7. /\ observed'[s].conn = c
      /\ \A k \in Sessions : k # s => observed'[k] = observed[k]
  BY <1>5, <1>6 DEF EntryTypes, ObservedEntry
<1>8. /\ listed' \subseteq listed
      /\ \A p \in Proposals : phase'[p] = phase[p]
           \/ (InPlay(p) /\ phase'[p] = "failed" /\ p \notin listed')
  BY DEF Observes, Invalidate, PendingOf, ProposalTypes, ProposalsSound, InPlay
<1>9. WireTypes' BY <1>1, <1>3 DEF QuietQueues, WireTypes
<1>10. RegistersSound'
  <2>1. \A k \in Conns : Used(k)' => Used(k) \/ k = c
    BY <1>1, <1>7, <1>8 DEF Used, InPlay
  <2>2. Without(toGateway'[c], "register")
    BY <1>1, HandledFrom, TailToGateway DEF RegistersSound
  <2>3. Without(toPi[c], "challenge")
    <3>1. toGateway[c] \in Seq(FramesToGateway) /\ toGateway[c] # <<>>
          /\ Head(toGateway[c]).type = "register"
      BY <1>1, HandledFrom DEF Handles
    <3>2. ~Without(toGateway[c], "register") BY <3>1, TailOf DEF Without
    <3>3. QED BY <3>2 DEF RegistersSound
  <2>4. \A k \in Conns : Without(toPi[k], "challenge") => Without(toPi'[k], "challenge")
    <3> SUFFICES ASSUME NEW k \in Conns, Without(toPi[k], "challenge")
                 PROVE  Without(toPi'[k], "challenge")
      OBVIOUS
    <3>1. toPi[k] \in Seq(FramesToPi) BY DEF WireTypes
    <3>2. toPi'[k] = toPi[k] \/ toPi'[k] = Append(toPi[k], f) BY <1>1, <1>2, SentTo
    <3>3. QED BY <1>2, <3>1, <3>2, AppendToPi
  <2>5. ASSUME NEW k \in Conns, k # c PROVE (RegistersSound!(k))'
    BY <1>1, <1>4, <2>1, <2>4, <2>5 DEF RegistersSound, QueuesKept
  <2>6. (RegistersSound!(c))'
    BY <1>1, <1>4, <1>5, <2>2, <2>3, <2>4 DEF RegistersSound, QueuesKept
  <2>7. QED BY <2>5, <2>6 DEF RegistersSound
<1>11. MentionsSound'
  <2>1. \A p \in Proposals : phase[p] \notin {"unused", "proposed"} =>
          phase'[p] \notin {"unused", "proposed"}
    BY <1>8
  <2>2. \A p, k : Mentioned(p, k) => Mentioned(p, k)' BY <1>1, <2>1 DEF Mentioned
  <2>3. QED BY <1>4, <2>2, MentionsKept
<1>12. \A p \in Pending' : p \in Pending /\ phase'[p] = phase[p] /\ phase[p] # "unused"
  BY <1>1, <1>8 DEF Pending, ProposalTypes, ProposalsSound, InPlay
<1>13. RequestsSound' BY <1>1, <1>4, <1>12, RequestsKept
<1>14. OccupantsSound'
  <2> SUFFICES ASSUME NEW x \in Occupants' PROVE OccupantSettled(x)'
    BY DEF OccupantsSound
  <2>1. x \in Occupants /\ OccupantSettled(x) /\ x.session \in Sessions
    BY <1>1 DEF RowTypes, OccupantsSound, Occupants, stores
  <2>2. x.session # s BY <2>1 DEF Observes
  <2>3. QED BY <1>1, <1>4, <1>7, <1>12, <2>1, <2>2, OccupantKept
<1>15. QED BY <1>9, <1>10, <1>11, <1>13, <1>14

\* A challenge goes over a connection that has only just asked to register.
LEMMA ChallengesFrames ==
  ASSUME Ledger, Frames, NEW c \in Conns, Challenges(c)
  PROVE  Frames'
<1> USE DEF Ledger, Frames
<1>1. /\ Handles(c, {"register"}) /\ Handled(c) /\ Shrinks
      /\ UNCHANGED <<stores, serving, owner, pi>>
  BY Losing DEF Challenges
<1>2. PICK n \in Proposals : toPi' = Sent(c, [type |-> "challenge", run |-> n]) BY DEF Challenges
<1> DEFINE f == [type |-> "challenge", run |-> n]
<1>3. f \in FramesToPi /\ f.type \notin {"request"} BY DEF FramesToPi, RunOrNull
<1>4. QuietQueues({"request"}) BY <1>1, <1>2, <1>3, Answering
<1>5. QueuesKept BY <1>4, QueuesKeep
<1>6. WireTypes' BY <1>1, <1>4 DEF QuietQueues, WireTypes
<1>7. RegistersSound'
  <2>1. \A k \in Conns : Used(k)' => Used(k) BY <1>1, UsedBefore
  <2>2. toGateway[c] \in Seq(FramesToGateway) /\ toGateway[c] # <<>>
        /\ Head(toGateway[c]).type = "register" /\ toGateway'[c] = Tail(toGateway[c])
        /\ owner[c] # Null
    BY <1>1, HandledFrom DEF Handles
  <2>3. ~Without(toGateway[c], "register") BY <2>2, TailOf DEF Without
  <2>4. ~Used(c) /\ Without(toGateway'[c], "register")
    BY <2>2, <2>3, TailToGateway DEF RegistersSound
  <2>5. \A k \in Conns : k # c => toPi'[k] = toPi[k] BY <1>2, <1>3, SentTo
  <2>6. ASSUME NEW k \in Conns, k # c PROVE (RegistersSound!(k))'
    BY <1>1, <1>5, <2>1, <2>5, <2>6 DEF RegistersSound, QueuesKept
  <2>7. (RegistersSound!(c))'
    BY <1>1, <1>5, <2>1, <2>2, <2>4 DEF RegistersSound, QueuesKept
  <2>8. QED BY <2>6, <2>7 DEF RegistersSound
<1>8. MentionsSound'
  <2>1. \A p, k : Mentioned(p, k) => Mentioned(p, k)' BY <1>1 DEF Mentioned, Shrinks
  <2>2. QED BY <1>5, <2>1, MentionsKept
<1>9. \A p \in Pending' : p \in Pending /\ phase'[p] = phase[p] /\ phase[p] # "unused"
  BY <1>1 DEF Pending, Shrinks, ProposalTypes, ProposalsSound, InPlay
<1>10. RequestsSound' BY <1>1, <1>5, <1>9, RequestsKept DEF Shrinks
<1>11. OccupantsSound'
  <2> SUFFICES ASSUME NEW x \in Occupants' PROVE OccupantSettled(x)'
    BY DEF OccupantsSound
  <2>1. OccupantSettled(x) /\ x.session \in Sessions
    BY <1>1 DEF RowTypes, OccupantsSound, Occupants, stores
  <2>2. QED BY <1>1, <1>5, <1>9, <2>1, OccupantKept DEF Shrinks
<1>12. QED BY <1>6, <1>7, <1>8, <1>10, <1>11

\* What updateObserved leaves of an entry.
LEMMA UpdatedRecord ==
  ASSUME NEW e \in EntryRecords, NEW n \in Nat, NEW a \in Activities
  PROVE  /\ UpdatedEntry(e, n, a) \in EntryRecords
         /\ UpdatedEntry(e, n, a).conn = e.conn /\ UpdatedEntry(e, n, a).rev = n
  BY DEF UpdatedEntry, EntryRecords

\* A lifecycle frame sends nothing but a rejection.
LEMMA LifecycleFrames ==
  ASSUME Ledger, Frames, NEW c \in Conns, HandleLifecycle(c)
  PROVE  Shrinks /\ QuietWire
<1> USE DEF Ledger, Frames
<1> DEFINE s == owner[c]
<1>1. Handles(c, {"lifecycle"}) /\ Handled(c) /\ UNCHANGED <<serving, owner, pi>>
  BY DEF HandleLifecycle
<1>2. CASE Reject(c)
  <2>1. toPi' = Sent(c, Rejected) /\ UNCHANGED <<stores, coordinator, leases, registry>>
    BY <1>2 DEF Reject
  <2>2. QuietWire BY <1>1, <2>1, Rejecting DEF stores
  <2>3. QED BY <1>1, <2>1, <2>2, Still DEF stores, leases, registry
<1>3. CASE ~Reject(c)
  <2>1. /\ observed[s] # Null /\ observed[s].conn = c
        /\ observed' = [observed EXCEPT ![s] =
             UpdatedEntry(@, revision + 1, Head(toGateway[c]).activity)]
        /\ UNCHANGED <<stores, coordinator, toPi>>
    BY <1>3 DEF HandleLifecycle
  <2>2. s \in Sessions /\ Head(toGateway[c]) \in FramesToGateway
        /\ Head(toGateway[c]).type = "lifecycle"
    BY <1>1, HandledFrom DEF Handles
  <2>3. Head(toGateway[c]).activity \in Activities BY <2>2 DEF FramesToGateway
  <2>4. observed[s] \in EntryRecords BY <2>1, <2>2 DEF EntryTypes
  <2> DEFINE entry == UpdatedEntry(observed[s], revision + 1, Head(toGateway[c]).activity)
  <2>5. entry \in EntryRecords /\ entry.conn = observed[s].conn
    <3>1. revision + 1 \in Nat BY DEF EntryTypes
    <3>2. QED BY <2>3, <2>4, <3>1, UpdatedRecord
  <2>6. /\ DOMAIN observed' = Sessions /\ observed'[s] = entry
        /\ \A k \in Sessions : k # s => observed'[k] = observed[k]
    BY <2>1, <2>2 DEF EntryTypes
  <2> HIDE DEF entry
  <2>7. Shrinks
    BY <2>1, <2>5, <2>6 DEF Shrinks, coordinator, ProposalTypes, EntryTypes
  <2>8. QuietQueues({"request", "challenge"})
    BY <1>1, <2>1, HandledFrom DEF QuietQueues, WireTypes
  <2>9. QuietWire
    BY <1>1, <2>1, <2>8 DEF QuietWire, Occupants, stores
  <2>10. QED BY <2>7, <2>9
<1>4. QED BY <1>2, <1>3

\* What accepting an acknowledgement, up to the commit, does.
Accepts(c, p) ==
  /\ Handles(c, {"acknowledged", "refused"}) /\ Handled(c)
  /\ p = FrameRun(c) /\ p \in listed /\ Head(toGateway[c]).type = "acknowledged"
  /\ observed[owner[c]] # Null /\ observed[owner[c]].conn = c
  /\ phase[p] = "authorized" /\ p \notin late
  /\ phase' = [phase EXCEPT ![p] = "acknowledged"]
  /\ UNCHANGED <<stores, proposal, late, listed, contexts, observed, registry, toPi, serving, owner,
                pi>>

\* An answer is rejected or, over the connection of its proposal, accepted.
LEMMA Answers ==
  ASSUME Ledger, Frames, NEW c \in Conns, HandleAcknowledgement(c)
  PROVE  Quiet \/ Accepts(c, FrameRun(c))
<1> USE DEF Ledger, Frames
<1> DEFINE p == FrameRun(c)
           s == owner[c]
           accepted == /\ Reached(p, c)
                       /\ Head(toGateway[c]).type = "acknowledged"
                       /\ phase[p] = "authorized" /\ p \notin late
                       /\ CurrentIdentity(p) /\ Eligible(s, proposal[p].role)
<1>1. /\ Handles(c, {"acknowledged", "refused"}) /\ Handled(c)
      /\ UNCHANGED <<stores, proposal, late, contexts, leases, registry, serving, owner, pi>>
  BY DEF HandleAcknowledgement
<1>2. CASE accepted
  BY <1>1, <1>2 DEF HandleAcknowledgement, Accepts, Reached, leases
<1>3. CASE ~accepted
  <2>1. /\ toPi' = Sent(c, Rejected)
        /\ \/ /\ Reached(p, c)
              /\ phase' = [phase EXCEPT ![p] = "failed"]
              /\ listed' = listed \ {p}
           \/ UNCHANGED <<phase, listed>>
    BY <1>3 DEF HandleAcknowledgement, InvalidateProposal
  <2>2. QuietWire BY <1>1, <2>1, Rejecting DEF stores
  <2>3. Shrinks /\ QuietRegistry
    <3>1. CASE UNCHANGED <<phase, listed>>
      BY <1>1, <3>1, Still DEF coordinator, stores, leases, registry
    <3>2. CASE /\ Reached(p, c)
               /\ phase' = [phase EXCEPT ![p] = "failed"]
               /\ listed' = listed \ {p}
      <4>1. p \in Proposals /\ InPlay(p) BY <3>2 DEF Reached, ProposalTypes, ProposalsSound
      <4>2. QED
        BY <1>1, <3>2, <4>1 DEF Shrinks, QuietRegistry, stores, leases, registry, ProposalTypes,
                                EntryTypes, Phases
    <3>3. QED BY <2>1, <3>1, <3>2
  <2>4. QED BY <2>2, <2>3 DEF Quiet
<1>4. QED BY <1>2, <1>3

\* The accepted answer was the acknowledgement of its proposal.
LEMMA AcceptsFrames ==
  ASSUME Ledger, Frames, NEW c \in Conns, NEW p, Accepts(c, p)
  PROVE  Frames'
<1> USE DEF Ledger, Frames
<1>1. /\ Handles(c, {"acknowledged", "refused"}) /\ Handled(c)
      /\ UNCHANGED <<stores, proposal, late, listed, observed, toPi, serving, owner, pi>>
      /\ phase' = [phase EXCEPT ![p] = "acknowledged"] /\ phase[p] = "authorized"
      /\ p \in Pending /\ p \in Proposals
  BY DEF Accepts, Pending, ProposalTypes
<1>2. QuietQueues({"request", "challenge"}) /\ QuietQueues({"request"})
  BY <1>1, HandledFrom DEF QuietQueues, WireTypes
<1>3. \A k \in Conns : Used(k)' => Used(k) BY <1>1 DEF Used
<1>4. RegistersSound' /\ QueuesKept BY <1>1, <1>2, <1>3, RegistersKept
<1>5. MentionsSound'
  <2>1. \A q, k : Mentioned(q, k) => Mentioned(q, k)' BY <1>1 DEF Mentioned, ProposalTypes
  <2>2. QED BY <1>4, <2>1, MentionsKept
<1>6. AckIn(toGateway[c], p) /\ proposal[p].conn = c
  <2>1. toGateway[c] \in Seq(FramesToGateway) /\ toGateway[c] # <<>>
        /\ Head(toGateway[c]).type = "acknowledged" /\ Head(toGateway[c]).run = p
    BY <1>1, HandledFrom DEF Accepts, FrameRun
  <2>2. 1 \in DOMAIN toGateway[c] /\ toGateway[c][1] = Head(toGateway[c]) BY <2>1, TailOf
  <2>3. QED BY <2>1, <2>2 DEF AckIn, MentionsSound, Mentioned
<1>7. Pending' = Pending BY <1>1 DEF Pending
<1>8. RequestsSound'
  <2>1. \A q \in Pending' :
          /\ q \in Pending /\ phase[q] # "unused" /\ proposal'[q] = proposal[q]
          /\ phase'[q] = "acknowledged" =>
               phase[q] = "acknowledged" \/ AckIn(toGateway[proposal[q].conn], q)
    <3> TAKE q \in Pending'
    <3>1. q \in Pending /\ q \in Proposals /\ phase[q] # "unused" /\ proposal'[q] = proposal[q]
      BY <1>1, <1>7 DEF Pending, ProposalTypes, ProposalsSound, InPlay
    <3>2. q # p => phase'[q] = phase[q] BY <1>1, <3>1 DEF ProposalTypes
    <3>3. QED BY <1>6, <3>1, <3>2
  <2>2. QED BY <1>1, <1>4, <2>1, RequestsKept
<1>9. OccupantsSound'
  <2> SUFFICES ASSUME NEW x \in Occupants' PROVE OccupantSettled(x)'
    BY DEF OccupantsSound
  <2>1. OccupantSettled(x) /\ x.session \in Sessions
    BY <1>1 DEF RowTypes, OccupantsSound, Occupants, stores
  <2>2. owner[c] = proposal[p].session /\ owner[c] \in Sessions
    BY <1>1, <1>6, HandledFrom DEF ProposalsSound
  <2>3. x.session # proposal[p].session
    BY <1>1, <1>6, <2>1, <2>2 DEF OccupantSettled, Accepts
  <2>4. \A q \in Pending' : q \in Pending /\ (q # p => phase'[q] = phase[q])
    BY <1>1, <1>7 DEF Pending, ProposalTypes
  <2>5. QED BY <1>1, <1>4, <2>1, <2>3, <2>4, OccupantKept
<1>10. WireTypes' BY <1>1, <1>2 DEF QuietQueues, WireTypes
<1>11. QED BY <1>4, <1>5, <1>8, <1>9, <1>10

\* The commitment is sent behind everything else; the Pi that acknowledged it
\* has no request left to answer.
LEMMA CommitFrames ==
  ASSUME Ledger, Frames, NEW p \in Proposals, CommitAcknowledged(p)
  PROVE  Frames' /\ Shrinks /\ \A x \in Occupants : x.session # proposal[p].session
<1> USE DEF Ledger, Frames
<1> DEFINE c == proposal[p].conn
           s == proposal[p].session
           f == CommittedFrame(p)
<1>1. /\ phase[p] = "acknowledged" /\ CommitChecks(p)
      /\ phase' = [phase EXCEPT ![p] = "committed"]
      /\ contexts' = contexts \ {p} /\ listed' = listed \ {p}
      /\ toPi' = Sent(c, f)
      /\ UNCHANGED <<retired, fences, proposal, late, observed, registry, serving, owner, toGateway,
                     pi>>
  BY DEF CommitAcknowledged, Insertion, CommitAdoption, CommitReplacementAdoption
<1>2. /\ p \in Pending /\ c \in Conns /\ s \in Sessions /\ owner[c] = s /\ owner[c] # Null
      /\ observed[s] # Null /\ observed[s].conn = c
  BY <1>1, StoresAssumption
     DEF CommitChecks, CurrentIdentity, ProposalsSound, ProposalTypes, Viable, Pending
<1>3. f \in FramesToPi /\ f.type = "committed" BY DEF CommittedFrame, FramesToPi, RunOrNull
<1>4. Shrinks
  BY <1>1 DEF Shrinks, ProposalTypes, EntryTypes, InPlay, Phases
<1>5. /\ toPi' \in [Conns -> Seq(FramesToPi)]
      /\ \A k \in Conns : k # c => toPi'[k] = toPi[k]
      /\ toPi'[c] = toPi[c] \/ toPi'[c] = Append(toPi[c], f)
  BY <1>1, <1>2, <1>3, SentTo
<1>6. QuietQueues({"request", "challenge"})
  BY <1>1, <1>2, <1>3, <1>5 DEF QuietQueues, WireTypes
<1>7. RegistersSound' /\ QueuesKept BY <1>1, <1>4, <1>6, UsedBefore, RegistersKept
<1>8. MentionsSound'
  <2>1. \A q, k : Mentioned(q, k) => Mentioned(q, k)' BY <1>4 DEF Mentioned, Shrinks
  <2>2. QED BY <1>7, <2>1, MentionsKept
<1>9. \A q \in Pending' : q \in Pending /\ phase'[q] = phase[q] /\ phase[q] # "unused" /\ q # p
  BY <1>1, <1>4 DEF Pending, Shrinks, ProposalTypes, ProposalsSound, InPlay
<1>10. RequestsSound' BY <1>1, <1>7, <1>9, RequestsKept
<1>11. WireTypes' BY <1>1, <1>6 DEF QuietQueues, WireTypes
<1>12. \A x \in Occupants : x.session # s
  BY <1>1, <1>2 DEF OccupantsSound, OccupantSettled
<1>13. ASSUME NEW x \in Occupants PROVE OccupantSettled(x)'
  <2>1. OccupantSettled(x) /\ x.session \in Sessions BY DEF OccupantsSound, RowTypes
  <2>2. QED BY <1>1, <1>7, <1>9, <2>1, OccupantKept
<1>14. ASSUME NEW x, x.run = p, x.session = s PROVE OccupantSettled(x)'
  <2>1. pi[s].conn = c => Settling(toPi'[c], pi[s].ack, p)
    <3> HAVE pi[s].conn = c
    <3>1. pi[s].ack = p /\ Without(toPi[c], "request")
      BY <1>1, <1>2 DEF RequestsSound, Answered
    <3>2. toPi[c] \in Seq(FramesToPi) BY <1>2 DEF WireTypes
    <3>3. CASE Rejected \in Range(toPi[c])
      <4>1. PICK i \in DOMAIN toPi[c] : toPi[c][i] = Rejected BY <3>3 DEF Range
      <4>2. DOMAIN toPi[c] = 1 .. Len(toPi[c]) BY <3>2, LenProperties
      <4>3. Settling(toPi[c], pi[s].ack, p)
        BY <3>1, <4>1, <4>2 DEF Settling, Without
      <4>4. QED BY <1>2, <1>7, <4>3 DEF QueuesKept
    <3>4. CASE Rejected \notin Range(toPi[c])
      <4>1. toPi'[c] = Append(toPi[c], f) BY <1>1, <1>2, <3>4 DEF Sent, Reads, WireTypes
      <4> DEFINE n == Len(toPi[c])
      <4>2. /\ DOMAIN toPi[c] = 1 .. n /\ n \in Nat
            /\ DOMAIN toPi'[c] = 1 .. n + 1 /\ toPi'[c][n + 1] = f
            /\ \A i \in 1 .. n : toPi'[c][i] = toPi[c][i]
        BY <1>3, <3>2, <4>1, AppendedTo
      <4>3. n + 1 \in DOMAIN toPi'[c] /\ (n + 1) - 1 = n BY <4>2
      <4>4. \A j \in 1 .. n : toPi'[c][j].type # "request" BY <3>1, <4>2 DEF Without
      <4>5. QED BY <3>1, <4>2, <4>3, <4>4 DEF Settling
    <3>5. QED BY <3>3, <3>4
  <2>2. \A q \in Pending' : proposal[q].session # s
    BY <1>2, <1>9 DEF ProposalsSound
  <2>3. QED BY <1>1, <1>2, <1>14, <2>1, <2>2 DEF OccupantSettled
<1>15. OccupantsSound'
  <2>1. \A x \in Occupants' : x \in Occupants \/ (x.run = p /\ x.session = s)
    BY DEF CommitAcknowledged, Insertion, CommitAdoption, CommitReplacementAdoption, Occupants
  <2>2. QED BY <1>13, <1>14, <2>1 DEF OccupantsSound
<1>16. QED BY <1>4, <1>7, <1>8, <1>10, <1>11, <1>12, <1>15

\* What showing a proposal does.
Proposes(n, s, r) ==
  /\ n \in Proposals /\ phase[n] = "unused"
  /\ observed[s] # Null /\ PendingOf(s) \subseteq late
  /\ proposal' = [proposal EXCEPT ![n] = ProposalFor(s, r)]
  /\ phase' = [p \in Proposals |->
       IF p = n THEN "proposed"
       ELSE IF p \in PendingOf(s) /\ phase[p] # "acknowledged" THEN "failed" ELSE phase[p]]
  /\ listed' = (listed \ PendingOf(s)) \cup {n}
  /\ UNCHANGED <<stores, late, contexts, leases, registry, wire, pi>>

\* A request takes an unused proposal.
LEMMA Requesting ==
  ASSUME NEW s, NEW r, RequestAdoption(s, r)
  PROVE  \E n : Proposes(n, s, r)
<1>1. FreshProposal \in Proposals /\ phase[FreshProposal] = "unused" BY DEF RequestAdoption, FreshProposal
<1>2. Proposes(FreshProposal, s, r) BY <1>1 DEF RequestAdoption, Proposes
<1>3. QED BY <1>2

\* A new proposal has no frames yet, and its session no older one pending.
LEMMA ProposesFrames ==
  ASSUME Ledger, Frames, NEW n, NEW s \in Sessions, NEW r \in Roles, Proposes(n, s, r)
  PROVE  Frames'
<1> USE DEF Ledger, Frames
<1>1. /\ n \in Proposals /\ phase[n] = "unused" /\ observed[s] # Null
      /\ proposal' = [proposal EXCEPT ![n] = ProposalFor(s, r)]
      /\ UNCHANGED <<stores, late, observed, serving, owner, toGateway, toPi, pi>>
  BY DEF Proposes, leases, wire
<1>2. proposal'[n].conn = observed[s].conn /\ proposal'[n].session = s
      /\ \A q \in Proposals : q # n => proposal'[q] = proposal[q]
  BY <1>1 DEF ProposalTypes, ProposalFor
<1>3. /\ phase'[n] = "proposed"
      /\ \A q \in Proposals : q # n => phase'[q] = phase[q] \/ (InPlay(q) /\ phase'[q] = "failed")
      /\ \A q \in Pending' : q = n \/ (q \in Pending /\ phase'[q] = phase[q] /\ q # n)
      /\ \A q \in Pending : InPlay(q) /\ q \in Proposals
  <2>1. \A q \in listed : InPlay(q) /\ q \in Proposals /\ q # n
    BY <1>1 DEF ProposalsSound, ProposalTypes, InPlay
  <2>2. PendingOf(s) \subseteq listed BY DEF PendingOf
  <2>3. QED BY <1>1, <2>1, <2>2 DEF Proposes, Pending
<1>4. QuietQueues({"request", "challenge"}) /\ QuietQueues({"request"})
  BY <1>1 DEF QuietQueues, WireTypes
<1>5. \A k \in Conns : Used(k)' => Used(k)
  <2> SUFFICES ASSUME NEW k \in Conns, Used(k)' PROVE Used(k)
    OBVIOUS
  <2>1. CASE \E q \in Proposals : phase'[q] # "unused" /\ proposal'[q].conn = k
    BY <1>1, <1>2, <1>3, <2>1 DEF Used, InPlay
  <2>2. CASE \E t \in Sessions : observed'[t] # Null /\ observed'[t].conn = k
    BY <1>1, <2>2 DEF Used
  <2>3. QED BY <2>1, <2>2 DEF Used
<1>6. RegistersSound' /\ QueuesKept BY <1>1, <1>4, <1>5, RegistersKept
<1>7. MentionsSound'
  <2>1. \A q, k : Mentioned(q, k) => Mentioned(q, k)' BY <1>1, <1>2, <1>3 DEF Mentioned
  <2>2. QED BY <1>6, <2>1, MentionsKept
<1>8. \A k \in Conns : ~AckIn(toGateway[k], n)
      /\ \A i \in DOMAIN toPi[k] : toPi[k][i].type = "request" => toPi[k][i].run # n
  BY <1>1 DEF MentionsSound, Mentioned, AckIn
<1>9. RequestsSound'
  <2> SUFFICES ASSUME NEW q \in Pending' PROVE (RequestsSound!(q))'
    BY DEF RequestsSound
  <2>1. CASE q = n
    <3>1. observed[s].conn \in Conns BY <1>1 DEF EntryTypes, EntryRecords
    <3>2. RequestLast(toPi[observed[s].conn], n) BY <1>8, <3>1 DEF RequestLast
    <3>3. ~Answered(n)' BY <1>1, <1>2, <1>3, <1>8, <3>1 DEF Answered
    <3>4. QED BY <1>1, <1>2, <2>1, <3>2, <3>3
  <2>2. CASE q # n
    <3>1. q \in Pending /\ q \in Proposals /\ phase'[q] = phase[q] /\ proposal'[q] = proposal[q]
      BY <1>2, <1>3, <2>2
    <3>2. Answered(q)' => Answered(q) BY <1>1, <3>1 DEF Answered
    <3>3. QED BY <1>1, <3>1, <3>2 DEF RequestsSound
  <2>3. QED BY <2>1, <2>2
<1>10. OccupantsSound'
  <2> SUFFICES ASSUME NEW x \in Occupants' PROVE OccupantSettled(x)'
    BY DEF OccupantsSound
  <2>1. OccupantSettled(x) /\ x.session \in Sessions
    BY <1>1 DEF RowTypes, OccupantsSound, Occupants, stores
  <2>2. \A q \in Pending' :
          \/ phase'[q] # "acknowledged" /\ \A k \in Conns : ~AckIn(toGateway'[k], q)
          \/ q \in Pending /\ phase'[q] = phase[q] /\ proposal'[q] = proposal[q]
    BY <1>1, <1>2, <1>3, <1>8
  <2>3. QED BY <1>1, <1>6, <2>1, <2>2, OccupantKept
<1>11. WireTypes' BY <1>1 DEF WireTypes
<1>12. QED BY <1>6, <1>7, <1>9, <1>10, <1>11

\* The request goes behind every older frame, and there is no older request of
\* this proposal.
LEMMA AuthorizeFrames ==
  ASSUME Ledger, Frames, NEW p \in Proposals, AuthorizeAdoption(p)
  PROVE  Frames'
<1> USE DEF Ledger, Frames
<1> DEFINE c == proposal[p].conn
           f == RequestFrame(p)
<1>1. /\ p \in Pending /\ phase[p] = "proposed" /\ phase' = [phase EXCEPT ![p] = "authorized"]
      /\ toPi' = Sent(c, f)
      /\ UNCHANGED <<stores, proposal, late, listed, observed, serving, owner, toGateway, pi>>
  BY DEF AuthorizeAdoption, Pending, leases
<1>2. /\ c \in Conns /\ owner[c] = proposal[p].session /\ owner[c] # Null /\ proposal[p].rev \in Nat
      /\ \A q \in Pending : q # p => proposal[q].conn # c
      /\ \A q \in Pending : q \in Proposals /\ proposal[q].conn \in Conns /\ phase[q] # "unused"
  BY <1>1, StoresAssumption DEF ProposalTypes, ProposalsSound, InPlay, Pending
<1>3. f \in FramesToPi /\ f.type = "request" /\ f.run = p
  BY <1>2 DEF RequestFrame, FramesToPi, RunOrNull
<1>4. /\ toPi' \in [Conns -> Seq(FramesToPi)] /\ toPi[c] \in Seq(FramesToPi)
      /\ \A k \in Conns : k # c => toPi'[k] = toPi[k]
      /\ toPi'[c] = toPi[c] \/ toPi'[c] = Append(toPi[c], f)
  BY <1>1, <1>2, <1>3, SentTo DEF WireTypes
<1>5. \A q \in Proposals : (q # p => phase'[q] = phase[q]) /\ (phase'[q] = "unused" <=> phase[q] = "unused")
  BY <1>1 DEF ProposalTypes
<1>6. /\ \A i \in DOMAIN toPi'[c] : toPi'[c][i].type = "request" =>
           toPi'[c][i] = f \/ \E j \in DOMAIN toPi[c] : toPi'[c][i] = toPi[c][j]
      /\ \A t : t # "request" /\ Without(toPi[c], t) => Without(toPi'[c], t)
      /\ \A a, n : Settling(toPi[c], a, n) => Settling(toPi'[c], a, n)
  <2>1. CASE toPi'[c] = toPi[c] BY <2>1
  <2>2. CASE toPi'[c] = Append(toPi[c], f)
    <3>1. \A i \in DOMAIN toPi'[c] :
            toPi'[c][i] = f \/ \E j \in DOMAIN toPi[c] : toPi'[c][i] = toPi[c][j]
      BY <1>3, <1>4, <2>2, AppendedTo
    <3>2. QED BY <1>3, <1>4, <2>2, <3>1, AppendToPi
  <2>3. QED BY <1>4, <2>1, <2>2
<1>7. RegistersSound'
  <2>1. \A k \in Conns : Used(k)' => Used(k) BY <1>1, <1>5 DEF Used
  <2>2. \A k \in Conns : Without(toPi[k], "challenge") => Without(toPi'[k], "challenge")
    BY <1>4, <1>6
  <2>3. QED BY <1>1, <1>2, <1>4, <2>1, <2>2 DEF RegistersSound
<1>8. MentionsSound'
  <2>1. \A q, k : Mentioned(q, k) => Mentioned(q, k)' BY <1>1, <1>5 DEF Mentioned, ProposalTypes
  <2>2. \A q, k : q = p /\ k = c => Mentioned(q, k)' BY <1>1 DEF Mentioned, ProposalTypes
  <2>3. ASSUME NEW k \in Conns, NEW i \in DOMAIN toPi'[k], toPi'[k][i].type = "request"
        PROVE (Mentioned(toPi[k][i].run, k))'
    <3>1. CASE k # c BY <1>4, <2>1, <2>3, <3>1 DEF MentionsSound
    <3>2. CASE k = c
      <4>1. CASE toPi'[c][i] = f BY <1>3, <2>2, <3>2, <4>1
      <4>2. ASSUME NEW j \in DOMAIN toPi[c], toPi'[c][i] = toPi[c][j]
            PROVE (Mentioned(toPi[k][i].run, k))'
        <5>1. Mentioned(toPi[c][j].run, c) BY <1>2, <2>3, <3>2, <4>2 DEF MentionsSound
        <5>2. QED BY <2>1, <3>2, <4>2, <5>1
      <4>3. QED BY <1>6, <2>3, <3>2, <4>1, <4>2
    <3>3. QED BY <3>1, <3>2
  <2>4. QED BY <1>1, <2>1, <2>3 DEF MentionsSound
<1>9. RequestsSound'
  <2> SUFFICES ASSUME NEW q \in Pending' PROVE (RequestsSound!(q))'
    BY DEF RequestsSound
  <2>1. q \in Pending BY <1>1 DEF Pending
  <2>2. CASE q # p
    <3>1. Answered(q)' => Answered(q) BY <1>1, <1>2, <1>5, <2>1, <2>2 DEF Answered
    <3>2. QED BY <1>1, <1>2, <1>4, <2>1, <2>2, <3>1 DEF RequestsSound
  <2>3. CASE q = p
    <3>1. ~AckIn(toGateway[c], p)
          /\ \A i \in DOMAIN toPi[c] : toPi[c][i].type = "request" => toPi[c][i].run # p
      BY <1>1, <1>2 DEF MentionsSound, Mentioned, AckIn
    <3>2. ~Answered(p)' BY <1>1, <3>1 DEF Answered, ProposalTypes
    <3>3. RequestLast(toPi'[c], p)
      <4>1. CASE toPi'[c] = toPi[c] BY <3>1, <4>1 DEF RequestLast
      <4>2. CASE toPi'[c] = Append(toPi[c], f)
        <5> DEFINE n == Len(toPi[c])
        <5>1. /\ DOMAIN toPi[c] = 1 .. n /\ n \in Nat /\ DOMAIN toPi'[c] = 1 .. n + 1
              /\ \A i \in 1 .. n : toPi'[c][i] = toPi[c][i]
          BY <1>3, <1>4, <4>2, AppendedTo
        <5>2. \A i, j \in 1 .. n + 1 : i < j => i \in 1 .. n BY <5>1
        <5>3. QED BY <3>1, <5>1, <5>2 DEF RequestLast
      <4>3. QED BY <1>4, <4>1, <4>2
    <3>4. QED BY <1>1, <2>3, <3>2, <3>3
  <2>4. QED BY <2>2, <2>3
<1>10. OccupantsSound'
  <2> SUFFICES ASSUME NEW x \in Occupants' PROVE OccupantSettled(x)'
    BY DEF OccupantsSound
  <2>1. OccupantSettled(x) /\ x.session \in Sessions
    BY <1>1 DEF RowTypes, OccupantsSound, Occupants, stores
  <2> DEFINE k == observed[x.session].conn
  <2>2. CASE observed[x.session] # Null
    <3>1. k \in Conns BY <2>1, <2>2 DEF EntryTypes, EntryRecords
    <3>2. \A a, n : Settling(toPi[k], a, n) => Settling(toPi'[k], a, n)
      BY <1>4, <1>6, <3>1
    <3>3. \A q \in Pending : phase'[q] = "acknowledged" => phase[q] = "acknowledged"
      BY <1>1, <1>2, <1>5 DEF ProposalTypes
    <3>4. Pending' = Pending BY <1>1 DEF Pending
    <3>5. QED BY <1>1, <2>1, <2>2, <3>2, <3>3, <3>4 DEF OccupantSettled
  <2>3. CASE observed[x.session] = Null BY <1>1, <2>3 DEF OccupantSettled
  <2>4. QED BY <2>2, <2>3
<1>11. WireTypes' BY <1>1, <1>4 DEF WireTypes
<1>12. QED BY <1>7, <1>8, <1>9, <1>10, <1>11

\* A crash cuts what it had not written and leaves nothing pending.
LEMMA CrashFrames ==
  ASSUME Ledger, Frames, CrashGateway
  PROVE  Frames'
<1> USE DEF Ledger, Frames
<1>1. /\ phase' = [p \in Proposals |->
           IF phase[p] \in {"proposed", "authorized", "acknowledged"} THEN "failed" ELSE phase[p]]
      /\ listed' = {} /\ observed' = [s \in Sessions |-> Null]
      /\ serving' = {} /\ toGateway' = [c \in Conns |-> <<>>]
      /\ UNCHANGED <<stores, proposal, late, owner, pi>>
  BY DEF CrashGateway
<1>2. PICK kept \in 0..MaxFrames :
        toPi' = [c \in Conns |->
          IF c \in serving /\ Reads(c)
          THEN Append(SubSeq(toPi[c], 1, Smaller(kept, Len(toPi[c]))), Closed)
          ELSE toPi[c]]
  BY DEF CrashGateway
<1>3. ASSUME NEW c \in Conns
      PROVE /\ toPi'[c] \in Seq(FramesToPi) /\ (owner[c] = Null => toPi'[c] = toPi[c])
            /\ \A i \in DOMAIN toPi'[c] :
                 toPi'[c][i] = Closed \/ \E j \in DOMAIN toPi[c] : toPi'[c][i] = toPi[c][j]
  <2>1. toPi[c] \in Seq(FramesToPi) BY DEF WireTypes
  <2>2. CASE ~(c \in serving /\ Reads(c)) BY <1>2, <2>1, <2>2
  <2>3. CASE c \in serving /\ Reads(c)
    <3> DEFINE n == Smaller(kept, Len(toPi[c]))
               q == SubSeq(toPi[c], 1, n)
    <3>1. Len(toPi[c]) \in Nat /\ DOMAIN toPi[c] = 1 .. Len(toPi[c]) BY <2>1, LenProperties
    <3>2. n \in Nat /\ n <= Len(toPi[c]) BY <3>1, BoundsAssumption DEF Smaller
    <3>3. /\ q \in Seq(FramesToPi) /\ DOMAIN q = 1 .. n
          /\ \A i \in 1 .. n : q[i] = toPi[c][i]
          /\ Len(q) = n
      BY <2>1, <3>1, <3>2, SubSeqProperties, LenProperties
    <3>4. Closed \in FramesToPi BY DEF Closed, FramesToPi
    <3>5. toPi'[c] = Append(q, Closed) BY <1>2, <2>3
    <3> HIDE DEF q, n
    <3>6. /\ toPi'[c] \in Seq(FramesToPi)
          /\ \A i \in DOMAIN toPi'[c] : toPi'[c][i] = Closed \/ (i \in 1 .. n /\ toPi'[c][i] = q[i])
      BY <3>3, <3>4, <3>5, AppendedTo
    <3>7. \A i \in 1 .. n : i \in DOMAIN toPi[c] /\ q[i] = toPi[c][i] BY <3>1, <3>2, <3>3
    <3>8. owner[c] # Null BY <2>3 DEF WireTypes
    <3>9. QED BY <3>6, <3>7, <3>8
  <2>4. QED BY <2>2, <2>3
<1>4. Closed.type = "closed" BY DEF Closed
<1>5. \A c \in Conns : toGateway'[c] = <<>> /\ DOMAIN toGateway'[c] = {} BY <1>1
<1>6. WireTypes'
  <2>1. toPi' \in [Conns -> Seq(FramesToPi)] BY <1>2, <1>3
  <2>2. toGateway' \in [Conns -> Seq(FramesToGateway)] BY <1>1
  <2>3. QED BY <1>1, <2>1, <2>2 DEF WireTypes
<1>7. RegistersSound'
  <2>1. \A k \in Conns : Used(k)' => Used(k) BY <1>1 DEF Used
  <2>2. \A k \in Conns : Without(toPi[k], "challenge") => Without(toPi'[k], "challenge")
    BY <1>3, <1>4 DEF Without
  <2>3. \A k \in Conns : RegistersFirst(toGateway'[k]) /\ Without(toGateway'[k], "register")
    BY <1>5 DEF RegistersFirst, Without
  <2>4. QED BY <1>1, <1>3, <2>1, <2>2, <2>3 DEF RegistersSound
<1>8. MentionsSound'
  <2>1. \A q, k : Mentioned(q, k) => Mentioned(q, k)' BY <1>1 DEF Mentioned, ProposalTypes
  <2>2. QED BY <1>3, <1>4, <1>5, <2>1 DEF MentionsSound
<1>9. RequestsSound' BY <1>1 DEF RequestsSound, Pending
<1>10. OccupantsSound'
  <2>1. \A x \in Occupants' : x.session \in Sessions BY <1>1 DEF RowTypes, Occupants, stores
  <2>2. QED BY <1>1, <2>1 DEF OccupantsSound, OccupantSettled
<1>11. QED BY <1>6, <1>7, <1>8, <1>9, <1>10

-----------------------------------------------------------------------------
(* The steps of the Pi extensions. *)

\* A Pi reads at most one frame, or closes, and writes the frames g.
PiTurn(s, e, g) ==
  LET c == pi[s].conn IN
  /\ UNCHANGED <<stores, coordinator, leases, registry, serving, owner>>
  /\ pi' = [pi EXCEPT ![s] = e] /\ e \in Extensions /\ e.conn \in {c, 0}
  /\ g \in Seq(FramesToGateway) /\ Without(g, "register")
  /\ IF c = 0 THEN UNCHANGED <<toGateway, toPi>>
     ELSE /\ toGateway' = toGateway \/ toGateway' = Written(c, g)
          /\ \/ toPi' = toPi
             \/ toPi[c] # <<>> /\ toPi' = [toPi EXCEPT ![c] = Tail(@)]
             \/ toPi' = [toPi EXCEPT ![c] = <<>>]

\* What such a turn has to respect on its own connection.
TurnAnswers(s, e) ==
  \A p \in Pending :
    /\ proposal[p].conn = pi[s].conn /\ e.conn = pi[s].conn
    /\ phase[p] = "acknowledged" \/ AckIn(toGateway'[pi[s].conn], p)
    => e.ack = p /\ Without(toPi'[pi[s].conn], "request")
TurnSettles(s, e) ==
  \A x \in Occupants :
    x.session = s /\ observed[s] # Null /\ observed[s].conn = pi[s].conn =>
      /\ e.conn = pi[s].conn => e.managed \/ Settling(toPi'[pi[s].conn], e.ack, x.run)
      /\ \A p \in Pending : proposal[p].session = s => ~AckIn(toGateway'[pi[s].conn], p)

\* A turn of a Pi that answers and settles only what it may keeps the frames in
\* order.
LEMMA TurnFrames ==
  ASSUME Ledger, Frames, NEW s \in Sessions, NEW e, NEW g, PiTurn(s, e, g),
         \A p : AckIn(g, p) => Mentioned(p, pi[s].conn),
         pi[s].conn # 0 => TurnAnswers(s, e) /\ TurnSettles(s, e)
  PROVE  Frames'
<1> USE DEF Ledger, Frames
<1> DEFINE c == pi[s].conn
<1>1. /\ UNCHANGED <<stores, coordinator, observed, serving, owner>>
      /\ pi' = [pi EXCEPT ![s] = e] /\ e \in Extensions /\ e.conn \in {c, 0}
      /\ pi \in [Sessions -> Extensions] /\ c \in Conns \cup {0} /\ (c # 0 => owner[c] = s)
  BY DEF PiTurn, leases, WireTypes, Extensions
<1>2. 0 \notin Conns BY DEF Conns
<1>3. /\ toGateway' \in [Conns -> Seq(FramesToGateway)]
      /\ \A k \in Conns : k # c => toGateway'[k] = toGateway[k]
      /\ c # 0 => toGateway'[c] = toGateway[c] \/ toGateway'[c] = toGateway[c] \o g
  <2>1. CASE c = 0 \/ toGateway' = toGateway BY <2>1 DEF PiTurn, WireTypes
  <2>2. CASE c # 0 /\ toGateway' = Written(c, g)
    <3>1. c \in Conns /\ toGateway \in [Conns -> Seq(FramesToGateway)]
          /\ toGateway[c] \o g \in Seq(FramesToGateway)
      BY <1>1, <2>2, ConcatToGateway DEF PiTurn, WireTypes
    <3>2. QED BY <2>2, <3>1 DEF Written
  <2>3. QED BY <2>1, <2>2 DEF PiTurn
<1>4. /\ toPi' \in [Conns -> Seq(FramesToPi)]
      /\ \A k \in Conns : k # c => toPi'[k] = toPi[k]
      /\ c # 0 => \/ toPi'[c] = toPi[c] \/ toPi'[c] = <<>>
                  \/ toPi[c] # <<>> /\ toPi'[c] = Tail(toPi[c])
  <2>1. toPi \in [Conns -> Seq(FramesToPi)] /\ <<>> \in Seq(FramesToPi) BY EmptySeq DEF WireTypes
  <2>2. CASE c = 0 \/ toPi' = toPi BY <2>1, <2>2 DEF PiTurn
  <2>3. CASE c # 0 /\ toPi[c] # <<>> /\ toPi' = [toPi EXCEPT ![c] = Tail(@)]
    <3>1. Tail(toPi[c]) \in Seq(FramesToPi) BY <1>1, <2>1, <2>3, TailOf
    <3>2. QED BY <1>1, <2>1, <2>3, <3>1
  <2>4. CASE c # 0 /\ toPi' = [toPi EXCEPT ![c] = <<>>] BY <1>1, <2>1, <2>4
  <2>5. QED BY <2>2, <2>3, <2>4 DEF PiTurn
<1>5. ASSUME c # 0
      PROVE /\ RegistersFirst(toGateway[c]) => RegistersFirst(toGateway'[c])
            /\ Without(toGateway[c], "register") => Without(toGateway'[c], "register")
            /\ \A p : AckIn(toGateway'[c], p) => AckIn(toGateway[c], p) \/ AckIn(g, p)
            /\ \A i \in DOMAIN toGateway'[c] :
                 \/ \E j \in DOMAIN toGateway[c] : toGateway'[c][i] = toGateway[c][j]
                 \/ \E j \in DOMAIN g : toGateway'[c][i] = g[j]
  <2>1. toGateway[c] \in Seq(FramesToGateway) BY <1>1, <1>5 DEF WireTypes
  <2>2. CASE toGateway'[c] = toGateway[c] BY <2>2
  <2>3. CASE toGateway'[c] = toGateway[c] \o g
    <3>1. g \in Seq(FramesToGateway) /\ Without(g, "register") BY DEF PiTurn
    <3> DEFINE q == toGateway[c]
    <3>2. /\ RegistersFirst(q) => RegistersFirst(q \o g)
          /\ Without(q, "register") => Without(q \o g, "register")
          /\ \A p : AckIn(q \o g, p) => AckIn(q, p) \/ AckIn(g, p)
          /\ \A i \in DOMAIN (q \o g) :
               (\E j \in DOMAIN q : (q \o g)[i] = q[j]) \/ (\E j \in DOMAIN g : (q \o g)[i] = g[j])
      BY <2>1, <3>1, ConcatToGateway
    <3>3. QED BY <2>3, <3>2
  <2>4. QED BY <1>3, <1>5, <2>2, <2>3
<1>6. ASSUME c # 0
      PROVE /\ \A t : Without(toPi[c], t) => Without(toPi'[c], t)
            /\ \A p : RequestLast(toPi[c], p) => RequestLast(toPi'[c], p)
            /\ toPi[c] = <<>> => toPi'[c] = <<>>
            /\ \A i \in DOMAIN toPi'[c] : \E j \in DOMAIN toPi[c] : toPi'[c][i] = toPi[c][j]
  <2>1. toPi[c] \in Seq(FramesToPi) BY <1>1, <1>6 DEF WireTypes
  <2>2. CASE toPi'[c] = toPi[c] BY <2>2
  <2>3. CASE toPi'[c] = <<>> BY <2>3 DEF Without, RequestLast
  <2>4. CASE toPi[c] # <<>> /\ toPi'[c] = Tail(toPi[c])
    <3>1. \A i \in DOMAIN toPi'[c] : \E j \in DOMAIN toPi[c] : toPi'[c][i] = toPi[c][j]
      <4>1. /\ DOMAIN toPi[c] = 1 .. Len(toPi[c]) /\ Len(toPi[c]) \in Nat \ {0}
            /\ DOMAIN toPi'[c] = 1 .. Len(toPi[c]) - 1
            /\ \A i \in 1 .. Len(toPi[c]) - 1 : toPi'[c][i] = toPi[c][i + 1]
        BY <2>1, <2>4, TailOf
      <4>2. \A i \in 1 .. Len(toPi[c]) - 1 : i + 1 \in 1 .. Len(toPi[c]) BY <4>1
      <4>3. QED BY <4>1, <4>2
    <3>2. QED BY <2>1, <2>4, <3>1, TailToPi
  <2>5. QED BY <1>4, <1>6, <2>2, <2>3, <2>4
<1>7. WireTypes'
  <2>1. pi' \in [Sessions -> Extensions] BY <1>1
  <2>2. \A k \in Sessions : pi'[k].conn # 0 => owner[pi'[k].conn] = k BY <1>1 DEF WireTypes
  <2>3. QED BY <1>1, <1>3, <1>4, <2>1, <2>2 DEF WireTypes
<1>8. RegistersSound'
  <2>1. \A k \in Conns : Used(k)' => Used(k) BY <1>1 DEF Used, coordinator
  <2>2. ASSUME NEW k \in Conns PROVE (RegistersSound!(k))'
    <3>1. CASE k # c BY <1>1, <1>3, <1>4, <2>1, <3>1 DEF RegistersSound
    <3>2. CASE k = c
      <4>1. RegistersFirst(toGateway'[c]) BY <1>2, <1>5, <3>2 DEF RegistersSound
      <4>2. Without(toGateway[c], "register") => Without(toGateway'[c], "register")
        BY <1>2, <1>5, <3>2
      <4>3. Without(toPi[c], "challenge") => Without(toPi'[c], "challenge") BY <1>2, <1>6, <3>2
      <4>4. owner[c] = Null => toPi'[c] = <<>> BY <1>2, <1>6, <3>2 DEF RegistersSound
      <4>5. QED BY <1>1, <2>1, <3>2, <4>1, <4>2, <4>3, <4>4 DEF RegistersSound
    <3>3. QED BY <3>1, <3>2
  <2>3. QED BY <2>2 DEF RegistersSound
<1>9. MentionsSound'
  <2>1. \A q, k : Mentioned(q, k) => Mentioned(q, k)' BY <1>1 DEF Mentioned, coordinator
  <2>2. ASSUME NEW k \in Conns, NEW i \in DOMAIN toPi'[k], toPi'[k][i].type = "request"
        PROVE (Mentioned(toPi[k][i].run, k))'
    <3>1. PICK j \in DOMAIN toPi[k] : toPi'[k][i] = toPi[k][j] BY <1>2, <1>4, <1>6, <2>2
    <3>2. Mentioned(toPi[k][j].run, k) BY <2>2, <3>1 DEF MentionsSound
    <3>3. QED BY <2>1, <3>1, <3>2
  <2>3. ASSUME NEW k \in Conns, NEW i \in DOMAIN toGateway'[k], toGateway'[k][i].type = "acknowledged"
        PROVE (Mentioned(toGateway[k][i].run, k))'
    <3>1. CASE \E j \in DOMAIN toGateway[k] : toGateway'[k][i] = toGateway[k][j]
      <4>1. PICK j \in DOMAIN toGateway[k] : toGateway'[k][i] = toGateway[k][j] BY <3>1
      <4>2. Mentioned(toGateway[k][j].run, k) BY <2>3, <4>1 DEF MentionsSound
      <4>3. QED BY <2>1, <4>1, <4>2
    <3>2. CASE k = c /\ \E j \in DOMAIN g : toGateway'[k][i] = g[j]
      <4>1. PICK j \in DOMAIN g : toGateway'[k][i] = g[j] BY <3>2
      <4>2. AckIn(g, g[j].run) BY <2>3, <4>1 DEF AckIn
      <4>3. Mentioned(g[j].run, k) BY <3>2, <4>2
      <4>4. QED BY <2>1, <4>1, <4>3
    <3>3. QED BY <1>2, <1>3, <1>5, <2>3, <3>1, <3>2
  <2>4. QED BY <2>2, <2>3 DEF MentionsSound
<1>10. Pending' = Pending /\ phase' = phase /\ proposal' = proposal
       /\ \A p \in Pending : p \in Proposals /\ proposal[p].conn \in Conns
            /\ proposal[p].session \in Sessions /\ owner[proposal[p].conn] = proposal[p].session
  BY <1>1 DEF Pending, coordinator, ProposalTypes, ProposalsSound, InPlay
<1>11. RequestsSound'
  <2> SUFFICES ASSUME NEW p \in Pending PROVE (RequestsSound!(p))'
    BY <1>10 DEF RequestsSound
  <2> DEFINE k == proposal[p].conn
  <2>1. CASE k = c
    <3>1. k # 0 /\ proposal[p].session = s BY <1>1, <1>2, <1>10, <2>1
    <3>2. RequestLast(toPi'[k], p) BY <1>6, <2>1, <3>1 DEF RequestsSound
    <3>3. pi'[s] = e BY <1>1
    <3>4. Answered(p)' => e.ack = p /\ Without(toPi'[k], "request")
      BY <1>10, <2>1, <3>1, <3>3 DEF Answered, TurnAnswers
    <3>5. QED BY <1>10, <3>1, <3>2, <3>3, <3>4
  <2>2. CASE k # c
    <3>1. pi'[proposal[p].session].conn = k => pi'[proposal[p].session] = pi[proposal[p].session]
      BY <1>1, <1>2, <1>10, <2>2
    <3>2. Answered(p)' => Answered(p) BY <1>3, <1>10, <2>2, <3>1 DEF Answered
    <3>3. Answered(p)' => pi'[proposal[p].session] = pi[proposal[p].session]
      BY <1>10, <3>1 DEF Answered
    <3>4. QED BY <1>4, <1>10, <2>2, <3>2, <3>3 DEF RequestsSound
  <2>3. QED BY <2>1, <2>2
<1>12. OccupantsSound'
  <2> SUFFICES ASSUME NEW x \in Occupants, observed[x.session] # Null PROVE OccupantSettled(x)'
    BY <1>1 DEF OccupantsSound, OccupantSettled, Occupants, stores
  <2> DEFINE t == x.session
             k == observed[t].conn
  <2>1. t \in Sessions /\ k \in Conns /\ owner[k] = t
        /\ (pi[t].conn = k => pi[t].managed \/ Settling(toPi[k], pi[t].ack, x.run))
        /\ \A p \in Pending : proposal[p].session = t =>
             phase[p] # "acknowledged" /\ ~AckIn(toGateway[k], p)
    BY DEF OccupantsSound, OccupantSettled, RowTypes, EntryTypes, EntryRecords, EntriesSound
  <2>2. CASE k = c
    <3>1. t = s /\ c # 0 BY <1>1, <1>2, <2>1, <2>2
    <3>2. /\ e.conn = c => e.managed \/ Settling(toPi'[c], e.ack, x.run)
          /\ \A p \in Pending : proposal[p].session = s => ~AckIn(toGateway'[c], p)
      BY <2>2, <3>1 DEF TurnSettles
    <3>3. pi'[s] = e BY <1>1
    <3>4. QED BY <1>1, <1>10, <2>1, <2>2, <3>1, <3>2, <3>3 DEF OccupantSettled
  <2>3. CASE k # c
    <3>1. pi'[t].conn = k => pi'[t] = pi[t] BY <1>1, <1>2, <2>1, <2>3
    <3>2. toPi'[k] = toPi[k] /\ toGateway'[k] = toGateway[k] BY <1>3, <1>4, <2>1, <2>3
    <3>3. QED BY <1>1, <1>10, <2>1, <3>1, <3>2 DEF OccupantSettled
  <2>4. QED BY <2>2, <2>3
<1>13. QED BY <1>7, <1>8, <1>9, <1>11, <1>12

\* Frames about a run, none of them an acknowledgement.
LEMMA FramesWritten ==
  /\ \A type \in {"refused", "ready", "takeover", "proof"}, n \in RunOrNull :
       /\ <<Frame(type, n)>> \in Seq(FramesToGateway)
       /\ Without(<<Frame(type, n)>>, "register") /\ \A p : ~AckIn(<<Frame(type, n)>>, p)
  /\ \A n \in RunOrNull :
       /\ <<Frame("acknowledged", n)>> \in Seq(FramesToGateway)
       /\ Without(<<Frame("acknowledged", n)>>, "register")
       /\ \A p : AckIn(<<Frame("acknowledged", n)>>, p) => p = n
       /\ <<Frame("takeover", n), Frame("ready", n)>> \in Seq(FramesToGateway)
       /\ Without(<<Frame("takeover", n), Frame("ready", n)>>, "register")
       /\ \A p : ~AckIn(<<Frame("takeover", n), Frame("ready", n)>>, p)
  /\ \A a \in Activities :
       /\ <<[type |-> "lifecycle", activity |-> a]>> \in Seq(FramesToGateway)
       /\ Without(<<[type |-> "lifecycle", activity |-> a]>>, "register")
       /\ \A p : ~AckIn(<<[type |-> "lifecycle", activity |-> a]>>, p)
  /\ <<Closed>> \in Seq(FramesToGateway) /\ Without(<<Closed>>, "register")
  /\ \A p : ~AckIn(<<Closed>>, p)
<1>1. /\ \A type \in {"refused", "ready", "takeover", "proof", "acknowledged"}, n \in RunOrNull :
           Frame(type, n) \in FramesToGateway /\ Frame(type, n).type = type /\ Frame(type, n).run = n
      /\ \A a \in Activities : [type |-> "lifecycle", activity |-> a] \in FramesToGateway
      /\ Closed \in FramesToGateway /\ Closed.type = "closed"
  BY DEF Frame, Closed, FramesToGateway
<1>2. \A f \in FramesToGateway :
        /\ <<f>> \in Seq(FramesToGateway) /\ (f.type # "register" => Without(<<f>>, "register"))
        /\ \A p : AckIn(<<f>>, p) => f.type = "acknowledged" /\ f.run = p
  BY DEF Without, AckIn
<1>3. \A f, h \in FramesToGateway :
        /\ <<f, h>> \in Seq(FramesToGateway)
        /\ f.type # "register" /\ h.type # "register" => Without(<<f, h>>, "register")
        /\ \A p : AckIn(<<f, h>>, p) => f.type = "acknowledged" \/ h.type = "acknowledged"
  BY DEF Without, AckIn
<1>4. QED BY <1>1, <1>2, <1>3

\* A turn acknowledges nothing but what it writes.
LEMMA TurnWrites ==
  ASSUME WireTypes, NEW s \in Sessions, NEW e, NEW g, PiTurn(s, e, g), pi[s].conn # 0
  PROVE  \A p : AckIn(toGateway'[pi[s].conn], p) => AckIn(toGateway[pi[s].conn], p) \/ AckIn(g, p)
<1> DEFINE c == pi[s].conn
<1>1. c \in Conns BY DEF WireTypes, Extensions
<1>2. g \in Seq(FramesToGateway) /\ Without(g, "register") /\ toGateway[c] \in Seq(FramesToGateway)
  BY <1>1 DEF PiTurn, WireTypes
<1>3. \A p : AckIn(toGateway[c] \o g, p) => AckIn(toGateway[c], p) \/ AckIn(g, p)
  BY <1>2, ConcatToGateway
<1>4. toGateway'[c] = toGateway[c] \/ toGateway'[c] = toGateway[c] \o g
  BY <1>1 DEF PiTurn, Written, WireTypes
<1>5. QED BY <1>3, <1>4

\* A Pi that only writes.
LEMMA WritesFrames ==
  ASSUME Ledger, Frames, NEW s \in Sessions, NEW e, NEW g, PiTurn(s, e, g),
         \A p : ~AckIn(g, p), toPi' = toPi,
         e.conn = pi[s].conn, e.managed = pi[s].managed, e.ack = pi[s].ack
  PROVE  Frames'
<1> USE DEF Ledger, Frames
<1> DEFINE c == pi[s].conn
<1>1. CASE c = 0 BY <1>1, TurnFrames
<1>2. CASE c # 0
  <2>1. c \in Conns /\ owner[c] = s BY <1>2 DEF WireTypes, Extensions
  <2>2. \A p : AckIn(toGateway'[c], p) => AckIn(toGateway[c], p) BY <1>2, TurnWrites
  <2>3. TurnAnswers(s, e)
    <3> SUFFICES ASSUME NEW p \in Pending, proposal[p].conn = c,
                        phase[p] = "acknowledged" \/ AckIn(toGateway'[c], p)
                 PROVE  e.ack = p /\ Without(toPi'[c], "request")
      BY DEF TurnAnswers
    <3>1. proposal[p].session = s
      BY <2>1 DEF Pending, ProposalTypes, ProposalsSound, InPlay
    <3>2. Answered(p) BY <2>2, <3>1 DEF Answered
    <3>3. QED BY <3>1, <3>2 DEF RequestsSound
  <2>4. TurnSettles(s, e)
    BY <2>2 DEF TurnSettles, OccupantsSound, OccupantSettled
  <2>5. QED BY <2>3, <2>4, TurnFrames
<1>3. QED BY <1>1, <1>2

\* A Pi that closes its connection.
LEMMA ClosesFrames ==
  ASSUME Ledger, Frames, NEW s \in Sessions, NEW e, NEW g, PiTurn(s, e, g),
         \A p : ~AckIn(g, p), e.conn = 0
  PROVE  Frames'
<1> USE DEF Ledger, Frames
<1> DEFINE c == pi[s].conn
<1>1. CASE c = 0 BY <1>1, TurnFrames
<1>2. CASE c # 0
  <2>1. c \in Conns /\ owner[c] = s BY <1>2 DEF WireTypes, Extensions
  <2>2. \A p : AckIn(toGateway'[c], p) => AckIn(toGateway[c], p) BY <1>2, TurnWrites
  <2>3. TurnAnswers(s, e) BY <1>2 DEF TurnAnswers
  <2>4. TurnSettles(s, e)
    BY <1>2, <2>2 DEF TurnSettles, OccupantsSound, OccupantSettled
  <2>5. QED BY <2>3, <2>4, TurnFrames
<1>3. QED BY <1>1, <1>2

\* A Pi that reads a frame and changes nothing the gateway relies on.
LEMMA ReadsFrames ==
  ASSUME Ledger, Frames, NEW s \in Sessions, NEW e, NEW g, PiTurn(s, e, g),
         \A p : ~AckIn(g, p), pi[s].conn # 0, toPi[pi[s].conn] # <<>>,
         toPi' = [toPi EXCEPT ![pi[s].conn] = Tail(@)],
         e.conn = pi[s].conn, e.ack = pi[s].ack, pi[s].managed => e.managed,
         \/ e.managed
         \/ /\ Head(toPi[pi[s].conn]) # Rejected
            /\ \A n \in Proposals : ~(Head(toPi[pi[s].conn]) = CommittedFrame(n) /\ pi[s].ack = n)
  PROVE  Frames'
<1> USE DEF Ledger, Frames
<1> DEFINE c == pi[s].conn
<1>1. c \in Conns /\ owner[c] = s /\ toPi[c] \in Seq(FramesToPi) BY DEF WireTypes, Extensions
<1>2. \A p : AckIn(toGateway'[c], p) => AckIn(toGateway[c], p) BY TurnWrites
<1>3. toPi'[c] = Tail(toPi[c]) BY <1>1 DEF WireTypes
<1>4. TurnAnswers(s, e)
  <2> SUFFICES ASSUME NEW p \in Pending, proposal[p].conn = c,
                      phase[p] = "acknowledged" \/ AckIn(toGateway'[c], p)
               PROVE  e.ack = p /\ Without(toPi'[c], "request")
    BY DEF TurnAnswers
  <2>1. proposal[p].session = s
    BY <1>1 DEF Pending, ProposalTypes, ProposalsSound, InPlay
  <2>2. Answered(p) BY <1>2, <2>1 DEF Answered
  <2>3. pi[s].ack = p /\ Without(toPi[c], "request") BY <2>1, <2>2 DEF RequestsSound
  <2>4. QED BY <1>1, <1>3, <2>3, TailToPi
<1>5. TurnSettles(s, e)
  <2> SUFFICES ASSUME NEW x \in Occupants, x.session = s, observed[s] # Null, observed[s].conn = c
               PROVE  /\ e.managed \/ Settling(toPi'[c], e.ack, x.run)
                      /\ \A p \in Pending : proposal[p].session = s => ~AckIn(toGateway'[c], p)
    BY DEF TurnSettles
  <2>1. /\ pi[s].managed \/ Settling(toPi[c], pi[s].ack, x.run)
        /\ \A p \in Pending : proposal[p].session = s => ~AckIn(toGateway[c], p)
        /\ x.run \in Proposals
    BY DEF OccupantsSound, OccupantSettled, RowTypes
  <2>2. e.managed \/ Settling(toPi'[c], e.ack, x.run)
    BY <1>1, <1>3, <2>1, TailToPi
  <2>3. QED BY <1>2, <2>1, <2>2
<1>6. QED BY <1>4, <1>5, TurnFrames

\* A turn that writes nothing.
LEMMA NoFrames ==
  <<>> \in Seq(FramesToGateway) /\ Without(<<>>, "register") /\ \A p : ~AckIn(<<>>, p)
  BY EmptySeq DEF Without, AckIn

\* What a Pi knows of the frame it reads.
LEMMA Receiving ==
  ASSUME WireTypes, NEW s \in Sessions, NEW types, Receives(s, types)
  PROVE  /\ pi[s].conn # 0 /\ pi[s].conn \in Conns /\ owner[pi[s].conn] = s
         /\ toPi[pi[s].conn] \in Seq(FramesToPi) /\ toPi[pi[s].conn] # <<>>
         /\ Received(s) \in FramesToPi /\ Received(s).type \in types
         /\ Received(s) = Head(toPi[pi[s].conn]) /\ pi[s] \in Extensions
  BY TailOf DEF Receives, Received, WireTypes, Extensions

\* A Pi that fails open closes its connection.
LEMMA FailingOpen ==
  ASSUME Ledger, Frames, NEW s \in Sessions, FailOpen(s), pi[s].conn # 0,
         UNCHANGED <<stores, coordinator, leases, registry, serving, owner>>
  PROVE  Frames'
<1>1. Offline(s) \in Extensions /\ Offline(s).conn = 0
  <2>1. ASSUME NEW q \in Extensions
        PROVE LET e == [q EXCEPT !.conn = 0, !.rev = 0, !.managed = FALSE, !.ack = Null]
              IN e \in Extensions /\ e.conn = 0
    BY DEF Extensions, RunOrNull
  <2>2. QED BY <2>1 DEF Frames, WireTypes, Offline
<1>2. PiTurn(s, Offline(s), <<Closed>>) BY <1>1, FramesWritten DEF PiTurn, FailOpen
<1>3. QED BY <1>1, <1>2, FramesWritten, ClosesFrames

\* Everything a Pi does but answering a request or a challenge, or connecting.
LEMMA TurningFrames ==
  ASSUME Ledger, Frames, NEW s \in Sessions,
         \/ ReceiveRegistered(s) \/ ReceiveCommitted(s) \/ ReceiveEnd(s) \/ RepeatReady(s)
         \/ Input(s) \/ ChangeActivity(s) \/ Disconnect(s) \/ Quit(s)
  PROVE  Frames'
<1> USE DEF Frames
<1> DEFINE c == pi[s].conn
<1>0. pi[s] \in Extensions BY DEF WireTypes
<1>1. CASE ReceiveRegistered(s)
  <2> DEFINE e == [pi[s] EXCEPT !.rev = Received(s).rev]
  <2>1. Receives(s, {"registered"}) /\ toPi' = [toPi EXCEPT ![c] = Tail(@)]
        /\ pi' = [pi EXCEPT ![s] = e]
        /\ UNCHANGED <<stores, coordinator, leases, registry, serving, owner, toGateway>>
    BY <1>1 DEF ReceiveRegistered, Consumed
  <2>2. Received(s) \in FramesToPi /\ Received(s).type = "registered" BY <2>1, Receiving
  <2>3. Received(s).rev \in Nat /\ Received(s) # Rejected
        /\ \A n \in Proposals : Received(s) # CommittedFrame(n)
    BY <2>2 DEF FramesToPi, Rejected, CommittedFrame
  <2>4. e \in Extensions /\ e.conn = c /\ e.ack = pi[s].ack /\ e.managed = pi[s].managed
    BY <1>0, <2>3 DEF Extensions
  <2> HIDE DEF e
  <2>5. c # 0 /\ toPi[c] # <<>> /\ Received(s) = Head(toPi[c]) BY <2>1, Receiving
  <2>6. PiTurn(s, e, <<>>) BY <2>1, <2>4, <2>5, NoFrames DEF PiTurn
  <2>7. QED BY <2>1, <2>3, <2>4, <2>5, <2>6, NoFrames, ReadsFrames
<1>2. CASE ReceiveCommitted(s)
  <2> DEFINE n == Received(s).run
  <2>1. Receives(s, {"committed"})
        /\ UNCHANGED <<stores, coordinator, leases, registry, serving, owner>>
    BY <1>2 DEF ReceiveCommitted
  <2>2. c # 0 /\ toPi[c] # <<>> /\ Received(s) = Head(toPi[c])
        /\ Received(s) \in FramesToPi /\ Received(s).type = "committed"
    BY <2>1, Receiving
  <2>3. n \in RunOrNull /\ Received(s) # Rejected
    BY <2>2 DEF FramesToPi, Rejected
  <2>4. CASE pi[s].managed \/ (pi[s].rev = 0 /\ pi[s].ack = Null)
    <3>1. toPi' = [toPi EXCEPT ![c] = Tail(@)] /\ UNCHANGED <<pi, toGateway>>
      BY <1>2, <2>4 DEF ReceiveCommitted, Consumed
    <3>2. PiTurn(s, pi[s], <<>>) BY <1>0, <2>1, <2>2, <3>1, NoFrames DEF PiTurn, WireTypes
    <3>3. pi[s].managed \/ \A k \in Proposals : pi[s].ack # k
      BY <2>4, StoresAssumption DEF Proposals
    <3>4. QED BY <2>2, <2>3, <3>1, <3>2, <3>3, NoFrames, ReadsFrames
  <2>5. CASE ~(pi[s].managed \/ (pi[s].rev = 0 /\ pi[s].ack = Null)) /\ pi[s].ack # n
    <3>1. FailOpen(s) BY <1>2, <2>5 DEF ReceiveCommitted
    <3>2. QED BY <2>1, <2>2, <3>1, FailingOpen
  <2>6. CASE ~(pi[s].managed \/ (pi[s].rev = 0 /\ pi[s].ack = Null)) /\ pi[s].ack = n
    <3> DEFINE e == [pi[s] EXCEPT !.managed = TRUE, !.committed = n]
               g == Receipts(pi[s], n)
    <3>1. pi' = [pi EXCEPT ![s] = e] /\ toGateway' = Written(c, g)
          /\ toPi' = [toPi EXCEPT ![c] = Tail(@)]
      BY <1>2, <2>6 DEF ReceiveCommitted, Consumed
    <3>2. e \in Extensions /\ e.conn = c /\ e.ack = pi[s].ack /\ e.managed
      BY <1>0, <2>3 DEF Extensions
    <3>3. g \in Seq(FramesToGateway) /\ Without(g, "register") /\ \A p : ~AckIn(g, p)
      BY <2>3, FramesWritten DEF Receipts
    <3> HIDE DEF e, g
    <3>4. PiTurn(s, e, g) BY <2>1, <2>2, <3>1, <3>2, <3>3 DEF PiTurn
    <3>5. QED BY <2>2, <3>1, <3>2, <3>3, <3>4, ReadsFrames
  <2>7. QED BY <2>4, <2>5, <2>6
<1>3. CASE ReceiveEnd(s) BY <1>3, Receiving, FailingOpen DEF ReceiveEnd
<1>4. CASE RepeatReady(s)
  <2>1. c # 0 /\ toGateway' = Written(c, <<Frame("ready", pi[s].committed)>>)
        /\ UNCHANGED <<stores, coordinator, leases, registry, serving, owner, toPi, pi>>
    BY <1>4 DEF RepeatReady
  <2>2. pi[s].committed \in RunOrNull BY <1>0 DEF Extensions
  <2> DEFINE g == <<Frame("ready", pi[s].committed)>>
  <2>3. g \in Seq(FramesToGateway) /\ Without(g, "register") /\ \A p : ~AckIn(g, p)
    BY <2>2, FramesWritten
  <2>4. PiTurn(s, pi[s], g) BY <1>0, <2>1, <2>3 DEF PiTurn, WireTypes
  <2>5. QED BY <2>1, <2>3, <2>4, WritesFrames
<1>5. CASE Input(s)
  <2> DEFINE e == [pi[s] EXCEPT !.takeover = TRUE]
             g == <<Frame("takeover", pi[s].committed)>>
  <2>1. /\ pi' = [pi EXCEPT ![s] = e]
        /\ toGateway' = toGateway \/ (c # 0 /\ toGateway' = Written(c, g))
        /\ toPi' = toPi
        /\ UNCHANGED <<stores, coordinator, leases, registry, serving, owner>>
    BY <1>5 DEF Input
  <2>2. pi[s].committed \in RunOrNull BY <1>0 DEF Extensions
  <2>3. e \in Extensions /\ e.conn = c /\ e.managed = pi[s].managed /\ e.ack = pi[s].ack
    BY <1>0 DEF Extensions
  <2>4. g \in Seq(FramesToGateway) /\ Without(g, "register") /\ \A p : ~AckIn(g, p)
    BY <2>2, FramesWritten
  <2> HIDE DEF e, g
  <2>5. PiTurn(s, e, g)
    <3>1. CASE c = 0 BY <2>1, <2>3, <2>4, <3>1 DEF PiTurn
    <3>2. CASE c # 0 BY <2>1, <2>3, <2>4, <3>2 DEF PiTurn
    <3>3. QED BY <3>1, <3>2
  <2>6. QED BY <2>1, <2>3, <2>4, <2>5, WritesFrames
<1>6. CASE ChangeActivity(s)
  <2> DEFINE a == IF pi[s].activity = "idle" THEN "busy" ELSE "idle"
             e == [pi[s] EXCEPT !.activity = a]
             g == <<[type |-> "lifecycle", activity |-> a]>>
  <2>1. /\ pi' = [pi EXCEPT ![s] = e]
        /\ toGateway' = toGateway \/ toGateway' = Written(c, g)
        /\ toPi' = toPi
        /\ UNCHANGED <<stores, coordinator, leases, registry, serving, owner>>
    BY <1>6 DEF ChangeActivity
  <2>2. a \in Activities BY DEF Activities
  <2>3. e \in Extensions /\ e.conn = c /\ e.managed = pi[s].managed /\ e.ack = pi[s].ack
    BY <1>0, <2>2 DEF Extensions
  <2>4. g \in Seq(FramesToGateway) /\ Without(g, "register") /\ \A p : ~AckIn(g, p)
    BY <2>2, FramesWritten
  <2> HIDE DEF e, g
  <2>5. PiTurn(s, e, g)
    <3>1. CASE c = 0
      <4>1. toGateway' = toGateway BY <2>1, <3>1 DEF WireTypes, Written, Conns
      <4>2. QED BY <2>1, <2>3, <2>4, <3>1, <4>1 DEF PiTurn
    <3>2. CASE c # 0 BY <2>1, <2>3, <2>4, <3>2 DEF PiTurn
    <3>3. QED BY <3>1, <3>2
  <2>6. QED BY <2>1, <2>3, <2>4, <2>5, WritesFrames
<1>7. CASE Disconnect(s) BY <1>7, FailingOpen DEF Disconnect
<1>8. CASE Quit(s)
  <2> DEFINE e == [FreshPi EXCEPT !.alive = FALSE]
  <2>1. e \in Extensions /\ e.conn = 0 BY DEF FreshPi, Extensions, RunOrNull, Activities
  <2> HIDE DEF e
  <2>2. PiTurn(s, e, <<Closed>>)
    BY <1>8, <2>1, FramesWritten DEF PiTurn, Quit, e
  <2>3. QED BY <2>1, <2>2, FramesWritten, ClosesFrames
<1>9. QED BY <1>1, <1>2, <1>3, <1>4, <1>5, <1>6, <1>7, <1>8

\* The Pi acknowledges a request: it is the last one, and no other proposal of
\* the connection was answered.
LEMMA RequestFrames ==
  ASSUME Ledger, Frames, NEW s \in Sessions, ReceiveRequest(s)
  PROVE  Frames'
<1> USE DEF Ledger, Frames
<1> DEFINE c == pi[s].conn
           n == Received(s).run
           q == IF pi[s].committed = Null /\ pi[s].candidate # n
                THEN [pi[s] EXCEPT !.candidate = n, !.takeover = FALSE] ELSE pi[s]
<1>1. /\ Receives(s, {"request"}) /\ toPi' = [toPi EXCEPT ![c] = Tail(@)]
      /\ UNCHANGED <<stores, coordinator, leases, registry, serving, owner>>
  BY DEF ReceiveRequest, Consumed
<1>2. /\ c # 0 /\ c \in Conns /\ owner[c] = s /\ toPi[c] \in Seq(FramesToPi) /\ toPi[c] # <<>>
      /\ Received(s) = Head(toPi[c]) /\ Received(s) \in FramesToPi /\ Received(s).type = "request"
      /\ pi[s] \in Extensions
  BY <1>1, Receiving
<1>3. /\ n \in RunOrNull /\ Received(s) # Rejected /\ \A k : Received(s) # CommittedFrame(k)
      /\ 1 \in DOMAIN toPi[c] /\ toPi[c][1] = Received(s)
  BY <1>2 DEF FramesToPi, Rejected, CommittedFrame
<1>4. Mentioned(n, c) BY <1>2, <1>3 DEF MentionsSound
<1>5. q \in Extensions /\ q.conn = c /\ q.ack = pi[s].ack /\ q.managed = pi[s].managed
  BY <1>2, <1>3 DEF Extensions
<1>6. CASE pi[s].rev = 0 \/ Refuses(s, Received(s))
  <2> DEFINE g == <<Frame("refused", n)>>
  <2>1. pi' = [pi EXCEPT ![s] = q] /\ (toGateway' = toGateway \/ toGateway' = Written(c, g))
    BY <1>6 DEF ReceiveRequest
  <2>2. g \in Seq(FramesToGateway) /\ Without(g, "register") /\ \A p : ~AckIn(g, p)
    BY <1>3, FramesWritten
  <2> HIDE DEF q, g
  <2>3. PiTurn(s, q, g) BY <1>1, <1>2, <1>5, <2>1, <2>2 DEF PiTurn
  <2>4. QED BY <1>1, <1>2, <1>3, <1>5, <2>2, <2>3, ReadsFrames
<1>7. CASE ~(pi[s].rev = 0 \/ Refuses(s, Received(s)))
  <2> DEFINE e == AcknowledgedBy(q, n)
             g == <<Frame("acknowledged", n)>>
  <2>1. /\ pi' = [pi EXCEPT ![s] = e] /\ toGateway' = Written(c, g) /\ ~pi[s].managed
    BY <1>7 DEF ReceiveRequest, Refuses
  <2>2. e \in Extensions /\ e.conn = c /\ e.ack = n
    BY <1>3, <1>5 DEF AcknowledgedBy, Extensions
  <2>3. g \in Seq(FramesToGateway) /\ Without(g, "register") /\ \A p : AckIn(g, p) => p = n
    BY <1>3, FramesWritten
  <2> HIDE DEF q, e, g
  <2>4. PiTurn(s, e, g) BY <1>1, <1>2, <2>1, <2>2, <2>3 DEF PiTurn
  <2>5. \A p : AckIn(toGateway'[c], p) => AckIn(toGateway[c], p) \/ p = n
    BY <1>2, <2>3, <2>4, TurnWrites
  <2>6. ~Without(toPi[c], "request") BY <1>2, <1>3 DEF Without
  <2>7. \A p \in Pending : proposal[p].conn = c => proposal[p].session = s /\ ~Answered(p)
    BY <1>2, <2>6 DEF RequestsSound, Pending, ProposalTypes, ProposalsSound, InPlay
  <2>8. TurnAnswers(s, e)
    <3> SUFFICES ASSUME NEW p \in Pending, proposal[p].conn = c,
                        phase[p] = "acknowledged" \/ AckIn(toGateway'[c], p)
                 PROVE  e.ack = p /\ Without(toPi'[c], "request")
      BY DEF TurnAnswers
    <3>1. p = n BY <2>5, <2>7 DEF Answered
    <3>2. RequestLast(toPi[c], p) BY DEF RequestsSound
    <3>3. \A j \in DOMAIN toPi[c] : 1 < j => toPi[c][j].type # "request"
      BY <1>2, <1>3, <3>1, <3>2 DEF RequestLast
    <3>4. toPi'[c] = Tail(toPi[c]) BY <1>1, <1>2 DEF WireTypes
    <3>5. Without(Tail(toPi[c]), "request") BY <1>2, <3>3, TailOf DEF Without
    <3>6. QED BY <2>2, <3>1, <3>4, <3>5
  <2>9. TurnSettles(s, e)
    <3> SUFFICES ASSUME NEW x \in Occupants, x.session = s, observed[s] # Null,
                        observed[s].conn = c
                 PROVE  FALSE
      BY DEF TurnSettles
    <3>1. Settling(toPi[c], pi[s].ack, x.run)
      BY <2>1 DEF OccupantsSound, OccupantSettled
    <3>2. PICK i \in DOMAIN toPi[c] :
             /\ (toPi[c][i] = CommittedFrame(x.run) /\ pi[s].ack = x.run) \/ toPi[c][i] = Rejected
             /\ \A j \in 1 .. i - 1 : toPi[c][j].type # "request"
      BY <3>1 DEF Settling
    <3>3. i # 1 BY <1>3, <3>2
    <3>4. i \in Nat /\ i > 1 BY <1>2, <3>3
    <3>5. QED BY <1>2, <1>3, <3>2, <3>4
  <2>10. QED BY <1>4, <2>3, <2>4, <2>8, <2>9, TurnFrames
<1>8. QED BY <1>6, <1>7

\* A challenge comes only over a connection that has not registered.
LEMMA ChallengeFrames ==
  ASSUME Ledger, Frames, NEW s \in Sessions, ReceiveChallenge(s)
  PROVE  Frames'
<1> USE DEF Ledger, Frames
<1> DEFINE c == pi[s].conn
           n == Received(s).run
<1>1. Receives(s, {"challenge"})
      /\ UNCHANGED <<stores, coordinator, leases, registry, serving, owner>>
  BY DEF ReceiveChallenge
<1>2. /\ c # 0 /\ c \in Conns /\ owner[c] = s /\ toPi[c] \in Seq(FramesToPi) /\ toPi[c] # <<>>
      /\ Received(s) = Head(toPi[c]) /\ Received(s) \in FramesToPi /\ Received(s).type = "challenge"
      /\ pi[s] \in Extensions
  BY <1>1, Receiving
<1>3. CASE pi[s].sessionAck # n
  BY <1>1, <1>2, <1>3, FailingOpen DEF ReceiveChallenge
<1>4. CASE pi[s].sessionAck = n
  <2> DEFINE e == [pi[s] EXCEPT !.ack = n]
             g == <<Frame("proof", n)>>
  <2>1. /\ pi' = [pi EXCEPT ![s] = e] /\ toGateway' = Written(c, g)
        /\ toPi' = [toPi EXCEPT ![c] = Tail(@)]
    BY <1>4 DEF ReceiveChallenge, Consumed
  <2>2. n \in RunOrNull BY <1>2, <1>4 DEF Extensions
  <2>3. e \in Extensions /\ e.conn = c BY <1>2, <2>2 DEF Extensions
  <2>4. g \in Seq(FramesToGateway) /\ Without(g, "register") /\ \A p : ~AckIn(g, p)
    BY <2>2, FramesWritten
  <2> HIDE DEF e, g
  <2>5. PiTurn(s, e, g) BY <1>1, <1>2, <2>1, <2>3, <2>4 DEF PiTurn
  <2>6. ~Without(toPi[c], "challenge") BY <1>2 DEF Without
  <2>7. ~Used(c) BY <1>2, <2>6 DEF RegistersSound
  <2>8. TurnAnswers(s, e)
    BY <2>7 DEF TurnAnswers, Used, Pending, ProposalTypes, ProposalsSound, InPlay
  <2>9. TurnSettles(s, e) BY <2>7 DEF TurnSettles, Used
  <2>10. QED BY <2>4, <2>5, <2>8, <2>9, TurnFrames
<1>5. QED BY <1>3, <1>4

\* A new connection was never used.
LEMMA ConnectFrames ==
  ASSUME Ledger, Frames, NEW s \in Sessions, Connect(s)
  PROVE  Frames'
<1> USE DEF Ledger, Frames
<1>1. PICK c \in Conns :
        /\ pi[s].conn = 0 /\ owner[c] = Null /\ owner' = [owner EXCEPT ![c] = s]
        /\ serving' = serving \cup {c} /\ pi' = [pi EXCEPT ![s] = [@ EXCEPT !.conn = c]]
        /\ toGateway' = [toGateway EXCEPT ![c] =
             <<[type |-> "register", activity |-> pi[s].activity]>>]
        /\ UNCHANGED <<stores, coordinator, leases, registry, toPi>>
  BY DEF Connect
<1> DEFINE f == [type |-> "register", activity |-> pi[s].activity]
           e == [pi[s] EXCEPT !.conn = c]
<1>2. /\ pi[s] \in Extensions /\ c # 0 /\ Null \notin Sessions
      /\ toGateway \in [Conns -> Seq(FramesToGateway)]
  BY StoresAssumption DEF WireTypes, Conns
<1>3. f \in FramesToGateway /\ f.type = "register" /\ <<f>> \in Seq(FramesToGateway)
  BY <1>2 DEF FramesToGateway, Extensions
<1>4. e \in Extensions /\ e.conn = c BY <1>2 DEF Extensions
<1> HIDE DEF f, e
<1>5. /\ pi' = [pi EXCEPT ![s] = e] /\ toGateway' = [toGateway EXCEPT ![c] = <<f>>]
  BY <1>1 DEF e, f
<1>6. /\ \A t \in Sessions : t # s => pi'[t] = pi[t]
      /\ pi'[s] = e
      /\ \A k \in Conns : k # c => toGateway'[k] = toGateway[k] /\ owner'[k] = owner[k]
      /\ toGateway'[c] = <<f>> /\ owner'[c] = s
  BY <1>2, <1>5, <1>1 DEF WireTypes
<1>7. ~Used(c)
  BY <1>1, <1>2 DEF Used, ProposalTypes, ProposalsSound, EntryTypes, EntriesSound
<1>8. \A k : Used(k)' = Used(k) BY <1>1 DEF Used, coordinator, leases
<1>9. WireTypes'
  <2>1. /\ toPi' \in [Conns -> Seq(FramesToPi)] /\ toGateway' \in [Conns -> Seq(FramesToGateway)]
        /\ pi' \in [Sessions -> Extensions] /\ owner' \in [Conns -> Sessions \cup {Null}]
    <3>1. toPi' = toPi /\ owner' = [owner EXCEPT ![c] = s] BY <1>1
    <3>2. toPi' \in [Conns -> Seq(FramesToPi)] BY <3>1 DEF WireTypes
    <3>3. owner' \in [Conns -> Sessions \cup {Null}] BY <3>1 DEF WireTypes
    <3>4. toGateway' \in [Conns -> Seq(FramesToGateway)] BY <1>3, <1>5 DEF WireTypes
    <3>5. pi' \in [Sessions -> Extensions] BY <1>4, <1>5 DEF WireTypes
    <3>6. QED BY <3>2, <3>3, <3>4, <3>5
  <2>2. \A k \in serving' : k \in Conns /\ owner'[k] # Null
    BY <1>1, <1>2, <1>6 DEF WireTypes
  <2>3. \A t \in Sessions : pi'[t].conn # 0 => owner'[pi'[t].conn] = t
    <3> SUFFICES ASSUME NEW t \in Sessions, pi'[t].conn # 0 PROVE owner'[pi'[t].conn] = t
      OBVIOUS
    <3>1. CASE t = s BY <1>4, <1>6, <3>1
    <3>2. CASE t # s
      <4>1. pi'[t] = pi[t] /\ pi[t].conn \in Conns /\ owner[pi[t].conn] = t
        BY <1>6, <3>2 DEF WireTypes, Extensions
      <4>2. pi[t].conn # c BY <1>1, <1>2, <4>1
      <4>3. QED BY <1>6, <4>1, <4>2
    <3>3. QED BY <3>1, <3>2
  <2>4. QED BY <2>1, <2>2, <2>3 DEF WireTypes
<1>10. RegistersSound'
  <2> SUFFICES ASSUME NEW k \in Conns PROVE (RegistersSound!(k))' BY DEF RegistersSound
  <2>1. RegistersSound!(k) BY DEF RegistersSound
  <2>2. CASE k = c
    <3>1. toPi'[c] = <<>> BY <1>1 DEF RegistersSound
    <3>2. QED BY <1>2, <1>6, <1>7, <1>8, <2>2, <3>1 DEF RegistersFirst, Without
  <2>3. CASE k # c
    <3>1. toGateway'[k] = toGateway[k] /\ toPi'[k] = toPi[k] /\ owner'[k] = owner[k]
      BY <1>1, <1>6, <2>3
    <3>2. QED BY <1>8, <2>1, <3>1
  <2>4. QED BY <2>2, <2>3
<1>11. \A p, k : Mentioned(p, k)' = Mentioned(p, k) BY <1>1 DEF Mentioned, coordinator
<1>12. MentionsSound'
  <2> SUFFICES ASSUME NEW k \in Conns PROVE (MentionsSound!(k))' BY DEF MentionsSound
  <2>1. MentionsSound!(k) BY DEF MentionsSound
  <2>2. CASE k = c BY <1>1, <1>3, <1>6, <1>11, <2>1, <2>2
  <2>3. CASE k # c BY <1>1, <1>6, <1>11, <2>1, <2>3
  <2>4. QED BY <2>2, <2>3
<1>13. RequestsSound'
  <2> SUFFICES ASSUME NEW p \in Pending' PROVE (RequestsSound!(p))' BY DEF RequestsSound
  <2>1. p \in Pending /\ proposal'[p] = proposal[p] /\ phase' = phase
    BY <1>1 DEF Pending, coordinator
  <2>2. proposal[p].conn # c /\ proposal[p].conn \in Conns /\ proposal[p].session \in Sessions
    BY <1>7, <2>1 DEF Used, Pending, ProposalTypes, ProposalsSound, InPlay
  <2>3. toPi'[proposal[p].conn] = toPi[proposal[p].conn] /\ RequestsSound!(p)
    BY <1>1, <2>1 DEF RequestsSound
  <2>4. Answered(p)' => Answered(p) /\ pi'[proposal[p].session] = pi[proposal[p].session]
    BY <1>4, <1>6, <2>1, <2>2 DEF Answered
  <2>5. QED BY <2>1, <2>3, <2>4
<1>14. OccupantsSound'
  <2> SUFFICES ASSUME NEW x \in Occupants' PROVE OccupantSettled(x)' BY DEF OccupantsSound
  <2>1. x \in Occupants /\ x.session \in Sessions /\ UNCHANGED <<observed, toPi>> /\ Pending' = Pending
        /\ proposal' = proposal /\ phase' = phase
    BY <1>1 DEF Occupants, RowTypes, stores, leases, Pending, coordinator
  <2>2. OccupantSettled(x) BY <2>1 DEF OccupantsSound
  <2> SUFFICES ASSUME observed[x.session] # Null
               PROVE  OccupantSettled(x)'
    BY <2>1 DEF OccupantSettled
  <2>3. observed[x.session].conn # c /\ observed[x.session].conn \in Conns
    BY <1>7, <2>1 DEF Used, EntryTypes, EntryRecords
  <2>4. pi'[x.session].conn = observed[x.session].conn => pi'[x.session] = pi[x.session]
    BY <1>4, <1>6, <2>1, <2>3
  <2>5. toGateway'[observed[x.session].conn] = toGateway[observed[x.session].conn]
    BY <1>6, <2>3
  <2>6. QED BY <2>1, <2>2, <2>4, <2>5 DEF OccupantSettled
<1>15. QED BY <1>9, <1>10, <1>12, <1>13, <1>14

-----------------------------------------------------------------------------
(* The rows and the proposals keep the ledger, and each step of either store is *)
(* a step of the contract. *)

CoordinatorSound == ProposalTypes /\ EntryTypes /\ ProposalsSound /\ EntriesSound
StoresSound == RowTypes /\ RowsSound

-----------------------------------------------------------------------------
(* The proposals and the entries. *)

\* An entry is kept as it was, or renewed with a revision no proposal has.
Renewed(s) == observed'[s].rev > revision /\ observed'[s].rev <= revision'
Forgets ==
  /\ proposal' = proposal /\ late \subseteq late' /\ listed' \subseteq listed
  /\ contexts' \subseteq contexts
  /\ phase' \in [Proposals -> Phases]
  /\ \A p \in Proposals : phase'[p] = phase[p]
       \/ (InPlay(p) /\ phase'[p] \in {"failed", "committed"} /\ p \notin listed')
  /\ \A p \in listed \ listed' :
       \/ phase'[p] # "acknowledged" \/ p \notin contexts'
       \/ observed'[proposal[p].session] # Null => Renewed(proposal[p].session)
Renews ==
  /\ DOMAIN observed' = Sessions
  /\ \A s \in Sessions : observed'[s] # Null =>
       /\ observed'[s] \in EntryRecords
       /\ \/ /\ observed[s] # Null
             /\ observed'[s].conn = observed[s].conn /\ observed'[s].rev = observed[s].rev
          \/ Renewed(s) /\ owner[observed'[s].conn] = s
  /\ revision' \in Nat /\ revision <= revision'
  /\ \A c \in Conns : owner[c] # Null => owner'[c] = owner[c]
  /\ \A s \in Sessions \cap fences' : s \in fences \/ observed'[s] = Null
  /\ \A s \in Sessions \cap fences' : observed[s] = Null => observed'[s] = Null

\* Proposals are only decided or forgotten, entries only renewed or dropped.
LEMMA CoordinatorKept ==
  ASSUME CoordinatorSound, Forgets, Renews
  PROVE  CoordinatorSound'
<1> USE DEF CoordinatorSound
<1>1. /\ \A p \in listed' : p \in listed /\ phase'[p] = phase[p] /\ p \in Proposals
      /\ \A p \in Proposals : InPlay(p)' => InPlay(p)
      /\ \A p \in Proposals : phase'[p] # "unused" => phase[p] # "unused"
      /\ proposal' = proposal
  BY DEF Forgets, ProposalTypes, ProposalsSound, InPlay
<1>2. \A p \in Proposals : phase[p] # "unused" =>
        /\ proposal[p].session \in Sessions /\ proposal[p].conn \in Conns
        /\ proposal[p].rev \in Nat /\ proposal[p].session # Null
  BY StoresAssumption DEF ProposalTypes
<1>3. ProposalTypes' BY <1>1 DEF ProposalTypes, Forgets
<1>4. \A s \in Sessions : observed'[s] # Null => observed'[s] \in EntryRecords BY DEF Renews
<1>5. EntryTypes' BY <1>4 DEF EntryTypes, Renews
<1>6. \A s \in Sessions : observed'[s] # Null => observed'[s].rev \in Nat /\ observed'[s].conn \in Conns
  BY <1>4 DEF EntryRecords
<1>7. revision \in Nat /\ revision' \in Nat /\ revision <= revision' BY DEF EntryTypes, Renews
<1>8. EntriesSound'
  <2>1. ASSUME NEW s \in Sessions, observed'[s] # Null
        PROVE observed'[s].rev <= revision' /\ owner'[observed'[s].conn] = s
    <3>1. owner[observed'[s].conn] = s /\ observed'[s].rev <= revision'
      BY <1>6, <1>7, <2>1 DEF Renews, EntriesSound, Renewed
    <3>2. s # Null BY StoresAssumption
    <3>3. QED BY <1>6, <2>1, <3>1, <3>2 DEF Renews
  <2>2. \A s \in fences' \cap Sessions : observed'[s] = Null
    BY DEF Renews, EntriesSound
  <2>3. QED BY <2>1, <2>2 DEF EntriesSound
<1>9. ASSUME NEW p \in Proposals, Viable(p)' PROVE p \in listed'
  <2> DEFINE s == proposal[p].session
  <2>1. /\ phase'[p] = "acknowledged" /\ p \in contexts' /\ p \notin late' /\ observed'[s] # Null
        /\ observed'[s].conn = proposal[p].conn /\ observed'[s].rev = proposal[p].rev
    BY <1>1, <1>9 DEF Viable
  <2>2. phase[p] = "acknowledged" /\ p \in contexts /\ p \notin late
    BY <2>1 DEF Forgets
  <2>3. proposal[p].rev <= revision /\ s \in Sessions
    BY <1>2, <2>2 DEF ProposalsSound, InPlay
  <2>4. ~Renewed(s) BY <1>2, <1>6, <1>7, <2>1, <2>2, <2>3 DEF Renewed
  <2>5. observed[s] # Null /\ observed'[s].conn = observed[s].conn /\ observed'[s].rev = observed[s].rev
    BY <2>1, <2>3, <2>4 DEF Renews
  <2>6. p \in listed BY <2>1, <2>2, <2>5 DEF Viable, ProposalsSound
  <2>7. QED BY <2>1, <2>4, <2>6 DEF Forgets
<1>10. ProposalsSound'
  <2>1. \A p \in listed' : InPlay(p)' BY <1>1 DEF ProposalsSound, InPlay
  <2>2. \A p \in Proposals : InPlay(p)' => (proposal[p].rev <= revision)'
    <3> SUFFICES ASSUME NEW p \in Proposals, InPlay(p)' PROVE proposal'[p].rev <= revision'
      OBVIOUS
    <3>1. InPlay(p) /\ phase[p] # "unused" BY <1>1 DEF InPlay
    <3>2. QED BY <1>1, <1>2, <1>7, <3>1 DEF ProposalsSound
  <2>3. \A p \in Proposals : phase'[p] # "unused" => (owner[proposal[p].conn] = proposal[p].session)'
    BY <1>1, <1>2 DEF Renews, ProposalsSound
  <2>4. \A p, q \in Pending' : proposal'[p].session = proposal'[q].session => p = q
    BY <1>1 DEF Pending, Forgets, ProposalsSound
  <2>5. QED BY <1>9, <2>1, <2>2, <2>3, <2>4 DEF ProposalsSound
<1>11. QED BY <1>3, <1>5, <1>8, <1>10

\* Steps that drop proposals and entries, at the same revisions.
LEMMA ShrinksKeeps ==
  ASSUME CoordinatorSound, Shrinks, QuietRegistry
  PROVE  CoordinatorSound'
<1>1. Forgets BY DEF Shrinks, Forgets
<1>2. Renews
  BY DEF Shrinks, QuietRegistry, Renews, CoordinatorSound, EntriesSound
<1>3. QED BY <1>1, <1>2, CoordinatorKept

\* A renewed entry has a revision no proposal has.
LEMMA LifecycleKeeps ==
  ASSUME Ledger, Frames, NEW c \in Conns, HandleLifecycle(c)
  PROVE  CoordinatorSound'
<1> USE DEF Ledger, Frames
<1> DEFINE s == owner[c]
<1>1. Shrinks /\ Handles(c, {"lifecycle"}) /\ Handled(c) /\ owner' = owner
  BY LifecycleFrames DEF HandleLifecycle
<1>2. CASE Reject(c)
  <2>1. UNCHANGED <<coordinator, observed, revision, fences, owner>>
    BY <1>1, <1>2 DEF Reject, stores, leases, registry
  <2>2. QED BY <2>1, Still, ShrinksKeeps DEF CoordinatorSound
<1>3. CASE ~Reject(c)
  <2>1. /\ observed[s] # Null /\ observed[s].conn = c /\ revision' = revision + 1
        /\ observed' = [observed EXCEPT ![s] =
             UpdatedEntry(@, revision + 1, Head(toGateway[c]).activity)]
        /\ fences' = fences
    BY <1>3 DEF HandleLifecycle, stores
  <2>2. s \in Sessions /\ Head(toGateway[c]) \in FramesToGateway
        /\ Head(toGateway[c]).type = "lifecycle"
    BY <1>1, HandledFrom DEF Handles
  <2>3. Head(toGateway[c]).activity \in Activities BY <2>2 DEF FramesToGateway
  <2>4. observed[s] \in EntryRecords /\ revision \in Nat BY <2>1, <2>2 DEF EntryTypes
  <2> DEFINE entry == UpdatedEntry(observed[s], revision + 1, Head(toGateway[c]).activity)
  <2>5. entry.conn = c /\ entry.rev = revision + 1
    BY <2>1, <2>3, <2>4, UpdatedRecord
  <2>6. /\ observed'[s] = entry /\ \A k \in Sessions : k # s => observed'[k] = observed[k]
    BY <2>1, <2>2 DEF EntryTypes
  <2> HIDE DEF entry
  <2>7. Forgets BY <1>1 DEF Shrinks, Forgets
  <2>8. \A k \in Sessions : observed'[k] # Null =>
          /\ observed'[k] \in EntryRecords
          /\ \/ /\ observed[k] # Null
                /\ observed'[k].conn = observed[k].conn /\ observed'[k].rev = observed[k].rev
             \/ Renewed(k) /\ owner[observed'[k].conn] = k
    BY <1>1, <2>1, <2>4, <2>5, <2>6 DEF Shrinks, Renewed
  <2>9. Renews
    BY <1>1, <2>1, <2>4, <2>6, <2>8 DEF Shrinks, Renews, EntriesSound
  <2>10. QED BY <2>7, <2>9, CoordinatorKept DEF CoordinatorSound
<1>4. QED BY <1>2, <1>3

\* A session that registers gets a revision no proposal has.
LEMMA ObservesKeeps ==
  ASSUME Ledger, Frames, NEW c \in Conns, Observes(c)
  PROVE  CoordinatorSound'
<1> USE DEF Ledger, Frames
<1> DEFINE s == owner[c]
<1>1. /\ Handles(c, {"register"}) /\ Handled(c) /\ s \notin fences /\ revision' = revision + 1
      /\ Invalidate(PendingOf(s))
      /\ UNCHANGED <<fences, proposal, late, contexts, owner>>
  BY DEF Observes, stores
<1>2. PICK a \in Activities : observed' = [observed EXCEPT ![s] = ObservedEntry(c, revision + 1, a)]
  BY DEF Observes
<1>3. s \in Sessions BY <1>1, HandledFrom
<1>4. revision \in Nat BY DEF EntryTypes
<1> DEFINE entry == ObservedEntry(c, revision + 1, a)
<1>5. entry \in EntryRecords /\ entry.conn = c /\ entry.rev = revision + 1
  BY <1>4 DEF ObservedEntry, EntryRecords
<1>6. /\ DOMAIN observed' = Sessions /\ observed'[s] = entry
      /\ \A k \in Sessions : k # s => observed'[k] = observed[k]
  BY <1>2, <1>3 DEF EntryTypes
<1> HIDE DEF entry
<1>7. Renewed(s) BY <1>1, <1>4, <1>5, <1>6 DEF Renewed
<1>8. Renews
  <2>1. \A k \in Sessions : observed'[k] # Null =>
          /\ observed'[k] \in EntryRecords
          /\ \/ /\ observed[k] # Null
                /\ observed'[k].conn = observed[k].conn /\ observed'[k].rev = observed[k].rev
             \/ Renewed(k) /\ owner[observed'[k].conn] = k
    BY <1>3, <1>5, <1>6, <1>7 DEF EntryTypes
  <2>2. QED BY <1>1, <1>3, <1>4, <1>6, <2>1 DEF Renews, EntriesSound
<1>9. PendingOf(s) \subseteq listed /\ \A p \in PendingOf(s) : proposal[p].session = s BY DEF PendingOf
<1>10. listed' = listed \ PendingOf(s)
       /\ phase' = [p \in Proposals |->
            IF p \in PendingOf(s) /\ phase[p] # "acknowledged" THEN "failed" ELSE phase[p]]
  BY <1>1 DEF Invalidate
<1>11. phase' \in [Proposals -> Phases]
       /\ \A p \in Proposals : phase'[p] = phase[p]
            \/ (InPlay(p) /\ phase'[p] \in {"failed", "committed"} /\ p \notin listed')
  BY <1>9, <1>10 DEF ProposalTypes, ProposalsSound, Phases
<1>12. Forgets
  BY <1>1, <1>7, <1>9, <1>10, <1>11 DEF Forgets
<1>13. QED BY <1>8, <1>12, CoordinatorKept DEF CoordinatorSound

\* The dialogue of one listed proposal advances.
LEMMA AdvanceKeeps ==
  ASSUME CoordinatorSound, NEW p \in listed, NEW next \in {"authorized", "acknowledged"},
         phase' = [phase EXCEPT ![p] = next], contexts' \subseteq contexts \cup {p},
         UNCHANGED <<proposal, late, listed, observed, revision, fences, owner>>
  PROVE  CoordinatorSound'
<1> USE DEF CoordinatorSound
<1>1. p \in Proposals /\ InPlay(p) /\ phase'[p] = next
      /\ \A q \in Proposals : q # p => phase'[q] = phase[q]
  BY DEF ProposalTypes, ProposalsSound
<1>2. ProposalTypes' BY <1>1 DEF ProposalTypes, Phases, InPlay
<1>3. EntryTypes' /\ EntriesSound' BY DEF EntryTypes, EntriesSound
<1>4. \A q \in Proposals : InPlay(q)' => InPlay(q) BY <1>1 DEF InPlay
<1>5. \A q \in Proposals : phase'[q] # "unused" => phase[q] # "unused" BY <1>1 DEF InPlay
<1>6. \A q \in listed : InPlay(q)' BY <1>1 DEF InPlay, ProposalsSound, ProposalTypes
<1>7. \A q \in Proposals : Viable(q)' => q \in listed BY <1>1 DEF Viable, ProposalsSound
<1>8. ProposalsSound'
  <2>1. Pending' = Pending BY DEF Pending
  <2>2. QED BY <1>4, <1>5, <1>6, <1>7, <2>1 DEF ProposalsSound
<1>9. QED BY <1>2, <1>3, <1>8

\* A new proposal has the revision of its entry, and the only pending one of its
\* session is the new one.
LEMMA ProposesKeeps ==
  ASSUME Ledger, NEW n, NEW s \in Sessions, NEW r \in Roles, Proposes(n, s, r)
  PROVE  CoordinatorSound'
<1> USE DEF Ledger
<1>1. /\ n \in Proposals /\ phase[n] = "unused" /\ observed[s] # Null /\ PendingOf(s) \subseteq late
      /\ proposal' = [proposal EXCEPT ![n] = ProposalFor(s, r)]
      /\ phase' = [p \in Proposals |->
           IF p = n THEN "proposed"
           ELSE IF p \in PendingOf(s) /\ phase[p] # "acknowledged" THEN "failed" ELSE phase[p]]
      /\ listed' = (listed \ PendingOf(s)) \cup {n}
      /\ UNCHANGED <<fences, late, contexts, observed, revision, owner>>
  BY DEF Proposes, stores, leases, registry, wire
<1>2. observed[s] \in EntryRecords /\ observed[s].rev <= revision /\ owner[observed[s].conn] = s
  BY <1>1 DEF EntryTypes, EntriesSound
<1> DEFINE new == ProposalFor(s, r)
<1>3. /\ new \in [session : Sessions, role : Roles, conn : Conns, rev : Nat]
      /\ new.session = s /\ new.conn = observed[s].conn /\ new.rev = observed[s].rev
  BY <1>2 DEF ProposalFor, EntryRecords
<1> HIDE DEF new
<1>4. /\ DOMAIN proposal' = Proposals /\ proposal'[n] = new
      /\ \A q \in Proposals : q # n => proposal'[q] = proposal[q]
      /\ phase'[n] = "proposed" /\ n \notin listed
  BY <1>1 DEF ProposalTypes, ProposalsSound, InPlay, new
<1>5. \A q \in PendingOf(s) : q \in listed /\ proposal[q].session = s BY DEF PendingOf
<1>6. \A q \in Proposals : q # n =>
        phase'[q] = phase[q] \/ (InPlay(q) /\ phase'[q] = "failed" /\ q \in PendingOf(s))
  BY <1>1, <1>5 DEF ProposalsSound
<1>7. phase' \in [Proposals -> Phases] BY <1>1 DEF ProposalTypes, Phases
<1>8. ProposalTypes'
  <2>1. \A q \in Proposals : phase'[q] # "unused" =>
          proposal'[q] \in [session : Sessions, role : Roles, conn : Conns, rev : Nat]
    BY <1>3, <1>4, <1>6 DEF ProposalTypes, InPlay
  <2>2. listed' \subseteq Proposals BY <1>1 DEF ProposalTypes
  <2>3. QED BY <1>4, <1>7, <2>1, <2>2 DEF ProposalTypes
<1>9. EntryTypes' /\ EntriesSound' BY <1>1 DEF EntryTypes, EntriesSound
<1>10. \A q \in listed' : InPlay(q)'
  BY <1>1, <1>4, <1>6 DEF InPlay, ProposalsSound, ProposalTypes
<1>11. \A q \in Proposals : InPlay(q)' => proposal'[q].rev <= revision'
  BY <1>1, <1>2, <1>3, <1>4, <1>6 DEF InPlay, ProposalsSound
<1>12. \A q \in Proposals : phase'[q] # "unused" => owner'[proposal'[q].conn] = proposal'[q].session
  BY <1>1, <1>2, <1>3, <1>4, <1>6 DEF InPlay, ProposalsSound
<1>13. \A q \in Pending' : q # n =>
         q \in Pending /\ q \in Proposals /\ proposal'[q] = proposal[q] /\ proposal[q].session # s
  BY <1>1, <1>4 DEF Pending, PendingOf, ProposalTypes
<1>14. \A q, k \in Pending' : proposal'[q].session = proposal'[k].session => q = k
  BY <1>3, <1>4, <1>13 DEF ProposalsSound
<1>15. ASSUME NEW q \in Proposals, Viable(q)' PROVE q \in listed'
  <2>1. q # n BY <1>4, <1>15 DEF Viable
  <2>2. Viable(q) BY <1>1, <1>4, <1>6, <1>15, <2>1 DEF Viable
  <2>3. q \in listed /\ q \notin late BY <2>2 DEF ProposalsSound, Viable
  <2>4. QED BY <1>1, <2>3
<1>16. QED BY <1>8, <1>9, <1>10, <1>11, <1>12, <1>14, <1>15 DEF CoordinatorSound, ProposalsSound

\* A crash leaves no proposal in play and no entry.
LEMMA CrashKeeps ==
  ASSUME Ledger, CrashGateway
  PROVE  CoordinatorSound'
<1> USE DEF Ledger
<1>1. /\ phase' = [p \in Proposals |->
           IF phase[p] \in {"proposed", "authorized", "acknowledged"} THEN "failed" ELSE phase[p]]
      /\ listed' = {} /\ observed' = [s \in Sessions |-> Null] /\ revision' = 0
      /\ UNCHANGED <<proposal, owner>>
  BY DEF CrashGateway
<1>2. \A p \in Proposals : ~InPlay(p)' /\ (phase'[p] # "unused" => phase[p] # "unused")
  BY <1>1 DEF InPlay
<1>3. ProposalTypes' BY <1>1, <1>2 DEF ProposalTypes, Phases
<1>4. EntryTypes' /\ EntriesSound' BY <1>1 DEF EntryTypes, EntriesSound
<1>5. ProposalsSound'
  BY <1>1, <1>2 DEF ProposalsSound, Pending, Viable, InPlay
<1>6. QED BY <1>3, <1>4, <1>5 DEF CoordinatorSound
-----------------------------------------------------------------------------
(* The rows. *)

RowsKept == UNCHANGED <<adopted, replacements, retired, fences>>

\* A proposal that is committed stays so.
LEMMA RowsStay ==
  ASSUME Ledger, RowsKept,
         \A p \in Proposals : phase[p] = "committed" => phase'[p] = "committed"
  PROVE  StoresSound' /\ UNCHANGED <<RetainedRuns, fences>>
<1>1. /\ Occupants' = Occupants /\ RetiredRuns' = RetiredRuns
      /\ \A r : RetiredOf(r)' = RetiredOf(r)
  BY DEF RowsKept, Occupants, RetiredRuns, RetiredOf
<1>2. RowTypes' BY <1>1 DEF RowsKept, Ledger, RowTypes
<1>3. RowsSound'
  <2>1. \A x \in Occupants : phase'[x.run] = "committed" BY DEF Ledger, RowTypes, RowsSound
  <2>2. QED BY <1>1, <2>1 DEF RowsKept, Ledger, RowsSound
<1>4. UNCHANGED <<RetainedRuns, fences>> BY <1>1 DEF RowsKept, RetainedRuns
<1>5. QED BY <1>2, <1>3, <1>4 DEF StoresSound

\* The row of a run is its only one, and a tombstone is of a run that has one.
LEMMA OneRow ==
  ASSUME Ledger
  PROVE  /\ \A x, y \in Occupants : x.run = y.run => x = y
         /\ \A t \in retired : \E x \in Occupants :
              x.run = t.run /\ x.session = t.session /\ x.role = t.role
         /\ \A n \in RetiredRuns : \E t \in retired : t.run = n
         /\ \A t \in retired : t.run \in RetiredRuns
  BY DEF Ledger, RowsSound, Occupants, RetiredRuns

\* What the contract sees of a row.
Retained(x, predecessor) ==
  [run |-> x.run, session |-> x.session, role |-> x.role, predecessor |-> predecessor,
   retired |-> x.run \in RetiredRuns]

\* The records the contract sees, before and after a step.
LEMMA Retention ==
  /\ RetainedRuns = {Retained(x, Null) : x \in adopted}
                      \cup {Retained(x, x.predecessor) : x \in replacements}
  /\ RetainedRuns' = {Retained(x, Null)' : x \in adopted'}
                       \cup {Retained(x, x.predecessor)' : x \in replacements'}
  BY DEF RetainedRuns, Retained

\* The fields of one record.
LEMMA RetainedRow ==
  ASSUME NEW o, NEW n
  PROVE  LET x == Retained(o, n) IN
         /\ x.run = o.run /\ x.session = o.session /\ x.role = o.role /\ x.predecessor = n
         /\ x.retired <=> o.run \in RetiredRuns
  BY DEF Retained

\* The records and the rows correspond.
LEMMA RetainedRows ==
  /\ \A x \in RetainedRuns : \E o \in Occupants :
       /\ x.run = o.run /\ x.session = o.session /\ x.role = o.role
       /\ x.retired <=> o.run \in RetiredRuns
  /\ \A o \in Occupants : \E x \in RetainedRuns : x.run = o.run /\ x.role = o.role
  BY Retention, RetainedRow DEF Occupants

\* The first occupant of a Role, and the successor in a vacated one.
LEMMA CommitRows ==
  ASSUME Ledger, Frames, NEW p \in Proposals, CommitAcknowledged(p)
  PROVE  StoresSound' /\ Contract!Next
<1> USE DEF Ledger
<1> DEFINE s == proposal[p].session
           r == proposal[p].role
<1>1. /\ phase[p] = "acknowledged" /\ CommitChecks(p) /\ Insertion(p)
      /\ phase' = [phase EXCEPT ![p] = "committed"]
  BY DEF CommitAcknowledged
<1>2. /\ s \in Sessions /\ r \in Roles /\ observed[s] # Null /\ ~RoleOccupied(r)
  BY <1>1 DEF CommitChecks, CurrentIdentity, Eligible, BindingCommitted, ProposalTypes
<1>3. s \notin fences BY <1>2 DEF EntriesSound
<1>4. \A x \in Occupants : x.session # s /\ x.run # p
  BY <1>1, CommitFrames DEF RowsSound
<1>5. p \notin RetiredRuns BY <1>4, OneRow
<1>6. UNCHANGED <<retired, fences>> /\ RetiredRuns' = RetiredRuns /\ \A k : RetiredOf(k)' = RetiredOf(k)
  BY <1>1 DEF Insertion, CommitAdoption, CommitReplacementAdoption, RetiredRuns, RetiredOf
<1>7. \A x \in Occupants : phase'[x.run] = "committed"
  BY <1>1 DEF RowTypes, RowsSound, ProposalTypes
<1>8. phase'[p] = "committed" BY <1>1 DEF ProposalTypes
<1>9. \A x \in RetainedRuns : x.run # p /\ x.session # s
  BY <1>4 DEF RetainedRuns, Occupants
<1>10. CASE ~Vacated(r)
  <2> DEFINE new == [run |-> p, session |-> s, role |-> r]
  <2>1. /\ \A x \in adopted : x.run # p /\ x.session # s /\ x.role # r
        /\ adopted' = adopted \cup {new} /\ UNCHANGED <<replacements>>
    BY <1>1, <1>10 DEF Insertion, CommitAdoption, Insertable
  <2>2. RetiredOf(r) = {} BY <1>2, <1>10 DEF RoleOccupied, Vacated
  <2>3. \A x \in replacements : x.role # r
    <3> SUFFICES ASSUME NEW x \in replacements, x.role = r PROVE FALSE
      OBVIOUS
    <3>1. x.run \in RetiredRuns BY <1>2 DEF RoleOccupied, RoleVacant, Live
    <3>2. PICK t \in retired : t.run = x.run BY <3>1, OneRow
    <3>3. t.role = x.role BY <3>2, OneRow DEF Occupants
    <3>4. QED BY <2>2, <3>3 DEF RetiredOf
  <2>4. RowTypes' BY <1>2, <2>1 DEF RowTypes, Occupants
  <2>5. RowsSound'
    <3>1. \A x, y \in adopted' : x.run = y.run \/ x.role = y.role => x = y
      BY <2>1 DEF RowsSound
    <3>2. \A x \in adopted', y \in replacements : x.run # y.run
      BY <1>4, <2>1 DEF RowsSound, Occupants
    <3>3. \A x \in Occupants' : phase'[x.run] = "committed"
      BY <1>7, <1>8, <2>1 DEF Occupants
    <3>4. \A t \in retired : \E x \in Occupants' :
            x.run = t.run /\ x.session = t.session /\ x.role = t.role
      BY <2>1 DEF RowsSound, Occupants
    <3>5. \A x \in adopted' : x.run \notin RetiredRuns =>
            RetiredOf(x.role) = {} /\ \A y \in replacements : y.role # x.role
      BY <2>1, <2>2, <2>3 DEF RowsSound
    <3>6. QED BY <1>6, <2>1, <3>1, <3>2, <3>3, <3>4, <3>5 DEF RowsSound
  <2>6. RetainedRuns' = RetainedRuns \cup {Retained(new, Null)}
    <3>1. \A x : Retained(x, Null)' = Retained(x, Null) /\ Retained(x, x.predecessor)' = Retained(x, x.predecessor)
      BY <1>6 DEF Retained
    <3>2. QED BY <2>1, <3>1, Retention
  <2>7. Retained(new, Null) =
          [run |-> p, session |-> s, role |-> r, predecessor |-> Null, retired |-> FALSE]
    <3>1. (p \in RetiredRuns) = FALSE BY <1>5
    <3>2. QED BY <3>1 DEF Retained
  <2>8. Contract!RunsOf(r) = {} BY <2>1, <2>3 DEF Contract!RunsOf, RetainedRuns
  <2>9. Contract!Adopt(p, s, r, Null)
    BY <1>3, <1>6, <1>9, <2>6, <2>7, <2>8 DEF Contract!Adopt
  <2>10. QED BY <1>2, <2>4, <2>5, <2>9 DEF StoresSound, Contract!Next
<1>11. CASE Vacated(r)
  <2> DEFINE vacancy == RetirementVacancy(r)
             new == [run |-> p, session |-> s, role |-> r,
                     predecessor |-> vacancy.predecessor, generation |-> vacancy.generation]
  <2>1. /\ ReplacementAdmitted(r, vacancy)
        /\ replacements' = replacements \cup {new} /\ UNCHANGED <<adopted>>
    BY <1>1, <1>11 DEF Insertion, CommitReplacementAdoption, ReplacementInsertable
  <2>2. \A x \in replacements : x.role # r BY <2>1 DEF ReplacementAdmitted
  <2>3. PICK t \in retired : t.run = vacancy.predecessor /\ t.role = r
    BY <2>1 DEF ReplacementAdmitted
  <2>4. PICK o \in Occupants : o.run = t.run /\ o.role = r BY <2>3, OneRow
  <2>5. vacancy.predecessor \in Proposals BY <2>3, <2>4 DEF RowTypes
  <2>6. \A x \in adopted : x.role = r => x.run \in RetiredRuns
    BY <2>3 DEF RowsSound, RetiredOf
  <2> HIDE DEF vacancy
  <2>7. RowTypes' BY <1>2, <2>1, <2>5 DEF RowTypes, Occupants
  <2>8. RowsSound'
    <3>1. \A x, y \in replacements' : x.run = y.run \/ x.role = y.role => x = y
      BY <1>4, <2>1, <2>2 DEF RowsSound, Occupants
    <3>2. \A x \in adopted, y \in replacements' : x.run # y.run
      BY <1>4, <2>1 DEF RowsSound, Occupants
    <3>3. \A x \in Occupants' : phase'[x.run] = "committed"
      BY <1>7, <1>8, <2>1 DEF Occupants
    <3>4. \A u \in retired : \E x \in Occupants' :
            x.run = u.run /\ x.session = u.session /\ x.role = u.role
      BY <2>1 DEF RowsSound, Occupants
    <3>5. \A x \in adopted : x.run \notin RetiredRuns =>
            RetiredOf(x.role) = {} /\ \A y \in replacements' : y.role # x.role
      BY <2>1, <2>6 DEF RowsSound
    <3>6. QED BY <1>6, <2>1, <3>1, <3>2, <3>3, <3>4, <3>5 DEF RowsSound
  <2>9. RetainedRuns' = RetainedRuns \cup {Retained(new, vacancy.predecessor)}
    <3>1. \A x : Retained(x, Null)' = Retained(x, Null) /\ Retained(x, x.predecessor)' = Retained(x, x.predecessor)
      BY <1>6 DEF Retained
    <3>2. new.predecessor = vacancy.predecessor OBVIOUS
    <3>3. QED BY <2>1, <3>1, <3>2, Retention
  <2>10. Retained(new, vacancy.predecessor) =
           [run |-> p, session |-> s, role |-> r, predecessor |-> vacancy.predecessor,
            retired |-> FALSE]
    <3>1. (p \in RetiredRuns) = FALSE BY <1>5
    <3>2. QED BY <3>1 DEF Retained
  <2>11. \A x \in Contract!RunsOf(r) : x.retired
    BY <2>2, <2>6, RetainedRows DEF Contract!RunsOf, Occupants
  <2>12. \E x \in Contract!RunsOf(r) : vacancy.predecessor = x.run
    <3>1. PICK x \in RetainedRuns : x.run = o.run /\ x.role = o.role BY RetainedRows
    <3>2. QED BY <2>3, <2>4, <3>1 DEF Contract!RunsOf
  <2>13. Contract!Adopt(p, s, r, vacancy.predecessor)
    BY <1>3, <1>6, <1>9, <2>9, <2>10, <2>11, <2>12 DEF Contract!Adopt
  <2>14. QED BY <1>2, <2>5, <2>7, <2>8, <2>13 DEF StoresSound, Contract!Next
<1>12. QED BY <1>10, <1>11

\* A row is in one table only, and the contract sees one record of it.
Seen(o) == Retained(o, IF o \in adopted THEN Null ELSE o.predecessor)

\* The records, row by row, while rows are only deleted.
LEMMA SeenRows ==
  ASSUME Ledger
  PROVE  /\ RetainedRuns = {Seen(o) : o \in Occupants}
         /\ adopted' \subseteq adopted /\ replacements' \subseteq replacements =>
              RetainedRuns' = {Seen(o)' : o \in Occupants'}
<1>1. \A o \in replacements : o \notin adopted BY DEF Ledger, RowsSound
<1>2. RetainedRuns = {Seen(o) : o \in Occupants} BY <1>1, Retention DEF Seen, Occupants
<1>3. ASSUME adopted' \subseteq adopted, replacements' \subseteq replacements
      PROVE  RetainedRuns' = {Seen(o)' : o \in Occupants'}
  <2>1. \A o \in replacements' : o \notin adopted' BY <1>1, <1>3
  <2>2. QED BY <2>1, Retention DEF Seen, Occupants
<1>4. QED BY <1>2, <1>3

\* The record of a run that is retired.
LEMMA RetiredRecord ==
  ASSUME NEW n, NEW s, NEW r, NEW m, NEW b, NEW q, NEW u,
         q = [run |-> n, session |-> s, role |-> r, predecessor |-> m, retired |-> TRUE],
         u = [[run |-> n, session |-> s, role |-> r, predecessor |-> m, retired |-> b]
                EXCEPT !.retired = TRUE]
  PROVE  q = u
<1>1. ASSUME NEW c, NEW v, NEW w,
             v = [run |-> n, session |-> s, role |-> r, predecessor |-> m, retired |-> c],
             w = [[run |-> n, session |-> s, role |-> r, predecessor |-> m, retired |-> b]
                    EXCEPT !.retired = c]
      PROVE  v = w
  BY <1>1
<1>2. PICK c : c = TRUE OBVIOUS
<1>3. q = [run |-> n, session |-> s, role |-> r, predecessor |-> m, retired |-> c] BY <1>2, Zenon
<1>4. u = [[run |-> n, session |-> s, role |-> r, predecessor |-> m, retired |-> b]
             EXCEPT !.retired = c]
  BY <1>2, Zenon
<1>5. QED BY <1>1, <1>3, <1>4

\* Retirement is the retirement of the contract.
LEMMA RetireRows ==
  ASSUME Ledger, NEW x \in Occupants, RetireAgentRun(x)
  PROVE  StoresSound' /\ Contract!Next
<1> USE DEF Ledger
<1> DEFINE t == [run |-> x.run, session |-> x.session, role |-> x.role,
                 at |-> CurrentVacancyGeneration(x.role)]
<1>1. /\ x.run \notin RetiredRuns /\ retired' = retired \cup {t}
      /\ UNCHANGED <<adopted, replacements, fences, phase>>
  BY DEF RetireAgentRun, CommitRetirement
<1>2. t.run = x.run /\ t.session = x.session /\ t.role = x.role OBVIOUS
<1> HIDE DEF t
<1>3. Occupants' = Occupants BY <1>1 DEF Occupants
<1>4. \A n : n \in RetiredRuns' <=> n \in RetiredRuns \/ n = x.run
  BY <1>1, <1>2 DEF RetiredRuns
<1>5. RowTypes' BY <1>1, <1>3 DEF RowTypes
<1>6. RowsSound'
  <2>1. \A u \in retired' : \E o \in Occupants :
          o.run = u.run /\ o.session = u.session /\ o.role = u.role
    BY <1>1, <1>2 DEF RowsSound
  <2>2. \A u, v \in retired' : u.run = v.run => u = v
    BY <1>1, <1>2, OneRow DEF RowsSound
  <2>3. ASSUME NEW y \in adopted, y.run \notin RetiredRuns'
        PROVE  RetiredOf(y.role)' = {} /\ \A z \in replacements : z.role # y.role
    <3>1. /\ RetiredOf(y.role) = {} /\ \A z \in replacements : z.role # y.role
          /\ y.run # x.run
      BY <1>4, <2>3 DEF RowsSound
    <3>2. x.role # y.role BY <3>1 DEF RowsSound, Occupants
    <3>3. QED BY <1>1, <1>2, <3>1, <3>2 DEF RetiredOf
  <2>4. QED BY <1>1, <1>3, <2>1, <2>2, <2>3 DEF RowsSound
<1>7. \A o \in Occupants : o # x => Seen(o)' = Seen(o) /\ Seen(o).run # x.run
  BY <1>1, <1>4, OneRow, RetainedRow DEF Seen, Retained
<1>8. Seen(x)' = [Seen(x) EXCEPT !.retired = TRUE]
  <2>1. (x.run \in RetiredRuns') = TRUE BY <1>4
  <2> DEFINE n == IF x \in adopted THEN Null ELSE x.predecessor
  <2>2. n' = n BY <1>1
  <2> HIDE DEF n
  <2>3. Retained(x, n) = [run |-> x.run, session |-> x.session, role |-> x.role,
                          predecessor |-> n, retired |-> x.run \in RetiredRuns]
    BY DEF Retained
  <2>4. Retained(x, n)' = [run |-> x.run, session |-> x.session, role |-> x.role,
                           predecessor |-> n, retired |-> TRUE]
    BY <2>1, <2>2 DEF Retained
  <2>5. PICK b : b = (x.run \in RetiredRuns) OBVIOUS
  <2>6. Retained(x, n) = [run |-> x.run, session |-> x.session, role |-> x.role,
                          predecessor |-> n, retired |-> b]
    BY <2>3, <2>5, Zenon
  <2>7. PICK q, u : q = Retained(x, n)' /\ u = [Retained(x, n) EXCEPT !.retired = TRUE] OBVIOUS
  <2>8. u = [[run |-> x.run, session |-> x.session, role |-> x.role, predecessor |-> n,
              retired |-> b] EXCEPT !.retired = TRUE]
    BY <2>6, <2>7, Zenon
  <2>9. q = u BY <2>4, <2>7, <2>8, RetiredRecord, Zenon
  <2>10. QED BY <2>7, <2>9, Zenon DEF Seen, n
<1>9. Seen(x) \in RetainedRuns /\ ~Seen(x).retired /\ Seen(x).run = x.run
  BY <1>1, SeenRows, RetainedRow DEF Seen
<1>10. RetainedRuns' = (RetainedRuns \ {Seen(x)}) \cup {[Seen(x) EXCEPT !.retired = TRUE]}
  <2>1. RetainedRuns = {Seen(o) : o \in Occupants} /\ RetainedRuns' = {Seen(o)' : o \in Occupants}
    BY <1>1, <1>3, SeenRows
  <2>2. QED BY <1>7, <1>8, <1>9, <2>1
<1>11. Contract!Retire(Seen(x)) BY <1>1, <1>9, <1>10 DEF Contract!Retire
<1>12. QED BY <1>5, <1>6, <1>9, <1>11 DEF StoresSound, Contract!Next

\* A purge is the purge of the contract.
LEMMA PurgeRows ==
  ASSUME Ledger, NEW t \in retired, PurgeRetiredAgentRun(t)
  PROVE  StoresSound' /\ Contract!Next
<1> USE DEF Ledger
<1>1. /\ \A y \in replacements : y.predecessor # t.run
      /\ fences' = fences \cup {t.session}
      /\ adopted' = {y \in adopted : y.run # t.run}
      /\ replacements' = {y \in replacements : y.run # t.run}
      /\ retired' = retired \ {t} /\ phase' = phase
  BY DEF PurgeRetiredAgentRun, PurgeRetiredRun
<1>2. PICK x \in Occupants : x.run = t.run /\ x.session = t.session /\ x.role = t.role
  BY OneRow
<1>3. /\ Occupants' = Occupants \ {x}
      /\ \A o \in Occupants : o # x => o.run # t.run
  BY <1>1, <1>2, OneRow DEF Occupants
<1>4. \A n : n \in RetiredRuns' <=> n \in RetiredRuns /\ n # t.run
  BY <1>1 DEF RetiredRuns, RowsSound
<1>5. RowTypes' BY <1>1, <1>3 DEF RowTypes
<1>6. RowsSound'
  <2>1. \A u \in retired' : \E o \in Occupants' :
          o.run = u.run /\ o.session = u.session /\ o.role = u.role
    <3> SUFFICES ASSUME NEW u \in retired'
                 PROVE \E o \in Occupants' : o.run = u.run /\ o.session = u.session /\ o.role = u.role
      OBVIOUS
    <3>1. u \in retired /\ u.run # t.run BY <1>1 DEF RowsSound
    <3>2. PICK o \in Occupants : o.run = u.run /\ o.session = u.session /\ o.role = u.role
      BY <3>1, OneRow
    <3>3. QED BY <1>2, <1>3, <3>1, <3>2
  <2>2. \A y \in adopted' : y.run \notin RetiredRuns' =>
          RetiredOf(y.role)' = {} /\ \A z \in replacements' : z.role # y.role
    BY <1>1, <1>4 DEF RowsSound, RetiredOf
  <2>3. \A y, z \in adopted' : y.run = z.run \/ y.role = z.role => y = z
    BY <1>1 DEF RowsSound
  <2>4. \A y, z \in replacements' : y.run = z.run \/ y.role = z.role => y = z
    BY <1>1 DEF RowsSound
  <2>5. \A y \in adopted', z \in replacements' : y.run # z.run BY <1>1 DEF RowsSound
  <2>6. \A y \in Occupants' : phase'[y.run] = "committed" BY <1>1, <1>3 DEF RowsSound
  <2>7. \A u, v \in retired' : u.run = v.run => u = v BY <1>1 DEF RowsSound
  <2>8. QED BY <2>1, <2>2, <2>3, <2>4, <2>5, <2>6, <2>7 DEF RowsSound
<1>7. \A o \in Occupants' : Seen(o)' = Seen(o) /\ Seen(o).run # t.run
  <2> SUFFICES ASSUME NEW o \in Occupants' PROVE Seen(o)' = Seen(o) /\ Seen(o).run # t.run
    OBVIOUS
  <2>1. o \in Occupants /\ o.run # t.run BY <1>3
  <2>2. (o \in adopted') <=> (o \in adopted) BY <1>1, <2>1
  <2>3. (o.run \in RetiredRuns') = (o.run \in RetiredRuns) BY <1>4, <2>1
  <2>4. QED BY <2>1, <2>2, <2>3, RetainedRow DEF Seen, Retained
<1>8. Seen(x) \in RetainedRuns /\ Seen(x).retired /\ Seen(x).run = t.run /\ Seen(x).session = t.session
  BY <1>2, SeenRows, OneRow, RetainedRow DEF Seen
<1>9. RetainedRuns' = RetainedRuns \ {Seen(x)}
  <2>1. RetainedRuns = {Seen(o) : o \in Occupants} /\ RetainedRuns' = {Seen(o)' : o \in Occupants'}
    BY <1>1, SeenRows
  <2>2. QED BY <1>3, <1>7, <1>8, <2>1
<1>10. \A y \in RetainedRuns : y.predecessor # t.run
  <2>1. t.run # Null BY <1>2, StoresAssumption DEF RowTypes, Proposals
  <2>2. QED BY <1>1, <2>1, Retention, RetainedRow
<1>11. Contract!Purge(Seen(x)) BY <1>1, <1>8, <1>9, <1>10 DEF Contract!Purge
<1>12. QED BY <1>5, <1>6, <1>8, <1>11 DEF StoresSound, Contract!Next

-----------------------------------------------------------------------------
(* The steps. *)

Contracted == ContractInv' /\ [Contract!Next]_(Contract!vars)

\* A step that touches no row stutters in the contract.
LEMMA RowsUntouched ==
  ASSUME Ledger, Frames', CoordinatorSound', RowsKept,
         \A p \in Proposals : phase[p] = "committed" => phase'[p] = "committed"
  PROVE  Contracted
<1>1. StoresSound' /\ UNCHANGED <<RetainedRuns, fences>> BY RowsStay
<1>2. UNCHANGED Contract!vars BY <1>1 DEF Contract!vars
<1>3. QED BY <1>1, <1>2 DEF Contracted, ContractInv, Ledger, CoordinatorSound, StoresSound

\* A quiet step that touches no row.
LEMMA QuietStep ==
  ASSUME Ledger, Frames, Quiet, RowsKept
  PROVE  Contracted
<1>1. Frames' BY QuietFrames DEF Quiet
<1>2. CoordinatorSound' BY ShrinksKeeps DEF Quiet, Ledger, CoordinatorSound
<1>3. \A p \in Proposals : phase[p] = "committed" => phase'[p] = "committed"
  BY DEF Quiet, Shrinks, InPlay
<1>4. QED BY <1>1, <1>2, <1>3, RowsUntouched

\* Every step of the gateway is one of the contract.
LEMMA GatewayContracted ==
  ASSUME Ledger, Frames, GatewayStep
  PROVE  Contracted
<1>1. ASSUME NEW c \in Conns, HandleRegister(c) PROVE Contracted
  <2>1. RowsKept
    BY <1>1 DEF HandleRegister, Register, BeginRecovery, Reject, RowsKept, stores
  <2>2. CASE Quiet BY <2>1, <2>2, QuietStep
  <2>3. CASE Observes(c)
    <3>1. \A p \in Proposals : phase[p] = "committed" => phase'[p] = "committed"
      BY <2>3 DEF Observes, Invalidate, PendingOf, Ledger, ProposalsSound, InPlay
    <3>2. QED BY <2>1, <2>3, <3>1, ObservesFrames, ObservesKeeps, RowsUntouched
  <2>4. CASE Challenges(c)
    <3>1. Shrinks /\ UNCHANGED <<registry, owner, stores>>
          /\ \A s \in Sessions : observed'[s] # Null => observed'[s].rev = observed[s].rev
      BY <2>4, Losing DEF Challenges
    <3>2. QuietRegistry BY <3>1 DEF QuietRegistry, registry, stores, Ledger, EntryTypes
    <3>3. CoordinatorSound' BY <3>1, <3>2, ShrinksKeeps DEF Ledger, CoordinatorSound
    <3>4. \A p \in Proposals : phase[p] = "committed" => phase'[p] = "committed"
      BY <3>1 DEF Shrinks, InPlay
    <3>5. QED BY <2>1, <2>4, <3>3, <3>4, ChallengesFrames, RowsUntouched
  <2>5. QED BY <1>1, <2>2, <2>3, <2>4, Registering
<1>2. ASSUME NEW c \in Conns,
             HandleRecoveryProof(c) \/ HandleReady(c) \/ HandleTakeover(c) \/ HandleClosed(c)
      PROVE  Contracted
  <2>1. RowsKept
    BY <1>2 DEF HandleRecoveryProof, HandleReady, HandleTakeover, HandleClosed, Reject,
                RecordManualTakeover, RowsKept, stores
  <2>2. QED BY <1>2, <2>1, QuietHandlers, QuietStep
<1>3. ASSUME NEW c \in Conns, HandleLifecycle(c) PROVE Contracted
  <2>1. RowsKept BY <1>3 DEF HandleLifecycle, Reject, RowsKept, stores
  <2>2. \A p \in Proposals : phase[p] = "committed" => phase'[p] = "committed"
    BY <1>3, LifecycleFrames DEF Shrinks, InPlay
  <2>3. QED BY <1>3, <2>1, <2>2, LifecycleFrames, LifecycleKeeps, QuietFrames, RowsUntouched
<1>4. ASSUME NEW c \in Conns, HandleAcknowledgement(c) PROVE Contracted
  <2>1. RowsKept BY <1>4 DEF HandleAcknowledgement, RowsKept, stores
  <2> DEFINE p == FrameRun(c)
  <2>2. CASE Quiet BY <2>1, <2>2, QuietStep
  <2>3. CASE Accepts(c, p)
    <3>1. /\ p \in listed /\ phase[p] = "authorized" /\ phase' = [phase EXCEPT ![p] = "acknowledged"]
          /\ UNCHANGED <<proposal, late, listed, contexts, observed, registry, owner, stores>>
      BY <2>3 DEF Accepts
    <3> HIDE DEF p
    <3>2. CoordinatorSound'
      BY <3>1, AdvanceKeeps DEF Ledger, CoordinatorSound, registry, stores
    <3>3. \A k \in Proposals : phase[k] = "committed" => phase'[k] = "committed"
      BY <3>1 DEF Ledger, ProposalTypes
    <3>4. QED BY <2>1, <2>3, <3>2, <3>3, AcceptsFrames, RowsUntouched
  <2>4. QED BY <1>4, <2>2, <2>3, Answers
<1>5. ASSUME NEW p \in Proposals, CommitAcknowledged(p) PROVE Contracted
  <2>1. Frames' /\ Shrinks BY <1>5, CommitFrames
  <2>2. QuietRegistry
    BY <1>5 DEF CommitAcknowledged, Insertion, CommitAdoption, CommitReplacementAdoption,
                QuietRegistry, registry, Ledger, EntryTypes
  <2>3. CoordinatorSound' BY <2>1, <2>2, ShrinksKeeps DEF Ledger, CoordinatorSound
  <2>4. QED
    BY <1>5, <2>1, <2>3, CommitRows
       DEF Contracted, ContractInv, Ledger, CoordinatorSound, StoresSound
<1>6. ASSUME Lapse \/ Sweep \/ \E p \in Proposals : CommitRefused(p) PROVE Contracted
  <2>1. RowsKept BY <1>6 DEF Lapse, Sweep, CommitRefused, RowsKept, stores
  <2>2. QED BY <1>6, <2>1, QuietDeadlines, QuietStep
<1>7. ASSUME CrashGateway PROVE Contracted
  <2>1. RowsKept BY <1>7 DEF CrashGateway, RowsKept, stores
  <2>2. \A p \in Proposals : phase[p] = "committed" => phase'[p] = "committed"
    BY <1>7 DEF CrashGateway
  <2>3. QED BY <1>7, <2>1, <2>2, CrashFrames, CrashKeeps, RowsUntouched
<1>8. QED BY <1>1, <1>2, <1>3, <1>4, <1>5, <1>6, <1>7 DEF GatewayStep

\* Every step of the user is one of the contract.
LEMMA UserContracted ==
  ASSUME Ledger, Frames, UserStep
  PROVE  Contracted
<1>1. ASSUME NEW s \in Sessions, NEW r \in Roles, RequestAdoption(s, r) PROVE Contracted
  <2>1. PICK n : Proposes(n, s, r) BY <1>1, Requesting
  <2>2. RowsKept BY <2>1 DEF Proposes, RowsKept, stores
  <2>3. \A p \in Proposals : phase[p] = "committed" => phase'[p] = "committed"
    BY <2>1 DEF Proposes, PendingOf, Ledger, ProposalsSound, InPlay
  <2>4. QED BY <2>1, <2>2, <2>3, ProposesFrames, ProposesKeeps, RowsUntouched
<1>2. ASSUME NEW p \in Proposals, AuthorizeAdoption(p) PROVE Contracted
  <2>1. /\ p \in listed /\ phase[p] = "proposed" /\ phase' = [phase EXCEPT ![p] = "authorized"]
        /\ contexts' = contexts \cup {p}
        /\ UNCHANGED <<stores, proposal, late, listed, observed, revision, owner>>
    BY <1>2 DEF AuthorizeAdoption, leases, registry
  <2>2. RowsKept /\ fences' = fences BY <2>1 DEF RowsKept, stores
  <2>3. CoordinatorSound' BY <2>1, <2>2, AdvanceKeeps DEF Ledger, CoordinatorSound
  <2>4. \A k \in Proposals : phase[k] = "committed" => phase'[k] = "committed"
    BY <2>1 DEF Ledger, ProposalTypes
  <2>5. QED BY <1>2, <2>2, <2>3, <2>4, AuthorizeFrames, RowsUntouched
<1>3. ASSUME \/ \E x \in Occupants : RetireAgentRun(x)
             \/ \E x \in retired : PurgeRetiredAgentRun(x)
      PROVE  Contracted
  <2>1. Frames' /\ CoordinatorSound'
    BY <1>3, QuietUser, QuietFrames, ShrinksKeeps DEF Quiet, Ledger, CoordinatorSound
  <2>2. StoresSound' /\ Contract!Next BY <1>3, RetireRows, PurgeRows
  <2>3. QED BY <2>1, <2>2 DEF Contracted, ContractInv, Ledger, CoordinatorSound, StoresSound
<1>4. QED BY <1>1, <1>2, <1>3 DEF UserStep, Occupants

\* Every step of a Pi stutters in the contract.
LEMMA PiContracted ==
  ASSUME Ledger, Frames, PiStep
  PROVE  Contracted
<1>1. PICK s \in Sessions :
         \/ Connect(s) \/ ReceiveRegistered(s) \/ ReceiveRequest(s) \/ ReceiveChallenge(s)
         \/ ReceiveCommitted(s) \/ ReceiveEnd(s)
         \/ RepeatReady(s) \/ Input(s) \/ ChangeActivity(s) \/ Disconnect(s) \/ Quit(s)
  BY DEF PiStep
<1>2. Frames' BY <1>1, ConnectFrames, RequestFrames, ChallengeFrames, TurningFrames
<1>3. UNCHANGED <<stores, coordinator, leases, registry>>
  BY <1>1 DEF Connect, ReceiveRegistered, ReceiveRequest, ReceiveChallenge, ReceiveCommitted,
              ReceiveEnd, RepeatReady, Input, ChangeActivity, Disconnect, Quit
<1>4. \A c \in Conns : owner[c] # Null => owner'[c] = owner[c]
  BY <1>1 DEF Connect, ReceiveRegistered, ReceiveRequest, ReceiveChallenge, ReceiveCommitted,
              ReceiveEnd, RepeatReady, Input, ChangeActivity, Disconnect, Quit,
              Frames, WireTypes
<1>5. RowsKept BY <1>3 DEF RowsKept, stores
<1>6. Shrinks /\ QuietRegistry
  BY <1>3, <1>4 DEF Ledger, Shrinks, QuietRegistry, coordinator, leases, registry, stores,
                    ProposalTypes, EntryTypes
<1>7. CoordinatorSound' BY <1>6, ShrinksKeeps DEF Ledger, CoordinatorSound
<1>8. \A p \in Proposals : phase[p] = "committed" => phase'[p] = "committed"
  BY <1>3 DEF coordinator
<1>9. QED BY <1>2, <1>5, <1>7, <1>8, RowsUntouched

\* The databases and the wires start empty.
LEMMA ContractInitial ==
  ASSUME Init
  PROVE  ContractInv /\ Contract!Init
<1>1. /\ adopted = {} /\ replacements = {} /\ retired = {} /\ fences = {}
      /\ phase = [p \in Proposals |-> "unused"] /\ proposal = [p \in Proposals |-> Null]
      /\ listed = {} /\ observed = [s \in Sessions |-> Null] /\ revision = 0 /\ serving = {}
      /\ owner = [c \in Conns |-> Null] /\ pi = [s \in Sessions |-> FreshPi]
      /\ toGateway = [c \in Conns |-> <<>>] /\ toPi = [c \in Conns |-> <<>>]
  BY DEF Init, StoresInit
<1>2. Ledger
  BY <1>1 DEF Ledger, RowTypes, ProposalTypes, EntryTypes, RowsSound, ProposalsSound, EntriesSound,
              Occupants, RetiredRuns, RetiredOf, Pending, Viable, InPlay, Phases
<1>3. \A c \in Conns : toPi[c] = <<>> /\ toGateway[c] = <<>> /\ DOMAIN toPi[c] = {} /\ DOMAIN toGateway[c] = {}
  BY <1>1
<1>4. WireTypes
  <2>1. FreshPi \in Extensions /\ FreshPi.conn = 0 BY DEF FreshPi, Extensions, RunOrNull, Activities
  <2>2. QED BY <1>1, <2>1 DEF WireTypes
<1>5. RegistersSound /\ MentionsSound
  BY <1>3 DEF RegistersSound, MentionsSound, RegistersFirst, Without
<1>6. RequestsSound /\ OccupantsSound
  BY <1>1 DEF RequestsSound, OccupantsSound, Pending, Occupants
<1>7. Contract!Init BY <1>1 DEF Contract!Init, RetainedRuns
<1>8. QED BY <1>2, <1>4, <1>5, <1>6, <1>7 DEF ContractInv, Frames

\* A step of nobody keeps the contract.
LEMMA ContractStutter ==
  ASSUME Ledger, Frames, UNCHANGED vars
  PROVE  Contracted
<1>1. Shrinks /\ QuietRegistry /\ QuietWire /\ RowsKept
  BY DEF vars, stores, coordinator, leases, registry, wire, Ledger, Frames, Shrinks,
         QuietRegistry, QuietWire, QuietQueues, RowsKept, Occupants, ProposalTypes, EntryTypes,
         WireTypes
<1>2. QED BY <1>1, QuietStep DEF Quiet

\* Whatever the sessions, the Roles, the number of proposals, connections,
\* crashes and activity changes, and however their steps and frames fall, the
\* two stores, the coordinators, the runner and the Pi extensions keep the
\* contract: one occupant of a Role, one run of a session, a successor for the
\* retired occupant it names, history purged from its newest end.
THEOREM ContractKept == Spec => KeepsContract
<1>1. Init => ContractInv /\ Contract!Init BY ContractInitial
<1>2. ContractInv /\ [Next]_vars => ContractInv' /\ [Contract!Next]_(Contract!vars)
  <2> SUFFICES ASSUME ContractInv, [Next]_vars
               PROVE  ContractInv' /\ [Contract!Next]_(Contract!vars)
    OBVIOUS
  <2>1. Ledger /\ Frames BY DEF ContractInv
  <2>2. CASE Next
    BY <2>1, <2>2, GatewayContracted, UserContracted, PiContracted DEF Next, Contracted
  <2>3. CASE UNCHANGED vars BY <2>1, <2>3, ContractStutter DEF Contracted
  <2>4. QED BY <2>2, <2>3
<1>3. QED BY <1>1, <1>2, PTL DEF Spec, KeepsContract, Contract!Spec

-----------------------------------------------------------------------------
(* The inductive invariant. *)

\* The run of a proposal is the one that session s is committed to.
CommittedTo(s, n) == n \in Proposals /\ phase[n] = "committed" /\ proposal[n].session = s

\* A session is committed once, and for good: the row of its run, or the fence
\* that a purge leaves.  A pending proposal is one of the connection observed.
CommittedOnce ==
  /\ \A x, y \in Occupants : x.session = y.session => x = y
  /\ \A x \in Occupants : proposal[x.run].session = x.session
  /\ \A p \in Proposals : phase[p] = "committed" =>
       proposal[p].session \in fences \/ \E x \in Occupants : x.run = p
  /\ \A p, q \in Proposals :
       phase[p] = "committed" /\ CommittedTo(proposal[p].session, q) => p = q
PendingObserved ==
  \A p \in listed : LET s == proposal[p].session IN
    observed[s] # Null /\ observed[s].conn = proposal[p].conn
EntriesServed ==
  \A s \in Sessions :
    observed[s] # Null /\ observed[s].available => observed[s].conn \in serving
CommitmentsSound == CommittedOnce /\ PendingObserved /\ EntriesServed

\* Connections are opened in order, the last one of a session is the one its
\* Pi has, and a registration that comes late is refused.
Registers(c) == ~Without(toGateway[c], "register")
OrderSound ==
  /\ highWater \in [Sessions -> Conns \cup {0}]
  /\ \A c, k \in Conns : c < k /\ owner[c] = Null => owner[k] = Null
  /\ \A s \in Sessions, c \in Conns : pi[s].conn # 0 /\ owner[c] = s => c <= pi[s].conn
  /\ \A c, k \in Conns :
       Registers(c) /\ Used(k) /\ c < k /\ owner[c] = owner[k] => k <= highWater[owner[k]]
  /\ \A s \in Sessions, c \in Conns :
       pi[s].conn = c /\ Used(c) /\ observed[s] # Null => observed[s].conn = c

\* A lease or a challenge is of the run of the connection's session, there is
\* one of a run at a time, and a lease that is ready may be.
LeaseTypes ==
  /\ managed \in [Conns -> ManagedRecords \cup {Null}]
  /\ recoveries \in [Conns -> RecoveryRecords \cup {Null}]
  /\ takeovers \subseteq Proposals
HeldBy(c, n) == c \in serving /\ \E x \in Occupants : x.run = n /\ x.session = owner[c]
LeasesSound ==
  \A c \in Conns :
    /\ managed[c] # Null => HeldBy(c, managed[c].run)
    /\ recoveries[c] # Null => HeldBy(c, recoveries[c].run)
    /\ \A k \in Conns :
         /\ managed[c] # Null /\ managed[k] # Null /\ managed[c].run = managed[k].run => c = k
         /\ recoveries[c] # Null /\ recoveries[k] # Null /\ recoveries[c].run = recoveries[k].run => c = k
         /\ managed[c] # Null /\ recoveries[k] # Null => managed[c].run # recoveries[k].run
    /\ managed[c] # Null /\ managed[c].ready =>
         managed[c].run \notin takeovers /\ (managed[c].live => ~IsRetired(owner[c]))

\* A connection is committed or recovered once, after it registered.
ManagedOn(c) == owner[c] # Null /\ pi[owner[c]].conn = c /\ pi[owner[c]].managed
Granted(c) == managed[c] # Null \/ ~Without(toPi[c], "committed") \/ ManagedOn(c)
GrantsSound ==
  \A c \in Conns :
    /\ Registers(c) \/ Used(c) \/ Granted(c) => recoveries[c] = Null
    /\ Granted(c) => ~Registers(c)
    /\ owner[c] = Null => toGateway[c] = <<>>

\* What the Pi of a connection knows of the commitment it is told about.
Ready(c) == managed[c] # Null /\ managed[c].ready
Applied(c, n) == pi[owner[c]].alive => pi[owner[c]].committed = n
KnowledgeSound ==
  /\ \A c \in Conns : \A i \in DOMAIN toPi[c] :
       toPi[c][i].type = "committed" => CommittedTo(owner[c], toPi[c][i].run)
  /\ \A c \in Conns : \A i \in DOMAIN toGateway[c] :
       toGateway[c][i].type \in {"ready", "takeover"} =>
         CommittedTo(owner[c], toGateway[c][i].run) /\ Applied(c, toGateway[c][i].run)
  /\ \A s \in Sessions : pi[s].committed # Null => CommittedTo(s, pi[s].committed)
  /\ \A s \in Sessions : pi[s].managed => pi[s].committed # Null /\ pi[s].conn # 0
  /\ \A c \in Conns : Ready(c) => Applied(c, managed[c].run)
  /\ \A c \in Conns : Ready(c) \/ ~Without(toGateway[c], "ready") =>
       (pi[owner[c]].conn = c => pi[owner[c]].managed)

\* Input in a managed Pi: reported, recorded, or without effect on any lease.
Reported(c, n) == \E i \in DOMAIN toGateway[c] : toGateway[c][i] = Frame("takeover", n)
TakeoversSound ==
  \A s \in Sessions : LET c == pi[s].conn IN
    pi[s].managed /\ pi[s].takeover =>
      \/ Reported(c, pi[s].committed)
      \/ pi[s].committed \in takeovers
      \/ managed[c] = Null \/ ~managed[c].live
      \/ IsRetired(s)

\* The Pi remembers what it acknowledged, and acknowledges nothing else.
Acknowledging(p) == phase[p] = "acknowledged" \/ AckIn(toGateway[proposal[p].conn], p)
Remembers(s, n) == pi[s].alive => pi[s].sessionAck = n
OccupantDeaf(x) ==
  LET s == x.session
      c == pi[s].conn IN
  c # 0 =>
    \/ pi[s].managed
    \/ Settling(toPi[c], pi[s].ack, x.run)
    \/ /\ Without(toPi[c], "request")
       /\ observed[s] # Null => observed[s].conn # c
RecoverySound ==
  /\ \A s \in Sessions : pi[s].conn # 0 => pi[s].alive
  /\ \A p \in Pending : Acknowledging(p) => Remembers(proposal[p].session, p)
  /\ \A x \in Occupants : Remembers(x.session, x.run) /\ OccupantDeaf(x)

LeaseInv ==
  /\ CommitmentsSound /\ OrderSound /\ LeaseTypes /\ LeasesSound /\ GrantsSound
  /\ KnowledgeSound /\ TakeoversSound /\ RecoverySound
-----------------------------------------------------------------------------
(* Commitments. *)

\* No row comes or goes, and no proposal is committed.
Steady ==
  /\ UNCHANGED <<adopted, replacements, fences>>
  /\ \A p \in Proposals : phase'[p] = "committed" <=> phase[p] = "committed"
  /\ \A p \in Proposals : phase[p] # "unused" => proposal'[p] = proposal[p]

\* A step that forgets proposals.
LEMMA InvalidatedSteady ==
  ASSUME Ledger, NEW gone \in SUBSET listed, Invalidate(gone)
  PROVE  \A p \in Proposals : phase'[p] = "committed" <=> phase[p] = "committed"
  BY DEF Invalidate, Ledger, ProposalsSound, InPlay

\* A step of the gateway, other than a commit.
LEMMA GatewaySteady ==
  ASSUME Ledger, GatewayStep, \A p \in Proposals : ~CommitAcknowledged(p)
  PROVE  Steady
<1>1. ASSUME NEW lost, NEW expired, LoseConnections(lost, expired)
      PROVE  /\ UNCHANGED proposal
             /\ \A p \in Proposals : phase'[p] = "committed" <=> phase[p] = "committed"
  BY <1>1, InvalidatedSteady DEF LoseConnections, PendingOf
<1>2. ASSUME NEW c \in Conns, HandleRegister(c) PROVE Steady
  <2>1. CASE Register(c, owner[c])
    <3>1. PendingOf(owner[c]) \subseteq listed BY DEF PendingOf
    <3>2. QED
      BY <2>1, <3>1, InvalidatedSteady DEF Register, Reject, Steady, stores, coordinator
  <2>2. CASE BeginRecovery(c, owner[c])
    BY <1>1, <2>2 DEF BeginRecovery, Reject, Steady, stores, coordinator
  <2>3. QED BY <1>2, <2>1, <2>2 DEF HandleRegister
<1>3. ASSUME NEW c \in Conns, HandleRecoveryProof(c) \/ HandleLifecycle(c) \/ HandleReady(c)
      PROVE Steady
  BY <1>3 DEF HandleRecoveryProof, HandleLifecycle, HandleReady, Reject, Steady, stores, coordinator
<1>4. ASSUME NEW c \in Conns, HandleAcknowledgement(c) PROVE Steady
  BY <1>4 DEF HandleAcknowledgement, Reached, InvalidateProposal, Steady, stores, Ledger,
              ProposalTypes, ProposalsSound, InPlay
<1>5. ASSUME NEW c \in Conns, HandleTakeover(c) PROVE Steady
  BY <1>1, <1>5 DEF HandleTakeover, Reject, RecordManualTakeover, Steady, stores, coordinator
<1>6. ASSUME NEW c \in Conns, HandleClosed(c) PROVE Steady
  BY <1>1, <1>6 DEF HandleClosed, Steady, stores
<1>7. ASSUME NEW p \in Proposals, CommitRefused(p) PROVE Steady
  BY <1>7 DEF CommitRefused, InvalidateProposal, Steady, stores, Ledger, ProposalTypes
<1>8. CASE Lapse BY <1>8 DEF Lapse, Steady, stores
<1>9. CASE Sweep BY <1>1, <1>9 DEF Sweep, Steady, stores
<1>10. CASE CrashGateway BY <1>10 DEF CrashGateway, Steady, stores
<1>11. QED
  BY <1>2, <1>3, <1>4, <1>5, <1>6, <1>7, <1>8, <1>9, <1>10 DEF GatewayStep

\* Only a commit and a purge change the commitments.
LEMMA CommitmentSteps ==
  ASSUME Ledger, Next
  PROVE  \/ Steady
         \/ \E p \in Proposals : CommitAcknowledged(p)
         \/ \E t \in retired : PurgeRetiredAgentRun(t)
<1>1. ASSUME NEW s \in Sessions, NEW r \in Roles, RequestAdoption(s, r) PROVE Steady
  <2>1. PICK n : Proposes(n, s, r) BY <1>1, Requesting
  <2>2. QED
    BY <2>1 DEF Proposes, Steady, stores, Ledger, ProposalTypes, ProposalsSound, PendingOf, InPlay
<1>2. ASSUME NEW p \in Proposals, AuthorizeAdoption(p) PROVE Steady
  BY <1>2 DEF AuthorizeAdoption, Steady, stores, Ledger, ProposalTypes
<1>3. ASSUME NEW x, RetireAgentRun(x) PROVE Steady
  BY <1>3 DEF RetireAgentRun, CommitRetirement, Steady
<1>4. CASE PiStep
  BY <1>4 DEF PiStep, Connect, ReceiveRegistered, ReceiveRequest, ReceiveChallenge,
              ReceiveCommitted, ReceiveEnd, RepeatReady, Input, ChangeActivity, Disconnect, Quit,
              Steady, stores, coordinator
<1>5. QED BY <1>1, <1>2, <1>3, <1>4, GatewaySteady DEF Next, UserStep

\* A run is committed for good.
LEMMA CommittedToStays ==
  ASSUME Ledger, Next, NEW s, NEW n, CommittedTo(s, n)
  PROVE  CommittedTo(s, n)'
<1>1. CASE Steady BY <1>1 DEF Steady, CommittedTo
<1>2. ASSUME NEW p \in Proposals, CommitAcknowledged(p) PROVE CommittedTo(s, n)'
  BY <1>2 DEF CommitAcknowledged, CommittedTo, Ledger, ProposalTypes
<1>3. ASSUME NEW t \in retired, PurgeRetiredAgentRun(t) PROVE CommittedTo(s, n)'
  BY <1>3 DEF PurgeRetiredAgentRun, CommittedTo
<1>4. QED BY <1>1, <1>2, <1>3, CommitmentSteps

\* The rows and fences of a session are those of its only commitment.
LEMMA CommittedOnceKept ==
  ASSUME ContractInv, CommittedOnce, Next
  PROVE  CommittedOnce'
<1> USE DEF ContractInv, Ledger
<1>1. CASE Steady
  <2>1. \A p \in Proposals : phase'[p] = "committed" => proposal'[p] = proposal[p]
    BY <1>1 DEF Steady
  <2>2. \A x \in Occupants : x.run \in Proposals /\ phase[x.run] = "committed"
    BY DEF RowTypes, RowsSound
  <2>3. Occupants' = Occupants BY <1>1 DEF Steady, Occupants
  <2>4. QED BY <1>1, <2>1, <2>2, <2>3 DEF CommittedOnce, CommittedTo, Steady
<1>2. ASSUME NEW p \in Proposals, CommitAcknowledged(p) PROVE CommittedOnce'
  <2> DEFINE s == proposal[p].session
  <2>1. \A x \in Occupants : x.session # s BY <1>2, CommitFrames
  <2>2. observed[s] # Null /\ s \in Sessions
    BY <1>2 DEF CommitAcknowledged, CommitChecks, CurrentIdentity, ProposalTypes
  <2>3. s \notin fences BY <2>2 DEF EntriesSound
  <2>4. \A q \in Proposals : phase[q] = "committed" => proposal[q].session # s
    BY <2>1, <2>3 DEF CommittedOnce
  <2>5. /\ phase' = [phase EXCEPT ![p] = "committed"] /\ phase[p] = "acknowledged"
        /\ UNCHANGED <<proposal, fences>>
    BY <1>2 DEF CommitAcknowledged, Insertion, CommitAdoption, CommitReplacementAdoption
  <2>6. PICK x : Occupants' = Occupants \cup {x} /\ x.run = p /\ x.session = s
    <3> DEFINE r == proposal[p].role
               x == [run |-> p, session |-> s, role |-> r]
               y == [run |-> p, session |-> s, role |-> r,
                     predecessor |-> RetirementVacancy(r).predecessor,
                     generation |-> RetirementVacancy(r).generation]
    <3>1. Insertion(p) BY <1>2 DEF CommitAcknowledged
    <3>2. \/ adopted' = adopted \cup {x} /\ UNCHANGED replacements
          \/ replacements' = replacements \cup {y} /\ UNCHANGED adopted
      BY <3>1 DEF Insertion, CommitAdoption, CommitReplacementAdoption
    <3>3. x.run = p /\ x.session = s /\ y.run = p /\ y.session = s OBVIOUS
    <3> HIDE DEF x, y
    <3>4. QED BY <3>2, <3>3 DEF Occupants
  <2>7. phase'[p] = "committed" /\ \A q \in Proposals : q # p => phase'[q] = phase[q]
    BY <2>5 DEF ProposalTypes
  <2> HIDE DEF s
  <2>8. \A y, z \in Occupants' : y.session = z.session => y = z
    BY <2>1, <2>6 DEF CommittedOnce
  <2>9. \A y \in Occupants' : proposal'[y.run].session = y.session
    BY <2>5, <2>6 DEF CommittedOnce, s
  <2>10. \A q \in Proposals : phase'[q] = "committed" =>
           proposal'[q].session \in fences' \/ \E y \in Occupants' : y.run = q
    BY <2>5, <2>6, <2>7 DEF CommittedOnce
  <2>11. \A q, m \in Proposals :
           phase'[q] = "committed" /\ CommittedTo(proposal[q].session, m)' => q = m
    BY <2>4, <2>5, <2>7 DEF CommittedOnce, CommittedTo, s
  <2>12. QED BY <2>5, <2>8, <2>9, <2>10, <2>11 DEF CommittedOnce, CommittedTo
<1>3. ASSUME NEW t \in retired, PurgeRetiredAgentRun(t) PROVE CommittedOnce'
  <2>1. UNCHANGED <<phase, proposal>> /\ PurgeRetiredRun(t)
    BY <1>3 DEF PurgeRetiredAgentRun
  <2>2. fences' = fences \cup {t.session} /\ Occupants' = {y \in Occupants : y.run # t.run}
    BY <2>1 DEF PurgeRetiredRun, Occupants
  <2>3. proposal[t.run].session = t.session
    BY OneRow DEF CommittedOnce
  <2>4. QED BY <2>1, <2>2, <2>3 DEF CommittedOnce, CommittedTo
<1>4. QED BY <1>1, <1>2, <1>3, CommitmentSteps

\* A registration that is rejected, by the registry or for a fence.
TurnsAway(c) ==
  /\ toPi' = Sent(c, Rejected) /\ UNCHANGED <<stores, coordinator, leases>>
  /\ \/ UNCHANGED registry
     \/ ~(c <= highWater[owner[c]]) /\ highWater' = [highWater EXCEPT ![owner[c]] = c]

\* The registration of a committed session, which is challenged.
Recovers(c) ==
  \E n \in Proposals :
    /\ n = CommittedByBinding(owner[c]) /\ ~IsRetired(owner[c])
    /\ LoseConnections(ConnsOf(n), {})
    /\ recoveries' = [k \in Conns |->
         IF k = c THEN [run |-> n, live |-> TRUE]
         ELSE IF recoveries[k] # Null /\ recoveries[k].run = n THEN Null
         ELSE recoveries[k]]
    /\ toPi' = Sent(c, [type |-> "challenge", run |-> n])
    /\ UNCHANGED <<stores, registry>>

\* What becomes of a registration.
LEMMA Registrations ==
  ASSUME Ledger, Frames, NEW c \in Conns, HandleRegister(c)
  PROVE  TurnsAway(c) \/ Observes(c) \/ Recovers(c)
<1>2. CASE Register(c, owner[c])
  <2>1. CASE c <= highWater[owner[c]] BY <1>2, <2>1 DEF Register, Reject, TurnsAway
  <2>2. CASE ~(c <= highWater[owner[c]]) /\ owner[c] \in fences
    BY <1>2, <2>2 DEF Register, TurnsAway, coordinator, leases
  <2>3. CASE ~(c <= highWater[owner[c]]) /\ owner[c] \notin fences
    <3>1. Head(toGateway[c]) \in FramesToGateway /\ Head(toGateway[c]).type = "register"
      BY HandledFrom DEF HandleRegister, Handles, Frames
    <3>2. Head(toGateway[c]).activity \in Activities BY <3>1 DEF FramesToGateway
    <3>3. \A x \in Occupants : x.session # owner[c]
      BY <1>2, BindingQueries DEF Register, Ledger
    <3>4. QED BY <1>2, <2>3, <3>2, <3>3 DEF HandleRegister, Register, Observes
  <2>4. QED BY <2>1, <2>2, <2>3
<1>3. CASE BeginRecovery(c, owner[c])
  <2>1. CommittedByBinding(owner[c]) \in Proposals
    BY <1>3, BindingQueries DEF BeginRecovery, Ledger
  <2>2. QED BY <1>3, <2>1 DEF BeginRecovery, Reject, TurnsAway, Recovers
<1>4. QED BY <1>2, <1>3 DEF HandleRegister

\* Connections that are lost.
LEMMA LosingWatched ==
  ASSUME Ledger, PendingObserved, EntriesServed, NEW lost, NEW expired,
         LoseConnections(lost, expired),
         \A s \in expired \cap Sessions : observed[s] # Null /\ observed[s].conn \in lost,
         \A c \in serving : c \in lost \/ c \in serving'
  PROVE  PendingObserved' /\ EntriesServed'
<1> USE DEF Ledger
<1> DEFINE entries == {s \in Sessions : observed[s] # Null /\ observed[s].conn \in lost}
<1>1. /\ proposal' = proposal
      /\ listed' = listed \ UNION {PendingOf(s) : s \in entries}
      /\ observed' = [s \in Sessions |->
           IF s \in expired THEN Null
           ELSE IF s \in entries THEN [observed[s] EXCEPT !.available = FALSE]
           ELSE observed[s]]
  BY DEF LoseConnections, Invalidate
<1>2. ASSUME NEW s \in Sessions, s \notin entries PROVE observed'[s] = observed[s]
  BY <1>1, <1>2
<1>3. ASSUME NEW s \in entries, observed'[s] # Null PROVE ~observed'[s].available
  BY <1>1, <1>3 DEF EntryTypes, EntryRecords
<1>4. ASSUME NEW p \in listed'
      PROVE  LET s == proposal[p].session IN
               observed'[s] # Null /\ observed'[s].conn = proposal[p].conn
  <2>1. p \in listed /\ proposal[p].session \in Sessions
    BY <1>1 DEF ProposalsSound, ProposalTypes, InPlay
  <2>2. proposal[p].session \notin entries BY <1>1, <2>1 DEF PendingOf
  <2>3. QED BY <1>2, <2>1, <2>2 DEF PendingObserved
<1>5. PendingObserved' BY <1>1, <1>4 DEF PendingObserved
<1>6. ASSUME NEW s \in Sessions, observed'[s] # Null, observed'[s].available
      PROVE  observed'[s].conn \in serving'
  <2>1. s \notin entries BY <1>3, <1>6
  <2>2. observed'[s] = observed[s] BY <1>2, <2>1
  <2>3. QED BY <1>6, <2>1, <2>2 DEF EntriesServed
<1>7. QED BY <1>5, <1>6 DEF EntriesServed

\* No record is Null.
LEMMA NullRecords ==
  /\ Null \notin EntryRecords
  /\ Null \notin ManagedRecords /\ Null \notin RecoveryRecords /\ Null \notin ProposalRecords
<1>1. EntryRecords = ObservedRecords BY DEF EntryRecords, ObservedRecords
<1>2. QED BY <1>1, RecordsAssumption

\* An entry whose lease lapses.
LEMMA LapsedRecord ==
  ASSUME NEW e \in EntryRecords
  PROVE  LET lapsed == [e EXCEPT !.live = FALSE] IN
         lapsed \in EntryRecords /\ lapsed.conn = e.conn /\ lapsed.rev = e.rev
         /\ lapsed.available = e.available
<1>1. PICK f : f = FALSE OBVIOUS
<1>2. [e EXCEPT !.live = f] \in EntryRecords
      /\ [e EXCEPT !.live = f].conn = e.conn /\ [e EXCEPT !.live = f].rev = e.rev
      /\ [e EXCEPT !.live = f].available = e.available
  BY <1>1 DEF EntryRecords
<1>3. QED BY <1>1, <1>2, Zenon

\* A pending proposal is of the connection observed, and an available session
\* is one whose connection is served.
LEMMA GatewayWatched ==
  ASSUME ContractInv, PendingObserved, EntriesServed, GatewayStep
  PROVE  PendingObserved' /\ EntriesServed'
<1> USE DEF ContractInv, Ledger, Frames
<1>0. ASSUME UNCHANGED <<observed, proposal, serving>>, listed' \subseteq listed
      PROVE  PendingObserved' /\ EntriesServed'
  BY <1>0 DEF PendingObserved, EntriesServed
<1>1. ASSUME NEW c \in Conns, HandleRegister(c) PROVE PendingObserved' /\ EntriesServed'
  <2>1. UNCHANGED <<serving, owner>> BY <1>1 DEF HandleRegister
  <2>2. CASE Observes(c)
    <3> DEFINE s == owner[c]
    <3>1. s \in Sessions /\ c \in serving
      BY <2>2, HandledFrom DEF Observes, Handles
    <3>2. PICK a : observed' = [observed EXCEPT ![s] = ObservedEntry(c, revision + 1, a)]
      BY <2>2 DEF Observes
    <3>3. listed' = listed \ PendingOf(s) /\ proposal' = proposal
      BY <2>2 DEF Observes, Invalidate
    <3>4. ObservedEntry(c, revision + 1, a).conn = c BY DEF ObservedEntry
    <3>5. /\ observed'[s] # Null => observed'[s].conn = c
          /\ \A k \in Sessions : k # s => observed'[k] = observed[k]
      BY <3>1, <3>2, <3>4 DEF EntryTypes
    <3> HIDE DEF s
    <3>6. PendingObserved'
      BY <3>3, <3>5 DEF PendingObserved, PendingOf, ProposalsSound, ProposalTypes, InPlay
    <3>7. EntriesServed' BY <2>1, <3>1, <3>5 DEF EntriesServed
    <3>8. QED BY <3>6, <3>7
  <2>3. CASE TurnsAway(c) BY <1>0, <2>1, <2>3 DEF TurnsAway, coordinator, leases
  <2>4. CASE Recovers(c) BY <2>1, <2>4, LosingWatched DEF Recovers
  <2>5. QED BY <1>1, <2>2, <2>3, <2>4, Registrations
<1>2. ASSUME NEW c \in Conns, HandleRecoveryProof(c) \/ HandleReady(c)
      PROVE PendingObserved' /\ EntriesServed'
  BY <1>0, <1>2 DEF HandleRecoveryProof, HandleReady, Reject, coordinator, leases
<1>3. ASSUME NEW c \in Conns, HandleLifecycle(c) PROVE PendingObserved' /\ EntriesServed'
  <2> DEFINE s == owner[c]
  <2>1. UNCHANGED <<serving, coordinator>> BY <1>3 DEF HandleLifecycle, Reject
  <2>2. s \in Sessions /\ c \in serving BY <1>3, HandledFrom DEF HandleLifecycle, Handles
  <2>3. CASE observed[s] # Null /\ observed[s].conn = c
    <3>4. Head(toGateway[c]) \in FramesToGateway /\ Head(toGateway[c]).type = "lifecycle"
      BY <1>3, HandledFrom DEF HandleLifecycle, Handles
    <3>5. Head(toGateway[c]).activity \in Activities BY <3>4 DEF FramesToGateway
    <3>6. observed' = [observed EXCEPT ![s] =
                         UpdatedEntry(@, revision + 1, Head(toGateway[c]).activity)]
      BY <1>3, <2>3 DEF HandleLifecycle
    <3>7. revision + 1 \in Nat BY DEF EntryTypes
    <3>1. PICK n \in Nat, a \in Activities :
            observed' = [observed EXCEPT ![s] = UpdatedEntry(@, n, a)]
      <4> HIDE DEF s
      <4> QED BY <3>5, <3>6, <3>7
    <3>2. /\ observed'[s].conn = c
          /\ \A k \in Sessions : k # s => observed'[k] = observed[k]
      BY <2>2, <2>3, <3>1 DEF UpdatedEntry, EntryTypes, EntryRecords
    <3>0. observed'[s] # Null
      BY <2>2, <2>3, <3>1, UpdatedRecord, NullRecords DEF EntryTypes
    <3> HIDE DEF s
    <3>3. QED
      BY <2>1, <2>2, <2>3, <3>0, <3>2
         DEF PendingObserved, EntriesServed, coordinator, ProposalsSound, ProposalTypes, InPlay
  <2>4. CASE ~(observed[s] # Null /\ observed[s].conn = c)
    BY <1>0, <1>3, <2>1, <2>4 DEF HandleLifecycle, Reject, coordinator, leases
  <2>5. QED BY <2>3, <2>4
<1>4. ASSUME NEW c \in Conns, HandleAcknowledgement(c) PROVE PendingObserved' /\ EntriesServed'
  <2>1. UNCHANGED <<observed, proposal, serving>> /\ listed' \subseteq listed
    BY <1>4 DEF HandleAcknowledgement, InvalidateProposal, leases
  <2>2. QED BY <1>0, <2>1
<1>5. ASSUME NEW c \in Conns, HandleTakeover(c) PROVE PendingObserved' /\ EntriesServed'
  <2>1. serving' = serving BY <1>5 DEF HandleTakeover
  <2>2. CASE LoseConnections({c}, {}) BY <2>1, <2>2, LosingWatched
  <2>3. CASE UNCHANGED <<observed, proposal, listed>> BY <1>0, <2>1, <2>3
  <2>4. QED BY <1>5, <2>2, <2>3 DEF HandleTakeover, Reject, coordinator, leases
<1>6. ASSUME NEW c \in Conns, HandleClosed(c) PROVE PendingObserved' /\ EntriesServed'
  BY <1>6, LosingWatched DEF HandleClosed
<1>7. ASSUME NEW p \in Proposals, CommitAcknowledged(p) \/ CommitRefused(p)
      PROVE PendingObserved' /\ EntriesServed'
  BY <1>0, <1>7 DEF CommitAcknowledged, CommitRefused, InvalidateProposal, leases
<1>8. CASE Lapse
  <2>1. UNCHANGED <<proposal, listed, serving>> BY <1>8 DEF Lapse, wire
  <2>2. ASSUME NEW s \in Sessions, LapseObserved(s) PROVE PendingObserved' /\ EntriesServed'
    <3>0. observed[s] # Null /\ observed[s] \in EntryRecords
          /\ observed' = [observed EXCEPT ![s] = [@ EXCEPT !.live = FALSE]]
      BY <2>2 DEF LapseObserved, EntryTypes
    <3>4. /\ [observed[s] EXCEPT !.live = FALSE].conn = observed[s].conn
          /\ [observed[s] EXCEPT !.live = FALSE].available = observed[s].available
          /\ [observed[s] EXCEPT !.live = FALSE] # Null
      BY <3>0, LapsedRecord, NullRecords
    <3>1. \A k \in Sessions :
            /\ observed'[k] = Null <=> observed[k] = Null
            /\ observed[k] # Null => observed'[k].conn = observed[k].conn
                                     /\ observed'[k].available = observed[k].available
      BY <3>0, <3>4 DEF EntryTypes
    <3>2. QED
      BY <2>1, <3>1 DEF PendingObserved, EntriesServed, ProposalsSound, ProposalTypes, InPlay
  <2>3. ASSUME ~ \E s \in Sessions : LapseObserved(s) PROVE observed' = observed
    BY <1>8, <2>3 DEF Lapse, LapseManaged, LapseRecovery, LapseProposal
  <2>4. QED BY <1>0, <2>1, <2>2, <2>3
<1>9. CASE Sweep
  <2>1. PICK lost : /\ LoseConnections(lost, LapsedEntries) /\ serving' = serving
                    /\ lost = LapsedConns \cup {observed[s].conn : s \in LapsedEntries}
    BY <1>9 DEF Sweep, wire
  <2>2. \A s \in LapsedEntries : observed[s] # Null /\ observed[s].conn \in lost
    BY <2>1 DEF LapsedEntries
  <2>3. QED BY <2>1, <2>2, LosingWatched
<1>10. CASE CrashGateway BY <1>10 DEF CrashGateway, PendingObserved, EntriesServed
<1>11. QED
  BY <1>1, <1>2, <1>3, <1>4, <1>5, <1>6, <1>7, <1>8, <1>9, <1>10 DEF GatewayStep

\* A session is committed once and for good, and what is pending or available
\* is of a connection that is there.
LEMMA CommitmentsKept ==
  ASSUME ContractInv, CommitmentsSound, Next
  PROVE  CommitmentsSound'
<1> USE DEF ContractInv, Ledger
<1>1. CommittedOnce' BY CommittedOnceKept DEF CommitmentsSound
<1>2. CASE GatewayStep BY <1>1, <1>2, GatewayWatched DEF CommitmentsSound
<1>3. ASSUME NEW s \in Sessions, NEW r \in Roles, RequestAdoption(s, r) PROVE CommitmentsSound'
  <2>1. PICK n : Proposes(n, s, r) BY <1>3, Requesting
  <2>2. /\ UNCHANGED <<observed, serving>> /\ listed' \subseteq listed \cup {n}
        /\ n \notin listed /\ \A p \in listed : proposal'[p] = proposal[p]
        /\ proposal'[n] = ProposalFor(s, r) /\ observed[s] # Null
    BY <2>1 DEF Proposes, leases, wire, ProposalsSound, ProposalTypes, InPlay
  <2>3. QED
    BY <1>1, <2>2 DEF CommitmentsSound, PendingObserved, EntriesServed, ProposalFor
<1>4. ASSUME NEW p \in Proposals, AuthorizeAdoption(p) PROVE CommitmentsSound'
  BY <1>1, <1>4 DEF AuthorizeAdoption, leases, CommitmentsSound, PendingObserved, EntriesServed
<1>5. ASSUME NEW x, RetireAgentRun(x) PROVE CommitmentsSound'
  BY <1>1, <1>5 DEF RetireAgentRun, wire, CommitmentsSound, PendingObserved, EntriesServed
<1>6. ASSUME NEW x \in retired, PurgeRetiredAgentRun(x) PROVE CommitmentsSound'
  BY <1>1, <1>6
     DEF PurgeRetiredAgentRun, wire, CommitmentsSound, PendingObserved, EntriesServed, EntryTypes,
         ProposalsSound, ProposalTypes, InPlay
<1>7. CASE PiStep
  <2>1. UNCHANGED <<observed, proposal, listed>> /\ serving \subseteq serving'
    BY <1>7 DEF PiStep, Connect, ReceiveRegistered, ReceiveRequest, ReceiveChallenge,
                ReceiveCommitted, ReceiveEnd, RepeatReady, Input, ChangeActivity, Disconnect, Quit,
                coordinator, leases
  <2>2. QED BY <1>1, <2>1 DEF CommitmentsSound, PendingObserved, EntriesServed
<1>8. QED BY <1>2, <1>3, <1>4, <1>5, <1>6, <1>7 DEF Next, UserStep

-----------------------------------------------------------------------------
(* The turns of a Pi. *)

\* The Pi ends its connection, or itself.
Closes(s, e) ==
  /\ PiTurn(s, e, <<Closed>>) /\ e.conn = 0 /\ ~e.managed /\ e.committed \in {Null, pi[s].committed}
  /\ pi[s].conn # 0 => toPi'[pi[s].conn] = <<>>
  /\ e.alive => /\ pi[s].alive
                /\ e.sessionAck = pi[s].sessionAck /\ e.committed = pi[s].committed

\* The Pi takes a frame that tells it nothing new, or reports its activity.
Silent(g) ==
  \A t \in {"register", "acknowledged", "ready", "takeover"} : Without(g, t)
Refers(g, q) ==
  \A i \in DOMAIN g : g[i].type \in {"refused", "proof"} =>
    q # <<>> /\ Head(q).type = "request" /\ Head(q).run = g[i].run
Passes(s, e, g) ==
  LET c == pi[s].conn IN
  /\ PiTurn(s, e, g) /\ Silent(g) /\ Refers(g, toPi[c])
  /\ e.alive = pi[s].alive /\ e.conn = c /\ e.managed = pi[s].managed /\ e.ack = pi[s].ack
  /\ e.sessionAck = pi[s].sessionAck /\ e.committed = pi[s].committed
  /\ e.takeover = pi[s].takeover \/ pi[s].committed = Null
  /\ \/ toPi' = toPi
     \/ /\ c # 0 /\ toPi[c] # <<>> /\ toPi'[c] = Tail(toPi[c])
        /\ \/ Head(toPi[c]).type \in {"registered", "request"}
           \/ /\ Head(toPi[c]).type = "committed"
              /\ pi[s].managed \/ pi[s].ack = Null

\* The Pi answers a request or a challenge.
Replies(s, e, n, type) ==
  LET c == pi[s].conn IN
  /\ PiTurn(s, e, <<Frame(type, n)>>) /\ n \in RunOrNull
  /\ c # 0 /\ toPi[c] # <<>> /\ toPi'[c] = Tail(toPi[c]) /\ Head(toPi[c]).run = n
  /\ toGateway' = Written(c, <<Frame(type, n)>>)
  /\ e.alive = pi[s].alive /\ e.conn = c /\ e.managed = pi[s].managed /\ e.ack = n
  /\ e.sessionAck = n /\ e.committed = pi[s].committed
  /\ e.takeover = pi[s].takeover \/ pi[s].committed = Null
Acknowledges(s, e, n) ==
  /\ Replies(s, e, n, "acknowledged")
  /\ Head(toPi[pi[s].conn]).type = "request" /\ ~pi[s].managed
Proves(s, e, n) ==
  /\ Replies(s, e, n, "proof")
  /\ Head(toPi[pi[s].conn]).type = "challenge" /\ pi[s].sessionAck = n

\* The Pi applies a commitment.
Applies(s, e, n) ==
  LET c == pi[s].conn IN
  /\ PiTurn(s, e, Receipts(pi[s], n)) /\ n \in RunOrNull
  /\ c # 0 /\ toPi[c] # <<>> /\ toPi'[c] = Tail(toPi[c])
  /\ Head(toPi[c]).type = "committed" /\ Head(toPi[c]).run = n
  /\ toGateway' = Written(c, Receipts(pi[s], n))
  /\ e.alive = pi[s].alive /\ e.conn = c /\ e.managed /\ e.ack = pi[s].ack
  /\ e.sessionAck = pi[s].sessionAck /\ e.committed = n /\ e.takeover = pi[s].takeover
  /\ ~pi[s].managed /\ pi[s].ack = n

\* The Pi repeats its receipt, or is typed in.
Repeats(s) ==
  LET n == pi[s].committed IN
  /\ PiTurn(s, pi[s], <<Frame("ready", n)>>)
  /\ pi[s].conn # 0 /\ pi[s].managed /\ pi' = pi /\ toPi' = toPi
TypedIn(s, e) ==
  LET c == pi[s].conn
      n == pi[s].committed IN
  /\ PiTurn(s, e, <<Frame("takeover", n)>>) /\ toPi' = toPi
  /\ e.alive = pi[s].alive /\ e.conn = c /\ e.managed = pi[s].managed /\ e.ack = pi[s].ack
  /\ e.sessionAck = pi[s].sessionAck /\ e.committed = n /\ e.takeover
  /\ IF n = Null \/ c = 0 THEN toGateway' = toGateway
     ELSE toGateway' = Written(c, <<Frame("takeover", n)>>)

\* The Pi opens the next connection.
Connects(s, c) ==
  /\ pi[s].alive /\ pi[s].conn = 0
  /\ owner[c] = Null /\ \A k \in 1..(c - 1) : owner[k] # Null
  /\ owner' = [owner EXCEPT ![c] = s] /\ serving' = serving \cup {c}
  /\ pi' = [pi EXCEPT ![s] = [@ EXCEPT !.conn = c]]
  /\ \E a \in Activities :
       toGateway' = [toGateway EXCEPT ![c] = <<[type |-> "register", activity |-> a]>>]
  /\ UNCHANGED <<stores, coordinator, leases, registry, toPi, counters>>

Turns(s) ==
  \/ \E c \in Conns : Connects(s, c)
  \/ \E e : Closes(s, e)
  \/ \E e, g : Passes(s, e, g)
  \/ \E e, n : Acknowledges(s, e, n) \/ Proves(s, e, n) \/ Applies(s, e, n)
  \/ Repeats(s)
  \/ \E e : TypedIn(s, e)

\* The Pi fails open.
LEMMA FailOpenCloses ==
  ASSUME WireTypes, NEW s \in Sessions, FailOpen(s), pi[s].conn # 0,
         UNCHANGED <<stores, coordinator, leases, registry, serving, owner>>
  PROVE  Turns(s)
<1>1. ASSUME NEW q \in Extensions
      PROVE LET e == [q EXCEPT !.conn = 0, !.rev = 0, !.managed = FALSE, !.ack = Null] IN
            /\ e \in Extensions /\ e.conn = 0 /\ ~e.managed /\ e.alive = q.alive
            /\ e.sessionAck = q.sessionAck /\ e.committed = q.committed
  BY DEF Extensions, RunOrNull
<1> DEFINE e == Offline(s)
<1>2. /\ e \in Extensions /\ e.conn = 0 /\ ~e.managed /\ e.alive = pi[s].alive
      /\ e.sessionAck = pi[s].sessionAck /\ e.committed = pi[s].committed
  BY <1>1 DEF WireTypes, Offline
<1> HIDE DEF e
<1>3. PiTurn(s, e, <<Closed>>) BY <1>2, FramesWritten DEF PiTurn, FailOpen, e
<1>4. pi[s].conn \in Conns /\ toPi'[pi[s].conn] = <<>> BY DEF FailOpen, WireTypes, Extensions
<1>5. QED BY <1>2, <1>3, <1>4 DEF Closes, Turns

\* What a frame of the Pi is not.
LEMMA FrameKinds ==
  /\ Silent(<<>>)
  /\ \A n : Silent(<<Frame("refused", n)>>) /\ Silent(<<Frame("proof", n)>>)
  /\ \A a : Silent(<<[type |-> "lifecycle", activity |-> a]>>)
  /\ \A q : Refers(<<>>, q) /\ \A a : Refers(<<[type |-> "lifecycle", activity |-> a]>>, q)
  /\ \A q, n : q # <<>> /\ Head(q).type = "request" /\ Head(q).run = n =>
       Refers(<<Frame("refused", n)>>, q)
<1>1. \A f : DOMAIN <<f>> = {1} /\ <<f>>[1] = f OBVIOUS
<1>2. DOMAIN <<>> = {} OBVIOUS
<1>3. \A n : Frame("refused", n).type = "refused" /\ Frame("proof", n).type = "proof"
             /\ Frame("refused", n).run = n
  BY DEF Frame
<1>4. QED BY <1>1, <1>2, <1>3 DEF Silent, Without, Refers

\* A Pi that takes a registration, or reports its activity.
LEMMA PassesBy ==
  ASSUME WireTypes, NEW s \in Sessions, ReceiveRegistered(s) \/ ChangeActivity(s)
  PROVE  Turns(s)
<1> DEFINE c == pi[s].conn
<1>0. pi[s] \in Extensions BY DEF WireTypes
<1>1. CASE ReceiveRegistered(s)
  <2> DEFINE e == [pi[s] EXCEPT !.rev = Received(s).rev]
  <2>1. Receives(s, {"registered"}) /\ toPi' = [toPi EXCEPT ![c] = Tail(@)]
        /\ pi' = [pi EXCEPT ![s] = e]
        /\ UNCHANGED <<stores, coordinator, leases, registry, serving, owner, toGateway>>
    BY <1>1 DEF ReceiveRegistered, Consumed
  <2>2. Received(s) \in FramesToPi /\ Received(s).type = "registered" BY <2>1, Receiving
  <2>3. Received(s).rev \in Nat BY <2>2 DEF FramesToPi
  <2>4. /\ e \in Extensions /\ e.conn = c /\ e.ack = pi[s].ack /\ e.managed = pi[s].managed
        /\ e.alive = pi[s].alive /\ e.sessionAck = pi[s].sessionAck
        /\ e.committed = pi[s].committed /\ e.takeover = pi[s].takeover
    BY <1>0, <2>3 DEF Extensions
  <2> HIDE DEF e
  <2>5. c # 0 /\ c \in Conns /\ toPi[c] # <<>> /\ Received(s) = Head(toPi[c]) BY <2>1, Receiving
  <2>6. PiTurn(s, e, <<>>) BY <2>1, <2>4, <2>5, NoFrames DEF PiTurn
  <2>7. toPi'[c] = Tail(toPi[c]) BY <2>1, <2>5 DEF WireTypes
  <2>8. Passes(s, e, <<>>) BY <2>2, <2>4, <2>5, <2>6, <2>7, FrameKinds DEF Passes
  <2>9. QED BY <2>8 DEF Turns
<1>2. CASE ChangeActivity(s)
  <2> DEFINE a == IF pi[s].activity = "idle" THEN "busy" ELSE "idle"
             e == [pi[s] EXCEPT !.activity = a]
             g == <<[type |-> "lifecycle", activity |-> a]>>
  <2>1. /\ pi' = [pi EXCEPT ![s] = e]
        /\ toGateway' = toGateway \/ toGateway' = Written(c, g)
        /\ toPi' = toPi
        /\ UNCHANGED <<stores, coordinator, leases, registry, serving, owner>>
    BY <1>2 DEF ChangeActivity
  <2>2. a \in Activities BY DEF Activities
  <2>3. /\ e \in Extensions /\ e.conn = c /\ e.managed = pi[s].managed /\ e.ack = pi[s].ack
        /\ e.alive = pi[s].alive /\ e.sessionAck = pi[s].sessionAck
        /\ e.committed = pi[s].committed /\ e.takeover = pi[s].takeover
    BY <1>0, <2>2 DEF Extensions
  <2>4. g \in Seq(FramesToGateway) /\ Without(g, "register") /\ Silent(g) /\ Refers(g, toPi[c])
    BY <2>2, FramesWritten, FrameKinds
  <2> HIDE DEF e, g
  <2>5. PiTurn(s, e, g)
    <3>1. CASE c = 0
      <4>1. toGateway' = toGateway BY <2>1, <3>1 DEF WireTypes, Written, Conns
      <4>2. QED BY <2>1, <2>3, <2>4, <3>1, <4>1 DEF PiTurn
    <3>2. CASE c # 0 BY <2>1, <2>3, <2>4, <3>2 DEF PiTurn
    <3>3. QED BY <3>1, <3>2
  <2>6. Passes(s, e, g) BY <2>1, <2>3, <2>4, <2>5 DEF Passes
  <2>7. QED BY <2>6 DEF Turns
<1>3. QED BY <1>1, <1>2

\* A Pi that takes a commitment.
LEMMA TakesCommitment ==
  ASSUME WireTypes, NEW s \in Sessions, ReceiveCommitted(s)
  PROVE  Turns(s)
<1> DEFINE c == pi[s].conn
           n == Received(s).run
<1>0. pi[s] \in Extensions BY DEF WireTypes
<1>1. Receives(s, {"committed"})
      /\ UNCHANGED <<stores, coordinator, leases, registry, serving, owner>>
  BY DEF ReceiveCommitted
<1>2. c # 0 /\ c \in Conns /\ toPi[c] # <<>> /\ Received(s) = Head(toPi[c])
      /\ Received(s) \in FramesToPi /\ Received(s).type = "committed"
  BY <1>1, Receiving
<1>3. n \in RunOrNull BY <1>2 DEF FramesToPi
<1>4. CASE pi[s].managed \/ (pi[s].rev = 0 /\ pi[s].ack = Null)
  <2>1. toPi' = [toPi EXCEPT ![c] = Tail(@)] /\ UNCHANGED <<pi, toGateway>>
    BY <1>4 DEF ReceiveCommitted, Consumed
  <2>2. PiTurn(s, pi[s], <<>>) BY <1>0, <1>1, <1>2, <2>1, NoFrames DEF PiTurn, WireTypes
  <2>3. toPi'[c] = Tail(toPi[c]) BY <1>2, <2>1 DEF WireTypes
  <2>4. Passes(s, pi[s], <<>>) BY <1>2, <1>4, <2>2, <2>3, FrameKinds DEF Passes
  <2>5. QED BY <2>4 DEF Turns
<1>5. CASE ~(pi[s].managed \/ (pi[s].rev = 0 /\ pi[s].ack = Null)) /\ pi[s].ack # n
  <2>1. FailOpen(s) BY <1>5 DEF ReceiveCommitted
  <2>2. QED BY <1>1, <1>2, <2>1, FailOpenCloses
<1>6. CASE ~(pi[s].managed \/ (pi[s].rev = 0 /\ pi[s].ack = Null)) /\ pi[s].ack = n
  <2> DEFINE e == [pi[s] EXCEPT !.managed = TRUE, !.committed = n]
             g == Receipts(pi[s], n)
  <2>1. pi' = [pi EXCEPT ![s] = e] /\ toGateway' = Written(c, g)
        /\ toPi' = [toPi EXCEPT ![c] = Tail(@)]
    BY <1>6 DEF ReceiveCommitted, Consumed
  <2>2. /\ e \in Extensions /\ e.conn = c /\ e.ack = pi[s].ack /\ e.managed
        /\ e.alive = pi[s].alive /\ e.sessionAck = pi[s].sessionAck
        /\ e.committed = n /\ e.takeover = pi[s].takeover
    BY <1>0, <1>3 DEF Extensions
  <2>3. g \in Seq(FramesToGateway) /\ Without(g, "register")
    BY <1>3, FramesWritten DEF Receipts
  <2> HIDE DEF e, g
  <2>4. PiTurn(s, e, g) BY <1>1, <1>2, <2>1, <2>2, <2>3 DEF PiTurn
  <2>5. toPi'[c] = Tail(toPi[c]) BY <1>2, <2>1 DEF WireTypes
  <2>6. Applies(s, e, n) BY <1>2, <1>3, <1>6, <2>1, <2>2, <2>4, <2>5 DEF Applies, g
  <2>7. QED BY <2>6 DEF Turns
<1>7. QED BY <1>4, <1>5, <1>6

\* A Pi that takes a request or a challenge.
LEMMA TakesRequest ==
  ASSUME WireTypes, NEW s \in Sessions, ReceiveRequest(s) \/ ReceiveChallenge(s)
  PROVE  Turns(s)
<1> DEFINE c == pi[s].conn
           n == Received(s).run
<1>1. Receives(s, {"request", "challenge"})
      /\ UNCHANGED <<stores, coordinator, leases, registry, serving, owner>>
  BY DEF ReceiveRequest, ReceiveChallenge, Receives
<1>2. /\ c # 0 /\ c \in Conns /\ toPi[c] # <<>> /\ Received(s) = Head(toPi[c])
      /\ Received(s) \in FramesToPi /\ Received(s).type \in {"request", "challenge"}
      /\ pi[s] \in Extensions
  BY <1>1, Receiving
<1>3. n \in RunOrNull BY <1>2 DEF FramesToPi
<1>4. toPi' = [toPi EXCEPT ![c] = Tail(@)] => toPi'[c] = Tail(toPi[c]) BY <1>2 DEF WireTypes
<1>5. CASE ReceiveRequest(s)
  <2> DEFINE q == IF pi[s].committed = Null /\ pi[s].candidate # n
                  THEN [pi[s] EXCEPT !.candidate = n, !.takeover = FALSE] ELSE pi[s]
  <2>1. toPi' = [toPi EXCEPT ![c] = Tail(@)] /\ Received(s).type = "request"
    BY <1>5 DEF ReceiveRequest, Receives, Received, Consumed
  <2>2. /\ q \in Extensions /\ q.conn = c /\ q.ack = pi[s].ack /\ q.managed = pi[s].managed
        /\ q.alive = pi[s].alive /\ q.sessionAck = pi[s].sessionAck
        /\ q.committed = pi[s].committed
        /\ q.takeover = pi[s].takeover \/ pi[s].committed = Null
    BY <1>2, <1>3 DEF Extensions
  <2>3. CASE pi[s].rev = 0 \/ Refuses(s, Received(s))
    <3> DEFINE g == IF pi[s].rev = 0 THEN <<>> ELSE <<Frame("refused", n)>>
    <3>1. pi' = [pi EXCEPT ![s] = q] /\ (toGateway' = toGateway \/ toGateway' = Written(c, g))
      BY <1>5, <2>3 DEF ReceiveRequest
    <3>2. g \in Seq(FramesToGateway) /\ Without(g, "register") /\ Silent(g) /\ Refers(g, toPi[c])
      BY <1>2, <1>3, <2>1, FramesWritten, NoFrames, FrameKinds
    <3> HIDE DEF q, g
    <3>3. PiTurn(s, q, g) BY <1>1, <1>2, <2>1, <2>2, <3>1, <3>2 DEF PiTurn
    <3>4. Passes(s, q, g) BY <1>2, <1>4, <2>1, <2>2, <3>2, <3>3 DEF Passes
    <3>5. QED BY <3>4 DEF Turns
  <2>4. CASE ~(pi[s].rev = 0 \/ Refuses(s, Received(s)))
    <3> DEFINE e == AcknowledgedBy(q, n)
               g == <<Frame("acknowledged", n)>>
    <3>1. pi' = [pi EXCEPT ![s] = e] /\ toGateway' = Written(c, g) /\ ~pi[s].managed
      BY <1>5, <2>4 DEF ReceiveRequest, Refuses
    <3>2. \A r \in Extensions : LET a == AcknowledgedBy(r, n) IN
            /\ a \in Extensions /\ a.conn = r.conn /\ a.managed = r.managed /\ a.ack = n
            /\ a.alive = r.alive /\ a.sessionAck = n /\ a.committed = r.committed
            /\ a.takeover = r.takeover
      BY <1>3 DEF AcknowledgedBy, Extensions
    <3> HIDE DEF q
    <3>3. /\ e \in Extensions /\ e.conn = c /\ e.ack = n /\ e.managed = pi[s].managed
          /\ e.alive = pi[s].alive /\ e.sessionAck = n /\ e.committed = pi[s].committed
          /\ e.takeover = pi[s].takeover \/ pi[s].committed = Null
      BY <2>2, <3>2
    <3>4. g \in Seq(FramesToGateway) /\ Without(g, "register") BY <1>3, FramesWritten
    <3> HIDE DEF e, g
    <3>5. PiTurn(s, e, g) BY <1>1, <1>2, <2>1, <3>1, <3>3, <3>4 DEF PiTurn
    <3>6. Acknowledges(s, e, n)
      BY <1>2, <1>3, <1>4, <2>1, <3>1, <3>3, <3>5 DEF Acknowledges, Replies, g
    <3>7. QED BY <3>6 DEF Turns
  <2>5. QED BY <2>3, <2>4
<1>6. CASE ReceiveChallenge(s) /\ pi[s].sessionAck # n
  <2>1. FailOpen(s) BY <1>6 DEF ReceiveChallenge
  <2>2. QED BY <1>1, <1>2, <2>1, FailOpenCloses
<1>7. CASE ReceiveChallenge(s) /\ pi[s].sessionAck = n
  <2> DEFINE e == [pi[s] EXCEPT !.ack = n]
             g == <<Frame("proof", n)>>
  <2>1. /\ pi' = [pi EXCEPT ![s] = e] /\ toGateway' = Written(c, g)
        /\ toPi' = [toPi EXCEPT ![c] = Tail(@)] /\ Received(s).type = "challenge"
    BY <1>7 DEF ReceiveChallenge, Consumed, Receives, Received
  <2>2. /\ e \in Extensions /\ e.conn = c /\ e.ack = n /\ e.managed = pi[s].managed
        /\ e.alive = pi[s].alive /\ e.sessionAck = n /\ e.committed = pi[s].committed
        /\ e.takeover = pi[s].takeover
    BY <1>2, <1>3, <1>7 DEF Extensions
  <2>3. g \in Seq(FramesToGateway) /\ Without(g, "register") BY <1>3, FramesWritten
  <2> HIDE DEF e, g
  <2>4. PiTurn(s, e, g) BY <1>1, <1>2, <2>1, <2>2, <2>3 DEF PiTurn
  <2>5. Proves(s, e, n) BY <1>2, <1>3, <1>4, <1>7, <2>1, <2>2, <2>4 DEF Proves, Replies, g
  <2>6. QED BY <2>5 DEF Turns
<1>8. QED BY <1>5, <1>6, <1>7

\* A Pi that reports its lease or its input, or ends.
LEMMA ReportsItself ==
  ASSUME WireTypes, NEW s \in Sessions, RepeatReady(s) \/ Input(s) \/ Quit(s)
  PROVE  Turns(s)
<1> DEFINE c == pi[s].conn
           n == pi[s].committed
<1>0. pi[s] \in Extensions BY DEF WireTypes
<1>1. n \in RunOrNull BY <1>0 DEF Extensions
<1>2. CASE RepeatReady(s)
  <2>1. c # 0 /\ toGateway' = Written(c, <<Frame("ready", n)>>) /\ pi[s].managed
        /\ UNCHANGED <<stores, coordinator, leases, registry, serving, owner, toPi, pi>>
    BY <1>2 DEF RepeatReady
  <2> DEFINE g == <<Frame("ready", n)>>
  <2>2. g \in Seq(FramesToGateway) /\ Without(g, "register") BY <1>1, FramesWritten
  <2>3. PiTurn(s, pi[s], g) BY <1>0, <2>1, <2>2 DEF PiTurn, WireTypes
  <2>4. QED BY <2>1, <2>3 DEF Repeats, Turns
<1>3. CASE Input(s)
  <2> DEFINE e == [pi[s] EXCEPT !.takeover = TRUE]
             g == <<Frame("takeover", n)>>
  <2>1. /\ pi' = [pi EXCEPT ![s] = e] /\ toPi' = toPi
        /\ IF n = Null \/ c = 0 THEN toGateway' = toGateway ELSE toGateway' = Written(c, g)
        /\ UNCHANGED <<stores, coordinator, leases, registry, serving, owner>>
    BY <1>3 DEF Input
  <2>2. /\ e \in Extensions /\ e.conn = c /\ e.managed = pi[s].managed /\ e.ack = pi[s].ack
        /\ e.alive = pi[s].alive /\ e.sessionAck = pi[s].sessionAck
        /\ e.committed = n /\ e.takeover
    BY <1>0 DEF Extensions
  <2>3. g \in Seq(FramesToGateway) /\ Without(g, "register") BY <1>1, FramesWritten
  <2> HIDE DEF e, g
  <2>4. PiTurn(s, e, g)
    <3>1. CASE c = 0 BY <2>1, <2>2, <2>3, <3>1 DEF PiTurn
    <3>2. CASE c # 0 BY <2>1, <2>2, <2>3, <3>2 DEF PiTurn
    <3>3. QED BY <3>1, <3>2
  <2>5. TypedIn(s, e) BY <2>1, <2>2, <2>4 DEF TypedIn, g
  <2>6. QED BY <2>5 DEF Turns
<1>4. CASE Quit(s)
  <2> DEFINE e == [FreshPi EXCEPT !.alive = FALSE]
  <2>1. e \in Extensions /\ e.conn = 0 /\ ~e.managed /\ ~e.alive /\ e.committed = Null
    BY DEF FreshPi, Extensions, RunOrNull, Activities
  <2> HIDE DEF e
  <2>2. PiTurn(s, e, <<Closed>>) BY <1>4, <2>1, FramesWritten DEF PiTurn, Quit, e
  <2>3. c # 0 => toPi'[c] = <<>> BY <1>0, <1>4 DEF Quit, WireTypes, Extensions
  <2>4. Closes(s, e) BY <2>1, <2>2, <2>3 DEF Closes
  <2>5. QED BY <2>4 DEF Turns
<1>5. QED BY <1>2, <1>3, <1>4

\* What a step of a Pi is.
LEMMA PiTurns ==
  ASSUME WireTypes, PiStep
  PROVE  \E s \in Sessions : Turns(s)
<1>1. PICK s \in Sessions :
         \/ Connect(s) \/ ReceiveRegistered(s) \/ ReceiveRequest(s) \/ ReceiveChallenge(s)
         \/ ReceiveCommitted(s) \/ ReceiveEnd(s)
         \/ RepeatReady(s) \/ Input(s) \/ ChangeActivity(s) \/ Disconnect(s) \/ Quit(s)
  BY DEF PiStep
<1>2. CASE Connect(s)
  <2>1. PICK c \in Conns :
          /\ pi[s].alive /\ pi[s].conn = 0
          /\ owner[c] = Null /\ \A k \in 1..(c - 1) : owner[k] # Null
          /\ owner' = [owner EXCEPT ![c] = s] /\ serving' = serving \cup {c}
          /\ pi' = [pi EXCEPT ![s] = [@ EXCEPT !.conn = c]]
          /\ toGateway' = [toGateway EXCEPT ![c] =
               <<[type |-> "register", activity |-> pi[s].activity]>>]
          /\ UNCHANGED <<stores, coordinator, leases, registry, toPi, counters>>
    BY <1>2 DEF Connect
  <2>2. pi[s].activity \in Activities BY DEF WireTypes, Extensions
  <2>3. Connects(s, c) BY <2>1, <2>2 DEF Connects
  <2>4. QED BY <2>3 DEF Turns
<1>3. CASE ReceiveEnd(s) BY <1>3, Receiving, FailOpenCloses DEF ReceiveEnd
<1>4. CASE Disconnect(s) BY <1>4, FailOpenCloses DEF Disconnect
<1>5. QED
  BY <1>1, <1>2, <1>3, <1>4, PassesBy, TakesCommitment, TakesRequest, ReportsItself

-----------------------------------------------------------------------------
(* What comes into a queue of frames. *)

\* Of the frames in r, those that were not in q are in new.
Gains(q, r, new) == \A i \in DOMAIN r : r[i] \in new \/ \E j \in DOMAIN q : r[i] = q[j]

\* The frames of a queue.
FramesOf(q) == {q[i] : i \in DOMAIN q}

\* A queue that stays or is emptied gains nothing.
LEMMA GainsNothing ==
  \A q, new : Gains(q, q, new) /\ Gains(q, <<>>, new)
<1>1. DOMAIN <<>> = {} OBVIOUS
<1>2. QED BY <1>1 DEF Gains

\* A frame the gateway takes is one that was there.
LEMMA HandledGains ==
  ASSUME WireTypes, NEW c, NEW types, Handles(c, types), Handled(c)
  PROVE  /\ \A k \in Conns : Gains(toGateway[k], toGateway'[k], {})
         /\ 1 \in DOMAIN toGateway[c] /\ toGateway[c][1] = Head(toGateway[c])
         /\ Head(toGateway[c]).type \in types
<1>1. /\ c \in Conns /\ toGateway[c] \in Seq(FramesToGateway) /\ toGateway[c] # <<>>
      /\ toGateway'[c] = Tail(toGateway[c])
      /\ \A k \in Conns : k # c => toGateway'[k] = toGateway[k]
  BY HandledFrom
<1>2. \A i \in DOMAIN Tail(toGateway[c]) :
        \E j \in DOMAIN toGateway[c] : Tail(toGateway[c])[i] = toGateway[c][j]
  BY <1>1, TailToGateway
<1>3. 1 \in DOMAIN toGateway[c] /\ toGateway[c][1] = Head(toGateway[c])
  BY <1>1, TailOf
<1>4. Gains(toGateway[c], Tail(toGateway[c]), {}) BY <1>2 DEF Gains
<1>5. \A k \in Conns : Gains(toGateway[k], toGateway'[k], {}) BY <1>1, <1>4, GainsNothing
<1>6. QED BY <1>3, <1>5 DEF Handles

\* A frame sent is the only new one.
LEMMA SentGains ==
  ASSUME WireTypes, NEW c \in Conns, NEW f \in FramesToPi, toPi' = Sent(c, f)
  PROVE  \A k \in Conns : Gains(toPi[k], toPi'[k], IF k = c THEN {f} ELSE {})
<1>1. \A k \in Conns : k # c => toPi'[k] = toPi[k] BY SentTo
<1>2. toPi'[c] = toPi[c] \/ toPi'[c] = Append(toPi[c], f) BY SentTo
<1>3. toPi[c] \in Seq(FramesToPi) BY DEF WireTypes
<1>4. Gains(toPi[c], Append(toPi[c], f), {f}) BY <1>3, AppendedTo DEF Gains
<1>5. QED BY <1>1, <1>2, <1>4 DEF Gains

\* The frames a Pi writes are the only new ones, and it only reads the others.
LEMMA TurnGains ==
  ASSUME WireTypes, NEW s \in Sessions, NEW e, NEW g, PiTurn(s, e, g)
  PROVE  /\ \A k \in Conns :
              Gains(toGateway[k], toGateway'[k], IF k = pi[s].conn THEN FramesOf(g) ELSE {})
         /\ \A k \in Conns : Gains(toPi[k], toPi'[k], {})
         /\ \A k \in Conns : k # pi[s].conn => toGateway'[k] = toGateway[k] /\ toPi'[k] = toPi[k]
         /\ \A k \in Conns : Without(toGateway[k], "register") => Without(toGateway'[k], "register")
<1> DEFINE c == pi[s].conn
<1>1. CASE c = 0
  <2>1. toGateway' = toGateway /\ toPi' = toPi BY <1>1 DEF PiTurn
  <2>2. QED BY <1>1, <2>1, GainsNothing DEF Conns
<1>2. CASE c # 0
  <2>1. c \in Conns BY <1>2 DEF WireTypes, Extensions
  <2>2. toGateway[c] \in Seq(FramesToGateway) /\ g \in Seq(FramesToGateway)
        /\ Without(g, "register") /\ toPi[c] \in Seq(FramesToPi)
    BY <2>1 DEF WireTypes, PiTurn
  <2>3. /\ toGateway' = toGateway \/ toGateway' = [toGateway EXCEPT ![c] = @ \o g]
        /\ \/ toPi' = toPi
           \/ toPi[c] # <<>> /\ toPi' = [toPi EXCEPT ![c] = Tail(@)]
           \/ toPi' = [toPi EXCEPT ![c] = <<>>]
    BY <1>2 DEF PiTurn, Written
  <2>4. /\ \A k \in Conns : k # c => toGateway'[k] = toGateway[k] /\ toPi'[k] = toPi[k]
        /\ toGateway'[c] = toGateway[c] \/ toGateway'[c] = toGateway[c] \o g
        /\ \/ toPi'[c] = toPi[c] \/ toPi'[c] = <<>>
           \/ toPi[c] # <<>> /\ toPi'[c] = Tail(toPi[c])
    BY <2>1, <2>3 DEF WireTypes
  <2>5. Gains(toGateway[c], toGateway[c] \o g, FramesOf(g))
        /\ (Without(toGateway[c], "register") => Without(toGateway[c] \o g, "register"))
    BY <2>2, ConcatToGateway DEF Gains, FramesOf
  <2>6. toPi[c] # <<>> => Gains(toPi[c], Tail(toPi[c]), {}) BY <2>2, TailOf DEF Gains
  <2>7. \A k \in Conns :
          Gains(toGateway[k], toGateway'[k], IF k = pi[s].conn THEN FramesOf(g) ELSE {})
    <3> SUFFICES ASSUME NEW k \in Conns
                 PROVE  Gains(toGateway[k], toGateway'[k],
                              IF k = pi[s].conn THEN FramesOf(g) ELSE {})
      OBVIOUS
    <3>1. CASE k = c BY <2>4, <2>5, <3>1, GainsNothing
    <3>2. CASE k # c BY <2>4, <3>2, GainsNothing
    <3>3. QED BY <3>1, <3>2
  <2>8. \A k \in Conns : Gains(toPi[k], toPi'[k], {})
    BY <2>4, <2>6, GainsNothing
  <2>9. QED BY <2>4, <2>5, <2>7, <2>8
<1>3. QED BY <1>1, <1>2

-----------------------------------------------------------------------------
(* The order of connections. *)

\* A connection that was used has an owner.
LEMMA UsedOwned ==
  ASSUME Ledger, NEW c \in Conns, Used(c)
  PROVE  owner[c] \in Sessions /\ owner[c] # Null
  BY StoresAssumption DEF Ledger, Used, ProposalsSound, EntriesSound, ProposalTypes

\* A step that opens no connection, uses none and registers none.
LEMMA OrderQuiet ==
  ASSUME ContractInv, OrderSound, owner' = owner,
         highWater' \in [Sessions -> Conns \cup {0}],
         \A s \in Sessions : highWater[s] <= highWater'[s],
         \A s \in Sessions : pi'[s].conn \in {pi[s].conn, 0},
         \A c \in Conns : Registers(c)' => Registers(c),
         \A c \in Conns : Used(c)' => Used(c),
         \A s \in Sessions : observed'[s] # Null =>
           observed[s] # Null /\ observed'[s].conn = observed[s].conn
  PROVE  OrderSound'
<1>0. \A c \in Conns : Used(c) => owner[c] \in Sessions /\ owner[c] # Null
  BY UsedOwned DEF ContractInv
<1>1. \A s \in Sessions, c \in Conns : pi'[s].conn # 0 /\ owner'[c] = s => c <= pi'[s].conn
  BY DEF OrderSound
<1>2. \A c, k \in Conns :
        Registers(c)' /\ Used(k)' /\ c < k /\ owner[c] = owner[k] => k <= highWater'[owner[k]]
  <2> SUFFICES ASSUME NEW c \in Conns, NEW k \in Conns, Registers(c)', Used(k)', c < k,
                      owner[c] = owner[k]
               PROVE  k <= highWater'[owner[k]]
    OBVIOUS
  <2>1. owner[k] \in Sessions /\ k <= highWater[owner[k]] BY <1>0 DEF OrderSound
  <2>2. highWater[owner[k]] <= highWater'[owner[k]] BY <2>1
  <2>3. highWater[owner[k]] \in Nat /\ highWater'[owner[k]] \in Nat /\ k \in Nat
    BY <2>1 DEF OrderSound, Conns
  <2>4. QED BY <2>1, <2>2, <2>3
<1>3. \A s \in Sessions, c \in Conns :
        pi'[s].conn = c /\ Used(c)' /\ observed'[s] # Null => observed'[s].conn = c
  <2> SUFFICES ASSUME NEW s \in Sessions, NEW c \in Conns, pi'[s].conn = c, Used(c)',
                      observed'[s] # Null
               PROVE  observed'[s].conn = c
    OBVIOUS
  <2>1. pi[s].conn = c BY DEF Conns
  <2>2. QED BY <2>1 DEF OrderSound
<1>4. QED BY <1>1, <1>2, <1>3 DEF OrderSound

\* A step of the gateway that only forgets.
LEMMA OrderShrinks ==
  ASSUME ContractInv, OrderSound, Shrinks, pi' = pi, owner' = owner,
         highWater' \in [Sessions -> Conns \cup {0}],
         \A s \in Sessions : highWater[s] <= highWater'[s],
         \A c \in Conns : Without(toGateway[c], "register") => Without(toGateway'[c], "register")
  PROVE  OrderSound'
<1>1. \A c \in Conns : Used(c)' => Used(c) BY UsedBefore
<1>2. \A c \in Conns : Registers(c)' => Registers(c) BY DEF Registers
<1>3. \A s \in Sessions : observed'[s] # Null =>
        observed[s] # Null /\ observed'[s].conn = observed[s].conn
  BY DEF Shrinks
<1>4. \A s \in Sessions : pi'[s].conn \in {pi[s].conn, 0} OBVIOUS
<1>5. QED BY <1>1, <1>2, <1>3, <1>4, OrderQuiet

\* A quiet step.
LEMMA OrderQuietStep ==
  ASSUME ContractInv, OrderSound, Shrinks, QuietWire, highWater' = highWater
  PROVE  OrderSound'
<1>1. QuietQueues({"request"}) /\ pi' = pi /\ owner' = owner BY DEF QuietWire, QuietQueues
<1>2. QueuesKept BY <1>1, QueuesKeep DEF ContractInv, Frames
<1>3. \A c \in Conns : Without(toGateway[c], "register") => Without(toGateway'[c], "register")
  BY <1>2 DEF QueuesKept
<1>4. highWater' \in [Sessions -> Conns \cup {0}] /\ \A s \in Sessions : highWater[s] <= highWater'[s]
  BY DEF OrderSound, Conns
<1>5. QED BY <1>1, <1>3, <1>4, OrderShrinks

\* A registration raises the mark of its session and uses its connection.
LEMMA RegisterOrder ==
  ASSUME ContractInv, OrderSound, NEW c \in Conns, HandleRegister(c)
  PROVE  OrderSound'
<1> USE DEF ContractInv, Ledger, Frames
<1> DEFINE s == owner[c]
<1>1. Handles(c, {"register"}) /\ Handled(c) /\ UNCHANGED <<serving, owner, pi>>
  BY DEF HandleRegister
<1>2. /\ s \in Sessions /\ s # Null /\ toGateway[c] \in Seq(FramesToGateway) /\ toGateway[c] # <<>>
      /\ toGateway'[c] = Tail(toGateway[c])
      /\ \A k \in Conns : k # c => toGateway'[k] = toGateway[k]
  BY <1>1, HandledFrom
<1>3. Registers(c) BY <1>1, HandledGains DEF Registers, Without
<1>4. Without(toGateway'[c], "register") BY <1>2, TailToGateway DEF RegistersSound
<1>5. \A k \in Conns : Without(toGateway[k], "register") => Without(toGateway'[k], "register")
  BY <1>2, <1>4
<1>6. ASSUME ~(c <= highWater[s]), highWater' = [highWater EXCEPT ![s] = c]
      PROVE  /\ highWater' \in [Sessions -> Conns \cup {0}]
             /\ \A k \in Sessions : highWater[k] <= highWater'[k]
  BY <1>2, <1>6 DEF OrderSound, Conns
<1>7. CASE TurnsAway(c)
  <2>1. Shrinks
    BY <1>7 DEF TurnsAway, Shrinks, coordinator, leases, ProposalTypes, EntryTypes
  <2>2. /\ highWater' \in [Sessions -> Conns \cup {0}]
        /\ \A k \in Sessions : highWater[k] <= highWater'[k]
    BY <1>6, <1>7 DEF TurnsAway, registry, OrderSound, Conns
  <2>3. QED BY <1>1, <1>5, <2>1, <2>2, OrderShrinks
<1>8. CASE Recovers(c)
  <2>1. Shrinks BY <1>8, Losing DEF Recovers
  <2>2. /\ highWater' \in [Sessions -> Conns \cup {0}]
        /\ \A k \in Sessions : highWater[k] <= highWater'[k]
    BY <1>8 DEF Recovers, registry, OrderSound, Conns
  <2>3. QED BY <1>1, <1>5, <2>1, <2>2, OrderShrinks
<1>9. CASE Observes(c)
  <2>1. ~(c <= highWater[s]) /\ highWater' = [highWater EXCEPT ![s] = c] /\ proposal' = proposal
        /\ \E a : observed' = [observed EXCEPT ![s] = ObservedEntry(c, revision + 1, a)]
    BY <1>9 DEF Observes
  <2>2. /\ highWater' \in [Sessions -> Conns \cup {0}] /\ highWater'[s] = c
        /\ \A k \in Sessions : highWater[k] <= highWater'[k]
    BY <1>2, <1>6, <2>1 DEF OrderSound, Conns
  <2>3. observed'[s].conn = c /\ \A k \in Sessions : k # s => observed'[k] = observed[k]
    BY <1>2, <2>1 DEF ObservedEntry, EntryTypes
  <2>4. \A p \in Proposals : phase'[p] # "unused" => phase[p] # "unused"
    BY <1>9 DEF Observes, Invalidate, PendingOf, ProposalsSound, InPlay
  <2> HIDE DEF s
  <2>5. \A k \in Conns : Used(k)' => Used(k) \/ k = c
    BY <2>1, <2>3, <2>4 DEF Used
  <2>6. \A k \in Conns : Registers(k)' => Registers(k) /\ k # c BY <1>4, <1>5 DEF Registers
  <2>7. \A k, m \in Conns :
          Registers(k)' /\ Used(m)' /\ k < m /\ owner[k] = owner[m] => m <= highWater'[owner[m]]
    <3> SUFFICES ASSUME NEW k \in Conns, NEW m \in Conns, Registers(k)', Used(m)', k < m,
                        owner[k] = owner[m]
                 PROVE  m <= highWater'[owner[m]]
      OBVIOUS
    <3>1. CASE m = c BY <2>2, <3>1 DEF s, Conns
    <3>2. CASE m # c
      <4>1. Used(m) /\ Registers(k) BY <2>5, <2>6, <3>2
      <4>2. owner[m] \in Sessions /\ m <= highWater[owner[m]] BY <4>1, UsedOwned DEF OrderSound
      <4>3. highWater[owner[m]] <= highWater'[owner[m]]
            /\ highWater[owner[m]] \in Nat /\ highWater'[owner[m]] \in Nat /\ m \in Nat
        BY <2>2, <4>2 DEF OrderSound, Conns
      <4>4. QED BY <4>2, <4>3
    <3>3. QED BY <3>1, <3>2
  <2>8. \A t \in Sessions, k \in Conns :
          pi[t].conn = k /\ Used(k)' /\ observed'[t] # Null => observed'[t].conn = k
    <3> SUFFICES ASSUME NEW t \in Sessions, NEW k \in Conns, pi[t].conn = k, Used(k)',
                        observed'[t] # Null
                 PROVE  observed'[t].conn = k
      OBVIOUS
    <3>1. owner[k] = t BY DEF WireTypes, Conns
    <3>2. CASE t = s
      <4>1. CASE k = c BY <2>3, <3>2, <4>1
      <4>2. CASE k # c
        <5>1. c <= k BY <1>2, <3>2 DEF OrderSound, s, Conns
        <5>2. c < k BY <4>2, <5>1 DEF Conns
        <5>3. Used(k) BY <2>5, <4>2
        <5>4. k <= highWater[s] BY <1>3, <3>1, <3>2, <5>2, <5>3 DEF OrderSound, s
        <5>5. c <= highWater[s] BY <5>2, <5>4, <1>2 DEF OrderSound, Conns
        <5>6. QED BY <2>1, <5>5
      <4>3. QED BY <4>1, <4>2
    <3>3. CASE t # s
      <4>1. Used(k) BY <1>2, <2>5, <3>1, <3>3 DEF s
      <4>2. observed'[t] = observed[t] BY <2>3, <3>3
      <4>3. QED BY <4>1, <4>2 DEF OrderSound
    <3>4. QED BY <3>2, <3>3
  <2>9. QED BY <1>1, <2>2, <2>7, <2>8 DEF OrderSound
<1>10. QED BY <1>7, <1>8, <1>9, Registrations

\* A connection opened is later than every other, and nobody used it.
LEMMA ConnectOrder ==
  ASSUME ContractInv, OrderSound, NEW s \in Sessions, NEW c \in Conns, Connects(s, c)
  PROVE  OrderSound'
<1> USE DEF ContractInv, Frames
<1>1. /\ pi[s].conn = 0 /\ owner[c] = Null /\ \A k \in 1..(c - 1) : owner[k] # Null
      /\ owner' = [owner EXCEPT ![c] = s]
      /\ pi' = [pi EXCEPT ![s] = [@ EXCEPT !.conn = c]]
      /\ UNCHANGED <<observed, highWater, phase, proposal>>
  BY DEF Connects, coordinator, leases, registry
<1>2. PICK f : toGateway' = [toGateway EXCEPT ![c] = <<f>>] BY DEF Connects
<1>3. /\ owner'[c] = s /\ s # Null /\ \A k \in Conns : k # c => owner'[k] = owner[k]
      /\ \A k \in Conns : k # c => toGateway'[k] = toGateway[k]
  BY <1>1, <1>2, StoresAssumption DEF WireTypes
<1>4. /\ pi'[s].conn = c /\ \A t \in Sessions : t # s => pi'[t].conn = pi[t].conn
  BY <1>1 DEF WireTypes, Extensions
<1>5. \A k \in Conns : c < k => owner[k] = Null BY <1>1 DEF OrderSound
<1>6. \A k \in Conns : k < c => k \in 1..(c - 1) BY DEF Conns
<1>7. ~Used(c) BY <1>1, UsedOwned
<1>8. \A k \in Conns : Used(k)' => Used(k) /\ owner[k] # Null /\ k # c
  BY <1>1, <1>7, UsedOwned DEF Used
<1>9. \A k, m \in Conns : k < m /\ owner'[k] = Null => owner'[m] = Null
  <2> SUFFICES ASSUME NEW k \in Conns, NEW m \in Conns, k < m, owner'[k] = Null
               PROVE  owner'[m] = Null
    OBVIOUS
  <2>1. k # c /\ owner[k] = Null BY <1>3
  <2>2. owner[m] = Null BY <2>1 DEF OrderSound
  <2>3. c <= k BY <1>1, <1>6, <2>1 DEF Conns
  <2>4. m # c BY <2>3 DEF Conns
  <2>5. QED BY <1>3, <2>2, <2>4
<1>10. \A t \in Sessions, k \in Conns : pi'[t].conn # 0 /\ owner'[k] = t => k <= pi'[t].conn
  <2> SUFFICES ASSUME NEW t \in Sessions, NEW k \in Conns, pi'[t].conn # 0, owner'[k] = t
               PROVE  k <= pi'[t].conn
    OBVIOUS
  <2>1. t # Null BY StoresAssumption
  <2>2. CASE t = s
    <3>1. k = c \/ owner[k] # Null BY <1>3, <2>1
    <3>2. k <= c BY <1>5, <3>1 DEF Conns
    <3>3. QED BY <1>4, <2>2, <3>2
  <2>3. CASE t # s
    <3>1. owner[k] = t /\ pi'[t].conn = pi[t].conn BY <1>3, <1>4, <2>3
    <3>2. QED BY <3>1 DEF OrderSound
  <2>4. QED BY <2>2, <2>3
<1>11. \A k, m \in Conns :
         Registers(k)' /\ Used(m)' /\ k < m /\ owner'[k] = owner'[m] => m <= highWater'[owner'[m]]
  <2> SUFFICES ASSUME NEW k \in Conns, NEW m \in Conns, Registers(k)', Used(m)', k < m,
                      owner'[k] = owner'[m]
               PROVE  m <= highWater'[owner'[m]]
    OBVIOUS
  <2>1. Used(m) /\ m # c /\ owner[m] # Null BY <1>8
  <2>2. k # c BY <1>5, <2>1
  <2>3. Registers(k) /\ owner[k] = owner[m] /\ owner'[m] = owner[m]
    BY <1>3, <2>1, <2>2 DEF Registers
  <2>4. QED BY <1>1, <2>1, <2>3 DEF OrderSound
<1>12. \A t \in Sessions, k \in Conns :
         pi'[t].conn = k /\ Used(k)' /\ observed'[t] # Null => observed'[t].conn = k
  <2> SUFFICES ASSUME NEW t \in Sessions, NEW k \in Conns, pi'[t].conn = k, Used(k)',
                      observed'[t] # Null
               PROVE  observed'[t].conn = k
    OBVIOUS
  <2>1. Used(k) /\ k # c BY <1>8
  <2>2. t # s /\ pi[t].conn = k BY <1>4, <2>1
  <2>3. QED BY <1>1, <2>1, <2>2 DEF OrderSound
<1>13. highWater' \in [Sessions -> Conns \cup {0}] BY <1>1 DEF OrderSound
<1>14. QED BY <1>9, <1>10, <1>11, <1>12, <1>13 DEF OrderSound

\* Connections are opened in order, and the last one of a session is the one
\* its Pi has.
LEMMA OrderKept ==
  ASSUME ContractInv, OrderSound, Next
  PROVE  OrderSound'
<1> USE DEF ContractInv
<1>1. ASSUME NEW c \in Conns, HandleRegister(c) PROVE OrderSound'
  BY <1>1, RegisterOrder
<1>2. ASSUME NEW c \in Conns,
             HandleRecoveryProof(c) \/ HandleReady(c) \/ HandleTakeover(c) \/ HandleClosed(c)
      PROVE  OrderSound'
  <2>1. highWater' = highWater
    BY <1>2 DEF HandleRecoveryProof, HandleReady, HandleTakeover, HandleClosed, Reject, registry
  <2>2. QED BY <1>2, <2>1, QuietHandlers, OrderQuietStep DEF Quiet
<1>3. ASSUME NEW c \in Conns, HandleLifecycle(c) PROVE OrderSound'
  <2>1. highWater' = highWater BY <1>3 DEF HandleLifecycle, Reject, registry
  <2>2. QED BY <1>3, <2>1, LifecycleFrames, OrderQuietStep
<1>4. ASSUME NEW c \in Conns, HandleAcknowledgement(c) PROVE OrderSound'
  <2>1. highWater' = highWater /\ pi' = pi /\ owner' = owner /\ Handled(c)
        /\ Handles(c, {"acknowledged", "refused"})
    BY <1>4 DEF HandleAcknowledgement, registry
  <2>2. CASE Quiet BY <2>1, <2>2, OrderQuietStep DEF Quiet
  <2>3. CASE Accepts(c, FrameRun(c))
    <3> DEFINE p == FrameRun(c)
    <3>1. /\ phase' = [phase EXCEPT ![p] = "acknowledged"] /\ phase[p] # "unused"
          /\ UNCHANGED <<proposal, observed>>
      BY <2>3 DEF Accepts
    <3> HIDE DEF p
    <3>2. \A k \in Conns : Used(k)' => Used(k) BY <3>1 DEF Used, Ledger, ProposalTypes
    <3>3. toGateway[c] \in Seq(FramesToGateway) /\ toGateway[c] # <<>>
          /\ toGateway'[c] = Tail(toGateway[c]) /\ \A k \in Conns : k # c => toGateway'[k] = toGateway[k]
      BY <2>1, HandledFrom DEF Frames
    <3>4. \A k \in Conns : Registers(k)' => Registers(k) BY <3>3, TailToGateway DEF Registers
    <3>5. highWater' \in [Sessions -> Conns \cup {0}]
          /\ \A s \in Sessions : highWater[s] <= highWater'[s]
      BY <2>1 DEF OrderSound, Conns
    <3>6. QED BY <2>1, <3>1, <3>2, <3>4, <3>5, OrderQuiet
  <2>4. QED BY <1>4, <2>2, <2>3, Answers
<1>5. ASSUME UNCHANGED <<highWater, pi, owner, toGateway>>, Shrinks PROVE OrderSound'
  BY <1>5, OrderShrinks DEF OrderSound, Conns
<1>6. ASSUME NEW p \in Proposals, CommitAcknowledged(p) PROVE OrderSound'
  <2>1. UNCHANGED <<highWater, pi, owner, toGateway>> BY <1>6 DEF CommitAcknowledged, registry
  <2>2. QED BY <1>5, <1>6, <2>1, CommitFrames
<1>7. ASSUME Lapse \/ Sweep \/ \E p \in Proposals : CommitRefused(p) PROVE OrderSound'
  <2>1. UNCHANGED <<highWater, pi, owner, toGateway>>
    BY <1>7 DEF Lapse, Sweep, CommitRefused, registry, wire
  <2>2. QED BY <1>5, <1>7, <2>1, QuietDeadlines DEF Quiet
<1>8. CASE CrashGateway
  <2>1. /\ highWater' = [s \in Sessions |-> 0] /\ toGateway' = [c \in Conns |-> <<>>]
        /\ observed' = [s \in Sessions |-> Null] /\ UNCHANGED <<owner, pi>>
    BY <1>8 DEF CrashGateway
  <2>2. \A c \in Conns : ~Registers(c)' BY <2>1 DEF Registers, Without
  <2>3. QED BY <2>1, <2>2 DEF OrderSound
<1>9. ASSUME NEW s \in Sessions, NEW r \in Roles, RequestAdoption(s, r) PROVE OrderSound'
  <2>1. PICK n : Proposes(n, s, r) BY <1>9, Requesting
  <2>2. /\ UNCHANGED <<observed, highWater, pi, owner, toGateway>>
        /\ proposal' = [proposal EXCEPT ![n] = ProposalFor(s, r)]
        /\ \A p \in Proposals : p # n /\ phase'[p] # "unused" => phase[p] # "unused"
        /\ observed[s] # Null
    BY <2>1 DEF Proposes, leases, registry, wire, PendingOf, Ledger, ProposalsSound, InPlay
  <2>3. \A c \in Conns : Used(c)' => Used(c)
    BY <1>9, <2>2 DEF Used, ProposalFor, Ledger, ProposalTypes
  <2>4. highWater' \in [Sessions -> Conns \cup {0}] /\ \A t \in Sessions : highWater[t] <= highWater'[t]
    BY <2>2 DEF OrderSound, Conns
  <2>5. QED BY <2>2, <2>3, <2>4, OrderQuiet DEF Registers
<1>10. ASSUME NEW p \in Proposals, AuthorizeAdoption(p) PROVE OrderSound'
  <2>1. /\ UNCHANGED <<observed, highWater, pi, owner, toGateway, proposal>>
        /\ phase[p] = "proposed" /\ phase' = [phase EXCEPT ![p] = "authorized"]
    BY <1>10 DEF AuthorizeAdoption, leases, registry
  <2>2. \A c \in Conns : Used(c)' => Used(c) BY <2>1 DEF Used, Ledger, ProposalTypes
  <2>3. highWater' \in [Sessions -> Conns \cup {0}] /\ \A t \in Sessions : highWater[t] <= highWater'[t]
    BY <2>1 DEF OrderSound, Conns
  <2>4. QED BY <2>1, <2>2, <2>3, OrderQuiet DEF Registers
<1>11. ASSUME \/ \E x \in Occupants : RetireAgentRun(x)
              \/ \E x \in retired : PurgeRetiredAgentRun(x)
       PROVE  OrderSound'
  <2>1. UNCHANGED <<highWater, pi, owner, toGateway>>
    BY <1>11 DEF RetireAgentRun, PurgeRetiredAgentRun, registry, wire
  <2>2. QED BY <1>5, <1>11, <2>1, QuietUser DEF Quiet
<1>12. ASSUME NEW s \in Sessions, Turns(s) PROVE OrderSound'
  <2>1. ASSUME NEW e, NEW g, PiTurn(s, e, g) PROVE OrderSound'
    <3>1. UNCHANGED <<coordinator, leases, registry, owner>> /\ pi' = [pi EXCEPT ![s] = e]
          /\ e.conn \in {pi[s].conn, 0}
      BY <2>1 DEF PiTurn
    <3>2. \A t \in Sessions : pi'[t].conn \in {pi[t].conn, 0} BY <3>1 DEF Frames, WireTypes
    <3>3. \A c \in Conns : Registers(c)' => Registers(c) BY <2>1, TurnGains DEF Registers, Frames
    <3>4. \A c \in Conns : Used(c)' => Used(c) BY <3>1 DEF Used, coordinator, leases
    <3>5. highWater' \in [Sessions -> Conns \cup {0}] /\ \A t \in Sessions : highWater[t] <= highWater'[t]
      BY <3>1 DEF OrderSound, Conns, registry
    <3>6. QED BY <3>1, <3>2, <3>3, <3>4, <3>5, OrderQuiet DEF leases
  <2>2. ASSUME NEW c \in Conns, Connects(s, c) PROVE OrderSound' BY <2>2, ConnectOrder
  <2>3. QED
    BY <1>12, <2>1, <2>2
       DEF Turns, Closes, Passes, Acknowledges, Proves, Replies, Applies, Repeats, TypedIn
<1>13. QED
  BY <1>1, <1>2, <1>3, <1>4, <1>6, <1>7, <1>8, <1>9, <1>10, <1>11, <1>12, PiTurns
     DEF Next, GatewayStep, UserStep, Occupants, Frames

-----------------------------------------------------------------------------
(* Leases. *)

\* A lease or a challenge after a change of one field.
LEMMA LeaseRecords ==
  /\ \A m \in ManagedRecords, b \in BOOLEAN :
       /\ [m EXCEPT !.ready = b] \in ManagedRecords /\ [m EXCEPT !.ready = b].run = m.run
       /\ [m EXCEPT !.ready = b].live = m.live /\ [m EXCEPT !.ready = b].ready = b
       /\ [m EXCEPT !.live = b] \in ManagedRecords /\ [m EXCEPT !.live = b].run = m.run
       /\ [m EXCEPT !.live = b].live = b /\ [m EXCEPT !.live = b].ready = m.ready
  /\ \A m \in RecoveryRecords, b \in BOOLEAN :
       /\ [m EXCEPT !.live = b] \in RecoveryRecords /\ [m EXCEPT !.live = b].run = m.run
       /\ [m EXCEPT !.live = b].live = b
  /\ \A n \in Proposals, a, b \in BOOLEAN :
       LET m == [run |-> n, ready |-> a, live |-> b] IN
       m \in ManagedRecords /\ m.run = n /\ m.ready = a /\ m.live = b
  /\ \A n \in Proposals, b \in BOOLEAN :
       LET m == [run |-> n, live |-> b] IN m \in RecoveryRecords /\ m.run = n /\ m.live = b
  BY DEF ManagedRecords, RecoveryRecords

\* No connection gets a lease or a challenge.
Fewer ==
  /\ managed' \in [Conns -> ManagedRecords \cup {Null}]
  /\ recoveries' \in [Conns -> RecoveryRecords \cup {Null}]
  /\ \A c \in Conns : managed'[c] # Null =>
       /\ managed[c] # Null /\ managed'[c].run = managed[c].run
       /\ managed'[c].ready => managed[c].ready
       /\ managed'[c].live => managed[c].live
  /\ \A c \in Conns : recoveries'[c] # Null =>
       recoveries[c] # Null /\ recoveries'[c].run = recoveries[c].run

\* Leases that only go.
LEMMA LosingLeases ==
  ASSUME LeaseTypes, NEW lost, NEW expired, LoseConnections(lost, expired),
         \/ recoveries' = recoveries
         \/ recoveries' = [c \in Conns |-> IF c \in lost THEN Null ELSE recoveries[c]]
         \/ \E c \in Conns : recoveries' = [recoveries EXCEPT ![c] = Null]
  PROVE  Fewer /\ \A c \in Conns \cap lost : managed'[c] = Null
<1>1. managed' = [c \in Conns |-> IF c \in lost THEN Null ELSE managed[c]]
  BY DEF LoseConnections
<1>2. QED BY <1>1 DEF LeaseTypes, Fewer

\* Leases that only go, of runs that stay, keep what leases satisfy.
LEMMA FewerLeases ==
  ASSUME LeaseTypes, LeasesSound, Fewer, takeovers' \subseteq takeovers,
         \A c \in Conns, n \in Proposals :
           /\ HeldBy(c, n)
           /\ \/ managed'[c] # Null /\ managed'[c].run = n
              \/ recoveries'[c] # Null /\ recoveries'[c].run = n
           => HeldBy(c, n)',
         \A c \in Conns : managed'[c] # Null /\ managed'[c].live /\ IsRetired(owner[c])' =>
           IsRetired(owner[c])
  PROVE  LeaseTypes' /\ LeasesSound'
<1>1. LeaseTypes' BY DEF LeaseTypes, Fewer
<1>2. ASSUME NEW c \in Conns, managed'[c] # Null
      PROVE  /\ HeldBy(c, managed[c].run)'
             /\ managed'[c].ready =>
                  managed'[c].run \notin takeovers' /\ (managed'[c].live => ~IsRetired(owner[c])')
  <2>1. /\ managed[c] # Null /\ managed'[c].run = managed[c].run
        /\ managed'[c].ready => managed[c].ready
        /\ managed'[c].live => managed[c].live
    BY <1>2 DEF Fewer
  <2>2. PICK n \in Proposals : n = managed[c].run BY <2>1 DEF LeaseTypes, ManagedRecords
  <2>3. HeldBy(c, n) BY <2>1, <2>2 DEF LeasesSound
  <2>4. HeldBy(c, n)' BY <1>2, <2>1, <2>2, <2>3
  <2>5. HeldBy(c, managed[c].run)' BY <2>1, <2>2, <2>4 DEF HeldBy
  <2>6. QED BY <1>2, <2>1, <2>5 DEF LeasesSound
<1>3. ASSUME NEW c \in Conns, recoveries'[c] # Null
      PROVE  HeldBy(c, recoveries[c].run)'
  <2>1. recoveries[c] # Null /\ recoveries'[c].run = recoveries[c].run BY <1>3 DEF Fewer
  <2>2. PICK n \in Proposals : n = recoveries[c].run BY <2>1 DEF LeaseTypes, RecoveryRecords
  <2>3. HeldBy(c, n) BY <2>1, <2>2 DEF LeasesSound
  <2>4. HeldBy(c, n)' BY <1>3, <2>1, <2>2, <2>3
  <2>5. QED BY <2>1, <2>2, <2>4 DEF HeldBy
<1>4. QED BY <1>1, <1>2, <1>3 DEF LeasesSound, Fewer

\* Leases that only go while no row changes.
LEMMA FewerSteady ==
  ASSUME ContractInv, LeaseTypes, LeasesSound, Fewer,
         UNCHANGED <<adopted, replacements, retired, fences, takeovers>>,
         \A c \in serving : c \in serving' /\ owner'[c] = owner[c]
  PROVE  LeaseTypes' /\ LeasesSound'
<1>1. \A c \in Conns : \A n : HeldBy(c, n) => HeldBy(c, n)' BY DEF HeldBy, Occupants
<1>2. ASSUME NEW c \in Conns, managed'[c] # Null PROVE c \in serving
  BY <1>2 DEF Fewer, LeasesSound, HeldBy
<1>3. \A c \in Conns : managed'[c] # Null /\ IsRetired(owner[c])' => IsRetired(owner[c])
  BY <1>2 DEF IsRetired
<1>4. QED BY <1>1, <1>3, FewerLeases

\* The binding of a committed session is that of one of its rows.
LEMMA BindingRow ==
  ASSUME NEW s, CommittedByBinding(s) # Null
  PROVE  \E x \in Occupants : x.run = CommittedByBinding(s) /\ x.session = s
<1> DEFINE first == {x.run : x \in {y \in adopted : y.session = s}}
           later == {x.run : x \in {y \in replacements : y.session = s}}
<1>1. CommittedByBinding(s) = IF first # {} THEN CHOOSE n \in first : TRUE
                              ELSE IF later # {} THEN CHOOSE n \in later : TRUE ELSE Null
  BY DEF CommittedByBinding
<1>2. CommittedByBinding(s) \in first \cup later BY <1>1
<1>3. QED BY <1>2 DEF Occupants

\* A challenge is the only authority over its run.
LEMMA RecoversLeases ==
  ASSUME ContractInv, LeaseTypes, LeasesSound, NEW c \in Conns, c \in serving,
         UNCHANGED <<serving, owner>>, Recovers(c)
  PROVE  LeaseTypes' /\ LeasesSound'
<1>1. PICK n \in Proposals :
        /\ n = CommittedByBinding(owner[c])
        /\ LoseConnections(ConnsOf(n), {})
        /\ recoveries' = [k \in Conns |->
             IF k = c THEN [run |-> n, live |-> TRUE]
             ELSE IF recoveries[k] # Null /\ recoveries[k].run = n THEN Null
             ELSE recoveries[k]]
        /\ UNCHANGED stores
  BY DEF Recovers
<1>2. n # Null BY StoresAssumption DEF Proposals
<1>3. HeldBy(c, n) BY <1>1, <1>2, BindingRow DEF HeldBy
<1>4. PICK m : m = [run |-> n, live |-> TRUE] OBVIOUS
<1>5. m \in RecoveryRecords /\ m.run = n BY <1>4, LeaseRecords
<1>6. managed' = [k \in Conns |-> IF k \in ConnsOf(n) THEN Null ELSE managed[k]]
  BY <1>1 DEF LoseConnections
<1>7. recoveries'[c] = m /\ \A k \in Conns : k # c /\ recoveries'[k] # Null =>
        recoveries'[k] = recoveries[k] /\ recoveries[k] # Null /\ recoveries[k].run # n
  BY <1>1, <1>4
<1>8. \A k \in Conns : managed'[k] # Null =>
        managed'[k] = managed[k] /\ managed[k] # Null /\ managed[k].run # n
  BY <1>6 DEF ConnsOf
<1>9. LeaseTypes' BY <1>1, <1>4, <1>5, <1>6 DEF LeaseTypes, stores
<1>10. \A k \in Conns : \A r : HeldBy(k, r)' <=> HeldBy(k, r) BY <1>1 DEF HeldBy, Occupants, stores
<1>11. \A k \in Conns : IsRetired(owner[k])' <=> IsRetired(owner[k])
  BY <1>1 DEF IsRetired, stores
<1>12. \A k \in Conns : managed'[k] # Null => HeldBy(k, managed[k].run)'
  BY <1>1, <1>8 DEF LeasesSound, HeldBy, Occupants, stores
<1>13. \A k \in Conns : recoveries'[k] # Null => HeldBy(k, recoveries[k].run)'
  BY <1>1, <1>3, <1>5, <1>7 DEF LeasesSound, HeldBy, Occupants, stores
<1>14. takeovers' = takeovers BY <1>1 DEF stores
<1>15. ASSUME NEW k \in Conns
       PROVE  (LeasesSound!(k))'
  <2>1. \A i \in Conns :
         /\ managed'[k] # Null /\ managed'[i] # Null /\ managed'[k].run = managed'[i].run => k = i
         /\ managed'[k] # Null /\ recoveries'[i] # Null => managed'[k].run # recoveries'[i].run
    BY <1>5, <1>7, <1>8 DEF LeasesSound
  <2>2. \A i \in Conns :
         recoveries'[k] # Null /\ recoveries'[i] # Null /\ recoveries'[k].run = recoveries'[i].run => k = i
    BY <1>5, <1>7 DEF LeasesSound
  <2>3. managed'[k] # Null /\ managed'[k].ready =>
          managed'[k].run \notin takeovers' /\ (managed'[k].live => ~IsRetired(owner[k])')
    BY <1>8, <1>11, <1>14 DEF LeasesSound
  <2>4. QED BY <1>12, <1>13, <2>1, <2>2, <2>3
<1>16. QED BY <1>9, <1>15 DEF LeasesSound

\* Authority over a run given to one connection, not ready, that no other has.
LEMMA GrantedLease ==
  ASSUME LeaseTypes, LeasesSound, NEW c \in Conns, NEW n \in Proposals,
         managed' = [managed EXCEPT ![c] = [run |-> n, ready |-> FALSE, live |-> TRUE]],
         \/ recoveries' = recoveries
         \/ recoveries' = [recoveries EXCEPT ![c] = Null],
         HeldBy(c, n)',
         \A k \in Conns, r \in Proposals : HeldBy(k, r) => HeldBy(k, r)',
         \A k \in Conns : k # c /\ managed[k] # Null => managed[k].run # n,
         \A k \in Conns : recoveries'[k] # Null => recoveries[k].run # n,
         UNCHANGED <<takeovers, retired, fences, owner>>
  PROVE  LeaseTypes' /\ LeasesSound'
<1>1. PICK m : m = [run |-> n, ready |-> FALSE, live |-> TRUE] OBVIOUS
<1>2. m \in ManagedRecords /\ m.run = n /\ m.ready = FALSE BY <1>1, LeaseRecords
<1>3. managed'[c] = m /\ \A k \in Conns : k # c => managed'[k] = managed[k]
  BY <1>1 DEF LeaseTypes
<1>4. \A k \in Conns : recoveries'[k] # Null => recoveries'[k] = recoveries[k] /\ recoveries[k] # Null
  BY DEF LeaseTypes
<1>5. LeaseTypes' BY <1>1, <1>2 DEF LeaseTypes
<1>6. ASSUME NEW k \in Conns, managed'[k] # Null PROVE HeldBy(k, managed[k].run)'
  <2>1. CASE k = c BY <1>2, <1>3, <2>1 DEF HeldBy
  <2>2. CASE k # c
    <3>1. PICK r \in Proposals : managed[k] # Null /\ r = managed[k].run
      BY <1>3, <1>6, <2>2 DEF LeaseTypes, ManagedRecords
    <3>2. HeldBy(k, r)' BY <3>1 DEF LeasesSound
    <3>3. QED BY <1>3, <2>2, <3>1, <3>2 DEF HeldBy
  <2>3. QED BY <2>1, <2>2
<1>7. ASSUME NEW k \in Conns, recoveries'[k] # Null PROVE HeldBy(k, recoveries[k].run)'
  <2>1. PICK r \in Proposals : recoveries[k] # Null /\ r = recoveries[k].run
    BY <1>4, <1>7 DEF LeaseTypes, RecoveryRecords
  <2>2. HeldBy(k, r)' BY <2>1 DEF LeasesSound
  <2>3. QED BY <1>4, <1>7, <2>1, <2>2 DEF HeldBy
<1>8. ASSUME NEW k \in Conns PROVE (LeasesSound!(k))'
  <2>1. \A i \in Conns :
          /\ managed'[k] # Null /\ managed'[i] # Null /\ managed'[k].run = managed'[i].run => k = i
          /\ recoveries'[k] # Null /\ recoveries'[i] # Null
             /\ recoveries'[k].run = recoveries'[i].run => k = i
          /\ managed'[k] # Null /\ recoveries'[i] # Null => managed'[k].run # recoveries'[i].run
    BY <1>2, <1>3, <1>4 DEF LeasesSound
  <2>2. managed'[k] # Null /\ managed'[k].ready =>
          managed'[k].run \notin takeovers' /\ (managed'[k].live => ~IsRetired(owner[k])')
    BY <1>2, <1>3 DEF LeasesSound, IsRetired
  <2>3. QED BY <1>6, <1>7, <2>1, <2>2
<1>9. QED BY <1>5, <1>8 DEF LeasesSound

\* A receipt or a takeover changes the readiness of one lease.
LEMMA ReadinessLeases ==
  ASSUME ContractInv, LeaseTypes, LeasesSound, NEW c \in Conns, NEW b \in BOOLEAN,
         managed[c] # Null, managed' = [managed EXCEPT ![c] = [@ EXCEPT !.ready = b]],
         UNCHANGED <<recoveries, adopted, replacements, retired, fences, serving, owner>>,
         takeovers' \subseteq takeovers \cup {managed[c].run},
         b => managed[c].run \notin takeovers' /\ ~IsRetired(owner[c])
  PROVE  LeaseTypes' /\ LeasesSound'
<1>1. PICK m : m = [managed[c] EXCEPT !.ready = b] OBVIOUS
<1>2. m \in ManagedRecords /\ m.run = managed[c].run /\ m.ready = b /\ m.run \in Proposals
  BY <1>1, LeaseRecords DEF LeaseTypes, ManagedRecords
<1>3. managed'[c] = m /\ \A k \in Conns : k # c => managed'[k] = managed[k]
  BY <1>1 DEF LeaseTypes
<1>4. managed' \in [Conns -> ManagedRecords \cup {Null}] /\ takeovers' \subseteq Proposals
  BY <1>1, <1>2 DEF LeaseTypes
<1>5. LeaseTypes' BY <1>4 DEF LeaseTypes
<1>6. \A k \in Conns : managed'[k] # Null => managed[k] # Null /\ managed'[k].run = managed[k].run
  BY <1>2, <1>3
<1>7. ASSUME NEW k \in Conns PROVE (LeasesSound!(k))'
  <2>1. managed'[k] # Null => HeldBy(k, managed[k].run)'
    BY <1>6 DEF LeasesSound, HeldBy, Occupants
  <2>2. recoveries'[k] # Null => HeldBy(k, recoveries[k].run)' BY DEF LeasesSound, HeldBy, Occupants
  <2>3. \A i \in Conns :
          /\ managed'[k] # Null /\ managed'[i] # Null /\ managed'[k].run = managed'[i].run => k = i
          /\ recoveries'[k] # Null /\ recoveries'[i] # Null
             /\ recoveries'[k].run = recoveries'[i].run => k = i
          /\ managed'[k] # Null /\ recoveries'[i] # Null => managed'[k].run # recoveries'[i].run
    BY <1>6 DEF LeasesSound
  <2>4. managed'[k] # Null /\ managed'[k].ready =>
          managed'[k].run \notin takeovers' /\ (managed'[k].live => ~IsRetired(owner[k])')
    <3>1. CASE k = c BY <1>2, <1>3, <3>1 DEF IsRetired
    <3>2. CASE k # c
      <4>1. managed[k] # Null => managed[k].run # managed[c].run BY <3>2 DEF LeasesSound
      <4>2. QED BY <1>3, <3>2, <4>1 DEF LeasesSound, IsRetired
    <3>3. QED BY <3>1, <3>2
  <2>5. QED BY <2>1, <2>2, <2>3, <2>4
<1>8. QED BY <1>5, <1>7 DEF LeasesSound

\* The live field of a lease changed.
LEMMA LapsedLease ==
  ASSUME NEW m \in ManagedRecords, NEW b \in BOOLEAN
  PROVE  LET r == [m EXCEPT !.live = b] IN
         r \in ManagedRecords /\ r.run = m.run /\ r.live = b /\ r.ready = m.ready
  BY DEF ManagedRecords

\* A lapse leaves leases and challenges where they are.
LEMMA LapseFewer ==
  ASSUME LeaseTypes, Lapse
  PROVE  Fewer
<1>1. UNCHANGED stores BY DEF Lapse
<1>2. PICK f \in BOOLEAN : f = FALSE OBVIOUS
<1>3. ASSUME NEW c \in Conns, LapseManaged(c) PROVE Fewer
  <2>1. managed' = [managed EXCEPT ![c] = [@ EXCEPT !.live = f]] /\ managed[c] # Null
        /\ recoveries' = recoveries
    BY <1>2, <1>3 DEF LapseManaged
  <2>2. PICK m : m = [managed[c] EXCEPT !.live = f] OBVIOUS
  <2>0. managed[c] \in ManagedRecords BY <2>1 DEF LeaseTypes
  <2>3. m \in ManagedRecords /\ m.run = managed[c].run /\ m.live = f /\ m.ready = managed[c].ready
    BY <1>2, <2>0, <2>2, LapsedLease, Zenon
  <2>4. managed'[c] = m /\ \A k \in Conns : k # c => managed'[k] = managed[k]
    BY <2>1, <2>2 DEF LeaseTypes
  <2>5. managed' \in [Conns -> ManagedRecords \cup {Null}] BY <2>1, <2>2, <2>3 DEF LeaseTypes
  <2>6. QED BY <1>2, <2>1, <2>3, <2>4, <2>5 DEF Fewer, LeaseTypes
<1>4. ASSUME NEW c \in Conns, LapseRecovery(c) PROVE Fewer
  <2>1. recoveries' = [recoveries EXCEPT ![c] = [@ EXCEPT !.live = f]] /\ recoveries[c] # Null
        /\ managed' = managed
    BY <1>2, <1>4 DEF LapseRecovery
  <2>2. PICK m : m = [recoveries[c] EXCEPT !.live = f] OBVIOUS
  <2>3. m \in RecoveryRecords /\ m.run = recoveries[c].run
    BY <2>1, <2>2, LeaseRecords DEF LeaseTypes
  <2>4. recoveries'[c] = m /\ \A k \in Conns : k # c => recoveries'[k] = recoveries[k]
    BY <2>1, <2>2 DEF LeaseTypes
  <2>5. recoveries' \in [Conns -> RecoveryRecords \cup {Null}]
    BY <2>1, <2>2, <2>3 DEF LeaseTypes
  <2>6. QED BY <2>1, <2>3, <2>4, <2>5 DEF Fewer, LeaseTypes
<1>5. CASE UNCHANGED <<managed, recoveries>> BY <1>5 DEF Fewer, LeaseTypes
<1>6. QED BY <1>3, <1>4, <1>5 DEF Lapse, LapseObserved, LapseProposal

\* Whoever holds a lease holds the only one of a run that its session is
\* committed to, and no lease is ready of a run that was taken over or retired.
LEMMA LeasesKept ==
  ASSUME ContractInv, CommitmentsSound, LeaseTypes, LeasesSound, Next
  PROVE  LeaseTypes' /\ LeasesSound'
<1> USE DEF ContractInv, Frames
<1>0. ASSUME UNCHANGED <<managed, recoveries, stores>>,
             \A c \in serving : c \in serving' /\ owner'[c] = owner[c]
      PROVE  LeaseTypes' /\ LeasesSound'
  BY <1>0, FewerSteady DEF Fewer, LeaseTypes, stores
<1>1. ASSUME NEW c \in Conns, HandleRegister(c) PROVE LeaseTypes' /\ LeasesSound'
  <2>1. UNCHANGED <<serving, owner>> /\ c \in serving BY <1>1 DEF HandleRegister, Handles
  <2>2. CASE TurnsAway(c) BY <1>0, <2>1, <2>2 DEF TurnsAway, leases
  <2>3. CASE Observes(c) BY <1>0, <2>1, <2>3 DEF Observes
  <2>4. CASE Recovers(c) BY <2>1, <2>4, RecoversLeases
  <2>5. QED BY <1>1, <2>2, <2>3, <2>4, Registrations
<1>2. ASSUME NEW c \in Conns, HandleRecoveryProof(c) PROVE LeaseTypes' /\ LeasesSound'
  <2>1. UNCHANGED <<serving, owner, stores>> BY <1>2 DEF HandleRecoveryProof
  <2>0. PICK n : n = FrameRun(c) OBVIOUS
  <2>2. CASE recoveries[c] # Null /\ recoveries[c].live /\ recoveries[c].run = n
    <3>1. recoveries' = [recoveries EXCEPT ![c] = Null]
          /\ managed' = [managed EXCEPT ![c] = [run |-> n, ready |-> FALSE, live |-> TRUE]]
      BY <1>2, <2>0, <2>2 DEF HandleRecoveryProof, RecoveredLease
    <3>2. n \in Proposals BY <2>2 DEF LeaseTypes, RecoveryRecords
    <3>3. HeldBy(c, n) BY <2>2 DEF LeasesSound
    <3>4. \A k \in Conns : \A r : HeldBy(k, r) => HeldBy(k, r)'
      BY <2>1 DEF HeldBy, Occupants, stores
    <3>5. \A k \in Conns : k # c /\ managed[k] # Null => managed[k].run # n
      BY <2>2 DEF LeasesSound
    <3>6. \A k \in Conns : recoveries'[k] # Null => recoveries[k].run # n
      BY <2>2, <3>1 DEF LeasesSound, LeaseTypes
    <3>7. HeldBy(c, n)' BY <3>3, <3>4
    <3>8. QED BY <2>1, <3>1, <3>2, <3>4, <3>5, <3>6, <3>7, GrantedLease DEF stores
  <2>3. CASE ~(recoveries[c] # Null /\ recoveries[c].live /\ recoveries[c].run = n)
    <3>1. /\ recoveries' = [recoveries EXCEPT ![c] = IF @ # Null /\ ~@.live THEN Null ELSE @]
          /\ managed' = managed
      BY <1>2, <2>0, <2>3 DEF HandleRecoveryProof
    <3>2. \A k \in Conns : recoveries'[k] = recoveries[k] \/ recoveries'[k] = Null
      BY <3>1 DEF LeaseTypes
    <3>3. Fewer BY <3>1, <3>2 DEF Fewer, LeaseTypes
    <3>4. QED BY <2>1, <3>3, FewerSteady DEF stores
  <2>4. QED BY <2>2, <2>3
<1>3. ASSUME NEW c \in Conns, HandleLifecycle(c) \/ HandleAcknowledgement(c)
      PROVE LeaseTypes' /\ LeasesSound'
  BY <1>0, <1>3 DEF HandleLifecycle, HandleAcknowledgement, Reject, leases
<1>4. ASSUME NEW c \in Conns, HandleReady(c) PROVE LeaseTypes' /\ LeasesSound'
  <2>1. UNCHANGED <<stores, recoveries, serving, owner>> BY <1>4 DEF HandleReady, Reject, leases
  <2>2. CASE HoldsLease(c, FrameRun(c))
    <3>1. managed[c] # Null /\ managed[c].run = FrameRun(c) /\ ~IsRetired(owner[c])
          /\ managed' = [managed EXCEPT ![c] = [@ EXCEPT !.ready = ReadyAfterReceipt(FrameRun(c))]]
      BY <1>4, <2>2 DEF HandleReady, HoldsLease
    <3>2. PICK b : b = ReadyAfterReceipt(FrameRun(c)) OBVIOUS
    <3>3. b \in BOOLEAN /\ (b => managed[c].run \notin takeovers)
      BY <3>1, <3>2 DEF ReadyAfterReceipt
    <3>4. managed' = [managed EXCEPT ![c] = [@ EXCEPT !.ready = b]] BY <3>1, <3>2
    <3>5. QED BY <2>1, <3>1, <3>3, <3>4, ReadinessLeases DEF stores
  <2>3. CASE ~HoldsLease(c, FrameRun(c))
    BY <1>0, <1>4, <2>1, <2>3 DEF HandleReady, Reject, leases
  <2>4. QED BY <2>2, <2>3
<1>5. ASSUME NEW c \in Conns, HandleTakeover(c) PROVE LeaseTypes' /\ LeasesSound'
  <2>1. UNCHANGED <<serving, owner>> BY <1>5 DEF HandleTakeover
  <2>2. CASE /\ HoldsLease(c, FrameRun(c))
             /\ RecordManualTakeover(FrameRun(c))
             /\ managed' = [managed EXCEPT ![c] = [@ EXCEPT !.ready = FALSE]]
             /\ UNCHANGED <<coordinator, observed, recoveries, registry, toPi>>
    <3>1. PICK b : b = FALSE OBVIOUS
    <3>2. managed' = [managed EXCEPT ![c] = [@ EXCEPT !.ready = b]] /\ b \in BOOLEAN /\ ~b
      BY <2>2, <3>1
    <3>3. managed[c] # Null /\ takeovers' = takeovers \cup {managed[c].run}
      BY <2>2 DEF HoldsLease, RecordManualTakeover
    <3>4. QED BY <2>1, <2>2, <3>2, <3>3, ReadinessLeases DEF RecordManualTakeover
  <2>3. CASE /\ LoseConnections({c}, {}) /\ recoveries' = [recoveries EXCEPT ![c] = Null]
             /\ UNCHANGED stores
    BY <2>1, <2>3, LosingLeases, FewerSteady DEF stores
  <2>4. CASE Reject(c) BY <1>0, <2>1, <2>4 DEF Reject, leases
  <2>5. QED BY <1>5, <2>2, <2>3, <2>4 DEF HandleTakeover
<1>6. ASSUME NEW c \in Conns, HandleClosed(c) PROVE LeaseTypes' /\ LeasesSound'
  <2>1. /\ serving' = serving \ {c} /\ LoseConnections({c}, {})
        /\ recoveries' = [recoveries EXCEPT ![c] = Null] /\ UNCHANGED <<stores, owner>>
    BY <1>6 DEF HandleClosed
  <2>2. Fewer /\ managed'[c] = Null /\ recoveries'[c] = Null BY <2>1, LosingLeases DEF LeaseTypes
  <2>3. \A k \in Conns : \A n : k # c /\ HeldBy(k, n) => HeldBy(k, n)'
    BY <2>1 DEF HeldBy, Occupants, stores
  <2>4. \A k \in Conns : IsRetired(owner[k])' => IsRetired(owner[k]) BY <2>1 DEF IsRetired, stores
  <2>5. takeovers' \subseteq takeovers BY <2>1 DEF stores
  <2>6. QED BY <2>2, <2>3, <2>4, <2>5, FewerLeases
<1>7. ASSUME NEW p \in Proposals, CommitAcknowledged(p) PROVE LeaseTypes' /\ LeasesSound'
  <2>0. PICK c, s : c = proposal[p].conn /\ s = proposal[p].session OBVIOUS
  <2>1. /\ phase[p] = "acknowledged" /\ CommitChecks(p) /\ Insertion(p)
        /\ managed' = [managed EXCEPT ![c] = [run |-> p, ready |-> FALSE, live |-> TRUE]]
        /\ UNCHANGED <<recoveries, serving, owner>>
    BY <1>7, <2>0 DEF CommitAcknowledged
  <2>2. c \in Conns /\ s \in Sessions /\ owner[c] = s
    BY <2>0, <2>1 DEF Ledger, ProposalTypes, ProposalsSound
  <2>3. c \in serving
    BY <2>0, <2>1, <2>2 DEF CommitChecks, CurrentIdentity, Eligible, CommitmentsSound, EntriesServed
  <2>4. /\ UNCHANGED <<retired, fences, takeovers>>
        /\ adopted \subseteq adopted' /\ replacements \subseteq replacements'
        /\ \E x \in Occupants' : x.run = p /\ x.session = s
    <3> DEFINE r == proposal[p].role
               x == [run |-> p, session |-> s, role |-> r]
               y == [run |-> p, session |-> s, role |-> r,
                     predecessor |-> RetirementVacancy(r).predecessor,
                     generation |-> RetirementVacancy(r).generation]
    <3>1. /\ UNCHANGED <<retired, fences, takeovers>>
          /\ \/ adopted' = adopted \cup {x} /\ UNCHANGED replacements
             \/ replacements' = replacements \cup {y} /\ UNCHANGED adopted
      BY <2>0, <2>1 DEF Insertion, CommitAdoption, CommitReplacementAdoption
    <3>2. x.run = p /\ x.session = s /\ y.run = p /\ y.session = s OBVIOUS
    <3> HIDE DEF x, y
    <3>3. QED BY <3>1, <3>2 DEF Occupants
  <2>5. \A x \in Occupants : x.run # p BY <2>1 DEF Ledger, RowsSound
  <2>6. \A k \in Conns : /\ managed[k] # Null => managed[k].run # p
                         /\ recoveries[k] # Null => recoveries[k].run # p
    BY <2>5 DEF LeasesSound, HeldBy
  <2>7. \A k \in Conns : \A r : HeldBy(k, r) => HeldBy(k, r)' BY <2>1, <2>4 DEF HeldBy, Occupants
  <2>8. HeldBy(c, p)' BY <2>1, <2>2, <2>3, <2>4 DEF HeldBy
  <2>9. QED BY <2>1, <2>2, <2>4, <2>6, <2>7, <2>8, GrantedLease
<1>8. ASSUME NEW p \in Proposals, CommitRefused(p) PROVE LeaseTypes' /\ LeasesSound'
  BY <1>0, <1>8 DEF CommitRefused, leases
<1>9. CASE Lapse
  BY <1>9, LapseFewer, FewerSteady DEF Lapse, stores, wire
<1>10. CASE Sweep
  BY <1>10, LosingLeases, FewerSteady DEF Sweep, stores, wire
<1>11. CASE CrashGateway
  <2>1. /\ managed' = [c \in Conns |-> Null] /\ recoveries' = [c \in Conns |-> Null]
        /\ UNCHANGED stores
    BY <1>11 DEF CrashGateway
  <2>2. QED BY <2>1 DEF LeaseTypes, LeasesSound, stores
<1>12. ASSUME NEW s \in Sessions, NEW r \in Roles, RequestAdoption(s, r)
       PROVE LeaseTypes' /\ LeasesSound'
  BY <1>0, <1>12 DEF RequestAdoption, leases, wire
<1>13. ASSUME NEW p \in Proposals, AuthorizeAdoption(p) PROVE LeaseTypes' /\ LeasesSound'
  BY <1>0, <1>13 DEF AuthorizeAdoption, leases
<1>14. ASSUME NEW x \in Occupants, RetireAgentRun(x) PROVE LeaseTypes' /\ LeasesSound'
  <2>1. /\ \A c \in ConnsOf(x.run) : ~managed[c].live
        /\ retired' = retired \cup {[run |-> x.run, session |-> x.session, role |-> x.role,
                                     at |-> CurrentVacancyGeneration(x.role)]}
        /\ UNCHANGED <<adopted, replacements, fences, takeovers, managed, serving, owner>>
        /\ recoveries' = [c \in Conns |->
             IF recoveries[c] # Null /\ recoveries[c].run = x.run THEN Null ELSE recoveries[c]]
    BY <1>14 DEF RetireAgentRun, CommitRetirement, DropAuthority, wire
  <2>2. Fewer BY <2>1 DEF Fewer, LeaseTypes
  <2>3. \A k \in Conns : \A n : HeldBy(k, n) => HeldBy(k, n)' BY <2>1 DEF HeldBy, Occupants
  <2>4. ASSUME NEW c \in Conns, managed[c] # Null, managed[c].live, IsRetired(owner[c])'
        PROVE IsRetired(owner[c])
    <3>1. owner[c] # x.session
      <4>1. PICK y \in Occupants : y.run = managed[c].run /\ y.session = owner[c]
        BY <2>4 DEF LeasesSound, HeldBy
      <4>2. owner[c] = x.session => y = x
        BY <4>1 DEF CommitmentsSound, CommittedOnce
      <4>3. QED BY <2>1, <2>4, <4>1, <4>2 DEF ConnsOf
    <3>2. QED BY <2>1, <2>4, <3>1 DEF IsRetired
  <2>5. QED BY <2>1, <2>2, <2>3, <2>4, FewerLeases
<1>15. ASSUME NEW t \in retired, PurgeRetiredAgentRun(t) PROVE LeaseTypes' /\ LeasesSound'
  <2>1. /\ fences' = fences \cup {t.session} /\ retired' = retired \ {t}
        /\ takeovers' = takeovers \ {t.run}
        /\ adopted' = {y \in adopted : y.run # t.run}
        /\ replacements' = {y \in replacements : y.run # t.run}
        /\ UNCHANGED <<serving, owner>>
        /\ managed' = [c \in Conns |-> IF c \in ConnsOf(t.run) THEN Null ELSE managed[c]]
        /\ recoveries' = [c \in Conns |->
             IF recoveries[c] # Null /\ recoveries[c].run = t.run THEN Null ELSE recoveries[c]]
    BY <1>15 DEF PurgeRetiredAgentRun, PurgeRetiredRun, DropAuthority, wire
  <2>2. Fewer BY <2>1 DEF Fewer, LeaseTypes
  <2>3. \A k \in Conns : \A n : n # t.run /\ HeldBy(k, n) => HeldBy(k, n)'
    BY <2>1 DEF HeldBy, Occupants
  <2>4. \A c \in Conns : IsRetired(owner[c])' => IsRetired(owner[c]) BY <2>1 DEF IsRetired
  <2>5. \A c \in Conns : /\ managed'[c] # Null => managed'[c].run # t.run
                         /\ recoveries'[c] # Null => recoveries'[c].run # t.run
    BY <2>1 DEF ConnsOf
  <2>6. QED BY <2>1, <2>2, <2>3, <2>4, <2>5, FewerLeases
<1>16. ASSUME NEW s \in Sessions, Turns(s) PROVE LeaseTypes' /\ LeasesSound'
  <2>1. (\E c \in Conns : Connects(s, c)) \/ \E e, g : PiTurn(s, e, g)
    <3>1. ASSUME NEW e, Closes(s, e) PROVE PiTurn(s, e, <<Closed>>)  BY <3>1 DEF Closes
    <3>2. ASSUME NEW e, NEW g, Passes(s, e, g) PROVE PiTurn(s, e, g)  BY <3>2 DEF Passes
    <3>3. ASSUME NEW e, NEW n, Acknowledges(s, e, n) \/ Proves(s, e, n) \/ Applies(s, e, n)
          PROVE  \E g : PiTurn(s, e, g)
      BY <3>3 DEF Acknowledges, Proves, Replies, Applies
    <3>4. ASSUME Repeats(s) PROVE \E e, g : PiTurn(s, e, g)  BY <3>4 DEF Repeats
    <3>5. ASSUME NEW e, TypedIn(s, e) PROVE \E g : PiTurn(s, e, g)  BY <3>5 DEF TypedIn
    <3>6. QED BY <1>16, <3>1, <3>2, <3>3, <3>4, <3>5 DEF Turns
  <2>2. UNCHANGED <<stores, managed, recoveries>> /\ serving \subseteq serving'
        /\ \A c \in serving : owner'[c] = owner[c]
    <3>1. CASE \E e, g : PiTurn(s, e, g)  BY <3>1 DEF PiTurn, leases
    <3>2. ASSUME NEW c \in Conns, Connects(s, c)
          PROVE  /\ UNCHANGED <<stores, managed, recoveries>> /\ serving \subseteq serving'
                 /\ \A k \in serving : owner'[k] = owner[k]
      BY <3>2 DEF Connects, leases, WireTypes
    <3>3. QED BY <2>1, <3>1, <3>2
  <2>3. QED BY <1>0, <2>2
<1>17. QED
  BY <1>1, <1>2, <1>3, <1>4, <1>5, <1>6, <1>7, <1>8, <1>9, <1>10, <1>11, <1>12, <1>13, <1>14,
     <1>15, <1>16, PiTurns
     DEF Next, GatewayStep, UserStep, Occupants

-----------------------------------------------------------------------------
(* What the gateway and its user do to queues, connections and leases. *)

ServerStep == GatewayStep \/ UserStep

\* The gateway gives a connection the lease of a run.
GivesLease(c, n) ==
  \/ CommitAcknowledged(n) /\ proposal[n].conn = c
  \/ /\ HandleRecoveryProof(c)
     /\ recoveries[c] # Null /\ recoveries[c].run = n /\ recoveries'[c] = Null

\* A challenge or a commitment on its way to the Pi was there, or names a run;
\* a commitment comes with a lease.
NamesRun(c, f) ==
  f.type \in {"challenge", "committed"} =>
    \E n \in Proposals : f.run = n /\ (f.type = "committed" => GivesLease(c, n))
RunsKnown(c) ==
  \A i \in DOMAIN toPi'[c] :
    \/ \E j \in DOMAIN toPi[c] : toPi'[c][i] = toPi[c][j]
    \/ NamesRun(c, toPi'[c][i])

\* A frame that names its run.
LEMMA SentKnown ==
  ASSUME WireTypes, NEW c \in Conns, NEW f \in FramesToPi, toPi' = Sent(c, f), NamesRun(c, f)
  PROVE  \A k \in Conns : RunsKnown(k)
<1>1. \A k \in Conns : Gains(toPi[k], toPi'[k], IF k = c THEN {f} ELSE {}) BY SentGains
<1>2. SUFFICES ASSUME NEW k \in Conns, NEW i \in DOMAIN toPi'[k]
               PROVE  \/ \E j \in DOMAIN toPi[k] : toPi'[k][i] = toPi[k][j]
                      \/ NamesRun(k, toPi'[k][i])
  BY DEF RunsKnown
<1>3. \/ \E j \in DOMAIN toPi[k] : toPi'[k][i] = toPi[k][j]
      \/ k = c /\ toPi'[k][i] = f
  BY <1>1 DEF Gains
<1>4. QED BY <1>2, <1>3

\* What the gateway and the user do to the queues of the wire.
LEMMA QueueSteps ==
  ASSUME ContractInv, LeaseTypes, ServerStep
  PROVE  /\ UNCHANGED <<pi, owner>>
         /\ \A c \in Conns : Gains(toGateway[c], toGateway'[c], {}) /\ RunsKnown(c)
<1> USE DEF ContractInv, Ledger, Frames
<1> DEFINE known == /\ UNCHANGED <<pi, owner>>
                    /\ \A c \in Conns : Gains(toGateway[c], toGateway'[c], {}) /\ RunsKnown(c)
<1>0. Rejected \in FramesToPi /\ \A c : NamesRun(c, Rejected) BY DEF Rejected, FramesToPi, NamesRun
<1>1. ASSUME toPi' = toPi PROVE \A c \in Conns : RunsKnown(c) BY <1>1 DEF RunsKnown
<1>2. ASSUME UNCHANGED <<pi, owner, toGateway, toPi>> PROVE known
  BY <1>1, <1>2, GainsNothing
<1>3. ASSUME NEW c \in Conns, NEW types, Handles(c, types), Handled(c), UNCHANGED <<pi, owner>>,
             toPi' = toPi \/ toPi' = Sent(c, Rejected)
      PROVE  known
  <2>1. \A k \in Conns : Gains(toGateway[k], toGateway'[k], {}) BY <1>3, HandledGains
  <2>2. \A k \in Conns : RunsKnown(k) BY <1>0, <1>1, <1>3, SentKnown
  <2>3. QED BY <1>3, <2>1, <2>2
<1>4. ASSUME NEW c \in Conns, HandleRegister(c) PROVE known
  <2>1. Handles(c, {"register"}) /\ Handled(c) /\ UNCHANGED <<pi, owner>> BY <1>4 DEF HandleRegister
  <2>2. CASE TurnsAway(c) BY <1>3, <2>1, <2>2 DEF TurnsAway
  <2>3. \A k \in Conns : Gains(toGateway[k], toGateway'[k], {}) BY <2>1, HandledGains
  <2>4. CASE Observes(c)
    <3>1. PICK f : f = [type |-> "registered", rev |-> revision + 1] OBVIOUS
    <3>2. f \in FramesToPi /\ NamesRun(c, f) BY <3>1 DEF FramesToPi, EntryTypes, NamesRun
    <3>3. toPi' = Sent(c, f) BY <2>4, <3>1 DEF Observes
    <3>4. QED BY <2>1, <2>3, <3>2, <3>3, SentKnown
  <2>5. CASE Recovers(c)
    <3>1. PICK n \in Proposals : toPi' = Sent(c, [type |-> "challenge", run |-> n])
      BY <2>5 DEF Recovers
    <3>2. PICK f : f = [type |-> "challenge", run |-> n] OBVIOUS
    <3>3. f \in FramesToPi /\ NamesRun(c, f) BY <3>2 DEF FramesToPi, RunOrNull, NamesRun
    <3>4. QED BY <2>1, <2>3, <3>1, <3>2, <3>3, SentKnown
  <2>6. QED BY <1>4, <2>2, <2>4, <2>5, Registrations
<1>5. ASSUME NEW c \in Conns, HandleRecoveryProof(c) PROVE known
  <2>1. Handles(c, {"proof"}) /\ Handled(c) /\ UNCHANGED <<pi, owner>>
    BY <1>5 DEF HandleRecoveryProof
  <2>2. \A k \in Conns : Gains(toGateway[k], toGateway'[k], {}) BY <2>1, HandledGains
  <2>3. PICK n : n = FrameRun(c) OBVIOUS
  <2>4. CASE recoveries[c] # Null /\ recoveries[c].live /\ recoveries[c].run = n
    <3>1. n \in Proposals BY <2>4 DEF LeaseTypes, RecoveryRecords
    <3>2. recoveries'[c] = Null /\ toPi' = Sent(c, CommittedFrame(n))
      BY <1>5, <2>3, <2>4 DEF HandleRecoveryProof, LeaseTypes
    <3>3. GivesLease(c, n) BY <1>5, <2>4, <3>2 DEF GivesLease
    <3>4. CommittedFrame(n) \in FramesToPi /\ NamesRun(c, CommittedFrame(n))
      BY <3>1, <3>3 DEF CommittedFrame, FramesToPi, RunOrNull, NamesRun
    <3>5. QED BY <2>1, <2>2, <3>2, <3>4, SentKnown
  <2>5. CASE ~(recoveries[c] # Null /\ recoveries[c].live /\ recoveries[c].run = n)
    BY <1>3, <1>5, <2>1, <2>3, <2>5 DEF HandleRecoveryProof
  <2>6. QED BY <2>4, <2>5
<1>6. ASSUME NEW c \in Conns,
             HandleLifecycle(c) \/ HandleAcknowledgement(c) \/ HandleReady(c) \/ HandleTakeover(c)
             \/ HandleClosed(c)
      PROVE  known
  <2>1. PICK types : Handles(c, types)
    BY <1>6 DEF HandleLifecycle, HandleAcknowledgement, HandleReady, HandleTakeover, HandleClosed
  <2>2. Handled(c) /\ UNCHANGED <<pi, owner>> /\ (toPi' = toPi \/ toPi' = Sent(c, Rejected))
    BY <1>6 DEF HandleLifecycle, HandleAcknowledgement, HandleReady, HandleTakeover, HandleClosed,
                Reject
  <2>3. QED BY <1>3, <2>1, <2>2
<1>7. ASSUME NEW c \in Conns, NEW f \in FramesToPi, toPi' = Sent(c, f), NamesRun(c, f),
             UNCHANGED <<pi, owner, toGateway>>
      PROVE  known
  BY <1>7, SentKnown, GainsNothing
<1>8. ASSUME NEW p \in Proposals, CommitAcknowledged(p) PROVE known
  <2>1. PICK c : c = proposal[p].conn OBVIOUS
  <2>2. c \in Conns /\ toPi' = Sent(c, CommittedFrame(p)) /\ UNCHANGED <<pi, owner, toGateway>>
    BY <1>8, <2>1 DEF CommitAcknowledged, ProposalTypes
  <2>3. CommittedFrame(p) \in FramesToPi /\ NamesRun(c, CommittedFrame(p))
    BY <1>8, <2>1 DEF CommittedFrame, FramesToPi, RunOrNull, GivesLease, NamesRun
  <2>4. QED BY <1>7, <2>2, <2>3
<1>9. ASSUME NEW p \in Proposals, CommitRefused(p) PROVE known
  <2>1. proposal[p].conn \in Conns /\ toPi' = Sent(proposal[p].conn, Rejected)
        /\ UNCHANGED <<pi, owner, toGateway>>
    BY <1>9 DEF CommitRefused, ProposalTypes
  <2>2. QED BY <1>0, <1>7, <2>1
<1>10. CASE Lapse \/ Sweep BY <1>2, <1>10 DEF Lapse, Sweep, wire
<1>11. CASE CrashGateway
  <2>1. /\ toGateway' = [c \in Conns |-> <<>>] /\ UNCHANGED <<owner, pi>>
    BY <1>11 DEF CrashGateway
  <2>2. PICK kept \in 0..MaxFrames :
          toPi' = [c \in Conns |->
            IF c \in serving /\ Reads(c)
            THEN Append(SubSeq(toPi[c], 1, Smaller(kept, Len(toPi[c]))), Closed)
            ELSE toPi[c]]
    BY <1>11 DEF CrashGateway
  <2>3. ASSUME NEW c \in Conns PROVE RunsKnown(c)
    <3>1. CASE ~(c \in serving /\ Reads(c)) BY <2>2, <3>1 DEF RunsKnown
    <3>2. CASE c \in serving /\ Reads(c)
      <4> DEFINE n == Smaller(kept, Len(toPi[c]))
                 q == SubSeq(toPi[c], 1, n)
      <4>1. toPi[c] \in Seq(FramesToPi) /\ Len(toPi[c]) \in Nat /\ DOMAIN toPi[c] = 1 .. Len(toPi[c])
        BY LenProperties DEF WireTypes
      <4>2. n \in Nat /\ n <= Len(toPi[c]) BY <4>1, BoundsAssumption DEF Smaller
      <4>3. /\ q \in Seq(FramesToPi) /\ Len(q) = n
            /\ \A i \in 1 .. n : q[i] = toPi[c][i]
        BY <4>1, <4>2, SubSeqProperties
      <4>4. NamesRun(c, Closed) /\ Closed \in FramesToPi BY DEF Closed, FramesToPi, NamesRun
      <4>5. toPi'[c] = Append(q, Closed) BY <2>2, <3>2
      <4> HIDE DEF q, n
      <4>6. \A i \in DOMAIN toPi'[c] :
              toPi'[c][i] = Closed \/ \E j \in DOMAIN toPi[c] : toPi'[c][i] = toPi[c][j]
        BY <4>1, <4>2, <4>3, <4>4, <4>5, AppendedTo
      <4>7. QED BY <4>4, <4>6 DEF RunsKnown
    <3>3. QED BY <3>1, <3>2
  <2>4. QED BY <2>1, <2>3, GainsNothing
<1>12. ASSUME NEW s \in Sessions, NEW r \in Roles, RequestAdoption(s, r) PROVE known
  BY <1>2, <1>12 DEF RequestAdoption, wire
<1>13. ASSUME NEW p \in Proposals, AuthorizeAdoption(p) PROVE known
  <2>1. PICK f : f = RequestFrame(p) OBVIOUS
  <2>2. proposal[p].conn \in Conns /\ proposal[p].rev \in Nat
        /\ toPi' = Sent(proposal[p].conn, f) /\ UNCHANGED <<pi, owner, toGateway>>
    BY <1>13, <2>1 DEF AuthorizeAdoption, ProposalTypes
  <2>3. f \in FramesToPi /\ NamesRun(proposal[p].conn, f)
    BY <2>1, <2>2 DEF RequestFrame, FramesToPi, RunOrNull, NamesRun
  <2>4. QED BY <1>7, <2>2, <2>3
<1>14. ASSUME NEW x, RetireAgentRun(x) \/ PurgeRetiredAgentRun(x) PROVE known
  BY <1>2, <1>14 DEF RetireAgentRun, PurgeRetiredAgentRun, wire
<1>15. QED
  BY <1>4, <1>5, <1>6, <1>8, <1>9, <1>10, <1>11, <1>12, <1>13, <1>14
     DEF ServerStep, GatewayStep, UserStep

\* The gateway takes a receipt for a lease.
Confirms(c) ==
  /\ HandleReady(c) /\ HoldsLease(c, FrameRun(c))
  /\ FrameRun(c) \notin takeovers

\* A lease was there, or is given now and not ready yet.
LeaseKnown(c) ==
  managed'[c] # Null =>
    \/ \E n \in Proposals : managed'[c].run = n /\ ~managed'[c].ready /\ GivesLease(c, n)
    \/ /\ managed[c] # Null /\ managed'[c].run = managed[c].run
       /\ managed'[c].live => managed[c].live
       /\ managed'[c].ready => managed[c].ready \/ Confirms(c)
ChallengeKnown(c) ==
  recoveries'[c] # Null =>
    \/ recoveries[c] # Null /\ recoveries'[c].run = recoveries[c].run
    \/ HandleRegister(c) /\ Recovers(c)

\* What the gateway and the user do to leases and challenges.
LEMMA LeaseSteps ==
  ASSUME ContractInv, LeaseTypes, ServerStep
  PROVE  \A c \in Conns : LeaseKnown(c) /\ ChallengeKnown(c)
<1> USE DEF ContractInv, Ledger, Frames
<1> DEFINE known == \A c \in Conns : LeaseKnown(c) /\ ChallengeKnown(c)
<1>0. ASSUME Fewer PROVE known BY <1>0 DEF Fewer, LeaseKnown, ChallengeKnown
<1>1. ASSUME UNCHANGED <<managed, recoveries>> PROVE known
  BY <1>1 DEF LeaseKnown, ChallengeKnown
<1>2. ASSUME NEW c \in Conns, HandleRegister(c) PROVE known
  <2>1. CASE TurnsAway(c) \/ Observes(c) BY <1>1, <2>1 DEF TurnsAway, Observes, leases
  <2>2. CASE Recovers(c)
    <3>1. PICK n \in Proposals :
            /\ LoseConnections(ConnsOf(n), {})
            /\ recoveries' = [k \in Conns |->
                 IF k = c THEN [run |-> n, live |-> TRUE]
                 ELSE IF recoveries[k] # Null /\ recoveries[k].run = n THEN Null
                 ELSE recoveries[k]]
      BY <2>2 DEF Recovers
    <3>2. managed' = [k \in Conns |-> IF k \in ConnsOf(n) THEN Null ELSE managed[k]]
      BY <3>1 DEF LoseConnections
    <3>3. \A k \in Conns : LeaseKnown(k) BY <3>2 DEF LeaseKnown
    <3>4. \A k \in Conns : k # c => recoveries'[k] = Null \/ recoveries'[k] = recoveries[k]
      BY <3>1
    <3>5. \A k \in Conns : ChallengeKnown(k) BY <1>2, <2>2, <3>4 DEF ChallengeKnown
    <3>6. QED BY <3>3, <3>5
  <2>3. QED BY <1>2, <2>1, <2>2, Registrations
<1>3. ASSUME NEW c \in Conns, HandleRecoveryProof(c) PROVE known
  <2>1. PICK n : n = FrameRun(c) OBVIOUS
  <2>2. CASE recoveries[c] # Null /\ recoveries[c].live /\ recoveries[c].run = n
    <3>1. /\ recoveries' = [recoveries EXCEPT ![c] = Null]
          /\ managed' = [managed EXCEPT ![c] = [run |-> n, ready |-> FALSE, live |-> TRUE]]
      BY <1>3, <2>1, <2>2 DEF HandleRecoveryProof, RecoveredLease
    <3>2. n \in Proposals BY <2>2 DEF LeaseTypes, RecoveryRecords
    <3>3. recoveries'[c] = Null /\ \A k \in Conns : k # c => recoveries'[k] = recoveries[k]
      BY <3>1 DEF LeaseTypes
    <3>4. GivesLease(c, n) BY <1>3, <2>2, <3>3 DEF GivesLease
    <3>5. managed'[c].run = n /\ ~managed'[c].ready /\ \A k \in Conns : k # c => managed'[k] = managed[k]
      BY <3>1 DEF LeaseTypes
    <3>6. QED BY <3>2, <3>3, <3>4, <3>5 DEF LeaseKnown, ChallengeKnown
  <2>3. CASE ~(recoveries[c] # Null /\ recoveries[c].live /\ recoveries[c].run = n)
    <3>1. /\ recoveries' = [recoveries EXCEPT ![c] = IF @ # Null /\ ~@.live THEN Null ELSE @]
          /\ managed' = managed
      BY <1>3, <2>1, <2>3 DEF HandleRecoveryProof
    <3>2. \A k \in Conns : recoveries'[k] = recoveries[k] \/ recoveries'[k] = Null
      BY <3>1 DEF LeaseTypes
    <3>3. QED BY <3>1, <3>2 DEF LeaseKnown, ChallengeKnown
  <2>4. QED BY <2>2, <2>3
<1>4. ASSUME NEW c \in Conns, HandleLifecycle(c) \/ HandleAcknowledgement(c) PROVE known
  BY <1>1, <1>4 DEF HandleLifecycle, HandleAcknowledgement, Reject, leases
<1>5. ASSUME NEW c \in Conns, HandleReady(c) PROVE known
  <2>1. CASE HoldsLease(c, FrameRun(c))
    <3>1. PICK b : b = ReadyAfterReceipt(FrameRun(c)) OBVIOUS
    <3>2. managed[c] # Null /\ managed' = [managed EXCEPT ![c] = [@ EXCEPT !.ready = b]]
          /\ recoveries' = recoveries
      BY <1>5, <2>1, <3>1 DEF HandleReady, HoldsLease
    <3>3. b \in BOOLEAN BY <3>1 DEF ReadyAfterReceipt
    <3>4. PICK m : m = [managed[c] EXCEPT !.ready = b] OBVIOUS
    <3>5. m.run = managed[c].run /\ m.ready = b /\ m.live = managed[c].live
      BY <3>2, <3>3, <3>4, LeaseRecords DEF LeaseTypes
    <3>6. managed'[c] = m /\ \A k \in Conns : k # c => managed'[k] = managed[k]
      BY <3>2, <3>4 DEF LeaseTypes
    <3>7. b => Confirms(c) BY <1>5, <2>1, <3>1 DEF Confirms, ReadyAfterReceipt
    <3>8. QED BY <3>2, <3>5, <3>6, <3>7 DEF LeaseKnown, ChallengeKnown
  <2>2. CASE ~HoldsLease(c, FrameRun(c)) BY <1>1, <1>5, <2>2 DEF HandleReady, Reject, leases
  <2>3. QED BY <2>1, <2>2
<1>6. ASSUME NEW c \in Conns, HandleTakeover(c) PROVE known
  <2>1. CASE /\ HoldsLease(c, FrameRun(c))
             /\ managed' = [managed EXCEPT ![c] = [@ EXCEPT !.ready = FALSE]]
             /\ UNCHANGED <<recoveries>>
    <3>1. PICK b \in BOOLEAN : b = FALSE OBVIOUS
    <3>2. managed[c] # Null /\ managed' = [managed EXCEPT ![c] = [@ EXCEPT !.ready = b]]
      BY <2>1, <3>1 DEF HoldsLease
    <3>4. PICK m : m = [managed[c] EXCEPT !.ready = b] OBVIOUS
    <3>5. m.run = managed[c].run /\ m.ready = b /\ m.live = managed[c].live
      BY <3>2, <3>4, LeaseRecords DEF LeaseTypes
    <3>6. managed'[c] = m /\ \A k \in Conns : k # c => managed'[k] = managed[k]
      BY <3>2, <3>4 DEF LeaseTypes
    <3>7. QED BY <2>1, <3>1, <3>2, <3>5, <3>6 DEF LeaseKnown, ChallengeKnown
  <2>2. CASE LoseConnections({c}, {}) /\ recoveries' = [recoveries EXCEPT ![c] = Null]
    BY <1>0, <2>2, LosingLeases
  <2>3. CASE Reject(c) BY <1>1, <2>3 DEF Reject, leases
  <2>4. QED BY <1>6, <2>1, <2>2, <2>3 DEF HandleTakeover
<1>7. ASSUME NEW c \in Conns, HandleClosed(c) PROVE known
  BY <1>0, <1>7, LosingLeases DEF HandleClosed
<1>8. ASSUME NEW p \in Proposals, CommitAcknowledged(p) PROVE known
  <2>1. PICK c : c = proposal[p].conn OBVIOUS
  <2>2. /\ managed' = [managed EXCEPT ![c] = [run |-> p, ready |-> FALSE, live |-> TRUE]]
        /\ recoveries' = recoveries /\ c \in Conns /\ GivesLease(c, p)
    BY <1>8, <2>1 DEF CommitAcknowledged, ProposalTypes, GivesLease
  <2>3. managed'[c].run = p /\ ~managed'[c].ready /\ \A k \in Conns : k # c => managed'[k] = managed[k]
    BY <2>2 DEF LeaseTypes
  <2>4. QED BY <2>2, <2>3 DEF LeaseKnown, ChallengeKnown
<1>9. ASSUME NEW p \in Proposals, CommitRefused(p) \/ AuthorizeAdoption(p) PROVE known
  BY <1>1, <1>9 DEF CommitRefused, AuthorizeAdoption, leases
<1>10. CASE Lapse BY <1>0, <1>10, LapseFewer
<1>11. CASE Sweep BY <1>0, <1>11, LosingLeases DEF Sweep
<1>12. CASE CrashGateway BY <1>12 DEF CrashGateway, LeaseKnown, ChallengeKnown
<1>13. ASSUME NEW s \in Sessions, NEW r \in Roles, RequestAdoption(s, r) PROVE known
  BY <1>1, <1>13 DEF RequestAdoption, leases
<1>14. ASSUME NEW x, RetireAgentRun(x) \/ PurgeRetiredAgentRun(x) PROVE known
  <2>1. managed' = managed
        \/ managed' = [c \in Conns |-> IF c \in ConnsOf(x.run) THEN Null ELSE managed[c]]
    BY <1>14 DEF RetireAgentRun, PurgeRetiredAgentRun
  <2>2. recoveries' = [c \in Conns |->
          IF recoveries[c] # Null /\ recoveries[c].run = x.run THEN Null ELSE recoveries[c]]
    BY <1>14 DEF RetireAgentRun, PurgeRetiredAgentRun, DropAuthority
  <2>3. Fewer BY <2>1, <2>2 DEF Fewer, LeaseTypes
  <2>4. QED BY <1>0, <2>3
<1>15. QED
  BY <1>2, <1>3, <1>4, <1>5, <1>6, <1>7, <1>8, <1>9, <1>10, <1>11, <1>12, <1>13, <1>14
     DEF ServerStep, GatewayStep, UserStep

\* Only a registration uses a connection.
LEMMA UsedSteps ==
  ASSUME ContractInv, ServerStep
  PROVE  \A c \in Conns : Used(c)' => Used(c) \/ (HandleRegister(c) /\ Observes(c))
<1> USE DEF ContractInv, Ledger, Frames
<1> DEFINE kept == \A c \in Conns : Used(c)' => Used(c)
<1>1. ASSUME NEW c \in Conns, HandleRegister(c)
      PROVE  \A k \in Conns : Used(k)' => Used(k) \/ (HandleRegister(k) /\ Observes(k))
  <2>1. CASE TurnsAway(c) BY <2>1 DEF TurnsAway, Used, coordinator, leases
  <2>2. CASE Recovers(c)
    <3>1. Shrinks BY <2>2, Losing DEF Recovers
    <3>2. QED BY <3>1, UsedBefore
  <2>3. CASE Observes(c)
    <3>1. /\ proposal' = proposal
          /\ \E a : observed' = [observed EXCEPT ![owner[c]] = ObservedEntry(c, revision + 1, a)]
      BY <2>3 DEF Observes
    <3>2. \A s \in Sessions : observed'[s] = observed[s] \/ observed'[s].conn = c
      BY <3>1 DEF ObservedEntry, EntryTypes
    <3>3. \A p \in Proposals : phase'[p] # "unused" => phase[p] # "unused"
      BY <2>3 DEF Observes, Invalidate, PendingOf, ProposalsSound, InPlay
    <3>4. \A k \in Conns : Used(k)' => Used(k) \/ k = c BY <3>1, <3>2, <3>3 DEF Used
    <3>5. QED BY <1>1, <2>3, <3>4
  <2>4. QED BY <1>1, <2>1, <2>2, <2>3, Registrations
<1>2. ASSUME NEW c \in Conns,
             \/ HandleRecoveryProof(c) \/ HandleReady(c) \/ HandleTakeover(c) \/ HandleClosed(c)
             \/ HandleLifecycle(c)
      PROVE  kept
  BY <1>2, QuietHandlers, LifecycleFrames, UsedBefore DEF Quiet
<1>3. ASSUME NEW c \in Conns, HandleAcknowledgement(c) PROVE kept
  <2>1. CASE Quiet BY <2>1, UsedBefore DEF Quiet
  <2>2. CASE Accepts(c, FrameRun(c))
    <3>1. PICK p : p = FrameRun(c) OBVIOUS
    <3>2. phase' = [phase EXCEPT ![p] = "acknowledged"] /\ phase[p] # "unused"
          /\ UNCHANGED <<proposal, observed>>
      BY <2>2, <3>1 DEF Accepts
    <3>3. QED BY <3>2 DEF Used, ProposalTypes
  <2>3. QED BY <1>3, <2>1, <2>2, Answers
<1>4. ASSUME NEW p \in Proposals, CommitAcknowledged(p) PROVE kept
  BY <1>4, CommitFrames, UsedBefore
<1>5. ASSUME Lapse \/ Sweep \/ \E p \in Proposals : CommitRefused(p) PROVE kept
  BY <1>5, QuietDeadlines, UsedBefore DEF Quiet
<1>6. CASE CrashGateway
  <2>1. proposal' = proposal /\ observed' = [s \in Sessions |-> Null]
        /\ \A p \in Proposals : phase'[p] # "unused" => phase[p] # "unused"
    BY <1>6 DEF CrashGateway
  <2>2. QED BY <2>1 DEF Used
<1>7. ASSUME NEW s \in Sessions, NEW r \in Roles, RequestAdoption(s, r) PROVE kept
  <2>1. PICK n : Proposes(n, s, r) BY <1>7, Requesting
  <2>2. /\ observed' = observed /\ observed[s] # Null
        /\ proposal' = [proposal EXCEPT ![n] = ProposalFor(s, r)]
        /\ \A p \in Proposals : p # n /\ phase'[p] # "unused" => phase[p] # "unused"
    BY <2>1 DEF Proposes, leases, PendingOf, ProposalsSound, InPlay
  <2>3. QED BY <1>7, <2>2 DEF Used, ProposalFor, ProposalTypes
<1>8. ASSUME NEW p \in Proposals, AuthorizeAdoption(p) PROVE kept
  BY <1>8 DEF AuthorizeAdoption, Used, ProposalTypes, leases
<1>9. ASSUME \/ \E x \in Occupants : RetireAgentRun(x)
             \/ \E x \in retired : PurgeRetiredAgentRun(x)
      PROVE  kept
  BY <1>9, QuietUser, UsedBefore DEF Quiet
<1>10. QED
  BY <1>1, <1>2, <1>3, <1>4, <1>5, <1>6, <1>7, <1>8, <1>9
     DEF ServerStep, GatewayStep, UserStep, Occupants

-----------------------------------------------------------------------------
(* A connection is committed or recovered once. *)

\* What a connection satisfies when it registers, is used and is granted no
\* more than before.
LEMMA GrantsFewer ==
  ASSUME GrantsSound, NEW c \in Conns,
         recoveries'[c] # Null => recoveries[c] # Null,
         Registers(c)' => Registers(c),
         Used(c)' => Used(c) \/ Registers(c),
         Granted(c)' => Granted(c),
         owner'[c] = Null => owner[c] = Null /\ toGateway'[c] = toGateway[c]
  PROVE  (GrantsSound!(c))'
  BY DEF GrantsSound

\* A queue that gains no frame of a type.
LEMMA GainsWithout ==
  ASSUME NEW q, NEW r, NEW new, Gains(q, r, new), NEW t, \A f \in new : f.type # t
  PROVE  Without(q, t) => Without(r, t)
  BY DEF Gains, Without

\* An empty queue that gains nothing is empty.
LEMMA NothingGained ==
  ASSUME NEW S, NEW r \in Seq(S), Gains(<<>>, r, {})
  PROVE  r = <<>>
<1>1. DOMAIN <<>> = {} OBVIOUS
<1>2. DOMAIN r = {} BY <1>1 DEF Gains
<1>3. DOMAIN r = 1 .. Len(r) /\ Len(r) \in Nat BY LenProperties
<1>4. Len(r) = 0 BY <1>2, <1>3
<1>5. QED BY <1>4, EmptySeq

\* A lease is given once, over a connection that registered before.
LEMMA GivesOnce ==
  ASSUME ContractInv, GrantsSound, NEW c \in Conns, NEW n \in Proposals, GivesLease(c, n)
  PROVE  ~Registers(c) /\ recoveries'[c] = Null
<1> USE DEF ContractInv, Ledger, Frames
<1>1. CASE CommitAcknowledged(n) /\ proposal[n].conn = c
  <2>1. Used(c) BY <1>1 DEF CommitAcknowledged, Used
  <2>2. recoveries' = recoveries BY <1>1 DEF CommitAcknowledged
  <2>3. QED BY <2>1, <2>2 DEF GrantsSound, RegistersSound, Registers
<1>2. CASE recoveries[c] # Null /\ recoveries'[c] = Null
  BY <1>2 DEF GrantsSound
<1>3. QED BY <1>1, <1>2 DEF GivesLease

\* What the gateway and the user leave of the grants.
LEMMA ServerGrants ==
  ASSUME ContractInv, ContractInv', LeaseTypes, GrantsSound, ServerStep
  PROVE  GrantsSound'
<1> USE DEF ContractInv, Frames
<1>1. SUFFICES ASSUME NEW c \in Conns PROVE (GrantsSound!(c))'
  BY DEF GrantsSound
<1>2. UNCHANGED <<pi, owner>> /\ Gains(toGateway[c], toGateway'[c], {}) /\ RunsKnown(c)
  BY QueueSteps
<1>3. Registers(c)' => Registers(c) BY <1>2, GainsWithout DEF Registers
<1>4. LeaseKnown(c) /\ ChallengeKnown(c) BY LeaseSteps
<1>5. Used(c)' => Used(c) \/ Registers(c)
  <2>1. Used(c)' => Used(c) \/ HandleRegister(c) BY UsedSteps
  <2>2. HandleRegister(c) => Registers(c)
    BY HandledGains DEF HandleRegister, Registers, Without
  <2>3. QED BY <2>1, <2>2
<1>6. owner'[c] = Null => owner[c] = Null /\ toGateway'[c] = toGateway[c]
  <2>1. owner[c] = Null => toGateway[c] = <<>> BY DEF GrantsSound
  <2>2. toGateway'[c] \in Seq(FramesToGateway) BY DEF WireTypes
  <2>3. QED BY <1>2, <2>1, <2>2, NothingGained
<1>7. CASE \E n \in Proposals : GivesLease(c, n)
  BY <1>2, <1>3, <1>6, <1>7, GivesOnce DEF GrantsSound
<1>8. CASE ~\E n \in Proposals : GivesLease(c, n)
  <2>1. Granted(c)' => Granted(c)
    BY <1>2, <1>4, <1>8 DEF Granted, ManagedOn, LeaseKnown, RunsKnown, NamesRun, Without
  <2>2. CASE recoveries'[c] # Null => recoveries[c] # Null
    BY <1>3, <1>5, <1>6, <2>1, <2>2, GrantsFewer
  <2>3. CASE HandleRegister(c) /\ Recovers(c)
    <3>1. Registers(c) BY <2>3, HandledGains DEF HandleRegister, Registers, Without
    <3>2. ~Registers(c)'
      <4>1. toGateway[c] \in Seq(FramesToGateway) /\ toGateway[c] # <<>>
            /\ toGateway'[c] = Tail(toGateway[c])
        BY <2>3, HandledFrom DEF HandleRegister
      <4>2. QED BY <4>1, TailToGateway DEF RegistersSound, Registers
    <3>3. ~Used(c)'
      <4>1. ~Used(c) BY <3>1 DEF RegistersSound, Registers
      <4>2. Shrinks BY <2>3, Losing DEF Recovers, Ledger
      <4>3. QED BY <4>1, <4>2, UsedBefore
    <3>4. ~Granted(c)' BY <2>1, <3>1 DEF GrantsSound
    <3>5. QED BY <1>6, <3>2, <3>3, <3>4 DEF GrantsSound
  <2>4. QED BY <1>4, <2>2, <2>3 DEF ChallengeKnown
<1>9. QED BY <1>7, <1>8

\* What a turn of a Pi that opens no connection leaves of the grants.
LEMMA TurnGrants ==
  ASSUME ContractInv, ContractInv', GrantsSound, NEW s \in Sessions, NEW e, NEW g,
         PiTurn(s, e, g),
         \/ e.managed => pi[s].managed /\ e.conn = pi[s].conn
         \/ pi[s].conn # 0 /\ ~Without(toPi[pi[s].conn], "committed")
  PROVE  GrantsSound'
<1> USE DEF ContractInv, Frames
<1>1. SUFFICES ASSUME NEW c \in Conns PROVE (GrantsSound!(c))'
  BY DEF GrantsSound
<1>2. UNCHANGED <<coordinator, leases, owner>> /\ pi' = [pi EXCEPT ![s] = e]
      /\ e.conn \in {pi[s].conn, 0}
  BY DEF PiTurn
<1>3. Registers(c)' => Registers(c) BY TurnGains DEF Registers
<1>4. Used(c)' => Used(c) BY <1>2 DEF Used, coordinator, leases
<1>5. Without(toPi[c], "committed") => Without(toPi'[c], "committed")
  BY TurnGains, GainsWithout
<1>6. ManagedOn(c)' => ManagedOn(c) \/ ~Without(toPi[c], "committed")
  <2>1. CASE owner[c] = s
    <3>1. pi'[s] = e BY <1>2 DEF WireTypes
    <3>2. c # 0 BY DEF Conns
    <3>3. QED BY <1>2, <2>1, <3>1, <3>2 DEF ManagedOn
  <2>2. CASE owner[c] # s
    <3>1. owner[c] \in Sessions => pi'[owner[c]] = pi[owner[c]] BY <1>2, <2>2 DEF WireTypes
    <3>2. QED BY <1>2, <2>2, <3>1 DEF ManagedOn, WireTypes
  <2>3. QED BY <2>1, <2>2
<1>7. Granted(c)' => Granted(c) BY <1>2, <1>5, <1>6 DEF Granted, leases
<1>8. owner'[c] = Null => owner[c] = Null /\ toGateway'[c] = toGateway[c]
  <2> SUFFICES ASSUME owner'[c] = Null PROVE owner[c] = Null /\ toGateway'[c] = toGateway[c]
    OBVIOUS
  <2>1. owner[c] = Null /\ s # Null BY <1>2, StoresAssumption
  <2>2. c # pi[s].conn BY <2>1 DEF WireTypes, Conns
  <2>3. QED BY <2>1, <2>2, TurnGains
<1>9. QED BY <1>2, <1>3, <1>4, <1>7, <1>8, GrantsFewer DEF leases

\* A new connection has registered nothing and is granted nothing.
LEMMA ConnectGrants ==
  ASSUME ContractInv, ContractInv', LeasesSound, GrantsSound,
         \A s \in Sessions : pi[s].managed => pi[s].conn # 0,
         NEW s \in Sessions, NEW c \in Conns, Connects(s, c)
  PROVE  GrantsSound'
<1> USE DEF ContractInv, Frames
<1>1. /\ pi[s].conn = 0 /\ owner[c] = Null /\ owner' = [owner EXCEPT ![c] = s]
      /\ pi' = [pi EXCEPT ![s] = [@ EXCEPT !.conn = c]]
      /\ UNCHANGED <<observed, phase, proposal, managed, recoveries, toPi>>
  BY DEF Connects, coordinator, leases
<1>2. PICK f : toGateway' = [toGateway EXCEPT ![c] = <<f>>] BY DEF Connects
<1>3. /\ owner'[c] = s /\ s # Null /\ \A k \in Conns : k # c => owner'[k] = owner[k]
      /\ \A k \in Conns : k # c => toGateway'[k] = toGateway[k]
  BY <1>1, <1>2, StoresAssumption DEF WireTypes
<1>4. /\ ~pi'[s].managed /\ \A t \in Sessions : t # s => pi'[t] = pi[t]
      /\ pi'[s].conn = c
  BY <1>1 DEF WireTypes, Extensions
<1>5. ~Used(c) BY <1>1, UsedOwned
<1>6. \A k \in Conns : Used(k)' <=> Used(k) BY <1>1 DEF Used
<1>7. managed[c] = Null /\ recoveries[c] = Null
  BY <1>1 DEF LeasesSound, HeldBy, WireTypes
<1>8. toPi[c] = <<>> BY <1>1 DEF RegistersSound
<1>9. ~Granted(c)' BY <1>1, <1>3, <1>4, <1>7, <1>8 DEF Granted, ManagedOn, Without
<1>10. (GrantsSound!(c))'
  BY <1>1, <1>3, <1>7, <1>9
<1>11. ASSUME NEW k \in Conns, k # c PROVE (GrantsSound!(k))'
  <2>1. ManagedOn(k)' => ManagedOn(k)
    <3>1. owner'[k] = owner[k] /\ owner[k] \in Sessions \cup {Null} BY <1>3, <1>11 DEF WireTypes
    <3>2. owner[k] \in Sessions /\ owner[k] # s => pi'[owner[k]] = pi[owner[k]] BY <1>4
    <3>3. QED BY <1>4, <1>11, <3>1, <3>2 DEF ManagedOn
  <2>2. Granted(k)' => Granted(k) BY <1>1, <2>1 DEF Granted
  <2>3. Registers(k)' => Registers(k) BY <1>3, <1>11 DEF Registers
  <2>4. QED BY <1>1, <1>3, <1>6, <1>11, <2>2, <2>3, GrantsFewer
<1>12. QED BY <1>10, <1>11 DEF GrantsSound

\* A connection is committed or recovered once, after it registered.
LEMMA GrantsKept ==
  ASSUME ContractInv, ContractInv', LeaseTypes, LeasesSound, GrantsSound,
         \A s \in Sessions : pi[s].managed => pi[s].conn # 0, Next
  PROVE  GrantsSound'
<1> USE DEF ContractInv, Frames
<1>1. CASE ServerStep BY <1>1, ServerGrants
<1>2. ASSUME NEW s \in Sessions, Turns(s) PROVE GrantsSound'
  <2>1. ASSUME NEW c \in Conns, Connects(s, c) PROVE GrantsSound' BY <2>1, ConnectGrants
  <2>2. ASSUME NEW e, NEW n, Applies(s, e, n) PROVE GrantsSound'
    <3>1. PiTurn(s, e, Receipts(pi[s], n)) /\ pi[s].conn # 0 /\ toPi[pi[s].conn] # <<>>
          /\ Head(toPi[pi[s].conn]).type = "committed"
      BY <2>2 DEF Applies
    <3>2. ~Without(toPi[pi[s].conn], "committed")
      <4>1. toPi[pi[s].conn] \in Seq(FramesToPi) BY <3>1 DEF WireTypes, Extensions
      <4>2. QED BY <3>1, <4>1, TailOf DEF Without
    <3>3. QED BY <3>1, <3>2, TurnGrants
  <2>3. QED
    BY <1>2, <2>1, <2>2, TurnGrants
       DEF Turns, Closes, Passes, Acknowledges, Proves, Replies, Repeats, TypedIn
<1>3. QED BY <1>1, <1>2, PiTurns DEF Next, ServerStep

-----------------------------------------------------------------------------
(* What the Pi knows of its commitment. *)

\* A run that a row binds to the session of a connection is committed to it.
LEMMA HeldCommitted ==
  ASSUME ContractInv, CommittedOnce, NEW c, NEW n, HeldBy(c, n)
  PROVE  CommittedTo(owner[c], n)
<1>1. PICK x \in Occupants : x.run = n /\ x.session = owner[c] BY DEF HeldBy
<1>2. n \in Proposals /\ phase[n] = "committed" BY <1>1 DEF ContractInv, Ledger, RowTypes, RowsSound
<1>3. QED BY <1>1, <1>2 DEF CommittedOnce, CommittedTo

\* The lease of a run is given to the session committed to it.
LEMMA GivenCommitted ==
  ASSUME ContractInv, CommittedOnce, LeasesSound, Next, NEW c \in Conns, NEW n \in Proposals,
         GivesLease(c, n)
  PROVE  CommittedTo(owner[c], n)' /\ owner'[c] = owner[c]
<1> USE DEF ContractInv, Ledger
<1>1. CASE CommitAcknowledged(n) /\ proposal[n].conn = c
  <2>1. phase'[n] = "committed" /\ UNCHANGED <<proposal, owner>> /\ phase[n] = "acknowledged"
    BY <1>1 DEF CommitAcknowledged, ProposalTypes
  <2>2. proposal[n].session = owner[c] BY <1>1, <2>1 DEF ProposalsSound
  <2>3. QED BY <2>1, <2>2 DEF CommittedTo
<1>2. CASE HandleRecoveryProof(c) /\ recoveries[c] # Null /\ recoveries[c].run = n
  <2>1. HeldBy(c, n) BY <1>2 DEF LeasesSound
  <2>2. CommittedTo(owner[c], n) BY <2>1, HeldCommitted
  <2>3. CommittedTo(owner[c], n)' 
    <3>1. owner'[c] = owner[c] BY <1>2 DEF HandleRecoveryProof
    <3>2. PICK s : s = owner[c] OBVIOUS
    <3>3. CommittedTo(s, n)' BY <2>2, <3>2, CommittedToStays
    <3>4. QED BY <3>1, <3>2, <3>3 DEF CommittedTo
  <2>4. QED BY <1>2, <2>3 DEF HandleRecoveryProof
<1>3. QED BY <1>1, <1>2 DEF GivesLease

\* What the gateway and the user leave of the knowledge.
LEMMA ServerKnowledge ==
  ASSUME ContractInv, CommittedOnce, LeaseTypes, LeasesSound, KnowledgeSound, Next, ServerStep
  PROVE  KnowledgeSound'
<1> USE DEF ContractInv, Ledger, Frames
<1>1. UNCHANGED <<pi, owner>>
      /\ \A c \in Conns : Gains(toGateway[c], toGateway'[c], {}) /\ RunsKnown(c)
  BY QueueSteps
<1>2. \A s, n : CommittedTo(s, n) => CommittedTo(s, n)' BY CommittedToStays
<1>3. \A c \in Conns : \A i \in DOMAIN toPi'[c] :
        toPi'[c][i].type = "committed" => CommittedTo(owner[c], toPi[c][i].run)'
  <2> SUFFICES ASSUME NEW c \in Conns, NEW i \in DOMAIN toPi'[c], toPi'[c][i].type = "committed"
               PROVE  CommittedTo(owner[c], toPi[c][i].run)'
    OBVIOUS
  <2>1. CASE \E j \in DOMAIN toPi[c] : toPi'[c][i] = toPi[c][j]
    <3>1. PICK j \in DOMAIN toPi[c] : toPi'[c][i] = toPi[c][j] BY <2>1
    <3>2. CommittedTo(owner[c], toPi[c][j].run) BY <3>1 DEF KnowledgeSound
    <3>3. PICK s, n : s = owner[c] /\ n = toPi[c][j].run OBVIOUS
    <3>4. CommittedTo(s, n)' BY <1>2, <3>2, <3>3
    <3>5. QED BY <1>1, <3>1, <3>3, <3>4 DEF CommittedTo
  <2>2. CASE \E n \in Proposals : toPi'[c][i].run = n /\ GivesLease(c, n)
    <3>1. PICK n \in Proposals : toPi'[c][i].run = n /\ GivesLease(c, n) BY <2>2
    <3>2. CommittedTo(owner[c], n)' BY <3>1, GivenCommitted
    <3>3. QED BY <3>1, <3>2 DEF CommittedTo
  <2>3. QED BY <1>1, <2>1, <2>2 DEF RunsKnown, NamesRun
<1>4. \A c \in Conns : \A i \in DOMAIN toGateway'[c] :
        toGateway'[c][i].type \in {"ready", "takeover"} =>
          CommittedTo(owner[c], toGateway[c][i].run)' /\ Applied(c, toGateway[c][i].run)'
  <2> SUFFICES ASSUME NEW c \in Conns, NEW i \in DOMAIN toGateway'[c],
                      toGateway'[c][i].type \in {"ready", "takeover"}
               PROVE  CommittedTo(owner[c], toGateway[c][i].run)'
                      /\ Applied(c, toGateway[c][i].run)'
    OBVIOUS
  <2>1. PICK j \in DOMAIN toGateway[c] : toGateway'[c][i] = toGateway[c][j] BY <1>1 DEF Gains
  <2>2. CommittedTo(owner[c], toGateway[c][j].run) /\ Applied(c, toGateway[c][j].run)
    BY <2>1 DEF KnowledgeSound
  <2>3. PICK s, n : s = owner[c] /\ n = toGateway[c][j].run OBVIOUS
  <2>4. CommittedTo(s, n)' BY <1>2, <2>2, <2>3
  <2>5. QED BY <1>1, <2>1, <2>2, <2>3, <2>4 DEF CommittedTo, Applied
<1>5. \A s \in Sessions : pi'[s].committed # Null => CommittedTo(s, pi[s].committed)'
  <2> SUFFICES ASSUME NEW s \in Sessions, pi'[s].committed # Null
               PROVE  CommittedTo(s, pi[s].committed)'
    OBVIOUS
  <2>1. PICK n : n = pi[s].committed OBVIOUS
  <2>2. CommittedTo(s, n)' BY <1>1, <1>2, <2>1 DEF KnowledgeSound
  <2>3. QED BY <1>1, <2>1, <2>2 DEF CommittedTo
<1>6. \A s \in Sessions : pi'[s].managed => pi'[s].committed # Null /\ pi'[s].conn # 0
  BY <1>1 DEF KnowledgeSound
<1>7. ASSUME NEW c \in Conns, Confirms(c)
      PROVE  Applied(c, managed[c].run) /\ ~Without(toGateway[c], "ready")
  <2>1. Handles(c, {"ready"}) /\ Handled(c) /\ managed[c].run = FrameRun(c)
    BY <1>7 DEF Confirms, HandleReady, HoldsLease
  <2>2. 1 \in DOMAIN toGateway[c] /\ toGateway[c][1] = Head(toGateway[c])
        /\ Head(toGateway[c]).type \in {"ready"}
    BY <2>1, HandledGains
  <2>3. QED BY <2>1, <2>2 DEF KnowledgeSound, Without, FrameRun
<1>8. ASSUME NEW c \in Conns, Ready(c)'
      PROVE  /\ managed[c] # Null /\ managed'[c].run = managed[c].run
             /\ Ready(c) \/ Confirms(c)
  <2>1. LeaseKnown(c) BY LeaseSteps
  <2>2. QED BY <1>8, <2>1 DEF LeaseKnown, Ready
<1>9. \A c \in Conns : Ready(c)' => Applied(c, managed[c].run)'
  BY <1>1, <1>7, <1>8 DEF KnowledgeSound, Applied
<1>10. \A c \in Conns : Without(toGateway[c], "ready") => Without(toGateway'[c], "ready")
  BY <1>1, GainsWithout
<1>11. \A c \in Conns : Ready(c)' \/ ~Without(toGateway'[c], "ready") =>
         (pi'[owner'[c]].conn = c => pi'[owner'[c]].managed)
  BY <1>1, <1>7, <1>8, <1>10 DEF KnowledgeSound
<1>12. QED BY <1>3, <1>4, <1>5, <1>6, <1>9, <1>11 DEF KnowledgeSound

\* What a turn of a Pi leaves of the knowledge.
LEMMA TurnKnowledge ==
  ASSUME ContractInv, CommittedOnce, LeaseTypes, LeasesSound, KnowledgeSound,
         NEW s \in Sessions, NEW e, NEW g, PiTurn(s, e, g),
         e.alive => pi[s].alive,
         e.committed # Null => CommittedTo(s, e.committed),
         e.alive /\ pi[s].committed # Null => e.committed = pi[s].committed,
         e.managed => e.committed # Null /\ e.conn # 0,
         e.conn # 0 /\ pi[s].managed => e.managed,
         \/ toGateway' = toGateway
         \/ \A f \in FramesOf(g) :
              /\ f.type \in {"ready", "takeover"} => f.run = e.committed /\ e.committed # Null
              /\ f.type = "ready" => e.managed
  PROVE  KnowledgeSound'
<1> USE DEF ContractInv, Frames
<1>1. UNCHANGED <<phase, proposal, managed, owner>> /\ pi' = [pi EXCEPT ![s] = e]
      /\ e.conn \in {pi[s].conn, 0}
  BY DEF PiTurn, coordinator, leases
<1>2. pi'[s] = e /\ \A t \in Sessions : t # s => pi'[t] = pi[t] BY <1>1 DEF WireTypes
<1>3. \A t, n : CommittedTo(t, n)' <=> CommittedTo(t, n) BY <1>1 DEF CommittedTo
<1>4. Null \notin Proposals BY StoresAssumption DEF Proposals
<1>5. ASSUME NEW c \in Conns, NEW n \in Proposals, owner[c] \in Sessions, Applied(c, n)
      PROVE  Applied(c, n)'
  <2>1. CASE owner[c] = s BY <1>1, <1>2, <1>4, <1>5, <2>1 DEF Applied
  <2>2. CASE owner[c] # s BY <1>1, <1>2, <1>5, <2>2 DEF Applied
  <2>3. QED BY <2>1, <2>2
<1>6. \A c \in Conns : \A i \in DOMAIN toPi'[c] :
        toPi'[c][i].type = "committed" => CommittedTo(owner[c], toPi[c][i].run)'
  <2>1. \A c \in Conns : Gains(toPi[c], toPi'[c], {}) BY TurnGains
  <2>2. QED BY <1>1, <2>1 DEF KnowledgeSound, Gains, CommittedTo
<1>7. ASSUME NEW c \in Conns, NEW i \in DOMAIN toGateway'[c]
      PROVE  \/ \E j \in DOMAIN toGateway[c] : toGateway'[c][i] = toGateway[c][j]
             \/ /\ c = pi[s].conn
                /\ toGateway'[c][i].type \in {"ready", "takeover"} =>
                     toGateway'[c][i].run = e.committed /\ e.committed # Null
                /\ toGateway'[c][i].type = "ready" => e.managed
  <2>1. CASE toGateway' = toGateway BY <1>7, <2>1
  <2>2. CASE \A f \in FramesOf(g) :
               /\ f.type \in {"ready", "takeover"} => f.run = e.committed /\ e.committed # Null
               /\ f.type = "ready" => e.managed
    <3>1. Gains(toGateway[c], toGateway'[c], IF c = pi[s].conn THEN FramesOf(g) ELSE {})
      BY TurnGains
    <3>2. QED BY <1>7, <2>2, <3>1 DEF Gains
  <2>3. QED BY <2>1, <2>2
<1>8. ASSUME NEW c \in Conns, NEW i \in DOMAIN toGateway'[c],
             toGateway'[c][i].type \in {"ready", "takeover"}
      PROVE  CommittedTo(owner[c], toGateway[c][i].run)' /\ Applied(c, toGateway[c][i].run)'
  <2>1. CASE \E j \in DOMAIN toGateway[c] : toGateway'[c][i] = toGateway[c][j]
    <3>1. PICK j \in DOMAIN toGateway[c] : toGateway'[c][i] = toGateway[c][j] BY <2>1
    <3>2. PICK n : n = toGateway[c][j].run OBVIOUS
    <3>3. CommittedTo(owner[c], n) /\ Applied(c, n) BY <1>8, <3>1, <3>2 DEF KnowledgeSound
    <3>4. owner[c] \in Sessions
      <4>1. toGateway[c] # <<>> BY <3>1
      <4>2. QED BY <3>3, StoresAssumption DEF CommittedTo, Ledger, ProposalTypes
    <3>5. n \in Proposals BY <3>3 DEF CommittedTo
    <3>6. Applied(c, n)' BY <1>5, <3>3, <3>4, <3>5
    <3>7. QED BY <1>1, <1>3, <3>1, <3>2, <3>3, <3>6 DEF Applied, CommittedTo
  <2>2. CASE c = pi[s].conn /\ toGateway'[c][i].run = e.committed /\ e.committed # Null
    <3>1. owner[c] = s BY <2>2 DEF WireTypes, Conns
    <3>2. QED BY <1>1, <1>2, <2>2, <3>1 DEF Applied, CommittedTo
  <2>3. QED BY <1>7, <1>8, <2>1, <2>2
<1>9. \A t \in Sessions : pi'[t].committed # Null => CommittedTo(t, pi[t].committed)'
  BY <1>1, <1>2 DEF KnowledgeSound, CommittedTo
<1>10. \A t \in Sessions : pi'[t].managed => pi'[t].committed # Null /\ pi'[t].conn # 0
  BY <1>2 DEF KnowledgeSound
<1>11. ASSUME NEW c \in Conns, Ready(c)' PROVE Applied(c, managed[c].run)'
  <2>1. Ready(c) BY <1>1, <1>11 DEF Ready
  <2>2. PICK n : n = managed[c].run OBVIOUS
  <2>3. n \in Proposals BY <2>1, <2>2 DEF Ready, LeaseTypes, ManagedRecords
  <2>4. owner[c] \in Sessions BY <2>1 DEF Ready, LeasesSound, HeldBy, WireTypes
  <2>5. Applied(c, n) BY <2>1, <2>2 DEF KnowledgeSound
  <2>6. Applied(c, n)' BY <1>5, <2>3, <2>4, <2>5
  <2>7. QED BY <1>1, <2>2, <2>6 DEF Applied
<1>12. ASSUME NEW c \in Conns, Ready(c)' \/ ~Without(toGateway'[c], "ready"),
              pi'[owner'[c]].conn = c
       PROVE  pi'[owner'[c]].managed
  <2>1. \/ Ready(c) \/ ~Without(toGateway[c], "ready")
        \/ c = pi[s].conn /\ e.managed
    BY <1>1, <1>7, <1>12 DEF Without, Ready
  <2>2. CASE owner[c] = s
    <3>1. c # 0 BY DEF Conns
    <3>2. e.conn = c /\ pi[s].conn = c BY <1>1, <1>2, <1>12, <2>2, <3>1
    <3>3. QED BY <1>1, <1>2, <2>1, <2>2, <3>1, <3>2 DEF KnowledgeSound
  <2>3. CASE owner[c] # s
    <3>1. c # pi[s].conn BY <2>3 DEF WireTypes, Conns
    <3>2. Ready(c) \/ ~Without(toGateway[c], "ready") BY <2>1, <3>1
    <3>3. owner[c] \in Sessions
      <4>1. CASE Ready(c) BY <4>1 DEF Ready, LeasesSound, HeldBy, WireTypes
      <4>2. ASSUME NEW j \in DOMAIN toGateway[c], toGateway[c][j].type = "ready"
            PROVE  owner[c] \in Sessions
        BY <4>2 DEF KnowledgeSound, CommittedTo, Ledger, ProposalTypes
      <4>3. QED BY <3>2, <4>1, <4>2 DEF Without
    <3>4. QED BY <1>1, <1>2, <1>12, <2>3, <3>2, <3>3 DEF KnowledgeSound
  <2>4. QED BY <2>2, <2>3
<1>13. QED BY <1>6, <1>8, <1>9, <1>10, <1>11, <1>12 DEF KnowledgeSound

\* A Pi that connects knows what it knew.
LEMMA ConnectKnowledge ==
  ASSUME ContractInv, CommittedOnce, LeaseTypes, LeasesSound, KnowledgeSound,
         NEW s \in Sessions, NEW c \in Conns, Connects(s, c)
  PROVE  KnowledgeSound'
<1> USE DEF ContractInv, Frames
<1>1. /\ pi[s].conn = 0 /\ owner[c] = Null /\ owner' = [owner EXCEPT ![c] = s]
      /\ pi' = [pi EXCEPT ![s] = [@ EXCEPT !.conn = c]]
      /\ UNCHANGED <<phase, proposal, managed, toPi>>
  BY DEF Connects, coordinator, leases
<1>2. PICK a \in Activities :
        toGateway' = [toGateway EXCEPT ![c] = <<[type |-> "register", activity |-> a]>>]
  BY DEF Connects
<1>3. /\ owner'[c] = s /\ \A k \in Conns : k # c => owner'[k] = owner[k]
      /\ toGateway'[c] = <<[type |-> "register", activity |-> a]>>
      /\ \A k \in Conns : k # c => toGateway'[k] = toGateway[k]
  BY <1>1, <1>2 DEF WireTypes
<1>4. /\ \A t \in Sessions : t # s => pi'[t] = pi[t]
      /\ pi'[s].conn = c /\ pi'[s].managed = pi[s].managed /\ pi'[s].committed = pi[s].committed
      /\ pi'[s].alive = pi[s].alive /\ ~pi[s].managed
  BY <1>1 DEF WireTypes, Extensions, KnowledgeSound
<1>5. \A t, n : CommittedTo(t, n)' <=> CommittedTo(t, n) BY <1>1 DEF CommittedTo
<1>6. managed[c] = Null /\ toPi[c] = <<>>
  BY <1>1 DEF LeasesSound, HeldBy, WireTypes, RegistersSound
<1>7. \A i \in DOMAIN toGateway'[c] : toGateway'[c][i].type = "register" BY <1>3
<1>8. \A k \in Conns : \A i \in DOMAIN toPi'[k] :
        toPi'[k][i].type = "committed" => CommittedTo(owner[k], toPi[k][i].run)'
  <2> SUFFICES ASSUME NEW k \in Conns, NEW i \in DOMAIN toPi'[k], toPi'[k][i].type = "committed"
               PROVE  CommittedTo(owner[k], toPi[k][i].run)'
    OBVIOUS
  <2>1. k # c BY <1>1, <1>6
  <2>2. CommittedTo(owner[k], toPi[k][i].run) BY <1>1 DEF KnowledgeSound
  <2>3. QED BY <1>1, <1>3, <2>1, <2>2 DEF CommittedTo
<1>9. ASSUME NEW k \in Conns, k # c, owner[k] \in Sessions
      PROVE  \A n : Applied(k, n) => Applied(k, n)'
  BY <1>3, <1>4, <1>9 DEF Applied
<1>10. ASSUME NEW k \in Conns, NEW i \in DOMAIN toGateway'[k],
              toGateway'[k][i].type \in {"ready", "takeover"}
       PROVE  CommittedTo(owner[k], toGateway[k][i].run)' /\ Applied(k, toGateway[k][i].run)'
  <2>1. k # c BY <1>7, <1>10
  <2>2. PICK n : n = toGateway[k][i].run OBVIOUS
  <2>3. CommittedTo(owner[k], n) /\ Applied(k, n) /\ toGateway'[k][i].run = n
    BY <1>3, <1>10, <2>1, <2>2 DEF KnowledgeSound
  <2>4. owner[k] \in Sessions BY <2>3 DEF CommittedTo, Ledger, ProposalTypes
  <2>5. Applied(k, n)' BY <1>9, <2>1, <2>3, <2>4
  <2>6. QED BY <1>1, <1>3, <2>1, <2>3, <2>5 DEF Applied, CommittedTo
<1>11. \A t \in Sessions : pi'[t].committed # Null => CommittedTo(t, pi[t].committed)'
  BY <1>1, <1>4 DEF KnowledgeSound, CommittedTo
<1>12. \A t \in Sessions : pi'[t].managed => pi'[t].committed # Null /\ pi'[t].conn # 0
  BY <1>4 DEF KnowledgeSound
<1>13. ASSUME NEW k \in Conns, Ready(k)' PROVE Applied(k, managed[k].run)'
  <2>1. Ready(k) /\ k # c BY <1>1, <1>6, <1>13 DEF Ready
  <2>2. PICK n : n = managed[k].run OBVIOUS
  <2>3. owner[k] \in Sessions BY <2>1 DEF Ready, LeasesSound, HeldBy, WireTypes
  <2>4. Applied(k, n)' BY <1>9, <2>1, <2>2, <2>3 DEF KnowledgeSound
  <2>5. QED BY <1>1, <2>2, <2>4 DEF Applied
<1>14. ASSUME NEW k \in Conns, Ready(k)' \/ ~Without(toGateway'[k], "ready"),
              pi'[owner'[k]].conn = k
       PROVE  pi'[owner'[k]].managed
  <2>1. k # c BY <1>1, <1>6, <1>7, <1>14 DEF Ready, Without
  <2>2. Ready(k) \/ ~Without(toGateway[k], "ready") BY <1>1, <1>3, <1>14, <2>1 DEF Ready
  <2>3. owner[k] \in Sessions
    <3>1. CASE Ready(k) BY <3>1 DEF Ready, LeasesSound, HeldBy, WireTypes
    <3>2. ASSUME NEW j \in DOMAIN toGateway[k], toGateway[k][j].type = "ready"
          PROVE  owner[k] \in Sessions
      BY <3>2 DEF KnowledgeSound, CommittedTo, Ledger, ProposalTypes
    <3>3. QED BY <2>2, <3>1, <3>2 DEF Without
  <2>4. owner[k] # s /\ owner'[k] = owner[k] BY <1>3, <1>4, <1>14, <2>1
  <2>5. QED BY <1>4, <1>14, <2>2, <2>3, <2>4 DEF KnowledgeSound
<1>15. QED BY <1>8, <1>10, <1>11, <1>12, <1>13, <1>14 DEF KnowledgeSound

\* The frames of one message, and of a receipt.
LEMMA FramesOfOne ==
  /\ \A f : FramesOf(<<f>>) = {f}
  /\ FramesOf(<<>>) = {}
  /\ \A q, n : FramesOf(Receipts(q, n)) \subseteq {Frame("takeover", n), Frame("ready", n)}
  /\ \A q, n : Frame("ready", n) \in FramesOf(Receipts(q, n))
  /\ \A q, n : q.takeover => Frame("takeover", n) \in FramesOf(Receipts(q, n))
<1>1. \A f : DOMAIN <<f>> = {1} /\ <<f>>[1] = f OBVIOUS
<1>2. DOMAIN <<>> = {} OBVIOUS
<1>3. \A f, g : DOMAIN <<f, g>> = {1, 2} /\ <<f, g>>[1] = f /\ <<f, g>>[2] = g OBVIOUS
<1>4. QED BY <1>1, <1>2, <1>3 DEF FramesOf, Receipts

\* The type and the run of a frame of the Pi.
LEMMA FrameFields ==
  /\ \A t, n : Frame(t, n).type = t /\ Frame(t, n).run = n
  /\ Closed.type = "closed"
  BY DEF Frame, Closed

\* What the Pi was told, applied and reports of a commitment is of the run its
\* session is committed to.
LEMMA KnowledgeKept ==
  ASSUME ContractInv, CommittedOnce, LeaseTypes, LeasesSound, KnowledgeSound, Next
  PROVE  KnowledgeSound'
<1> USE DEF ContractInv, Frames
<1>1. CASE ServerStep BY <1>1, ServerKnowledge
<1>2. ASSUME NEW s \in Sessions, Turns(s) PROVE KnowledgeSound'
  <2> DEFINE c == pi[s].conn
  <2>0. /\ pi[s].committed # Null => CommittedTo(s, pi[s].committed)
        /\ pi[s].managed => pi[s].committed # Null /\ c # 0
    BY DEF KnowledgeSound
  <2>1. ASSUME NEW k \in Conns, Connects(s, k) PROVE KnowledgeSound'
    BY <2>1, ConnectKnowledge
  <2>2. ASSUME NEW e, Closes(s, e) PROVE KnowledgeSound'
    <3>1. \A f \in FramesOf(<<Closed>>) : f.type \notin {"ready", "takeover"}
      BY FramesOfOne, FrameFields
    <3>2. QED BY <2>0, <2>2, <3>1, TurnKnowledge DEF Closes
  <2>3. ASSUME NEW e, NEW g, Passes(s, e, g) PROVE KnowledgeSound'
    <3>1. \A f \in FramesOf(g) : f.type \notin {"ready", "takeover"}
      BY <2>3 DEF Passes, Silent, Without, FramesOf
    <3>2. QED BY <2>0, <2>3, <3>1, TurnKnowledge DEF Passes
  <2>4. ASSUME NEW e, NEW n, Acknowledges(s, e, n) \/ Proves(s, e, n) PROVE KnowledgeSound'
    <3>1. \A f \in FramesOf(<<Frame("acknowledged", n)>>) \cup FramesOf(<<Frame("proof", n)>>) :
            f.type \notin {"ready", "takeover"}
      BY FramesOfOne, FrameFields
    <3>2. QED BY <2>0, <2>4, <3>1, TurnKnowledge DEF Acknowledges, Proves, Replies
  <2>5. ASSUME NEW e, NEW n, Applies(s, e, n) PROVE KnowledgeSound'
    <3>1. PiTurn(s, e, Receipts(pi[s], n)) /\ c # 0 /\ toPi[c] # <<>>
          /\ Head(toPi[c]).type = "committed" /\ Head(toPi[c]).run = n
          /\ e.alive = pi[s].alive /\ e.conn = c /\ e.managed /\ e.committed = n
      BY <2>5 DEF Applies
    <3>2. c \in Conns /\ owner[c] = s BY <3>1 DEF WireTypes, Extensions
    <3>3. 1 \in DOMAIN toPi[c] /\ Head(toPi[c]) = toPi[c][1]
      BY <3>1, <3>2, TailOf DEF WireTypes
    <3>4. CommittedTo(s, n) BY <3>1, <3>2, <3>3 DEF KnowledgeSound
    <3>5. n # Null BY <3>4, StoresAssumption DEF CommittedTo, Proposals
    <3>6. pi[s].committed # Null => pi[s].committed = n
      <4>1. ASSUME pi[s].committed # Null PROVE pi[s].committed = n
        <5>1. PICK m : m = pi[s].committed OBVIOUS
        <5>2. CommittedTo(s, m) BY <2>0, <4>1, <5>1
        <5>3. m = n BY <3>4, <5>2 DEF CommittedTo, CommittedOnce
        <5>4. QED BY <5>1, <5>3
      <4>2. QED BY <4>1
    <3>7. \A f \in FramesOf(Receipts(pi[s], n)) : f.run = n BY FramesOfOne, FrameFields
    <3>8. QED BY <3>1, <3>4, <3>5, <3>6, <3>7, TurnKnowledge
  <2>6. ASSUME Repeats(s) PROVE KnowledgeSound'
    <3>1. \A f \in FramesOf(<<Frame("ready", pi[s].committed)>>) : f.run = pi[s].committed
      BY FramesOfOne, FrameFields
    <3>2. QED BY <2>0, <2>6, <3>1, TurnKnowledge DEF Repeats
  <2>7. ASSUME NEW e, TypedIn(s, e) PROVE KnowledgeSound'
    <3>1. \A f \in FramesOf(<<Frame("takeover", pi[s].committed)>>) :
            f.run = pi[s].committed /\ f.type = "takeover"
      BY FramesOfOne, FrameFields
    <3>2. /\ PiTurn(s, e, <<Frame("takeover", pi[s].committed)>>)
          /\ e.alive = pi[s].alive /\ e.conn = c /\ e.managed = pi[s].managed
          /\ e.committed = pi[s].committed
          /\ pi[s].committed = Null \/ c = 0 => toGateway' = toGateway
      BY <2>7 DEF TypedIn
    <3>3. \/ toGateway' = toGateway
          \/ \A f \in FramesOf(<<Frame("takeover", pi[s].committed)>>) :
               /\ f.type \in {"ready", "takeover"} => f.run = e.committed /\ e.committed # Null
               /\ f.type = "ready" => e.managed
      BY <3>1, <3>2
    <3>4. QED BY <2>0, <3>2, <3>3, TurnKnowledge
  <2>8. QED BY <1>2, <2>1, <2>2, <2>3, <2>4, <2>5, <2>6, <2>7 DEF Turns
<1>3. QED BY <1>1, <1>2, PiTurns DEF Next, ServerStep

-----------------------------------------------------------------------------
(* Takeovers. *)

\* A report stays in its queue until the gateway takes it.
LEMMA ReportSteps ==
  ASSUME ContractInv, LeaseTypes, ServerStep, NEW c \in Conns, NEW n, Reported(c, n)
  PROVE  \/ Reported(c, n)'
         \/ HandleTakeover(c) /\ FrameRun(c) = n
         \/ managed'[c] = Null
<1> USE DEF ContractInv, Frames
<1> DEFINE kept == Reported(c, n)' \/ (HandleTakeover(c) /\ FrameRun(c) = n) \/ managed'[c] = Null
<1>0. ASSUME UNCHANGED toGateway PROVE kept BY <1>0 DEF Reported
<1>1. ASSUME NEW k, NEW types, Handles(k, types), Handled(k),
             k = c /\ toGateway[c][1] = Frame("takeover", n) => kept
      PROVE  kept
  <2>1. k \in Conns /\ toGateway[k] \in Seq(FramesToGateway) /\ toGateway[k] # <<>>
        /\ toGateway'[k] = Tail(toGateway[k]) /\ \A m \in Conns : m # k => toGateway'[m] = toGateway[m]
    BY <1>1, HandledFrom
  <2>2. PICK i \in DOMAIN toGateway[c] : toGateway[c][i] = Frame("takeover", n) BY DEF Reported
  <2>3. CASE k # c BY <2>1, <2>3 DEF Reported
  <2>4. CASE k = c /\ i # 1
    <3>1. /\ DOMAIN toGateway[c] = 1 .. Len(toGateway[c]) /\ Len(toGateway[c]) \in Nat \ {0}
          /\ DOMAIN toGateway'[c] = 1 .. Len(toGateway[c]) - 1
          /\ \A j \in 1 .. Len(toGateway[c]) - 1 : toGateway'[c][j] = toGateway[c][j + 1]
      <4> DEFINE q == toGateway[c]
      <4>1. q \in Seq(FramesToGateway) /\ q # <<>> /\ toGateway'[c] = Tail(q) BY <2>1, <2>4
      <4> HIDE DEF q
      <4>2. /\ DOMAIN q = 1 .. Len(q) /\ Len(q) \in Nat \ {0} /\ DOMAIN Tail(q) = 1 .. Len(q) - 1
            /\ \A j \in 1 .. Len(q) - 1 : Tail(q)[j] = q[j + 1]
        BY <4>1, TailOf
      <4> QED BY <4>1, <4>2 DEF q
    <3>2. i - 1 \in 1 .. Len(toGateway[c]) - 1 /\ (i - 1) + 1 = i BY <2>2, <2>4, <3>1
    <3>3. toGateway'[c][i - 1] = Frame("takeover", n) BY <2>2, <3>1, <3>2
    <3>4. Reported(c, n)' BY <3>1, <3>3, <3>2 DEF Reported
    <3>5. QED BY <3>4
  <2>5. CASE k = c /\ i = 1 BY <1>1, <2>2, <2>5
  <2>6. QED BY <2>3, <2>4, <2>5
<1>2. ASSUME NEW k, NEW types, Handles(k, types), Handled(k), "takeover" \notin types
      PROVE  kept
  <2>1. toGateway[k][1] = Head(toGateway[k]) /\ Head(toGateway[k]).type \in types
    BY <1>2, HandledGains
  <2>2. ~(k = c /\ toGateway[c][1] = Frame("takeover", n)) BY <1>2, <2>1, FrameFields
  <2>3. QED BY <1>1, <1>2, <2>2
<1>3. ASSUME NEW k \in Conns, HandleTakeover(k) PROVE kept
  <2>1. Handles(k, {"takeover"}) /\ Handled(k) BY <1>3 DEF HandleTakeover
  <2>2. toGateway[k][1] = Head(toGateway[k]) BY <2>1, HandledGains
  <2>3. k = c /\ toGateway[c][1] = Frame("takeover", n) => kept
    BY <1>3, <2>2, FrameFields DEF FrameRun
  <2>4. QED BY <1>1, <2>1, <2>3
<1>4. ASSUME NEW k \in Conns,
             \/ HandleRegister(k) \/ HandleRecoveryProof(k) \/ HandleLifecycle(k)
             \/ HandleAcknowledgement(k) \/ HandleReady(k) \/ HandleClosed(k)
      PROVE  kept
  BY <1>2, <1>4 DEF HandleRegister, HandleRecoveryProof, HandleLifecycle, HandleAcknowledgement,
                    HandleReady, HandleClosed
<1>5. CASE CrashGateway BY <1>5 DEF CrashGateway
<1>6. QED
  BY <1>0, <1>3, <1>4, <1>5
     DEF ServerStep, GatewayStep, UserStep, CommitAcknowledged, CommitRefused, Lapse, Sweep,
         RequestAdoption, AuthorizeAdoption, RetireAgentRun, PurgeRetiredAgentRun, wire

\* A report handled is recorded, or the connection has no live lease of the
\* run, or its session is retired.
LEMMA ReportHandled ==
  ASSUME ContractInv, CommittedOnce, LeaseTypes, LeasesSound, NEW c \in Conns, NEW n,
         CommittedTo(owner[c], n), HandleTakeover(c), FrameRun(c) = n
  PROVE  \/ n \in takeovers'
         \/ managed'[c] = Null \/ ~managed'[c].live
         \/ IsRetired(owner[c]) /\ UNCHANGED stores
<1>1. CASE RecordManualTakeover(FrameRun(c)) BY <1>1 DEF RecordManualTakeover
<1>2. CASE LoseConnections({c}, {}) BY <1>2 DEF LoseConnections
<1>3. CASE ~HoldsLease(c, FrameRun(c)) /\ Reject(c)
  <2>1. UNCHANGED <<stores, managed>> BY <1>3 DEF Reject, leases
  <2>2. CASE managed[c] # Null /\ managed[c].live
    <3>1. PICK m : m = managed[c].run OBVIOUS
    <3>2. HeldBy(c, m) BY <2>2, <3>1 DEF LeasesSound
    <3>3. CommittedTo(owner[c], m) BY <3>2, HeldCommitted
    <3>4. m = n BY <3>3 DEF CommittedTo, CommittedOnce
    <3>5. IsRetired(owner[c]) BY <1>3, <2>2, <3>1, <3>4 DEF HoldsLease
    <3>6. QED BY <2>1, <3>5
  <2>3. QED BY <2>1, <2>2
<1>4. QED BY <1>1, <1>2, <1>3 DEF HandleTakeover

\* A takeover recorded stays so until its session has a fence.
LEMMA RecordedStays ==
  ASSUME ContractInv, CommittedOnce, Next, NEW s, NEW n, CommittedTo(s, n), n \in takeovers
  PROVE  n \in takeovers' \/ s \in fences'
<1> USE DEF ContractInv, Ledger
<1>1. ASSUME NEW t \in retired, PurgeRetiredAgentRun(t) PROVE n \in takeovers' \/ s \in fences'
  <2>1. fences' = fences \cup {t.session} /\ takeovers' = takeovers \ {t.run}
    BY <1>1 DEF PurgeRetiredAgentRun, PurgeRetiredRun
  <2>2. proposal[t.run].session = t.session BY OneRow DEF CommittedOnce
  <2>3. QED BY <2>1, <2>2 DEF CommittedTo
<1>2. ASSUME takeovers \subseteq takeovers' PROVE n \in takeovers' \/ s \in fences' BY <1>2
<1>3. CASE PiStep
  BY <1>3 DEF PiStep, Connect, ReceiveRegistered, ReceiveRequest, ReceiveChallenge,
              ReceiveCommitted, ReceiveEnd, RepeatReady, Input, ChangeActivity, Disconnect, Quit,
              stores
<1>4. CASE UserStep
  BY <1>1, <1>4
     DEF UserStep, RequestAdoption, AuthorizeAdoption, RetireAgentRun, CommitRetirement, stores
<1>5. CASE GatewayStep
  BY <1>5
     DEF GatewayStep, HandleRegister, Register, BeginRecovery, HandleRecoveryProof, HandleLifecycle,
         HandleAcknowledgement, HandleReady, HandleTakeover, RecordManualTakeover, HandleClosed,
         Reject, CommitAcknowledged, Insertion, CommitAdoption, CommitReplacementAdoption,
         CommitRefused, Lapse, Sweep, CrashGateway, stores
<1>6. QED BY <1>3, <1>4, <1>5 DEF Next

\* A session that is retired stays so.
LEMMA RetiredStays ==
  ASSUME Next, NEW s, IsRetired(s)
  PROVE  IsRetired(s)'
<1>1. ASSUME fences \subseteq fences', retired \subseteq retired' PROVE IsRetired(s)'
  BY <1>1 DEF IsRetired
<1>2. ASSUME NEW t \in retired, PurgeRetiredAgentRun(t) PROVE IsRetired(s)'
  BY <1>2 DEF PurgeRetiredAgentRun, PurgeRetiredRun, IsRetired
<1>3. CASE PiStep
  BY <1>1, <1>3
     DEF PiStep, Connect, ReceiveRegistered, ReceiveRequest, ReceiveChallenge, ReceiveCommitted,
         ReceiveEnd, RepeatReady, Input, ChangeActivity, Disconnect, Quit, stores
<1>4. CASE UserStep
  BY <1>1, <1>2, <1>4
     DEF UserStep, RequestAdoption, AuthorizeAdoption, RetireAgentRun, CommitRetirement, stores
<1>5. CASE GatewayStep
  <2>1. ASSUME UNCHANGED stores PROVE IsRetired(s)' BY <1>1, <2>1 DEF stores
  <2>2. ASSUME NEW c \in Conns, HandleRegister(c) PROVE IsRetired(s)'
    BY <2>1, <2>2 DEF HandleRegister, Register, BeginRecovery, Reject, stores
  <2>3. ASSUME NEW c \in Conns, HandleTakeover(c) PROVE IsRetired(s)'
    BY <1>1, <2>3 DEF HandleTakeover, RecordManualTakeover, Reject, stores
  <2>4. ASSUME NEW c \in Conns,
               \/ HandleRecoveryProof(c) \/ HandleLifecycle(c) \/ HandleAcknowledgement(c)
               \/ HandleReady(c) \/ HandleClosed(c)
        PROVE  IsRetired(s)'
    BY <2>1, <2>4 DEF HandleRecoveryProof, HandleLifecycle, HandleAcknowledgement, HandleReady,
                      HandleClosed, Reject
  <2>5. ASSUME NEW p \in Proposals, CommitAcknowledged(p) PROVE IsRetired(s)'
    BY <1>1, <2>5 DEF CommitAcknowledged, Insertion, CommitAdoption, CommitReplacementAdoption
  <2>6. ASSUME NEW p \in Proposals, CommitRefused(p) PROVE IsRetired(s)'
    BY <2>1, <2>6 DEF CommitRefused
  <2>7. CASE Lapse \/ Sweep \/ CrashGateway BY <2>1, <2>7 DEF Lapse, Sweep, CrashGateway
  <2>8. QED BY <1>5, <2>2, <2>3, <2>4, <2>5, <2>6, <2>7 DEF GatewayStep
<1>6. QED BY <1>3, <1>4, <1>5 DEF Next

\* The gateway gives no lease to a connection whose Pi is managed.
LEMMA ManagedGetsNone ==
  ASSUME ContractInv, CommittedOnce, GrantsSound, KnowledgeSound,
         NEW c \in Conns, ManagedOn(c), NEW p \in Proposals, GivesLease(c, p)
  PROVE  FALSE
<1> USE DEF ContractInv, Ledger, Frames
<1>1. CASE recoveries[c] # Null BY <1>1 DEF GrantsSound, Granted
<1>2. CASE CommitAcknowledged(p) /\ proposal[p].conn = c
  <2>1. \A x \in Occupants : x.session # proposal[p].session BY <1>2, CommitFrames
  <2>2. phase[p] = "acknowledged" /\ observed[proposal[p].session] # Null
    BY <1>2 DEF CommitAcknowledged, CommitChecks, CurrentIdentity
  <2>3. proposal[p].session = owner[c] /\ owner[c] \in Sessions
    BY <1>2, <2>2 DEF ProposalsSound, ProposalTypes
  <2>4. owner[c] \notin fences BY <2>2, <2>3 DEF EntriesSound
  <2>5. PICK n : n = pi[owner[c]].committed OBVIOUS
  <2>6. CommittedTo(owner[c], n) BY <2>3, <2>5 DEF ManagedOn, KnowledgeSound
  <2>7. \E x \in Occupants : x.run = n BY <2>4, <2>6 DEF CommittedTo, CommittedOnce
  <2>8. \E x \in Occupants : x.session = owner[c] BY <2>6, <2>7 DEF CommittedTo, CommittedOnce
  <2>9. QED BY <2>1, <2>3, <2>8
<1>3. QED BY <1>1, <1>2 DEF GivesLease

\* What the gateway and the user leave of the takeovers.
LEMMA ServerTakeovers ==
  ASSUME ContractInv, CommittedOnce, LeaseTypes, LeasesSound, GrantsSound, KnowledgeSound,
         TakeoversSound, Next, ServerStep
  PROVE  TakeoversSound'
<1> USE DEF ContractInv, Frames
<1>1. UNCHANGED <<pi, owner>> BY QueueSteps
<1>2. SUFFICES ASSUME NEW s \in Sessions, pi[s].managed, pi[s].takeover
               PROVE  LET c == pi[s].conn
                          n == pi[s].committed IN
                      \/ Reported(c, n)' \/ n \in takeovers'
                      \/ managed'[c] = Null \/ ~managed'[c].live
                      \/ IsRetired(s)'
  BY <1>1 DEF TakeoversSound, Reported
<1>3. PICK c, n : c = pi[s].conn /\ n = pi[s].committed OBVIOUS
<1>4. c \in Conns /\ owner[c] = s /\ CommittedTo(s, n) /\ ManagedOn(c)
  BY <1>2, <1>3, StoresAssumption DEF KnowledgeSound, WireTypes, Extensions, ManagedOn
<1>5. CASE Reported(c, n)
  <2>1. \/ Reported(c, n)'
        \/ HandleTakeover(c) /\ FrameRun(c) = n
        \/ managed'[c] = Null
    BY <1>4, <1>5, ReportSteps
  <2>2. ASSUME HandleTakeover(c), FrameRun(c) = n
        PROVE \/ n \in takeovers' \/ managed'[c] = Null \/ ~managed'[c].live
              \/ IsRetired(s)'
    <3>1. \/ n \in takeovers' \/ managed'[c] = Null \/ ~managed'[c].live
          \/ IsRetired(owner[c]) /\ UNCHANGED stores
      BY <1>4, <2>2, ReportHandled
    <3>2. QED BY <1>4, <3>1, RetiredStays
  <2>3. Reported(c, n)' \/ n \in takeovers' \/ managed'[c] = Null \/ ~managed'[c].live \/ IsRetired(s)'
    BY <2>1, <2>2
  <2>4. pi'[s].conn = c /\ pi'[s].committed = n BY <1>1, <1>3
  <2>5. QED BY <1>1, <1>3, <2>3
<1>6. CASE n \in takeovers
  <2>1. n \in takeovers' \/ s \in fences' BY <1>4, <1>6, RecordedStays
  <2>2. QED BY <1>3, <2>1 DEF IsRetired
<1>7. CASE managed[c] = Null \/ ~managed[c].live
  <2>1. LeaseKnown(c) BY <1>4, LeaseSteps
  <2>2. \A p \in Proposals : ~GivesLease(c, p) BY <1>4, ManagedGetsNone
  <2>3. managed'[c] = Null \/ ~managed'[c].live BY <1>7, <2>1, <2>2 DEF LeaseKnown
  <2>4. QED BY <1>3, <2>3
<1>8. CASE IsRetired(s) BY <1>8, RetiredStays
<1>9. QED BY <1>2, <1>3, <1>5, <1>6, <1>7, <1>8 DEF TakeoversSound

\* Frames written stay behind those that were there.
LEMMA WrittenQueue ==
  ASSUME WireTypes, NEW c \in Conns, NEW g \in Seq(FramesToGateway), toGateway' = Written(c, g)
  PROVE  /\ \A n : Reported(c, n) => Reported(c, n)'
         /\ \A n : c \in serving /\ Frame("takeover", n) \in FramesOf(g) => Reported(c, n)'
<1>1. CASE c \notin serving BY <1>1 DEF Written, Reported
<1>2. CASE c \in serving
  <2>1. toGateway[c] \in Seq(FramesToGateway) /\ toGateway'[c] = toGateway[c] \o g
    BY <1>2 DEF Written, WireTypes
  <2>2. PICK q : q = toGateway[c] OBVIOUS
  <2>3. /\ Len(q) \in Nat /\ Len(g) \in Nat
        /\ DOMAIN q = 1 .. Len(q) /\ DOMAIN g = 1 .. Len(g)
        /\ DOMAIN (q \o g) = 1 .. Len(q) + Len(g)
        /\ \A i \in 1 .. Len(q) + Len(g) :
             (q \o g)[i] = IF i <= Len(q) THEN q[i] ELSE g[i - Len(q)]
    BY <2>1, <2>2, ConcatProperties, LenProperties
  <2>4. \A i \in DOMAIN q : i \in DOMAIN (q \o g) /\ (q \o g)[i] = q[i] BY <2>3
  <2>5. ASSUME NEW i \in DOMAIN g
        PROVE  Len(q) + i \in DOMAIN (q \o g) /\ (q \o g)[Len(q) + i] = g[i]
    <3>1. i \in Nat /\ i >= 1 /\ i <= Len(g) BY <2>3, <2>5
    <3>2. ~(Len(q) + i <= Len(q)) /\ (Len(q) + i) - Len(q) = i
          /\ Len(q) + i \in 1 .. Len(q) + Len(g)
      BY <2>3, <3>1
    <3>3. QED BY <2>3, <3>2
  <2>6. QED BY <1>2, <2>1, <2>2, <2>4, <2>5 DEF Reported, FramesOf
<1>3. QED BY <1>1, <1>2

\* What a turn of a Pi leaves of the takeovers.
LEMMA TurnTakeovers ==
  ASSUME ContractInv, LeasesSound, KnowledgeSound, TakeoversSound,
         NEW s \in Sessions, NEW e, NEW g, PiTurn(s, e, g),
         e.managed /\ e.takeover =>
           /\ e.conn = pi[s].conn /\ pi[s].conn # 0
           /\ \/ pi[s].managed /\ pi[s].takeover /\ e.committed = pi[s].committed
              \/ /\ toGateway' = Written(pi[s].conn, g)
                 /\ Frame("takeover", e.committed) \in FramesOf(g)
  PROVE  TakeoversSound'
<1> USE DEF ContractInv, Frames
<1>1. /\ UNCHANGED <<stores, managed, owner, serving>> /\ pi' = [pi EXCEPT ![s] = e]
      /\ g \in Seq(FramesToGateway)
      /\ pi[s].conn # 0 => toGateway' = toGateway \/ toGateway' = Written(pi[s].conn, g)
  BY DEF PiTurn, leases
<1>2. pi'[s] = e /\ \A t \in Sessions : t # s => pi'[t] = pi[t] BY <1>1 DEF WireTypes
<1>3. takeovers' = takeovers /\ \A t : IsRetired(t) => IsRetired(t)'
  BY <1>1 DEF stores, IsRetired
<1>4. ASSUME NEW t \in Sessions, pi'[t].managed, pi'[t].takeover
      PROVE  \/ Reported(pi[t].conn, pi[t].committed)'
             \/ pi'[t].committed \in takeovers'
             \/ managed'[pi'[t].conn] = Null \/ ~managed'[pi'[t].conn].live
             \/ IsRetired(t)'
  <2>1. CASE t = s
    <3> DEFINE c == pi[s].conn
    <3>1. e.managed /\ e.takeover /\ e.conn = c /\ c # 0 BY <1>2, <1>4, <2>1
    <3>2. c \in Conns BY <3>1 DEF WireTypes, Extensions
    <3>3. CASE pi[s].managed /\ pi[s].takeover /\ e.committed = pi[s].committed
      <4>1. \/ Reported(c, e.committed)
            \/ e.committed \in takeovers
            \/ managed[c] = Null \/ ~managed[c].live
            \/ IsRetired(s)
        BY <3>3 DEF TakeoversSound
      <4>2. PICK n : n = e.committed OBVIOUS
      <4>3. Reported(c, n) => Reported(c, n)'
        <5>1. CASE toGateway' = toGateway BY <5>1, <1>2, <3>1 DEF Reported
        <5>2. CASE toGateway' = Written(c, g)
          <6>1. PICK k \in Conns : k = c BY <3>2
          <6>2. Reported(k, n) => Reported(k, n)' BY <1>1, <5>2, <6>1, WrittenQueue
          <6>3. QED BY <1>2, <3>1, <6>1, <6>2 DEF Reported
        <5>3. QED BY <1>1, <3>1, <5>1, <5>2
      <4>4. QED BY <1>1, <1>2, <1>3, <2>1, <3>1, <4>1, <4>2, <4>3 DEF Reported
    <3>4. CASE toGateway' = Written(c, g) /\ Frame("takeover", e.committed) \in FramesOf(g)
      <4>1. PICK k \in Conns : k = c BY <3>2
      <4>2. PICK n : n = e.committed OBVIOUS
      <4>3. k \in serving => Reported(k, n)' BY <1>1, <3>4, <4>1, <4>2, WrittenQueue
      <4>4. k \notin serving => managed[k] = Null BY DEF LeasesSound, HeldBy
      <4>5. QED BY <1>1, <1>2, <2>1, <3>1, <4>1, <4>2, <4>3, <4>4 DEF Reported
    <3>5. QED BY <1>2, <1>4, <2>1, <3>3, <3>4
  <2>2. CASE t # s
    <3>1. pi'[t] = pi[t] BY <1>2, <2>2
    <3>2. pi[t].conn # 0 BY <1>4, <3>1 DEF KnowledgeSound
    <3>3. pi[t].conn \in Conns /\ owner[pi[t].conn] = t BY <3>2 DEF WireTypes, Extensions
    <3>4. pi[t].conn # pi[s].conn BY <2>2, <3>2, <3>3 DEF WireTypes
    <3>5. toGateway'[pi[t].conn] = toGateway[pi[t].conn] BY <3>3, <3>4, TurnGains
    <3>6. QED BY <1>1, <1>3, <1>4, <3>1, <3>5 DEF TakeoversSound, Reported
  <2>3. QED BY <2>1, <2>2
<1>5. QED BY <1>4 DEF TakeoversSound

\* Input in a managed Pi is reported, recorded, or of no effect on any lease.
LEMMA TakeoversKept ==
  ASSUME ContractInv, CommittedOnce, LeaseTypes, LeasesSound, GrantsSound, KnowledgeSound,
         TakeoversSound, Next
  PROVE  TakeoversSound'
<1> USE DEF ContractInv, Frames
<1>1. CASE ServerStep BY <1>1, ServerTakeovers
<1>2. ASSUME NEW s \in Sessions, Turns(s) PROVE TakeoversSound'
  <2> DEFINE c == pi[s].conn
  <2>0. pi[s].managed => pi[s].committed # Null /\ c # 0 BY DEF KnowledgeSound
  <2>1. ASSUME NEW k \in Conns, Connects(s, k) PROVE TakeoversSound'
    <3>1. /\ pi[s].conn = 0 /\ owner[k] = Null /\ owner' = [owner EXCEPT ![k] = s]
          /\ pi' = [pi EXCEPT ![s] = [@ EXCEPT !.conn = k]]
          /\ UNCHANGED <<stores, managed>>
          /\ \E f : toGateway' = [toGateway EXCEPT ![k] = <<f>>]
      BY <2>1 DEF Connects, leases
    <3>2. /\ \A t \in Sessions : t # s => pi'[t] = pi[t]
          /\ ~pi'[s].managed
      BY <3>1, <2>0 DEF WireTypes, Extensions
    <3>3. \A m \in Conns : m # k => toGateway'[m] = toGateway[m] BY <3>1 DEF WireTypes
    <3>4. takeovers' = takeovers /\ \A t : IsRetired(t) => IsRetired(t)'
      BY <3>1 DEF stores, IsRetired
    <3>5. ASSUME NEW t \in Sessions, t # s, pi[t].managed
          PROVE  toGateway'[pi[t].conn] = toGateway[pi[t].conn]
      <4>1. pi[t].conn # 0 BY <3>5 DEF KnowledgeSound
      <4>2. pi[t].conn \in Conns /\ owner[pi[t].conn] = t BY <4>1 DEF WireTypes, Extensions
      <4>3. pi[t].conn # k BY <3>1, <4>2, StoresAssumption
      <4>4. QED BY <3>3, <4>2, <4>3
    <3>6. QED BY <3>1, <3>2, <3>4, <3>5 DEF TakeoversSound, Reported
  <2>2. ASSUME NEW e, Closes(s, e) PROVE TakeoversSound'
    BY <2>2, TurnTakeovers DEF Closes
  <2>3. ASSUME NEW e, NEW g, Passes(s, e, g) PROVE TakeoversSound'
    BY <2>0, <2>3, TurnTakeovers DEF Passes
  <2>4. ASSUME NEW e, NEW n, Acknowledges(s, e, n) \/ Proves(s, e, n) PROVE TakeoversSound'
    BY <2>0, <2>4, TurnTakeovers DEF Acknowledges, Proves, Replies
  <2>5. ASSUME NEW e, NEW n, Applies(s, e, n) PROVE TakeoversSound'
    <3>1. e.takeover => Frame("takeover", n) \in FramesOf(Receipts(pi[s], n))
      BY <2>5, FramesOfOne DEF Applies
    <3>2. QED BY <2>5, <3>1, TurnTakeovers DEF Applies
  <2>6. ASSUME Repeats(s) PROVE TakeoversSound'
    BY <2>6, TurnTakeovers DEF Repeats
  <2>7. ASSUME NEW e, TypedIn(s, e) PROVE TakeoversSound'
    <3>1. Frame("takeover", pi[s].committed) \in FramesOf(<<Frame("takeover", pi[s].committed)>>)
      BY FramesOfOne
    <3>2. QED BY <2>0, <2>7, <3>1, TurnTakeovers DEF TypedIn
  <2>8. QED BY <1>2, <2>1, <2>2, <2>3, <2>4, <2>5, <2>6, <2>7 DEF Turns
<1>3. QED BY <1>1, <1>2, PiTurns DEF Next, ServerStep

-----------------------------------------------------------------------------
(* Recovery. *)

\* Acknowledgements that are pending were so, and nothing is asked of a Pi.
PendingStays ==
  \A p \in Pending' : Acknowledging(p)' =>
    p \in Pending /\ Acknowledging(p) /\ proposal'[p] = proposal[p]
QueuesCalm ==
  \A c \in Conns :
    /\ Without(toPi[c], "request") => Without(toPi'[c], "request")
    /\ \A a, n : Settling(toPi[c], a, n) => Settling(toPi'[c], a, n)
EntryStays(s) ==
  observed'[s] # Null => observed[s] # Null /\ observed'[s].conn = observed[s].conn

\* Steps that forget proposals keep those that stay as they are.
LEMMA ShrinksPending ==
  ASSUME ContractInv, Shrinks, \A c \in Conns : Gains(toGateway[c], toGateway'[c], {})
  PROVE  PendingStays /\ \A s \in Sessions : EntryStays(s)
<1> USE DEF ContractInv, Ledger, Frames
<1>1. ASSUME NEW p \in Pending', Acknowledging(p)'
      PROVE  p \in Pending /\ Acknowledging(p) /\ proposal'[p] = proposal[p]
  <2>1. p \in Pending /\ p \in Proposals /\ phase'[p] = phase[p] /\ phase[p] # "unused"
    BY <1>1 DEF Pending, Shrinks, ProposalTypes, ProposalsSound, InPlay
  <2>2. proposal'[p] = proposal[p] /\ proposal[p].conn \in Conns
    BY <2>1 DEF Shrinks, ProposalTypes
  <2>3. AckIn(toGateway'[proposal[p].conn], p) => AckIn(toGateway[proposal[p].conn], p)
    BY <2>2 DEF Gains, AckIn
  <2>4. QED BY <1>1, <2>1, <2>2, <2>3 DEF Acknowledging
<1>2. \A s \in Sessions : EntryStays(s) BY DEF Shrinks, EntryStays
<1>3. QED BY <1>1, <1>2 DEF PendingStays

\* A frame sent that asks for nothing.
LEMMA SentCalm ==
  ASSUME WireTypes, NEW c \in Conns, NEW f \in FramesToPi, f.type # "request", toPi' = Sent(c, f)
  PROVE  QueuesCalm
<1>1. /\ \A k \in Conns : k # c => toPi'[k] = toPi[k]
      /\ toPi'[c] = toPi[c] \/ toPi'[c] = Append(toPi[c], f)
  BY SentTo
<1>2. toPi[c] \in Seq(FramesToPi) BY DEF WireTypes
<1>3. /\ Without(toPi[c], "request") => Without(Append(toPi[c], f), "request")
      /\ \A a, n : Settling(toPi[c], a, n) => Settling(Append(toPi[c], f), a, n)
  BY <1>2, AppendToPi
<1>4. QED BY <1>1, <1>3 DEF QueuesCalm

\* A quiet step asks nothing of a Pi.
LEMMA QuietCalm ==
  ASSUME ContractInv, Shrinks, QuietWire
  PROVE  PendingStays /\ QueuesCalm /\ \A s \in Sessions : EntryStays(s)
<1> USE DEF ContractInv, Frames
<1>1. QuietQueues({"request"}) BY DEF QuietWire, QuietQueues
<1>2. QueuesKept BY <1>1, QueuesKeep
<1>3. QueuesCalm BY <1>2 DEF QueuesKept, QueuesCalm
<1>4. \A c \in Conns : Gains(toGateway[c], toGateway'[c], {}) BY <1>2 DEF QueuesKept, Gains
<1>5. QED BY <1>3, <1>4, ShrinksPending

\* An occupant of whom nothing is asked stays deaf.
LEMMA CalmDeaf ==
  ASSUME WireTypes, pi' = pi, QueuesCalm, NEW x, x.session \in Sessions,
         EntryStays(x.session), OccupantDeaf(x)
  PROVE  OccupantDeaf(x)'
<1>1. PICK s, c : s = x.session /\ c = pi[s].conn OBVIOUS
<1>2. CASE c = 0 BY <1>1, <1>2 DEF OccupantDeaf
<1>3. CASE c # 0
  <2>1. c \in Conns BY <1>1, <1>3 DEF WireTypes, Extensions
  <2>2. \/ pi[s].managed
        \/ Settling(toPi[c], pi[s].ack, x.run)
        \/ /\ Without(toPi[c], "request")
           /\ observed[s] # Null => observed[s].conn # c
    BY <1>1, <1>3 DEF OccupantDeaf
  <2>3. \/ pi[s].managed
        \/ Settling(toPi'[c], pi[s].ack, x.run)
        \/ /\ Without(toPi'[c], "request")
           /\ observed'[s] # Null => observed'[s].conn # c
    BY <1>1, <2>1, <2>2 DEF QueuesCalm, EntryStays
  <2>4. QED BY <1>1, <2>3 DEF OccupantDeaf
<1>4. QED BY <1>2, <1>3

\* What a cut queue of a Pi still holds back.
LEMMA CutQueue ==
  ASSUME NEW q \in Seq(FramesToPi), NEW n \in Nat, n <= Len(q), NEW a, NEW m,
         Settling(q, a, m) \/ Without(q, "request")
  PROVE  LET r == Append(SubSeq(q, 1, n), Closed) IN
           Settling(r, a, m) \/ Without(r, "request")
<1>1. PICK k : k = SubSeq(q, 1, n) OBVIOUS
<1>2. /\ k \in Seq(FramesToPi) /\ Len(k) = n /\ \A i \in 1 .. n : k[i] = q[i]
      /\ Len(q) \in Nat /\ DOMAIN q = 1 .. Len(q)
  BY <1>1, SubSeqProperties, LenProperties
<1>3. Closed \in FramesToPi /\ Closed.type = "closed" BY DEF Closed, FramesToPi
<1>4. PICK r : r = Append(k, Closed) OBVIOUS
<1>5. /\ DOMAIN r = 1 .. n + 1 /\ \A i \in 1 .. n : r[i] = q[i]
      /\ r[n + 1] = Closed
  BY <1>2, <1>3, <1>4, AppendedTo
<1>6. CASE Without(q, "request")
  <2>1. \A i \in 1 .. n + 1 : i = n + 1 \/ (i \in 1 .. n /\ i \in 1 .. Len(q)) BY <1>2
  <2>2. \A i \in 1 .. n + 1 : r[i].type # "request" BY <1>2, <1>3, <1>5, <1>6, <2>1 DEF Without
  <2>3. QED BY <1>1, <1>4, <1>5, <2>2 DEF Without
<1>7. CASE Settling(q, a, m)
  <2>1. PICK i \in 1 .. Len(q) :
          /\ (q[i] = CommittedFrame(m) /\ a = m) \/ q[i] = Rejected
          /\ \A j \in 1 .. i - 1 : q[j].type # "request"
    BY <1>2, <1>7 DEF Settling
  <2>2. CASE i <= n
    <3>1. i \in 1 .. n /\ i \in 1 .. n + 1 /\ \A j \in 1 .. i - 1 : j \in 1 .. n BY <2>1, <2>2
    <3>2. r[i] = q[i] /\ \A j \in 1 .. i - 1 : r[j] = q[j] BY <1>5, <3>1
    <3>3. Settling(r, a, m) BY <1>5, <2>1, <3>1, <3>2 DEF Settling
    <3>4. QED BY <1>1, <1>4, <3>3
  <2>3. CASE ~(i <= n)
    <3>1. \A j \in 1 .. n + 1 : j = n + 1 \/ (j \in 1 .. n /\ j \in 1 .. i - 1) BY <2>1, <2>3
    <3>2. \A j \in 1 .. n + 1 : r[j].type # "request" BY <1>3, <1>5, <2>1, <3>1
    <3>3. QED BY <1>1, <1>4, <1>5, <3>2 DEF Without
  <2>4. QED BY <2>2, <2>3
<1>8. QED BY <1>6, <1>7

\* A step that leaves the Pis, and of what they acknowledged nothing new.
LEMMA CalmRecovery ==
  ASSUME ContractInv, RecoverySound, pi' = pi, PendingStays,
         \A x \in Occupants' : x \in Occupants /\ OccupantDeaf(x)'
  PROVE  RecoverySound'
<1>1. ASSUME NEW p \in Pending', Acknowledging(p)' PROVE Remembers(proposal[p].session, p)'
  BY <1>1 DEF PendingStays, RecoverySound, Remembers
<1>2. \A p \in Pending' : Acknowledging(p)' => proposal'[p] = proposal[p] BY DEF PendingStays
<1>3. \A s \in Sessions : pi'[s].conn # 0 => pi'[s].alive BY DEF RecoverySound
<1>4. \A x \in Occupants' : Remembers(x.session, x.run)' /\ OccupantDeaf(x)'
  BY DEF RecoverySound, Remembers
<1>5. QED BY <1>1, <1>2, <1>3, <1>4 DEF RecoverySound, Remembers

\* A commitment is of a Pi that remembers acknowledging it.
LEMMA CommitRecovery ==
  ASSUME ContractInv, ContractInv', OrderSound', RecoverySound,
         NEW p \in Proposals, CommitAcknowledged(p)
  PROVE  RecoverySound'
<1> USE DEF ContractInv, Ledger, Frames
<1>1. PICK s, k : s = proposal[p].session /\ k = proposal[p].conn OBVIOUS
<1>2. /\ phase[p] = "acknowledged" /\ p \in contexts /\ p \notin late
      /\ observed[s] # Null /\ observed[s].conn = k /\ observed[s].rev = proposal[p].rev
      /\ toPi' = Sent(k, CommittedFrame(p))
      /\ UNCHANGED <<proposal, observed, pi, toGateway, owner>>
    BY <1>1 DEF CommitAcknowledged, CommitChecks, CurrentIdentity
<1>3. /\ p \in Pending /\ Acknowledging(p)
      /\ s \in Sessions /\ k \in Conns /\ owner[k] = s
  BY <1>1, <1>2 DEF Viable, ProposalsSound, Pending, Acknowledging, ProposalTypes
<1>4. Remembers(s, p) BY <1>1, <1>3 DEF RecoverySound
<1>5. Shrinks BY CommitFrames
<1>6. PendingStays /\ \A t \in Sessions : EntryStays(t)
  BY <1>2, <1>5, GainsNothing, ShrinksPending
<1>7. CommittedFrame(p) \in FramesToPi /\ CommittedFrame(p).type # "request"
  BY DEF CommittedFrame, FramesToPi, RunOrNull
<1>8. QueuesCalm BY <1>2, <1>3, <1>7, SentCalm
<1>9. \A x \in Occupants' : x \in Occupants \/ (x.run = p /\ x.session = s)
  BY <1>1 DEF CommitAcknowledged, Insertion, CommitAdoption, CommitReplacementAdoption, Occupants
<1>10. \A x \in Occupants : x.session \in Sessions /\ OccupantDeaf(x)'
  BY <1>2, <1>6, <1>8, CalmDeaf DEF RowTypes, RecoverySound
<1>11. ASSUME NEW x \in Occupants', x.run = p, x.session = s PROVE OccupantDeaf(x)'
  <2>1. PICK c : c = pi[s].conn OBVIOUS
  <2>2. CASE c = 0 BY <1>2, <1>11, <2>1, <2>2 DEF OccupantDeaf
  <2>3. CASE c = k
    <3>1. OccupantSettled(x)' BY DEF OccupantsSound
    <3>2. pi'[s].managed \/ Settling(toPi'[k], pi'[s].ack, p)
      BY <1>2, <1>11, <2>1, <2>3, <3>1 DEF OccupantSettled
    <3>3. QED BY <1>2, <1>11, <2>1, <2>3, <3>2 DEF OccupantDeaf
  <2>4. CASE c # 0 /\ c # k
    <3>1. c \in Conns BY <1>3, <2>1, <2>4 DEF WireTypes, Extensions
    <3>2. ~Used(c)' BY <1>2, <1>3, <2>1, <2>4, <3>1 DEF OrderSound
    <3>3. \A q : ~Mentioned(q, c)' BY <3>2 DEF Mentioned, Used
    <3>4. Without(toPi'[c], "request") BY <3>1, <3>3 DEF MentionsSound, Without
    <3>5. QED BY <1>2, <1>11, <2>1, <2>4, <3>4 DEF OccupantDeaf
  <2>5. QED BY <2>2, <2>3, <2>4
<1>12. \A x \in Occupants' : Remembers(x.session, x.run)' /\ OccupantDeaf(x)'
  BY <1>2, <1>4, <1>9, <1>10, <1>11 DEF RecoverySound, Remembers
<1>13. \A t \in Sessions : pi'[t].conn # 0 => pi'[t].alive BY <1>2 DEF RecoverySound
<1>14. ASSUME NEW q \in Pending', Acknowledging(q)' PROVE Remembers(proposal[q].session, q)'
  BY <1>2, <1>6, <1>14 DEF PendingStays, RecoverySound, Remembers
<1>15. QED BY <1>12, <1>13, <1>14 DEF RecoverySound, Remembers

\* What the gateway and the user leave of what the Pis remember.
LEMMA ServerRecovery ==
  ASSUME ContractInv, ContractInv', CommitmentsSound, OrderSound', LeaseTypes, RecoverySound,
         ServerStep
  PROVE  RecoverySound'
<1> USE DEF ContractInv, Ledger, Frames
<1>0. pi' = pi /\ \A c \in Conns : Gains(toGateway[c], toGateway'[c], {}) BY QueueSteps
<1>1. ASSUME QueuesCalm, PendingStays, Occupants' \subseteq Occupants,
             \A x \in Occupants' : EntryStays(x.session)
      PROVE  RecoverySound'
  <2>1. \A x \in Occupants' : x \in Occupants /\ x.session \in Sessions /\ OccupantDeaf(x)
    BY <1>1 DEF RowTypes, RecoverySound
  <2>2. \A x \in Occupants' : OccupantDeaf(x)' BY <1>0, <1>1, <2>1, CalmDeaf
  <2>3. QED BY <1>0, <1>1, <2>1, <2>2, CalmRecovery
<1>2. ASSUME Shrinks, QuietWire PROVE RecoverySound'
  <2>1. PendingStays /\ QueuesCalm /\ \A s \in Sessions : EntryStays(s) BY <1>2, QuietCalm
  <2>2. Occupants' \subseteq Occupants BY <1>2 DEF QuietWire
  <2>3. \A x \in Occupants' : x.session \in Sessions BY <2>2 DEF RowTypes
  <2>4. QED BY <1>1, <2>1, <2>2, <2>3
<1>3. ASSUME NEW c \in Conns, HandleRegister(c) PROVE RecoverySound'
  <2>1. CASE Quiet BY <1>2, <2>1 DEF Quiet
  <2>2. CASE Observes(c)
    <3>1. Handles(c, {"register"}) /\ Handled(c) /\ UNCHANGED <<stores, proposal, late>>
          /\ Invalidate(PendingOf(owner[c]))
          /\ \A x \in Occupants : x.session # owner[c]
      BY <2>2 DEF Observes
    <3>2. PICK f : f = [type |-> "registered", rev |-> revision + 1] OBVIOUS
    <3>3. f \in FramesToPi /\ f.type # "request" /\ toPi' = Sent(c, f)
      BY <2>2, <3>2 DEF FramesToPi, EntryTypes, Observes
    <3>4. QueuesCalm BY <3>3, SentCalm
    <3>5. \A p \in Pending' : p \in Pending /\ p \in Proposals /\ phase'[p] = phase[p]
      BY <3>1 DEF Invalidate, Pending, PendingOf, ProposalsSound, ProposalTypes, InPlay
    <3>6. PendingStays
      <4> SUFFICES ASSUME NEW p \in Pending', Acknowledging(p)'
                   PROVE  p \in Pending /\ Acknowledging(p) /\ proposal'[p] = proposal[p]
        BY DEF PendingStays
      <4>1. proposal[p].conn \in Conns
        BY <3>5 DEF Pending, ProposalsSound, ProposalTypes, InPlay
      <4>2. AckIn(toGateway'[proposal[p].conn], p) => AckIn(toGateway[proposal[p].conn], p)
        BY <1>0, <4>1 DEF Gains, AckIn
      <4>3. QED BY <3>1, <3>5, <4>2 DEF Acknowledging
    <3>7. \A x \in Occupants' : x \in Occupants BY <3>1 DEF stores, Occupants
    <3>8. \A x \in Occupants' : EntryStays(x.session)
      BY <2>2, <3>1, <3>7 DEF Observes, EntryStays, EntryTypes, RowTypes
    <3>9. QED BY <1>1, <3>4, <3>6, <3>7, <3>8
  <2>3. CASE Challenges(c)
    <3>1. Handles(c, {"register"}) /\ Handled(c) /\ UNCHANGED stores
          /\ \E lost : LoseConnections(lost, {})
      BY <2>3 DEF Challenges
    <3>2. PICK n \in Proposals : toPi' = Sent(c, [type |-> "challenge", run |-> n])
      BY <2>3 DEF Challenges
    <3>3. PICK f : f = [type |-> "challenge", run |-> n] OBVIOUS
    <3>4. f \in FramesToPi /\ f.type # "request" BY <3>3 DEF FramesToPi, RunOrNull
    <3>5. QueuesCalm BY <3>2, <3>3, <3>4, SentCalm
    <3>6. Shrinks BY <3>1, Losing
    <3>7. PendingStays /\ \A s \in Sessions : EntryStays(s) BY <1>0, <3>6, ShrinksPending
    <3>8. Occupants' = Occupants BY <3>1 DEF stores, Occupants
    <3>9. QED BY <1>1, <3>5, <3>7, <3>8 DEF RowTypes
  <2>4. QED BY <1>3, <2>1, <2>2, <2>3, Registering
<1>4. ASSUME NEW c \in Conns,
             \/ HandleRecoveryProof(c) \/ HandleReady(c) \/ HandleTakeover(c) \/ HandleClosed(c)
             \/ HandleLifecycle(c)
      PROVE  RecoverySound'
  BY <1>2, <1>4, QuietHandlers, LifecycleFrames DEF Quiet
<1>5. ASSUME NEW c \in Conns, HandleAcknowledgement(c) PROVE RecoverySound'
  <2>1. CASE Quiet BY <1>2, <2>1 DEF Quiet
  <2>2. CASE Accepts(c, FrameRun(c))
    <3>1. PICK p : p = FrameRun(c) OBVIOUS
    <3>2. /\ Handles(c, {"acknowledged", "refused"}) /\ Handled(c)
          /\ p \in listed /\ p \in Proposals /\ p \notin late
          /\ phase' = [phase EXCEPT ![p] = "acknowledged"]
          /\ UNCHANGED <<stores, proposal, late, listed, observed, toPi>>
          /\ Head(toGateway[c]).type = "acknowledged" /\ Head(toGateway[c]).run = p
      BY <2>2, <3>1 DEF Accepts, ProposalTypes, FrameRun
    <3>3. AckIn(toGateway[c], p) /\ proposal[p].conn = c
      <4>1. 1 \in DOMAIN toGateway[c] /\ toGateway[c][1] = Head(toGateway[c])
        BY <3>2, HandledGains
      <4>2. QED BY <3>2, <4>1 DEF AckIn, MentionsSound, Mentioned
    <3>4. PendingStays
      <4> SUFFICES ASSUME NEW q \in Pending', Acknowledging(q)'
                   PROVE  q \in Pending /\ Acknowledging(q) /\ proposal'[q] = proposal[q]
        BY DEF PendingStays
      <4>1. q \in Pending /\ q \in Proposals /\ proposal[q].conn \in Conns
        BY <3>2 DEF Pending, ProposalsSound, ProposalTypes, InPlay
      <4>2. AckIn(toGateway'[proposal[q].conn], q) => AckIn(toGateway[proposal[q].conn], q)
        BY <1>0, <4>1 DEF Gains, AckIn
      <4>3. q = p \/ phase'[q] = phase[q] BY <3>2, <4>1 DEF ProposalTypes
      <4>4. QED BY <3>2, <3>3, <4>1, <4>2, <4>3 DEF Acknowledging
    <3>5. QueuesCalm /\ Occupants' = Occupants BY <3>2 DEF QueuesCalm, stores, Occupants
    <3>6. \A x \in Occupants' : EntryStays(x.session) BY <3>2 DEF EntryStays
    <3>7. QED BY <1>1, <3>4, <3>5, <3>6
  <2>3. QED BY <1>5, <2>1, <2>2, Answers
<1>6. ASSUME NEW p \in Proposals, CommitAcknowledged(p) PROVE RecoverySound'
  BY <1>6, CommitRecovery
<1>7. ASSUME Lapse \/ Sweep \/ \E p \in Proposals : CommitRefused(p) PROVE RecoverySound'
  BY <1>2, <1>7, QuietDeadlines DEF Quiet
<1>8. ASSUME \/ \E x \in Occupants : RetireAgentRun(x)
             \/ \E x \in retired : PurgeRetiredAgentRun(x)
      PROVE  RecoverySound'
  BY <1>2, <1>8, QuietUser DEF Quiet
<1>9. ASSUME NEW s \in Sessions, NEW r \in Roles, RequestAdoption(s, r) PROVE RecoverySound'
  <2>1. PICK n : Proposes(n, s, r) BY <1>9, Requesting
  <2>2. /\ n \in Proposals /\ phase[n] = "unused"
        /\ proposal' = [proposal EXCEPT ![n] = ProposalFor(s, r)]
        /\ UNCHANGED <<stores, late, observed, toGateway, toPi>>
    BY <2>1 DEF Proposes, leases, wire
  <2>3. \A q \in Pending' : q = n \/ (q \in Pending /\ q \in Proposals /\ phase'[q] = phase[q])
    <3>1. \A q \in listed : InPlay(q) /\ q \in Proposals /\ q # n
      BY <2>2 DEF ProposalsSound, ProposalTypes, InPlay
    <3>2. PendingOf(s) \subseteq listed BY DEF PendingOf
    <3>3. QED BY <2>1, <3>1, <3>2 DEF Proposes, Pending
  <2>4. phase'[n] = "proposed" /\ \A k \in Conns : ~AckIn(toGateway[k], n)
    BY <2>1, <2>2 DEF Proposes, MentionsSound, Mentioned, AckIn
  <2>5. PendingStays
    <3> SUFFICES ASSUME NEW q \in Pending', Acknowledging(q)'
                 PROVE  q \in Pending /\ Acknowledging(q) /\ proposal'[q] = proposal[q]
      BY DEF PendingStays
    <3>1. CASE q = n
      <4>1. proposal'[n].conn \in Conns BY <2>2, <2>4 DEF ProposalTypes
      <4>2. QED BY <2>2, <2>4, <3>1, <4>1 DEF Acknowledging
    <3>2. CASE q # n
      <4>1. proposal'[q] = proposal[q] BY <2>2, <3>2
      <4>2. QED BY <2>2, <2>3, <3>2, <4>1 DEF Acknowledging
    <3>3. QED BY <3>1, <3>2
  <2>6. QueuesCalm /\ Occupants' = Occupants BY <2>2 DEF QueuesCalm, stores, Occupants
  <2>7. \A x \in Occupants' : EntryStays(x.session) BY <2>2 DEF EntryStays
  <2>8. QED BY <1>1, <2>5, <2>6, <2>7
<1>10. ASSUME NEW p \in Proposals, AuthorizeAdoption(p) PROVE RecoverySound'
  <2>1. PICK k : k = proposal[p].conn OBVIOUS
  <2>2. PICK f : f = RequestFrame(p) OBVIOUS
  <2>3. /\ p \in listed /\ phase[p] = "proposed" /\ phase' = [phase EXCEPT ![p] = "authorized"]
        /\ toPi' = Sent(k, f)
        /\ UNCHANGED <<stores, proposal, late, listed, observed, owner, toGateway>>
    BY <1>10, <2>1, <2>2 DEF AuthorizeAdoption, leases
  <2>4. k \in Conns /\ proposal[p].session \in Sessions /\ owner[k] = proposal[p].session
        /\ proposal[p].rev \in Nat
    BY <2>1, <2>3 DEF ProposalTypes, ProposalsSound
  <2>5. f \in FramesToPi BY <2>2, <2>4 DEF RequestFrame, FramesToPi, RunOrNull
  <2>6. /\ \A c \in Conns : c # k => toPi'[c] = toPi[c]
        /\ toPi'[k] = toPi[k] \/ toPi'[k] = Append(toPi[k], f)
    BY <2>3, <2>4, <2>5, SentTo
  <2>7. \A a, n : Settling(toPi[k], a, n) => Settling(toPi'[k], a, n)
    <3>1. toPi[k] \in Seq(FramesToPi) BY <2>4 DEF WireTypes
    <3>2. QED BY <2>5, <2>6, <3>1, AppendToPi
  <2>8. observed[owner[k]] # Null /\ observed[owner[k]].conn = k
    BY <2>1, <2>3, <2>4 DEF CommitmentsSound, PendingObserved
  <2>9. PendingStays
    <3> SUFFICES ASSUME NEW q \in Pending', Acknowledging(q)'
                 PROVE  q \in Pending /\ Acknowledging(q) /\ proposal'[q] = proposal[q]
      BY DEF PendingStays
    <3>1. q \in Pending /\ q \in Proposals BY <2>3 DEF Pending, ProposalsSound, ProposalTypes, InPlay
    <3>2. phase'[q] = "acknowledged" => phase[q] = "acknowledged"
      BY <2>3, <3>1 DEF ProposalTypes
    <3>3. QED BY <2>3, <3>1, <3>2 DEF Acknowledging
  <2>10. Occupants' = Occupants BY <2>3 DEF stores, Occupants
  <2>11. ASSUME NEW x \in Occupants PROVE OccupantDeaf(x)'
    <3>1. PICK s, c : s = x.session /\ c = pi[s].conn OBVIOUS
    <3>2. OccupantDeaf(x) /\ s \in Sessions BY <3>1 DEF RecoverySound, RowTypes
    <3>3. CASE c = 0 BY <1>0, <3>1, <3>3 DEF OccupantDeaf
    <3>4. CASE c # 0
      <4>1. c \in Conns /\ owner[c] = s BY <3>1, <3>2, <3>4 DEF WireTypes, Extensions
      <4>2. \/ pi[s].managed
            \/ Settling(toPi[c], pi[s].ack, x.run)
            \/ /\ Without(toPi[c], "request")
               /\ observed[s] # Null => observed[s].conn # c
        BY <3>1, <3>2, <3>4 DEF OccupantDeaf
      <4>3. \/ pi[s].managed
            \/ Settling(toPi'[c], pi[s].ack, x.run)
            \/ /\ Without(toPi'[c], "request")
               /\ observed[s] # Null => observed[s].conn # c
        <5>1. CASE c = k BY <2>7, <2>8, <4>1, <4>2, <5>1
        <5>2. CASE c # k BY <2>6, <4>1, <4>2, <5>2
        <5>3. QED BY <5>1, <5>2
      <4>4. QED BY <1>0, <2>3, <3>1, <4>3 DEF OccupantDeaf
    <3>5. QED BY <3>3, <3>4
  <2>12. QED BY <1>0, <2>9, <2>10, <2>11, CalmRecovery
<1>11. CASE CrashGateway
  <2>1. /\ observed' = [s \in Sessions |-> Null] /\ listed' = {} /\ UNCHANGED stores
    BY <1>11 DEF CrashGateway
  <2>2. PICK kept \in 0..MaxFrames :
          toPi' = [c \in Conns |->
            IF c \in serving /\ Reads(c)
            THEN Append(SubSeq(toPi[c], 1, Smaller(kept, Len(toPi[c]))), Closed)
            ELSE toPi[c]]
    BY <1>11 DEF CrashGateway
  <2>3. ASSUME NEW c \in Conns, NEW a, NEW m,
               Settling(toPi[c], a, m) \/ Without(toPi[c], "request")
        PROVE  Settling(toPi'[c], a, m) \/ Without(toPi'[c], "request")
    <3>1. CASE ~(c \in serving /\ Reads(c)) BY <2>2, <2>3, <3>1
    <3>2. CASE c \in serving /\ Reads(c)
      <4>1. PICK n : n = Smaller(kept, Len(toPi[c])) OBVIOUS
      <4>2. toPi[c] \in Seq(FramesToPi) /\ Len(toPi[c]) \in Nat BY LenProperties DEF WireTypes
      <4>3. n \in Nat /\ n <= Len(toPi[c]) BY <4>1, <4>2, BoundsAssumption DEF Smaller
      <4>4. toPi'[c] = Append(SubSeq(toPi[c], 1, n), Closed) BY <2>2, <3>2, <4>1
      <4>5. QED BY <2>3, <4>2, <4>3, <4>4, CutQueue
    <3>3. QED BY <3>1, <3>2
  <2>4. Occupants' = Occupants /\ PendingStays BY <2>1 DEF stores, Occupants, PendingStays, Pending
  <2>5. ASSUME NEW x \in Occupants PROVE OccupantDeaf(x)'
    <3>1. PICK s, c : s = x.session /\ c = pi[s].conn OBVIOUS
    <3>2. OccupantDeaf(x) /\ s \in Sessions BY <3>1 DEF RecoverySound, RowTypes
    <3>3. CASE c = 0 BY <1>0, <3>1, <3>3 DEF OccupantDeaf
    <3>4. CASE c # 0
      <4>1. c \in Conns BY <3>1, <3>2, <3>4 DEF WireTypes, Extensions
      <4>2. \/ pi[s].managed
            \/ Settling(toPi[c], pi[s].ack, x.run) \/ Without(toPi[c], "request")
        BY <3>1, <3>2, <3>4 DEF OccupantDeaf
      <4>3. \/ pi[s].managed
            \/ Settling(toPi'[c], pi[s].ack, x.run) \/ Without(toPi'[c], "request")
        BY <2>3, <4>1, <4>2
      <4>4. observed'[s] = Null BY <2>1, <3>2
      <4>5. QED BY <1>0, <3>1, <4>3, <4>4 DEF OccupantDeaf
    <3>5. QED BY <3>3, <3>4
  <2>6. QED BY <1>0, <2>4, <2>5, CalmRecovery
<1>12. QED
  BY <1>3, <1>4, <1>5, <1>6, <1>7, <1>8, <1>9, <1>10, <1>11
     DEF ServerStep, GatewayStep, UserStep, Occupants

\* A Pi that is asked nothing, or has answered, does not answer now: the
\* acknowledgement of another proposal needs a request.
LEMMA AsksNothing ==
  ASSUME ContractInv, OrderSound, CommitmentsSound, RecoverySound,
         NEW s \in Sessions, NEW e, NEW n, Acknowledges(s, e, n)
  PROVE  /\ \A x \in Occupants : x.session # s
         /\ \A p \in Pending : proposal[p].session = s => ~Acknowledging(p)
<1> USE DEF ContractInv, Ledger, Frames
<1>1. PICK c : c = pi[s].conn OBVIOUS
<1>2. /\ c # 0 /\ toPi[c] # <<>> /\ Head(toPi[c]).type = "request" /\ ~pi[s].managed
  BY <1>1 DEF Acknowledges, Replies
<1>3. c \in Conns /\ owner[c] = s BY <1>1, <1>2 DEF WireTypes, Extensions
<1>4. toPi[c] \in Seq(FramesToPi) BY <1>3 DEF WireTypes
<1>5. 1 \in DOMAIN toPi[c] /\ toPi[c][1] = Head(toPi[c]) BY <1>2, <1>4, TailOf
<1>6. ~Without(toPi[c], "request") BY <1>2, <1>5 DEF Without
<1>7. Used(c) BY <1>2, <1>3, <1>5 DEF MentionsSound, Mentioned, Used
<1>8. ASSUME NEW x \in Occupants, x.session = s PROVE FALSE
  <2>1. Settling(toPi[c], pi[s].ack, x.run)
    BY <1>1, <1>2, <1>6, <1>8 DEF RecoverySound, OccupantDeaf
  <2>2. PICK i \in DOMAIN toPi[c] :
          /\ (toPi[c][i] = CommittedFrame(x.run) /\ pi[s].ack = x.run) \/ toPi[c][i] = Rejected
          /\ \A j \in 1 .. i - 1 : toPi[c][j].type # "request"
    BY <2>1 DEF Settling
  <2>3. DOMAIN toPi[c] = 1 .. Len(toPi[c]) /\ Len(toPi[c]) \in Nat BY <1>4, LenProperties
  <2>4. i # 1 BY <1>2, <1>5, <2>2 DEF CommittedFrame, Rejected
  <2>5. 1 \in 1 .. i - 1 BY <2>2, <2>3, <2>4
  <2>6. QED BY <1>2, <1>5, <2>2, <2>5
<1>9. ASSUME NEW p \in Pending, proposal[p].session = s, Acknowledging(p) PROVE FALSE
  <2>1. observed[s] # Null /\ observed[s].conn = proposal[p].conn
    BY <1>9 DEF CommitmentsSound, PendingObserved, Pending
  <2>2. proposal[p].conn = c BY <1>1, <1>3, <1>7, <2>1 DEF OrderSound
  <2>3. Answered(p) BY <1>1, <1>9, <2>2 DEF Answered, Acknowledging
  <2>4. QED BY <1>6, <1>9, <2>2, <2>3 DEF RequestsSound
<1>10. QED BY <1>8, <1>9

\* What a turn of a Pi leaves, if the Pi still remembers what it
\* acknowledged and stays deaf.
LEMMA TurnRecovery ==
  ASSUME ContractInv, RecoverySound, NEW s \in Sessions, NEW e, NEW g, PiTurn(s, e, g),
         e.conn # 0 => e.alive,
         \A p \in Pending :
           /\ proposal[p].session = s
           /\ \/ Acknowledging(p)
              \/ \E f \in FramesOf(g) : f.type = "acknowledged" /\ f.run = p
           => (e.alive => e.sessionAck = p),
         \A x \in Occupants : x.session = s =>
           /\ e.alive => e.sessionAck = x.run
           /\ LET c == pi[s].conn IN
                e.conn # 0 =>
                  \/ e.managed
                  \/ Settling(toPi'[c], e.ack, x.run)
                  \/ /\ Without(toPi'[c], "request")
                     /\ observed[s] # Null => observed[s].conn # c
  PROVE  RecoverySound'
<1> USE DEF ContractInv, Ledger, Frames
<1>1. /\ UNCHANGED <<stores, coordinator, leases, owner>>
      /\ pi' = [pi EXCEPT ![s] = e]
      /\ e.conn \in {pi[s].conn, 0}
  BY DEF PiTurn
<1>2. pi'[s] = e /\ \A t \in Sessions : t # s => pi'[t] = pi[t] BY <1>1 DEF WireTypes
<1>3. /\ \A k \in Conns :
           Gains(toGateway[k], toGateway'[k], IF k = pi[s].conn THEN FramesOf(g) ELSE {})
      /\ \A k \in Conns : k # pi[s].conn => toGateway'[k] = toGateway[k] /\ toPi'[k] = toPi[k]
  BY TurnGains
<1>4. ASSUME NEW p \in Pending', Acknowledging(p)' PROVE Remembers(proposal[p].session, p)'
  <2>1. /\ p \in Pending /\ p \in Proposals /\ proposal' = proposal /\ phase' = phase
        /\ phase[p] # "unused"
    BY <1>1 DEF coordinator, Pending, ProposalsSound, ProposalTypes, InPlay
  <2>2. PICK t, k : t = proposal[p].session /\ k = proposal[p].conn OBVIOUS
  <2>3. t \in Sessions /\ k \in Conns /\ owner[k] = t
    BY <2>1, <2>2 DEF ProposalTypes, ProposalsSound
  <2>4. CASE Acknowledging(p)
    <3>1. Remembers(t, p) BY <2>1, <2>2, <2>4 DEF RecoverySound
    <3>2. pi'[t].alive => pi'[t].sessionAck = p
      BY <1>2, <2>1, <2>2, <2>3, <2>4, <3>1 DEF Remembers
    <3>3. QED BY <2>1, <2>2, <3>2 DEF Remembers
  <2>5. CASE ~Acknowledging(p)
    <3>1. AckIn(toGateway'[k], p) /\ ~AckIn(toGateway[k], p)
      BY <1>4, <2>1, <2>2, <2>5 DEF Acknowledging
    <3>2. PICK i \in DOMAIN toGateway'[k] :
            toGateway'[k][i].type = "acknowledged" /\ toGateway'[k][i].run = p
      BY <3>1 DEF AckIn
    <3>3. k = pi[s].conn /\ toGateway'[k][i] \in FramesOf(g)
      BY <1>3, <2>3, <3>1, <3>2 DEF Gains, AckIn
    <3>4. t = s
      <4>1. pi[s].conn # 0 BY <2>3, <3>3 DEF Conns
      <4>2. QED BY <2>3, <3>3, <4>1 DEF WireTypes
    <3>5. e.alive => e.sessionAck = p BY <2>1, <2>2, <3>2, <3>3, <3>4
    <3>6. QED BY <1>2, <2>1, <2>2, <3>4, <3>5 DEF Remembers
  <2>6. QED BY <2>4, <2>5
<1>5. ASSUME NEW x \in Occupants PROVE Remembers(x.session, x.run)' /\ OccupantDeaf(x)'
  <2>1. PICK t : t = x.session OBVIOUS
  <2>2. t \in Sessions /\ observed' = observed BY <1>1, <2>1 DEF RowTypes, leases
  <2>3. CASE t = s
    <3>1. pi'[t] = e /\ (e.alive => e.sessionAck = x.run) BY <1>2, <2>1, <2>3
    <3>2. PICK c : c = pi[s].conn OBVIOUS
    <3>3. e.conn # 0 =>
            \/ e.managed
            \/ Settling(toPi'[c], e.ack, x.run)
            \/ /\ Without(toPi'[c], "request")
               /\ observed[s] # Null => observed[s].conn # c
      BY <2>1, <2>3, <3>2
    <3>4. e.conn # 0 => e.conn = c BY <1>1, <3>2
    <3>5. QED BY <2>1, <2>2, <2>3, <3>1, <3>3, <3>4 DEF Remembers, OccupantDeaf
  <2>4. CASE t # s
    <3>1. pi'[t] = pi[t] BY <1>2, <2>2, <2>4
    <3>2. Remembers(t, x.run) /\ OccupantDeaf(x) BY <2>1 DEF RecoverySound
    <3>3. ASSUME pi[t].conn # 0 PROVE toPi'[pi[t].conn] = toPi[pi[t].conn]
      <4>1. pi[t].conn \in Conns /\ owner[pi[t].conn] = t
        BY <2>2, <3>3 DEF WireTypes, Extensions
      <4>2. pi[t].conn # pi[s].conn BY <2>4, <3>3, <4>1 DEF WireTypes
      <4>3. QED BY <1>3, <4>1, <4>2
    <3>4. PICK c : c = pi[t].conn OBVIOUS
    <3>5. c # 0 =>
            \/ pi[t].managed
            \/ Settling(toPi'[c], pi[t].ack, x.run)
            \/ /\ Without(toPi'[c], "request")
               /\ observed[t] # Null => observed[t].conn # c
      BY <2>1, <3>2, <3>3, <3>4 DEF OccupantDeaf
    <3>6. QED BY <2>1, <2>2, <3>1, <3>2, <3>4, <3>5 DEF Remembers, OccupantDeaf
  <2>5. QED BY <2>3, <2>4
<1>6. \A t \in Sessions : pi'[t].conn # 0 => pi'[t].alive BY <1>2 DEF RecoverySound
<1>7. Occupants' = Occupants BY <1>1 DEF stores, Occupants
<1>8. QED BY <1>4, <1>5, <1>6, <1>7 DEF RecoverySound

\* What an occupant's Pi that takes a frame stays deaf by.
LEMMA ReadingDeaf ==
  ASSUME ContractInv, RecoverySound, NEW x \in Occupants, NEW s, NEW c,
         s = x.session, c = pi[s].conn, c # 0, NEW a, NEW m,
         a = pi[s].ack \/ a = x.run, pi[s].managed => m,
         toPi[c] # <<>>, toPi'[c] = Tail(toPi[c]), Head(toPi[c]) # Rejected,
         Head(toPi[c]).type = "committed" => pi[s].managed \/ pi[s].ack = Null
  PROVE  \/ m
         \/ Settling(toPi'[c], a, x.run)
         \/ /\ Without(toPi'[c], "request")
            /\ observed[s] # Null => observed[s].conn # c
<1> USE DEF ContractInv, Ledger, Frames
<1>1. s \in Sessions /\ x.run \in Proposals BY DEF RowTypes
<1>2. c \in Conns BY <1>1 DEF WireTypes, Extensions
<1>3. toPi[c] \in Seq(FramesToPi) BY <1>2 DEF WireTypes
<1>4. x.run # Null BY <1>1, StoresAssumption DEF Proposals
<1>5. CASE pi[s].managed BY <1>5
<1>6. CASE ~pi[s].managed /\ Settling(toPi[c], pi[s].ack, x.run)
  <2>1. ~(Head(toPi[c]) = CommittedFrame(x.run) /\ pi[s].ack = x.run)
    BY <1>4, <1>6 DEF CommittedFrame
  <2>2. Settling(Tail(toPi[c]), pi[s].ack, x.run) BY <1>3, <1>6, <2>1, TailToPi
  <2>3. Settling(Tail(toPi[c]), a, x.run) BY <2>2 DEF Settling
  <2>4. QED BY <2>3
<1>7. CASE /\ Without(toPi[c], "request")
           /\ observed[s] # Null => observed[s].conn # c
  BY <1>3, <1>7, TailToPi
<1>8. QED BY <1>5, <1>6, <1>7 DEF RecoverySound, OccupantDeaf

\* The Pi of a run remembers that it acknowledged it.
LEMMA RecoveryKept ==
  ASSUME ContractInv, ContractInv', CommitmentsSound, OrderSound, OrderSound', LeaseTypes,
         RecoverySound, Next
  PROVE  RecoverySound'
<1> USE DEF ContractInv, Ledger, Frames
<1>1. CASE ServerStep BY <1>1, ServerRecovery
<1>2. ASSUME NEW s \in Sessions, Turns(s) PROVE RecoverySound'
  <2> DEFINE c == pi[s].conn
             deaf(x, e) == \/ e.managed
                           \/ Settling(toPi'[c], e.ack, x.run)
                           \/ /\ Without(toPi'[c], "request")
                              /\ observed[s] # Null => observed[s].conn # c
  <2>0. /\ c # 0 => pi[s].alive
        /\ \A x \in Occupants : x.session = s =>
             /\ pi[s].alive => pi[s].sessionAck = x.run
             /\ c # 0 => OccupantDeaf(x)
        /\ \A p \in Pending : proposal[p].session = s /\ Acknowledging(p) =>
             (pi[s].alive => pi[s].sessionAck = p)
    BY DEF RecoverySound, Remembers
  <2>1. ASSUME NEW k \in Conns, Connects(s, k) PROVE RecoverySound'
    <3>1. /\ pi[s].alive /\ pi[s].conn = 0 /\ owner[k] = Null
          /\ pi' = [pi EXCEPT ![s] = [@ EXCEPT !.conn = k]]
          /\ UNCHANGED <<stores, coordinator, leases, toPi>>
          /\ \E f : f.type = "register" /\ toGateway' = [toGateway EXCEPT ![k] = <<f>>]
      BY <2>1 DEF Connects
    <3>2. PICK e : e = [pi[s] EXCEPT !.conn = k] OBVIOUS
    <3>3. e.conn = k /\ e.alive /\ e.sessionAck = pi[s].sessionAck
      BY <3>1, <3>2 DEF WireTypes, Extensions
    <3>4. pi'[s] = e /\ \A t \in Sessions : t # s => pi'[t] = pi[t]
      BY <3>1, <3>2 DEF WireTypes
    <3>5. toPi[k] = <<>> /\ ~Used(k) BY <3>1, UsedOwned DEF RegistersSound
    <3>6. \A t \in Sessions : pi'[t].alive => pi[t].alive /\ pi'[t].sessionAck = pi[t].sessionAck
      BY <3>1, <3>3, <3>4
    <3>7. ASSUME NEW p \in Pending', Acknowledging(p)' PROVE Remembers(proposal[p].session, p)'
      <4>1. /\ p \in Pending /\ p \in Proposals /\ proposal' = proposal /\ phase' = phase
            /\ phase[p] # "unused"
        BY <3>1 DEF coordinator, Pending, ProposalsSound, ProposalTypes, InPlay
      <4>2. proposal[p].conn # k BY <3>5, <4>1 DEF Used
      <4>3. proposal[p].conn \in Conns /\ proposal[p].session \in Sessions
        BY <4>1 DEF ProposalTypes
      <4>4. toGateway'[proposal[p].conn] = toGateway[proposal[p].conn]
        BY <3>1, <4>2, <4>3 DEF WireTypes
      <4>5. Acknowledging(p) BY <3>7, <4>1, <4>4 DEF Acknowledging
      <4>6. QED BY <3>6, <4>1, <4>3, <4>5 DEF RecoverySound, Remembers
    <3>8. ASSUME NEW x \in Occupants PROVE Remembers(x.session, x.run)' /\ OccupantDeaf(x)'
      <4>1. PICK t : t = x.session OBVIOUS
      <4>2. t \in Sessions /\ observed' = observed /\ toPi' = toPi BY <3>1, <4>1 DEF RowTypes, leases
      <4>3. Remembers(t, x.run) /\ OccupantDeaf(x) BY <4>1 DEF RecoverySound
      <4>4. CASE t = s
        <5>1. Without(toPi[k], "request") BY <3>5 DEF Without
        <5>2. observed[s] # Null => observed[s].conn # k BY <3>5 DEF Used
        <5>3. QED BY <3>3, <3>4, <3>6, <4>1, <4>2, <4>3, <4>4, <5>1, <5>2
                  DEF Remembers, OccupantDeaf
      <4>5. CASE t # s
        BY <3>4, <4>1, <4>2, <4>3, <4>5 DEF Remembers, OccupantDeaf
      <4>6. QED BY <4>4, <4>5
    <3>9. \A t \in Sessions : pi'[t].conn # 0 => pi'[t].alive
      BY <3>3, <3>4 DEF RecoverySound
    <3>10. Occupants' = Occupants BY <3>1 DEF stores, Occupants
    <3>11. QED BY <3>7, <3>8, <3>9, <3>10 DEF RecoverySound
  <2>2. ASSUME NEW e, Closes(s, e) PROVE RecoverySound'
    <3>1. ~(\E f \in FramesOf(<<Closed>>) : f.type = "acknowledged") BY FramesOfOne DEF Closed
    <3>2. e.conn = 0 /\ PiTurn(s, e, <<Closed>>)
          /\ (e.alive => pi[s].alive /\ e.sessionAck = pi[s].sessionAck)
      BY <2>2 DEF Closes
    <3>3. QED BY <2>0, <3>1, <3>2, TurnRecovery
  <2>3. ASSUME NEW e, NEW g, Passes(s, e, g) PROVE RecoverySound'
    <3>1. ~(\E f \in FramesOf(g) : f.type = "acknowledged")
      BY <2>3 DEF Passes, Silent, Without, FramesOf
    <3>2. /\ PiTurn(s, e, g) /\ e.conn = c /\ e.alive = pi[s].alive /\ e.managed = pi[s].managed
          /\ e.ack = pi[s].ack /\ e.sessionAck = pi[s].sessionAck
          /\ \/ toPi' = toPi
             \/ /\ c # 0 /\ toPi[c] # <<>> /\ toPi'[c] = Tail(toPi[c])
                /\ \/ Head(toPi[c]).type \in {"registered", "request"}
                   \/ /\ Head(toPi[c]).type = "committed"
                      /\ pi[s].managed \/ pi[s].ack = Null
      BY <2>3 DEF Passes
    <3>3. ASSUME NEW x \in Occupants, x.session = s, c # 0 PROVE deaf(x, e)
      <4>1. CASE toPi' = toPi BY <2>0, <3>2, <3>3, <4>1 DEF OccupantDeaf
      <4>2. CASE toPi' # toPi
        <5>1. PICK k, a, m : k = c /\ a = e.ack /\ m = e.managed OBVIOUS
        <5>2. /\ toPi[k] # <<>> /\ toPi'[k] = Tail(toPi[k]) /\ Head(toPi[k]) # Rejected
              /\ Head(toPi[k]).type = "committed" => pi[s].managed \/ pi[s].ack = Null
          BY <3>2, <4>2, <5>1 DEF Rejected
        <5>3. \/ m
              \/ Settling(toPi'[k], a, x.run)
              \/ /\ Without(toPi'[k], "request")
                 /\ observed[s] # Null => observed[s].conn # k
          BY <3>2, <3>3, <5>1, <5>2, ReadingDeaf
        <5>4. QED BY <5>1, <5>3
      <4>3. QED BY <4>1, <4>2
    <3>4. QED BY <2>0, <3>1, <3>2, <3>3, TurnRecovery
  <2>4. ASSUME NEW e, NEW n, Acknowledges(s, e, n) PROVE RecoverySound'
    <3>1. PiTurn(s, e, <<Frame("acknowledged", n)>>) /\ e.alive = pi[s].alive /\ e.conn = c
          /\ e.sessionAck = n
      BY <2>4 DEF Acknowledges, Replies
    <3>2. \A f \in FramesOf(<<Frame("acknowledged", n)>>) : f.run = n BY FramesOfOne DEF Frame
    <3>3. /\ \A x \in Occupants : x.session # s
          /\ \A p \in Pending : proposal[p].session = s => ~Acknowledging(p)
      BY <2>4, AsksNothing
    <3>4. QED BY <2>0, <3>1, <3>2, <3>3, TurnRecovery
  <2>5. ASSUME NEW e, NEW n, Proves(s, e, n) PROVE RecoverySound'
    <3>1. /\ PiTurn(s, e, <<Frame("proof", n)>>) /\ e.alive = pi[s].alive /\ e.conn = c
          /\ e.sessionAck = n /\ e.ack = n /\ pi[s].sessionAck = n /\ e.managed = pi[s].managed
          /\ c # 0 /\ toPi[c] # <<>> /\ toPi'[c] = Tail(toPi[c])
          /\ Head(toPi[c]).type = "challenge"
      BY <2>5 DEF Proves, Replies
    <3>2. ~(\E f \in FramesOf(<<Frame("proof", n)>>) : f.type = "acknowledged")
      BY FramesOfOne DEF Frame
    <3>3. ASSUME NEW x \in Occupants, x.session = s PROVE deaf(x, e)
      <4>1. PICK k, a, m : k = c /\ a = e.ack /\ m = e.managed OBVIOUS
      <4>2. /\ toPi[k] # <<>> /\ toPi'[k] = Tail(toPi[k]) /\ Head(toPi[k]) # Rejected
            /\ Head(toPi[k]).type # "committed" /\ a = x.run
        BY <2>0, <3>1, <3>3, <4>1 DEF Rejected
      <4>3. \/ m
            \/ Settling(toPi'[k], a, x.run)
            \/ /\ Without(toPi'[k], "request")
               /\ observed[s] # Null => observed[s].conn # k
        BY <3>1, <3>3, <4>1, <4>2, ReadingDeaf
      <4>4. QED BY <4>1, <4>3
    <3>4. QED BY <2>0, <3>1, <3>2, <3>3, TurnRecovery
  <2>6. ASSUME NEW e, NEW n, Applies(s, e, n) PROVE RecoverySound'
    <3>1. PiTurn(s, e, Receipts(pi[s], n)) /\ e.alive = pi[s].alive /\ e.conn = c
          /\ e.sessionAck = pi[s].sessionAck /\ e.managed
      BY <2>6 DEF Applies
    <3>2. ~(\E f \in FramesOf(Receipts(pi[s], n)) : f.type = "acknowledged")
      <4>1. Frame("takeover", n).type # "acknowledged" /\ Frame("ready", n).type # "acknowledged"
        BY FrameFields
      <4>2. FramesOf(Receipts(pi[s], n)) \subseteq {Frame("takeover", n), Frame("ready", n)}
        BY FramesOfOne
      <4>3. QED BY <4>1, <4>2
    <3>3. QED BY <2>0, <3>1, <3>2, TurnRecovery
  <2>7. ASSUME Repeats(s) PROVE RecoverySound'
    <3>1. PICK n : n = pi[s].committed OBVIOUS
    <3>2. PiTurn(s, pi[s], <<Frame("ready", n)>>) /\ toPi' = toPi
      BY <2>7, <3>1 DEF Repeats
    <3>3. ~(\E f \in FramesOf(<<Frame("ready", n)>>) : f.type = "acknowledged")
      BY FramesOfOne DEF Frame
    <3>4. \A x \in Occupants : x.session = s /\ c # 0 => deaf(x, pi[s])
      BY <2>0, <3>2 DEF OccupantDeaf
    <3>5. QED BY <2>0, <3>2, <3>3, <3>4, TurnRecovery
  <2>8. ASSUME NEW e, TypedIn(s, e) PROVE RecoverySound'
    <3>1. PICK n : n = pi[s].committed OBVIOUS
    <3>2. /\ PiTurn(s, e, <<Frame("takeover", n)>>) /\ toPi' = toPi
          /\ e.alive = pi[s].alive /\ e.conn = c /\ e.managed = pi[s].managed /\ e.ack = pi[s].ack
          /\ e.sessionAck = pi[s].sessionAck
      BY <2>8, <3>1 DEF TypedIn
    <3>3. ~(\E f \in FramesOf(<<Frame("takeover", n)>>) : f.type = "acknowledged")
      BY FramesOfOne DEF Frame
    <3>4. \A x \in Occupants : x.session = s /\ c # 0 => deaf(x, e)
      BY <2>0, <3>2 DEF OccupantDeaf
    <3>5. QED BY <2>0, <3>2, <3>3, <3>4, TurnRecovery
  <2>9. QED BY <1>2, <2>1, <2>2, <2>3, <2>4, <2>5, <2>6, <2>7, <2>8 DEF Turns
<1>3. QED BY <1>1, <1>2, PiTurns DEF Next, ServerStep

-----------------------------------------------------------------------------
(* The theorems. *)

\* Nothing is leased, typed or remembered at the start.
LEMMA LeaseInitial ==
  ASSUME Init
  PROVE  LeaseInv
<1>1. /\ adopted = {} /\ replacements = {} /\ fences = {} /\ takeovers = {}
      /\ phase = [p \in Proposals |-> "unused"] /\ listed = {}
      /\ observed = [s \in Sessions |-> Null] /\ highWater = [s \in Sessions |-> 0]
      /\ managed = [c \in Conns |-> Null] /\ recoveries = [c \in Conns |-> Null]
      /\ owner = [c \in Conns |-> Null] /\ pi = [s \in Sessions |-> FreshPi]
      /\ toGateway = [c \in Conns |-> <<>>] /\ toPi = [c \in Conns |-> <<>>]
  BY DEF Init, StoresInit
<1>2. /\ FreshPi.conn = 0 /\ FreshPi.alive /\ ~FreshPi.managed /\ FreshPi.committed = Null
  BY DEF FreshPi
<1>3. \A c \in Conns : DOMAIN toPi[c] = {} /\ DOMAIN toGateway[c] = {} BY <1>1
<1>4. CommitmentsSound
  BY <1>1 DEF CommitmentsSound, CommittedOnce, PendingObserved, EntriesServed, Occupants
<1>5. OrderSound
  <2>1. \A c \in Conns : Without(toGateway[c], "register") /\ ~Used(c)
    BY <1>1, <1>3 DEF Without, Used
  <2>2. QED BY <1>1, <1>2, <2>1 DEF OrderSound, Registers
<1>6. LeaseTypes /\ LeasesSound BY <1>1 DEF LeaseTypes, LeasesSound
<1>7. GrantsSound BY <1>1, <1>3 DEF GrantsSound, Granted, ManagedOn, Registers, Without
<1>8. KnowledgeSound BY <1>1, <1>2, <1>3 DEF KnowledgeSound, Ready, Without
<1>9. TakeoversSound BY <1>1, <1>2 DEF TakeoversSound
<1>10. RecoverySound BY <1>1, <1>2 DEF RecoverySound, Pending, Occupants
<1>11. QED BY <1>4, <1>5, <1>6, <1>7, <1>8, <1>9, <1>10 DEF LeaseInv

\* Every step of the contract keeps its invariant.
LEMMA ContractStep ==
  ASSUME ContractInv, Next
  PROVE  ContractInv'
  BY GatewayContracted, UserContracted, PiContracted DEF ContractInv, Next, Contracted

\* Every step keeps the leases, the takeovers and what the Pis remember.
LEMMA LeaseStep ==
  ASSUME ContractInv, LeaseInv, Next
  PROVE  ContractInv' /\ LeaseInv'
<1> USE DEF LeaseInv
<1>1. ContractInv' BY ContractStep
<1>2. CommitmentsSound' BY CommitmentsKept
<1>3. OrderSound' BY OrderKept
<1>4. LeaseTypes' /\ LeasesSound' BY LeasesKept
<1>5. \A s \in Sessions : pi[s].managed => pi[s].conn # 0 BY DEF KnowledgeSound
<1>6. GrantsSound' BY <1>1, <1>5, GrantsKept
<1>7. CommittedOnce BY DEF CommitmentsSound
<1>8. KnowledgeSound' BY <1>7, KnowledgeKept
<1>9. TakeoversSound' BY <1>7, TakeoversKept
<1>10. RecoverySound' BY <1>1, <1>3, RecoveryKept
<1>11. QED BY <1>1, <1>2, <1>3, <1>4, <1>6, <1>8, <1>9, <1>10

\* Nothing is lost by standing still.
LEMMA LeaseStutter ==
  ASSUME ContractInv, LeaseInv, UNCHANGED vars
  PROVE  ContractInv' /\ LeaseInv'
<1> USE DEF vars, stores, coordinator, leases, registry, wire
<1>1. ContractInv' BY ContractStutter DEF ContractInv, Contracted
<1>2. CommitmentsSound' /\ OrderSound'
  BY DEF LeaseInv, CommitmentsSound, CommittedOnce, CommittedTo, PendingObserved, EntriesServed,
         OrderSound, Registers, Used, Occupants
<1>3. LeaseTypes' /\ LeasesSound' /\ GrantsSound'
  BY DEF LeaseInv, LeaseTypes, LeasesSound, HeldBy, GrantsSound, Granted, ManagedOn, Registers, Used,
         Occupants, IsRetired
<1>4. KnowledgeSound' /\ TakeoversSound'
  BY DEF LeaseInv, KnowledgeSound, CommittedTo, Applied, Ready, TakeoversSound, Reported, IsRetired
<1>5. RecoverySound'
  BY DEF LeaseInv, RecoverySound, Pending, Acknowledging, AckIn, Remembers, OccupantDeaf, Settling,
         Occupants, CommittedFrame
<1>6. QED BY <1>1, <1>2, <1>3, <1>4, <1>5 DEF LeaseInv

\* The leases, the takeovers and what the Pis remember stay sound.
THEOREM LeasesStaySound == Spec => [](ContractInv /\ LeaseInv)
<1>1. Init => ContractInv /\ LeaseInv BY ContractInitial, LeaseInitial
<1>2. ContractInv /\ LeaseInv /\ [Next]_vars => (ContractInv /\ LeaseInv)'
  BY LeaseStep, LeaseStutter
<1>3. QED BY <1>1, <1>2, PTL DEF Spec

\* At most one connection holds a lease of a run, and work can be dispatched
\* over it only if the run is not retired, no takeover of it was recorded, and
\* the living Pi applied this very commitment: however registrations,
\* recoveries, lapses, crashes and frames of older connections fall.
THEOREM LeaseCorrect == Spec => []LeaseIsEarned
<1>1. ContractInv /\ LeaseInv => LeaseIsEarned
  BY DEF LeaseInv, LeasesSound, KnowledgeSound, Ready, Applied, LeaseIsEarned, Dispatchable
<1>2. QED BY <1>1, LeasesStaySound, PTL

\* Input typed into a committed Pi is on its way on the connection over which
\* work could be dispatched, or was recorded and made it undispatchable.
THEOREM TakeoverCorrect == Spec => []TakeoverCarried
<1>1. ContractInv /\ LeaseInv => TakeoverCarried
  <2> SUFFICES ASSUME ContractInv, LeaseInv, NEW c \in Conns, Dispatchable(c),
                      pi[owner[c]].takeover, pi[owner[c]].committed = managed[c].run, Reads(c)
               PROVE  Reported(c, managed[c].run)
    BY DEF TakeoverCarried, Reported
  <2>1. PICK s, n : s = owner[c] /\ n = managed[c].run OBVIOUS
  <2>2. managed[c] # Null /\ managed[c].live /\ managed[c].ready /\ pi[s].conn = c
    BY <2>1 DEF Dispatchable, Reads
  <2>3. c \in serving /\ n \notin takeovers /\ ~IsRetired(s)
    BY <2>1, <2>2 DEF LeaseInv, LeasesSound, HeldBy
  <2>4. s \in Sessions BY <2>1, <2>3 DEF ContractInv, Frames, WireTypes
  <2>5. pi[s].managed BY <2>1, <2>2 DEF LeaseInv, KnowledgeSound, Ready
  <2>6. QED BY <2>1, <2>2, <2>3, <2>4, <2>5 DEF LeaseInv, TakeoversSound
<1>2. QED BY <1>1, LeasesStaySound, PTL

\* The Pi of a committed run remembers the acknowledgement a challenge will
\* name, as long as it lives: a later request, answered or refused, never
\* displaces it.
THEOREM RecoveryCorrect == Spec => []RecoverableByPi
<1>1. ContractInv /\ LeaseInv => RecoverableByPi
  BY DEF LeaseInv, RecoverySound, Remembers, RecoverableByPi, Live, Occupants
<1>2. QED BY <1>1, LeasesStaySound, PTL

-----------------------------------------------------------------------------
(* The types of the state.  The invariants before speak of the fields they  *)
(* need; these are the rest of TypeOK.  A frame to the Pi names a run because *)
(* a challenge does, and an answer of the Pi names the run it was asked for. *)

RowShapes ==
  /\ adopted \subseteq Rows /\ replacements \subseteq ReplacementRows
  /\ retired \subseteq RetiredRows /\ fences \subseteq Sessions
ProposalShapes ==
  /\ proposal \in [Proposals -> ProposalRecords \cup {Null}]
  /\ late \subseteq Proposals /\ contexts \subseteq Proposals
EntriesMapped == observed = [s \in Sessions |-> observed[s]]
FramesNamed ==
  \A c \in Conns :
    /\ \A i \in DOMAIN toPi[c] : toPi[c][i].type = "challenge" => toPi[c][i].run \in Proposals
    /\ \A i \in DOMAIN toGateway[c] :
         toGateway[c][i].type \in {"refused", "proof"} => toGateway[c][i].run \in Proposals
WithinBounds == crashes \in 0..MaxCrashes /\ flips \in 0..MaxFlips
ShapesSound ==
  VacancyCounted /\ RowShapes /\ ProposalShapes /\ EntriesMapped /\ FramesNamed /\ WithinBounds

\* A transaction writes rows of the kind its table has.
LEMMA RowShapesKept ==
  ASSUME ContractInv, VacancyCounted, RowShapes, Next
  PROVE  RowShapes'
<1> USE DEF ContractInv, Ledger, RowShapes
<1>1. \A x \in Occupants : x.run \in Proposals /\ x.session \in Sessions /\ x.role \in Roles
  BY DEF RowTypes
<1>2. retired' \subseteq RetiredRows
  <2>1. CASE UNCHANGED <<retired, generation>> BY <2>1
  <2>2. ASSUME NEW x \in Occupants, CommitRetirement(x) PROVE retired' \subseteq RetiredRows
    <3>1. PICK n : n = CurrentVacancyGeneration(x.role) OBVIOUS
    <3>2. n \in Nat BY <1>1, <3>1, RetiredCount DEF VacancyCounted
    <3>3. [run |-> x.run, session |-> x.session, role |-> x.role, at |-> n] \in RetiredRows
      BY <1>1, <3>2 DEF RetiredRows
    <3>4. QED BY <2>2, <3>1, <3>3 DEF CommitRetirement
  <2>3. ASSUME NEW x, PurgeRetiredRun(x) PROVE retired' \subseteq RetiredRows
    BY <2>3 DEF PurgeRetiredRun
  <2>4. QED BY <2>1, <2>2, <2>3, OnlyTransactions DEF VacancyStep, Occupants
<1>3. adopted' \subseteq Rows /\ replacements' \subseteq ReplacementRows /\ fences' \subseteq Sessions
  <2>1. CASE Steady BY <2>1 DEF Steady
  <2>2. ASSUME NEW p \in Proposals, CommitAcknowledged(p)
        PROVE adopted' \subseteq Rows /\ replacements' \subseteq ReplacementRows
              /\ fences' \subseteq Sessions
    <3>1. PICK s, r : s = proposal[p].session /\ r = proposal[p].role OBVIOUS
    <3>2. s \in Sessions /\ r \in Roles
      BY <2>2, <3>1 DEF CommitAcknowledged, ProposalTypes
    <3>3. CASE CommitAdoption(p, s, r)
      BY <3>2, <3>3 DEF CommitAdoption, Rows
    <3>4. CASE Vacated(r) /\ CommitReplacementAdoption(p, s, r, RetirementVacancy(r))
      <4>1. PICK v : v = RetirementVacancy(r) OBVIOUS
      <4>2. CommitReplacementAdoption(p, s, r, v) BY <3>4, <4>1
      <4>3. v.generation \in Nat
        BY <3>2, <4>1, RetiredCount DEF RetirementVacancy, VacancyCounted
      <4>4. v.predecessor \in Proposals
        BY <4>2 DEF CommitReplacementAdoption, ReplacementInsertable, ReplacementAdmitted,
                    RetiredRows
      <4>5. [run |-> p, session |-> s, role |-> r, predecessor |-> v.predecessor,
             generation |-> v.generation] \in ReplacementRows
        BY <3>2, <4>3, <4>4 DEF ReplacementRows
      <4>6. QED BY <4>2, <4>5 DEF CommitReplacementAdoption
    <3>5. QED BY <2>2, <3>1, <3>3, <3>4 DEF CommitAcknowledged, Insertion
  <2>3. ASSUME NEW t \in retired, PurgeRetiredAgentRun(t)
        PROVE adopted' \subseteq Rows /\ replacements' \subseteq ReplacementRows
              /\ fences' \subseteq Sessions
    <3>1. t.session \in Sessions BY DEF RetiredRows
    <3>2. QED BY <2>3, <3>1 DEF PurgeRetiredAgentRun, PurgeRetiredRun
  <2>4. QED BY <2>1, <2>2, <2>3, CommitmentSteps
<1>4. QED BY <1>2, <1>3

\* What a turn of a Pi leaves alone.
LEMMA TurnsLeave ==
  ASSUME NEW s, Turns(s)
  PROVE  UNCHANGED <<coordinator, leases>>
<1>1. ASSUME NEW e, NEW g, PiTurn(s, e, g) PROVE UNCHANGED <<coordinator, leases>>
  BY <1>1 DEF PiTurn
<1>2. ASSUME NEW c \in Conns, Connects(s, c) PROVE UNCHANGED <<coordinator, leases>>
  BY <1>2 DEF Connects
<1>3. ASSUME NEW e, NEW n, Acknowledges(s, e, n) \/ Proves(s, e, n) \/ Applies(s, e, n)
      PROVE \E g : PiTurn(s, e, g)
  BY <1>3 DEF Acknowledges, Proves, Replies, Applies
<1>4. ASSUME NEW e, TypedIn(s, e) \/ Closes(s, e) PROVE \E g : PiTurn(s, e, g)
  BY <1>4 DEF TypedIn, Closes
<1>5. ASSUME NEW e, NEW g, Passes(s, e, g) PROVE PiTurn(s, e, g) BY <1>5 DEF Passes
<1>6. ASSUME Repeats(s) PROVE \E e, g : PiTurn(s, e, g) BY <1>6 DEF Repeats
<1>7. QED BY <1>1, <1>2, <1>3, <1>4, <1>5, <1>6 DEF Turns

\* A proposal is made of what is observed; deadlines and contexts are of proposals.
LEMMA ProposalShapesKept ==
  ASSUME ContractInv, ProposalShapes, Next
  PROVE  ProposalShapes'
<1> USE DEF ContractInv, Ledger, ProposalShapes
<1>1. ASSUME UNCHANGED <<proposal, late>>, contexts' \subseteq contexts PROVE ProposalShapes'
  BY <1>1
<1>2. ASSUME NEW lost, NEW expired, LoseConnections(lost, expired) PROVE ProposalShapes'
  BY <1>1, <1>2 DEF LoseConnections
<1>3. ASSUME NEW c \in Conns, HandleRegister(c) PROVE ProposalShapes'
  BY <1>1, <1>2, <1>3 DEF HandleRegister, Register, BeginRecovery, Reject, coordinator
<1>4. ASSUME NEW c \in Conns,
             \/ HandleRecoveryProof(c) \/ HandleLifecycle(c) \/ HandleAcknowledgement(c)
             \/ HandleReady(c) \/ HandleTakeover(c) \/ HandleClosed(c)
      PROVE  ProposalShapes'
  BY <1>1, <1>2, <1>4 DEF HandleRecoveryProof, HandleLifecycle, HandleAcknowledgement,
     HandleReady, HandleTakeover, HandleClosed, Reject, coordinator
<1>5. ASSUME NEW p \in Proposals, CommitAcknowledged(p) \/ CommitRefused(p) PROVE ProposalShapes'
  BY <1>1, <1>5 DEF CommitAcknowledged, CommitRefused
<1>6. CASE Lapse
  <2>1. late' = late \/ \E p \in Proposals : late' = late \cup {p}
    BY <1>6 DEF Lapse, LapseObserved, LapseManaged, LapseRecovery, LapseProposal
  <2>2. UNCHANGED <<proposal, contexts>> BY <1>6 DEF Lapse
  <2>3. QED BY <2>1, <2>2
<1>7. CASE Sweep \/ CrashGateway BY <1>1, <1>2, <1>7 DEF Sweep, CrashGateway
<1>8. ASSUME NEW s \in Sessions, NEW r \in Roles, RequestAdoption(s, r) PROVE ProposalShapes'
  <2>1. PICK n : Proposes(n, s, r) BY <1>8, Requesting
  <2>2. ProposalFor(s, r) \in ProposalRecords
    BY <2>1 DEF Proposes, ProposalFor, ProposalRecords, EntryTypes, EntryRecords
  <2>3. QED BY <2>1, <2>2 DEF Proposes
<1>9. ASSUME NEW p \in Proposals, AuthorizeAdoption(p) PROVE ProposalShapes'
  BY <1>9 DEF AuthorizeAdoption
<1>10. ASSUME NEW x, RetireAgentRun(x) \/ PurgeRetiredAgentRun(x) PROVE ProposalShapes'
  BY <1>1, <1>10 DEF RetireAgentRun, PurgeRetiredAgentRun, DropAuthority
<1>11. ASSUME NEW s \in Sessions, Turns(s) PROVE ProposalShapes'
  <2>1. UNCHANGED coordinator
    BY <1>11, TurnsLeave
  <2>2. QED BY <1>1, <2>1 DEF coordinator
<1>12. PiStep => \E s \in Sessions : Turns(s) BY PiTurns DEF Frames
<1>13. QED
  BY <1>3, <1>4, <1>5, <1>6, <1>7, <1>8, <1>9, <1>10, <1>11, <1>12
     DEF Next, GatewayStep, UserStep

\* The observed entries stay a function of the sessions.
LEMMA EntriesMappedKept ==
  ASSUME ContractInv, EntriesMapped, Next
  PROVE  EntriesMapped'
<1> USE DEF ContractInv, Ledger
<1>0. ASSUME UNCHANGED observed PROVE EntriesMapped' BY <1>0 DEF EntriesMapped
<1>1. ASSUME NEW s, NEW e, observed' = [observed EXCEPT ![s] = e] PROVE EntriesMapped'
  BY <1>1 DEF EntriesMapped
<1>2. ASSUME NEW lost, NEW expired, LoseConnections(lost, expired) PROVE EntriesMapped'
  BY <1>2 DEF LoseConnections, EntriesMapped
<1>3. ASSUME NEW c \in Conns, HandleRegister(c) PROVE EntriesMapped'
  BY <1>0, <1>1, <1>2, <1>3 DEF HandleRegister, Register, BeginRecovery, Reject, leases
<1>4. ASSUME NEW c \in Conns, HandleLifecycle(c) PROVE EntriesMapped'
  BY <1>0, <1>1, <1>4 DEF HandleLifecycle, Reject, leases
<1>5. ASSUME NEW c \in Conns,
             \/ HandleRecoveryProof(c) \/ HandleAcknowledgement(c)
             \/ HandleReady(c) \/ HandleTakeover(c) \/ HandleClosed(c)
      PROVE  EntriesMapped'
  BY <1>0, <1>2, <1>5 DEF HandleRecoveryProof, HandleAcknowledgement,
     HandleReady, HandleTakeover, HandleClosed, Reject, leases
<1>6. ASSUME NEW p \in Proposals,
             CommitAcknowledged(p) \/ CommitRefused(p) \/ AuthorizeAdoption(p)
      PROVE EntriesMapped'
  BY <1>0, <1>6 DEF CommitAcknowledged, CommitRefused, AuthorizeAdoption, leases
<1>7. CASE Lapse
  BY <1>0, <1>1, <1>7 DEF Lapse, LapseObserved, LapseManaged, LapseRecovery, LapseProposal
<1>8. CASE Sweep BY <1>2, <1>8 DEF Sweep
<1>9. CASE CrashGateway BY <1>9 DEF CrashGateway, EntriesMapped
<1>10. ASSUME NEW s \in Sessions, NEW r \in Roles, RequestAdoption(s, r) PROVE EntriesMapped'
  BY <1>0, <1>10 DEF RequestAdoption, leases
<1>11. ASSUME NEW x, RetireAgentRun(x) \/ PurgeRetiredAgentRun(x) PROVE EntriesMapped'
  BY <1>0, <1>1, <1>11 DEF RetireAgentRun, PurgeRetiredAgentRun
<1>12. ASSUME NEW s \in Sessions, Turns(s) PROVE EntriesMapped'
  BY <1>0, <1>12, TurnsLeave DEF leases
<1>13. PiStep => \E s \in Sessions : Turns(s) BY PiTurns DEF Frames
<1>14. QED
  BY <1>3, <1>4, <1>5, <1>6, <1>7, <1>8, <1>9, <1>10, <1>11, <1>12, <1>13
     DEF Next, GatewayStep, UserStep

\* A turn of a Pi whose new answers name a run.
LEMMA TurnNamed ==
  ASSUME WireTypes, FramesNamed, NEW s \in Sessions, NEW e, NEW g, PiTurn(s, e, g),
         pi[s].conn # 0 =>
           \A f \in FramesOf(g) : f.type \in {"refused", "proof"} => f.run \in Proposals
  PROVE  FramesNamed'
<1>1. /\ \A k \in Conns :
           Gains(toGateway[k], toGateway'[k], IF k = pi[s].conn THEN FramesOf(g) ELSE {})
      /\ \A k \in Conns : Gains(toPi[k], toPi'[k], {})
  BY TurnGains
<1>2. \A k \in Conns : k # 0 BY DEF Conns
<1>3. QED BY <1>1, <1>2 DEF FramesNamed, Gains

\* Challenges and the answers to them name runs.
LEMMA NamedKept ==
  ASSUME ContractInv, LeaseTypes, FramesNamed, Next
  PROVE  FramesNamed'
<1> USE DEF ContractInv, Frames
<1>1. CASE ServerStep
  <2>1. \A c \in Conns : Gains(toGateway[c], toGateway'[c], {}) /\ RunsKnown(c)
    BY <1>1, QueueSteps
  <2>2. QED BY <2>1 DEF FramesNamed, Gains, RunsKnown, NamesRun
<1>2. ASSUME NEW s \in Sessions, Turns(s) PROVE FramesNamed'
  <2> DEFINE c == pi[s].conn
  <2>0. /\ c # 0 => c \in Conns
        /\ \A q \in Seq(FramesToPi) : q # <<>> => 1 \in DOMAIN q /\ Head(q) = q[1]
    BY TailOf DEF WireTypes, Extensions
  <2>1. ASSUME NEW k \in Conns, Connects(s, k) PROVE FramesNamed'
    <3>1. PICK a \in Activities :
            toGateway' = [toGateway EXCEPT ![k] = <<[type |-> "register", activity |-> a]>>]
      BY <2>1 DEF Connects
    <3>2. toPi' = toPi BY <2>1 DEF Connects
    <3>3. PICK f : f = [type |-> "register", activity |-> a] OBVIOUS
    <3>4. DOMAIN <<f>> = {1} /\ <<f>>[1] = f /\ f.type = "register" BY <3>3
    <3>5. toGateway'[k] = <<f>> /\ \A j \in Conns : j # k => toGateway'[j] = toGateway[j]
      BY <3>1, <3>3 DEF WireTypes
    <3>6. QED BY <3>2, <3>4, <3>5 DEF FramesNamed
  <2>2. ASSUME NEW e, Closes(s, e) PROVE FramesNamed'
    BY <2>2, FramesOfOne, FrameFields, TurnNamed DEF Closes
  <2>3. ASSUME NEW e, NEW g, Passes(s, e, g) PROVE FramesNamed'
    <3>1. PiTurn(s, e, g) /\ Refers(g, toPi[c]) BY <2>3 DEF Passes
    <3>2. ASSUME c # 0, NEW i \in DOMAIN g, g[i].type \in {"refused", "proof"}
          PROVE g[i].run \in Proposals
      <4>1. toPi[c] # <<>> /\ Head(toPi[c]).type = "request" /\ Head(toPi[c]).run = g[i].run
        BY <3>1, <3>2 DEF Refers
      <4>2. 1 \in DOMAIN toPi[c] /\ toPi[c][1] = Head(toPi[c])
        BY <2>0, <3>2, <4>1 DEF WireTypes
      <4>3. QED BY <2>0, <3>2, <4>1, <4>2 DEF MentionsSound, Mentioned
    <3>3. c # 0 => \A f \in FramesOf(g) : f.type \in {"refused", "proof"} => f.run \in Proposals
      BY <3>2 DEF FramesOf
    <3>4. QED BY <3>1, <3>3, TurnNamed
  <2>4. ASSUME NEW e, NEW n, Acknowledges(s, e, n) PROVE FramesNamed'
    <3>1. \A f \in FramesOf(<<Frame("acknowledged", n)>>) : f.type = "acknowledged"
      BY FramesOfOne, FrameFields
    <3>2. PiTurn(s, e, <<Frame("acknowledged", n)>>) BY <2>4 DEF Acknowledges, Replies
    <3>3. QED BY <3>1, <3>2, TurnNamed
  <2>5. ASSUME NEW e, NEW n, Proves(s, e, n) PROVE FramesNamed'
    <3>1. /\ PiTurn(s, e, <<Frame("proof", n)>>) /\ c # 0 /\ toPi[c] # <<>>
          /\ Head(toPi[c]).type = "challenge" /\ Head(toPi[c]).run = n
      BY <2>5 DEF Proves, Replies
    <3>2. 1 \in DOMAIN toPi[c] /\ toPi[c][1] = Head(toPi[c])
      BY <2>0, <3>1 DEF WireTypes
    <3>3. n \in Proposals BY <2>0, <3>1, <3>2 DEF FramesNamed
    <3>4. \A f \in FramesOf(<<Frame("proof", n)>>) : f.run = n BY FramesOfOne, FrameFields
    <3>5. QED BY <3>1, <3>3, <3>4, TurnNamed
  <2>6. ASSUME NEW e, NEW n, Applies(s, e, n) PROVE FramesNamed'
    <3>1. \A f \in FramesOf(Receipts(pi[s], n)) : f.type \in {"ready", "takeover"}
      BY FramesOfOne, FrameFields
    <3>2. PiTurn(s, e, Receipts(pi[s], n)) BY <2>6 DEF Applies
    <3>3. QED BY <3>1, <3>2, TurnNamed
  <2>7. ASSUME Repeats(s) PROVE FramesNamed'
    <3>1. PICK n : n = pi[s].committed OBVIOUS
    <3>2. \A f \in FramesOf(<<Frame("ready", n)>>) : f.type = "ready" BY FramesOfOne, FrameFields
    <3>3. PiTurn(s, pi[s], <<Frame("ready", n)>>) BY <2>7, <3>1 DEF Repeats
    <3>4. QED BY <3>2, <3>3, TurnNamed
  <2>8. ASSUME NEW e, TypedIn(s, e) PROVE FramesNamed'
    <3>1. PICK n : n = pi[s].committed OBVIOUS
    <3>2. \A f \in FramesOf(<<Frame("takeover", n)>>) : f.type = "takeover"
      BY FramesOfOne, FrameFields
    <3>3. PiTurn(s, e, <<Frame("takeover", n)>>) BY <2>8, <3>1 DEF TypedIn
    <3>4. QED BY <3>2, <3>3, TurnNamed
  <2>9. QED BY <1>2, <2>1, <2>2, <2>3, <2>4, <2>5, <2>6, <2>7, <2>8 DEF Turns
<1>3. QED BY <1>1, <1>2, PiTurns DEF Next, ServerStep

\* Crashes and activity changes are counted, and end at their bounds.
LEMMA BoundsKept ==
  ASSUME WithinBounds, Next
  PROVE  WithinBounds'
<1> USE DEF WithinBounds, counters
<1>1. CASE CrashGateway BY <1>1, BoundsAssumption DEF CrashGateway
<1>2. ASSUME NEW s \in Sessions, ChangeActivity(s) PROVE WithinBounds'
  BY <1>2, BoundsAssumption DEF ChangeActivity
<1>3. ASSUME NEW c \in Conns,
             \/ HandleRegister(c) \/ HandleRecoveryProof(c) \/ HandleLifecycle(c)
             \/ HandleAcknowledgement(c) \/ HandleReady(c) \/ HandleTakeover(c) \/ HandleClosed(c)
      PROVE  WithinBounds'
  BY <1>3 DEF HandleRegister, HandleRecoveryProof, HandleLifecycle, HandleAcknowledgement,
              HandleReady, HandleTakeover, HandleClosed
<1>4. ASSUME NEW p \in Proposals,
             CommitAcknowledged(p) \/ CommitRefused(p) \/ AuthorizeAdoption(p)
      PROVE  WithinBounds'
  BY <1>4 DEF CommitAcknowledged, CommitRefused, AuthorizeAdoption
<1>5. CASE Lapse \/ Sweep BY <1>5 DEF Lapse, Sweep
<1>6. ASSUME NEW s, NEW r, RequestAdoption(s, r) PROVE WithinBounds'
  BY <1>6 DEF RequestAdoption
<1>7. ASSUME NEW x, RetireAgentRun(x) \/ PurgeRetiredAgentRun(x) PROVE WithinBounds'
  BY <1>7 DEF RetireAgentRun, PurgeRetiredAgentRun
<1>8. ASSUME NEW s \in Sessions,
             \/ Connect(s) \/ ReceiveRegistered(s) \/ ReceiveRequest(s) \/ ReceiveChallenge(s)
             \/ ReceiveCommitted(s) \/ ReceiveEnd(s) \/ RepeatReady(s) \/ Input(s)
             \/ Disconnect(s) \/ Quit(s)
      PROVE  WithinBounds'
  BY <1>8 DEF Connect, ReceiveRegistered, ReceiveRequest, ReceiveChallenge, ReceiveCommitted,
              ReceiveEnd, RepeatReady, Input, Disconnect, Quit
<1>9. QED
  BY <1>1, <1>2, <1>3, <1>4, <1>5, <1>6, <1>7, <1>8 DEF Next, GatewayStep, UserStep, PiStep

\* Everything starts empty.
LEMMA ShapesInitial == ASSUME Init PROVE ShapesSound
<1>1. VacancyCounted BY VacancyInit
<1>2. RowShapes BY DEF Init, StoresInit, RowShapes
<1>3. ProposalShapes BY DEF Init, ProposalShapes
<1>7. EntriesMapped BY DEF Init, EntriesMapped
<1>4. FramesNamed
  <2>1. \A c \in Conns : toPi[c] = <<>> /\ toGateway[c] = <<>> BY DEF Init
  <2>2. DOMAIN <<>> = {} OBVIOUS
  <2>3. QED BY <2>1, <2>2 DEF FramesNamed
<1>5. WithinBounds BY BoundsAssumption DEF Init, WithinBounds
<1>6. QED BY <1>1, <1>2, <1>3, <1>4, <1>5, <1>7 DEF ShapesSound

\* The frames of a queue that all are of a narrower kind.
LEMMA Narrower ==
  ASSUME NEW S, NEW T, NEW q \in Seq(S), \A i \in DOMAIN q : q[i] \in T
  PROVE  q \in Seq(T)
<1>1. Len(q) \in Nat /\ DOMAIN q = 1 .. Len(q) BY LenProperties
<1>2. q = [i \in 1 .. Len(q) |-> q[i]] BY SeqDef
<1>3. q \in [1 .. Len(q) -> T] BY <1>1, <1>2
<1>4. QED BY <1>1, <1>3, SeqDef

\* The invariants together are the types.
LEMMA TypesHold ==
  ASSUME ContractInv, LeaseInv, ShapesSound
  PROVE  TypeOK
<1> USE DEF ContractInv, Ledger, Frames, LeaseInv, ShapesSound
<1>1. StoresTypeOK BY DEF StoresTypeOK, RowShapes, VacancyCounted, LeaseTypes
<1>2. /\ proposal \in [Proposals -> ProposalRecords \cup {Null}] /\ phase \in [Proposals -> Phases]
      /\ late \subseteq Proposals /\ listed \subseteq Proposals /\ contexts \subseteq Proposals
  BY DEF ProposalShapes, ProposalTypes
<1>3. observed \in [Sessions -> ObservedRecords \cup {Null}] /\ revision \in Nat
      /\ highWater \in [Sessions -> Conns \cup {0}]
  <2>1. \A s \in Sessions : observed[s] \in ObservedRecords \cup {Null}
    BY DEF EntryTypes, EntryRecords, ObservedRecords
  <2>2. DOMAIN observed = Sessions /\ revision \in Nat BY DEF EntryTypes
  <2>3. QED
    <3>1. highWater \in [Sessions -> Conns \cup {0}] BY DEF OrderSound
    <3>2. observed = [s \in Sessions |-> observed[s]] BY DEF EntriesMapped
    <3>3. QED BY <2>1, <2>2, <3>1, <3>2
<1>4. managed \in [Conns -> ManagedRecords \cup {Null}]
      /\ recoveries \in [Conns -> RecoveryRecords \cup {Null}]
  BY DEF LeaseTypes
<1>5. serving \subseteq Conns /\ owner \in [Conns -> Sessions \cup {Null}]
  BY DEF WireTypes
<1>6. pi \in [Sessions -> PiRecords]
  <2>1. Extensions = PiRecords BY DEF Extensions, PiRecords, RunOrNull
  <2>2. QED BY <2>1 DEF WireTypes
<1>7. toPi \in [Conns -> Seq(PiFrames)]
  <2>1. ASSUME NEW c \in Conns PROVE toPi[c] \in Seq(PiFrames)
    <3>1. toPi[c] \in Seq(FramesToPi) BY DEF WireTypes
    <3>2. ASSUME NEW i \in DOMAIN toPi[c] PROVE toPi[c][i] \in PiFrames
      <4>1. PICK f : f = toPi[c][i] OBVIOUS
      <4>2. f \in FramesToPi BY <3>1, <3>2, <4>1, LenProperties
      <4>3. f.type \in {"request", "challenge", "committed"} => f.run \in Proposals
        BY <4>1 DEF MentionsSound, Mentioned, FramesNamed, KnowledgeSound, CommittedTo
      <4>4. f \in PiFrames BY <4>2, <4>3 DEF FramesToPi, PiFrames
      <4>5. QED BY <4>1, <4>4
    <3>3. QED BY <3>1, <3>2, Narrower
  <2>2. QED BY <2>1 DEF WireTypes
<1>8. toGateway \in [Conns -> Seq(GatewayFrames)]
  <2>1. ASSUME NEW c \in Conns PROVE toGateway[c] \in Seq(GatewayFrames)
    <3>1. toGateway[c] \in Seq(FramesToGateway) BY DEF WireTypes
    <3>2. ASSUME NEW i \in DOMAIN toGateway[c] PROVE toGateway[c][i] \in GatewayFrames
      <4>1. PICK f : f = toGateway[c][i] OBVIOUS
      <4>2. f \in FramesToGateway BY <3>1, <3>2, <4>1, LenProperties
      <4>3. f.type \in {"acknowledged", "refused", "ready", "takeover", "proof"} =>
              f.run \in Proposals
        BY <4>1 DEF MentionsSound, Mentioned, FramesNamed, KnowledgeSound, CommittedTo
      <4>4. f \in GatewayFrames BY <4>2, <4>3 DEF FramesToGateway, GatewayFrames
      <4>5. QED BY <4>1, <4>4
    <3>3. QED BY <3>1, <3>2, Narrower
  <2>2. QED BY <2>1 DEF WireTypes
<1>9. QED BY <1>1, <1>2, <1>3, <1>4, <1>5, <1>6, <1>7, <1>8 DEF TypeOK, WithinBounds

\* Rows, proposals, entries, leases, frames and extensions keep their types, and
\* every frame that speaks of a run names one: no handler is reached with a run
\* it has no proposal for (live-adoption-runner.ts, extension-adapter.ts).
THEOREM AdoptionTypesCorrect == Spec => []TypeOK
<1>1. Init => ShapesSound BY ShapesInitial
<1>2. ContractInv /\ LeaseInv /\ ShapesSound /\ [Next]_vars => ShapesSound'
  <2> SUFFICES ASSUME ContractInv, LeaseInv, ShapesSound, [Next]_vars PROVE ShapesSound'
    OBVIOUS
  <2>1. VacancyCounted' BY OnlyTransactions, VacancyStepCounted DEF ShapesSound
  <2>2. CASE Next
    BY <2>1, <2>2, RowShapesKept, ProposalShapesKept, EntriesMappedKept, NamedKept, BoundsKept
       DEF ShapesSound, LeaseInv
  <2>3. CASE UNCHANGED vars
    BY <2>1, <2>3 DEF vars, stores, coordinator, wire, counters, ShapesSound, RowShapes,
                      leases, ProposalShapes, EntriesMapped, FramesNamed, WithinBounds
  <2>4. QED BY <2>2, <2>3
<1>3. ContractInv /\ LeaseInv /\ ShapesSound => TypeOK BY TypesHold
<1>4. QED BY <1>1, <1>2, <1>3, LeasesStaySound, PTL DEF Spec
=============================================================================
