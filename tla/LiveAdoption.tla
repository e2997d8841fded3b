---------------------------- MODULE LiveAdoption ----------------------------
(***************************************************************************)
(* Live Adoption: the gateway process (observer/live-adoption-gateway-     *)
(* core.ts, live-adoption-runner.ts, the per-session AdoptionCoordinator   *)
(* of adoption.ts and the registry.ts it drives), the Companion user who   *)
(* asks it, and the extension inside each visible Pi process               *)
(* (observer/extension-adapter.ts under manual/live-adoption-extension.ts),*)
(* over the SQLite database of AdoptionStores.                             *)
(*                                                                         *)
(* Every frame handler sweeps lapsed leases first; here a lapse is a step, *)
(* the sweep is another, and a handler waits for it.  Heartbeats only      *)
(* renew leases and are left out.  An acknowledgement is handled up to its *)
(* first await by one action and committed by another, so that whatever    *)
(* the awaits admit falls between them.  A crash keeps the database and    *)
(* loses everything else, and with it the frames not yet written.  The Run *)
(* of a proposal is named by the proposal.                                 *)
(***************************************************************************)
EXTENDS AdoptionStores, Sequences, SequencesExt

CONSTANTS
  Attended,    \* the sessions someone types in and may quit
  MaxConns,    \* bound: connections the Pi sessions open
  MaxFrames,   \* bound: frames a Pi has unread at the gateway when it adds one
  MaxCrashes,  \* bound: gateway crashes
  MaxFlips     \* bound: idle/busy changes of the Pi sessions

Conns == 1..MaxConns

ASSUME BoundsAssumption ==
  /\ Attended \subseteq Sessions
  /\ MaxConns \in Nat /\ MaxFrames \in Nat /\ MaxCrashes \in Nat /\ MaxFlips \in Nat

VARIABLES
  proposal,    \* coordinator: the immutable proposals
  phase,       \* coordinator: their phases
  late,        \* proposals past their TTL or acknowledgement deadline
  listed,      \* coordinator: pendingById of the current coordinators
  contexts,    \* runner: commitContexts
  observed,    \* runner: the observed entry of each session
  managed,     \* runner: managedConnections
  recoveries,  \* runner: the recovery challenge of each connection
  revision,    \* registry: the last revision it issued
  highWater,   \* registry: the last registration attempt it accepted
  serving,     \* gateway: the connections it has a session for
  owner,       \* the session that opened each connection
  toGateway,   \* frames on the way to the gateway
  toPi,        \* frames on the way to the Pi
  pi,          \* the extension of each Pi session
  crashes, flips

coordinator == <<proposal, phase, late, listed, contexts>>
leases == <<observed, managed, recoveries>>
registry == <<revision, highWater>>
wire == <<serving, owner, toGateway, toPi>>
counters == <<crashes, flips>>
vars == <<stores, coordinator, leases, registry, wire, pi, counters>>

-----------------------------------------------------------------------------
(* Types. *)

Phases == {"unused", "proposed", "authorized", "acknowledged", "committed", "failed"}
Activities == {"idle", "busy"}

ProposalRecords == [session : Sessions, role : Roles, conn : Conns, rev : Nat]
ObservedRecords == [conn : Conns, rev : Nat, activity : Activities,
                    available : BOOLEAN, live : BOOLEAN]
ManagedRecords == [run : Proposals, ready : BOOLEAN, live : BOOLEAN]
RecoveryRecords == [run : Proposals, live : BOOLEAN]
GatewayFrames ==
  [type : {"register", "lifecycle"}, activity : Activities]
  \cup [type : {"acknowledged", "refused", "ready", "takeover", "proof"}, run : Proposals]
  \cup [type : {"closed"}]
PiFrames ==
  [type : {"registered"}, rev : Nat]
  \cup [type : {"request"}, run : Proposals, rev : Nat]
  \cup [type : {"challenge", "committed"}, run : Proposals]
  \cup [type : {"rejected", "closed"}]
\* conn 0: not connected.  rev 0: not registered on it.  sessionAck survives
\* a reconnect, as do committed (lastCommitted), candidate and takeover.
PiRecords == [alive : BOOLEAN, activity : Activities,
              conn : Conns \cup {0}, rev : Nat, managed : BOOLEAN,
              ack : Proposals \cup {Null}, sessionAck : Proposals \cup {Null},
              committed : Proposals \cup {Null}, candidate : Proposals \cup {Null},
              takeover : BOOLEAN]

ASSUME RecordsAssumption ==
  Null \notin ProposalRecords \cup ObservedRecords \cup ManagedRecords \cup RecoveryRecords

TypeOK ==
  /\ StoresTypeOK
  /\ proposal \in [Proposals -> ProposalRecords \cup {Null}]
  /\ phase \in [Proposals -> Phases]
  /\ late \subseteq Proposals /\ listed \subseteq Proposals /\ contexts \subseteq Proposals
  /\ observed \in [Sessions -> ObservedRecords \cup {Null}]
  /\ managed \in [Conns -> ManagedRecords \cup {Null}]
  /\ recoveries \in [Conns -> RecoveryRecords \cup {Null}]
  /\ revision \in Nat /\ highWater \in [Sessions -> Conns \cup {0}]
  /\ serving \subseteq Conns /\ owner \in [Conns -> Sessions \cup {Null}]
  /\ toGateway \in [Conns -> Seq(GatewayFrames)]
  /\ toPi \in [Conns -> Seq(PiFrames)]
  /\ pi \in [Sessions -> PiRecords]
  /\ crashes \in 0..MaxCrashes /\ flips \in 0..MaxFlips

FreshPi == [alive |-> TRUE, activity |-> "idle", conn |-> 0, rev |-> 0, managed |-> FALSE,
            ack |-> Null, sessionAck |-> Null, committed |-> Null, candidate |-> Null,
            takeover |-> FALSE]

Init ==
  /\ StoresInit
  /\ proposal = [p \in Proposals |-> Null] /\ phase = [p \in Proposals |-> "unused"]
  /\ late = {} /\ listed = {} /\ contexts = {}
  /\ observed = [s \in Sessions |-> Null]
  /\ managed = [c \in Conns |-> Null] /\ recoveries = [c \in Conns |-> Null]
  /\ revision = 0 /\ highWater = [s \in Sessions |-> 0]
  /\ serving = {} /\ owner = [c \in Conns |-> Null]
  /\ toGateway = [c \in Conns |-> <<>>] /\ toPi = [c \in Conns |-> <<>>]
  /\ pi = [s \in Sessions |-> FreshPi]
  /\ crashes = 0 /\ flips = 0

-----------------------------------------------------------------------------
(* The gateway's connections. *)

Rejected == [type |-> "rejected"]
Closed == [type |-> "closed"]

\* sendAcknowledgementRequest and sendCommitted.
RequestFrame(p) == [type |-> "request", run |-> p, rev |-> proposal[p].rev]
CommittedFrame(n) == [type |-> "committed", run |-> n]

\* A frame for a Pi that has closed its end is lost, and so is one behind a
\* rejection, on which the Pi closes.
Reads(c) == pi[owner[c]].conn = c
Sent(c, frame) ==
  IF Reads(c) /\ Rejected \notin Range(toPi[c]) THEN [toPi EXCEPT ![c] = Append(@, frame)]
  ELSE toPi

\* The gateway's next frame of a connection, once nothing is left to sweep.
LapsedConns == {c \in Conns : managed[c] # Null /\ ~managed[c].live}
LapsedEntries ==
  {s \in Sessions : observed[s] # Null /\ ~observed[s].live
                    /\ (managed[observed[s].conn] = Null \/ observed[s].conn \in LapsedConns)}
Handles(c, types) ==
  /\ c \in serving /\ toGateway[c] # <<>> /\ Head(toGateway[c]).type \in types
  /\ LapsedConns = {} /\ LapsedEntries = {}
Handled(c) == toGateway' = [toGateway EXCEPT ![c] = Tail(@)]
FrameRun(c) == Head(toGateway[c]).run

\* The frame is answered with a rejection and changes nothing else.
Reject(c) ==
  /\ toPi' = Sent(c, Rejected)
  /\ UNCHANGED <<stores, coordinator, leases, registry>>

\* The proposals a coordinator still has to decide (pendingById).
PendingOf(s) == {p \in listed : proposal[p].session = s}

\* A coordinator forgets proposals.  One whose acknowledgement is between its
\* awaits goes on to its commit.
Invalidate(gone) ==
  /\ listed' = listed \ gone
  /\ phase' = [p \in Proposals |->
       IF p \in gone /\ phase[p] # "acknowledged" THEN "failed" ELSE phase[p]]

\* One proposal fails and is no longer pending.
InvalidateProposal(p) ==
  /\ phase' = [phase EXCEPT ![p] = "failed"]
  /\ listed' = listed \ {p}

\* onConnectionLost of some connections: their leases go, and the sessions
\* observed there become unavailable with a reconstructed coordinator.  The
\* sweep deletes the entries "expired".
LoseConnections(lost, expired) ==
  LET entries == {s \in Sessions : observed[s] # Null /\ observed[s].conn \in lost}
  IN /\ managed' = [c \in Conns |-> IF c \in lost THEN Null ELSE managed[c]]
     /\ observed' = [s \in Sessions |->
          IF s \in expired THEN Null
          ELSE IF s \in entries THEN [observed[s] EXCEPT !.available = FALSE]
          ELSE observed[s]]
     /\ contexts' = {p \in contexts : proposal[p].session \notin entries}
     /\ Invalidate(UNION {PendingOf(s) : s \in entries})
     /\ UNCHANGED <<proposal, late>>

-----------------------------------------------------------------------------
(* Registration and recovery. *)

\* registerObserved and updateObserved start the lease of an entry.
ObservedEntry(c, rev, activity) ==
  [conn |-> c, rev |-> rev, activity |-> activity, available |-> TRUE, live |-> TRUE]
UpdatedEntry(entry, rev, activity) ==
  [entry EXCEPT !.rev = rev, !.activity = activity, !.available = TRUE, !.live = TRUE]

\* handleRegister of a session that has no commitment.  The registry accepts
\* it before the runner looks for a fence.
Register(c, s) ==
  /\ CommittedByBinding(s) = Null
  /\ IF c <= highWater[s] THEN Reject(c)
     ELSE /\ revision' = revision + 1
          /\ highWater' = [highWater EXCEPT ![s] = c]
          /\ UNCHANGED <<stores, managed, recoveries, proposal, late, contexts>>
          /\ IF s \in fences
             THEN /\ toPi' = Sent(c, Rejected)
                  /\ UNCHANGED <<observed, listed, phase>>
             ELSE /\ observed' = [observed EXCEPT ![s] =
                       ObservedEntry(c, revision + 1, Head(toGateway[c]).activity)]
                  /\ Invalidate(PendingOf(s))
                  /\ toPi' = Sent(c, [type |-> "registered", rev |-> revision + 1])

\* The connections on which the run of a binding is managed.
ConnsOf(n) == {k \in Conns : managed[k] # Null /\ managed[k].run = n}

\* handleRegister of a committed session: challenged recovery, which takes
\* over from every older connection of the run.
BeginRecovery(c, s) ==
  LET n == CommittedByBinding(s)
  IN /\ n # Null
     /\ IF IsRetired(s) THEN Reject(c)
        ELSE /\ LoseConnections(ConnsOf(n), {})
             /\ recoveries' = [k \in Conns |->
                  IF k = c THEN [run |-> n, live |-> TRUE]
                  ELSE IF recoveries[k] # Null /\ recoveries[k].run = n THEN Null
                  ELSE recoveries[k]]
             /\ toPi' = Sent(c, [type |-> "challenge", run |-> n])
             /\ UNCHANGED <<stores, registry>>

HandleRegister(c) ==
  /\ Handles(c, {"register"})
  /\ Handled(c)
  /\ Register(c, owner[c]) \/ BeginRecovery(c, owner[c])
  /\ UNCHANGED <<serving, owner, pi, counters>>

\* completeRecovery enters the managed lease, not yet ready.
RecoveredLease_Ready(n) == [run |-> n, ready |-> n \notin takeovers, live |-> TRUE]
RecoveredLease(n) == [run |-> n, ready |-> FALSE, live |-> TRUE]

HandleRecoveryProof(c) ==
  /\ Handles(c, {"proof"})
  /\ Handled(c)
  /\ IF recoveries[c] # Null /\ recoveries[c].live /\ recoveries[c].run = FrameRun(c)
     THEN /\ recoveries' = [recoveries EXCEPT ![c] = Null]
          /\ managed' = [managed EXCEPT ![c] = RecoveredLease(FrameRun(c))]
          /\ toPi' = Sent(c, CommittedFrame(FrameRun(c)))
          /\ UNCHANGED observed
     ELSE /\ recoveries' = [recoveries EXCEPT ![c] =
               IF @ # Null /\ ~@.live THEN Null ELSE @]
          /\ toPi' = Sent(c, Rejected)
          /\ UNCHANGED <<managed, observed>>
  /\ UNCHANGED <<stores, coordinator, registry, serving, owner, pi, counters>>

\* A lifecycle frame of the connection that registered the session.
HandleLifecycle(c) ==
  LET s == owner[c]
  IN /\ Handles(c, {"lifecycle"})
     /\ Handled(c)
     /\ IF observed[s] # Null /\ observed[s].conn = c
        THEN /\ revision' = revision + 1
             /\ observed' = [observed EXCEPT ![s] =
                  UpdatedEntry(@, revision + 1, Head(toGateway[c]).activity)]
             /\ UNCHANGED <<stores, coordinator, managed, recoveries, highWater, toPi>>
        ELSE Reject(c)
     /\ UNCHANGED <<serving, owner, pi, counters>>

\* The transport closed: transportClosed, or observer.close before it.
HandleClosed(c) ==
  /\ Handles(c, {"closed"})
  /\ Handled(c)
  /\ serving' = serving \ {c}
  /\ LoseConnections({c}, {})
  /\ recoveries' = [recoveries EXCEPT ![c] = Null]
  /\ UNCHANGED <<stores, registry, owner, toPi, pi, counters>>

-----------------------------------------------------------------------------
(* Leases and deadlines. *)

LapseObserved(s) ==
  /\ observed[s] # Null /\ observed[s].live
  /\ observed' = [observed EXCEPT ![s] = [@ EXCEPT !.live = FALSE]]
  /\ UNCHANGED <<managed, recoveries, late>>

LapseManaged(c) ==
  /\ managed[c] # Null /\ managed[c].live
  /\ managed' = [managed EXCEPT ![c] = [@ EXCEPT !.live = FALSE]]
  /\ UNCHANGED <<observed, recoveries, late>>

LapseRecovery(c) ==
  /\ recoveries[c] # Null /\ recoveries[c].live
  /\ recoveries' = [recoveries EXCEPT ![c] = [@ EXCEPT !.live = FALSE]]
  /\ UNCHANGED <<observed, managed, late>>

LapseProposal(p) ==
  /\ phase[p] \in {"proposed", "authorized", "acknowledged"} /\ p \notin late
  /\ late' = late \cup {p}
  /\ UNCHANGED <<observed, managed, recoveries>>

Lapse ==
  /\ \/ \E s \in Sessions : LapseObserved(s)
     \/ \E c \in Conns : LapseManaged(c) \/ LapseRecovery(c)
     \/ \E p \in Proposals : LapseProposal(p)
  /\ UNCHANGED <<stores, proposal, phase, listed, contexts, registry, wire, pi, counters>>

\* expire(), at the start of every frame handler and on the gateway's timer.
Sweep ==
  LET lost == LapsedConns \cup {observed[s].conn : s \in LapsedEntries}
  IN /\ ~(LapsedConns = {} /\ LapsedEntries = {})
     /\ LoseConnections(lost, LapsedEntries)
     /\ recoveries' = [c \in Conns |-> IF c \in lost THEN Null ELSE recoveries[c]]
     /\ UNCHANGED <<stores, registry, wire, pi, counters>>

-----------------------------------------------------------------------------
(* Adoption. *)

\* The session can still be adopted into the Role (assertEligibility): only
\* adopted_runs is asked whether the binding is committed.
Eligible(s, r) ==
  /\ observed[s].available /\ observed[s].activity = "idle"
  /\ ~RoleOccupied(r) /\ ~BindingCommitted(s)

\* The revision is the newest of all entries (currentRevision of the port the
\* runner gives its coordinators).
IsNewest(rev) == \A s \in Sessions : observed[s] # Null => observed[s].rev <= rev

\* The proposal's connection and revision are current, and no other session
\* has registered or changed since (assertCurrentRevision).
CurrentIdentity(p) ==
  LET s == proposal[p].session
  IN /\ observed[s] # Null
     /\ observed[s].conn = proposal[p].conn /\ observed[s].rev = proposal[p].rev
     /\ IsNewest(proposal[p].rev)

\* What the runner asks the coordinator for: the session as it is observed now.
ProposalFor(s, r) ==
  [session |-> s, role |-> r, conn |-> observed[s].conn, rev |-> observed[s].rev]

\* The identity of a new proposal: one that was never issued (issueId).
FreshProposal == CHOOSE p \in Proposals : phase[p] = "unused"

\* createProposal: a live pending proposal of the session refuses another.
RequestAdoption(s, r) ==
  LET pending == PendingOf(s)
      next == FreshProposal
  IN /\ observed[s] # Null
     /\ pending \subseteq late
     /\ Eligible(s, r)
     /\ \E p \in Proposals : phase[p] = "unused"
     /\ proposal' = [proposal EXCEPT ![next] = ProposalFor(s, r)]
     /\ phase' = [p \in Proposals |->
          IF p = next THEN "proposed"
          ELSE IF p \in pending /\ phase[p] # "acknowledged" THEN "failed" ELSE phase[p]]
     /\ listed' = (listed \ pending) \cup {next}
     /\ UNCHANGED <<stores, late, contexts, leases, registry, wire, pi, counters>>

\* authorizeAdoption of the displayed proposal.  The request may find the
\* transport closed, and then the proposal is as before.
AuthorizeAdoption(p) ==
  /\ p \in listed /\ phase[p] = "proposed" /\ p \notin late
  /\ proposal[p].conn \in serving
  /\ contexts' = contexts \cup {p}
  /\ phase' = [phase EXCEPT ![p] = "authorized"]
  /\ toPi' = Sent(proposal[p].conn, RequestFrame(p))
  /\ UNCHANGED <<stores, proposal, late, listed, leases, registry, serving, owner, toGateway,
                 pi, counters>>

\* The runner passes an answer on: it knows the proposal, the answer came over
\* the connection of its session, and the session is not retired.
Reached(p, c) ==
  LET s == owner[c]
  IN p \in listed /\ observed[s] # Null /\ observed[s].conn = c /\ ~IsRetired(s)

\* acceptAcknowledgement up to the commit.  An answer that fails any check of
\* the coordinator invalidates the proposal.
HandleAcknowledgement(c) ==
  LET p == FrameRun(c)
      s == owner[c]
      accepted == /\ Reached(p, c)
                  /\ Head(toGateway[c]).type = "acknowledged"
                  /\ phase[p] = "authorized" /\ p \notin late
                  /\ CurrentIdentity(p) /\ Eligible(s, proposal[p].role)
  IN /\ Handles(c, {"acknowledged", "refused"})
     /\ Handled(c)
     /\ IF accepted
        THEN /\ phase' = [phase EXCEPT ![p] = "acknowledged"]
             /\ UNCHANGED <<listed, toPi>>
        ELSE /\ IF Reached(p, c) /\ phase[p] # "proposed"
                THEN InvalidateProposal(p)
                ELSE UNCHANGED <<phase, listed>>
             /\ toPi' = Sent(c, Rejected)
     /\ UNCHANGED <<stores, proposal, late, contexts, leases, registry, serving, owner, pi,
                    counters>>

\* Every check of assertSynchronousCommitValid and of the coordinator's own
\* repetition before it.
CommitChecks(p) ==
  LET s == proposal[p].session
  IN /\ CurrentIdentity(p) /\ Eligible(s, proposal[p].role)
     /\ p \in contexts /\ p \notin late /\ observed[s].live

\* A vacant Role that has retired history takes a replacement, at the
\* predecessor and generation read here, not when the user confirmed.
Insertion(p) ==
  LET s == proposal[p].session
      r == proposal[p].role
  IN IF Vacated(r) THEN CommitReplacementAdoption(p, s, r, RetirementVacancy(r))
     ELSE CommitAdoption(p, s, r)

\* The transaction of the insertion commits; else it is rolled back.
InsertionCommits(p) ==
  LET r == proposal[p].role
  IN IF Vacated(r) THEN ReplacementInsertable(p, r, RetirementVacancy(r))
     ELSE Insertable(p, proposal[p].session, r)

CommitAcknowledged(p) ==
  LET c == proposal[p].conn
  IN /\ phase[p] = "acknowledged" /\ CommitChecks(p)
     /\ Insertion(p)
     /\ managed' = [managed EXCEPT ![c] = [run |-> p, ready |-> FALSE, live |-> TRUE]]
     /\ contexts' = contexts \ {p} /\ listed' = listed \ {p}
     /\ phase' = [phase EXCEPT ![p] = "committed"]
     /\ toPi' = Sent(c, CommittedFrame(p))
     /\ UNCHANGED <<proposal, late, observed, recoveries, registry, serving, owner, toGateway,
                    pi, counters>>

\* A failed check, or a transaction a constraint aborted.
CommitRefused(p) ==
  /\ phase[p] = "acknowledged" /\ ~(CommitChecks(p) /\ InsertionCommits(p))
  /\ InvalidateProposal(p)
  /\ toPi' = Sent(proposal[p].conn, Rejected)
  /\ UNCHANGED <<stores, proposal, late, contexts, leases, registry, serving, owner, toGateway,
                 pi, counters>>

-----------------------------------------------------------------------------
(* Readiness and takeover. *)

\* The lease of a connection can be used for the run a frame names.
HoldsLease(c, n) ==
  /\ managed[c] # Null /\ managed[c].live /\ managed[c].run = n
  /\ ~IsRetired(owner[c])

ReadyAfterReceipt_Row(n) == IF n \in takeovers THEN n ELSE Null
ReadyAfterReceipt(n) == n \notin takeovers

\* acceptManagedReady: a receipt, repeated as the managed heartbeat.
HandleReady(c) ==
  /\ Handles(c, {"ready"})
  /\ Handled(c)
  /\ IF HoldsLease(c, FrameRun(c))
     THEN /\ managed' = [managed EXCEPT ![c] =
               [@ EXCEPT !.ready = ReadyAfterReceipt(FrameRun(c))]]
          /\ UNCHANGED <<stores, coordinator, observed, recoveries, registry, toPi>>
     ELSE Reject(c)
  /\ UNCHANGED <<serving, owner, pi, counters>>

\* acceptManualTakeover: readiness is withdrawn before the durable record,
\* whose failure drops the lease.  The control frame only sets a label.
HandleTakeover(c) ==
  /\ Handles(c, {"takeover"})
  /\ Handled(c)
  /\ \/ /\ HoldsLease(c, FrameRun(c))
        /\ RecordManualTakeover(FrameRun(c))
        /\ managed' = [managed EXCEPT ![c] = [@ EXCEPT !.ready = FALSE]]
        /\ UNCHANGED <<coordinator, observed, recoveries, registry, toPi>>
     \/ /\ HoldsLease(c, FrameRun(c))
        /\ LoseConnections({c}, {})
        /\ recoveries' = [recoveries EXCEPT ![c] = Null]
        /\ toPi' = Sent(c, Rejected)
        /\ UNCHANGED <<stores, registry>>
     \/ ~HoldsLease(c, FrameRun(c)) /\ Reject(c)
  /\ UNCHANGED <<serving, owner, pi, counters>>

-----------------------------------------------------------------------------
(* Retirement, purge and crash. *)

\* The contexts of one session and the recoveries of one run are dropped.
DropAuthority(s, n) ==
  /\ contexts' = {p \in contexts : proposal[p].session # s}
  /\ recoveries' = [c \in Conns |->
       IF recoveries[c] # Null /\ recoveries[c].run = n THEN Null ELSE recoveries[c]]

\* retireAgentRun: refused while a lease of the run is live.
RetireAgentRun(x) ==
  /\ \A c \in ConnsOf(x.run) : ~managed[c].live
  /\ CommitRetirement(x)
  /\ DropAuthority(x.session, x.run)
  /\ UNCHANGED <<proposal, phase, late, listed, observed, managed, registry, wire, pi, counters>>

\* purgeRetiredAgentRun: the observed entry of the session goes with the rows
\* that kept it from being shown as an unassigned agent.
PurgeRetiredAgentRun(x) ==
  /\ PurgeRetiredRun(x)
  /\ DropAuthority(x.session, x.run)
  /\ managed' = [c \in Conns |-> IF c \in ConnsOf(x.run) THEN Null ELSE managed[c]]
  /\ observed' = [observed EXCEPT ![x.session] = Null]
  /\ listed' = {p \in listed : proposal[p].session # x.session}
  /\ UNCHANGED <<proposal, phase, late, registry, wire, pi, counters>>

Smaller(m, n) == IF m <= n THEN m ELSE n

\* The process dies and is resumed over its database.  What it had not
\* written to a socket is lost.
CrashGateway ==
  /\ crashes < MaxCrashes
  /\ crashes' = crashes + 1
  /\ \E kept \in 0..MaxFrames :
       toPi' = [c \in Conns |->
         IF c \in serving /\ Reads(c)
         THEN Append(SubSeq(toPi[c], 1, Smaller(kept, Len(toPi[c]))), Closed)
         ELSE toPi[c]]
  /\ phase' = [p \in Proposals |->
       IF phase[p] \in {"proposed", "authorized", "acknowledged"} THEN "failed" ELSE phase[p]]
  /\ listed' = {} /\ contexts' = {}
  /\ observed' = [s \in Sessions |-> Null]
  /\ managed' = [c \in Conns |-> Null] /\ recoveries' = [c \in Conns |-> Null]
  /\ revision' = 0 /\ highWater' = [s \in Sessions |-> 0]
  /\ serving' = {} /\ toGateway' = [c \in Conns |-> <<>>]
  /\ UNCHANGED <<stores, proposal, late, owner, pi, flips>>

-----------------------------------------------------------------------------
(* The extension in the Pi process. *)

\* Frames written to a connection the gateway has lost go nowhere.
Written(c, frames) ==
  IF c \in serving THEN [toGateway EXCEPT ![c] = @ \o frames] ELSE toGateway

Frame(type, n) == [type |-> type, run |-> n]

\* retireConnection: the adapter state of the connection is dropped.
Offline(s) == [pi[s] EXCEPT !.conn = 0, !.rev = 0, !.managed = FALSE, !.ack = Null]

\* failOpen: close the connection, to reconnect later.
FailOpen(s) ==
  LET c == pi[s].conn
  IN /\ pi' = [pi EXCEPT ![s] = Offline(s)]
     /\ toGateway' = Written(c, <<Closed>>)
     /\ toPi' = [toPi EXCEPT ![c] = <<>>]

\* connectSession: a new connection registers at once.
Connect(s) ==
  \E c \in Conns :
    /\ pi[s].alive /\ pi[s].conn = 0
    /\ owner[c] = Null /\ \A k \in 1..(c - 1) : owner[k] # Null
    /\ owner' = [owner EXCEPT ![c] = s]
    /\ serving' = serving \cup {c}
    /\ pi' = [pi EXCEPT ![s] = [@ EXCEPT !.conn = c]]
    /\ toGateway' = [toGateway EXCEPT ![c] = <<[type |-> "register", activity |-> pi[s].activity]>>]
    /\ UNCHANGED <<stores, coordinator, leases, registry, toPi, counters>>

Receives(s, types) ==
  /\ pi[s].conn # 0 /\ toPi[pi[s].conn] # <<>> /\ Head(toPi[pi[s].conn]).type \in types
Received(s) == Head(toPi[pi[s].conn])
Consumed(c) == toPi' = [toPi EXCEPT ![c] = Tail(@)]

ReceiveRegistered(s) ==
  /\ Receives(s, {"registered"})
  /\ Consumed(pi[s].conn)
  /\ pi' = [pi EXCEPT ![s] = [@ EXCEPT !.rev = Received(s).rev]]
  /\ UNCHANGED <<stores, coordinator, leases, registry, serving, owner, toGateway, counters>>

\* A rejection or a closed transport: fail open and reconnect.
ReceiveEnd(s) ==
  /\ Receives(s, {"rejected", "closed"})
  /\ FailOpen(s)
  /\ UNCHANGED <<stores, coordinator, leases, registry, serving, owner, counters>>

\* currentIdentityMatches, already_managed and the activity check.
Refuses(s, request) ==
  \/ request.rev # pi[s].rev
  \/ pi[s].managed
  \/ pi[s].activity # "idle"

AcknowledgedBy_ThisConnection(q, n) == [q EXCEPT !.ack = n]
AcknowledgedBy(q, n) == [q EXCEPT !.ack = n, !.sessionAck = n]

\* sendAcknowledgement.  A new candidate forgets the input seen for an older
\* one, unless the session was already committed.
ReceiveRequest(s) ==
  LET c == pi[s].conn
      n == Received(s).run
      q == IF pi[s].committed = Null /\ pi[s].candidate # n
           THEN [pi[s] EXCEPT !.candidate = n, !.takeover = FALSE] ELSE pi[s]
  IN /\ Receives(s, {"request"})
     /\ Consumed(c)
     /\ IF pi[s].rev = 0 THEN pi' = [pi EXCEPT ![s] = q] /\ UNCHANGED toGateway
        ELSE IF Refuses(s, Received(s))
        THEN pi' = [pi EXCEPT ![s] = q] /\ toGateway' = Written(c, <<Frame("refused", n)>>)
        ELSE pi' = [pi EXCEPT ![s] = AcknowledgedBy(q, n)]
             /\ toGateway' = Written(c, <<Frame("acknowledged", n)>>)
     /\ UNCHANGED <<stores, coordinator, leases, registry, serving, owner, counters>>

\* A challenge is answered only for the commitment this Pi acknowledged.
ReceiveChallenge(s) ==
  LET c == pi[s].conn
      n == Received(s).run
  IN /\ Receives(s, {"challenge"})
     /\ IF pi[s].sessionAck = n
        THEN /\ pi' = [pi EXCEPT ![s] = [@ EXCEPT !.ack = n]]
             /\ toGateway' = Written(c, <<Frame("proof", n)>>)
             /\ Consumed(c)
        ELSE FailOpen(s)
     /\ UNCHANGED <<stores, coordinator, leases, registry, serving, owner, counters>>

Receipts_ForgetsInput(q, n) == <<Frame("ready", n)>>

\* enableManagedBridge reports earlier input before the receipt.
Receipts(q, n) ==
  IF q.takeover THEN <<Frame("takeover", n), Frame("ready", n)>> ELSE <<Frame("ready", n)>>

\* applyCommitted.
ReceiveCommitted(s) ==
  LET c == pi[s].conn
      n == Received(s).run
  IN /\ Receives(s, {"committed"})
     /\ IF pi[s].managed \/ (pi[s].rev = 0 /\ pi[s].ack = Null)
        THEN Consumed(c) /\ UNCHANGED <<pi, toGateway>>
        ELSE IF pi[s].ack # n THEN FailOpen(s)
        ELSE /\ pi' = [pi EXCEPT ![s] = [@ EXCEPT !.managed = TRUE, !.committed = n]]
             /\ toGateway' = Written(c, Receipts(pi[s], n))
             /\ Consumed(c)
     /\ UNCHANGED <<stores, coordinator, leases, registry, serving, owner, counters>>

\* The managed heartbeat repeats the receipt.
HasRoom(c) == Len(toGateway[c]) < MaxFrames
RepeatReady(s) ==
  LET c == pi[s].conn
  IN /\ c # 0 /\ pi[s].managed /\ c \in serving /\ HasRoom(c)
     /\ toGateway' = Written(c, <<Frame("ready", pi[s].committed)>>)
     /\ UNCHANGED <<stores, coordinator, leases, registry, serving, owner, toPi, pi, counters>>

\* Interactive input in the Pi: remembered, and reported when connected.
Input(s) ==
  LET c == pi[s].conn
  IN /\ s \in Attended /\ pi[s].alive /\ (pi[s].committed # Null \/ pi[s].candidate # Null)
     /\ pi' = [pi EXCEPT ![s] = [@ EXCEPT !.takeover = TRUE]]
     /\ IF pi[s].committed = Null \/ c = 0 THEN UNCHANGED toGateway
        ELSE /\ HasRoom(c)
             /\ toGateway' = Written(c, <<Frame("takeover", pi[s].committed)>>)
     /\ UNCHANGED <<stores, coordinator, leases, registry, serving, owner, toPi, counters>>

\* The agent starts or settles; an unmanaged, registered Pi reports it.
ChangeActivity(s) ==
  LET c == pi[s].conn
      next == IF pi[s].activity = "idle" THEN "busy" ELSE "idle"
  IN /\ flips < MaxFlips /\ pi[s].alive
     /\ flips' = flips + 1
     /\ pi' = [pi EXCEPT ![s] = [@ EXCEPT !.activity = next]]
     /\ IF pi[s].rev = 0 \/ pi[s].managed THEN UNCHANGED toGateway
        ELSE toGateway' = Written(c, <<[type |-> "lifecycle", activity |-> next]>>)
     /\ UNCHANGED <<stores, coordinator, leases, registry, serving, owner, toPi, crashes>>

\* The transport fails at the Pi's end.
Disconnect(s) ==
  /\ pi[s].conn # 0
  /\ FailOpen(s)
  /\ UNCHANGED <<stores, coordinator, leases, registry, serving, owner, counters>>

\* session_shutdown.
Quit(s) ==
  /\ s \in Attended /\ pi[s].alive
  /\ pi' = [pi EXCEPT ![s] = [FreshPi EXCEPT !.alive = FALSE]]
  /\ IF pi[s].conn = 0 THEN UNCHANGED <<toGateway, toPi>>
     ELSE /\ toGateway' = Written(pi[s].conn, <<Closed>>)
          /\ toPi' = [toPi EXCEPT ![pi[s].conn] = <<>>]
  /\ UNCHANGED <<stores, coordinator, leases, registry, serving, owner, counters>>

-----------------------------------------------------------------------------
(* Specification. *)

GatewayStep ==
  \/ \E c \in Conns :
       \/ HandleRegister(c) \/ HandleRecoveryProof(c) \/ HandleLifecycle(c)
       \/ HandleAcknowledgement(c) \/ HandleReady(c) \/ HandleTakeover(c) \/ HandleClosed(c)
  \/ \E p \in Proposals : CommitAcknowledged(p) \/ CommitRefused(p)
  \/ Lapse \/ Sweep \/ CrashGateway

UserStep ==
  \/ \E s \in Sessions, r \in Roles : RequestAdoption(s, r)
  \/ \E p \in Proposals : AuthorizeAdoption(p)
  \/ \E x \in adopted \cup replacements : RetireAgentRun(x)
  \/ \E x \in retired : PurgeRetiredAgentRun(x)

PiStep ==
  \E s \in Sessions :
    \/ Connect(s) \/ ReceiveRegistered(s) \/ ReceiveRequest(s) \/ ReceiveChallenge(s)
    \/ ReceiveCommitted(s) \/ ReceiveEnd(s)
    \/ RepeatReady(s) \/ Input(s) \/ ChangeActivity(s) \/ Disconnect(s) \/ Quit(s)

Next == GatewayStep \/ UserStep \/ PiStep

Spec == Init /\ [][Next]_vars

-----------------------------------------------------------------------------
(* Properties. *)

\* The promise of AdoptionContract, read off the rows of both stores.
RetainedRuns ==
  {[run |-> x.run, session |-> x.session, role |-> x.role, predecessor |-> Null,
    retired |-> x.run \in RetiredRuns] : x \in adopted}
  \cup {[run |-> x.run, session |-> x.session, role |-> x.role, predecessor |-> x.predecessor,
         retired |-> x.run \in RetiredRuns] : x \in replacements}

Contract == INSTANCE AdoptionContract
  WITH Runs <- Proposals, NoRun <- Null, runs <- RetainedRuns, purged <- fences

\* The two stores and the checks spread over the coordinator, the runner and
\* the Pi together keep the contract: no Role gets two occupants, no session
\* two runs (replacements are not looked up by binding: only the Pi's
\* already_managed refusal stands in the way), no chain is purged in the middle.
KeepsContract == Contract!Spec

\* Work can be dispatched over a connection.
Dispatchable(c) == managed[c] # Null /\ managed[c].live /\ managed[c].ready

\* The vacancy generation of a Role never falls, purges included: a stale
\* generation stays stale (retirement_vacancies).
VacancyAdvances ==
  [][\A r \in Roles : CurrentVacancyGeneration(r)' >= CurrentVacancyGeneration(r)]_vars

\* A committed run can always be recovered by its own Pi while that lives:
\* the Pi still remembers the acknowledgement a challenge will name, however
\* connections, crashes and lost frames fell (extension-adapter.ts
\* session.lastAcknowledgement).
RecoverableByPi ==
  \A x \in Live(adopted) \cup Live(replacements) :
    pi[x.session].alive => pi[x.session].sessionAck = x.run

\* Input typed into a committed Pi is never forgotten while work could be
\* dispatched to it: the takeover is recorded, or its report is on the way on
\* the connection that holds the lease, or that connection is closed.
TakeoverCarried ==
  \A c \in Conns :
    Dispatchable(c) =>
      LET s == owner[c] IN
        pi[s].takeover /\ pi[s].committed = managed[c].run /\ Reads(c) =>
          \E i \in DOMAIN toGateway[c] : toGateway[c][i] = Frame("takeover", managed[c].run)

\* A lease is exclusive and earned.  At most one connection holds a lease of a
\* run, for recovery takes over from the connections before it; and work can be
\* dispatched over it only if the run is not retired, no takeover of it was ever
\* recorded and the living Pi applied this very commitment (completeRecovery
\* alone is not readiness; live-adoption-runner.ts acceptManagedReady).
LeaseIsEarned ==
  \A c \in Conns :
    /\ \A k \in Conns :
         managed[c] # Null /\ managed[k] # Null /\ managed[c].run = managed[k].run => c = k
    /\ Dispatchable(c) =>
         /\ managed[c].run \notin takeovers /\ ~IsRetired(owner[c])
         /\ pi[owner[c]].alive => pi[owner[c]].committed = managed[c].run

-----------------------------------------------------------------------------
(* What the documents say and the code does not do. *)

\* docs/design/mvp.md:489: a disconnected occupant may be retired and its
\* Role taken by fresh Adoption.  A vacant Role with retired history admits a
\* replacement at its current vacancy.
VacantRoleReplaceable ==
  \A r \in Roles :
    Vacated(r) => ReplacementAdmitted(r, RetirementVacancy(r))

=============================================================================
