---------------------------- MODULE AgentConsole ----------------------------
(***************************************************************************)
(* The Agent Console of prototypes/first-vertical-slice: the controller    *)
(* process (runLiveProjection of manual/live-companion-omarchy.ts) with    *)
(* its ProjectionSessionManager (companion/projection-session.ts), the     *)
(* LiveProjectionAdapter and AgentConsoleProjection (console/) it drives,  *)
(* and the panel (console/plugin/AgentConsole.qml) behind the Omarchy      *)
(* shell.                                                                  *)
(*                                                                         *)
(* The process is one event loop: a callback with the microtasks it causes *)
(* is one action.  Calls of the shell port are asynchronous (it may answer *)
(* with a promise) and run one after the other; publications and polls     *)
(* wait for each other in a chain of their own.  The controller runs one   *)
(* command at a time, and connection attempts end in the order they began, *)
(* so an attempt that outlives its session finds an empty projection and   *)
(* changes nothing.                                                        *)
(***************************************************************************)
EXTENDS Naturals, Sequences, FiniteSets, SequencesExt

CONSTANTS
  MaxEvents,          \* bound: committed events of the Team Runner
  MaxSessions,        \* bound: Projection Sessions of the controller
  PanelQueue,         \* how many presentation intents the panel keeps
  Budget              \* bound: how often each thing outside may happen

Kinds == {"loss", "connect", "shell", "reload", "replace", "press", "all"}
ASSUME BoundsAssumption ==
  /\ MaxEvents \in Nat \ {0} /\ MaxSessions \in Nat \ {0} /\ PanelQueue \in Nat \ {0}
  /\ Budget \in [Kinds -> Nat]

VARIABLES
  runner,   \* the Team Runner: its cursor and the Agent Runs of its team
  console,  \* the controller process
  panel,    \* the plugin inside the shell
  budget    \* what is left of Budget

consoleVars == <<runner, console, panel, budget>>

Spend(what) ==
  /\ budget[what] > 0 /\ budget["all"] > 0
  /\ budget' = [budget EXCEPT ![what] = @ - 1, !["all"] = @ - 1]

NoSession == [id |-> 0, gen |-> 0]
\* A handoff: its cards are the ones of the snapshot at cursor "cards".
Handoff(status, cursor, cards, team) ==
  [status |-> status, cursor |-> cursor, cards |-> cards, team |-> team]
NoHandoff == Handoff("none", 0, 0, 0)
NoConnection ==
  [stage |-> "none", mode |-> "initial", paged |-> FALSE, from |-> 0, frames |-> <<>>,
   served |-> FALSE, eof |-> FALSE, asked |-> {}]
NoIntent == <<0, 0>>

-----------------------------------------------------------------------------
(* The chains of the manager. *)

Call(k, kind, session, handoff, intent) ==
  [k EXCEPT !.shell = Append(@,
     [kind |-> kind, session |-> session, handoff |-> handoff, intent |-> intent])]

\* The first item of the chain starts: a poll asks the panel, a publication
\* summons it once and later only applies the handoff.
StartFirst(k) ==
  IF k.chain = <<>> THEN k
  ELSE LET item == Head(k.chain)
       IN Call(k, CASE item.kind = "poll" -> "take"
                    [] item.kind = "publish" /\ k.summoned -> "apply"
                    [] OTHER -> "summon",
               item.session, item.handoff, NoIntent)

FinishFirst(k) ==
  StartFirst([k EXCEPT !.chain = Tail(@), !.wait = IF @ = 0 THEN 0 ELSE @ - 1])

Chained(k, item) ==
  LET next == [k EXCEPT !.chain = Append(@, item)]
  IN IF k.chain = <<>> THEN StartFirst(next) ELSE next

Publish(k) ==
  IF k.proj.status = "none" THEN k
  ELSE Chained(k, [kind |-> "publish", session |-> k.active, handoff |-> k.proj])

IsPoll(item) == item.kind = "poll"
Polling(k) == \E i \in DOMAIN k.chain : IsPoll(k.chain[i])

\* The commands of the controller end here: the finally block stops polling,
\* then hides.
Finally(k) == [k EXCEPT !.cmd = "quit", !.polling = FALSE, !.pc = "pollwait"]

EndSession_AdapterLeft(k) ==
  [k EXCEPT !.active = NoSession, !.proj = NoHandoff, !.pending = {}, !.completed = {},
            !.phase = "ended"]
\* Publications of the session that have not started yet return at once; only
\* the poll (there is one at a time) stays behind the item in progress.
EndSession(k) ==
  LET polls == {i \in 2 .. Len(k.chain) : IsPoll(k.chain[i])}
      kept == IF k.chain = <<>> THEN <<>>
              ELSE IF polls = {} THEN <<Head(k.chain)>>
              ELSE <<Head(k.chain), k.chain[CHOOSE i \in polls : TRUE]>>
  IN [k EXCEPT !.conn = NoConnection, !.active = NoSession, !.proj = NoHandoff,
               !.pending = {}, !.completed = {}, !.phase = "ended", !.chain = kept,
               !.wait = IF @ > Len(kept) THEN Len(kept) ELSE @]

\* open() that waits for its gate is rejected and with it the controller.
FailSession_GateLeft(k) == IF k.phase \in {"opening", "active"} THEN EndSession(k) ELSE k
FailSession(k) ==
  IF k.phase \notin {"opening", "active"} THEN k
  ELSE IF k.pc = "gate" THEN Finally(EndSession(k)) ELSE EndSession(k)

-----------------------------------------------------------------------------
(* The projection core and the adapter's connection. *)

EnterGap_Unpublished(k) ==
  IF k.proj.status = "none" THEN k ELSE [k EXCEPT !.proj.status = "gap"]
EnterGap(k) ==
  IF k.proj.status = "none" THEN k ELSE Publish([k EXCEPT !.proj.status = "gap"])

ReplaceConnection(k, mode) ==
  [k EXCEPT !.conn = [NoConnection EXCEPT !.stage = "connecting", !.mode = mode,
                                          !.from = IF mode = "resume" THEN k.proj.cursor ELSE 0]]

\* The connection closed or was rejected: before a snapshot the session fails;
\* after one the projection has a gap and one recovery is tried.
Lost(k) ==
  IF k.proj.status = "none" THEN FailSession(k)
  ELSE IF k.conn.mode = "recover" THEN [EnterGap(k) EXCEPT !.conn = NoConnection]
  ELSE ReplaceConnection(EnterGap(k), "recover")

\* acceptEvent: the next sequence only.
Follows(p, n) == p.status # "none" /\ n = p.cursor + 1
Accepted(p, n) == Handoff("reconnecting", n, p.cards, p.team)

\* initialize, resnapshot and recover, by the mode of the connection.
Initializes(p, f) == p.status = "none"
Resnapshots(p, f) == p.status = "reconnecting" /\ f.team = p.team /\ f.to = p.cursor
Recovers(p, f) == p.status = "gap" /\ f.team = p.team /\ f.to >= p.cursor
AcceptsSnapshot(k, f) ==
  CASE k.conn.mode = "initial" -> Initializes(k.proj, f)
    [] k.conn.mode = "resume" -> k.conn.paged /\ Resnapshots(k.proj, f)
    [] k.conn.mode = "recover" -> Recovers(k.proj, f)

TakeSnapshot(k, f) ==
  IF ~AcceptsSnapshot(k, f) THEN Lost(k)
  ELSE Publish([k EXCEPT !.conn.stage = "live",
                         !.proj = Handoff("ready", f.to, f.to, f.team)])

TakePage(k, f) ==
  IF f.from # k.proj.cursor THEN Lost(k)
  ELSE [k EXCEPT !.conn.paged = TRUE,
                 !.proj = IF f.to = f.from THEN @ ELSE Accepted(@, f.to)]

TakeEvent(k, f) ==
  IF ~Follows(k.proj, f.to) THEN Lost(k)
  ELSE ReplaceConnection(Publish([k EXCEPT !.proj = Accepted(@, f.to)]), "resume")

\* The acknowledgement of a pending intent goes to the panel.
OnIntentAck(k, i) ==
  IF i \notin k.pending THEN k
  ELSE Call([k EXCEPT !.pending = @ \ {i}, !.completed = @ \cup {i}],
            "result", k.active, NoHandoff, i)

AcceptFrame(k, f) ==
  CASE k.conn.stage = "hello" ->
         IF f.kind = "hello_ack" THEN [k EXCEPT !.conn.stage = "open"] ELSE Lost(k)
    [] k.conn.stage # "hello" /\ f.kind = "intent_ack" -> OnIntentAck(k, f.intent)
    [] k.conn.stage = "open" /\ f.kind = "event_page" /\ k.conn.mode = "resume" -> TakePage(k, f)
    [] k.conn.stage = "open" /\ f.kind = "snapshot" -> TakeSnapshot(k, f)
    [] k.conn.stage = "live" /\ f.kind = "event" -> TakeEvent(k, f)
    [] OTHER -> Lost(k)

\* replaceConnection once connect() has answered: hello is sent at once.
ConnectSucceeds ==
  /\ console.conn.stage = "connecting"
  /\ console' = [console EXCEPT !.conn.stage = "hello",
                                !.pc = IF @ = "connect" THEN "gate" ELSE @]
  /\ UNCHANGED <<runner, panel, budget>>

\* start() throws out of open(); a detached replacement leaves the gap.
ConnectFails ==
  /\ console.conn.stage = "connecting" /\ Spend("connect")
  /\ console' = IF console.pc = "connect" THEN Finally(FailSession(console))
                ELSE [EnterGap(console) EXCEPT !.conn = NoConnection]
  /\ UNCHANGED <<runner, panel>>

ReceiveFrame ==
  /\ console.conn.frames # <<>>
  /\ console' = AcceptFrame([console EXCEPT !.conn.frames = Tail(@)], Head(console.conn.frames))
  /\ UNCHANGED <<runner, panel, budget>>

ConnectionClosed ==
  /\ console.conn.eof /\ console.conn.frames = <<>>
  /\ console' = Lost(console)
  /\ UNCHANGED <<runner, panel, budget>>

-----------------------------------------------------------------------------
(* The Team Runner's end of the connection. *)

Frame(kind, from, to, intent) ==
  [kind |-> kind, from |-> from, to |-> to, team |-> runner.team, intent |-> intent]

\* handleProjectionHello: acknowledgement, pages, snapshot in one step; a cursor
\* above the runner's is refused and the connection closed.
Pages(from, to) ==
  IF from = to THEN <<Frame("event_page", from, to, NoIntent)>>
  ELSE [i \in 1 .. (to - from + 1) \div 2 |->
          Frame("event_page", from + 2 * (i - 1),
                IF from + 2 * i > to THEN to ELSE from + 2 * i, NoIntent)]

ServeHello ==
  LET c == console.conn
      refused == c.mode = "resume" /\ c.from > runner.cursor
  IN /\ c.stage = "hello" /\ ~c.served /\ ~c.eof
     /\ console' = [console EXCEPT !.conn.served = TRUE, !.conn.eof = refused,
          !.conn.frames =
            IF refused THEN <<Frame("protocol_error", 0, 0, NoIntent)>>
            ELSE <<Frame("hello_ack", 0, 0, NoIntent)>>
                 \o (IF c.mode = "resume" THEN Pages(c.from, runner.cursor) ELSE <<>>)
                 \o <<Frame("snapshot", runner.cursor, runner.cursor, NoIntent)>>]
     /\ UNCHANGED <<runner, panel, budget>>

Streaming == console.conn.served /\ ~console.conn.eof

CommitEvent ==
  /\ runner.cursor < MaxEvents
  /\ runner' = [runner EXCEPT !.cursor = @ + 1]
  /\ console' = IF Streaming
                THEN [console EXCEPT !.conn.frames =
                        Append(@, Frame("event", runner.cursor, runner.cursor + 1, NoIntent))]
                ELSE console
  /\ UNCHANGED <<panel, budget>>

RunnerAcknowledges(i) ==
  /\ Streaming /\ i \in console.conn.asked
  /\ console' = [console EXCEPT !.conn.asked = @ \ {i},
                                !.conn.frames = Append(@, Frame("intent_ack", 0, 0, i))]
  /\ UNCHANGED <<runner, panel, budget>>

\* What the runner had written before the connection broke may still arrive.
Broken(k) ==
  \E n \in 0 .. Len(k.conn.frames) :
    console' = [k EXCEPT !.conn.frames = SubSeq(@, 1, n), !.conn.eof = TRUE]

LoseConnection ==
  /\ console.conn.stage \in {"hello", "open", "live"} /\ ~console.conn.eof
  /\ Spend("loss") /\ Broken(console)
  /\ UNCHANGED <<runner, panel>>

\* The runner is started again from a fresh state directory: the bootstrap
\* names the same Agent Runs or other ones, and its log has one event.
ReplaceRunner ==
  /\ Spend("replace")
  /\ \E team \in {runner.team, runner.team + 1} : runner' = [cursor |-> 1, team |-> team]
  /\ IF console.conn.stage \in {"hello", "open", "live"} THEN Broken(console)
     ELSE UNCHANGED console
  /\ UNCHANGED panel

-----------------------------------------------------------------------------
(* The panel. *)

EmptyPanel(gen) ==
  [opened |-> FALSE, session |-> NoSession, gen |-> gen, shown |-> NoHandoff,
   intents |-> <<>>, count |-> 0]

SessionMatches(p, s) == p.session # NoSession /\ p.session = s

\* open(): a summon of another plugin generation shows nothing.
PanelOpen(p, op) ==
  [p EXCEPT !.opened = TRUE, !.session = op.session, !.shown = op.handoff,
            !.intents = <<>>, !.count = 0]
PanelClose(p) ==
  [p EXCEPT !.opened = FALSE, !.session = NoSession, !.shown = NoHandoff, !.intents = <<>>]
PanelClear_KeepsSession(p) == [p EXCEPT !.shown = NoHandoff, !.intents = <<>>]
PanelClear(p) == [p EXCEPT !.session = NoSession, !.shown = NoHandoff, !.intents = <<>>]

Refuses(p, op) ==
  CASE op.kind = "summon" -> op.session.gen # p.gen
    [] op.kind \in {"apply", "result", "clear"} -> ~SessionMatches(p, op.session)
    [] op.kind \in {"capabilities", "take", "hide"} -> FALSE

Shows(p, op) ==
  IF Refuses(p, op) THEN p
  ELSE CASE op.kind = "summon" -> PanelOpen(p, op)
         [] op.kind = "apply" -> [p EXCEPT !.shown = op.handoff]
         [] op.kind = "hide" -> PanelClose(p)
         [] op.kind = "clear" -> PanelClear(p)
         [] op.kind = "take" /\ SessionMatches(p, op.session) /\ p.intents # <<>> ->
              [p EXCEPT !.intents = Tail(@)]
         [] OTHER -> p

\* takeIntent's answer.
Taken(p, op) ==
  IF SessionMatches(p, op.session) /\ p.intents # <<>> THEN Head(p.intents) ELSE NoIntent

\* A click on a card; the queue is bounded, its overflow is dropped.
RequestPresent ==
  /\ panel.session # NoSession /\ Spend("press")
  /\ panel' = [panel EXCEPT !.count = @ + 1,
       !.intents = IF Len(@) >= PanelQueue THEN @
                   ELSE Append(@, <<panel.session.id, panel.count + 1>>)]
  /\ UNCHANGED <<runner, console>>

\* The shell loads the plugin again: a new generation with nothing in it.
ReloadPlugin ==
  /\ Spend("reload")
  /\ panel' = EmptyPanel(panel.gen + 1)
  /\ UNCHANGED <<runner, console>>

-----------------------------------------------------------------------------
(* The manager: continuations of the shell calls. *)

\* open() after the capabilities: a new identity, and the adapter connects.
Allocate(k, gen) ==
  LET s == [id |-> k.ids + 1, gen |-> gen]
  IN ReplaceConnection(
       [k EXCEPT !.ids = @ + 1, !.active = s, !.last = s, !.phase = "opening",
                 !.summoned = FALSE, !.hidden = FALSE, !.completed = {},
                 !.proj = NoHandoff, !.pc = "connect"], "initial")

\* The first applied handoff opens the gate; the controller starts polling.
OpenGate(k) ==
  IF k.pc # "gate" THEN k
  ELSE [k EXCEPT !.phase = "active", !.pc = "loop", !.polling = TRUE]

\* sendIntent: refused by the manager, refused by the connection, or sent.  A
\* connection of the live connector refuses every intent, because the encoder of
\* the runner protocol knows no projection.intent frame (live-projection-adapter.ts:165).
SendIntent(k, s, i) ==
  CASE k.phase # "active" -> k
    [] k.phase = "active" /\
       (k.proj.status # "ready" \/ i \in k.pending \cup k.completed
        \/ k.conn.stage # "live" \/ ~k.carries) ->
         Call(k, "result", s, NoHandoff, i)
    [] OTHER -> [k EXCEPT !.pending = @ \cup {i}, !.conn.asked = @ \cup {i}]

\* hide() has returned, or was not needed.
AfterHide(k) ==
  CASE k.cmd = "hide" -> [k EXCEPT !.pc = "loop"]
    [] k.cmd = "reload" -> Call([k EXCEPT !.pc = "discover"], "capabilities", NoSession, NoHandoff, NoIntent)
    [] k.cmd = "quit" -> [k EXCEPT !.pc = "exited"]

Ended(k) == IF k.phase \in {"opening", "active"} THEN EndSession(k) ELSE k

Succeeded(k, op, answer) ==
  CASE op.kind = "capabilities" -> Allocate(k, panel.gen)
    [] op.kind = "summon" ->
         Call([k EXCEPT !.summoned = TRUE], "apply", op.session, op.handoff, NoIntent)
    [] op.kind = "apply" -> FinishFirst(OpenGate(k))
    [] op.kind = "take" ->
         FinishFirst(IF answer = NoIntent THEN k ELSE SendIntent(k, op.session, answer))
    [] op.kind = "result" -> k
    [] op.kind = "hide" -> AfterHide(Ended(k))
    [] op.kind = "clear" -> [Ended(k) EXCEPT !.pc = "loop"]

Failed(k, op) ==
  CASE op.kind = "capabilities" -> Finally(k)
    [] op.kind \in {"summon", "apply"} -> FinishFirst(FailSession(k))
    [] op.kind = "take" -> FinishFirst([FailSession(k) EXCEPT !.failed = TRUE])
    [] op.kind = "result" -> FailSession(k)
    [] op.kind = "hide" ->
         LET ended == [Ended(k) EXCEPT !.unhidden = TRUE]
         IN IF k.cmd = "quit" THEN [ended EXCEPT !.pc = "exited"] ELSE Finally(ended)
    [] op.kind = "clear" -> Finally(FailSession(k))

Rest(k) == [k EXCEPT !.shell = Tail(@)]

\* The shell runs the first call and its answer comes back.
ShellAnswers ==
  /\ console.shell # <<>>
  /\ LET op == Head(console.shell)
     IN /\ panel' = Shows(panel, op)
        /\ console' = IF Refuses(panel, op) THEN Failed(Rest(console), op)
                      ELSE Succeeded(Rest(console), op, Taken(panel, op))
  /\ UNCHANGED <<runner, budget>>

\* The command fails or times out, before or after it took effect.
ShellFails ==
  /\ console.shell # <<>> /\ Spend("shell")
  /\ LET op == Head(console.shell)
     IN /\ panel' \in {panel, Shows(panel, op)}
        /\ console' = Failed(Rest(console), op)
  /\ UNCHANGED runner

-----------------------------------------------------------------------------
(* The controller. *)

\* The timer: one poll at a time; polling a session that is gone ends the loop.
PollPresentationIntent ==
  /\ console.polling /\ ~Polling(console) /\ ~console.failed
  /\ console' = IF console.phase = "active"
                THEN Chained(console, [kind |-> "poll", session |-> console.active,
                                       handoff |-> NoHandoff])
                ELSE [console EXCEPT !.failed = TRUE]
  /\ UNCHANGED <<runner, panel, budget>>

\* The next command of the control socket: polling stops first.
Command(c) ==
  /\ console.pc = "loop" /\ ~console.failed
  /\ c = "reload" => console.ids < MaxSessions
  /\ console' = [console EXCEPT !.cmd = c, !.polling = FALSE, !.pc = "pollwait"]
  /\ UNCHANGED <<runner, panel, budget>>

CommandsFail ==
  /\ console.pc = "loop" /\ console.failed
  /\ console' = Finally(console)
  /\ UNCHANGED <<runner, panel, budget>>

\* The poll in flight has ended: hide() and clear() await the chain as it is now.
PollingStopped ==
  /\ console.pc = "pollwait" /\ ~Polling(console)
  /\ console' = IF console.cmd # "clear" /\ console.hidden THEN AfterHide(console)
                ELSE [console EXCEPT !.pc = "drain", !.wait = Len(console.chain),
                                     !.target = IF console.cmd = "clear" THEN console.active
                                                ELSE NoSession]
  /\ UNCHANGED <<runner, panel, budget>>

\* The rescan in front of a reload fails.
RescanFails ==
  /\ console.pc = "pollwait" /\ ~Polling(console) /\ console.cmd = "reload" /\ Spend("shell")
  /\ console' = Finally(console)
  /\ UNCHANGED <<runner, panel>>

\* hide() asks for the active session or else the last one; clear() for the
\* session it found.
ChainDrained ==
  LET k == console
      s == IF k.cmd = "clear" THEN k.target
           ELSE IF k.active # NoSession THEN k.active ELSE k.last
      hiding == [k EXCEPT !.hidden = k.cmd # "clear" \/ @, !.pc = "op"]
  IN /\ k.pc = "drain" /\ k.wait = 0
     /\ console' = CASE s # NoSession ->
                          Call(hiding, IF k.cmd = "clear" THEN "clear" ELSE "hide", s, NoHandoff, NoIntent)
                     [] s = NoSession /\ k.cmd = "clear" -> [Ended(k) EXCEPT !.pc = "loop"]
                     [] OTHER -> AfterHide(Ended(hiding))
     /\ UNCHANGED <<runner, panel, budget>>

-----------------------------------------------------------------------------
(* The specification. *)

ConsoleInit ==
  /\ runner = [cursor |-> 1, team |-> 1]
  /\ panel = EmptyPanel(1)
  /\ budget = Budget
  /\ \E carries \in BOOLEAN : console =
       [carries |-> carries, phase |-> "idle", active |-> NoSession, last |-> NoSession, ids |-> 0,
        hidden |-> FALSE, summoned |-> FALSE, pending |-> {}, completed |-> {},
        chain |-> <<>>,
        shell |-> <<[kind |-> "capabilities", session |-> NoSession,
                     handoff |-> NoHandoff, intent |-> NoIntent]>>,
        conn |-> NoConnection, proj |-> NoHandoff, pc |-> "discover", cmd |-> "open",
        polling |-> FALSE, failed |-> FALSE, wait |-> 0, target |-> NoSession,
        unhidden |-> FALSE]

Adapter == ConnectSucceeds \/ ReceiveFrame \/ ConnectionClosed
Controller == CommandsFail \/ PollingStopped \/ ChainDrained

ConsoleNext ==
  \/ Adapter \/ ConnectFails \/ ServeHello \/ CommitEvent \/ LoseConnection \/ ReplaceRunner
  \/ \E i \in console.conn.asked : RunnerAcknowledges(i)
  \/ RequestPresent \/ ReloadPlugin \/ ShellAnswers \/ ShellFails
  \/ PollPresentationIntent \/ Controller \/ RescanFails
  \/ \E c \in {"hide", "clear", "reload", "quit"} : Command(c)

ConsoleSpec == ConsoleInit /\ [][ConsoleNext]_consoleVars

\* The event loop keeps running callbacks, the shell answers, and the runner
\* answers a hello; nothing is assumed of clicks, commands and faults.
FairConsoleSpec ==
  /\ ConsoleSpec
  /\ WF_consoleVars(Adapter) /\ WF_consoleVars(ServeHello)
  /\ WF_consoleVars(ShellAnswers)
  /\ WF_consoleVars(Controller) /\ WF_consoleVars(PollPresentationIntent)

-----------------------------------------------------------------------------
(* Properties. *)

Statuses == {"none", "ready", "reconnecting", "gap"}
OnlyWhileActive ==
  console.active = NoSession =>
    /\ console.conn = NoConnection /\ console.proj = NoHandoff /\ console.pending = {}

\* The process: an ended session leaves no connection, no projection and no
\* pending intent behind (endSession of projection-session.ts).
ConsoleTypeOK ==
  /\ runner.cursor \in 0 .. MaxEvents /\ runner.team \in 1 .. Budget.replace + 1
  /\ console.proj.status \in Statuses /\ panel.shown.status \in Statuses
  /\ console.phase \in {"idle", "opening", "active", "ended"}
  /\ console.pc \in {"discover", "connect", "gate", "loop", "pollwait", "drain", "op", "exited"}
  /\ (console.active # NoSession) = (console.phase \in {"opening", "active"})
  /\ Len(panel.intents) <= PanelQueue
  /\ OnlyWhileActive

\* When every publication and every call has been answered, the panel of the
\* session shows exactly the projection; only the cursor of a replayed page is
\* shown with the snapshot that follows it.
PanelAgrees ==
  console.chain = <<>> /\ console.shell = <<>> /\ panel.session # NoSession
    /\ panel.session = console.active =>
    /\ panel.shown.status = console.proj.status /\ panel.shown.cards = console.proj.cards
    /\ ~console.conn.paged => panel.shown.cursor = console.proj.cursor

\* After a hide, or the clear of a session, nothing brings the session back, and
\* a controller none of whose hides failed leaves no open panel
\* (projection-session.ts, hide() and clear()).
HiddenStaysHidden ==
  /\ console.pc = "loop" /\ ~console.polling /\ (console.hidden \/ console.target # NoSession)
       => panel.session = NoSession
  /\ console.pc = "exited" /\ ~console.unhidden => ~panel.opened

\* open, hide, clear, reload and the final hide all come to an end.
Settles == (console.pc \notin {"loop", "exited"}) ~> (console.pc \in {"loop", "exited"})

=============================================================================
