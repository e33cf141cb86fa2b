------------------------------- MODULE Broker -------------------------------
(***************************************************************************)
(* The broker of packages/opencode-browser/src/broker.ts: it routes the    *)
(* commands of agents (OpenCode, MCP servers) to executors (the extensions *)
(* of browsers) by the ownership of named tab groups.                      *)
(*                                                                         *)
(* The broker is single-threaded and each of its handlers runs to its end  *)
(* without awaiting: one action each.  What interleaves are the messages:  *)
(* a browser drops its socket and dials again before the broker has seen   *)
(* the old one close, results cross with timeouts, agents come and go.     *)
(*                                                                         *)
(* Commands differ in what routing tells apart: "group" is an action on a  *)
(* group (an open may create it), "cookies" has none, "tabs" is the        *)
(* broker's own query (aggregateTabs), and "rebuild" the query whose       *)
(* answer restores ownership.  Frames nobody keeps state about (ready,     *)
(* ping, event, cancel, release, the answer to targets) are left out.      *)
(***************************************************************************)
EXTENDS Integers, FiniteSets

CONSTANTS
  Browsers,     \* executors, by their stable id
  Agents,       \* producers of commands
  Locals,       \* those in the broker's own process: they have no socket
  Groups,       \* named tab groups
  Conns,        \* sockets a browser dials (bound: how many exist at once)
  Reqs,         \* command ids (bound: how many are in flight at once)
  Nobody        \* null

ASSUME LocalsAssumption == Locals \subseteq Agents
ASSUME NobodyAssumption == Nobody \notin Browsers \cup Agents \cup Conns \cup Groups

VARIABLES
  executors, executorById, agents, groupOwner, pending, primaryExecutorId, started,
  socket,       \* the sockets browsers dial
  ws,           \* each browser's current socket (BridgeClient.ws)
  tabs,         \* the groups each browser has tabs in
  wire,         \* how far each command is on its way to the browser and back
  released,     \* history: commands in flight whose agent has released its groups
  stranded      \* history: commands in flight whose socket was replaced

brokerVars == <<executors, executorById, agents, groupOwner, pending,
                primaryExecutorId, started, released, stranded>>
browserVars == <<socket, ws, tabs>>
vars == <<brokerVars, browserVars, wire>>

BrokerItself == "broker"              \* the agent id of the broker's own queries
ASSUME BrokerAssumption == BrokerItself \notin Agents \cup {Nobody}

NoOwner == [executorId |-> Nobody, agentId |-> Nobody]
Owned   == [executorId : Browsers, agentId : Agents \cup {Nobody}]

Actions == {"group", "cookies", "tabs", "rebuild"}
NoCommand == [agentId |-> Nobody, executorId |-> Nobody, action |-> "tabs", group |-> Nobody]
Commands  == [agentId : Agents \cup {BrokerItself}, executorId : Browsers, action : Actions,
              group : Groups \cup {Nobody}]

NoSocket == [by |-> Nobody, greeted |-> FALSE, alive |-> FALSE, closing |-> FALSE]
Sockets  == [by : Browsers, greeted : BOOLEAN, alive : BOOLEAN, closing : BOOLEAN]

\* The frame of a command, and how far it is.  "sent": not yet at the browser,
\* "running": being carried out there, "replied": the result is on its way, with
\* what a rebuild saw, "lost": the result was sent over a socket that is gone.
Idle  == [at |-> "none", over |-> Nobody, to |-> Nobody, group |-> Nobody, saw |-> {}]
Wires == [at : {"sent", "running", "replied", "lost"}, over : Conns \cup {Nobody},
          to : Browsers, group : Groups \cup {Nobody}, saw : SUBSET Groups]

Live      == agents \cup Locals
Pending   == {r \in Reqs : pending[r] # NoCommand}
Connected == {b \in Browsers : executorById[b] # Nobody}
Free      == {r \in Reqs : pending[r] = NoCommand /\ wire[r] = Idle}

Init ==
  /\ executors = [c \in Conns |-> Nobody]
  /\ executorById = [b \in Browsers |-> Nobody]
  /\ agents = {}
  /\ groupOwner = [g \in Groups |-> NoOwner]
  /\ pending = [r \in Reqs |-> NoCommand]
  /\ primaryExecutorId = Nobody
  /\ started = TRUE
  /\ socket = [c \in Conns |-> NoSocket]
  /\ ws = [b \in Browsers |-> Nobody]
  /\ tabs \in [Browsers -> SUBSET Groups]
  /\ wire = [r \in Reqs |-> Idle]
  /\ released = {}
  /\ stranded = {}

-----------------------------------------------------------------------------
(* Sending to an executor, and settling.                                   *)

\* sendToExecutor over socket c of browser b, under the id r.
SendToExecutor(r, a, b, c, action, g) ==
  /\ r \in Free
  /\ pending' = [pending EXCEPT ![r] = [agentId |-> a, executorId |-> b, action |-> action,
                                        group |-> g]]
  /\ wire' = [wire EXCEPT ![r] = [at |-> "sent", over |-> c, to |-> b, group |-> g,
                                  saw |-> {}]]

\* The commands in set R are taken out of pending: clearPending.
Clear(R) ==
  /\ pending' = [r \in Reqs |-> IF r \in R THEN NoCommand ELSE pending[r]]
  /\ released' = released \ R
  /\ stranded' = stranded \ R

-----------------------------------------------------------------------------
(* Executors.                                                              *)

\* A mutation of Register: the prior connection is not forgotten.
RegisterBesidePrior(c, b) == [executors EXCEPT ![c] = b]

\* executors after a hello of browser b on socket c: a stale connection that
\* carries the same id is forgotten.
Register(c, b) ==
  [d \in Conns |-> IF d = c THEN b
                   ELSE IF d = executorById[b] THEN Nobody ELSE executors[d]]

\* The commands that are pending at executor b.
PendingAt(b) == {r \in Pending : pending[r].executorId = b}

\* handleHello of a browser with a good token, with the first part of
\* rebuildFromExecutor.  Pending commands and groups of a prior connection stay.
HelloExtension(c, r) ==
  LET b == socket[c].by
      prior == executorById[b] IN
  /\ socket[c] # NoSocket
  /\ ~socket[c].greeted
  /\ executors' = Register(c, b)
  /\ executorById' = [executorById EXCEPT ![b] = c]
  /\ primaryExecutorId' = IF primaryExecutorId \in Connected THEN primaryExecutorId ELSE b
  /\ socket' = [d \in Conns |-> IF d = c THEN [socket[c] EXCEPT !.greeted = TRUE]
                                ELSE IF d = prior THEN [socket[d] EXCEPT !.closing = TRUE]
                                ELSE socket[d]]
  /\ SendToExecutor(r, BrokerItself, b, c, "rebuild", Nobody)
  /\ stranded' = stranded \cup PendingAt(b)
  /\ UNCHANGED <<agents, groupOwner, started, released, ws, tabs>>

\* A mutation of RejectGone: the executor's commands are left to their timers.
RejectNothing(b) == Clear({})

\* The executor's commands are rejected with its connection.
RejectGone(b) == Clear(PendingAt(b))

\* A mutation of GroupsWithout: a group forgets its executor, not its agent.
GroupsUnhomed(b) ==
  [g \in Groups |-> IF groupOwner[g].executorId = b
                    THEN [groupOwner[g] EXCEPT !.executorId = Nobody] ELSE groupOwner[g]]

\* The groups of executor b are dropped with it.
GroupsWithout(b) ==
  [g \in Groups |-> IF groupOwner[g].executorId = b THEN NoOwner ELSE groupOwner[g]]

\* onClose of a socket that carries an executor.  The primary is then the first
\* executor in the map's order: any.
ExecutorCloses(c) ==
  LET b == executors[c] IN
  /\ b # Nobody
  /\ executors' = [executors EXCEPT ![c] = Nobody]
  /\ IF executorById[b] = c
     THEN /\ executorById' = [executorById EXCEPT ![b] = Nobody]
          /\ groupOwner' = GroupsWithout(b)
          /\ RejectGone(b)
     ELSE UNCHANGED <<executorById, groupOwner, pending, released, stranded>>
  /\ IF primaryExecutorId = b
     THEN \/ primaryExecutorId' \in {d \in Browsers : executorById'[d] # Nobody}
          \/ /\ \A d \in Browsers : executorById'[d] = Nobody
             /\ primaryExecutorId' = Nobody
     ELSE UNCHANGED primaryExecutorId
  /\ UNCHANGED <<agents, started>>

\* The broker sees socket c close.  What was on its way over it is lost, but for
\* what the browser is still carrying out.
SocketCloses(c) ==
  /\ socket[c].greeted
  /\ ~socket[c].alive \/ socket[c].closing
  /\ \/ ExecutorCloses(c)
     \/ executors[c] = Nobody /\ UNCHANGED brokerVars
  /\ socket' = [socket EXCEPT ![c] = NoSocket]
  /\ ws' = [b \in Browsers |-> IF ws[b] = c THEN Nobody ELSE ws[b]]
  /\ wire' = [r \in Reqs |-> IF wire[r].over # c THEN wire[r]
                             ELSE IF wire[r].at = "running" THEN [wire[r] EXCEPT !.over = Nobody]
                             ELSE Idle]
  /\ UNCHANGED <<tabs>>

\* Any executor's result settles the pending command with its id; a result over
\* a socket that carries no executor (any more), or for no pending command, is
\* dropped.
Settles(r) == executors[wire[r].over] # Nobody /\ r \in Pending

\* A mutation of Rebuilt: groups that have an owner are taken over as well.
RebuiltOverOwners(b, seen) ==
  [g \in Groups |-> IF g \in seen THEN [executorId |-> b, agentId |-> Nobody] ELSE groupOwner[g]]

\* The groups a browser reports come back without an agent, unless known.
Rebuilt(b, seen) ==
  [g \in Groups |-> IF g \in seen /\ groupOwner[g] = NoOwner
                    THEN [executorId |-> b, agentId |-> Nobody] ELSE groupOwner[g]]

\* onMessage of a result: handleResult, with the continuation of
\* rebuildFromExecutor, which runs before the next message (an error leaves the
\* owners as they are).
HandleResult(r) ==
  /\ wire[r].at = "replied"
  /\ wire' = [wire EXCEPT ![r] = Idle]
  /\ IF Settles(r)
     THEN /\ Clear({r})
          /\ \/ /\ pending[r].action = "rebuild"
                /\ groupOwner' = Rebuilt(pending[r].executorId, wire[r].saw)
             \/ UNCHANGED groupOwner
     ELSE UNCHANGED <<pending, released, stranded, groupOwner>>
  /\ UNCHANGED <<executors, executorById, agents, primaryExecutorId, started, browserVars>>

-----------------------------------------------------------------------------
(* Agents.                                                                 *)

\* handleHello of an agent: its id is new.
HelloAgent(a) ==
  /\ started
  /\ a \notin Live
  /\ agents' = agents \cup {a}
  /\ UNCHANGED <<executors, executorById, groupOwner, pending, primaryExecutorId, started,
                 released, stranded, browserVars, wire>>

\* pickExecutor: the target, or the primary, or any (there is always a primary).
PickExecutor(b) == b \in Connected

\* A mutation of MayDrive: who owns the group is not looked at.
AnybodyMayDrive(a, g) == TRUE

\* resolveExecutor lets agent a drive group g: it owns it, or nobody does.
MayDrive(a, g) == groupOwner[g].agentId \in {a, Nobody}

Claimed(a, b, g) == [groupOwner EXCEPT ![g] = [executorId |-> b, agentId |-> a]]

\* The part of resolveExecutor that finds the executor: of the group that
\* exists, or for an open of a new one.
ResolvesTo(b, opens, g) ==
  IF groupOwner[g] # NoOwner THEN b = groupOwner[g].executorId
  ELSE opens /\ PickExecutor(b)

\* An agent's command for a group.  It claims the group, then it is sent; or it
\* is not (the executor is gone, the signal is aborted already, conn.send throws),
\* and the claim stays.
GroupCommand(a, r, opens, g) ==
  /\ a \in Live
  /\ MayDrive(a, g)
  /\ \E b \in Browsers :
       /\ ResolvesTo(b, opens, g)
       /\ groupOwner' = Claimed(a, b, g)
       /\ \/ b \in Connected /\ SendToExecutor(r, a, b, executorById[b], "group", g)
          \/ UNCHANGED <<pending, wire>>
  /\ UNCHANGED <<executors, executorById, agents, primaryExecutorId, started, released,
                 stranded, browserVars>>

\* A command without a group: cookies, or one query of the loop of aggregateTabs.
GlobalCommand(a, r) ==
  /\ a \in Live
  /\ \E b \in Browsers :
       /\ PickExecutor(b)
       /\ \/ SendToExecutor(r, a, b, executorById[b], "cookies", Nobody)
          \/ SendToExecutor(r, BrokerItself, b, executorById[b], "tabs", Nobody)
  /\ UNCHANGED <<executors, executorById, agents, groupOwner, primaryExecutorId, started,
                 released, stranded, browserVars>>

\* releaseForAgent: all groups of agent a are orphaned.
Orphaned(a) ==
  [g \in Groups |-> IF groupOwner[g].agentId = a THEN [groupOwner[g] EXCEPT !.agentId = Nobody]
                    ELSE groupOwner[g]]

Sent(a) == {r \in Pending : pending[r].agentId = a}

\* The command "release", or AgentEndpoint.release.
Release(a) ==
  /\ a \in Live
  /\ groupOwner' = Orphaned(a)
  /\ released' = released \cup Sent(a)
  /\ UNCHANGED <<executors, executorById, agents, pending, primaryExecutorId, started, stranded,
                 browserVars, wire>>

\* A mutation of AgentCloses: its groups are not orphaned.
AgentClosesSilently(a) ==
  /\ a \in agents
  /\ agents' = agents \ {a}
  /\ Clear(Sent(a))
  /\ UNCHANGED <<executors, executorById, groupOwner, primaryExecutorId, started, browserVars,
                 wire>>

\* onClose of a socket that carries an agent.
AgentCloses(a) ==
  /\ a \in agents
  /\ agents' = agents \ {a}
  /\ groupOwner' = Orphaned(a)
  /\ Clear(Sent(a))
  /\ UNCHANGED <<executors, executorById, primaryExecutorId, started, browserVars, wire>>

\* abandon: the command's timer fires, or its signal is aborted.
Abandon(r) ==
  /\ r \in Pending
  /\ Clear({r})
  /\ UNCHANGED <<executors, executorById, agents, groupOwner, primaryExecutorId, started,
                 browserVars, wire>>

\* stop(): everything is forgotten, every command is rejected.  No new socket is
\* accepted; those that are open stay open.
Stop ==
  /\ started
  /\ started' = FALSE
  /\ executors' = [c \in Conns |-> Nobody]
  /\ executorById' = [b \in Browsers |-> Nobody]
  /\ agents' = {}
  /\ groupOwner' = [g \in Groups |-> NoOwner]
  /\ Clear(Reqs)
  /\ primaryExecutorId' = Nobody
  /\ UNCHANGED <<browserVars, wire>>

-----------------------------------------------------------------------------
(* The browser: BridgeClient and CommandRouter of the extension.           *)

\* openSocket: the hello is on its way.
Dial(b, c) ==
  /\ started
  /\ ws[b] = Nobody
  /\ socket[c] = NoSocket
  /\ ws' = [ws EXCEPT ![b] = c]
  /\ socket' = [socket EXCEPT ![c] = [NoSocket EXCEPT !.by = b, !.alive = TRUE]]
  /\ UNCHANGED <<brokerVars, tabs, wire>>

\* The browser's end is closed: a new configuration, a suspended worker, a
\* network that is gone.  The broker has not seen it yet.
HangUp(b) ==
  /\ ws[b] # Nobody
  /\ ws' = [ws EXCEPT ![b] = Nobody]
  /\ socket' = [socket EXCEPT ![ws[b]].alive = FALSE]
  /\ UNCHANGED <<brokerVars, tabs, wire>>

\* onMessage of a command, over the current socket only.
Accept(r) ==
  /\ wire[r].at = "sent"
  /\ \E b \in Browsers : ws[b] = wire[r].over
  /\ wire' = [wire EXCEPT ![r].at = "running"]
  /\ UNCHANGED <<brokerVars, browserVars>>

\* The command is carried out: an open adds its group, another action may close
\* the group's last tab, and either may fail.  The result goes over the socket the
\* command came by, if that is still there.
Finish(r) ==
  LET b == wire[r].to
      g == wire[r].group IN
  /\ wire[r].at = "running"
  /\ \/ UNCHANGED tabs
     \/ /\ g # Nobody
        /\ \/ tabs' = [tabs EXCEPT ![b] = @ \cup {g}]
           \/ tabs' = [tabs EXCEPT ![b] = @ \ {g}]
  /\ wire' = [wire EXCEPT ![r] =
                IF wire[r].over = Nobody THEN Idle
                ELSE IF ~socket[wire[r].over].alive THEN [@ EXCEPT !.at = "lost"]
                ELSE [@ EXCEPT !.at = "replied",
                               !.saw = IF pending[r].action = "rebuild" THEN tabs[b] ELSE {}]]
  /\ UNCHANGED <<brokerVars, socket, ws>>

\* The user closes the tabs of a group.
TabsClosed(b, g) ==
  /\ tabs' = [tabs EXCEPT ![b] = @ \ {g}]
  /\ UNCHANGED <<brokerVars, socket, ws, wire>>

-----------------------------------------------------------------------------
Next ==
  \/ \E c \in Conns : SocketCloses(c) \/ \E r \in Reqs : HelloExtension(c, r)
  \/ \E r \in Reqs : HandleResult(r) \/ Abandon(r) \/ Accept(r) \/ Finish(r)
  \/ \E a \in Agents :
       \/ HelloAgent(a) \/ AgentCloses(a) \/ Release(a)
       \/ \E r \in Reqs :
            \/ GlobalCommand(a, r)
            \/ \E g \in Groups, opens \in BOOLEAN : GroupCommand(a, r, opens, g)
  \/ \E b \in Browsers :
       HangUp(b) \/ (\E c \in Conns : Dial(b, c)) \/ (\E g \in Groups : TabsClosed(b, g))
  \/ Stop

Spec == Init /\ [][Next]_vars

-----------------------------------------------------------------------------
(***************************************************************************)
(* Properties                                                              *)
(***************************************************************************)

\* Types of the broker's maps and of the sockets and frames.
TypeOK ==
  /\ executors \in [Conns -> Browsers \cup {Nobody}]
  /\ executorById \in [Browsers -> Conns \cup {Nobody}]
  /\ agents \subseteq Agents \ Locals
  /\ groupOwner \in [Groups -> Owned \cup {NoOwner}]
  /\ pending \in [Reqs -> Commands \cup {NoCommand}]
  /\ primaryExecutorId \in Browsers \cup {Nobody}
  /\ started \in BOOLEAN
  /\ socket \in [Conns -> Sockets \cup {NoSocket}]
  /\ ws \in [Browsers -> Conns \cup {Nobody}]
  /\ tabs \in [Browsers -> SUBSET Groups]
  /\ wire \in [Reqs -> Wires \cup {Idle}]
  /\ released \subseteq Pending
  /\ stranded \subseteq Pending

\* The two maps of executors agree: a browser has at most one registered socket,
\* the one its id leads to, however its reconnects and closes cross; and there is
\* a primary executor, a connected one, whenever a browser is connected (the last
\* resort of pickExecutor, broker.ts:482-484, is never needed).
RegistryConsistent ==
  /\ \A c \in Conns, b \in Browsers : executors[c] = b <=> executorById[b] = c
  /\ primaryExecutorId \in Connected \/ (primaryExecutorId = Nobody /\ Connected = {})

\* Every group leads to a connected browser, and its owner, if it has one, is an
\* agent that is still there: otherwise the group would be denied to everybody
\* (broker.ts:414-421) for as long as the broker lives.
OwnershipIsCurrent ==
  \A g \in Groups : groupOwner[g] # NoOwner =>
    /\ groupOwner[g].executorId \in Connected
    /\ groupOwner[g].agentId \in Live \cup {Nobody}

\* Whoever has a command in flight in a group still owns the group, in the browser
\* the command went to, unless he has released his groups since: no two agents
\* drive one group at a time (docs/security.md:111: "groups are owner-exclusive").
PendingOwnsGroup ==
  \A r \in Pending \ released : pending[r].group # Nobody =>
    groupOwner[pending[r].group] = [executorId |-> pending[r].executorId,
                                    agentId |-> pending[r].agentId]

\* A group never passes from an agent straight to another: its owner has to
\* release it, leave, or lose its browser first (docs/browser.md:367-370).
NoTakeover ==
  [][\A g \in Groups : groupOwner[g].agentId # Nobody =>
       groupOwner'[g].agentId \in {groupOwner[g].agentId, Nobody}]_vars

\* docs/browser.md:332-333: the bridge "rejects all in-flight commands if the
\* extension disconnects": no agent's command is pending on a socket that is no
\* longer its browser's.
OnItsSocket(r) == /\ pending[r].executorId \in Connected
                  /\ wire[r].over = executorById[pending[r].executorId]

NoneStranded == \A r \in Pending : pending[r].agentId \in Agents => OnItsSocket(r)

\* Only the replacement of a live registration does that: but for it, a pending
\* command always has a socket whose result or whose close settles it, even if no
\* timer does (timeoutMs <= 0 disables them).
StrandedOnlyByReplacement ==
  \A r \in Pending \ stranded : OnItsSocket(r)
=============================================================================
