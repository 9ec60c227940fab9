--------------------------- MODULE AgentConnection ---------------------------
(***************************************************************************)
(* The phone-home connections of one agent identity (vm_id): the connect    *)
(* handler of routers/orchestrator.py, the in-process connection map of     *)
(* core/agents.py and the liveness lease of core/agentbus.py.               *)
(*                                                                         *)
(* Each connection has a handler coroutine on the API's event loop; the     *)
(* loop switches handlers only at an await, so an action is what a handler  *)
(* does from one await to the next.  Valkey and MongoDB calls are awaits.   *)
(***************************************************************************)
EXTENDS Integers, FiniteSets, Sequences

CONSTANTS
    Conns,          \* connection attempts, each with its handler
    MaxFaults,      \* bound: Valkey calls that raise
    MaxDeletes,     \* bound: deletions of the VM
    MaxBreaks       \* bound: presence sockets dropped, and workspaces left

NoConn == "none"

ASSUME ConnAssumption ==
    /\ IsFiniteSet(Conns) /\ NoConn \notin Conns
    /\ MaxFaults \in Nat /\ MaxDeletes \in Nat /\ MaxBreaks \in Nat

VARIABLES
    at,         \* where each handler is
    socket,     \* absent, open, closed (by either side)
    previous,   \* the connection a handler popped and is closing
    registered, \* _connected[vm_id]
    lease,      \* the key agent-conn:{vm_id} exists
    recorded,   \* agent.lastConnectedAt, as the number of connects recorded
    keepalive,  \* connections whose keepalive task runs
    popped,     \* connections delete_vm popped and is closing
    deletes,
    overtaken,  \* history: a handler registered over the connection of another
    overdue,    \* a refresh failed and none has succeeded since
    faults,
    tab         \* the workspace of one browser and its agents/watch socket

aside == <<popped, deletes, overtaken>>

connections ==
    <<at, socket, previous, registered, lease, recorded, keepalive, overdue, faults, aside>>

connVars == <<connections, tab>>

HandlerSteps ==
    {"new", "auth", "closing", "setKey", "setTime", "serving", "finally", "clear", "gone"}

\* What a snapshot says of this identity.
Presence == {"online", "offline"}

Tabs == [mounted : BOOLEAN, shown : Presence, breaks : Nat,
         watch : {"none", "sending", "waiting"}, signal : BOOLEAN,
         seen : Presence, last : Presence \cup {"unsent"}, frames : Seq(Presence)]

ConnTypeOK ==
    /\ at \in [Conns -> HandlerSteps]
    /\ socket \in [Conns -> {"absent", "open", "closed"}]
    /\ previous \in [Conns -> Conns \cup {NoConn}]
    /\ registered \in Conns \cup {NoConn}
    /\ lease \in BOOLEAN
    /\ recorded \in Nat
    /\ keepalive \in SUBSET Conns
    /\ popped \in SUBSET Conns
    /\ deletes \in Nat /\ overtaken \in BOOLEAN
    /\ overdue \in BOOLEAN
    /\ faults \in Nat
    /\ tab \in Tabs
    /\ \A c \in keepalive : at[c] = "serving"

\* A workspace without its socket: what the socket carried is gone with it, and
\* its handler, if any, has unsubscribed.
NoSocket(mounted, shown, breaks) ==
    [mounted |-> mounted, shown |-> shown, breaks |-> breaks,
     watch |-> "none", signal |-> FALSE, seen |-> "offline", last |-> "unsent", frames |-> <<>>]

ConnInit ==
    /\ at = [c \in Conns |-> "new"]
    /\ socket = [c \in Conns |-> "absent"]
    /\ previous = [c \in Conns |-> NoConn]
    /\ registered = NoConn
    /\ lease = FALSE
    /\ recorded = 0
    /\ keepalive = {}
    /\ popped = {}
    /\ deletes = 0 /\ overtaken = FALSE
    /\ overdue = FALSE
    /\ faults = 0
    /\ tab = NoSocket(FALSE, "offline", 0)

Goto(c, step) == at' = [at EXCEPT ![c] = step]

\* A connection whose close is awaited is one the agent's side sees closed.
CloseSocket(c) == socket' = [socket EXCEPT ![c] = "closed"]

\* _notify_presence: every change of _connected signals the subscribed queues.
Notify == tab' = [tab EXCEPT !.signal = tab.watch # "none"]

-----------------------------------------------------------------------------
\* The agent and the network.

\* The agent dials; _authenticate reads the registry before accept().
Dial(c) ==
    /\ at[c] = "new"
    /\ socket' = [socket EXCEPT ![c] = "open"]
    /\ Goto(c, "auth")
    /\ UNCHANGED <<previous, registered, lease, recorded, keepalive, overdue, faults, aside, tab>>

\* A stale or deleted identity is refused.
Reject(c) ==
    /\ at[c] = "auth"
    /\ CloseSocket(c)
    /\ Goto(c, "gone")
    /\ UNCHANGED <<previous, registered, lease, recorded, keepalive, overdue, faults, aside, tab>>

\* The VM reboots or the network drops the connection.
DropSocket(c) ==
    /\ socket[c] = "open"
    /\ CloseSocket(c)
    /\ UNCHANGED <<at, previous, registered, lease, recorded, keepalive, overdue, faults, aside, tab>>

-----------------------------------------------------------------------------
\* The handler.

Register(c) ==
    /\ registered' = c
    /\ Notify
    /\ Goto(c, "setKey")

\* Mutant: the handler registers without taking the prior connection over.
NoTakeover(c) == Register(c) /\ UNCHANGED <<socket, previous>>
\* pop_connection; with nothing to close there is no await before
\* connect_agent, otherwise the close of the popped connection is awaited.
TakeOver(c) ==
    \/ /\ registered = NoConn
       /\ Register(c)
       /\ UNCHANGED <<socket, previous>>
    \/ /\ registered # NoConn
       /\ registered' = NoConn
       /\ Notify
       /\ previous' = [previous EXCEPT ![c] = registered]
       /\ Goto(c, "closing")
       /\ UNCHANGED socket

Accept(c) ==
    /\ at[c] = "auth"
    /\ TakeOver(c)
    /\ UNCHANGED <<lease, recorded, keepalive, overdue, faults, aside>>

\* The close returns; connect_agent overwrites whatever the map holds by now.
ClosePrevious(c) ==
    /\ at[c] = "closing"
    /\ CloseSocket(previous[c])
    /\ previous' = [previous EXCEPT ![c] = NoConn]
    /\ Register(c)
    /\ overtaken' = (overtaken \/ registered # NoConn)
    /\ UNCHANGED <<lease, recorded, keepalive, overdue, faults, popped, deletes>>

\* mark_agent_live, first the lease, then lastConnectedAt.
SetKey(c) ==
    /\ at[c] = "setKey"
    /\ lease' = TRUE
    /\ overdue' = FALSE
    /\ Goto(c, "setTime")
    /\ UNCHANGED <<socket, previous, registered, recorded, keepalive, faults, aside, tab>>

SetTime(c) ==
    /\ at[c] = "setTime"
    /\ recorded' = recorded + 1
    /\ keepalive' = keepalive \cup {c}
    /\ Goto(c, "serving")
    /\ UNCHANGED <<socket, previous, registered, lease, overdue, faults, aside, tab>>

\* Either write raises: the handler leaves through its finally, and the
\* websocket is closed behind it.
MarkFails(c) ==
    /\ at[c] \in {"setKey", "setTime"}
    /\ faults < MaxFaults
    /\ faults' = faults + 1
    /\ CloseSocket(c)
    /\ Goto(c, "finally")
    /\ UNCHANGED <<previous, registered, lease, recorded, keepalive, overdue, aside, tab>>

\* The keepalive task of a served connection re-arms the lease.
Refresh(c) ==
    /\ c \in keepalive
    /\ lease' = TRUE
    /\ overdue' = FALSE
    /\ UNCHANGED <<at, socket, previous, registered, recorded, keepalive, faults, aside, tab>>

\* Mutant: a failed refresh ends the keepalive task.
RefreshDies(c) == keepalive \ {c}
\* A refresh that raises is retried: the task goes on.
RefreshSurvives(c) == keepalive

RefreshFails(c) ==
    /\ c \in keepalive
    /\ faults < MaxFaults
    /\ faults' = faults + 1
    /\ overdue' = TRUE
    /\ keepalive' = RefreshSurvives(c)
    /\ UNCHANGED <<at, socket, previous, registered, lease, recorded, aside, tab>>

StopsKeepalive(c) == keepalive \ {c}

\* receive_json raises; the finally cancels the keepalive and awaits its end.
Disconnected(c) ==
    /\ at[c] = "serving"
    /\ socket[c] = "closed"
    /\ keepalive' = StopsKeepalive(c)
    /\ Goto(c, "finally")
    /\ UNCHANGED <<socket, previous, registered, lease, recorded, overdue, faults, aside, tab>>

\* disconnect_if: only the connection in the map is removed from it.
StillRegistered(c) == registered = c

\* Only the handler that removed its own map entry goes on to the lease.
Leave(c) ==
    /\ at[c] = "finally"
    /\ IF StillRegistered(c)
       THEN registered' = NoConn /\ Notify /\ Goto(c, "clear")
       ELSE UNCHANGED <<registered, tab>> /\ Goto(c, "gone")
    /\ UNCHANGED <<socket, previous, lease, recorded, keepalive, overdue, faults, aside>>

\* clear_agent_live opens a client of its own: the delete lands whenever it does.
ClearLease(c) ==
    /\ at[c] = "clear"
    /\ lease' = FALSE
    /\ Goto(c, "gone")
    /\ UNCHANGED <<socket, previous, registered, recorded, keepalive, overdue, faults, aside, tab>>

\* Valkey expires a lease nobody re-armed for AGENT_CONN_TTL_SECONDS, which the
\* cadence of a keepalive that does not fail excludes.
Expire ==
    /\ lease
    /\ keepalive = {} \/ overdue
    /\ \A c \in Conns : at[c] # "setTime"
    /\ lease' = FALSE
    /\ UNCHANGED <<at, socket, previous, registered, recorded, keepalive, overdue, faults, aside, tab>>

\* delete_vm pops the connection, so that it gets no more commands, and awaits
\* its close; the lease stays until it expires.
DeleteVm ==
    /\ deletes < MaxDeletes
    /\ deletes' = deletes + 1
    /\ registered # NoConn
    /\ popped' = popped \cup {registered}
    /\ registered' = NoConn
    /\ Notify
    /\ UNCHANGED <<at, socket, previous, lease, recorded, keepalive, overdue, faults, overtaken>>

ClosePopped(c) ==
    /\ c \in popped
    /\ popped' = popped \ {c}
    /\ CloseSocket(c)
    /\ UNCHANGED <<at, previous, registered, lease, recorded, keepalive, overdue, faults,
                   deletes, overtaken, tab>>

-----------------------------------------------------------------------------
\* Presence in one workspace: watch_agents on the API's event loop, and
\* attachAgentsSocket in the browser.

\* The workspace opens for a session.
Mount ==
    /\ ~tab.mounted
    /\ tab' = [tab EXCEPT !.mounted = TRUE]
    /\ UNCHANGED connections

\* connected_vm_ids is read, with nothing awaited since the handler subscribed
\* or drained its queue; a guest's registry lookups and the send are awaited.
ReadMap ==
    tab' = [tab EXCEPT !.watch = "sending", !.signal = FALSE,
                       !.seen = IF registered = NoConn THEN "offline" ELSE "online"]

\* open(), at once or from the retry timer.
OpenWatch ==
    /\ tab.mounted
    /\ tab.watch = "none"
    /\ ReadMap
    /\ UNCHANGED connections

\* Mutant: the queue is drained once the snapshot is sent.
DrainsLate(signal) == FALSE
\* What was signalled since the map was read ends the next wait at once.
Pending(signal) == signal

\* A snapshot goes out if it is not the last one sent on this socket.
SendSnapshot ==
    /\ tab.watch = "sending"
    /\ tab' = [tab EXCEPT !.watch = "waiting", !.last = tab.seen, !.signal = Pending(@),
                          !.frames = IF tab.seen = tab.last THEN @ ELSE Append(@, tab.seen)]
    /\ UNCHANGED connections

\* The wait ends with the signal, or after _PRESENCE_REFRESH_S with none.
Woken ==
    /\ tab.watch = "waiting"
    /\ tab.signal
    /\ ReadMap
    /\ UNCHANGED connections

Recheck ==
    /\ tab.watch = "waiting"
    /\ ~tab.signal
    /\ ReadMap
    /\ UNCHANGED connections

\* onAgents.
ShowSnapshot ==
    /\ tab.frames # <<>>
    /\ tab' = [tab EXCEPT !.frames = Tail(@), !.shown = Head(tab.frames)]
    /\ UNCHANGED connections

\* onClose keeps what is shown, and its timer leads to OpenWatch.
WatchDrops ==
    /\ tab.watch # "none"
    /\ tab.breaks < MaxBreaks
    /\ tab' = NoSocket(TRUE, tab.shown, tab.breaks + 1)
    /\ UNCHANGED connections

\* The detach that attachAgentsSocket returns.
Unmount ==
    /\ tab.mounted
    /\ tab.breaks < MaxBreaks
    /\ tab' = NoSocket(FALSE, "offline", tab.breaks + 1)
    /\ UNCHANGED connections

WatchStep == OpenWatch \/ SendSnapshot \/ Woken

-----------------------------------------------------------------------------
HandlerStep(c) ==
    \/ Reject(c) \/ Accept(c) \/ ClosePrevious(c) \/ SetKey(c) \/ SetTime(c)
    \/ Disconnected(c) \/ Leave(c) \/ ClearLease(c) \/ ClosePopped(c)

ConnNext ==
    \/ Expire
    \/ DeleteVm
    \/ Mount \/ WatchStep \/ ShowSnapshot \/ Recheck \/ WatchDrops \/ Unmount
    \/ \E c \in Conns :
          Dial(c) \/ DropSocket(c) \/ MarkFails(c) \/ Refresh(c) \/ RefreshFails(c)
              \/ HandlerStep(c)

ConnSpec == ConnInit /\ [][ConnNext]_connVars

\* The event loop runs every ready handler and every keepalive task, timers
\* fire, and Valkey expires keys; nothing is assumed of agents, the network,
\* faults, or the recheck of a watch nothing signalled.
ConnFairSpec ==
    /\ ConnSpec
    /\ WF_connVars(Expire) /\ WF_connVars(WatchStep) /\ WF_connVars(ShowSnapshot)
    /\ \A c \in Conns : WF_connVars(HandlerStep(c)) /\ WF_connVars(Refresh(c))

-----------------------------------------------------------------------------
\* A connection whose close delete_vm awaits gets no more commands.
Served(c) == at[c] = "serving" /\ socket[c] = "open" /\ c \notin popped
Settled == popped = {} /\ \A c \in Conns : at[c] \in {"new", "serving", "gone"}

\* Once the handlers are at rest, the open served connection is the one the
\* map resolves: a dispatch reaches it (agents.resolve_agent), unless a handler
\* whose close took long registered over a third connection meanwhile.
ServedIsResolved ==
    Settled /\ ~overtaken => \A c \in Conns : Served(c) => registered = c

\* The lease follows the connection: it is there again soon while the registered
\* connection is served, whatever cleared it and however many refreshes failed, and
\* does not outlive the last connection (orchestrator.py _keepalive; clear_agent_live,
\* or the expiry when no handler cleared it).
LeaseFollows ==
    /\ \A c \in Conns :
          (registered = c /\ at[c] = "serving") ~> (lease \/ registered # c)
    /\ (\A c \in Conns : at[c] = "gone") ~> (~lease)

\* What every open workspace shows of the agent settles on what the map holds,
\* by the signals alone: the recheck every 30 s is only a fallback, and the
\* snapshot of a new socket corrects what a dropped one lost (agents.py
\* _notify_presence; store/agents.ts attachAgentsSocket).
PresenceSettles ==
    <>[](tab.mounted => (tab.shown = "online") = (registered # NoConn))

-----------------------------------------------------------------------------
\* Statements of the repository that the code does not keep (README.md): TLC
\* refutes them, and no run checks them.

\* A handler never deletes the liveness key a later connection has set: only the
\* last owner tears it down (agents.py disconnect_if; orchestrator.py connect: a
\* replaced connection "must not delete the key its replacement just set").
ClearsOnlyAsLastOwner ==
    [][\A c \in Conns :
          at[c] = "clear" /\ at'[c] = "gone" /\ registered # NoConn
              => at[registered] = "setKey"]_connVars
=============================================================================
