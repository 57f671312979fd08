----------------------------- MODULE McpSession -----------------------------
(***************************************************************************)
(* The MCP connections of one Session: the lifecycle of every configured   *)
(* server (crates/mcp/src/server), the Session's aggregate snapshot        *)
(* (crates/mcp/src/session.rs), and the MCP partition of the Tool catalog   *)
(* of every kernel Session that uses the connections (the owner, and its    *)
(* subagents through a shared lease: crates/kernel/src/runtime/mcp.rs).     *)
(*                                                                          *)
(* Each server has one lifecycle operation at a time (bootstrap, reconnect, *)
(* the end of an authorization, shutdown), a task that refreshes its        *)
(* catalog when the remote side says the list changed, and a task of the    *)
(* Session that aggregates again whenever the server published something.   *)
(* A Tool is its public name. A broadcast channel that only tells its       *)
(* reader to look again is a Boolean: an event behind another one, and a    *)
(* lagged reader, repeat a step that changes nothing the second time.       *)
(***************************************************************************)
EXTENDS Naturals, FiniteSets

CONSTANTS Servers,        \* the enabled servers of the configuration
          Names,          \* public names of Tools
          Views,          \* kernel Sessions that use the connections
          Owner,          \* the one that owns them
          OAuth,          \* the servers that may ask for an authorization
          MaxEvents       \* bound on changes of the remote lists, reconnects
                          \* and failures together

ASSUME McpAssumption ==
    /\ IsFiniteSet(Servers) /\ Owner \in Views /\ OAuth \subseteq Servers

VARIABLES
    remote,     \* the Tools each server really has (external)
    pub,        \* [state, oauth, tools]: the server's published snapshot
    client,     \* "none", "held" by the operation, or "installed"
    pending,    \* the servers with a retained browser authorization
    cancelled,  \* the servers whose lifecycle token is cancelled
    op,         \* [kind, pc, found]: the lifecycle operation of the server
    watcher,    \* [pc, found]: the task that refreshes the catalog
    notified,   \* the servers with an unread list-changed notification
    unread,     \* the servers with an unread change for the Session's task
    agg,        \* the Tools of each server in the Session's snapshot
    task,       \* [pc, views]: the Session's task of the server
    lock,       \* the Session's tasks inside the publication boundary
    phase,      \* of the McpSession
    stopping,   \* the servers McpSession::shutdown still has to stop
    proj,       \* the projection task of each view
    told,       \* unread Session events of each view: a set of kinds
    partition,  \* the MCP partition of each view's Tool catalog
    missed,     \* servers that changed between a listing and the subscription
    unheard,    \* servers that published before the Session listened to them
    events      \* how many of the bounded events have happened

serverVars == <<pub, client, pending, cancelled, op, watcher>>
sessionVars == <<agg, task, lock, phase, stopping>>
viewVars == <<proj, told, partition>>
vars == <<remote, serverVars, notified, unread, sessionVars, viewVars,
          missed, unheard, events>>

Empty == [s \in Servers |-> {}]
Idle == [kind |-> "none", pc |-> "none", found |-> {}]
Waiting == [pc |-> "idle", views |-> Empty]
Serving == {"Ready", "Degraded"}

-----------------------------------------------------------------------------
(* The server's state machine and its publications.                        *)

\* McpServerStateMachine::transition
Allowed(from, to) ==
    \/ to \in {"Failed", "Stopping"}
       /\ from \in {"Starting", "Negotiating", "Discovering"} \cup Serving
    \/ <<from, to>> \in
         {<<"Starting", "Negotiating">>, <<"Negotiating", "Discovering">>,
          <<"Discovering", "Ready">>, <<"Ready", "Degraded">>,
          <<"Degraded", "Ready">>, <<"Failed", "Starting">>,
          <<"Failed", "Stopping">>, <<"Failed", "Stopped">>,
          <<"Stopping", "Stopped">>, <<"Stopping", "Failed">>,
          <<"Stopped", "Starting">>}

\* changes.send: nobody hears it before McpSession::new has subscribed, nor
\* once the Session's task has ended.
Send(s) ==
    /\ unread' = IF task[s].pc # "none" THEN unread \cup {s} ELSE unread
    /\ unheard' = IF phase = "listed" THEN unheard \cup {s} ELSE unheard

\* publish_snapshot and the send of the change, when the transition is legal;
\* nothing otherwise.
Publish(s, to, oauth, tools) ==
    IF Allowed(pub[s].state, to)
      THEN /\ pub' = [pub EXCEPT ![s] =
                        [state |-> to, oauth |-> oauth, tools |-> tools]]
           /\ Send(s)
      ELSE UNCHANGED <<pub, unread, unheard>>

\* McpServerRuntime::fail keeps the catalog it finds.
Fail(s, oauth) == Publish(s, "Failed", oauth, pub[s].tools)

Happens == events < MaxEvents /\ events' = events + 1

Goto(s, pc) == op' = [op EXCEPT ![s].pc = pc]
Finish(s) == op' = [op EXCEPT ![s] = Idle]

-----------------------------------------------------------------------------
(* Lifecycle operations. Each holds lifecycle_operation from its first step *)
(* to Finish. A bootstrap is the Connect part of a reconnect on a server     *)
(* nobody else can reach yet; Init starts from what bootstraps lead to.      *)

Steps(s, pc) == op[s].kind # "none" /\ op[s].pc = pc

\* connect: Starting and Negotiating are published before the transport opens.
\* A reconnect has renewed the lifecycle token first, as a child of the
\* Session's, which a shutdown has cancelled for good.
Connect(s) ==
    /\ Steps(s, "connect")
    /\ pub' = [pub EXCEPT ![s].state = "Negotiating"]
    /\ Send(s)
    /\ cancelled' = IF phase = "live" THEN cancelled \ {s}
                                      ELSE cancelled \cup {s}
    /\ Goto(s, "connecting")
    /\ UNCHANGED <<remote, client, pending, watcher, notified, sessionVars,
                   viewVars, missed, events>>

ConnectFails(s) ==
    /\ Steps(s, "connecting") \/ Steps(s, "authorizing")
    /\ Happens
    /\ Fail(s, IF s \in OAuth THEN "Failed" ELSE pub[s].oauth)
    /\ Finish(s)
    /\ UNCHANGED <<remote, client, pending, cancelled, watcher, notified,
                   sessionVars, viewVars, missed>>

\* await_authorization: the state stays Negotiating.
ConnectAsks(s) ==
    /\ s \in OAuth
    /\ Steps(s, "connecting")
    /\ pending' = pending \cup {s}
    /\ pub' = [pub EXCEPT ![s].oauth = "Unauthenticated"]
    /\ Send(s)
    /\ Finish(s)
    /\ UNCHANGED <<remote, client, cancelled, watcher, notified, sessionVars,
                   viewVars, missed, events>>

\* activate_client up to the discovery request. A lifecycle that is already
\* cancelled ends that request before its answer can arrive.
Negotiated(s) ==
    /\ Steps(s, "connecting") \/ Steps(s, "authorizing")
    /\ IF Allowed(pub[s].state, "Discovering")
         THEN /\ pub' = [pub EXCEPT ![s].state = "Discovering",
                           ![s].oauth = IF s \in OAuth THEN "Ready" ELSE @]
              /\ client' = [client EXCEPT ![s] = "held"]
              /\ Goto(s, IF s \in cancelled THEN "refused" ELSE "discovering")
         ELSE Finish(s) /\ UNCHANGED <<pub, client>>
    /\ UNCHANGED <<remote, pending, cancelled, watcher, notified, unread,
                   sessionVars, viewVars, missed, unheard, events>>

\* The answer to tools/list leaves the server.
Discover(s) ==
    /\ Steps(s, "discovering")
    /\ op' = [op EXCEPT ![s].pc = "discovered", ![s].found = remote[s]]
    /\ missed' = missed \ {s}
    /\ UNCHANGED <<remote, pub, client, pending, cancelled, watcher, notified,
                   unread, sessionVars, viewVars, unheard, events>>

DiscoverFails(s) ==
    /\ \/ Steps(s, "refused") /\ UNCHANGED events
       \/ Steps(s, "discovering") /\ s \in cancelled /\ UNCHANGED events
       \/ Steps(s, "discovering") /\ Happens
    /\ client' = [client EXCEPT ![s] = "none"]
    /\ Fail(s, pub[s].oauth)
    /\ Finish(s)
    /\ UNCHANGED <<remote, pending, cancelled, watcher, notified, sessionVars,
                   viewVars, missed>>

\* Ready is stored with the catalog, where a task of the Session may already
\* find it, although a call is still refused: available_client has no client.
Activate(s) ==
    /\ Steps(s, "discovered")
    /\ pub' = [pub EXCEPT ![s].state = "Ready", ![s].tools = op[s].found]
    /\ Goto(s, "published")
    /\ UNCHANGED <<remote, client, pending, cancelled, watcher, notified, unread,
                   sessionVars, viewVars, missed, unheard, events>>

\* Only then is the client subscribed to and installed, the change announced
\* and the change watcher started.
Install(s) ==
    /\ Steps(s, "published")
    /\ client' = [client EXCEPT ![s] = "installed"]
    /\ watcher' = [watcher EXCEPT ![s] = [pc |-> "idle", found |-> {}]]
    /\ Send(s)
    /\ Finish(s)
    /\ UNCHANGED <<remote, pub, pending, cancelled, notified, sessionVars,
                   viewVars, missed, events>>

\* stop: the catalog is withdrawn before the work of the server is cancelled.
Stop(s, kind) ==
    /\ Publish(s, "Stopping", pub[s].oauth, {})
    /\ cancelled' = cancelled \cup {s}
    /\ pending' = pending \ {s}
    /\ op' = [op EXCEPT ![s] = [kind |-> kind, pc |-> "join", found |-> {}]]

\* reconnect: stop first (nothing to do when the server is Stopped).
Reconnect(s) ==
    /\ phase \notin {"created", "listed"}
    /\ op[s] = Idle
    /\ Happens
    /\ \/ /\ pub[s].state = "Stopped"
          /\ op' = [op EXCEPT ![s] = [kind |-> "reconnect", pc |-> "connect",
                                      found |-> {}]]
          /\ UNCHANGED <<pub, cancelled, pending, unread, unheard>>
       \/ pub[s].state # "Stopped" /\ Stop(s, "reconnect")
    /\ UNCHANGED <<remote, client, watcher, notified, sessionVars, viewVars,
                   missed>>

\* continue_authorization: the connector takes the retained round.
Authorize(s) ==
    /\ phase \notin {"created", "listed"}
    /\ op[s] = Idle
    /\ pub[s].oauth = "Unauthenticated"
    /\ Send(s)
    /\ IF s \in pending
         THEN /\ pub' = [pub EXCEPT ![s].oauth = "Authorizing"]
              /\ op' = [op EXCEPT ![s] = [kind |-> "authorize", found |-> {},
                                          pc |-> "authorizing"]]
         ELSE /\ pub' = [pub EXCEPT ![s].oauth = "Failed",
                           ![s].state = IF Allowed(@, "Failed") THEN "Failed"
                                                                ELSE @]
              /\ UNCHANGED op
    /\ pending' = pending \ {s}
    /\ UNCHANGED <<remote, client, cancelled, watcher, notified, sessionVars,
                   viewVars, missed, events>>

\* The end of stop, when the refresh task has ended: the client is closed. A
\* reconnect goes on, a shutdown is finished.
StopEnds(s) ==
    /\ Steps(s, "join")
    /\ watcher[s].pc = "none"
    /\ \/ Publish(s, "Stopped", pub[s].oauth, pub[s].tools) /\ UNCHANGED events
       \/ client[s] # "none" /\ Happens /\ Fail(s, pub[s].oauth)
    /\ client' = [client EXCEPT ![s] = "none"]
    /\ IF op[s].kind = "reconnect"
         THEN Goto(s, "connect") /\ UNCHANGED stopping
         ELSE Finish(s) /\ stopping' = stopping \ {s}
    /\ UNCHANGED <<remote, pending, cancelled, watcher, notified, agg, task,
                   lock, phase, viewVars, missed>>

-----------------------------------------------------------------------------
(* The task that follows the remote list: start_change_watcher.             *)

\* A change of the remote Tools, and the notification of it. It is lost when
\* the list was already read and nobody has subscribed yet.
RemoteChanges(s) ==
    /\ client[s] # "none"
    /\ Happens
    /\ \E tools \in SUBSET Names \ {remote[s]} :
         remote' = [remote EXCEPT ![s] = tools]
    /\ IF watcher[s].pc # "none"
         THEN notified' = notified \cup {s} /\ UNCHANGED missed
         ELSE /\ missed' = IF op[s].pc \in {"discovered", "published"}
                             THEN missed \cup {s} ELSE missed
              /\ UNCHANGED notified
    /\ UNCHANGED <<serverVars, unread, sessionVars, viewVars, unheard>>

\* refresh_catalog sends its listing; the select may take the event although
\* the lifecycle is cancelled too.
RefreshBegins(s) ==
    /\ watcher[s].pc = "idle" /\ s \in notified
    /\ notified' = notified \ {s}
    /\ watcher' = [watcher EXCEPT ![s].pc =
                     IF s \in cancelled THEN "refused" ELSE "listing"]
    /\ UNCHANGED <<remote, pub, client, pending, cancelled, op, unread,
                   sessionVars, viewVars, missed, unheard, events>>

RefreshLists(s) ==
    /\ watcher[s].pc = "listing"
    /\ watcher' = [watcher EXCEPT ![s] = [pc |-> "listed",
                                          found |-> remote[s]]]
    /\ missed' = missed \ {s}
    /\ UNCHANGED <<remote, pub, client, pending, cancelled, op, notified,
                   unread, sessionVars, viewVars, unheard, events>>

\* catalog_refreshed refuses a server that is no longer Ready or Degraded.
RefreshedAnyway(s) == TRUE

Refreshed(s) == pub[s].state \in Serving

RefreshEnds(s) ==
    /\ watcher[s].pc = "listed"
    /\ IF Refreshed(s)
         THEN /\ pub' = [pub EXCEPT ![s].state = "Ready",
                                    ![s].tools = watcher[s].found]
              /\ Send(s)
         ELSE UNCHANGED <<pub, unread, unheard>>
    /\ watcher' = [watcher EXCEPT ![s] = [pc |-> "idle", found |-> {}]]
    /\ UNCHANGED <<remote, client, pending, cancelled, op, notified,
                   sessionVars, viewVars, missed, events>>

\* degrade keeps the last good catalog.
RefreshFails(s) ==
    /\ \/ watcher[s].pc = "refused" /\ UNCHANGED events
       \/ watcher[s].pc = "listing" /\ s \in cancelled /\ UNCHANGED events
       \/ watcher[s].pc = "listing" /\ Happens
    /\ IF pub[s].state = "Degraded"
         THEN Send(s) /\ UNCHANGED pub
         ELSE Publish(s, "Degraded", pub[s].oauth, pub[s].tools)
    /\ watcher' = [watcher EXCEPT ![s] = [pc |-> "idle", found |-> {}]]
    /\ UNCHANGED <<remote, client, pending, cancelled, op, notified,
                   sessionVars, viewVars, missed>>

WatcherEnds(s) ==
    /\ watcher[s].pc = "idle" /\ s \in cancelled
    /\ watcher' = [watcher EXCEPT ![s] = [pc |-> "none", found |-> {}]]
    /\ notified' = notified \ {s}
    /\ UNCHANGED <<remote, pub, client, pending, cancelled, op, unread,
                   sessionVars, viewVars, missed, unheard, events>>

-----------------------------------------------------------------------------
(* The Session's aggregate.                                                 *)

\* The Tools every server publishes now.
Offered == [s \in Servers |-> pub[s].tools]

\* What server s offers when the servers of "rejected" keep their old Tools.
Offer(s, previous, views, rejected) ==
    IF s \in rejected THEN previous[s] ELSE views[s]

Colliding(previous, views, rejected) ==
    {s \in Servers : \E t \in Servers \ {s} :
        Offer(s, previous, views, rejected)
          \cap Offer(t, previous, views, rejected) # {}}

\* The loop of aggregate: only a server that changed can be rejected.
Rejected(previous, views) ==
    LET changed == {s \in Servers : previous[s] # views[s]}
        round[n \in 0..Cardinality(Servers)] ==
          IF n = 0 THEN {}
          ELSE round[n - 1] \cup
                 (Colliding(previous, views, round[n - 1]) \cap changed)
    IN round[Cardinality(Servers)]

Aggregate(previous, views) ==
    [s \in Servers |-> Offer(s, previous, views, Rejected(previous, views))]

\* Every projection task that has subscribed hears of a new snapshot.
Tell(kind) ==
    told' = [v \in Views |->
               IF proj[v] = "running"
                 THEN told[v] \cup {kind} ELSE told[v]]

\* McpSession::new makes the first aggregate before it subscribes to its
\* servers, whose refresh tasks run already.
NewAggregates ==
    /\ phase = "created"
    /\ agg' = Aggregate(agg, Offered)
    /\ phase' = "listed"
    /\ UNCHANGED <<remote, serverVars, notified, unread, task, lock, stopping,
                   viewVars, missed, unheard, events>>

\* acquire: a kernel Session starts with the Tools of the current snapshot.
AcquireTools(v) ==
    /\ proj' = [proj EXCEPT ![v] = "acquired"]
    /\ partition' = [partition EXCEPT ![v] = agg]

NewSubscribes ==
    /\ phase = "listed"
    /\ phase' = "live"
    /\ task' = [s \in Servers |-> Waiting]
    /\ AcquireTools(Owner)
    /\ UNCHANGED <<remote, serverVars, notified, unread, agg, lock, stopping,
                   told, missed, unheard, events>>

\* A task of the Session hears of a change and, with the revision locked, reads
\* every server's snapshot ...
NoLock == TRUE

LockFree == lock = {}

TaskReads(s) ==
    /\ task[s].pc = "idle" /\ s \in unread
    /\ LockFree
    /\ unread' = unread \ {s}
    /\ lock' = lock \cup {s}
    /\ task' = [task EXCEPT ![s] = [pc |-> "read", views |-> Offered]]
    /\ UNCHANGED <<remote, serverVars, notified, agg, phase, stopping,
                   viewVars, missed, unheard, events>>

\* ... and stores the aggregate and sends the event before it unlocks.
TaskPublishes(s) ==
    /\ task[s].pc = "read"
    /\ agg' = Aggregate(agg, task[s].views)
    /\ lock' = lock \ {s}
    /\ task' = [task EXCEPT ![s] = Waiting]
    /\ Tell("change")
    /\ UNCHANGED <<remote, serverVars, notified, unread, phase, stopping,
                   proj, partition, missed, unheard, events>>

TaskEnds(s) ==
    /\ phase = "stopping" /\ task[s].pc = "idle"
    /\ task' = [task EXCEPT ![s].pc = "none"]
    /\ UNCHANGED <<remote, serverVars, notified, unread, agg, lock, phase,
                   stopping, viewVars, missed, unheard, events>>

\* McpSession::shutdown, called once by the owner's close.
ShutdownBegins ==
    /\ phase = "live"
    /\ proj[Owner] = "running"
    /\ \A v \in Views \ {Owner} : proj[v] = "none"
    /\ phase' = "stopping"
    /\ cancelled' = Servers
    /\ stopping' = Servers
    /\ UNCHANGED <<remote, pub, client, pending, op, watcher, notified, unread,
                   agg, task, lock, viewVars, missed, unheard, events>>

ShutdownStops(s) ==
    /\ s \in stopping
    /\ op[s] = Idle
    /\ \/ /\ pub[s].state = "Stopped"
          /\ stopping' = stopping \ {s}
          /\ UNCHANGED <<pub, cancelled, pending, op, unread, unheard>>
       \/ pub[s].state # "Stopped" /\ Stop(s, "shutdown") /\ UNCHANGED stopping
    /\ UNCHANGED <<remote, client, watcher, notified, agg, task, lock, phase,
                   viewVars, missed, events>>

ShutdownEnds ==
    /\ phase = "stopping"
    /\ stopping = {}
    /\ \A s \in Servers : task[s].pc = "none"
    /\ phase' = "closed"
    /\ agg' = Aggregate(agg, Offered)
    /\ Tell("shutdown")
    /\ UNCHANGED <<remote, serverVars, notified, unread, task, lock, stopping,
                   proj, partition, missed, unheard, events>>

-----------------------------------------------------------------------------
(* The kernel's projection into the Tool catalog.                           *)

\* acquire with a shared lease borrows the connections of a running owner.
Acquire(v) ==
    /\ phase = "live"
    /\ v # Owner /\ proj[v] = "none" /\ proj[Owner] = "running"
    /\ AcquireTools(v)
    /\ UNCHANGED <<remote, serverVars, notified, unread, sessionVars, told,
                   missed, unheard, events>>

\* start_mcp_projection subscribes and then brings the partition up to date
\* with the snapshot it finds, so that nothing since acquire is lost.
StartProjection(v) ==
    /\ proj[v] = "acquired"
    /\ proj' = [proj EXCEPT ![v] = "running"]
    /\ partition' = [partition EXCEPT ![v] = agg]
    /\ UNCHANGED <<remote, serverVars, notified, unread, sessionVars, told,
                   missed, unheard, events>>

\* One round of the task: events are read in order, the Shutdown one last. (A
\* registry refuses a name it has twice, which the aggregate of the servers
\* excludes unless it is that of a built-in resource Tool; the task logs it and
\* keeps the old partition, which is left out.)
Project(v) ==
    /\ proj[v] = "running"
    /\ \E kind \in told[v] :
         /\ kind = "shutdown" => told[v] = {"shutdown"}
         /\ told' = [told EXCEPT ![v] = @ \ {kind}]
         /\ proj' = [proj EXCEPT ![v] = IF kind = "shutdown" THEN "gone"
                                                             ELSE @]
    /\ partition' = [partition EXCEPT ![v] = agg]
    /\ UNCHANGED <<remote, serverVars, notified, unread, sessionVars, missed,
                   unheard, events>>

\* The close of a Session with a shared lease aborts only its projection; its
\* Tool catalog goes with it, and another subagent may take its place.
Release(v) ==
    /\ v # Owner /\ proj[v] = "running"
    /\ proj' = [proj EXCEPT ![v] = "none"]
    /\ told' = [told EXCEPT ![v] = {}]
    /\ partition' = [partition EXCEPT ![v] = Empty]
    /\ UNCHANGED <<remote, serverVars, notified, unread, sessionVars, missed,
                   unheard, events>>

-----------------------------------------------------------------------------
\* What a bootstrap of server s leaves: a Ready server with its client, a
\* browser authorization that waits, or a failure.
Bootstrapped(s) ==
    {[state |-> "Ready", tools |-> remote[s],
      oauth |-> IF s \in OAuth THEN "Ready" ELSE "None"],
     [state |-> "Failed", tools |-> {},
      oauth |-> IF s \in OAuth THEN "Failed" ELSE "None"]}
    \cup IF s \in OAuth
           THEN {[state |-> "Negotiating", tools |-> {},
                  oauth |-> "Unauthenticated"]}
           ELSE {}

Init ==
    /\ remote \in [Servers -> SUBSET Names]
    /\ pub \in {p \in [Servers -> UNION {Bootstrapped(s) : s \in Servers}] :
                  \A s \in Servers : p[s] \in Bootstrapped(s)}
    /\ client = [s \in Servers |-> IF pub[s].state = "Ready" THEN "installed"
                                                             ELSE "none"]
    /\ pending = {s \in Servers : pub[s].state = "Negotiating"}
    /\ watcher = [s \in Servers |->
                    [pc |-> IF pub[s].state = "Ready" THEN "idle" ELSE "none",
                     found |-> {}]]
    /\ op = [s \in Servers |-> Idle]
    /\ cancelled = {} /\ notified = {} /\ unread = {}
    /\ agg = Empty
    /\ task = [s \in Servers |-> [pc |-> "none", views |-> Empty]]
    /\ lock = {} /\ stopping = {} /\ missed = {} /\ unheard = {}
    /\ phase = "created"
    /\ proj = [v \in Views |-> "none"]
    /\ told = [v \in Views |-> {}]
    /\ partition = [v \in Views |-> Empty]
    /\ events = 0

ServerSteps(s) ==
    \/ Connect(s) \/ ConnectFails(s) \/ ConnectAsks(s) \/ Negotiated(s)
    \/ Discover(s) \/ DiscoverFails(s) \/ Activate(s) \/ Install(s)
    \/ Reconnect(s) \/ Authorize(s)
    \/ StopEnds(s)
    \/ RemoteChanges(s) \/ RefreshBegins(s) \/ RefreshLists(s)
    \/ RefreshEnds(s) \/ RefreshFails(s) \/ WatcherEnds(s)
    \/ TaskReads(s) \/ TaskPublishes(s) \/ TaskEnds(s)
    \/ ShutdownStops(s)

ViewSteps(v) ==
    Acquire(v) \/ StartProjection(v) \/ Project(v) \/ Release(v)

Next ==
    \/ \E s \in Servers : ServerSteps(s)
    \/ \E v \in Views : ViewSteps(v)
    \/ NewAggregates \/ NewSubscribes \/ ShutdownBegins \/ ShutdownEnds

Spec == Init /\ [][Next]_vars

-----------------------------------------------------------------------------
(* Properties.                                                              *)

\* Every task has read what it was sent and no operation is under way.
Quiet ==
    /\ phase \in {"live", "closed"}
    /\ \A s \in Servers : op[s] = Idle /\ watcher[s].pc \in {"none", "idle"}
                                       /\ task[s].pc \in {"none", "idle"}
    /\ notified = {}
    /\ phase = "live" => unread = {}
    /\ \A v \in Views : told[v] = {}

\* Once quiet, a Ready server publishes the Tools it really has; the Session
\* offers the Tools every server publishes, except where their names collide
\* with those of another server, and never one name twice; and every kernel
\* Session has exactly these Tools, none after the shutdown. (A change the
\* remote side announced before anybody listened, and one a server published
\* before McpSession::new subscribed, are excepted.)
CatalogIsCurrent ==
    Quiet =>
      /\ \A s \in Servers \ missed :
           phase = "live" /\ pub[s].state = "Ready" => pub[s].tools = remote[s]
      /\ unheard = {} => \A s \in Servers :
           \/ agg[s] = pub[s].tools
           \/ \E t \in Servers \ {s} :
                pub[s].tools \cap (pub[t].tools \cup agg[t]) # {}
      /\ \A s \in Servers, t \in Servers :
           s # t => agg[s] \cap agg[t] = {}
      /\ \A v \in Views : proj[v] = "running" => partition[v] = agg
      /\ phase = "closed" => partition[Owner] = Empty

\* A server offers Tools only while its state and its client let a call reach
\* it, whatever a refresh that was under way finds out later (but for the
\* moment between the publication of a new connection and its installation,
\* in which a call is refused); and once the Session's shutdown has returned,
\* no operation that was still waiting for the server leaves a connection
\* behind.
ServedOnlyWhileConnected ==
    \A s \in Servers :
      /\ pub[s].tools # {} =>
           /\ pub[s].state \in Serving
           /\ client[s] = "installed" \/ op[s].pc = "published"
      /\ phase = "closed" /\ op[s] = Idle =>
           client[s] = "none" /\ watcher[s].pc = "none" /\ pub[s].tools = {}
=============================================================================
