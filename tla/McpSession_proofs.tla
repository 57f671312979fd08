------------------------- MODULE McpSession_proofs -------------------------
(***************************************************************************)
(* A server offers Tools only while a call can reach it, and every kernel  *)
(* Session's catalog is current once all is quiet: the proofs, for every   *)
(* set of servers and Tools and any number of failures, changes and        *)
(* reconnects.                                                             *)
(*                                                                         *)
(* The argument follows the lifecycle operation that holds the server:     *)
(* each of its steps knows in which states the server can be then, who     *)
(* holds the client and whether the refresh task lives (Held).  From the   *)
(* Session's shutdown on every lifecycle token is cancelled, so that an    *)
(* operation that comes after the server's stop is refused before it can   *)
(* put Tools on offer (Shut).                                              *)
(*                                                                         *)
(* A change travels from the remote side over the server's publication and *)
(* the Session's aggregate to the catalogs; at every stage what is behind  *)
(* has a notification, a change or an event still unread (Followed,        *)
(* Aggregated, Projected).  That one aggregation explains what it leaves   *)
(* out and offers no name twice is a fact about its loop: each round       *)
(* rejects a server more or none, so it has come to rest after as many     *)
(* rounds as there are servers (LoopSettles).                              *)
(***************************************************************************)
EXTENDS McpSession, FiniteSetTheorems, WellFoundedInduction, TLAPS

States == {"Starting", "Negotiating", "Discovering", "Ready", "Degraded",
           "Failed", "Stopping", "Stopped"}
Rounds == {"None", "Ready", "Failed", "Unauthenticated", "Authorizing"}
Pcs == {"none", "connect", "connecting", "authorizing", "refused",
        "discovering", "discovered", "published", "join"}

Snapshots == [state : States, oauth : Rounds, tools : SUBSET Names]
Operations == [kind : {"none", "reconnect", "authorize", "shutdown"},
               pc : Pcs, found : SUBSET Names]
Refreshes == [pc : {"none", "idle", "refused", "listing", "listed"},
              found : SUBSET Names]

\* The types of what one server's lifecycle works on.
ServerTypes ==
    /\ remote \in [Servers -> SUBSET Names]
    /\ pub \in [Servers -> Snapshots]
    /\ client \in [Servers -> {"none", "held", "installed"}]
    /\ op \in [Servers -> Operations]
    /\ watcher \in [Servers -> Refreshes]
    /\ cancelled \subseteq Servers /\ pending \subseteq Servers
    /\ stopping \subseteq Servers

\* Nothing of the server is reachable, and it offers nothing.
Unreachable(s) ==
    client[s] = "none" /\ watcher[s].pc = "none" /\ pub[s].tools = {}

\* What each step of the operation that holds the server relies on.
Held(s) ==
    /\ op[s].kind = "none" <=> op[s].pc = "none"
    /\ op[s].pc = "none" =>
         /\ op[s] = Idle
         /\ \/ pub[s].state \in Serving /\ client[s] = "installed"
               /\ pub[s].oauth # "Unauthenticated"
            \/ pub[s].state \in {"Negotiating", "Failed", "Stopped"}
               /\ Unreachable(s)
    /\ op[s].pc = "connect" =>
         /\ op[s].kind = "reconnect" /\ pub[s].state \in {"Stopped", "Failed"}
         /\ Unreachable(s)
    /\ op[s].pc \in {"connecting", "authorizing"} =>
         pub[s].state = "Negotiating" /\ Unreachable(s)
    /\ op[s].pc \in {"discovering", "discovered", "refused"} =>
         /\ pub[s].state = "Discovering" /\ pub[s].oauth # "Unauthenticated"
         /\ client[s] = "held" /\ watcher[s].pc = "none" /\ pub[s].tools = {}
    /\ op[s].pc = "published" =>
         /\ pub[s].state = "Ready" /\ pub[s].oauth # "Unauthenticated"
         /\ client[s] = "held" /\ watcher[s].pc = "none"
    /\ op[s].pc = "join" =>
         /\ pub[s].state = "Stopping" /\ pub[s].tools = {}
         /\ op[s].kind \in {"reconnect", "shutdown"} /\ client[s] # "held"
    /\ op[s].kind = "shutdown" => op[s].pc = "join" /\ s \in stopping
    /\ s \in pending => op[s] = Idle /\ pub[s].state = "Negotiating"
    /\ s \notin OAuth => pub[s].oauth # "Unauthenticated"

\* From its stop on, a server of a Session that shuts down is never served again.
Shut(s) ==
    /\ phase \in {"stopping", "closed"} => s \in cancelled
    /\ phase = "closed" => stopping = {}
    /\ phase \in {"stopping", "closed"} /\ s \notin stopping =>
         /\ op[s].pc \notin {"discovering", "discovered", "published"}
         /\ pub[s].state \notin Serving
         /\ client[s] # "installed" /\ watcher[s].pc = "none"
    /\ phase \in {"created", "listed", "live"} => stopping = {}

McpInv ==
    /\ ServerTypes
    /\ phase \in {"created", "listed", "live", "stopping", "closed"}
    /\ \A s \in Servers : Held(s) /\ Shut(s)

\* What a step of one server leaves of the others.
Others(s) ==
    \A t \in Servers \ {s} :
        /\ pub'[t] = pub[t] /\ client'[t] = client[t]
        /\ op'[t] = op[t] /\ watcher'[t] = watcher[t]
        /\ t \in cancelled' <=> t \in cancelled
        /\ t \in pending' <=> t \in pending
        /\ t \in stopping' <=> t \in stopping

\* A step that leaves the servers, the phase and what is left to stop alone.
LEMMA McpQuiet ==
    ASSUME McpInv,
           UNCHANGED <<remote, serverVars, phase, stopping>>
    PROVE  McpInv'
BY DEF McpInv, ServerTypes, Held, Shut, Unreachable, serverVars, Serving, Idle

\* It is enough to look at the server that takes the step.
LEMMA OneServer ==
    ASSUME McpInv, NEW s \in Servers, ServerTypes', Others(s), phase' = phase,
           stopping' \subseteq stopping, Held(s)', Shut(s)'
    PROVE  McpInv'
<1> SUFFICES ASSUME NEW t \in Servers \ {s}
             PROVE  Held(t)' /\ Shut(t)'
  BY DEF McpInv
<1>1. Held(t) /\ Shut(t)
  BY DEF McpInv
<1>2. Held(t)'
  BY <1>1 DEF Held, Unreachable, Others
<1>3. Shut(t)'
  BY <1>1 DEF Shut, Others
<1> QED
  BY <1>2, <1>3

\* A connection is opened: the token was renewed only if the Session is live.
LEMMA ConnectKeeps ==
    ASSUME McpInv, NEW s \in Servers, Connect(s)
    PROVE  McpInv'
<1> USE DEF Connect, Send, Goto, sessionVars, viewVars, serverVars
<1>0. ServerTypes /\ Held(s) /\ Shut(s)
  BY DEF McpInv
<1>1. pub' \in [Servers -> Snapshots]
  BY <1>0 DEF ServerTypes, Snapshots, States, Rounds, Serving
<1>2. client' \in [Servers -> {"none", "held", "installed"}]
  BY <1>0 DEF ServerTypes
<1>3. op' \in [Servers -> Operations]
  BY <1>0 DEF ServerTypes, Operations, Pcs, Idle
<1>4. watcher' \in [Servers -> Refreshes]
  BY <1>0 DEF ServerTypes, Refreshes
<1>5. /\ remote' \in [Servers -> SUBSET Names] /\ phase' = phase
      /\ cancelled' \subseteq Servers /\ pending' \subseteq Servers
      /\ stopping' \subseteq stopping
  BY <1>0 DEF ServerTypes
<1>6. ServerTypes'
  BY <1>0, <1>1, <1>2, <1>3, <1>4, <1>5 DEF ServerTypes
<1>7. Others(s)
  BY <1>0 DEF Others, ServerTypes
<1>8. Held(s)'
  BY <1>0 DEF Held, Shut, Unreachable, ServerTypes, Steps, Allowed, Serving, Idle, Snapshots, Operations, Refreshes
<1>9. Shut(s)'
  BY <1>0 DEF Held, Shut, Unreachable, ServerTypes, Steps, Allowed, Serving, Idle, Snapshots, Operations, Refreshes
<1> QED
  BY <1>5, <1>6, <1>7, <1>8, <1>9, OneServer

\* The transport fails before a client exists.
LEMMA ConnectFailsKeeps ==
    ASSUME McpInv, NEW s \in Servers, ConnectFails(s)
    PROVE  McpInv'
<1> USE DEF ConnectFails, Fail, Publish, Send, Finish, Happens, sessionVars, viewVars, serverVars
<1>0. ServerTypes /\ Held(s) /\ Shut(s)
  BY DEF McpInv
<1>1. pub' \in [Servers -> Snapshots]
  <2>1. pub[s] \in Snapshots
    BY <1>0 DEF ServerTypes
  <2>2. CASE Allowed(pub[s].state, "Failed")
    BY <1>0, <2>1, <2>2 DEF ServerTypes, Snapshots, States, Rounds
  <2>3. CASE ~Allowed(pub[s].state, "Failed")
    BY <1>0, <2>3 DEF ServerTypes
  <2> QED
    BY <2>2, <2>3
<1>2. client' \in [Servers -> {"none", "held", "installed"}]
  BY <1>0 DEF ServerTypes
<1>3. op' \in [Servers -> Operations]
  BY <1>0 DEF ServerTypes, Operations, Pcs, Idle
<1>4. watcher' \in [Servers -> Refreshes]
  BY <1>0 DEF ServerTypes, Refreshes
<1>5. /\ remote' \in [Servers -> SUBSET Names] /\ phase' = phase
      /\ cancelled' \subseteq Servers /\ pending' \subseteq Servers
      /\ stopping' \subseteq stopping
  BY <1>0 DEF ServerTypes
<1>6. ServerTypes'
  BY <1>0, <1>1, <1>2, <1>3, <1>4, <1>5 DEF ServerTypes
<1>7. Others(s)
  BY <1>0 DEF Others, ServerTypes
<1>8. Held(s)'
  BY <1>0 DEF Held, Shut, Unreachable, ServerTypes, Steps, Allowed, Serving, Idle, Snapshots, Operations, Refreshes
<1>9. Shut(s)'
  BY <1>0 DEF Held, Shut, Unreachable, ServerTypes, Steps, Allowed, Serving, Idle, Snapshots, Operations, Refreshes
<1> QED
  BY <1>5, <1>6, <1>7, <1>8, <1>9, OneServer

\* A browser authorization waits, with nothing connected.
LEMMA ConnectAsksKeeps ==
    ASSUME McpInv, NEW s \in Servers, ConnectAsks(s)
    PROVE  McpInv'
<1> USE DEF ConnectAsks, Send, Finish, sessionVars, viewVars, serverVars
<1>0. ServerTypes /\ Held(s) /\ Shut(s)
  BY DEF McpInv
<1>1. pub' \in [Servers -> Snapshots]
  BY <1>0 DEF ServerTypes, Snapshots, States, Rounds, Serving
<1>2. client' \in [Servers -> {"none", "held", "installed"}]
  BY <1>0 DEF ServerTypes
<1>3. op' \in [Servers -> Operations]
  BY <1>0 DEF ServerTypes, Operations, Pcs, Idle
<1>4. watcher' \in [Servers -> Refreshes]
  BY <1>0 DEF ServerTypes, Refreshes
<1>5. /\ remote' \in [Servers -> SUBSET Names] /\ phase' = phase
      /\ cancelled' \subseteq Servers /\ pending' \subseteq Servers
      /\ stopping' \subseteq stopping
  BY <1>0 DEF ServerTypes
<1>6. ServerTypes'
  BY <1>0, <1>1, <1>2, <1>3, <1>4, <1>5 DEF ServerTypes
<1>7. Others(s)
  BY <1>0 DEF Others, ServerTypes
<1>8. Held(s)'
  BY <1>0 DEF Held, Shut, Unreachable, ServerTypes, Steps, Allowed, Serving, Idle, Snapshots, Operations, Refreshes
<1>9. Shut(s)'
  BY <1>0 DEF Held, Shut, Unreachable, ServerTypes, Steps, Allowed, Serving, Idle, Snapshots, Operations, Refreshes
<1> QED
  BY <1>5, <1>6, <1>7, <1>8, <1>9, OneServer

\* The operation holds a client; behind a shutdown it is refused at once.
LEMMA NegotiatedKeeps ==
    ASSUME McpInv, NEW s \in Servers, Negotiated(s)
    PROVE  McpInv'
<1> USE DEF Negotiated, Goto, Finish, sessionVars, viewVars, serverVars
<1>0. ServerTypes /\ Held(s) /\ Shut(s)
  BY DEF McpInv
<1>1. pub' \in [Servers -> Snapshots]
  BY <1>0 DEF ServerTypes, Snapshots, States, Rounds, Serving
<1>2. client' \in [Servers -> {"none", "held", "installed"}]
  BY <1>0 DEF ServerTypes
<1>3. op' \in [Servers -> Operations]
  <2>1. CASE Allowed(pub[s].state, "Discovering")
    BY <1>0, <2>1, SMTT(30) DEF ServerTypes, Operations, Pcs, Idle
  <2>2. CASE ~Allowed(pub[s].state, "Discovering")
    BY <1>0, <2>2 DEF ServerTypes, Operations, Pcs, Idle
  <2> QED
    BY <2>1, <2>2
<1>4. watcher' \in [Servers -> Refreshes]
  BY <1>0 DEF ServerTypes, Refreshes
<1>5. /\ remote' \in [Servers -> SUBSET Names] /\ phase' = phase
      /\ cancelled' \subseteq Servers /\ pending' \subseteq Servers
      /\ stopping' \subseteq stopping
  BY <1>0 DEF ServerTypes
<1>6. ServerTypes'
  BY <1>0, <1>1, <1>2, <1>3, <1>4, <1>5 DEF ServerTypes
<1>7. Others(s)
  BY <1>0 DEF Others, ServerTypes
<1>8. Held(s)'
  <2>1. /\ pub[s].state = "Negotiating" /\ Unreachable(s) /\ op[s] \in Operations
        /\ op[s].kind \notin {"none", "shutdown"} /\ s \notin pending
    BY <1>0 DEF Held, Steps, ServerTypes, Operations, Idle
  <2>2. /\ op'[s].kind = op[s].kind /\ op'[s].pc \in {"refused", "discovering"}
        /\ client'[s] = "held" /\ watcher'[s] = watcher[s]
        /\ pub'[s].state = "Discovering" /\ pub'[s].tools = pub[s].tools
        /\ pub'[s].oauth = IF s \in OAuth THEN "Ready" ELSE pub[s].oauth
    BY <1>0, <2>1 DEF Allowed, ServerTypes, Snapshots, Operations
  <2> QED
    BY <1>0, <2>1, <2>2 DEF Held, Unreachable, Steps
<1>9. Shut(s)'
  BY <1>0 DEF Held, Shut, Unreachable, ServerTypes, Steps, Allowed, Serving, Idle, Snapshots, Operations, Refreshes
<1> QED
  BY <1>5, <1>6, <1>7, <1>8, <1>9, OneServer

\* The answer of a discovery reaches the operation.
LEMMA DiscoverKeeps ==
    ASSUME McpInv, NEW s \in Servers, Discover(s)
    PROVE  McpInv'
<1> USE DEF Discover, sessionVars, viewVars, serverVars
<1>0. ServerTypes /\ Held(s) /\ Shut(s)
  BY DEF McpInv
<1>1. pub' \in [Servers -> Snapshots]
  BY <1>0 DEF ServerTypes, Snapshots, States, Rounds, Serving
<1>2. client' \in [Servers -> {"none", "held", "installed"}]
  BY <1>0 DEF ServerTypes
<1>3. op' \in [Servers -> Operations]
  BY <1>0, ZenonT(60) DEF ServerTypes, Operations, Pcs, Idle
<1>4. watcher' \in [Servers -> Refreshes]
  BY <1>0 DEF ServerTypes, Refreshes
<1>5. /\ remote' \in [Servers -> SUBSET Names] /\ phase' = phase
      /\ cancelled' \subseteq Servers /\ pending' \subseteq Servers
      /\ stopping' \subseteq stopping
  BY <1>0 DEF ServerTypes
<1>6. ServerTypes'
  BY <1>0, <1>1, <1>2, <1>3, <1>4, <1>5 DEF ServerTypes
<1>7. Others(s)
  BY <1>0 DEF Others, ServerTypes
<1>8. Held(s)'
  BY <1>0 DEF Held, Shut, Unreachable, ServerTypes, Steps, Allowed, Serving, Idle, Snapshots, Operations, Refreshes
<1>9. Shut(s)'
  BY <1>0 DEF Held, Shut, Unreachable, ServerTypes, Steps, Allowed, Serving, Idle, Snapshots, Operations, Refreshes
<1> QED
  BY <1>5, <1>6, <1>7, <1>8, <1>9, OneServer

\* A failed discovery gives its client up.
LEMMA DiscoverFailsKeeps ==
    ASSUME McpInv, NEW s \in Servers, DiscoverFails(s)
    PROVE  McpInv'
<1> USE DEF DiscoverFails, Fail, Publish, Send, Finish, Happens, sessionVars, viewVars, serverVars
<1>0. ServerTypes /\ Held(s) /\ Shut(s)
  BY DEF McpInv
<1>1. pub' \in [Servers -> Snapshots]
  BY <1>0 DEF ServerTypes, Snapshots, States, Rounds, Serving
<1>2. client' \in [Servers -> {"none", "held", "installed"}]
  BY <1>0 DEF ServerTypes
<1>3. op' \in [Servers -> Operations]
  BY <1>0 DEF ServerTypes, Operations, Pcs, Idle
<1>4. watcher' \in [Servers -> Refreshes]
  BY <1>0 DEF ServerTypes, Refreshes
<1>5. /\ remote' \in [Servers -> SUBSET Names] /\ phase' = phase
      /\ cancelled' \subseteq Servers /\ pending' \subseteq Servers
      /\ stopping' \subseteq stopping
  BY <1>0 DEF ServerTypes
<1>6. ServerTypes'
  BY <1>0, <1>1, <1>2, <1>3, <1>4, <1>5 DEF ServerTypes
<1>7. Others(s)
  BY <1>0 DEF Others, ServerTypes
<1>8. Held(s)'
  BY <1>0 DEF Held, Shut, Unreachable, ServerTypes, Steps, Allowed, Serving, Idle, Snapshots, Operations, Refreshes
<1>9. Shut(s)'
  BY <1>0 DEF Held, Shut, Unreachable, ServerTypes, Steps, Allowed, Serving, Idle, Snapshots, Operations, Refreshes
<1> QED
  BY <1>5, <1>6, <1>7, <1>8, <1>9, OneServer

\* Only a discovery that was not refused puts Tools on offer.
LEMMA ActivateKeeps ==
    ASSUME McpInv, NEW s \in Servers, Activate(s)
    PROVE  McpInv'
<1> USE DEF Activate, Goto, sessionVars, viewVars, serverVars
<1>0. ServerTypes /\ Held(s) /\ Shut(s)
  BY DEF McpInv
<1>1. pub' \in [Servers -> Snapshots]
  <2>1. pub[s] \in Snapshots /\ op[s].found \in SUBSET Names
    BY <1>0 DEF ServerTypes, Operations
  <2> QED
    BY <1>0, <2>1 DEF ServerTypes, Snapshots, States, Serving
<1>2. client' \in [Servers -> {"none", "held", "installed"}]
  BY <1>0 DEF ServerTypes
<1>3. op' \in [Servers -> Operations]
  BY <1>0 DEF ServerTypes, Operations, Pcs, Idle
<1>4. watcher' \in [Servers -> Refreshes]
  BY <1>0 DEF ServerTypes, Refreshes
<1>5. /\ remote' \in [Servers -> SUBSET Names] /\ phase' = phase
      /\ cancelled' \subseteq Servers /\ pending' \subseteq Servers
      /\ stopping' \subseteq stopping
  BY <1>0 DEF ServerTypes
<1>6. ServerTypes'
  BY <1>0, <1>1, <1>2, <1>3, <1>4, <1>5 DEF ServerTypes
<1>7. Others(s)
  BY <1>0 DEF Others, ServerTypes
<1>8. Held(s)'
  BY <1>0 DEF Held, Shut, Unreachable, ServerTypes, Steps, Allowed, Serving, Idle, Snapshots, Operations, Refreshes
<1>9. Shut(s)'
  BY <1>0 DEF Held, Shut, Unreachable, ServerTypes, Steps, Allowed, Serving, Idle, Snapshots, Operations, Refreshes
<1> QED
  BY <1>5, <1>6, <1>7, <1>8, <1>9, OneServer

\* The client of a published connection is installed and followed.
LEMMA InstallKeeps ==
    ASSUME McpInv, NEW s \in Servers, Install(s)
    PROVE  McpInv'
<1> USE DEF Install, Send, Finish, sessionVars, viewVars, serverVars
<1>0. ServerTypes /\ Held(s) /\ Shut(s)
  BY DEF McpInv
<1>1. pub' \in [Servers -> Snapshots]
  BY <1>0 DEF ServerTypes
<1>2. client' \in [Servers -> {"none", "held", "installed"}]
  BY <1>0 DEF ServerTypes
<1>3. op' \in [Servers -> Operations]
  BY <1>0 DEF ServerTypes, Operations, Pcs, Idle
<1>4. watcher' \in [Servers -> Refreshes]
  BY <1>0 DEF ServerTypes, Refreshes
<1>5. /\ remote' \in [Servers -> SUBSET Names] /\ phase' = phase
      /\ cancelled' \subseteq Servers /\ pending' \subseteq Servers
      /\ stopping' \subseteq stopping
  BY <1>0 DEF ServerTypes
<1>6. ServerTypes'
  BY <1>0, <1>1, <1>2, <1>3, <1>4, <1>5 DEF ServerTypes
<1>7. Others(s)
  BY <1>0 DEF Others, ServerTypes
<1>8. Held(s)'
  BY <1>0 DEF Held, Shut, Unreachable, ServerTypes, Steps, Allowed, Serving, Idle, Snapshots, Operations, Refreshes
<1>9. Shut(s)'
  BY <1>0 DEF Held, Shut, Unreachable, ServerTypes, Steps, Allowed, Serving, Idle, Snapshots, Operations, Refreshes
<1> QED
  BY <1>5, <1>6, <1>7, <1>8, <1>9, OneServer

\* A reconnect withdraws the catalog first.
LEMMA ReconnectKeeps ==
    ASSUME McpInv, NEW s \in Servers, Reconnect(s)
    PROVE  McpInv'
<1> USE DEF Reconnect, Stop, Publish, Send, Happens, sessionVars, viewVars, serverVars
<1>0. ServerTypes /\ Held(s) /\ Shut(s)
  BY DEF McpInv
<1>1. pub' \in [Servers -> Snapshots]
  BY <1>0 DEF ServerTypes, Snapshots, States, Rounds, Serving
<1>2. client' \in [Servers -> {"none", "held", "installed"}]
  BY <1>0 DEF ServerTypes
<1>3. op' \in [Servers -> Operations]
  BY <1>0 DEF ServerTypes, Operations, Pcs, Idle
<1>4. watcher' \in [Servers -> Refreshes]
  BY <1>0 DEF ServerTypes, Refreshes
<1>5. /\ remote' \in [Servers -> SUBSET Names] /\ phase' = phase
      /\ cancelled' \subseteq Servers /\ pending' \subseteq Servers
      /\ stopping' \subseteq stopping
  BY <1>0 DEF ServerTypes
<1>6. ServerTypes'
  BY <1>0, <1>1, <1>2, <1>3, <1>4, <1>5 DEF ServerTypes
<1>7. Others(s)
  BY <1>0 DEF Others, ServerTypes
<1>8. Held(s)'
  BY <1>0 DEF Held, Shut, Unreachable, ServerTypes, Steps, Allowed, Serving, Idle, Snapshots, Operations, Refreshes
<1>9. Shut(s)'
  BY <1>0 DEF Held, Shut, Unreachable, ServerTypes, Steps, Allowed, Serving, Idle, Snapshots, Operations, Refreshes
<1> QED
  BY <1>5, <1>6, <1>7, <1>8, <1>9, OneServer

\* The end of an authorization finds the server as its round left it.
LEMMA AuthorizeKeeps ==
    ASSUME McpInv, NEW s \in Servers, Authorize(s)
    PROVE  McpInv'
<1> USE DEF Authorize, Send, sessionVars, viewVars, serverVars
<1>0. ServerTypes /\ Held(s) /\ Shut(s)
  BY DEF McpInv
<1>1. pub' \in [Servers -> Snapshots]
  <2>1. pub[s] \in Snapshots
    BY <1>0 DEF ServerTypes
  <2>2. CASE s \in pending
    BY <1>0, <2>1, <2>2 DEF ServerTypes, Snapshots, States, Rounds
  <2>3. CASE s \notin pending
    BY <1>0, <2>1, <2>3 DEF ServerTypes, Snapshots, States, Rounds
  <2> QED
    BY <2>2, <2>3
<1>2. client' \in [Servers -> {"none", "held", "installed"}]
  BY <1>0 DEF ServerTypes
<1>3. op' \in [Servers -> Operations]
  BY <1>0 DEF ServerTypes, Operations, Pcs, Idle
<1>4. watcher' \in [Servers -> Refreshes]
  BY <1>0 DEF ServerTypes, Refreshes
<1>5. /\ remote' \in [Servers -> SUBSET Names] /\ phase' = phase
      /\ cancelled' \subseteq Servers /\ pending' \subseteq Servers
      /\ stopping' \subseteq stopping
  BY <1>0 DEF ServerTypes
<1>6. ServerTypes'
  BY <1>0, <1>1, <1>2, <1>3, <1>4, <1>5 DEF ServerTypes
<1>7. Others(s)
  BY <1>0 DEF Others, ServerTypes
<1>8. Held(s)'
  <2>1. /\ op[s] = Idle /\ pub[s].oauth = "Unauthenticated"
        /\ pub[s].state \in {"Negotiating", "Failed", "Stopped"} /\ Unreachable(s)
    BY <1>0 DEF Held, Idle, Serving
  <2>2. pub[s] \in Snapshots
    BY <1>0 DEF ServerTypes
  <2>3. CASE s \in pending
    <3>1. /\ pub'[s] = [pub[s] EXCEPT !.oauth = "Authorizing"]
          /\ op'[s] = [kind |-> "authorize", found |-> {}, pc |-> "authorizing"]
      BY <1>0, <2>3 DEF ServerTypes
    <3> QED
      BY <1>0, <2>1, <2>2, <2>3, <3>1 DEF Held, Unreachable, Snapshots
  <2>4. CASE s \notin pending
    <3>1. /\ pub'[s] = [pub[s] EXCEPT !.oauth = "Failed", !.state =
                            IF Allowed(@, "Failed") THEN "Failed" ELSE @]
          /\ op'[s] = op[s]
      BY <1>0, <2>4 DEF ServerTypes
    <3> QED
      BY <1>0, <2>1, <2>2, <2>4, <3>1 DEF Held, Unreachable, Snapshots, Idle
  <2> QED
    BY <2>3, <2>4
<1>9. Shut(s)'
  BY <1>0 DEF Held, Shut, Unreachable, ServerTypes, Steps, Allowed, Serving, Idle, Snapshots, Operations, Refreshes
<1> QED
  BY <1>5, <1>6, <1>7, <1>8, <1>9, OneServer

\* A stop ends with the client closed and the refresh task gone.
LEMMA StopEndsKeeps ==
    ASSUME McpInv, NEW s \in Servers, StopEnds(s)
    PROVE  McpInv'
<1> USE DEF StopEnds, Publish, Fail, Send, Goto, Finish, Happens, sessionVars, viewVars, serverVars
<1>0. ServerTypes /\ Held(s) /\ Shut(s)
  BY DEF McpInv
<1>1. pub' \in [Servers -> Snapshots]
  BY <1>0 DEF ServerTypes, Snapshots, States, Rounds, Serving
<1>2. client' \in [Servers -> {"none", "held", "installed"}]
  BY <1>0 DEF ServerTypes
<1>3. op' \in [Servers -> Operations]
  <2>1. op[s] \in Operations
    BY <1>0 DEF ServerTypes
  <2>2. CASE op[s].kind = "reconnect"
    BY <1>0, <2>1, <2>2 DEF ServerTypes, Operations, Pcs
  <2>3. CASE op[s].kind # "reconnect"
    BY <1>0, <2>3 DEF ServerTypes, Operations, Pcs, Idle
  <2> QED
    BY <2>2, <2>3
<1>4. watcher' \in [Servers -> Refreshes]
  BY <1>0 DEF ServerTypes, Refreshes
<1>5. /\ remote' \in [Servers -> SUBSET Names] /\ phase' = phase
      /\ cancelled' \subseteq Servers /\ pending' \subseteq Servers
      /\ stopping' \subseteq stopping
  BY <1>0 DEF ServerTypes
<1>6. ServerTypes'
  BY <1>0, <1>1, <1>2, <1>3, <1>4, <1>5 DEF ServerTypes
<1>7. Others(s)
  BY <1>0 DEF Others, ServerTypes
<1>8. Held(s)'
  <2>1. /\ pub[s].state = "Stopping" /\ pub[s].tools = {}
        /\ op[s].kind \in {"reconnect", "shutdown"} /\ op[s].pc = "join"
        /\ s \notin pending
    BY <1>0 DEF Held, Steps, Idle
  <2>2. /\ pub'[s].state \in {"Stopped", "Failed"} /\ pub'[s].tools = {}
        /\ pub'[s].oauth = pub[s].oauth
    BY <1>0, <2>1 DEF Allowed, ServerTypes
  <2>3. Unreachable(s)'
    BY <1>0, <2>2 DEF Unreachable, ServerTypes
  <2>4. CASE op[s].kind = "reconnect"
    <3>1. op'[s].pc = "connect" /\ op'[s].kind = "reconnect"
      BY <1>0, <2>4 DEF ServerTypes, Operations
    <3> QED
      BY <1>0, <2>1, <2>2, <2>3, <3>1 DEF Held
  <2>5. CASE op[s].kind # "reconnect"
    <3>1. op'[s] = Idle
      BY <1>0, <2>5 DEF ServerTypes
    <3> QED
      BY <1>0, <2>1, <2>2, <2>3, <3>1 DEF Held, Idle
  <2> QED
    BY <2>4, <2>5
<1>9. Shut(s)'
  BY <1>0 DEF Held, Shut, Unreachable, ServerTypes, Steps, Allowed, Serving, Idle, Snapshots, Operations, Refreshes
<1> QED
  BY <1>5, <1>6, <1>7, <1>8, <1>9, OneServer

\* A refresh asks for the list.
LEMMA RefreshBeginsKeeps ==
    ASSUME McpInv, NEW s \in Servers, RefreshBegins(s)
    PROVE  McpInv'
<1> USE DEF RefreshBegins, sessionVars, viewVars, serverVars
<1>0. ServerTypes /\ Held(s) /\ Shut(s)
  BY DEF McpInv
<1>1. pub' \in [Servers -> Snapshots]
  BY <1>0 DEF ServerTypes, Snapshots, States, Rounds, Serving
<1>2. client' \in [Servers -> {"none", "held", "installed"}]
  BY <1>0 DEF ServerTypes
<1>3. op' \in [Servers -> Operations]
  BY <1>0 DEF ServerTypes, Operations, Pcs, Idle
<1>4. watcher' \in [Servers -> Refreshes]
  BY <1>0 DEF ServerTypes, Refreshes
<1>5. /\ remote' \in [Servers -> SUBSET Names] /\ phase' = phase
      /\ cancelled' \subseteq Servers /\ pending' \subseteq Servers
      /\ stopping' \subseteq stopping
  BY <1>0 DEF ServerTypes
<1>6. ServerTypes'
  BY <1>0, <1>1, <1>2, <1>3, <1>4, <1>5 DEF ServerTypes
<1>7. Others(s)
  BY <1>0 DEF Others, ServerTypes
<1>8. Held(s)'
  BY <1>0 DEF Held, Shut, Unreachable, ServerTypes, Steps, Allowed, Serving, Idle, Snapshots, Operations, Refreshes
<1>9. Shut(s)'
  BY <1>0 DEF Held, Shut, Unreachable, ServerTypes, Steps, Allowed, Serving, Idle, Snapshots, Operations, Refreshes
<1> QED
  BY <1>5, <1>6, <1>7, <1>8, <1>9, OneServer

\* The list arrives.
LEMMA RefreshListsKeeps ==
    ASSUME McpInv, NEW s \in Servers, RefreshLists(s)
    PROVE  McpInv'
<1> USE DEF RefreshLists, sessionVars, viewVars, serverVars
<1>0. ServerTypes /\ Held(s) /\ Shut(s)
  BY DEF McpInv
<1>1. pub' \in [Servers -> Snapshots]
  BY <1>0 DEF ServerTypes, Snapshots, States, Rounds, Serving
<1>2. client' \in [Servers -> {"none", "held", "installed"}]
  BY <1>0 DEF ServerTypes
<1>3. op' \in [Servers -> Operations]
  BY <1>0 DEF ServerTypes, Operations, Pcs, Idle
<1>4. watcher' \in [Servers -> Refreshes]
  BY <1>0 DEF ServerTypes, Refreshes
<1>5. /\ remote' \in [Servers -> SUBSET Names] /\ phase' = phase
      /\ cancelled' \subseteq Servers /\ pending' \subseteq Servers
      /\ stopping' \subseteq stopping
  BY <1>0 DEF ServerTypes
<1>6. ServerTypes'
  BY <1>0, <1>1, <1>2, <1>3, <1>4, <1>5 DEF ServerTypes
<1>7. Others(s)
  BY <1>0 DEF Others, ServerTypes
<1>8. Held(s)'
  BY <1>0 DEF Held, Shut, Unreachable, ServerTypes, Steps, Allowed, Serving, Idle, Snapshots, Operations, Refreshes
<1>9. Shut(s)'
  BY <1>0 DEF Held, Shut, Unreachable, ServerTypes, Steps, Allowed, Serving, Idle, Snapshots, Operations, Refreshes
<1> QED
  BY <1>5, <1>6, <1>7, <1>8, <1>9, OneServer

\* A refresh publishes only on a server that is still served.
LEMMA RefreshEndsKeeps ==
    ASSUME McpInv, NEW s \in Servers, RefreshEnds(s)
    PROVE  McpInv'
<1> USE DEF RefreshEnds, Refreshed, Send, sessionVars, viewVars, serverVars
<1>0. ServerTypes /\ Held(s) /\ Shut(s)
  BY DEF McpInv
<1>1. pub' \in [Servers -> Snapshots]
  BY <1>0 DEF ServerTypes, Snapshots, States, Rounds, Serving
<1>2. client' \in [Servers -> {"none", "held", "installed"}]
  BY <1>0 DEF ServerTypes
<1>3. op' \in [Servers -> Operations]
  BY <1>0 DEF ServerTypes, Operations, Pcs, Idle
<1>4. watcher' \in [Servers -> Refreshes]
  BY <1>0 DEF ServerTypes, Refreshes
<1>5. /\ remote' \in [Servers -> SUBSET Names] /\ phase' = phase
      /\ cancelled' \subseteq Servers /\ pending' \subseteq Servers
      /\ stopping' \subseteq stopping
  BY <1>0 DEF ServerTypes
<1>6. ServerTypes'
  BY <1>0, <1>1, <1>2, <1>3, <1>4, <1>5 DEF ServerTypes
<1>7. Others(s)
  BY <1>0 DEF Others, ServerTypes
<1>8. Held(s)'
  BY <1>0 DEF Held, Shut, Unreachable, ServerTypes, Steps, Allowed, Serving, Idle, Snapshots, Operations, Refreshes
<1>9. Shut(s)'
  BY <1>0 DEF Held, Shut, Unreachable, ServerTypes, Steps, Allowed, Serving, Idle, Snapshots, Operations, Refreshes
<1> QED
  BY <1>5, <1>6, <1>7, <1>8, <1>9, OneServer

\* A failed refresh degrades a server that is served, and no other.
LEMMA RefreshFailsKeeps ==
    ASSUME McpInv, NEW s \in Servers, RefreshFails(s)
    PROVE  McpInv'
<1> USE DEF RefreshFails, Publish, Send, Happens, sessionVars, viewVars, serverVars
<1>0. ServerTypes /\ Held(s) /\ Shut(s)
  BY DEF McpInv
<1>1. pub' \in [Servers -> Snapshots]
  BY <1>0 DEF ServerTypes, Snapshots, States, Rounds, Serving
<1>2. client' \in [Servers -> {"none", "held", "installed"}]
  BY <1>0 DEF ServerTypes
<1>3. op' \in [Servers -> Operations]
  BY <1>0 DEF ServerTypes, Operations, Pcs, Idle
<1>4. watcher' \in [Servers -> Refreshes]
  BY <1>0 DEF ServerTypes, Refreshes
<1>5. /\ remote' \in [Servers -> SUBSET Names] /\ phase' = phase
      /\ cancelled' \subseteq Servers /\ pending' \subseteq Servers
      /\ stopping' \subseteq stopping
  BY <1>0 DEF ServerTypes
<1>6. ServerTypes'
  BY <1>0, <1>1, <1>2, <1>3, <1>4, <1>5 DEF ServerTypes
<1>7. Others(s)
  BY <1>0 DEF Others, ServerTypes
<1>8. Held(s)'
  BY <1>0 DEF Held, Shut, Unreachable, ServerTypes, Steps, Allowed, Serving, Idle, Snapshots, Operations, Refreshes
<1>9. Shut(s)'
  BY <1>0 DEF Held, Shut, Unreachable, ServerTypes, Steps, Allowed, Serving, Idle, Snapshots, Operations, Refreshes
<1> QED
  BY <1>5, <1>6, <1>7, <1>8, <1>9, OneServer

\* The refresh task ends once its lifecycle is cancelled.
LEMMA WatcherEndsKeeps ==
    ASSUME McpInv, NEW s \in Servers, WatcherEnds(s)
    PROVE  McpInv'
<1> USE DEF WatcherEnds, sessionVars, viewVars, serverVars
<1>0. ServerTypes /\ Held(s) /\ Shut(s)
  BY DEF McpInv
<1>1. pub' \in [Servers -> Snapshots]
  BY <1>0 DEF ServerTypes, Snapshots, States, Rounds, Serving
<1>2. client' \in [Servers -> {"none", "held", "installed"}]
  BY <1>0 DEF ServerTypes
<1>3. op' \in [Servers -> Operations]
  BY <1>0 DEF ServerTypes, Operations, Pcs, Idle
<1>4. watcher' \in [Servers -> Refreshes]
  BY <1>0 DEF ServerTypes, Refreshes
<1>5. /\ remote' \in [Servers -> SUBSET Names] /\ phase' = phase
      /\ cancelled' \subseteq Servers /\ pending' \subseteq Servers
      /\ stopping' \subseteq stopping
  BY <1>0 DEF ServerTypes
<1>6. ServerTypes'
  BY <1>0, <1>1, <1>2, <1>3, <1>4, <1>5 DEF ServerTypes
<1>7. Others(s)
  BY <1>0 DEF Others, ServerTypes
<1>8. Held(s)'
  BY <1>0 DEF Held, Shut, Unreachable, ServerTypes, Steps, Allowed, Serving, Idle, Snapshots, Operations, Refreshes
<1>9. Shut(s)'
  BY <1>0 DEF Held, Shut, Unreachable, ServerTypes, Steps, Allowed, Serving, Idle, Snapshots, Operations, Refreshes
<1> QED
  BY <1>5, <1>6, <1>7, <1>8, <1>9, OneServer

\* The shutdown stops one server after the other.
LEMMA ShutdownStopsKeeps ==
    ASSUME McpInv, NEW s \in Servers, ShutdownStops(s)
    PROVE  McpInv'
<1> USE DEF ShutdownStops, Stop, Publish, Send, sessionVars, viewVars, serverVars
<1>0. ServerTypes /\ Held(s) /\ Shut(s)
  BY DEF McpInv
<1>1. pub' \in [Servers -> Snapshots]
  BY <1>0 DEF ServerTypes, Snapshots, States, Rounds, Serving
<1>2. client' \in [Servers -> {"none", "held", "installed"}]
  BY <1>0 DEF ServerTypes
<1>3. op' \in [Servers -> Operations]
  BY <1>0 DEF ServerTypes, Operations, Pcs, Idle
<1>4. watcher' \in [Servers -> Refreshes]
  BY <1>0 DEF ServerTypes, Refreshes
<1>5. /\ remote' \in [Servers -> SUBSET Names] /\ phase' = phase
      /\ cancelled' \subseteq Servers /\ pending' \subseteq Servers
      /\ stopping' \subseteq stopping
  BY <1>0 DEF ServerTypes
<1>6. ServerTypes'
  BY <1>0, <1>1, <1>2, <1>3, <1>4, <1>5 DEF ServerTypes
<1>7. Others(s)
  BY <1>0 DEF Others, ServerTypes
<1>8. Held(s)'
  <2>1. op[s] = Idle
    OBVIOUS
  <2>2. CASE pub[s].state = "Stopped"
    BY <1>0, <2>1, <2>2 DEF Held, Unreachable, Idle
  <2>3. CASE pub[s].state # "Stopped"
    <3>0. Allowed(pub[s].state, "Stopping")
      BY <1>0, <2>1, <2>3 DEF Held, Allowed, Idle, Serving
    <3>1. /\ pub'[s] = [state |-> "Stopping", oauth |-> pub[s].oauth, tools |-> {}]
          /\ op'[s] = [kind |-> "shutdown", pc |-> "join", found |-> {}]
      BY <1>0, <2>3, <3>0 DEF ServerTypes
    <3> QED
      BY <1>0, <2>1, <2>3, <3>1 DEF Held, Unreachable, Idle, Serving
  <2> QED
    BY <2>2, <2>3
<1>9. Shut(s)'
  BY <1>0 DEF Held, Shut, Unreachable, ServerTypes, Steps, Allowed, Serving, Idle, Snapshots, Operations, Refreshes
<1> QED
  BY <1>5, <1>6, <1>7, <1>8, <1>9, OneServer

\* The shutdown cancels every lifecycle before it stops the first server.
LEMMA ShutdownBeginsKeeps ==
    ASSUME McpInv, ShutdownBegins
    PROVE  McpInv'
<1> USE DEF ShutdownBegins, viewVars
<1>1. ServerTypes'
  BY DEF McpInv, ServerTypes
<1>2. ASSUME NEW s \in Servers
      PROVE  Held(s)' /\ Shut(s)'
  <2>1. Held(s)
    BY DEF McpInv
  <2>2. Held(s)'
    BY <2>1 DEF Held, Unreachable
  <2>3. Shut(s)'
    BY DEF Shut
  <2> QED
    BY <2>2, <2>3
<1> QED
  BY <1>1, <1>2 DEF McpInv

\* The steps that move the Session through its other phases.
LEMMA PhaseKeeps ==
    ASSUME McpInv, NewAggregates \/ NewSubscribes \/ ShutdownEnds
    PROVE  McpInv'
<1> USE DEF NewAggregates, NewSubscribes, ShutdownEnds, serverVars, viewVars
<1>1. ServerTypes'
  BY DEF McpInv, ServerTypes
<1>2. ASSUME NEW s \in Servers
      PROVE  Held(s)' /\ Shut(s)'
  <2>1. Held(s) /\ Shut(s)
    BY DEF McpInv
  <2>2. Held(s)'
    BY <2>1 DEF Held, Unreachable
  <2>3. Shut(s)'
    BY <2>1 DEF Shut
  <2> QED
    BY <2>2, <2>3
<1> QED
  BY <1>1, <1>2 DEF McpInv

LEMMA McpInitial == Init => McpInv
<1> SUFFICES ASSUME Init PROVE McpInv
  OBVIOUS
<1>1. \A s \in Servers : pub[s] \in Bootstrapped(s)
  BY DEF Init
<1>2. \A s \in Servers : pub[s] \in Snapshots
  BY <1>1 DEF Init, Bootstrapped, Snapshots, States, Rounds
<1>3. pub \in [Servers -> Snapshots]
  BY <1>2 DEF Init
<1>4. ServerTypes
  BY <1>3 DEF Init, ServerTypes, Operations, Pcs, Refreshes, Idle
<1>5. ASSUME NEW s \in Servers
      PROVE  Held(s) /\ Shut(s)
  <2>1. pub[s] \in Bootstrapped(s)
    BY <1>1
  <2>2. Held(s)
    BY <2>1 DEF Init, Held, Unreachable, Bootstrapped, Idle, Serving
  <2>3. Shut(s)
    BY DEF Init, Shut
  <2> QED
    BY <2>2, <2>3
<1> QED
  BY <1>4, <1>5 DEF McpInv, Init

LEMMA McpStep ==
    ASSUME McpInv, [Next]_vars
    PROVE  McpInv'
<1>1. ASSUME NEW s \in Servers, ServerSteps(s)
      PROVE  McpInv'
  <2>1. CASE RemoteChanges(s)
    <3>1. remote' \in [Servers -> SUBSET Names]
      BY <2>1 DEF RemoteChanges, McpInv, ServerTypes
    <3>2. UNCHANGED <<serverVars, phase, stopping>>
      BY <2>1 DEF RemoteChanges, sessionVars
    <3> QED
      BY <3>1, <3>2 DEF McpInv, ServerTypes, Held, Shut, Unreachable, serverVars
  <2>2. CASE TaskReads(s) \/ TaskPublishes(s) \/ TaskEnds(s)
    BY <2>2, McpQuiet DEF TaskReads, TaskPublishes, TaskEnds
  <2> QED
    BY <1>1, <2>1, <2>2, ConnectKeeps, ConnectFailsKeeps, ConnectAsksKeeps,
       NegotiatedKeeps, DiscoverKeeps, DiscoverFailsKeeps, ActivateKeeps,
       InstallKeeps, ReconnectKeeps, AuthorizeKeeps, StopEndsKeeps, RefreshBeginsKeeps,
       RefreshListsKeeps, RefreshEndsKeeps, RefreshFailsKeeps, WatcherEndsKeeps,
       ShutdownStopsKeeps DEF ServerSteps
<1>2. ASSUME NEW v \in Views, ViewSteps(v)
      PROVE  McpInv'
  BY <1>2, McpQuiet DEF ViewSteps, Acquire, StartProjection, Project, Release, sessionVars
<1>3. CASE UNCHANGED vars
  BY <1>3, McpQuiet DEF vars, sessionVars
<1> QED
  BY <1>1, <1>2, <1>3, PhaseKeeps, ShutdownBeginsKeeps DEF Next

\* Whatever fails, reconnects or is shut down, and however late a refresh, an
\* authorization or a reconnect ends: a server with Tools on offer is in a state
\* and has a client a call can use, or is about to install it, and a closed
\* Session leaves no connection.
THEOREM OffersAreServed == Spec => []ServedOnlyWhileConnected
<1>1. McpInv => ServedOnlyWhileConnected
  <2> SUFFICES ASSUME McpInv, NEW s \in Servers
               PROVE  /\ pub[s].tools # {} =>
                           /\ pub[s].state \in Serving
                           /\ client[s] = "installed" \/ op[s].pc = "published"
                      /\ phase = "closed" /\ op[s] = Idle =>
                           client[s] = "none" /\ watcher[s].pc = "none" /\ pub[s].tools = {}
    BY DEF ServedOnlyWhileConnected
  <2>1. Held(s) /\ Shut(s) /\ op[s].pc \in Pcs
    BY DEF McpInv, ServerTypes, Operations
  <2>2. pub[s].tools # {} =>
          /\ pub[s].state \in Serving
          /\ client[s] = "installed" \/ op[s].pc = "published"
    BY <2>1 DEF Held, Unreachable, Pcs, Serving
  <2>3. ASSUME phase = "closed", op[s] = Idle
        PROVE  client[s] = "none" /\ watcher[s].pc = "none" /\ pub[s].tools = {}
    BY <2>1, <2>3 DEF Held, Shut, Unreachable, Idle
  <2> QED
    BY <2>2, <2>3
<1> QED
  BY <1>1, McpInitial, McpStep, PTL DEF Spec

\* A set of numbers has a least one.
LEMMA LeastRound ==
    ASSUME NEW T, T \subseteq Nat, T # {}
    PROVE  \E x \in T : \A y \in T : x <= y
<1>1. \E x \in T : \A y \in T : ~(<<y, x>> \in OpToRel(<, Nat))
  BY NatLessThanWellFounded, WFMin, Zenon
<1>2. \A x, y \in T : ~(<<y, x>> \in OpToRel(<, Nat)) => ~(y < x)
  BY Zenon DEF OpToRel
<1>3. \E x \in T : \A y \in T : ~(y < x)
  BY <1>1, <1>2, Zenon
<1> QED
  BY <1>3

-----------------------------------------------------------------------------
(* The loop of aggregate.                                                   *)

\* The servers whose offer differs from the one in the last snapshot.
Changed(previous, views) == {s \in Servers : previous[s] # views[s]}

\* f lists the servers that the first n rounds of the loop have rejected.
IsRounds(previous, views, f, n) ==
    f = [k \in 0..n |->
           IF k = 0 THEN {}
           ELSE f[k - 1] \cup (Colliding(previous, views, f[k - 1])
                                 \cap Changed(previous, views))]

\* The recursion of the loop has a solution, whatever the number of rounds.
LEMMA RoundsExist ==
    ASSUME NEW p, NEW v, NEW n \in Nat
    PROVE  \E f : IsRounds(p, v, f, n)
<1> DEFINE T == {k \in Nat : ~ \E f : IsRounds(p, v, f, k)}
<1> SUFFICES ASSUME T # {} PROVE FALSE
  OBVIOUS
<1>1. PICK k \in T : \A j \in T : k <= j
  <2>1. T \subseteq Nat
    OBVIOUS
  <2> HIDE DEF T
  <2> QED
    BY <2>1, LeastRound
<1>2. CASE k = 0
  <2> DEFINE f == [i \in 0..0 |-> {}]
  <2>1. IsRounds(p, v, f, 0)
    BY DEF IsRounds
  <2> QED
    BY <2>1, <1>1, <1>2
<1>3. CASE k # 0
  <2>1. k - 1 \in Nat /\ k - 1 \notin T /\ k \in Nat
    BY <1>1, <1>3
  <2>2. PICK f : IsRounds(p, v, f, k - 1)
    BY <2>1
  <2> DEFINE Last == f[k - 1] \cup (Colliding(p, v, f[k - 1]) \cap Changed(p, v))
             g == [i \in 0..k |-> IF i = k THEN Last ELSE f[i]]
  <2>3. \A i \in 0..(k - 1) : g[i] = f[i]
    BY <2>1
  <2>4. g[k] = Last
    BY <2>1
  <2>5. \A i \in 0..k : i # 0 => i - 1 \in 0..(k - 1)
    BY <2>1
  <2>6. \A i \in 0..k : i # k => i \in 0..(k - 1)
    BY <2>1
  <2>7. \A i \in 0..(k - 1) : f[i] = IF i = 0 THEN {} ELSE f[i - 1] \cup
             (Colliding(p, v, f[i - 1]) \cap Changed(p, v))
    BY <2>2 DEF IsRounds
  <2>8. \A i \in 0..k : g[i] = IF i = 0 THEN {} ELSE g[i - 1] \cup
             (Colliding(p, v, g[i - 1]) \cap Changed(p, v))
    <3> SUFFICES ASSUME NEW i \in 0..k
                 PROVE  g[i] = IF i = 0 THEN {} ELSE g[i - 1] \cup
                               (Colliding(p, v, g[i - 1]) \cap Changed(p, v))
      OBVIOUS
    <3>1. CASE i = k
      <4>1. i # 0 /\ g[i - 1] = f[i - 1] /\ g[i] = Last
        BY <3>1, <1>3, <2>3, <2>4, <2>5
      <4> HIDE DEF g
      <4> QED
        BY <4>1, <3>1
    <3>2. CASE i # k
      <4>1. g[i] = f[i] /\ (i # 0 => g[i - 1] = f[i - 1])
        BY <3>2, <2>3, <2>5, <2>6
      <4>2. i \in 0..(k - 1)
        BY <3>2, <2>6
      <4> HIDE DEF g
      <4> QED
        BY <4>1, <4>2, <2>7
    <3> QED
      BY <3>1, <3>2
  <2>9. IsRounds(p, v, g, k)
    <3>1. g = [i \in 0..k |-> g[i]]
      OBVIOUS
    <3> HIDE DEF g
    <3> QED
      BY <3>1, <2>8 DEF IsRounds
  <2> QED
    BY <2>9, <1>1
<1> QED
  BY <1>2, <1>3

\* What aggregate rejects is what the last round of such a list rejects.
LEMMA RejectedByRounds ==
    ASSUME NEW p, NEW v
    PROVE  /\ Cardinality(Servers) \in Nat
           /\ \E f : /\ IsRounds(p, v, f, Cardinality(Servers))
                     /\ Rejected(p, v) = f[Cardinality(Servers)]
<1> DEFINE N == Cardinality(Servers)
<1>1. N \in Nat
  BY McpAssumption, FS_CardinalityType
<1> DEFINE g == CHOOSE f : IsRounds(p, v, f, N)
<1>2. IsRounds(p, v, g, N)
  <2> HIDE DEF N
  <2> QED
    BY <1>1, RoundsExist, Zenon
<1>3. Rejected(p, v) = g[N]
  BY DEF Rejected, IsRounds, Changed
<1> QED
  BY <1>1, <1>2, <1>3

\* A rejected server's new Tools collide with the new Tools of another server,
\* or with the old ones of a server that was rejected too.
Clashes(p, v, rejected) ==
    \A s \in rejected : \E t \in Servers \ {s} :
        v[s] \cap (v[t] \cup (IF t \in rejected THEN p[t] ELSE {})) # {}

\* What n rounds have reached: they have stopped rejecting, or have rejected
\* one server each.
Reached(p, v, f, n) ==
    /\ f[n] \subseteq Servers
    /\ Clashes(p, v, f[n])
    /\ n # 0 => f[n] = f[n - 1] \/ Cardinality(f[n]) >= n

\* One more round keeps the reason for every rejection.
LEMMA NextRound ==
    ASSUME NEW p, NEW v, NEW R, R \subseteq Servers, Clashes(p, v, R),
           NEW Q, Q = R \cup (Colliding(p, v, R) \cap Changed(p, v))
    PROVE  Q \subseteq Servers /\ R \subseteq Q /\ Clashes(p, v, Q)
<1>1. Q \subseteq Servers /\ R \subseteq Q
  BY DEF Colliding
<1>2. ASSUME NEW s \in Q
      PROVE  \E t \in Servers \ {s} :
               v[s] \cap (v[t] \cup (IF t \in Q THEN p[t] ELSE {})) # {}
  <2>1. CASE s \in R
    <3>1. PICK t \in Servers \ {s} :
               v[s] \cap (v[t] \cup (IF t \in R THEN p[t] ELSE {})) # {}
      BY <2>1 DEF Clashes
    <3>2. v[s] \cap (v[t] \cup (IF t \in Q THEN p[t] ELSE {})) # {}
      BY <3>1, <1>1
    <3> QED
      BY <3>2
  <2>2. CASE s \notin R
    <3>1. s \in Colliding(p, v, R)
      BY <2>2, <1>2
    <3>2. PICK t \in Servers \ {s} : Offer(s, p, v, R) \cap Offer(t, p, v, R) # {}
      BY <3>1 DEF Colliding
    <3>3. v[s] \cap (IF t \in R THEN p[t] ELSE v[t]) # {}
      BY <2>2, <3>2 DEF Offer
    <3>4. v[s] \cap (v[t] \cup (IF t \in Q THEN p[t] ELSE {})) # {}
      BY <3>3, <1>1
    <3> QED
      BY <3>4
  <2> QED
    BY <2>1, <2>2
<1> QED
  BY <1>1, <1>2 DEF Clashes

\* By the least round of which it is not so: a round that rejects nobody new
\* is followed by none that does.
LEMMA EveryRound ==
    ASSUME NEW p, NEW v, NEW N \in Nat, NEW f, IsRounds(p, v, f, N)
    PROVE  \A n \in 0..N : Reached(p, v, f, n)
<1> DEFINE T == {k \in 0..N : ~ Reached(p, v, f, k)}
<1> SUFFICES ASSUME T # {} PROVE FALSE
  OBVIOUS
<1>0. \A n \in 0..N : f[n] = IF n = 0 THEN {} ELSE f[n - 1] \cup
             (Colliding(p, v, f[n - 1]) \cap Changed(p, v))
  BY DEF IsRounds
<1>1. PICK k \in T : \A j \in T : k <= j
  <2>1. T \subseteq Nat
    OBVIOUS
  <2> HIDE DEF T
  <2> QED
    BY <2>1, LeastRound
<1>2. k \in 0..N /\ ~ Reached(p, v, f, k)
  BY <1>1
<1>3. CASE k = 0
  <2>1. f[k] = {}
    BY <1>0, <1>2, <1>3
  <2>2. Reached(p, v, f, k)
    BY <2>1, <1>3 DEF Reached, Clashes
  <2> QED
    BY <2>2, <1>2
<1>4. CASE k # 0
  <2>1. k - 1 \in 0..N /\ k - 1 \notin T
    BY <1>1, <1>2, <1>4
  <2>2. Reached(p, v, f, k - 1)
    BY <2>1
  <2> DEFINE R == f[k - 1]
             Q == f[k]
  <2>3. Q = R \cup (Colliding(p, v, R) \cap Changed(p, v))
    BY <1>0, <1>2, <1>4
  <2>4. R \subseteq Servers /\ Clashes(p, v, R)
    BY <2>2 DEF Reached
  <2>5. Q \subseteq Servers /\ R \subseteq Q /\ Clashes(p, v, Q)
    <3> HIDE DEF R, Q
    <3> QED
      BY <2>3, <2>4, NextRound
  <2>6. ASSUME Q # R PROVE Cardinality(Q) >= k
    <3>1. Cardinality(R) >= k - 1
      <4>1. CASE k - 1 = 0
        <5>1. R = {}
          BY <1>0, <2>1, <4>1
        <5> QED
          BY <5>1, <4>1, FS_EmptySet
      <4>2. CASE k - 1 # 0
        <5>1. R = f[k - 1 - 1] \/ Cardinality(R) >= k - 1
          BY <2>2, <4>2 DEF Reached
        <5>2. R = f[k - 1 - 1] \cup (Colliding(p, v, f[k - 1 - 1]) \cap Changed(p, v))
          BY <1>0, <2>1, <4>2
        <5>3. R = f[k - 1 - 1] => Q = R
          <6>1. ASSUME R = f[k - 1 - 1]
                PROVE  R = R \cup (Colliding(p, v, R) \cap Changed(p, v))
            <7> HIDE DEF R
            <7> QED
              BY <6>1, <5>2
          <6> QED
            BY <6>1, <2>3
        <5> QED
          BY <5>1, <5>3, <2>6
      <4> QED
        BY <4>1, <4>2
    <3> HIDE DEF R, Q
    <3>2. PICK x \in Q : x \notin R
      BY <2>5, <2>6
    <3>3. IsFiniteSet(R) /\ IsFiniteSet(Q)
      BY <2>4, <2>5, McpAssumption, FS_Subset
    <3>4. Cardinality(R \cup {x}) = Cardinality(R) + 1
      BY <3>2, <3>3, FS_AddElement
    <3>5. Cardinality(R \cup {x}) <= Cardinality(Q)
      <4>1. R \cup {x} \in SUBSET Q
        BY <2>5, <3>2
      <4> QED
        BY <4>1, <3>3, FS_Subset
    <3>6. Cardinality(R) \in Nat /\ Cardinality(Q) \in Nat
      BY <3>3, FS_CardinalityType
    <3>7. k \in Nat
      BY <1>2
    <3> QED
      BY <3>1, <3>4, <3>5, <3>6, <3>7
  <2>7. Reached(p, v, f, k)
    BY <2>5, <2>6 DEF Reached
  <2> QED
    BY <2>7, <1>2
<1> QED
  BY <1>3, <1>4

\* The loop of aggregate has come to rest after as many rounds as there are
\* servers: no server that changed collides unless it is rejected.
LEMMA LoopSettles ==
    ASSUME NEW p, NEW v
    PROVE  /\ Rejected(p, v) \subseteq Servers
           /\ Clashes(p, v, Rejected(p, v))
           /\ Colliding(p, v, Rejected(p, v)) \cap Changed(p, v)
                \subseteq Rejected(p, v)
<1> DEFINE N == Cardinality(Servers)
<1>1. N \in Nat
  BY RejectedByRounds
<1>2. PICK f : IsRounds(p, v, f, N) /\ Rejected(p, v) = f[N]
  BY RejectedByRounds
<1>3. Reached(p, v, f, N)
  <2>1. N \in 0..N
    BY <1>1
  <2> HIDE DEF N
  <2> QED
    BY <1>1, <1>2, <2>1, EveryRound
<1>4. f[N] \subseteq Servers /\ Clashes(p, v, f[N])
  BY <1>3 DEF Reached
<1>5. CASE N = 0
  <2>1. Servers = {}
    BY <1>5, McpAssumption, FS_EmptySet
  <2> QED
    BY <2>1, <1>2, <1>4 DEF Changed
<1>6. CASE N # 0 /\ Cardinality(f[N]) >= N
  <2>1. IsFiniteSet(f[N]) /\ Cardinality(f[N]) <= N /\ (N = Cardinality(f[N]) => Servers = f[N])
    BY <1>4, McpAssumption, FS_Subset
  <2>2. Cardinality(f[N]) \in Nat
    BY <2>1, FS_CardinalityType
  <2>3. Servers = f[N]
    <3> HIDE DEF N
    <3> QED
      BY <2>1, <2>2, <1>1, <1>6
  <2> QED
    BY <2>3, <1>2, <1>4 DEF Changed
<1>7. CASE N # 0 /\ f[N] = f[N - 1]
  <2>1. f[N] = f[N - 1] \cup (Colliding(p, v, f[N - 1]) \cap Changed(p, v))
    <3>1. N \in 0..N
      BY <1>1
    <3> HIDE DEF N
    <3> QED
      BY <3>1, <1>2, <1>7 DEF IsRounds
  <2>2. Colliding(p, v, f[N]) \cap Changed(p, v) \subseteq f[N]
    <3> HIDE DEF N
    <3> QED
      BY <2>1, <1>7
  <2> QED
    BY <2>2, <1>2, <1>4
<1> QED
  BY <1>3, <1>5, <1>6, <1>7 DEF Reached

Disjoint(offers) == \A s, t \in Servers : s # t => offers[s] \cap offers[t] = {}

\* What the snapshot "offers" has to do with what the servers publish: every
\* server's Tools are there, unless a name of them collides.
Explained(offers, views) ==
    \A s \in Servers :
        \/ offers[s] = views[s]
        \/ \E t \in Servers \ {s} : views[s] \cap (views[t] \cup offers[t]) # {}

\* One aggregation never offers a name twice, if the last one did not.
LEMMA AggregateDisjoint ==
    ASSUME NEW p, NEW v, Disjoint(p)
    PROVE  Disjoint(Aggregate(p, v))
<1> DEFINE R == Rejected(p, v)
<1>1. Colliding(p, v, R) \cap Changed(p, v) \subseteq R
  BY LoopSettles
<1>2. \A s \in Servers : Aggregate(p, v)[s] = Offer(s, p, v, R)
  BY DEF Aggregate
<1> HIDE DEF R
<1> SUFFICES ASSUME NEW s \in Servers, NEW t \in Servers, s # t,
                    Offer(s, p, v, R) \cap Offer(t, p, v, R) # {}
             PROVE  FALSE
  BY <1>2 DEF Disjoint
<1>3. s \in Colliding(p, v, R) /\ t \in Colliding(p, v, R)
  BY DEF Colliding
<1>4. (s \in R \/ p[s] = v[s]) /\ (t \in R \/ p[t] = v[t])
  BY <1>1, <1>3 DEF Changed
<1>5. Offer(s, p, v, R) = p[s] /\ Offer(t, p, v, R) = p[t]
  BY <1>4 DEF Offer
<1> QED
  BY <1>5 DEF Disjoint

\* One aggregation leaves out a server's new Tools only if a name collides.
LEMMA AggregateExplained ==
    ASSUME NEW p, NEW v
    PROVE  Explained(Aggregate(p, v), v)
<1> DEFINE R == Rejected(p, v)
<1>1. R \subseteq Servers /\ Clashes(p, v, R)
  BY LoopSettles
<1>2. \A s \in Servers : Aggregate(p, v)[s] = IF s \in R THEN p[s] ELSE v[s]
  BY DEF Aggregate, Offer
<1> HIDE DEF R
<1> SUFFICES ASSUME NEW s \in Servers, Aggregate(p, v)[s] # v[s]
             PROVE  \E t \in Servers \ {s} : v[s] \cap (v[t] \cup Aggregate(p, v)[t]) # {}
  BY DEF Explained
<1>3. s \in R
  BY <1>2
<1>4. PICK t \in Servers \ {s} : v[s] \cap (v[t] \cup (IF t \in R THEN p[t] ELSE {})) # {}
  BY <1>1, <1>3 DEF Clashes
<1>5. v[s] \cap (v[t] \cup Aggregate(p, v)[t]) # {}
  BY <1>2, <1>4
<1> QED
  BY <1>5

-----------------------------------------------------------------------------
(* The way of a change into the catalogs.                                   *)

Offers == [Servers -> SUBSET Names]

CatalogTypes ==
    /\ agg \in Offers
    /\ task \in [Servers -> [pc : {"none", "idle", "read"}, views : Offers]]
    /\ proj \in [Views -> {"none", "acquired", "running", "gone"}]
    /\ told \in [Views -> SUBSET {"change", "shutdown"}]
    /\ partition \in [Views -> Offers]

\* Between a server and its remote side: a listing is the remote list, unless
\* a notification is unread or was missed, from the request on to the
\* publication; and a served server of a live Session has its refresh task.
Followed(s) ==
    /\ phase \in {"created", "listed"} => s \notin cancelled /\ op[s] = Idle
    /\ phase = "live" /\ s \in cancelled => op[s].pc \in {"join", "connect"}
    /\ phase \in {"created", "listed", "live"} /\ pub[s].state \in Serving =>
         watcher[s].pc # "none" \/ op[s].pc = "published"
    /\ op[s].pc \in {"discovered", "published"} /\ s \notin missed =>
         op[s].found = remote[s]
    /\ op[s].pc = "published" => pub[s].tools = op[s].found
    /\ watcher[s].pc = "listed" /\ s \notin notified =>
         watcher[s].found = remote[s]
    /\ /\ watcher[s].pc = "idle" /\ pub[s].state = "Ready"
       /\ s \notin notified /\ s \notin missed
       => pub[s].tools = remote[s]

\* The views are what the servers publish, but for changes still unread or
\* about to be sent.
Covers(views) ==
    \A t \in Servers :
        views[t] = pub[t].tools \/ t \in unread \/ op[t].pc = "published"

\* Between the servers and the Session's snapshot.
Aggregated ==
    /\ Disjoint(agg)
    /\ lock = {s \in Servers : task[s].pc = "read"}
    /\ \A s, t \in lock : s = t
    /\ phase \in {"created", "listed", "closed"} =>
         \A s \in Servers : task[s].pc = "none"
    /\ phase = "live" => \A s \in Servers : task[s].pc # "none"
    /\ phase = "closed" => agg = Empty
    /\ phase = "live" => \A s \in lock : Covers(task[s].views)
    /\ phase \in {"listed", "live"} /\ unheard = {} /\ lock = {} =>
         \E views \in Offers : Covers(views) /\ Explained(agg, views)

\* Between the snapshot and the Tool catalog of a kernel Session.
Projected(v) ==
    /\ proj[v] = "running" => partition[v] = agg \/ told[v] # {}
    /\ "shutdown" \in told[v] => phase = "closed"
    /\ proj[v] = "gone" => partition[v] = Empty /\ phase = "closed"

\* No kernel Session uses the connections before the Session listens.
NobodyYet ==
    phase \in {"created", "listed"} =>
        \A v \in Views : proj[v] = "none"

CatalogInv ==
    /\ CatalogTypes
    /\ \A s \in Servers : Followed(s)
    /\ Aggregated
    /\ \A v \in Views : Projected(v)
    /\ NobodyYet
    /\ phase \in {"stopping", "closed"} => proj[Owner] \in {"running", "gone"}

\* What a step of one server leaves of the others.
Apart(s) ==
    \A t \in Servers \ {s} :
        /\ pub'[t] = pub[t] /\ op'[t] = op[t] /\ watcher'[t] = watcher[t]
        /\ remote'[t] = remote[t]
        /\ t \in cancelled' <=> t \in cancelled
        /\ t \in missed' <=> t \in missed
        /\ t \in notified' <=> t \in notified

\* Tools are never changed without a word to the Session, sent with the change
\* or by the installation that follows it, which the Session hears when it is
\* live and remembers that it could not when it had not subscribed yet.
Announced ==
    /\ unread \subseteq unread' /\ unheard \subseteq unheard'
    /\ \A t \in Servers :
         \/ pub'[t].tools = pub[t].tools /\ op[t].pc # "published"
         \/ op'[t].pc = "published"
         \/ /\ phase = "live" => t \in unread'
            /\ phase = "listed" => unheard' # {}

\* It is enough to look at the server that takes the step.
LEMMA OneFollows ==
    ASSUME CatalogInv, NEW s \in Servers, Apart(s), Announced, Followed(s)',
           phase' = phase, UNCHANGED <<agg, task, lock, proj, told, partition>>
    PROVE  CatalogInv'
<1>1. \A t \in Servers : Followed(t)'
  <2> SUFFICES ASSUME NEW t \in Servers \ {s} PROVE Followed(t)'
    OBVIOUS
  <2>1. Followed(t)
    BY DEF CatalogInv
  <2> QED
    BY <2>1 DEF Followed, Apart
<1>2. ASSUME NEW views, Covers(views), phase = "live" \/ (phase = "listed" /\ unheard' = {})
      PROVE  Covers(views)'
  BY <1>2 DEF Covers, Announced
<1>3. Aggregated'
  <2>1. Aggregated
    BY DEF CatalogInv
  <2>2. phase' = "live" => \A t \in lock' : (Covers(task[t].views))'
    <3>1. ASSUME phase = "live", NEW t \in lock PROVE Covers(task[t].views)'
      BY <3>1, <2>1, <1>2 DEF Aggregated
    <3> QED
      BY <3>1 DEF Covers
  <2>3. ASSUME phase \in {"listed", "live"}, unheard' = {}, lock = {}
        PROVE  \E views \in Offers : Covers(views)' /\ Explained(agg, views)
    <3>1. unheard = {}
      BY <2>3 DEF Announced
    <3>2. PICK views \in Offers : Covers(views) /\ Explained(agg, views)
      BY <3>1, <2>1, <2>3 DEF Aggregated
    <3>3. Covers(views)'
      BY <3>2, <2>3, <1>2
    <3> QED
      BY <3>2, <3>3
  <2>4. phase' \in {"listed", "live"} /\ unheard' = {} /\ lock' = {} =>
          \E views \in Offers : Covers(views)' /\ Explained(agg', views)
    BY <2>3
  <2> QED
    BY <2>1, <2>2, <2>4 DEF Aggregated, Disjoint, Explained, Covers
<1>4. \A v \in Views : Projected(v)'
  BY DEF CatalogInv, Projected
<1>5. CatalogTypes'
  BY DEF CatalogInv, CatalogTypes
<1> QED
  BY <1>1, <1>3, <1>4, <1>5 DEF CatalogInv, NobodyYet

\* A connection is opened: in a live Session with a fresh token.
LEMMA ConnectFollows ==
    ASSUME McpInv, CatalogInv, NEW s \in Servers, Connect(s)
    PROVE  CatalogInv'
<1> USE DEF Connect, Send, Goto, sessionVars, viewVars, serverVars
<1>0. ServerTypes /\ Held(s) /\ Shut(s) /\ Followed(s) /\ op[s].pc \in Pcs
  BY DEF McpInv, ServerTypes, Operations, CatalogInv
<1>1. phase' = phase /\ UNCHANGED <<agg, task, lock, proj, told, partition>>
  OBVIOUS
<1>2. Apart(s)
  BY <1>0 DEF Apart, ServerTypes
<1>3. Announced
  BY <1>0, <1>2 DEF Announced, Apart, Held, ServerTypes, Steps, Idle, Snapshots,
         CatalogInv, Aggregated
<1>4. Followed(s)'
  BY <1>0 DEF Followed, Held, Shut, Unreachable, ServerTypes, Steps, Allowed,
         Serving, Idle, Snapshots, Operations, Refreshes, Pcs
<1> QED
  BY <1>1, <1>2, <1>3, <1>4, OneFollows

\* A connection fails.
LEMMA ConnectFailsFollows ==
    ASSUME McpInv, CatalogInv, NEW s \in Servers, ConnectFails(s)
    PROVE  CatalogInv'
<1> USE DEF ConnectFails, Fail, Publish, Send, Finish, Happens, sessionVars, viewVars, serverVars
<1>0. ServerTypes /\ Held(s) /\ Shut(s) /\ Followed(s) /\ op[s].pc \in Pcs
  BY DEF McpInv, ServerTypes, Operations, CatalogInv
<1>1. phase' = phase /\ UNCHANGED <<agg, task, lock, proj, told, partition>>
  OBVIOUS
<1>2. Apart(s)
  BY <1>0 DEF Apart, ServerTypes
<1>3. Announced
  BY <1>0, <1>2 DEF Announced, Apart, Held, ServerTypes, Steps, Idle, Snapshots,
         CatalogInv, Aggregated
<1>4. Followed(s)'
  BY <1>0 DEF Followed, Held, Shut, Unreachable, ServerTypes, Steps, Allowed,
         Serving, Idle, Snapshots, Operations, Refreshes, Pcs
<1> QED
  BY <1>1, <1>2, <1>3, <1>4, OneFollows

\* A browser authorization is retained.
LEMMA ConnectAsksFollows ==
    ASSUME McpInv, CatalogInv, NEW s \in Servers, ConnectAsks(s)
    PROVE  CatalogInv'
<1> USE DEF ConnectAsks, Send, Finish, sessionVars, viewVars, serverVars
<1>0. ServerTypes /\ Held(s) /\ Shut(s) /\ Followed(s) /\ op[s].pc \in Pcs
  BY DEF McpInv, ServerTypes, Operations, CatalogInv
<1>1. phase' = phase /\ UNCHANGED <<agg, task, lock, proj, told, partition>>
  OBVIOUS
<1>2. Apart(s)
  BY <1>0 DEF Apart, ServerTypes
<1>3. Announced
  BY <1>0, <1>2 DEF Announced, Apart, Held, ServerTypes, Steps, Idle, Snapshots,
         CatalogInv, Aggregated
<1>4. Followed(s)'
  BY <1>0 DEF Followed, Held, Shut, Unreachable, ServerTypes, Steps, Allowed,
         Serving, Idle, Snapshots, Operations, Refreshes, Pcs
<1> QED
  BY <1>1, <1>2, <1>3, <1>4, OneFollows

\* The discovery is requested.
LEMMA NegotiatedFollows ==
    ASSUME McpInv, CatalogInv, NEW s \in Servers, Negotiated(s)
    PROVE  CatalogInv'
<1> USE DEF Negotiated, Goto, Finish, sessionVars, viewVars, serverVars
<1>0. ServerTypes /\ Held(s) /\ Shut(s) /\ Followed(s) /\ op[s].pc \in Pcs
  BY DEF McpInv, ServerTypes, Operations, CatalogInv
<1>1. phase' = phase /\ UNCHANGED <<agg, task, lock, proj, told, partition>>
  OBVIOUS
<1>2. Apart(s)
  BY <1>0 DEF Apart, ServerTypes
<1>3. Announced
  BY <1>0, <1>2 DEF Announced, Apart, Held, ServerTypes, Steps, Idle, Snapshots,
         CatalogInv, Aggregated
<1>4. Followed(s)'
  BY <1>0 DEF Followed, Held, Shut, Unreachable, ServerTypes, Steps, Allowed,
         Serving, Idle, Snapshots, Operations, Refreshes, Pcs
<1> QED
  BY <1>1, <1>2, <1>3, <1>4, OneFollows

\* The listing is the remote list now, so nothing is missed so far.
LEMMA DiscoverFollows ==
    ASSUME McpInv, CatalogInv, NEW s \in Servers, Discover(s)
    PROVE  CatalogInv'
<1> USE DEF Discover, sessionVars, viewVars, serverVars
<1>0. ServerTypes /\ Held(s) /\ Shut(s) /\ Followed(s) /\ op[s].pc \in Pcs
  BY DEF McpInv, ServerTypes, Operations, CatalogInv
<1>1. phase' = phase /\ UNCHANGED <<agg, task, lock, proj, told, partition>>
  OBVIOUS
<1>2. Apart(s)
  BY <1>0 DEF Apart, ServerTypes
<1>3. Announced
  BY <1>0, <1>2 DEF Announced, Apart, Held, ServerTypes, Steps, Idle, Snapshots,
         CatalogInv, Aggregated
<1>4. Followed(s)'
  BY <1>0 DEF Followed, Held, Shut, Unreachable, ServerTypes, Steps, Allowed,
         Serving, Idle, Snapshots, Operations, Refreshes, Pcs
<1> QED
  BY <1>1, <1>2, <1>3, <1>4, OneFollows

\* The discovery fails.
LEMMA DiscoverFailsFollows ==
    ASSUME McpInv, CatalogInv, NEW s \in Servers, DiscoverFails(s)
    PROVE  CatalogInv'
<1> USE DEF DiscoverFails, Fail, Publish, Send, Finish, Happens, sessionVars, viewVars, serverVars
<1>0. ServerTypes /\ Held(s) /\ Shut(s) /\ Followed(s) /\ op[s].pc \in Pcs
  BY DEF McpInv, ServerTypes, Operations, CatalogInv
<1>1. phase' = phase /\ UNCHANGED <<agg, task, lock, proj, told, partition>>
  OBVIOUS
<1>2. Apart(s)
  BY <1>0 DEF Apart, ServerTypes
<1>3. Announced
  BY <1>0, <1>2 DEF Announced, Apart, Held, ServerTypes, Steps, Idle, Snapshots,
         CatalogInv, Aggregated
<1>4. Followed(s)'
  BY <1>0 DEF Followed, Held, Shut, Unreachable, ServerTypes, Steps, Allowed,
         Serving, Idle, Snapshots, Operations, Refreshes, Pcs
<1> QED
  BY <1>1, <1>2, <1>3, <1>4, OneFollows

\* What was listed is published, and from here on changes are notified.
LEMMA ActivateFollows ==
    ASSUME McpInv, CatalogInv, NEW s \in Servers, Activate(s)
    PROVE  CatalogInv'
<1> USE DEF Activate, Goto, sessionVars, viewVars, serverVars
<1>0. ServerTypes /\ Held(s) /\ Shut(s) /\ Followed(s) /\ op[s].pc \in Pcs
  BY DEF McpInv, ServerTypes, Operations, CatalogInv
<1>1. phase' = phase /\ UNCHANGED <<agg, task, lock, proj, told, partition>>
  OBVIOUS
<1>2. Apart(s)
  BY <1>0 DEF Apart, ServerTypes
<1>3. Announced
  BY <1>0, <1>2 DEF Announced, Apart, Held, ServerTypes, Steps, Idle, Snapshots,
         CatalogInv, Aggregated
<1>4. Followed(s)'
  BY <1>0 DEF Followed, Held, Shut, Unreachable, ServerTypes, Steps, Allowed,
         Serving, Idle, Snapshots, Operations, Refreshes, Pcs
<1> QED
  BY <1>1, <1>2, <1>3, <1>4, OneFollows

\* The installation sends what the publication left to say.
LEMMA InstallFollows ==
    ASSUME McpInv, CatalogInv, NEW s \in Servers, Install(s)
    PROVE  CatalogInv'
<1> USE DEF Install, Send, Finish, sessionVars, viewVars, serverVars
<1>0. ServerTypes /\ Held(s) /\ Shut(s) /\ Followed(s) /\ op[s].pc \in Pcs
  BY DEF McpInv, ServerTypes, Operations, CatalogInv
<1>1. phase' = phase /\ UNCHANGED <<agg, task, lock, proj, told, partition>>
  OBVIOUS
<1>2. Apart(s)
  BY <1>0 DEF Apart, ServerTypes
<1>3. Announced
  BY <1>0, <1>2 DEF Announced, Apart, Held, ServerTypes, Steps, Idle, Snapshots,
         CatalogInv, Aggregated
<1>4. Followed(s)'
  BY <1>0 DEF Followed, Held, Shut, Unreachable, ServerTypes, Steps, Allowed,
         Serving, Idle, Snapshots, Operations, Refreshes, Pcs
<1> QED
  BY <1>1, <1>2, <1>3, <1>4, OneFollows

\* A reconnect withdraws the catalog first.
LEMMA ReconnectFollows ==
    ASSUME McpInv, CatalogInv, NEW s \in Servers, Reconnect(s)
    PROVE  CatalogInv'
<1> USE DEF Reconnect, Stop, Publish, Send, Happens, sessionVars, viewVars, serverVars
<1>0. ServerTypes /\ Held(s) /\ Shut(s) /\ Followed(s) /\ op[s].pc \in Pcs
  BY DEF McpInv, ServerTypes, Operations, CatalogInv
<1>1. phase' = phase /\ UNCHANGED <<agg, task, lock, proj, told, partition>>
  OBVIOUS
<1>2. Apart(s)
  BY <1>0 DEF Apart, ServerTypes
<1>3. Announced
  BY <1>0, <1>2 DEF Announced, Apart, Held, ServerTypes, Steps, Idle, Snapshots,
         CatalogInv, Aggregated
<1>4. Followed(s)'
  BY <1>0 DEF Followed, Held, Shut, Unreachable, ServerTypes, Steps, Allowed,
         Serving, Idle, Snapshots, Operations, Refreshes, Pcs
<1> QED
  BY <1>1, <1>2, <1>3, <1>4, OneFollows

\* The retained authorization goes on.
LEMMA AuthorizeFollows ==
    ASSUME McpInv, CatalogInv, NEW s \in Servers, Authorize(s)
    PROVE  CatalogInv'
<1> USE DEF Authorize, Send, sessionVars, viewVars, serverVars
<1>0. ServerTypes /\ Held(s) /\ Shut(s) /\ Followed(s) /\ op[s].pc \in Pcs
  BY DEF McpInv, ServerTypes, Operations, CatalogInv
<1>1. phase' = phase /\ UNCHANGED <<agg, task, lock, proj, told, partition>>
  OBVIOUS
<1>2. Apart(s)
  BY <1>0 DEF Apart, ServerTypes
<1>3. Announced
  BY <1>0, <1>2 DEF Announced, Apart, Held, ServerTypes, Steps, Idle, Snapshots,
         CatalogInv, Aggregated
<1>4. Followed(s)'
  BY <1>0 DEF Followed, Held, Shut, Unreachable, ServerTypes, Steps, Allowed,
         Serving, Idle, Snapshots, Operations, Refreshes, Pcs
<1> QED
  BY <1>1, <1>2, <1>3, <1>4, OneFollows

\* A stop ends.
LEMMA StopEndsFollows ==
    ASSUME McpInv, CatalogInv, NEW s \in Servers, StopEnds(s)
    PROVE  CatalogInv'
<1> USE DEF StopEnds, Fail, Publish, Send, Goto, Finish, Happens, sessionVars, viewVars, serverVars
<1>0. ServerTypes /\ Held(s) /\ Shut(s) /\ Followed(s) /\ op[s].pc \in Pcs
  BY DEF McpInv, ServerTypes, Operations, CatalogInv
<1>1. phase' = phase /\ UNCHANGED <<agg, task, lock, proj, told, partition>>
  OBVIOUS
<1>2. Apart(s)
  BY <1>0 DEF Apart, ServerTypes
<1>3. Announced
  BY <1>0, <1>2 DEF Announced, Apart, Held, ServerTypes, Steps, Idle, Snapshots,
         CatalogInv, Aggregated
<1>4. Followed(s)'
  BY <1>0 DEF Followed, Held, Shut, Unreachable, ServerTypes, Steps, Allowed,
         Serving, Idle, Snapshots, Operations, Refreshes, Pcs
<1> QED
  BY <1>1, <1>2, <1>3, <1>4, OneFollows

\* The remote list changes: notified to a refresh task, missed after a listing.
LEMMA RemoteChangesFollows ==
    ASSUME McpInv, CatalogInv, NEW s \in Servers, RemoteChanges(s)
    PROVE  CatalogInv'
<1> USE DEF RemoteChanges, Happens, sessionVars, viewVars, serverVars
<1>0. ServerTypes /\ Held(s) /\ Shut(s) /\ Followed(s) /\ op[s].pc \in Pcs
  BY DEF McpInv, ServerTypes, Operations, CatalogInv
<1>1. phase' = phase /\ UNCHANGED <<agg, task, lock, proj, told, partition>>
  OBVIOUS
<1>2. Apart(s)
  BY <1>0 DEF Apart, ServerTypes
<1>3. Announced
  BY <1>0, <1>2 DEF Announced, Apart, Held, ServerTypes, Steps, Idle, Snapshots,
         CatalogInv, Aggregated
<1>4. Followed(s)'
  BY <1>0 DEF Followed, Held, Shut, Unreachable, ServerTypes, Steps, Allowed,
         Serving, Idle, Snapshots, Operations, Refreshes, Pcs
<1> QED
  BY <1>1, <1>2, <1>3, <1>4, OneFollows

\* A refresh reads the notification before it asks for the list.
LEMMA RefreshBeginsFollows ==
    ASSUME McpInv, CatalogInv, NEW s \in Servers, RefreshBegins(s)
    PROVE  CatalogInv'
<1> USE DEF RefreshBegins, sessionVars, viewVars, serverVars
<1>0. ServerTypes /\ Held(s) /\ Shut(s) /\ Followed(s) /\ op[s].pc \in Pcs
  BY DEF McpInv, ServerTypes, Operations, CatalogInv
<1>1. phase' = phase /\ UNCHANGED <<agg, task, lock, proj, told, partition>>
  OBVIOUS
<1>2. Apart(s)
  BY <1>0 DEF Apart, ServerTypes
<1>3. Announced
  BY <1>0, <1>2 DEF Announced, Apart, Held, ServerTypes, Steps, Idle, Snapshots,
         CatalogInv, Aggregated
<1>4. Followed(s)'
  BY <1>0 DEF Followed, Held, Shut, Unreachable, ServerTypes, Steps, Allowed,
         Serving, Idle, Snapshots, Operations, Refreshes, Pcs
<1> QED
  BY <1>1, <1>2, <1>3, <1>4, OneFollows

\* The listing of a refresh is the remote list now.
LEMMA RefreshListsFollows ==
    ASSUME McpInv, CatalogInv, NEW s \in Servers, RefreshLists(s)
    PROVE  CatalogInv'
<1> USE DEF RefreshLists, sessionVars, viewVars, serverVars
<1>0. ServerTypes /\ Held(s) /\ Shut(s) /\ Followed(s) /\ op[s].pc \in Pcs
  BY DEF McpInv, ServerTypes, Operations, CatalogInv
<1>1. phase' = phase /\ UNCHANGED <<agg, task, lock, proj, told, partition>>
  OBVIOUS
<1>2. Apart(s)
  BY <1>0 DEF Apart, ServerTypes
<1>3. Announced
  BY <1>0, <1>2 DEF Announced, Apart, Held, ServerTypes, Steps, Idle, Snapshots,
         CatalogInv, Aggregated
<1>4. Followed(s)'
  BY <1>0 DEF Followed, Held, Shut, Unreachable, ServerTypes, Steps, Allowed,
         Serving, Idle, Snapshots, Operations, Refreshes, Pcs
<1> QED
  BY <1>1, <1>2, <1>3, <1>4, OneFollows

\* A refresh publishes its listing, to a server still served.
LEMMA RefreshEndsFollows ==
    ASSUME McpInv, CatalogInv, NEW s \in Servers, RefreshEnds(s)
    PROVE  CatalogInv'
<1> USE DEF RefreshEnds, Refreshed, Send, sessionVars, viewVars, serverVars
<1>0. ServerTypes /\ Held(s) /\ Shut(s) /\ Followed(s) /\ op[s].pc \in Pcs
  BY DEF McpInv, ServerTypes, Operations, CatalogInv
<1>1. phase' = phase /\ UNCHANGED <<agg, task, lock, proj, told, partition>>
  OBVIOUS
<1>2. Apart(s)
  BY <1>0 DEF Apart, ServerTypes
<1>3. Announced
  BY <1>0, <1>2 DEF Announced, Apart, Held, ServerTypes, Steps, Idle, Snapshots,
         CatalogInv, Aggregated
<1>4. Followed(s)'
  BY <1>0 DEF Followed, Held, Shut, Unreachable, ServerTypes, Steps, Allowed,
         Serving, Idle, Snapshots, Operations, Refreshes, Pcs
<1> QED
  BY <1>1, <1>2, <1>3, <1>4, OneFollows

\* A failed refresh leaves no Ready server behind.
LEMMA RefreshFailsFollows ==
    ASSUME McpInv, CatalogInv, NEW s \in Servers, RefreshFails(s)
    PROVE  CatalogInv'
<1> USE DEF RefreshFails, Publish, Send, Happens, sessionVars, viewVars, serverVars
<1>0. ServerTypes /\ Held(s) /\ Shut(s) /\ Followed(s) /\ op[s].pc \in Pcs
  BY DEF McpInv, ServerTypes, Operations, CatalogInv
<1>1. phase' = phase /\ UNCHANGED <<agg, task, lock, proj, told, partition>>
  OBVIOUS
<1>2. Apart(s)
  BY <1>0 DEF Apart, ServerTypes
<1>3. Announced
  BY <1>0, <1>2 DEF Announced, Apart, Held, ServerTypes, Steps, Idle, Snapshots,
         CatalogInv, Aggregated
<1>4. Followed(s)'
  BY <1>0 DEF Followed, Held, Shut, Unreachable, ServerTypes, Steps, Allowed,
         Serving, Idle, Snapshots, Operations, Refreshes, Pcs
<1> QED
  BY <1>1, <1>2, <1>3, <1>4, OneFollows

\* The refresh task ends only once its server is cancelled.
LEMMA WatcherEndsFollows ==
    ASSUME McpInv, CatalogInv, NEW s \in Servers, WatcherEnds(s)
    PROVE  CatalogInv'
<1> USE DEF WatcherEnds, sessionVars, viewVars, serverVars
<1>0. ServerTypes /\ Held(s) /\ Shut(s) /\ Followed(s) /\ op[s].pc \in Pcs
  BY DEF McpInv, ServerTypes, Operations, CatalogInv
<1>1. phase' = phase /\ UNCHANGED <<agg, task, lock, proj, told, partition>>
  OBVIOUS
<1>2. Apart(s)
  BY <1>0 DEF Apart, ServerTypes
<1>3. Announced
  BY <1>0, <1>2 DEF Announced, Apart, Held, ServerTypes, Steps, Idle, Snapshots,
         CatalogInv, Aggregated
<1>4. Followed(s)'
  BY <1>0 DEF Followed, Held, Shut, Unreachable, ServerTypes, Steps, Allowed,
         Serving, Idle, Snapshots, Operations, Refreshes, Pcs
<1> QED
  BY <1>1, <1>2, <1>3, <1>4, OneFollows

\* The Session's shutdown stops a server.
LEMMA ShutdownStopsFollows ==
    ASSUME McpInv, CatalogInv, NEW s \in Servers, ShutdownStops(s)
    PROVE  CatalogInv'
<1> USE DEF ShutdownStops, Stop, Publish, Send, sessionVars, viewVars, serverVars
<1>0. ServerTypes /\ Held(s) /\ Shut(s) /\ Followed(s) /\ op[s].pc \in Pcs
  BY DEF McpInv, ServerTypes, Operations, CatalogInv
<1>1. phase' = phase /\ UNCHANGED <<agg, task, lock, proj, told, partition>>
  OBVIOUS
<1>2. Apart(s)
  BY <1>0 DEF Apart, ServerTypes
<1>3. Announced
  <2>1. op[s].pc # "published"
    BY DEF Idle
  <2>2. \A t \in Servers :
          pub'[t].tools = pub[t].tools \/ (t = s /\ Send(s))
    BY <1>0, <1>2 DEF Apart
  <2>3. unread \subseteq unread' /\ unheard \subseteq unheard'
    BY DEF Send
  <2>4. phase = "live" => task[s].pc # "none"
    BY DEF CatalogInv, Aggregated
  <2>5. \A t \in Servers \ {s} : op'[t] = op[t]
    BY <1>2 DEF Apart
  <2> QED
    BY <2>1, <2>2, <2>3, <2>4, <2>5 DEF Announced, Send
<1>4. Followed(s)'
  BY <1>0 DEF Followed, Held, Shut, Unreachable, ServerTypes, Steps, Allowed,
         Serving, Idle, Snapshots, Operations, Refreshes, Pcs
<1> QED
  BY <1>1, <1>2, <1>3, <1>4, OneFollows

\* An aggregate offers sets of names, as do the servers' publications.
LEMMA AggregateType ==
    ASSUME NEW p \in Offers, NEW v \in Offers
    PROVE  Aggregate(p, v) \in Offers
<1> SUFFICES ASSUME NEW s \in Servers, NEW R
             PROVE  Offer(s, p, v, R) \in SUBSET Names
  BY DEF Aggregate, Offers
<1> QED
  BY DEF Offer, Offers

LEMMA OfferedType ==
    ASSUME McpInv
    PROVE  Offered \in Offers
BY DEF Offered, Offers, McpInv, ServerTypes, Snapshots

\* A step that leaves the servers and the phase alone leaves what is followed.
LEMMA FollowedStays ==
    ASSUME CatalogInv, phase' = phase,
           UNCHANGED <<remote, serverVars, notified, missed>>
    PROVE  \A s \in Servers : Followed(s)'
BY DEF CatalogInv, Followed, serverVars, Serving, Idle

\* The task reads every server in one step, its own change last: what changes
\* from here on is unread again.
LEMMA TaskReadsFollows ==
    ASSUME McpInv, CatalogInv, NEW s \in Servers, TaskReads(s)
    PROVE  CatalogInv'
<1> USE DEF TaskReads, LockFree, viewVars, serverVars
<1>0. CatalogTypes /\ Aggregated /\ Offered \in Offers
  BY OfferedType DEF CatalogInv
<1>1. CatalogTypes'
  BY <1>0 DEF CatalogTypes
<1>2. Aggregated'
  <2>1. \A t \in Servers : task'[t] = IF t = s THEN [pc |-> "read", views |-> Offered] ELSE task[t]
    BY <1>0 DEF CatalogTypes
  <2>2. lock' = {s} /\ \A t \in Servers : t # s => task[t].pc # "read"
    BY <1>0 DEF Aggregated
  <2>3. lock' = {t \in Servers : task'[t].pc = "read"}
    BY <2>1, <2>2
  <2>4. (Covers(task[s].views))'
    <3>1. task'[s].views = Offered
      BY <2>1
    <3>2. \A t \in Servers : Offered[t] = pub'[t].tools
      BY DEF Offered
    <3> QED
      BY <3>1, <3>2 DEF Covers
  <2>5. phase \notin {"created", "listed", "closed"}
    BY <1>0 DEF Aggregated
  <2>6. phase' = "live" => \A t \in Servers : task'[t].pc # "none"
    BY <1>0, <2>1 DEF Aggregated
  <2>7. phase' = "live" => \A t \in lock' : (Covers(task[t].views))'
    BY <2>2, <2>4
  <2> QED
    BY <1>0, <2>2, <2>3, <2>5, <2>6, <2>7 DEF Aggregated, Disjoint
<1>3. \A v \in Views : Projected(v)'
  BY DEF CatalogInv, Projected
<1>4. \A t \in Servers : Followed(t)'
  BY FollowedStays
<1> QED
  BY <1>1, <1>2, <1>3, <1>4 DEF CatalogInv, NobodyYet

\* The snapshot the task stores is explained by what it read, and every kernel
\* Session with a running projection is told of it.
LEMMA TaskPublishesFollows ==
    ASSUME McpInv, CatalogInv, NEW s \in Servers, TaskPublishes(s)
    PROVE  CatalogInv'
<1> USE DEF TaskPublishes, Tell, serverVars
<1>0. CatalogTypes /\ Aggregated /\ Empty \in Offers
  BY DEF CatalogInv, Empty, Offers
<1>6. PICK views \in Offers : views = task[s].views
  BY <1>0 DEF CatalogTypes
<1>1. agg' = Aggregate(agg, views) /\ agg' \in Offers
  BY <1>0, <1>6, AggregateType DEF CatalogTypes
<1>2. CatalogTypes'
  BY <1>0, <1>1 DEF CatalogTypes, Waiting
<1>3. Aggregated'
  <2>1. \A t \in Servers : task'[t] = IF t = s THEN Waiting ELSE task[t]
    BY <1>0 DEF CatalogTypes
  <2>2. lock = {s} /\ lock' = {}
    BY <1>0 DEF Aggregated
  <2>3. lock' = {t \in Servers : task'[t].pc = "read"}
    BY <1>0, <2>1, <2>2 DEF Aggregated, Waiting
  <2>4. Disjoint(agg)'
    <3>1. Disjoint(Aggregate(agg, views))
      BY <1>0, AggregateDisjoint DEF Aggregated
    <3> QED
      BY <1>1, <3>1 DEF Disjoint
  <2>5. Explained(agg', views)
    BY <1>1, AggregateExplained
  <2>6. phase = "live" => Covers(views)'
    BY <1>0, <1>6, <2>2 DEF Aggregated, Covers
  <2>7. phase \notin {"created", "listed", "closed"}
    BY <1>0 DEF Aggregated
  <2>8. phase' = "live" => \A t \in Servers : task'[t].pc # "none"
    BY <1>0, <2>1 DEF Aggregated, Waiting
  <2>9. phase' \in {"listed", "live"} /\ unheard' = {} /\ lock' = {} =>
          \E w \in Offers : Covers(w)' /\ Explained(agg', w)
    BY <2>5, <2>6, <2>7
  <2> QED
    BY <2>2, <2>3, <2>4, <2>7, <2>8, <2>9 DEF Aggregated
<1>4. \A v \in Views : Projected(v)'
  <2> SUFFICES ASSUME NEW v \in Views PROVE Projected(v)'
    OBVIOUS
  <2>1. Projected(v) /\ phase # "closed"
    BY <1>0 DEF CatalogInv, Aggregated
  <2>2. told'[v] = IF proj[v] = "running" THEN told[v] \cup {"change"} ELSE told[v]
    BY <1>0 DEF CatalogTypes
  <2> QED
    BY <2>1, <2>2 DEF Projected
<1>5. \A t \in Servers : Followed(t)'
  BY FollowedStays
<1> QED
  BY <1>2, <1>3, <1>4, <1>5 DEF CatalogInv, NobodyYet

\* A task ends with its boundary left, when the Session is shutting down.
LEMMA TaskEndsFollows ==
    ASSUME McpInv, CatalogInv, NEW s \in Servers, TaskEnds(s)
    PROVE  CatalogInv'
<1> USE DEF TaskEnds, viewVars, serverVars
<1>0. CatalogTypes /\ Aggregated
  BY DEF CatalogInv
<1>1. CatalogTypes'
  BY <1>0 DEF CatalogTypes
<1>2. \A t \in Servers : /\ t # s => task'[t] = task[t]
                         /\ task'[s].pc = "none"
  BY <1>0 DEF CatalogTypes
<1>3. Aggregated'
  BY <1>0, <1>2 DEF Aggregated, Disjoint
<1>4. \A v \in Views : Projected(v)'
  BY DEF CatalogInv, Projected
<1>5. \A t \in Servers : Followed(t)'
  BY FollowedStays
<1> QED
  BY <1>1, <1>3, <1>4, <1>5 DEF CatalogInv, NobodyYet

\* A step of a kernel Session: its partition is the snapshot it finds, and only
\* the event of the shutdown ends the projection of the owner.
LEMMA ViewFollows ==
    ASSUME CatalogInv, NEW v \in Views, ViewSteps(v)
    PROVE  CatalogInv'
<1> USE DEF sessionVars, serverVars
<1>0. CatalogTypes /\ Aggregated /\ Projected(v) /\ Empty \in Offers
  BY DEF CatalogInv, Empty, Offers
<1>1. UNCHANGED <<agg, task, lock, phase, pub, unread, unheard, remote, notified, missed, serverVars>>
  BY DEF ViewSteps, Acquire, StartProjection, Project, Release, AcquireTools
<1>2. CatalogTypes'
  <2>1. CASE Acquire(v)
    BY <1>0, <2>1 DEF Acquire, AcquireTools, CatalogTypes
  <2>2. CASE StartProjection(v)
    BY <1>0, <2>2 DEF StartProjection, CatalogTypes
  <2>3. CASE Project(v)
    BY <1>0, <2>3 DEF Project, CatalogTypes
  <2>4. CASE Release(v)
    BY <1>0, <2>4 DEF Release, CatalogTypes
  <2> QED
    BY <2>1, <2>2, <2>3, <2>4 DEF ViewSteps
<1>3. Aggregated'
  BY <1>0, <1>1 DEF Aggregated, Covers
<1>4. \A u \in Views : u # v => proj'[u] = proj[u] /\ told'[u] = told[u]
                               /\ partition'[u] = partition[u]
  BY <1>0 DEF ViewSteps, Acquire, AcquireTools, StartProjection, Project, Release, CatalogTypes
<1>5. \A u \in Views : u # v => Projected(u)'
  BY <1>1, <1>4 DEF CatalogInv, Projected
<1>6. /\ Projected(v)'
      /\ phase \in {"stopping", "closed"} /\ v = Owner => proj'[v] \in {"running", "gone"}
  <2>1. CASE Acquire(v)
    BY <1>0, <1>1, <2>1 DEF Acquire, AcquireTools, CatalogTypes, Projected
  <2>2. CASE StartProjection(v)
    BY <1>0, <1>1, <2>2 DEF StartProjection, CatalogTypes, Projected
  <2>3. CASE Project(v)
    <3>1. PICK kind \in told[v] :
            /\ told' = [told EXCEPT ![v] = @ \ {kind}]
            /\ proj' = [proj EXCEPT ![v] = IF kind = "shutdown" THEN "gone" ELSE @]
      BY <2>3 DEF Project
    <3>2. partition'[v] = agg /\ told'[v] = told[v] \ {kind} /\ proj[v] = "running"
          /\ proj'[v] = IF kind = "shutdown" THEN "gone" ELSE "running"
      BY <1>0, <2>3, <3>1 DEF Project, CatalogTypes
    <3>3. kind = "shutdown" => phase = "closed" /\ agg = Empty
      BY <1>0, <3>1 DEF Projected, Aggregated
    <3> QED
      BY <1>0, <1>1, <3>2, <3>3 DEF Projected
  <2>4. CASE Release(v)
    BY <1>0, <1>1, <2>4 DEF Release, CatalogTypes, Projected
  <2> QED
    BY <2>1, <2>2, <2>3, <2>4 DEF ViewSteps
<1>7. \A t \in Servers : Followed(t)'
  BY <1>1, FollowedStays
<1>8. phase' \in {"stopping", "closed"} => proj'[Owner] \in {"running", "gone"}
  BY <1>1, <1>4, <1>6, McpAssumption DEF CatalogInv
<1>9. NobodyYet'
  <2>1. phase \notin {"created", "listed"}
    <3>1. proj[v] = "none" => Acquire(v)
      BY DEF ViewSteps, StartProjection, Project, Release
    <3> QED
      BY <3>1 DEF CatalogInv, NobodyYet, Acquire
  <2> QED
    BY <1>1, <2>1 DEF NobodyYet
<1> QED
  BY <1>2, <1>3, <1>5, <1>6, <1>7, <1>8, <1>9 DEF CatalogInv

\* The first aggregate is made before anybody listens.
LEMMA NewAggregatesFollows ==
    ASSUME McpInv, CatalogInv, NewAggregates
    PROVE  CatalogInv'
<1> USE DEF NewAggregates, viewVars, serverVars
<1>0. CatalogTypes /\ Aggregated /\ Offered \in Offers
  BY OfferedType DEF CatalogInv
<1>1. CatalogTypes'
  BY <1>0, AggregateType DEF CatalogTypes
<1>2. Aggregated'
  <2>1. Disjoint(agg)'
    <3>1. Disjoint(Aggregate(agg, Offered))
      BY <1>0, AggregateDisjoint DEF Aggregated
    <3> QED
      BY <3>1 DEF Disjoint
  <2>2. Explained(agg', Offered)
    BY AggregateExplained
  <2>3. \A t \in Servers : Offered[t] = pub'[t].tools
    BY DEF Offered
  <2>4. \E w \in Offers : Covers(w)' /\ Explained(agg', w)
    <3>1. ASSUME NEW w \in Offers, w = Offered
          PROVE  Covers(w)' /\ Explained(agg', w)
      BY <2>2, <2>3, <3>1 DEF Covers
    <3> QED
      BY <1>0, <3>1
  <2> QED
    BY <1>0, <2>1, <2>4 DEF Aggregated
<1>3. \A v \in Views : Projected(v)'
  <2> SUFFICES ASSUME NEW v \in Views PROVE Projected(v)'
    OBVIOUS
  <2>1. Projected(v) /\ proj[v] # "running"
    BY DEF CatalogInv, NobodyYet
  <2> QED
    BY <2>1 DEF Projected
<1>4. \A t \in Servers : Followed(t)'
  BY DEF CatalogInv, Followed
<1> QED
  BY <1>1, <1>2, <1>3, <1>4 DEF CatalogInv, NobodyYet

\* Every task starts with nothing read but what the first aggregate shows, and
\* the owner with that aggregate.
LEMMA NewSubscribesFollows ==
    ASSUME McpInv, CatalogInv, NewSubscribes
    PROVE  CatalogInv'
<1> USE DEF NewSubscribes, AcquireTools, serverVars
<1>0. CatalogTypes /\ Aggregated /\ Empty \in Offers
  BY DEF CatalogInv, Empty, Offers
<1>1. CatalogTypes'
  BY <1>0 DEF CatalogTypes, Waiting
<1>2. Aggregated'
  <2>1. \A t \in Servers : task'[t].pc = "idle"
    BY DEF Waiting
  <2>2. lock = {}
    BY <1>0 DEF Aggregated
  <2>3. unheard = {} => \E w \in Offers : Covers(w)' /\ Explained(agg', w)
    BY <1>0, <2>2 DEF Aggregated, Covers
  <2> QED
    BY <1>0, <2>1, <2>2, <2>3 DEF Aggregated, Disjoint
<1>3. \A v \in Views : Projected(v)'
  <2> SUFFICES ASSUME NEW v \in Views PROVE Projected(v)'
    OBVIOUS
  <2>1. Projected(v) /\ proj[v] = "none"
    BY DEF CatalogInv, NobodyYet
  <2>2. proj'[v] \in {"none", "acquired"}
    BY <1>0, <2>1 DEF CatalogTypes
  <2> QED
    BY <2>1, <2>2 DEF Projected
<1>4. \A t \in Servers : Followed(t)'
  BY DEF CatalogInv, Followed
<1> QED
  BY <1>1, <1>2, <1>3, <1>4 DEF CatalogInv, NobodyYet

\* The shutdown finds the owner's projection running.
LEMMA ShutdownBeginsFollows ==
    ASSUME McpInv, CatalogInv, ShutdownBegins
    PROVE  CatalogInv'
<1> USE DEF ShutdownBegins, viewVars
<1>1. CatalogTypes'
  BY DEF CatalogInv, CatalogTypes
<1>2. Aggregated'
  BY DEF CatalogInv, Aggregated, Disjoint
<1>3. \A v \in Views : Projected(v)'
  BY DEF CatalogInv, Projected
<1>4. \A t \in Servers : Followed(t)'
  BY DEF CatalogInv, Followed
<1> QED
  BY <1>1, <1>2, <1>3, <1>4 DEF CatalogInv, NobodyYet

\* When every server is stopped none publishes a Tool, so that the last
\* aggregate is empty.
LEMMA ShutdownEndsFollows ==
    ASSUME McpInv, CatalogInv, ShutdownEnds
    PROVE  CatalogInv'
<1> USE DEF ShutdownEnds, Tell, serverVars
<1>0. CatalogTypes /\ Aggregated /\ Offered \in Offers
  BY OfferedType DEF CatalogInv
<1>1. \A s \in Servers : Offered[s] = {}
  <2> SUFFICES ASSUME NEW s \in Servers PROVE pub[s].tools = {}
    BY DEF Offered
  <2>1. Held(s) /\ Shut(s) /\ op[s].pc \in Pcs
    BY DEF McpInv, ServerTypes, Operations
  <2> QED
    BY <2>1 DEF Held, Shut, Unreachable, Pcs
<1>2. agg' = Empty
  <2>1. Explained(Aggregate(agg, Offered), Offered)
    BY AggregateExplained
  <2>2. \A s \in Servers : Aggregate(agg, Offered)[s] = {}
    BY <1>1, <2>1 DEF Explained
  <2>3. agg' = [s \in Servers |-> agg'[s]]
    BY DEF Aggregate
  <2> QED
    BY <2>2, <2>3 DEF Empty
<1>3. CatalogTypes'
  BY <1>0, <1>2 DEF CatalogTypes, Empty, Offers
<1>4. Aggregated'
  <2>1. Disjoint(agg)'
    BY <1>2 DEF Disjoint, Empty
  <2> QED
    BY <1>0, <1>2, <2>1 DEF Aggregated
<1>5. \A v \in Views : Projected(v)'
  <2> SUFFICES ASSUME NEW v \in Views PROVE Projected(v)'
    OBVIOUS
  <2>1. Projected(v)
    BY DEF CatalogInv
  <2>2. told'[v] = IF proj[v] = "running" THEN told[v] \cup {"shutdown"} ELSE told[v]
    BY <1>0 DEF CatalogTypes
  <2> QED
    BY <2>1, <2>2 DEF Projected
<1>6. \A t \in Servers : Followed(t)'
  BY DEF CatalogInv, Followed
<1> QED
  BY <1>3, <1>4, <1>5, <1>6 DEF CatalogInv, NobodyYet

\* Nobody has read anything, and a server bootstrapped to Ready has just been
\* listed.
LEMMA CatalogInitial == Init => CatalogInv
<1> SUFFICES ASSUME Init PROVE CatalogInv
  OBVIOUS
<1>0. Empty \in Offers /\ Disjoint(Empty)
  BY DEF Empty, Offers, Disjoint
<1>1. CatalogTypes
  BY <1>0 DEF Init, CatalogTypes
<1>2. Aggregated
  BY <1>0 DEF Init, Aggregated
<1>3. \A v \in Views : Projected(v)
  BY DEF Init, Projected
<1>4. \A s \in Servers : Followed(s)
  <2> SUFFICES ASSUME NEW s \in Servers PROVE Followed(s)
    OBVIOUS
  <2>1. pub[s] \in Bootstrapped(s)
    BY DEF Init
  <2>2. pub[s].state \in Serving => pub[s].state = "Ready"
    BY <2>1 DEF Bootstrapped, Serving
  <2>3. pub[s].state = "Ready" => pub[s].tools = remote[s]
    BY <2>1 DEF Bootstrapped
  <2>4. op[s] = Idle /\ watcher[s].pc \in {"none", "idle"}
        /\ (pub[s].state = "Ready" => watcher[s].pc = "idle")
    BY DEF Init
  <2> QED
    BY <2>2, <2>3, <2>4 DEF Init, Followed, Idle
<1> QED
  BY <1>1, <1>2, <1>3, <1>4 DEF CatalogInv, NobodyYet, Init

\* The invariant survives every step.
LEMMA CatalogStep ==
    ASSUME McpInv, CatalogInv, [Next]_vars
    PROVE  CatalogInv'
<1>1. ASSUME NEW s \in Servers, ServerSteps(s)
      PROVE  CatalogInv'
  BY <1>1, ConnectFollows, ConnectFailsFollows, ConnectAsksFollows,
     NegotiatedFollows, DiscoverFollows, DiscoverFailsFollows, ActivateFollows, InstallFollows,
     ReconnectFollows, AuthorizeFollows, StopEndsFollows, RemoteChangesFollows,
     RefreshBeginsFollows, RefreshListsFollows, RefreshEndsFollows,
     RefreshFailsFollows, WatcherEndsFollows, TaskReadsFollows,
     TaskPublishesFollows, TaskEndsFollows, ShutdownStopsFollows
     DEF ServerSteps
<1>2. CASE UNCHANGED vars
  <2> USE <1>2 DEF vars, serverVars, sessionVars, viewVars
  <2>1. CatalogTypes'
    BY DEF CatalogInv, CatalogTypes
  <2>2. Aggregated'
    BY DEF CatalogInv, Aggregated, Covers
  <2>3. \A v \in Views : Projected(v)'
    BY DEF CatalogInv, Projected
  <2>4. \A s \in Servers : Followed(s)'
    BY FollowedStays
  <2> QED
    BY <2>1, <2>2, <2>3, <2>4 DEF CatalogInv, NobodyYet
<1> QED
  BY <1>1, <1>2, ViewFollows, NewAggregatesFollows, NewSubscribesFollows,
     ShutdownBeginsFollows, ShutdownEndsFollows DEF Next

\* Once quiet, what a Ready server publishes is what it has, the Session offers
\* what its servers publish except where names collide and never a name twice,
\* and every kernel Session has these Tools, none after the shutdown: for any
\* number of servers, Tools and Sessions, in any order of changes, refreshes,
\* reconnects and failures.
THEOREM CatalogsAreCurrent == Spec => []CatalogIsCurrent
<1>1. ASSUME McpInv, CatalogInv PROVE CatalogIsCurrent
  <2> SUFFICES ASSUME Quiet PROVE
        /\ \A s \in Servers \ missed :
             phase = "live" /\ pub[s].state = "Ready" => pub[s].tools = remote[s]
        /\ unheard = {} => \A s \in Servers :
             \/ agg[s] = pub[s].tools
             \/ \E t \in Servers \ {s} :
                  pub[s].tools \cap (pub[t].tools \cup agg[t]) # {}
        /\ \A s \in Servers, t \in Servers : s # t => agg[s] \cap agg[t] = {}
        /\ \A v \in Views : proj[v] = "running" => partition[v] = agg
        /\ phase = "closed" => partition[Owner] = Empty
    BY DEF CatalogIsCurrent
  <2>0. Aggregated /\ (\A s \in Servers : Followed(s)) /\ (\A v \in Views : Projected(v))
    BY <1>1 DEF CatalogInv
  <2>1. ASSUME NEW s \in Servers \ missed, phase = "live", pub[s].state = "Ready"
        PROVE  pub[s].tools = remote[s]
    BY <2>0, <2>1 DEF Quiet, Followed, Serving
  <2>2. CASE phase = "live"
    <3>1. lock = {} /\ unread = {}
      BY <2>0, <2>2 DEF Aggregated, Quiet
    <3>2. ASSUME unheard = {}, NEW s \in Servers
          PROVE  \/ agg[s] = pub[s].tools
                 \/ \E t \in Servers \ {s} :
                      pub[s].tools \cap (pub[t].tools \cup agg[t]) # {}
      <4>1. PICK views \in Offers : Covers(views) /\ Explained(agg, views)
        BY <2>0, <2>2, <3>1, <3>2 DEF Aggregated
      <4>2. \A t \in Servers : views[t] = pub[t].tools
        BY <3>1, <4>1 DEF Covers, Quiet, Idle
      <4> QED
        BY <4>1, <4>2 DEF Explained
    <3> QED
      BY <2>0, <2>1, <2>2, <3>2 DEF Aggregated, Disjoint, Projected, Quiet
  <2>3. CASE phase = "closed"
    <3>1. \A s \in Servers : pub[s].tools = {}
      <4> SUFFICES ASSUME NEW s \in Servers PROVE pub[s].tools = {}
        OBVIOUS
      <4>1. Held(s) /\ Shut(s) /\ op[s] = Idle
        BY <1>1 DEF McpInv, Quiet
      <4> QED
        BY <4>1, <2>3 DEF Held, Shut, Unreachable, Idle
    <3>2. agg = Empty
      BY <2>0, <2>3 DEF Aggregated
    <3>3. \A s \in Servers : agg[s] = {}
      BY <3>2 DEF Empty
    <3>4. partition[Owner] = Empty
      <4>1. proj[Owner] \in {"running", "gone"} /\ told[Owner] = {} /\ Projected(Owner)
        BY <1>1, <2>0, <2>3, McpAssumption DEF CatalogInv, Quiet
      <4> QED
        BY <4>1, <3>2 DEF Projected
    <3> QED
      BY <2>0, <2>1, <2>3, <3>1, <3>3, <3>4 DEF Aggregated, Disjoint, Projected, Quiet
  <2> QED
    BY <2>2, <2>3 DEF Quiet
<1> QED
  BY <1>1, McpInitial, McpStep, CatalogInitial, CatalogStep, PTL DEF Spec
=============================================================================
