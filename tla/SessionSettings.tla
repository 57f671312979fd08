--------------------------- MODULE SessionSettings ---------------------------
(***************************************************************************)
(* The choices of one Session and where they are kept: the model, the      *)
(* thinking level and the mode (runtime/session/settings.rs), and which    *)
(* tools the model is offered (runtime/tools/state.rs, selection.rs and    *)
(* search.rs).  Every change is an entry of the active branch, and opening *)
(* or navigating replays a branch (session/assembly.rs, session/tree.rs).  *)
(*                                                                         *)
(* A branch is the sequence of the settings entries on the path from the   *)
(* root to a leaf; entries that settle nothing are left out, and an entry  *)
(* stands for the path that ends in it.  A write that fails is modelled by *)
(* what it may leave behind: SessionStore has the bytes.  Its line stays   *)
(* in the writer's buffer, the next write repeats its sequence number and  *)
(* a log with both lines is refused (store/src/session.rs).                *)
(*                                                                         *)
(* A tool is its name and its exposure.  Who registered an extension tool, *)
(* the ranking of a search, events and observers are left out.             *)
(***************************************************************************)
EXTENDS Naturals, Sequences

CONSTANTS
    Names,          \* names of tools, the ones of earlier releases included
    SearchTool,     \* tool_search
    Reserved,       \* names that only the kernel may register
    Delegation,     \* the tools of an owner that its subagents may not have
    Builtins,       \* the registry of built-in tools: name -> exposure
    KernelTools,    \* what the kernel registers at every start
    Offers,         \* tools extensions register later, as <<name, exposure>>
    Catalogs,       \* the registries an MCP session may publish
    OldName,        \* the name a tool of an MCP server had in old logs
    Size,           \* bytes of a tool's definition
    Budget,         \* bytes one search may load
    Rankings,       \* sequences of names a search may come up with
    Lists,          \* sets of names extensions make the active tools
    Models,         \* models some configuration names
    DefaultModel,   \* the active model of every configuration
    Levels,         \* thinking levels
    DefaultLevel,
    Owners,         \* choices of Sessions that start this one as a subagent
    OldLogs,        \* branches written by earlier releases
    None,
    MaxChanges,     \* bound: entries written
    MaxEvents       \* bound: catalog changes, failed writes and times the
                    \* Session is opened again

VARIABLES
    catalog,     \* SessionToolSnapshot's partitions: extensions and mcp
    live,        \* the choices in memory: model, level, mode, tools
    configured,  \* the Session's ModelCatalog
    nodes,       \* branches in the store that navigation may go to
    leaf,        \* the branch of the main lane
    left,        \* the branches the Session may be opened at after a crash
    log,         \* "jammed": a line that failed is still buffered; "spoiled":
                 \* another one with its sequence number was written after it
    broken,      \* SessionTranscriptState::write_failed
    setter,      \* the change that holds settings_changes, or None
    request,     \* a set_active_tools between its snapshot and its commit
    search,      \* the ranking of a tool_search before its load
    astray,      \* history: settings whose value in memory is not the branch's
    budget       \* bounds left

vars == <<catalog, live, configured, nodes, leaf, left, log, broken, setter,
          request, search, astray, budget>>

Exposures == {"direct", "deferred", "hidden"}
Modes     == {"default", "plan"}
Kinds     == {"model", "level", "mode", "tools"}

(***************************************************************************)
(* The catalog and what is offered of it.                                  *)
(***************************************************************************)
Registries == UNION {[S -> Exposures] : S \in SUBSET Names}

\* available_registry: extensions override built-ins and MCP tools override both.
Available(c) ==
    [n \in DOMAIN Builtins \cup DOMAIN c.extensions \cup DOMAIN c.mcp |->
        IF n \in DOMAIN c.mcp THEN c.mcp[n]
        ELSE IF n \in DOMAIN c.extensions THEN c.extensions[n]
        ELSE Builtins[n]]

\* available_names: hidden tools cannot be selected.
Selectable(c) == {n \in DOMAIN Available(c) : Available(c)[n] # "hidden"}

\* ToolSearchIndex: the documents are the deferred tools.
Indexed(c) == {n \in DOMAIN Available(c) : Available(c)[n] = "deferred"}

\* active_names: what a model request declares.
Declared(c, s) ==
    {n \in Selectable(c) \ s.disabled :
        /\ Available(c)[n] = "direct" \/ n \in s.loaded
        /\ n = SearchTool => Indexed(c) \ s.disabled # {}}

\* ToolSelection: what was chosen, whether or not the tool is there now.
Selections == [loaded : SUBSET Names, disabled : SUBSET Names]
NoChoice   == [loaded |-> {}, disabled |-> {}]

\* The name a choice made for n has in catalog c: an old name counts for the one
\* tool it can mean.
Renamed(c, n) ==
    LET alias == {x \in DOMAIN c.mcp : OldName[x] = n}
    IN  IF n \notin DOMAIN Available(c) /\ \E x \in alias : alias = {x}
        THEN CHOOSE x \in alias : TRUE
        ELSE n

\* Mutant: the names that are turned off are left as they were.
MigrateLoadedOnly(c, s) ==
    [loaded |-> {Renamed(c, n) : n \in s.loaded} \ s.disabled, disabled |-> s.disabled]

\* migrate_selection: turned off wins where two names became one.
MigrateSelection(c, s) ==
    LET disabled == {Renamed(c, n) : n \in s.disabled}
    IN  [loaded |-> {Renamed(c, n) : n \in s.loaded} \ disabled,
         disabled |-> disabled]

(***************************************************************************)
(* Branches and what replaying one yields.                                 *)
(***************************************************************************)
\* The choices a Session has in memory, and the entries of branches.
Choices == [model : Models, level : Levels, mode : Modes, tools : Selections]
Entries ==
    [kind : {"model"}, value : Models] \cup [kind : {"level"}, value : Levels]
      \cup [kind : {"mode"}, value : Modes]
      \cup [kind : {"tools", "legacy"}, value : Selections]
Branches == Seq(Entries)

\* The entry of a change: SettingChange, ModeChange::payload, persist; "legacy"
\* is an active-tools entry of an old log, whose names count as loaded.
Entry(kind, value) == [kind |-> kind, value |-> value]

Default == [model |-> DefaultModel, level |-> DefaultLevel, mode |-> "default",
            tools |-> NoChoice]

\* An entry says what setting k is, given the models that are configured: one that
\* is not configured any more is passed over.
Settles(e, k, models) ==
    /\ e.kind \in IF k = "tools" THEN {"tools", "legacy"} ELSE {k}
    /\ e.kind = "model" => e.value \in models

\* The place on branch b of the last entry that settles k, 0 when there is none.
Latest(b, k, models) ==
    CHOOSE i \in 0..Len(b) :
        /\ i > 0 => Settles(b[i], k, models)
        /\ \A j \in (i + 1)..Len(b) : ~Settles(b[j], k, models)

\* RestoredSessionSettings::load and SessionPlanState::branch_mode.
Saved(b, k, models) ==
    IF Latest(b, k, models) = 0 THEN Default[k] ELSE b[Latest(b, k, models)].value

\* The choice of tools that was written last.
Chosen(b) == Saved(b, "tools", Models)

\* ToolSelectionUpdate::restore refuses a branch with overlapping choices.
Restorable(b) ==
    \A i \in 1..Len(b) :
        b[i].kind = "tools" => b[i].value.loaded \cap b[i].value.disabled = {}

\* What it yields: an old entry turns off every tool of the catalog it does not
\* name, and names are those of the catalog.
Restore(b, c) ==
    LET i     == Latest(b, "tools", Models)
        named == MigrateSelection(c, Chosen(b))
    IN  IF i > 0 /\ b[i].kind = "legacy"
        THEN MigrateSelection(c, [named EXCEPT !.disabled =
                                              Selectable(c) \ named.loaded])
        ELSE MigrateSelection(c, Chosen(b))

\* An owner's choices do not overlap, nor do those in an old log.
ASSUME SettingsAssumption ==
    /\ {Builtins, KernelTools} \cup Catalogs \subseteq Registries
    /\ Offers \subseteq Names \X Exposures
    /\ OldName \in [UNION {DOMAIN r : r \in Catalogs} -> Names]
    /\ Delegation \subseteq Names
    /\ Lists \subseteq SUBSET Names /\ Rankings \subseteq Seq(Names)
    /\ DefaultModel \in Models /\ DefaultLevel \in Levels
    /\ \A owner \in Owners :
          /\ owner \in Choices
          /\ owner.tools.loaded \cap owner.tools.disabled = {}
    /\ \A b \in OldLogs : b \in Branches /\ Restorable(b)
    /\ None \notin [kind : {"model", "level", "mode"}, value : Models \cup Levels \cup Modes,
                     raced : BOOLEAN]
    /\ None \notin [observed : SUBSET Names, names : SUBSET Names]
    /\ Size \in [Names -> Nat] /\ Budget \in Nat
    /\ MaxChanges \in Nat /\ MaxEvents \in Nat

\* The choices in memory once branch b was opened.
Opened(b, c, models) ==
    [model |-> Saved(b, "model", models), level |-> Saved(b, "level", models),
     mode |-> Saved(b, "mode", models), tools |-> Restore(b, c)]

\* AgentSnapshot::apply: the branch a subagent starts with, from the choices its
\* owner has in memory; the mode is written when it is not the default.
Delegated(s) == [loaded   |-> s.loaded \ Delegation,
                 disabled |-> s.disabled \cup Delegation]
Inherited(owner) ==
    <<Entry("model", owner.model), Entry("level", owner.level)>>
      \o (IF owner.mode = "plan" THEN <<Entry("mode", "plan")>> ELSE << >>)
      \o <<Entry("tools", Delegated(owner.tools))>>

(***************************************************************************)
(* Writing.                                                                *)
(***************************************************************************)
Writable == ~broken /\ budget.changes > 0

Spend(b) == budget' = [budget EXCEPT ![b] = @ - 1]

\* What a crash may leave once the lane was moved to b, synced or not: what is
\* written after a line that failed repeats its sequence number.
Extended(b) == IF log = "clean" THEN left \cup {b} ELSE left
Settled(b)  == IF log = "clean" THEN {b} ELSE {}
NextLine    == log' = IF log = "clean" THEN "clean" ELSE "spoiled"

\* An entry is appended to the lane and not yet synced.
Written(e) ==
    /\ leaf'  = Append(leaf, e)
    /\ nodes' = nodes \cup {Append(leaf, e)}
    /\ left'  = Extended(Append(leaf, e))
    /\ NextLine

\* Appended and synced: commit_setting.
Committed(e) ==
    /\ leaf'  = Append(leaf, e)
    /\ nodes' = nodes \cup {Append(leaf, e)}
    /\ left'  = Settled(Append(leaf, e))
    /\ NextLine

\* The append or the sync failed: the entry may be on the lane, and turn up.
Uncertain(e) ==
    /\ budget.events > 0
    /\ leaf' \in {leaf, Append(leaf, e)}
    /\ nodes' = nodes \cup {leaf'}
    /\ left'  = Extended(Append(leaf, e))

\* The write of an entry that settles nothing fails; the transcript takes more.
OtherWriteFails ==
    /\ ~broken /\ budget.events > 0
    /\ log = "clean" /\ log' = "jammed"
    /\ Spend("events")
    /\ UNCHANGED <<catalog, live, configured, nodes, leaf, left, broken, setter,
                   request, search, astray>>

\* Such a write comes after one that failed; it fails, is written or synced too.
OtherWrite ==
    /\ ~broken /\ log # "clean"
    /\ log'  = "spoiled"
    /\ left' \in {left, {}}
    /\ UNCHANGED <<catalog, live, configured, nodes, leaf, broken, setter,
                   request, search, astray, budget>>

(***************************************************************************)
(* Model, thinking level and mode: SessionSettingsUpdate.                  *)
(***************************************************************************)
InFlight == IF setter = None THEN {} ELSE {setter.kind}

Values(k) == CASE k = "model" -> configured
               [] k = "level" -> Levels
               [] k = "mode"  -> Modes

\* model, thinking_level and mode under settings_changes, up to the append; a value
\* that is the one in memory is answered without a change.
BeginChange(k, v) ==
    /\ Writable /\ setter = None
    /\ v # live[k]
    /\ Written(Entry(k, v))
    /\ setter' = [kind |-> k, value |-> v, raced |-> FALSE]
    /\ Spend("changes")
    /\ UNCHANGED <<catalog, live, configured, broken, request, search, astray>>

\* The append fails: the error is reported, the transcript stays writable.
BeginChangeFails(k, v) ==
    /\ Writable /\ setter = None
    /\ v # live[k]
    /\ Uncertain(Entry(k, v)) /\ leaf' = leaf
    /\ log' = IF log = "clean" THEN "jammed" ELSE "spoiled"
    /\ astray' = astray \cup {k}
    /\ Spend("events")
    /\ UNCHANGED <<catalog, live, configured, broken, setter, request, search>>

\* sync_store, then the value in memory.
FinishChange ==
    /\ setter # None
    /\ left'   = IF log = "spoiled" THEN {} ELSE {leaf}
    /\ live'   = [live EXCEPT ![setter.kind] = setter.value]
    /\ astray' = IF setter.raced THEN astray \cup {setter.kind}
                 ELSE astray \ {setter.kind}
    /\ setter' = None
    /\ UNCHANGED <<catalog, configured, nodes, leaf, log, broken, request, search,
                   budget>>

\* The sync fails: memory keeps the old value, the branch has the new one.
FinishChangeFails ==
    /\ setter # None
    /\ budget.events > 0
    /\ astray' = astray \cup {setter.kind}
    /\ setter' = None
    /\ Spend("events")
    /\ UNCHANGED <<catalog, live, configured, nodes, leaf, left, log, broken, request,
                   search>>

(***************************************************************************)
(* Tools: SessionToolState::update holds its write lock over the commit.   *)
(***************************************************************************)

\* ToolSelectionUpdate::persist followed by the publication, or an error that
\* keeps the snapshot and refuses writes until the Session is opened again.
CommitSelection(s) ==
    LET e == Entry("tools", s)
    IN  /\ Writable
        /\ \/ /\ Committed(e)
              /\ live'   = [live EXCEPT !.tools = s]
              /\ astray' = astray \ {"tools"}
              /\ Spend("changes")
              /\ UNCHANGED broken
           \/ /\ Uncertain(e) /\ NextLine
              /\ broken' = TRUE
              /\ astray' = astray \cup {"tools"}
              /\ Spend("events")
              /\ UNCHANGED live

NothingWritten == UNCHANGED <<live, nodes, leaf, left, log, broken, astray, budget>>

\* set_active_tools: one snapshot, on which the names are validated.
Observe(names) ==
    /\ request = None
    /\ names \subseteq Selectable(catalog)
    /\ request' = [observed |-> Selectable(catalog), names |-> names]
    /\ NothingWritten
    /\ UNCHANGED <<catalog, configured, setter, search>>

\* replace_selection: only what the caller saw is decided.
Replaced(s, r) ==
    [loaded   |-> (s.loaded \ r.observed) \cup r.names,
     disabled |-> (s.disabled \ r.observed) \cup (r.observed \ r.names)]

\* replace: refused when a chosen tool was hidden meanwhile.
ReplaceSelection ==
    /\ request # None
    /\ LET s == Replaced(live.tools, request)
           hidden == DOMAIN Available(catalog) \ Selectable(catalog)
       IN  IF broken \/ request.names \cap hidden # {} \/ s = live.tools
           THEN NothingWritten
           ELSE CommitSelection(s)
    /\ request' = None
    /\ UNCHANGED <<catalog, configured, setter, search>>

\* tool_search ranks some of the index of one snapshot, at most limit of them.
Rank(names) ==
    /\ search = << >>
    /\ names # << >>
    /\ \A i \in 1..Len(names) : names[i] \in Indexed(catalog) \ live.tools.disabled
    /\ \A i, j \in 1..Len(names) : names[i] = names[j] => i = j
    /\ search' = names
    /\ NothingWritten
    /\ UNCHANGED <<catalog, configured, setter, request>>

\* Mutant: what was turned off after the ranking is loaded all the same.
LoadableThoughOff(c, s, n) == n \in Indexed(c) /\ n \notin s.loaded

\* load looks every candidate up again.
Loadable(c, s, n) == n \in Indexed(c) /\ n \notin s.disabled /\ n \notin s.loaded

\* The bytes used by the first k candidates.
Used(c, s, names) ==
    LET U[k \in 0..Len(names)] ==
            IF k = 0 THEN 0
            ELSE IF Loadable(c, s, names[k]) /\ U[k - 1] + Size[names[k]] <= Budget
            THEN U[k - 1] + Size[names[k]]
            ELSE U[k - 1]
    IN  U

Accepted(c, s, names) ==
    {names[k] : k \in {i \in 1..Len(names) :
        /\ Loadable(c, s, names[i])
        /\ Used(c, s, names)[i - 1] + Size[names[i]] <= Budget}}

Load ==
    /\ search # << >>
    /\ LET accepted == Accepted(catalog, live.tools, search)
       IN  IF broken \/ accepted = {} THEN NothingWritten
           ELSE CommitSelection([live.tools EXCEPT !.loaded = @ \cup accepted])
    /\ search' = << >>
    /\ UNCHANGED <<catalog, configured, setter, request>>

(***************************************************************************)
(* The catalog changes.                                                    *)
(***************************************************************************)

\* register_tool of an extension.
Register(n, x) ==
    /\ budget.events > 0
    /\ n \notin Reserved
    /\ catalog' = [catalog EXCEPT !.extensions =
                     [m \in DOMAIN @ \cup {n} |-> IF m = n THEN x ELSE @[m]]]
    /\ Spend("events")
    /\ UNCHANGED <<live, configured, nodes, leaf, left, log, broken, setter, request,
                   search, astray>>

\* replace_mcp_partition: choices under old names are renamed in memory only.
ReplaceMcpPartition(registry) ==
    /\ budget.events > 0
    /\ catalog' = [catalog EXCEPT !.mcp = registry]
    /\ live' = [live EXCEPT !.tools = MigrateSelection(catalog', @)]
    /\ astray' = IF live' = live THEN astray ELSE astray \cup {"tools"}
    /\ Spend("events")
    /\ UNCHANGED <<configured, nodes, leaf, left, log, broken, setter, request, search>>

(***************************************************************************)
(* Navigation and opening.                                                 *)
(***************************************************************************)

\* Restoring renamed choices, or read them from an old entry.
Differs(b, c) == IF Restore(b, c) = Chosen(b) THEN {} ELSE {"tools"}

Overtaken == IF setter = None THEN None ELSE [setter EXCEPT !.raced = TRUE]

\* navigate_session: tools and mode are those of the branch that is entered; the
\* model and the level stay what they are.  A change of a setting may be between
\* its append and the value in memory.
Navigate(b) ==
    /\ Writable
    /\ Restorable(b)
    /\ leaf' = b
    /\ left' = Settled(b)
    /\ NextLine
    /\ live' = [live EXCEPT !.tools = Restore(b, catalog), !.mode = Saved(b, "mode", Models)]
    /\ astray' = {"model", "level"} \cup Differs(b, catalog)
    /\ setter' = Overtaken
    /\ Spend("changes")
    /\ UNCHANGED <<catalog, configured, nodes, broken, request, search>>

\* It fails: the lane is back where it was, or it stays on the new branch when a
\* summary was appended; neither need be on disk.  Memory is left alone.  When it
\* was a write that failed, the one that puts the lane back repeats its sequence.
NavigateFails(b) ==
    /\ Writable
    /\ budget.events > 0
    /\ Restorable(b)
    /\ leaf' \in {leaf, b}
    /\ left' = Extended(b)
    /\ log' \in {IF log = "clean" THEN "clean" ELSE "spoiled", "spoiled"}
    /\ astray' = Kinds
    /\ setter' = Overtaken
    /\ Spend("events")
    /\ UNCHANGED <<catalog, live, configured, nodes, broken, request, search>>

\* The process ends, with or without a crash, and the Session is opened again:
\* RestoredSessionSettings::load and restored_tools, with the configuration and
\* the MCP catalog of that moment.
Restart(b, models, registry) ==
    /\ budget.events > 0
    /\ b \in left
    /\ Restorable(b)
    /\ configured' = models
    /\ catalog' = [extensions |-> KernelTools, mcp |-> registry]
    /\ leaf' = b
    /\ left' = {b}
    /\ log' = "clean"
    /\ live' = Opened(b, catalog', models)
    /\ astray' = Differs(b, catalog')
    /\ broken' = FALSE
    /\ setter' = None /\ request' = None /\ search' = << >>
    /\ Spend("events")
    /\ UNCHANGED nodes

Configurations == {S \in SUBSET Models : DefaultModel \in S}

\* A Session is created or opened, or started by an owner.
Init ==
    /\ configured \in Configurations
    /\ catalog \in [extensions : {KernelTools}, mcp : Catalogs]
    /\ \/ /\ leaf \in {<< >>} \cup OldLogs
          /\ live = Opened(leaf, catalog, configured)
          /\ astray = Differs(leaf, catalog)
       \/ \E owner \in Owners :
             /\ owner.model \in configured
             /\ leaf = Inherited(owner)
             /\ live = [owner EXCEPT !.tools = Delegated(@)]
             /\ astray = {}
    /\ nodes = {<< >>, leaf}
    /\ left = {leaf}
    /\ log = "clean"
    /\ broken = FALSE
    /\ setter = None /\ request = None /\ search = << >>
    /\ budget = [changes |-> MaxChanges, events |-> MaxEvents]

ChangeSetting ==
    \/ \E k \in Kinds \ {"tools"} : \E v \in Values(k) :
          BeginChange(k, v) \/ BeginChangeFails(k, v)
    \/ FinishChange
    \/ FinishChangeFails

ChangeTools ==
    \/ \E names \in Lists : Observe(names)
    \/ ReplaceSelection
    \/ \E names \in Rankings : Rank(names)
    \/ Load

ChangeCatalog ==
    \/ \E offer \in Offers : Register(offer[1], offer[2])
    \/ \E registry \in Catalogs : ReplaceMcpPartition(registry)

Reopen == \E b \in left, models \in Configurations, registry \in Catalogs :
              Restart(b, models, registry)

ChangeBranch ==
    \/ \E b \in nodes : Navigate(b) \/ NavigateFails(b)
    \/ Reopen

WriteOther == OtherWriteFails \/ OtherWrite

Next == ChangeSetting \/ ChangeTools \/ ChangeCatalog \/ ChangeBranch \/ WriteOther

Spec == Init /\ [][Next]_vars

(***************************************************************************)
(* Properties.                                                             *)
(***************************************************************************)

\* Every branch on which the Session may be opened again can be read and gives back
\* the choices in memory: a tool turned on or off, the mode of a branch that was
\* entered, a model; so does the branch of the lane.  There is such a branch unless
\* something was written after a write that failed: replay refuses a log in which a
\* sequence number is repeated.  Not so for a setting whose last change failed or
\* was overtaken by a navigation, for the model and the level after a navigation,
\* and for tools renamed since they were written.
ReopeningKeepsChoices ==
    /\ \A b \in left \cup nodes \cup {leaf} : Restorable(b)
    /\ log # "spoiled" => leaf \in left
    /\ \A b \in left \cup {leaf}, k \in Kinds \ (astray \cup InFlight) :
          Saved(b, k, configured) = live[k]

\* A tool that was turned off is offered to the model again only by a choice that
\* names it, on another branch or by opening: no search, registration or MCP
\* catalog brings it back, under its old name or its new one.
OffStaysOff ==
    [][\A n \in live.tools.disabled :
         LET x == Renamed(catalog', n) IN
         Renamed(catalog, n) = n /\ x \in Declared(catalog', live'.tools) =>
            \/ request # None /\ x \in request.names
            \/ Navigate(leaf')
            \/ Reopen]_vars
=============================================================================
