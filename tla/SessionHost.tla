---------------------------- MODULE SessionHost ----------------------------
(***************************************************************************)
(* The Session registry of the kernel: creating, forking, resuming,        *)
(* closing, deleting and renaming Sessions, the owned children of a        *)
(* Session and the background reporters that carry their answers back      *)
(* (crates/kernel/src/runtime/session.rs, session/*.rs, run/lifecycle.rs,  *)
(* subagent/*.rs).                                                         *)
(*                                                                         *)
(* Every kernel call is an asynchronous function that keeps handles, locks *)
(* and reservations across its awaits.  A task is the stack of the calls   *)
(* it is in; one action is the code between two awaits.  A runtime is one  *)
(* Session object built from a log file; a Session may have several in     *)
(* succession and a call may still hold an old one.  Lock poisoning, the   *)
(* only way Kernel::extension_context fails, is left out, and with it the  *)
(* abort of a close.                                                       *)
(***************************************************************************)
EXTENDS Naturals, Sequences, FiniteSets

CONSTANTS
    Roots,        \* Sessions nobody owns
    Main,         \* the root that owns every child
    Children,     \* Sessions owned by Main
    Tasks,        \* callers of the kernel
    Reporters,    \* slots for the tasks of SessionBackgroundWork
    Free,         \* nobody holds the gate
    Named,        \* bound: the Sessions that callers name in their calls
    MaxBuilds,    \* bound: runtimes built of one Session
    MaxOps,       \* bound: calls of the kernel made from outside
    MaxMishaps    \* bound: failing store writes, builds, startups and hooks, and
                  \* futures dropped by their callers

Ids == Roots \cup Children

ASSUME HostAssumption ==
    /\ Main \in Roots
    /\ Roots \cap Children = {}
    /\ Named \subseteq Ids
    /\ Tasks \cap Reporters = {}
    /\ Free \notin Tasks \cup Reporters
    /\ MaxBuilds \in Nat \ {0} /\ MaxOps \in Nat /\ MaxMishaps \in Nat

VARIABLES
    sessions,   \* Kernel::sessions: the registered runtime of each id, 0: none
    pending,    \* Kernel::pending_sessions: ids reserved for a build or deletion
    runtimes,   \* the Session objects built of each id
    built,      \* how many of them there are
    disk,       \* the title and setting in each id's log file, or NoFile
    spoiled,    \* ids whose file has an empty line that no opening gets past
    stack,      \* the calls each task is in, innermost first
    reports,    \* SessionBackgroundWork::reported, and what was submitted twice
    deleted,    \* ids for which delete_session returned Ok
    budget      \* what is left of the bounds

vars == <<sessions, pending, runtimes, built, disk, spoiled, stack, reports, deleted, budget>>

Workers == Tasks \cup Reporters

\* run/lifecycle.rs SessionLifecycle
Lifecycle == {"starting", "active", "closing", "closed"}

\* One Session: lifecycle and gate of SessionExecution, the close signal
\* (close_requested), the shutdown watch (closing), the Run that holds the gate
\* and its token, the shutdown token of SessionBackgroundWork, the owner runtime
\* whose MCP connection it shares, the transcript's name and setting, and whether
\* the file it writes is still the one at its path (loose: another was renamed
\* over it).
Runtime == [life : Lifecycle, gate : Workers \cup {Free}, closeRequested : BOOLEAN,
            closing : BOOLEAN, running : BOOLEAN, cancelled : BOOLEAN, run : Nat,
            shutdown : BOOLEAN, owner : Nat, title : BOOLEAN, setting : BOOLEAN,
            loose : BOOLEAN]

NoFile == [there |-> FALSE, title |-> FALSE, setting |-> FALSE]
NewFile == [NoFile EXCEPT !.there = TRUE]

OwnerOf(i) == IF i \in Children THEN Main ELSE i
Owned(i)   == IF i = Main THEN Children ELSE {}

Outcomes == {"none", "ok", "notFound", "starting", "closing", "duplicate", "error",
             "cancelled"}

\* Where a call stands: building, running and delegating, reporting, closing,
\* deleting, renaming, and setting.
Awaits == {"fork", "look", "switch", "gate", "owner", "guard", "build", "hook", "register",
             "start", "checkpoint", "name",
           "queued", "running", "idle", "delegate", "answer", "manage",
           "told", "reply", "sent", "creation", "children", "join", "closed", "kids",
           "lock", "closing", "wait", "store", "await", "signin"}

\* One call in progress: the operation, the await it stands at, its Session, the
\* runtime it holds, whether it holds the id's reservation, the owner runtime
\* whose owned_creation lock it holds (0: none) and whether it holds it now, the
\* children left to visit, what the last call it made returned and, from a Run,
\* which answer.
Frame == [op : {"build", "close", "delete", "rename", "set", "run", "report"},
          why : {"create", "fork", "resume", "spawn", "none"},
          at : Awaits, id : Ids, held : Nat, reserved : BOOLEAN, owner : Nat,
          guard : BOOLEAN, kids : SUBSET Ids, back : Outcomes, answer : Nat,
          bad : BOOLEAN]

Call(o, w, a, i) ==
    [op |-> o, why |-> w, at |-> a, id |-> i, held |-> 0, reserved |-> FALSE,
     owner |-> 0, guard |-> FALSE, kids |-> {}, back |-> "none", answer |-> 0,
     bad |-> FALSE]

Busy(t) == stack[t] # <<>>
Top(t)  == Head(stack[t])
At(t, o, a) == Busy(t) /\ Top(t).op = o /\ Top(t).at = a

Frames == UNION {{stack[t][k] : k \in 1..Len(stack[t])} : t \in Workers}
Now(t)  == runtimes[Top(t).id][Top(t).held]

TypeOK ==
    /\ sessions \in [Ids -> 0..MaxBuilds]
    /\ pending \subseteq Ids
    /\ runtimes \in [Ids -> [1..MaxBuilds -> Runtime]]
    /\ built \in [Ids -> 0..MaxBuilds]
    /\ disk \in [Ids -> [there : BOOLEAN, title : BOOLEAN, setting : BOOLEAN]]
    /\ spoiled \subseteq Ids
    /\ \A t \in Workers : \A k \in 1..Len(stack[t]) : stack[t][k] \in Frame
    /\ deleted \subseteq Ids

(***************************************************************************)
(* Helpers of the calls.                                                   *)
(***************************************************************************)
Goto(t, f)      == stack' = [stack EXCEPT ![t] = <<f>> \o Tail(@)]
CallFrom(t, f, g) == stack' = [stack EXCEPT ![t] = <<g, f>> \o Tail(@)]
After(s, r, n)  ==
    IF Len(s) = 1 THEN <<>>
    ELSE <<[s[2] EXCEPT !.back = r, !.answer = n]>> \o SubSeq(s, 3, Len(s))
Return(t, r)    == stack' = [stack EXCEPT ![t] = After(@, r, 0)]

Spend(b) == budget[b] > 0 /\ budget' = [budget EXCEPT ![b] = @ - 1]

\* Kernel::session: NotFound, or the lifecycle error of ensure_active.
SessionOf(i) ==
    IF sessions[i] = 0 THEN "notFound"
    ELSE CASE runtimes[i][sessions[i]].life = "active"   -> "ok"
           [] runtimes[i][sessions[i]].life = "starting" -> "starting"
           [] OTHER                                      -> "closing"

EnsureActive(r) ==
    CASE r.life = "active" -> "ok" [] r.life = "starting" -> "starting"
      [] OTHER -> "closing"

FreshRuntime(owner, file) ==
    [life |-> "starting", gate |-> Free, closeRequested |-> FALSE, closing |-> FALSE,
     running |-> FALSE, cancelled |-> FALSE, run |-> 0, shutdown |-> FALSE,
     owner |-> owner, title |-> file.title, setting |-> file.setting, loose |-> FALSE]

Unused == [FreshRuntime(0, NoFile) EXCEPT !.life = "closed"]

\* owned_creation: the read side is held by whoever creates or resumes a child.
Reading(g)  == \E f \in Frames : f.guard /\ f.owner = g
Writing(g)  == \E f \in Frames : /\ f.op = "close" /\ f.id = Main /\ f.held = g
                                 /\ f.at \in {"creation", "children", "join", "hook"}

\* Runtimes of i that could still write its file: registered, or held by a call.
Writers(i) == {g \in 1..MaxBuilds :
    /\ runtimes[i][g].life # "closed"
    /\ sessions[i] = g \/ \E f \in Frames : f.id = i /\ f.held = g}

Touch(i, g, r) == runtimes' = [runtimes EXCEPT ![i][g] = r]
Unreserve(f)   == pending' = IF f.reserved THEN pending \ {f.id} ELSE pending

\* A new call from outside the kernel.
Idle(t) == t \in Tasks /\ ~Busy(t) /\ Spend("ops")
Begin(t, f) == stack' = [stack EXCEPT ![t] = <<f>>]

(***************************************************************************)
(* Building a runtime: create, fork, resume and the creation of a child.   *)
(***************************************************************************)
\* Mutant: a reservation is not respected.
RegisteredOnly(i) == sessions[i] = 0

\* Kernel::reserve_session_build
Reservable(i) == sessions[i] = 0 /\ i \notin pending

\* A generated identifier: no file, runtime, reservation or call has it, and no
\* file names it as its owner.
Fresh(i) == /\ Reservable(i) /\ built[i] = 0 /\ i \notin deleted
            /\ \A k \in {i} \cup Owned(i) : ~disk[k].there
            /\ \A f \in Frames : f.id # i

\* The store is created or opened under the reservation and is read at once; the
\* call then awaits at a.
OpenStore(t, f, file, a) ==
    /\ built[f.id] < MaxBuilds
    /\ pending' = pending \cup {f.id}
    /\ built' = [built EXCEPT ![f.id] = @ + 1]
    /\ disk' = [disk EXCEPT ![f.id] = file]
    /\ Touch(f.id, built[f.id] + 1, FreshRuntime(0, file))
    /\ stack' = [stack EXCEPT ![t] =
                    <<[f EXCEPT !.at = a, !.held = built[f.id] + 1, !.reserved = TRUE]>>
                      \o (IF @ = <<>> THEN <<>> ELSE Tail(@))]
    /\ UNCHANGED <<sessions, reports, deleted>>

CreateSession(t, i) ==
    /\ Idle(t) /\ i \in Roots /\ Fresh(i)
    /\ OpenStore(t, Call("build", "create", "build", i), NewFile, "build")

\* fork_session up to the session_before_fork hook, and after it.
ForkSession(t, source, i) ==
    /\ Idle(t) /\ i \in Roots /\ Fresh(i) /\ source # i
    /\ SessionOf(source) = "ok"
    /\ Begin(t, [Call("build", "fork", "fork", i) EXCEPT !.kids = {source}])
    /\ UNCHANGED <<sessions, pending, runtimes, built, disk, reports, deleted>>

\* JsonlSessionStoreFactory::fork: the source is opened, its branch copied.
ForkStore(t) ==
    /\ At(t, "build", "fork")
    /\ UNCHANGED budget
    /\ IF Top(t).bad \/ \A k \in Top(t).kids : disk[k].there /\ k \notin spoiled
       THEN \E k \in Top(t).kids :
              OpenStore(t, [Top(t) EXCEPT !.kids = {}, !.bad = FALSE],
                        [NewFile EXCEPT !.setting = disk[k].setting], "build")
       ELSE /\ Return(t, "error")
            /\ UNCHANGED <<sessions, pending, runtimes, built, disk, reports, deleted>>

\* The opening of the source repairs its last line, with no lock that its own
\* runtime respects.  A line that the runtime is in the middle of writing looks
\* torn: the file without it is renamed over the one the runtime has open.  Or the
\* line lacks only its newline: the file gets one from each of the two, and once
\* the next line follows, the empty one between them can be read by nobody.  The
\* copy follows without an await.
ForkRepairs(t) ==
    /\ At(t, "build", "fork") /\ ~Top(t).bad /\ Spend("mishaps")
    /\ \E k \in Top(t).kids : \E g \in Writers(k) :
         /\ disk[k].there /\ k \notin spoiled /\ ~runtimes[k][g].loose
         /\ \/ Touch(k, g, [runtimes[k][g] EXCEPT !.loose = TRUE]) /\ UNCHANGED spoiled
            \/ spoiled' = spoiled \cup {k} /\ UNCHANGED runtimes
    /\ Goto(t, [Top(t) EXCEPT !.bad = TRUE])
    /\ UNCHANGED <<sessions, pending, built, disk, reports, deleted>>

\* resume_session, from the lookup of a live runtime to its first await.
Resume(t, f) ==
    LET i == f.id IN
    CASE sessions[i] # 0 /\ SessionOf(i) = "ok" ->
           /\ stack' = [stack EXCEPT ![t] = <<[f EXCEPT !.at = "switch", !.held = sessions[i]]>>
                                              \o (IF @ = <<>> THEN <<>> ELSE Tail(@))]
           /\ UNCHANGED <<sessions, pending, runtimes, built, disk, reports, deleted>>
      [] Reservable(i) /\ disk[i].there /\ i \notin spoiled ->
           OpenStore(t, [f EXCEPT !.kids = {k \in {OwnerOf(i)} \ {i} : disk[k].there}],
                     disk[i], IF i \in Children THEN "owner" ELSE "build")
      [] OTHER ->
           /\ stack' = [stack EXCEPT ![t] = IF @ = <<>> THEN <<>> ELSE
                 After(@, IF sessions[i] # 0 THEN SessionOf(i)
                          ELSE IF i \in pending THEN "duplicate"
                          ELSE IF disk[i].there THEN "error" ELSE "notFound", 0)]
           /\ UNCHANGED <<sessions, pending, runtimes, built, disk, reports, deleted>>

ResumeSession(t, i) == Idle(t) /\ Resume(t, Call("build", "resume", "look", i))
ResumeNested(t)     == At(t, "build", "look") /\ Resume(t, Top(t)) /\ UNCHANGED budget

\* The live runtime's session_before_switch hook returned: a Run that is going on
\* already has the gate, otherwise the call waits for it, and syncs.
ResumeLive(t) ==
    /\ At(t, "build", "switch")
    /\ \/ Spend("mishaps") /\ Return(t, "error")
       \/ Now(t).running /\ Return(t, EnsureActive(Now(t))) /\ UNCHANGED budget
       \/ ~Now(t).running /\ Goto(t, [Top(t) EXCEPT !.at = "gate"]) /\ UNCHANGED budget
    /\ UNCHANGED <<sessions, pending, runtimes, built, disk, reports, deleted>>

\* SessionExecution::acquire_operation
AcquireOperation(t) ==
    /\ At(t, "build", "gate")
    /\ Now(t).closeRequested \/ Now(t).gate = Free
    /\ Return(t, IF Now(t).closeRequested THEN "closing" ELSE EnsureActive(Now(t)))
    /\ UNCHANGED <<sessions, pending, runtimes, built, disk, reports, deleted, budget>>

\* resume_owner: wait for the owner's startup, use it, or resume it first.
ResumeOwner(t) ==
    LET f == Top(t) IN
    /\ At(t, "build", "owner")
    /\ UNCHANGED <<sessions, built, disk, reports, deleted, budget>>
    /\ \/ /\ f.back \in {"closing", "notFound", "error"}
          /\ Return(t, f.back) /\ Unreserve(f) /\ Touch(f.id, f.held, Unused)
       \/ /\ f.back \in {"none", "ok", "starting", "duplicate"}
          /\ SessionOf(Main) = "ok"
          /\ Goto(t, [f EXCEPT !.at = "guard", !.owner = sessions[Main], !.kids = {}])
          /\ UNCHANGED <<pending, runtimes>>
       \/ /\ f.back \in {"none", "ok", "starting", "duplicate"}
          /\ \/ SessionOf(Main) = "closing"
             \/ SessionOf(Main) = "starting" /\ Main \notin pending
          /\ Return(t, SessionOf(Main)) /\ Unreserve(f) /\ Touch(f.id, f.held, Unused)
       \/ /\ f.back \in {"none", "ok", "starting", "duplicate"}
          /\ SessionOf(Main) = "notFound" /\ Main \notin pending
          /\ IF f.kids = {} THEN Goto(t, [f EXCEPT !.at = "build"])
             ELSE CallFrom(t, [f EXCEPT !.back = "none"],
                           Call("build", "resume", "look", Main))
          /\ UNCHANGED <<pending, runtimes>>

\* create_owned_session: the owner must be live; the call then waits for the read
\* side of owned_creation.
SpawnCall(i) == [Call("build", "spawn", "guard", i) EXCEPT !.owner = sessions[Main]]

CreateOwned(t, i) ==
    /\ Idle(t) /\ i \in Children /\ Fresh(i)
    /\ SessionOf(Main) = "ok"
    /\ Begin(t, SpawnCall(i))
    /\ UNCHANGED <<sessions, pending, runtimes, built, disk, reports, deleted>>

\* Mutant: the owner's lifecycle is not checked again under the lock.
GuardUnchecked(t) ==
    LET f == Top(t)
        o == runtimes[Main][f.owner]
    IN
    /\ At(t, "build", "guard")
    /\ ~Writing(f.owner)
    /\ UNCHANGED budget
    /\ IF f.why = "spawn"
       THEN OpenStore(t, [f EXCEPT !.guard = TRUE], [NewFile EXCEPT !.setting = o.setting],
                      "build")
       ELSE /\ Goto(t, [f EXCEPT !.guard = TRUE, !.at = "build"])
            /\ UNCHANGED <<sessions, pending, runtimes, built, disk, reports, deleted>>

\* The read side of owned_creation, then the owner's lifecycle once more.  A
\* child that is created gets its reservation and its file here.
OwnerGuard(t) ==
    LET f == Top(t)
        o == runtimes[Main][f.owner]
    IN
    /\ At(t, "build", "guard")
    /\ ~Writing(f.owner)
    /\ UNCHANGED budget
    /\ CASE o.life # "active" ->
              /\ Return(t, EnsureActive(o)) /\ Unreserve(f)
              /\ runtimes' = IF f.held = 0 THEN runtimes
                             ELSE [runtimes EXCEPT ![f.id][f.held] = Unused]
              /\ UNCHANGED <<sessions, built, disk, reports, deleted>>
         [] o.life = "active" /\ f.why = "spawn" ->
              OpenStore(t, [f EXCEPT !.guard = TRUE], [NewFile EXCEPT !.setting = o.setting],
                        "build")
         [] OTHER ->
              /\ Goto(t, [f EXCEPT !.guard = TRUE, !.at = "build"])
              /\ UNCHANGED <<sessions, pending, runtimes, built, disk, reports, deleted>>

\* rollback_session_registration and the end of the call; new files go too.
Rollback(t, f) ==
    /\ sessions' = [sessions EXCEPT ![f.id] = 0]
    /\ disk' = IF f.why = "resume" THEN disk ELSE [disk EXCEPT ![f.id] = NoFile]
    /\ Unreserve(f) /\ Return(t, "error")

\* build_session: extensions, the MCP connection (the owner's is shared), the
\* restored transcript, tools and settings.  A file made for a root stays when
\* this fails; OwnedSessionSpawn removes it.
BuildSession(t) ==
    LET f == Top(t) IN
    /\ At(t, "build", "build")
    /\ UNCHANGED <<sessions, built, reports, deleted>>
    /\ \/ /\ Touch(f.id, f.held, [Now(t) EXCEPT !.owner = f.owner])
          /\ Goto(t, [f EXCEPT !.at = IF f.why = "resume" THEN "hook" ELSE "register"])
          /\ UNCHANGED <<pending, disk, budget>>
       \/ /\ Spend("mishaps")
          /\ Touch(f.id, f.held, Unused)
          /\ disk' = IF f.why = "spawn" THEN [disk EXCEPT ![f.id] = NoFile] ELSE disk
          /\ Unreserve(f) /\ Return(t, "error")

\* session_before_switch of a runtime that is not registered yet.
BeforeSwitch(t) ==
    /\ At(t, "build", "hook")
    /\ UNCHANGED <<sessions, built, disk, reports, deleted>>
    /\ \/ Goto(t, [Top(t) EXCEPT !.at = "register"]) /\ UNCHANGED <<pending, runtimes, budget>>
       \/ /\ Spend("mishaps")
          /\ Touch(Top(t).id, Top(t).held, Unused) /\ Unreserve(Top(t)) /\ Return(t, "error")

RegisterSession(t) ==
    LET f == Top(t) IN
    /\ At(t, "build", "register")
    /\ UNCHANGED <<built, disk, reports, deleted, budget>>
    /\ IF sessions[f.id] = 0
       THEN /\ sessions' = [sessions EXCEPT ![f.id] = f.held]
            /\ Goto(t, [f EXCEPT !.at = "start"])
            /\ UNCHANGED <<pending, runtimes>>
       ELSE /\ Touch(f.id, f.held, Unused) /\ Unreserve(f) /\ Return(t, "duplicate")
            /\ UNCHANGED sessions

\* project_trust, session_start, resources and the model and thinking hooks.
StartExtensions(t) ==
    /\ At(t, "build", "start")
    /\ UNCHANGED <<built, reports, deleted, runtimes>>
    /\ \/ Goto(t, [Top(t) EXCEPT !.at = "checkpoint"]) /\ UNCHANGED <<sessions, pending, disk, budget>>
       \/ Spend("mishaps") /\ Rollback(t, Top(t))

\* checkpoint_started_session: the runtime becomes active once its log is synced.
CheckpointStarted(t) ==
    LET f == Top(t) IN
    /\ At(t, "build", "checkpoint")
    /\ UNCHANGED <<built, reports, deleted>>
    /\ \/ /\ Touch(f.id, f.held, [Now(t) EXCEPT !.life = "active"])
          /\ IF f.why = "spawn" THEN Goto(t, [f EXCEPT !.at = "name"]) /\ UNCHANGED pending
             ELSE Return(t, "ok") /\ Unreserve(f)
          /\ UNCHANGED <<sessions, disk, budget>>
       \/ Spend("mishaps") /\ Rollback(t, f) /\ UNCHANGED runtimes

\* rename_session of a new child: any failure, a close of the child in the
\* meantime included, takes the child back.
NameChild(t) ==
    LET f == Top(t) IN
    /\ At(t, "build", "name")
    /\ UNCHANGED <<built, reports, deleted>>
    /\ \/ /\ SessionOf(f.id) = "ok"
          /\ Touch(f.id, f.held, [Now(t) EXCEPT !.title = TRUE])
          /\ disk' = [disk EXCEPT ![f.id].title = TRUE]
          /\ Unreserve(f) /\ Return(t, "ok")
          /\ UNCHANGED <<sessions, budget>>
       \/ SessionOf(f.id) # "ok" /\ Rollback(t, f) /\ UNCHANGED <<runtimes, budget>>
       \/ Spend("mishaps") /\ Rollback(t, f) /\ UNCHANGED runtimes

(***************************************************************************)
(* Work that holds the operation gate.                                     *)
(***************************************************************************)
\* submit and the entry of run_with_source: join the queue of a Run that still
\* accepts input, or wait for the gate.
Submit(t, rest, i) ==
    /\ UNCHANGED <<sessions, pending, runtimes, built, disk, reports, deleted>>
    /\ LET f == [Call("run", "none", "gate", i) EXCEPT !.held = sessions[i]]
           r == runtimes[i][sessions[i]]
       IN CASE SessionOf(i) # "ok" ->
                 stack' = [stack EXCEPT ![t] =
                     IF rest = <<>> THEN <<>> ELSE After(<<f>> \o rest, SessionOf(i), 0)]
            [] SessionOf(i) = "ok" /\ r.running /\ ~r.cancelled ->
                 stack' = [stack EXCEPT ![t] = <<[f EXCEPT !.at = "queued"]>> \o rest]
            [] OTHER -> stack' = [stack EXCEPT ![t] = <<f>> \o rest]

RunPrompt(t, i) == Idle(t) /\ Submit(t, <<>>, i)

\* The Run below in the stack whose tool waits for this one, if it was cancelled.
ParentCancelled(t) ==
    /\ Len(stack[t]) > 1 /\ stack[t][2].op = "run"
    /\ runtimes[stack[t][2].id][stack[t][2].held].cancelled

\* acquire_operation_for_prompt and install_run
StartRun(t) ==
    /\ At(t, "run", "gate")
    /\ UNCHANGED <<sessions, pending, built, disk, reports, deleted, budget>>
    /\ CASE Now(t).closeRequested -> Return(t, "closing") /\ UNCHANGED runtimes
         [] ~Now(t).closeRequested /\ ParentCancelled(t) ->
              Return(t, "cancelled") /\ UNCHANGED runtimes
         [] OTHER ->
              /\ Now(t).gate = Free
              /\ IF Now(t).life = "active"
                 THEN /\ Touch(Top(t).id, Top(t).held,
                               [Now(t) EXCEPT !.gate = t, !.running = TRUE,
                                              !.cancelled = FALSE,
                                              !.run = IF Top(t).id \in Children THEN @ + 1 ELSE 0])
                      /\ Goto(t, [Top(t) EXCEPT !.at = "running"])
                 ELSE Return(t, "closing") /\ UNCHANGED runtimes

\* u waits for the answer of the Run of that runtime.
Joined(u, i, g) == At(u, "run", "queued") /\ Top(u).id = i /\ Top(u).held = g

\* The Run settles, releases its lease and the gate; whoever is queued in it
\* receives its answer.  Only the answers of children are told apart.
SettleRun(t, outcome) ==
    LET f == Top(t)
        n == IF f.id \in Children THEN 100 * f.held + Now(t).run ELSE 0
    IN
    /\ Touch(f.id, f.held, [Now(t) EXCEPT !.gate = Free, !.running = FALSE])
    /\ stack' = [u \in Workers |-> IF u = t \/ Joined(u, f.id, f.held)
                                   THEN After(stack[u], outcome, n)
                                   ELSE stack[u]]
    /\ UNCHANGED <<sessions, pending, built, disk, reports, deleted, budget>>

RunAnswers(t) ==
    /\ At(t, "run", "running") /\ ~Now(t).cancelled
    /\ \E outcome \in {"ok"} \cup {"error" : i \in {Top(t).id} \cap Children} :
         SettleRun(t, outcome)
RunCancelled(t) ==
    /\ At(t, "run", "running") /\ (Now(t).cancelled \/ ParentCancelled(t))
    /\ SettleRun(t, "cancelled")

\* The caller of a queued submission is cancelled: submit cancels whatever Run the
\* Session now has and waits until it is idle.
SubmitCancelled(t) ==
    /\ At(t, "run", "queued") /\ ParentCancelled(t)
    /\ Touch(Top(t).id, Top(t).held, [Now(t) EXCEPT !.cancelled = TRUE])
    /\ Goto(t, [Top(t) EXCEPT !.at = "idle"])
    /\ UNCHANGED <<sessions, pending, built, disk, reports, deleted, budget>>

\* wait_for_idle
SubmitIdle(t) ==
    /\ At(t, "run", "idle") /\ ~Now(t).running
    /\ Return(t, "cancelled")
    /\ UNCHANGED <<sessions, pending, runtimes, built, disk, reports, deleted, budget>>

\* SessionExecution::cancel, by cancel_session or by the stop action of a
\* background subagent.
CancelSession(t, i) ==
    /\ Idle(t) /\ SessionOf(i) = "ok" /\ runtimes[i][sessions[i]].running
    /\ Touch(i, sessions[i], [runtimes[i][sessions[i]] EXCEPT !.cancelled = TRUE])
    /\ UNCHANGED <<sessions, pending, built, disk, stack, reports, deleted>>

\* SubagentTool: a Run of Main creates a child, submits the task to it with its
\* own token as the parent, and waits.
Subagent(t, i) ==
    LET f == Top(t) IN
    /\ At(t, "run", "running") /\ f.id = Main /\ f.back = "none" /\ ~Now(t).cancelled
    /\ SessionOf(Main) = "ok" /\ Fresh(i) /\ i \in Children
    /\ CallFrom(t, [f EXCEPT !.at = "delegate", !.kids = {i}], SpawnCall(i))
    /\ UNCHANGED <<sessions, pending, runtimes, built, disk, reports, deleted, budget>>

DelegateTask(t) ==
    LET f == [Top(t) EXCEPT !.at = "answer", !.back = "error"] IN
    /\ At(t, "run", "delegate") /\ Top(t).back # "none"
    /\ UNCHANGED budget
    /\ \E i \in f.kids :
         IF Top(t).back = "ok" THEN Submit(t, <<f>> \o Tail(stack[t]), i)
         ELSE /\ Goto(t, f)
              /\ UNCHANGED <<sessions, pending, runtimes, built, disk, reports, deleted>>

\* The child answered, was stopped or failed; the Run goes on.
SubagentResult(t) ==
    /\ At(t, "run", "answer") /\ Top(t).back # "none"
    /\ Goto(t, [Top(t) EXCEPT !.at = "running", !.kids = {}])
    /\ UNCHANGED <<sessions, pending, runtimes, built, disk, reports, deleted, budget>>

\* BackgroundAction: spawn creates the named child, send reopens it when it is
\* not live.
Background(t, i) ==
    LET f == [Top(t) EXCEPT !.at = "manage", !.kids = {i}] IN
    /\ At(t, "run", "running") /\ Top(t).id = Main /\ Top(t).back = "none" /\ ~Now(t).cancelled
    /\ i \in Children /\ \E r \in Reporters : ~Busy(r)
    /\ \/ SessionOf(Main) = "ok" /\ Fresh(i) /\ CallFrom(t, f, SpawnCall(i))
       \/ disk[i].there /\ SessionOf(i) = "notFound"
            /\ CallFrom(t, f, Call("build", "resume", "look", i))
       \/ disk[i].there /\ SessionOf(i) # "notFound" /\ Goto(t, [f EXCEPT !.back = SessionOf(i)])
    /\ UNCHANGED <<sessions, pending, runtimes, built, disk, reports, deleted, budget>>

\* SessionBackgroundWork::spawn refuses once the shutdown token is cancelled.
SpawnReporter(t) ==
    LET f == [Top(t) EXCEPT !.at = "running", !.back = "error", !.kids = {}] IN
    /\ At(t, "run", "manage") /\ Top(t).back # "none"
    /\ IF Top(t).back = "ok" /\ ~Now(t).shutdown
       THEN \E r \in {r \in Reporters : ~Busy(r)}, i \in Top(t).kids :
              stack' = [stack EXCEPT
                 ![t] = <<f>> \o Tail(@),
                 ![r] = <<[Call("report", "none", "start", i) EXCEPT !.owner = Top(t).held]>>]
       ELSE Goto(t, f)
    /\ UNCHANGED <<sessions, pending, runtimes, built, disk, reports, deleted, budget>>

\* Reporter::run: submit to the child, claim its answer once (mark_reported), and
\* submit the report to the owner, unless the owner is shutting down.
ReportStart(r) ==
    /\ At(r, "report", "start")
    /\ UNCHANGED budget
    /\ IF runtimes[Main][Top(r).owner].shutdown
       THEN /\ Return(r, "ok")
            /\ UNCHANGED <<sessions, pending, runtimes, built, disk, reports, deleted>>
       ELSE Submit(r, <<[Top(r) EXCEPT !.at = "told"]>>, Top(r).id)

Marked(f) == \E k \in 1..Len(reports) :
    reports[k] = [owner |-> f.owner, child |-> f.id, answer |-> f.answer]

\* Mutant: an answer is reported by every reporter that received it.
ReportUnmarked(r) ==
    LET f == Top(r) IN
    /\ At(r, "report", "told") /\ f.back # "none"
    /\ UNCHANGED <<sessions, pending, runtimes, built, disk, deleted, budget>>
    /\ IF f.back \notin {"ok", "error"} THEN Return(r, "ok") /\ UNCHANGED reports
       ELSE /\ Goto(r, [f EXCEPT !.at = "reply"])
            /\ reports' = Append(reports,
                 [owner |-> f.owner, child |-> f.id, answer |-> f.answer])

ReportAnswer(r) ==
    LET f == Top(r) IN
    /\ At(r, "report", "told") /\ f.back # "none"
    /\ UNCHANGED <<sessions, pending, runtimes, built, disk, deleted, budget>>
    /\ IF \/ f.back \notin {"ok", "error"}
          \/ f.back = "ok" /\ Marked(f)
       THEN Return(r, "ok") /\ UNCHANGED reports
       ELSE /\ Goto(r, [f EXCEPT !.at = "reply"])
            /\ reports' = IF f.back = "ok"
                 THEN Append(reports, [owner |-> f.owner, child |-> f.id, answer |-> f.answer])
                 ELSE reports

ReportReply(r) ==
    /\ At(r, "report", "reply")
    /\ UNCHANGED budget
    /\ IF runtimes[Main][Top(r).owner].shutdown
       THEN /\ Return(r, "ok")
            /\ UNCHANGED <<sessions, pending, runtimes, built, disk, reports, deleted>>
       ELSE Submit(r, <<[Top(r) EXCEPT !.at = "sent", !.back = "none"]>>, Main)

ReportSent(r) ==
    /\ At(r, "report", "sent") /\ Top(r).back # "none"
    /\ Return(r, "ok")
    /\ UNCHANGED <<sessions, pending, runtimes, built, disk, reports, deleted, budget>>

(***************************************************************************)
(* Closing and deleting.                                                   *)
(***************************************************************************)
\* Mutant: the Run in progress is left to finish.
CloseQuietly(t, i, rest) ==
    IF SessionOf(i) # "ok"
    THEN /\ stack' = [stack EXCEPT ![t] =
               IF rest = <<>> THEN <<>>
               ELSE After(<<Call("close", "none", "gate", i)>> \o rest, SessionOf(i), 0)]
         /\ UNCHANGED runtimes
    ELSE /\ Touch(i, sessions[i], [runtimes[i][sessions[i]] EXCEPT
                 !.shutdown = TRUE, !.closeRequested = TRUE])
         /\ stack' = [stack EXCEPT ![t] =
               <<[Call("close", "none", "gate", i) EXCEPT !.held = sessions[i]]>> \o rest]

\* close_session up to the gate: background.shutdown, request_close.
Close(t, i, rest) ==
    IF SessionOf(i) # "ok"
    THEN /\ stack' = [stack EXCEPT ![t] =
               IF rest = <<>> THEN <<>>
               ELSE After(<<Call("close", "none", "gate", i)>> \o rest, SessionOf(i), 0)]
         /\ UNCHANGED runtimes
    ELSE /\ Touch(i, sessions[i], [runtimes[i][sessions[i]] EXCEPT
                 !.shutdown = TRUE, !.closeRequested = TRUE, !.cancelled = TRUE])
         /\ stack' = [stack EXCEPT ![t] =
               <<[Call("close", "none", "gate", i) EXCEPT !.held = sessions[i]]>> \o rest]

CloseSession(t, i) ==
    /\ Idle(t) /\ Close(t, i, <<>>)
    /\ UNCHANGED <<sessions, pending, built, disk, reports, deleted>>

\* acquire_close, then withdraw_pending answers what is still queued.
CloseGate(t) ==
    LET f == Top(t) IN
    /\ At(t, "close", "gate") /\ Now(t).gate = Free
    /\ IF Now(t).life = "active"
       THEN /\ Touch(f.id, f.held, [Now(t) EXCEPT !.gate = t])
            /\ stack' = [u \in Workers |->
                 CASE u = t -> <<[f EXCEPT !.at = "creation"]>> \o Tail(stack[t])
                   [] u # t /\ Joined(u, f.id, f.held) -> After(stack[u], "cancelled", 0)
                   [] OTHER -> stack[u]]
       ELSE Return(t, "closing") /\ UNCHANGED runtimes
    /\ UNCHANGED <<sessions, pending, built, disk, reports, deleted, budget>>

\* live_children
LiveChildren(i) == {k \in Owned(i) : sessions[k] # 0}

\* The write side of owned_creation, begin_closing, and the children to close.
BeginClosing(t) ==
    LET f == Top(t) IN
    /\ At(t, "close", "creation")
    /\ f.id = Main => ~Reading(f.held)
    /\ Touch(f.id, f.held, [Now(t) EXCEPT !.life = "closing", !.closing = TRUE])
    /\ Goto(t, [f EXCEPT !.at = "children", !.kids = LiveChildren(f.id)])
    /\ UNCHANGED <<sessions, pending, built, disk, reports, deleted, budget>>

\* Children close one after the other; a failure is kept for the end.
CloseChildren(t) ==
    LET f == [Top(t) EXCEPT !.back = "none",
                !.bad = @ \/ Top(t).back \notin {"none", "ok", "notFound"}]
    IN
    /\ At(t, "close", "children")
    /\ IF f.kids = {} THEN Goto(t, [f EXCEPT !.at = "join"]) /\ UNCHANGED runtimes
       ELSE \E k \in f.kids :
              Close(t, k, <<[f EXCEPT !.kids = @ \ {k}]>> \o Tail(stack[t]))
    /\ UNCHANGED <<sessions, pending, built, disk, reports, deleted, budget>>

\* SessionBackgroundWork::join
JoinReporters(t) ==
    /\ At(t, "close", "join")
    /\ \A r \in Reporters : Top(t).id = Main /\ Busy(r) =>
          stack[r][Len(stack[r])].owner # Top(t).held
    /\ Goto(t, [Top(t) EXCEPT !.at = "hook"])
    /\ UNCHANGED <<sessions, pending, runtimes, built, disk, reports, deleted, budget>>

\* Mutant: the transcript stays writable for whoever still holds the runtime.
FinishUnsealed(t) ==
    LET f == Top(t) IN
    /\ At(t, "close", "hook")
    /\ Touch(f.id, f.held, [Now(t) EXCEPT !.life = "active", !.closing = FALSE, !.gate = Free])
    /\ sessions' = [sessions EXCEPT ![f.id] = 0]
    /\ Return(t, IF f.bad THEN "error" ELSE "ok")
    /\ UNCHANGED <<pending, built, disk, reports, deleted, budget>>

\* session_shutdown, MCP teardown, sync, seal and finish_closing, the removal from
\* the map, and only then the end of the shutdown watch.  Every step is taken even
\* when an earlier one fails; the failure is what the call returns.
FinishClosing(t) ==
    LET f == Top(t) IN
    /\ At(t, "close", "hook")
    /\ Touch(f.id, f.held,
             [Unused EXCEPT !.closeRequested = TRUE, !.shutdown = TRUE, !.cancelled = TRUE])
    /\ sessions' = [sessions EXCEPT ![f.id] = 0]
    /\ \/ Return(t, IF f.bad THEN "error" ELSE "ok") /\ UNCHANGED budget
       \/ Return(t, "error") /\ Spend("mishaps")
    /\ UNCHANGED <<pending, built, disk, reports, deleted>>

\* delete_session: reserve_session_deletion, the directory that lists the children
\* (of the runtime, or of the file's header), then close.
Delete(t, i, rest) ==
    LET f == [Call("delete", "none", "closed", i) EXCEPT !.reserved = TRUE,
                !.kids = IF sessions[i] # 0 \/ disk[i].there THEN Owned(i) ELSE {}]
        Fail(r) == /\ stack' = [stack EXCEPT ![t] =
                        IF rest = <<>> THEN <<>> ELSE After(<<f>> \o rest, r, 0)]
                   /\ UNCHANGED <<pending, runtimes>>
    IN
    CASE i \in pending -> Fail("duplicate")
      [] i \notin pending /\ SessionOf(i) \in {"starting", "closing"} -> Fail(SessionOf(i))
      [] OTHER -> /\ pending' = pending \cup {i}
                  /\ Close(t, i, <<f>> \o rest)

DeleteSession(t, i) ==
    /\ Idle(t) /\ Delete(t, i, <<>>)
    /\ UNCHANGED <<sessions, built, disk, reports, deleted>>

\* Mutant: the persisted children are left behind.
DeleteAlone(t) ==
    LET f == Top(t) IN
    /\ At(t, "delete", "closed") /\ f.back # "none"
    /\ UNCHANGED <<sessions, runtimes, built, disk, reports, deleted, budget>>
    /\ IF f.back \in {"ok", "notFound"}
       THEN /\ Goto(t, [f EXCEPT !.at = "kids", !.back = "none", !.kids = {}])
            /\ UNCHANGED pending
       ELSE Return(t, "error") /\ Unreserve(f)

\* The close succeeded or had nothing to do: list the persisted children.
DeleteClosed(t) ==
    LET f == Top(t) IN
    /\ At(t, "delete", "closed") /\ f.back # "none"
    /\ UNCHANGED <<sessions, runtimes, built, disk, reports, deleted, budget>>
    /\ IF f.back \in {"ok", "notFound"}
       THEN /\ Goto(t, [f EXCEPT !.at = "kids", !.back = "none",
                           !.kids = {k \in f.kids : disk[k].there}])
            /\ UNCHANGED pending
       ELSE Return(t, "error") /\ Unreserve(f)

\* Children are deleted one after the other; the file goes last.
DeleteKids(t) ==
    LET f == Top(t) IN
    /\ At(t, "delete", "kids")
    /\ UNCHANGED <<sessions, built, reports, budget>>
    /\ CASE f.back \notin {"none", "ok"} ->
              Return(t, "error") /\ Unreserve(f) /\ UNCHANGED <<runtimes, disk, deleted>>
         [] f.back \in {"none", "ok"} /\ f.kids # {} ->
              /\ \E k \in f.kids :
                   Delete(t, k, <<[f EXCEPT !.kids = @ \ {k}, !.back = "none"]>> \o Tail(stack[t]))
              /\ UNCHANGED <<disk, deleted>>
         [] OTHER ->
              /\ disk' = [disk EXCEPT ![f.id] = NoFile]
              /\ deleted' = deleted \cup {f.id}
              /\ Return(t, "ok") /\ Unreserve(f)
              /\ UNCHANGED runtimes

(***************************************************************************)
(* Titles and settings.                                                    *)
(***************************************************************************)
\* set_session_title: the live runtime, or the file under a reservation, or wait
\* for whoever has the id.
Rename(t, f) ==
    LET i == f.id
        To(g) == stack' = [stack EXCEPT ![t] = <<g>>]
    IN
    CASE SessionOf(i) = "ok" ->
           To([f EXCEPT !.at = "lock", !.held = sessions[i]]) /\ UNCHANGED pending
      [] SessionOf(i) = "closing" -> To([f EXCEPT !.at = "closing"]) /\ UNCHANGED pending
      [] SessionOf(i) \in {"notFound", "starting"} /\ ~Reservable(i) ->
           To([f EXCEPT !.at = "wait"]) /\ UNCHANGED pending
      [] OTHER -> IF disk[i].there
                  THEN To([f EXCEPT !.at = "store", !.reserved = TRUE])
                       /\ pending' = pending \cup {i}
                  ELSE stack' = [stack EXCEPT ![t] = <<>>] /\ UNCHANGED pending

SetSessionTitle(t, i) ==
    /\ Idle(t) /\ Rename(t, Call("rename", "none", "look", i))
    /\ UNCHANGED <<sessions, runtimes, built, disk, reports, deleted>>
RenameAgain(t) ==
    /\ At(t, "rename", "look") /\ Rename(t, [Top(t) EXCEPT !.held = 0])
    /\ UNCHANGED <<sessions, runtimes, built, disk, reports, deleted, budget>>

\* SessionRename::apply once the rename lock is free; a sealed transcript refuses
\* the write and the call starts over.
RenameLive(t) ==
    LET f == Top(t) IN
    /\ At(t, "rename", "lock")
    /\ IF Now(t).life = "closed"
       THEN Goto(t, [f EXCEPT !.at = "look"]) /\ UNCHANGED <<runtimes, disk>>
       ELSE /\ Touch(f.id, f.held, [Now(t) EXCEPT !.title = TRUE])
            /\ disk' = IF disk[f.id].there /\ ~Now(t).loose
                       THEN [disk EXCEPT ![f.id].title = TRUE] ELSE disk
            /\ Return(t, "ok")
    /\ UNCHANGED <<sessions, pending, built, reports, deleted, budget>>

\* set_name_at under the reservation.
RenameStored(t) ==
    /\ At(t, "rename", "store")
    /\ disk' = [disk EXCEPT ![Top(t).id].title = TRUE]
    /\ Unreserve(Top(t)) /\ Return(t, "ok")
    /\ UNCHANGED <<sessions, runtimes, built, reports, deleted, budget>>

\* wait_for_session_close
WaitForClose(t) ==
    LET i == Top(t).id
        r == runtimes[i][sessions[i]]
    IN
    /\ At(t, "rename", "closing")
    /\ CASE sessions[i] # 0 /\ r.closing -> Goto(t, [Top(t) EXCEPT !.at = "await", !.held = sessions[i]])
         [] sessions[i] # 0 /\ ~r.closing /\ r.life = "closing" -> Return(t, "closing")
         [] OTHER -> Goto(t, [Top(t) EXCEPT !.at = "look"])
    /\ UNCHANGED <<sessions, pending, runtimes, built, disk, reports, deleted, budget>>

CloseSettled(t) ==
    /\ At(t, "rename", "await") /\ ~Now(t).closing
    /\ Goto(t, [Top(t) EXCEPT !.at = "look"])
    /\ UNCHANGED <<sessions, pending, runtimes, built, disk, reports, deleted, budget>>

\* CLOSE_WAIT is over before the shutdown is.
CloseWaitTimesOut(t) ==
    /\ At(t, "rename", "await") /\ Now(t).closing
    /\ Return(t, "closing")
    /\ UNCHANGED <<sessions, pending, runtimes, built, disk, reports, deleted, budget>>

\* wait_for_session_reservation
WaitForReservation(t) ==
    /\ At(t, "rename", "wait") /\ Top(t).id \notin pending
    /\ IF SessionOf(Top(t).id) = "starting" THEN Return(t, "starting")
       ELSE Goto(t, [Top(t) EXCEPT !.at = "look"])
    /\ UNCHANGED <<sessions, pending, runtimes, built, disk, reports, deleted, budget>>

\* SessionSettingsUpdate: the model's sign-in check is awaited between the lookup
\* and the write.
SetSetting(t, i) ==
    /\ Idle(t) /\ SessionOf(i) = "ok"
    /\ Begin(t, [Call("set", "none", "signin", i) EXCEPT !.held = sessions[i]])
    /\ UNCHANGED <<sessions, pending, runtimes, built, disk, reports, deleted>>

PersistSetting(t) ==
    LET f == Top(t) IN
    /\ At(t, "set", "signin")
    /\ IF Now(t).life = "closed" THEN Return(t, "closing") /\ UNCHANGED <<runtimes, disk>>
       ELSE /\ Touch(f.id, f.held, [Now(t) EXCEPT !.setting = TRUE])
            /\ disk' = IF disk[f.id].there /\ ~Now(t).loose
                       THEN [disk EXCEPT ![f.id].setting = TRUE] ELSE disk
            /\ Return(t, "ok")
    /\ UNCHANGED <<sessions, pending, built, reports, deleted, budget>>

(***************************************************************************)
(* A caller drops its future: reservations, the gate, the lease of a Run   *)
(* and the shutdown watch are released by their guards; the lifecycle stays *)
(* where it is.  Inputs the Run had taken from its queue are answered with a *)
(* failure, the others stay queued.                                        *)
(***************************************************************************)
DropCall(t) ==
    LET mine == {stack[t][k] : k \in 1..Len(stack[t])}
        Released(i, g) ==
            LET r == runtimes[i][g]
                e == IF r.gate = t
                     THEN [r EXCEPT !.gate = Free, !.running = FALSE, !.closing = FALSE]
                     ELSE r
            IN IF /\ sessions[i] # g
                  /\ \E f \in mine : f.op = "build" /\ f.reserved /\ f.id = i /\ f.held = g
               THEN Unused ELSE e
        Waiting == {u \in Workers \ {t} : \E f \in mine :
                      f.op = "run" /\ f.at # "gate" /\ Joined(u, f.id, f.held)
                        /\ runtimes[f.id][f.held].gate = t}
    IN
    /\ t \in Tasks /\ Busy(t) /\ Spend("mishaps")
    /\ ~(At(t, "build", "fork") /\ Top(t).bad)
    /\ pending' = pending \ {f.id : f \in {f \in mine : f.reserved}}
    /\ runtimes' = [i \in Ids |-> [g \in 1..MaxBuilds |-> Released(i, g)]]
    /\ \E failed \in SUBSET Waiting :
         stack' = [u \in Workers |-> CASE u = t -> <<>>
                                       [] u \in failed -> After(stack[u], "error", 0)
                                       [] OTHER -> stack[u]]
    /\ UNCHANGED <<sessions, built, disk, reports, deleted>>

\* What earlier processes left on disk: Main, Main and its children, or
\* children whose owner's file was removed by hand.  Main may be resumed already.
Init ==
    /\ pending = {}
    /\ \E files \in {{Main}, {Main} \cup Children, Children} :
       \E live \in SUBSET (files \cap {Main}) :
         /\ disk = [i \in Ids |-> IF i \in files THEN NewFile ELSE NoFile]
         /\ built = [i \in Ids |-> IF i \in live THEN 1 ELSE 0]
         /\ sessions = built
         /\ runtimes = [i \in Ids |-> [g \in 1..MaxBuilds |->
              IF i \in live /\ g = 1 THEN [FreshRuntime(0, NewFile) EXCEPT !.life = "active"]
              ELSE Unused]]
    /\ stack = [t \in Workers |-> <<>>]
    /\ reports = <<>>
    /\ deleted = {} /\ spoiled = {}
    /\ budget = [ops |-> MaxOps, mishaps |-> MaxMishaps]

\* Callers name Sessions they were told of.
Known(i) == i \in Named /\ (disk[i].there \/ built[i] > 0 \/ i \in deleted)

\* A call from outside the kernel.
Arrive(t) ==
    \/ \E i \in Roots : CreateSession(t, i) \/ \E source \in Roots : ForkSession(t, source, i)
    \/ \E i \in Children : CreateOwned(t, i)
    \/ \E i \in {i \in Ids : Known(i)} :
        \/ ResumeSession(t, i) \/ RunPrompt(t, i) \/ CancelSession(t, i)
        \/ CloseSession(t, i) \/ DeleteSession(t, i)
        \/ SetSessionTitle(t, i) \/ SetSetting(t, i)

\* What the scheduler runs by itself: everything that does not wait for a user, a
\* provider or a hung shutdown.
Continue(t) ==
    \/ ForkStore(t) \/ ResumeNested(t) \/ ResumeLive(t) \/ AcquireOperation(t)
    \/ ResumeOwner(t) \/ OwnerGuard(t) \/ BuildSession(t) \/ BeforeSwitch(t)
    \/ RegisterSession(t) \/ StartExtensions(t) \/ CheckpointStarted(t) \/ NameChild(t)
    \/ StartRun(t) \/ RunCancelled(t) \/ SubmitCancelled(t) \/ SubmitIdle(t)
    \/ DelegateTask(t) \/ SubagentResult(t)
    \/ SpawnReporter(t) \/ ReportStart(t) \/ ReportAnswer(t) \/ ReportReply(t)
    \/ ReportSent(t) \/ CloseGate(t) \/ BeginClosing(t) \/ CloseChildren(t)
    \/ JoinReporters(t) \/ FinishClosing(t) \/ DeleteClosed(t) \/ DeleteKids(t)
    \/ RenameAgain(t) \/ RenameLive(t) \/ RenameStored(t) \/ WaitForClose(t)
    \/ CloseSettled(t) \/ WaitForReservation(t) \/ PersistSetting(t)

\* Only a fork spoils a file.
Next ==
    \/ \E t \in Tasks : (Arrive(t) \/ DropCall(t)) /\ UNCHANGED spoiled
    \/ \E t \in Workers :
         (Continue(t) \/ RunAnswers(t) \/ CloseWaitTimesOut(t)) /\ UNCHANGED spoiled
    \/ \E t \in Tasks, i \in Children :
         (Subagent(t, i) \/ Background(t, i)) /\ UNCHANGED spoiled
    \/ \E t \in Workers : ForkRepairs(t)

Spec == Init /\ [][Next]_vars

(***************************************************************************)
(* Properties.                                                             *)
(***************************************************************************)
\* At most one runtime, or one rename without a runtime, has a Session's file to
\* write to at a time, however calls that create, resume, close, delete and rename
\* it overlap and whichever of them is dropped.  A fork is the one exception: it
\* opens its source for writing under no lock (ForkRepairs says what that does) and
\* is not counted.
OneWriter ==
    /\ TypeOK
    /\ \A i \in Ids : disk[i].there =>
          Cardinality(Writers(i))
            + Cardinality({t \in Tasks : At(t, "rename", "store") /\ Top(t).id = i}) <= 1

\* The registered runtime's title and setting are those in its file, unless a fork
\* renamed another file over the one it writes: no other call writes a title or a
\* setting behind its back or into a runtime that is already gone.
MemoryMatchesFile ==
    \A i \in Ids : sessions[i] # 0 /\ disk[i].there /\ ~runtimes[i][sessions[i]].loose =>
        /\ runtimes[i][sessions[i]].title = disk[i].title
        /\ runtimes[i][sessions[i]].setting = disk[i].setting

\* An active child whose MCP connection is its owner's has an owner that is not
\* closed: a close takes every child with it, also those still being created or
\* resumed when it began.
ChildrenGoFirst ==
    \A i \in Children : sessions[i] # 0 =>
        LET r == runtimes[i][sessions[i]] IN
        r.life = "active" /\ r.owner # 0 => runtimes[Main][r.owner].life # "closed"

\* Once delete_session returned, the Session has no file and no runtime, and
\* neither has any child it owned.
DeletedIsGone ==
    \A i \in deleted : \A k \in {i} \cup Owned(i) : ~disk[k].there /\ sessions[k] = 0

\* No answer of a child is reported to its owner twice, also when two reporters
\* wait for the same Run of the child, and no reporter outlives the runtime of the
\* owner that started it.
ReportedOnce ==
    /\ \A j, k \in 1..Len(reports) :
          reports[j].child = reports[k].child /\ reports[j].answer = reports[k].answer
              => j = k
    /\ \A r \in Reporters : Busy(r) =>
          runtimes[Main][stack[r][Len(stack[r])].owner].life # "closed"

\* A close, a deletion or a rename never waits for calls that wait for each other:
\* as long as one is under way, some call can go on without a user, a provider or
\* the caller of another call.  The exception is a Run of a child that was rolled
\* back: its runtime left the map without being cancelled, no close reaches it, and
\* a reporter that submitted to it keeps the owner's close waiting for its answer.
\* (A call that cannot build because of the bound MaxBuilds does not count.)
Ending(t) == \E k \in 1..Len(stack[t]) : stack[t][k].op \in {"close", "delete", "rename"}
AtBound(u) == At(u, "build", "look") /\ built[Top(u).id] = MaxBuilds
Orphaned(u) == At(u, "run", "running") /\ sessions[Top(u).id] # Top(u).held
NeverStuck == (\E t \in Tasks : Ending(t)) =>
                  \E u \in Workers : ENABLED Continue(u) \/ Orphaned(u) \/ AtBound(u)
=============================================================================
