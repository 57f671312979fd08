------------------------- MODULE SessionHostSafety -------------------------
(***************************************************************************)
(* What a close and a deletion leave behind: no active child of a closed   *)
(* owner, and nothing of a deleted Session.                                *)
(*                                                                         *)
(* Both are promises of calls that call themselves: a close works through  *)
(* the live children, a deletion closes and then deletes the persisted     *)
(* ones.  What such a call knows therefore depends on the call it has made *)
(* and waits for, the one on top of it in the stack (Knows): a child is    *)
(* still to be visited, is gone, or is the business of that call.  Between *)
(* two visits the owner's lifecycle keeps new children away: who creates   *)
(* or resumes one has found its owner active under owned_creation, and a   *)
(* close that is past begin_closing has found nobody there.                *)
(***************************************************************************)
EXTENDS SessionHost_proofs

\* The active runtime of child c shares the MCP connection of Main's runtime g.
Live(ses, run, c, g) ==
    ses[c] # 0 /\ run[c][ses[c]].owner = g /\ run[c][ses[c]].life = "active"

\* The call above the k-th call of a stack: the one it waits for.
On(s, k) == {s[j] : j \in {j \in 1..Len(s) : j = k - 1}}

\* Main never had a child that is remembered, and none can be made.
NoKids(run, files) ==
    /\ \A g \in 1..MaxBuilds : run[Main][g].life # "active"
    /\ \A c \in Children : ~files[c].there

\* Who builds a runtime under an owner holds owned_creation, and the owner is
\* active; a Session that is being created owns nothing yet.
BuildKnows(run, files, f) ==
    f.op = "build" =>
        /\ f.why \notin {"resume", "spawn"} /\ f.id = Main => NoKids(run, files)
        /\ f.at \in {"switch", "gate"} => f.why = "resume"
        /\ f.why = "spawn" => f.id \in Children
        /\ f.at = "fork" => f.id \in Roots
        /\ f.at \in {"fork", "look", "owner"} => f.owner = 0
        /\ f.at \in {"build", "hook", "register", "start", "checkpoint", "name"}
             /\ f.owner # 0 => f.guard
        /\ f.guard => f.owner \in 1..MaxBuilds /\ run[Main][f.owner].life = "active"
        /\ f.at \in {"hook", "register", "start", "checkpoint"} =>
             f.held \in 1..MaxBuilds /\ run[f.id][f.held].owner \in {f.owner, 0}

\* A close past begin_closing: every child that shares its connection is still to
\* be visited, or is being closed by the call it waits for.
CloseKnows(ses, run, f, on) ==
    f.op = "close" /\ f.at \in {"children", "join", "hook"} =>
        /\ f.held \in 1..MaxBuilds /\ run[f.id][f.held].life = "closing"
        /\ f.id = Main => \A c \in Children : Live(ses, run, c, f.held) =>
             /\ f.at = "children"
             /\ \/ c \in f.kids
                \/ \E u \in on : u.op = "close" /\ u.id = c /\ u.held = ses[c]

\* A deletion whose close has succeeded has an id that nobody registers; every
\* child of Main is still to be deleted, has no file, or is being deleted by the
\* call it waits for.
DeleteKnows(ses, files, f, on) ==
    f.op = "delete" =>
        /\ f.at = "closed" /\ f.id = Main =>
             Children \subseteq f.kids \/ (ses[Main] = 0 /\ \A c \in Children : ~files[c].there)
        /\ f.at = "kids" \/ f.back \in {"ok", "notFound"} => ses[f.id] = 0
        /\ \A u \in on : IF f.at = "kids" THEN u.op = "delete"
                        ELSE u.op = "close" /\ u.id = f.id
        /\ f.at = "kids" /\ f.id = Main /\ (on # {} \/ f.back \in {"none", "ok"}) =>
             \A c \in Children : \/ c \in f.kids \/ ~files[c].there
                                 \/ \E u \in on : u.id = c

Knows(ses, run, files, f, on) ==
    BuildKnows(run, files, f) /\ CloseKnows(ses, run, f, on) /\ DeleteKnows(ses, files, f, on)

StackKnows(ses, run, files, s) ==
    \A k \in 1..Len(s) : Knows(ses, run, files, s[k], On(s, k))

\* All of them but the innermost.
BelowKnows(ses, run, files, s) ==
    \A k \in 1..Len(s) : k # 1 => Knows(ses, run, files, s[k], On(s, k))

CallsKnow == \A t \in Workers : StackKnows(sessions, runtimes, disk, stack[t])

\* What holds of the registry: a registered Session has a file; an open runtime of
\* a root is the registered one; the owner of an active child is open; what was
\* deleted, and what it owned, has no file.
RegistryKnows(ses, run, made, files, gone) ==
    /\ \A i \in Ids : ses[i] # 0 => files[i].there
    /\ \A i \in Roots : \A g \in 1..MaxBuilds :
          run[i][g].life \in {"active", "closing"} => ses[i] = g
    /\ \A i \in Ids : \A g \in 1..MaxBuilds : g > made[i] => run[i][g].life = "closed"
    /\ \A c \in Children : \A g \in Nat : g # 0 /\ Live(ses, run, c, g) =>
          g \in 1..MaxBuilds /\ run[Main][g].life \in {"active", "closing"}
    /\ \A i \in gone : \A k \in {i} \cup Owned(i) : ~files[k].there
    /\ made[Main] > 0 /\ ~files[Main].there => \A c \in Children : ~files[c].there

ClosingInv == CallsKnow /\ RegistryKnows(sessions, runtimes, built, disk, deleted)

(***************************************************************************)
(* Stacks: what a change of the top call leaves of the others' knowledge.  *)
(***************************************************************************)
\* Whoever waits for u may as well wait for v.
Stands(u, v) ==
    u.op = v.op /\ (u.op \in {"close", "delete"} => u.id = v.id /\ u.held = v.held)

\* A call with what the one it waited for returned.
Told(f, r, n) == [f EXCEPT !.back = r, !.answer = n]

LEMMA OnIs ==
    ASSUME NEW S, NEW s \in Seq(S)
    PROVE  On(s, 1) = {} /\ \A k \in 1..Len(s) : k # 1 => On(s, k) = {s[k - 1]}
  BY DEF On

LEMMA StandsKeeps ==
    ASSUME NEW ses, NEW run, NEW files, NEW f, NEW u, NEW v, Stands(u, v),
           Knows(ses, run, files, f, {u})
    PROVE  Knows(ses, run, files, f, {v})
  <1>1. CloseKnows(ses, run, f, {v})
    BY DEF Knows, CloseKnows, Stands
  <1>2. DeleteKnows(ses, files, f, {v})
    BY DEF Knows, DeleteKnows, Stands
  <1> QED
    BY <1>1, <1>2 DEF Knows

\* A call that returned to f without having closed or deleted anything.
LEMMA PlainBack ==
    ASSUME NEW ses, NEW run, NEW files, NEW f \in Frame, NEW u, u.op \notin {"close", "delete"},
           NEW r \in Outcomes, NEW n \in Nat, Knows(ses, run, files, f, {u})
    PROVE  Knows(ses, run, files, Told(f, r, n), {})
  <1> DEFINE h == Told(f, r, n)
  <1>1. /\ h.op = f.op /\ h.why = f.why /\ h.at = f.at /\ h.id = f.id /\ h.held = f.held
        /\ h.owner = f.owner /\ h.guard = f.guard /\ h.kids = f.kids
    BY DEF Frame, Told
  <1> HIDE DEF h
  <1>2. BuildKnows(run, files, h)
    BY <1>1 DEF Knows, BuildKnows
  <1>3. CloseKnows(ses, run, h, {})
    BY <1>1 DEF Knows, CloseKnows
  <1>4. f.op # "delete"
    BY DEF Knows, DeleteKnows
  <1>5. DeleteKnows(ses, files, h, {})
    BY <1>1, <1>4 DEF DeleteKnows
  <1> QED
    BY <1>2, <1>3, <1>5 DEF Knows, h

\* The top call moves on.
LEMMA GotoKnows ==
    ASSUME NEW ses, NEW run, NEW files, NEW s \in Seq(Frame), s # <<>>, NEW g \in Frame,
           BelowKnows(ses, run, files, s), Stands(Head(s), g), Knows(ses, run, files, g, {})
    PROVE  StackKnows(ses, run, files, <<g>> \o Tail(s))
  <1> DEFINE x == <<g>> \o Tail(s)
  <1>1. /\ x \in Seq(Frame) /\ Len(x) = Len(s) /\ x[1] = g /\ Len(s) \in Nat \ {0}
        /\ \A k \in 1..Len(s) : k # 1 => x[k] = s[k]
    OBVIOUS
  <1>2. Head(s) = s[1]
    OBVIOUS
  <1> HIDE DEF x
  <1>3. On(x, 1) = {} /\ \A k \in 1..Len(x) : k # 1 => On(x, k) = {x[k - 1]}
    BY <1>1, OnIs
  <1>4. \A k \in 1..Len(s) : k # 1 => On(s, k) = {s[k - 1]}
    BY OnIs
  <1>5. ASSUME NEW k \in 1..Len(x)
        PROVE  Knows(ses, run, files, x[k], On(x, k))
    <2>1. CASE k = 1
      BY <1>1, <1>3, <2>1
    <2>2. CASE k = 2
      <3>1. x[k] = s[k] /\ On(s, k) = {s[1]} /\ On(x, k) = {g} /\ k \in 1..Len(s) /\ k # 1
        BY <1>1, <1>3, <1>4, <2>2
      <3>2. Knows(ses, run, files, s[k], {s[1]})
        BY <3>1 DEF BelowKnows
      <3> QED
        BY <1>2, <3>1, <3>2, StandsKeeps
    <2>3. CASE k > 2
      <3>0. k \in 1..Len(s) /\ k # 1 /\ k - 1 \in 1..Len(s) /\ k - 1 # 1
        BY <1>1, <2>3
      <3>1. x[k] = s[k] /\ x[k - 1] = s[k - 1]
        BY <1>1, <3>0
      <3>2. On(s, k) = {s[k - 1]} /\ On(x, k) = {x[k - 1]}
        BY <1>3, <1>4, <3>0
      <3> QED
        BY <3>0, <3>1, <3>2 DEF BelowKnows
    <2> QED
      BY <1>1, <2>1, <2>2, <2>3
  <1> QED
    BY <1>5 DEF StackKnows, x

\* The top call makes another.
LEMMA CallKnows ==
    ASSUME NEW ses, NEW run, NEW files, NEW s \in Seq(Frame), s # <<>>, NEW f \in Frame,
           NEW g \in Frame, BelowKnows(ses, run, files, s), Stands(Head(s), f),
           Knows(ses, run, files, f, {g}), Knows(ses, run, files, g, {})
    PROVE  StackKnows(ses, run, files, <<g, f>> \o Tail(s))
  <1> DEFINE x == <<g, f>> \o Tail(s)
  <1>1. /\ x \in Seq(Frame) /\ Len(x) = Len(s) + 1 /\ x[1] = g /\ x[2] = f
        /\ Len(s) \in Nat \ {0} /\ \A k \in 2..Len(s) : x[k + 1] = s[k]
    OBVIOUS
  <1>2. Head(s) = s[1]
    OBVIOUS
  <1> HIDE DEF x
  <1>3. On(x, 1) = {} /\ \A k \in 1..Len(x) : k # 1 => On(x, k) = {x[k - 1]}
    BY <1>1, OnIs
  <1>4. \A k \in 1..Len(s) : k # 1 => On(s, k) = {s[k - 1]}
    BY OnIs
  <1>5. ASSUME NEW k \in 1..Len(x)
        PROVE  Knows(ses, run, files, x[k], On(x, k))
    <2>1. CASE k = 1
      BY <1>1, <1>3, <2>1
    <2>2. CASE k = 2
      <3>1. k # 1 /\ k - 1 = 1
        BY <2>2
      <3>2. On(x, k) = {g} /\ x[k] = f
        BY <1>1, <1>3, <2>2, <3>1
      <3> QED
        BY <3>2
    <2>3. CASE k = 3
      <3>1. x[k] = s[2] /\ On(s, 2) = {s[1]} /\ On(x, k) = {f} /\ 2 \in 1..Len(s) /\ 2 # 1
        BY <1>1, <1>3, <1>4, <2>3
      <3>2. Knows(ses, run, files, s[2], {s[1]})
        BY <3>1 DEF BelowKnows
      <3> QED
        BY <1>2, <3>1, <3>2, StandsKeeps
    <2>4. CASE k > 3
      <3>1. /\ k - 1 \in 1..Len(s) /\ k - 1 \in 2..Len(s) /\ k - 2 \in 2..Len(s)
            /\ (k - 1) + 1 = k /\ (k - 2) + 1 = k - 1 /\ (k - 1) - 1 = k - 2 /\ k - 1 # 1
        BY <1>1, <2>4
      <3>2. x[k] = s[k - 1] /\ x[k - 1] = s[k - 2]
        BY <1>1, <3>1
      <3>3. On(s, k - 1) = {s[k - 2]} /\ On(x, k) = {x[k - 1]}
        BY <1>1, <1>3, <1>4, <3>1, <2>4
      <3> QED
        BY <3>1, <3>2, <3>3 DEF BelowKnows
    <2> QED
      BY <1>1, <2>1, <2>2, <2>3, <2>4
  <1> QED
    BY <1>5 DEF StackKnows, x

\* The top call returns.
LEMMA AfterKnows ==
    ASSUME NEW ses, NEW run, NEW files, NEW s \in Seq(Frame), s # <<>>, NEW r \in Outcomes,
           NEW n \in Nat, BelowKnows(ses, run, files, s),
           Len(s) > 1 => Knows(ses, run, files, Told(s[2], r, n), {})
    PROVE  StackKnows(ses, run, files, After(s, r, n))
  <1> DEFINE h == Told(s[2], r, n)
             b == SubSeq(s, 3, Len(s))
  <1>0. Len(s) \in Nat \ {0}
    OBVIOUS
  <1>1. CASE Len(s) = 1
    BY <1>1 DEF After, StackKnows
  <1>2. CASE Len(s) > 1
    <2>1. s[2] \in Frame /\ 2 \in 1..Len(s) /\ On(s, 2) = {s[1]}
      BY <1>0, <1>2, ElementOfSeq, OnIs
    <2>2. /\ h \in Frame /\ Stands(s[2], h)
      BY <2>1 DEF Frame, Stands, Told
    <2>3. /\ b \in Seq(Frame) /\ Len(b) = Len(s) - 2
          /\ \A k \in 1..(Len(s) - 2) : b[k] = s[k + 2]
      <3>0. 3 \in Int /\ Len(s) \in Int
        BY <1>0
      <3>1. \A i \in 3..Len(s) : s[i] \in Frame
        BY <1>0, ElementOfSeq
      <3>2. /\ b \in Seq(Frame) /\ Len(b) = IF 3 <= Len(s) THEN Len(s) - 3 + 1 ELSE 0
            /\ \A i \in 1..(Len(s) - 3 + 1) : b[i] = s[3 + i - 1]
        BY <3>0, <3>1, SubSeqProperties
      <3> HIDE DEF b
      <3>3. Len(b) = Len(s) - 2
        <4>1. \A m \in Nat : m >= 2 => (IF 3 <= m THEN m - 3 + 1 ELSE 0) = m - 2
          OBVIOUS
        <4>2. Len(s) \in Nat /\ Len(s) >= 2
          BY <1>0, <1>2
        <4> QED
          BY <3>2, <4>1, <4>2
      <3>4. ASSUME NEW k \in 1..(Len(s) - 2)
            PROVE  b[k] = s[k + 2]
        <4>1. k \in 1..(Len(s) - 3 + 1) /\ 3 + k - 1 = k + 2
          BY <1>0, <1>2
        <4> QED
          BY <3>2, <4>1
      <3> QED
        BY <3>2, <3>3, <3>4
    <2>5. Knows(ses, run, files, h, {})
      BY <1>2
    <2> HIDE DEF h, b
    <2>4. After(s, r, n) = <<h>> \o b
      <3>1. Len(s) # 1
        BY <1>2
      <3> QED
        BY <3>1 DEF After, h, b, Told
    <2> DEFINE x == <<h>> \o b
    <2>6. /\ x \in Seq(Frame) /\ Len(x) = Len(s) - 1 /\ x[1] = h
          /\ \A k \in 1..Len(x) : k # 1 => x[k] = s[k + 1]
      <3>1. x \in Seq(Frame) /\ Len(x) = Len(b) + 1 /\ x[1] = h
        BY <2>2, <2>3
      <3>2. ASSUME NEW k \in 1..Len(x), k # 1
            PROVE  x[k] = s[k + 1]
        <4>1. x[k] = b[k - 1] /\ k - 1 \in 1..(Len(s) - 2) /\ (k - 1) + 2 = k + 1
          BY <1>0, <2>2, <2>3, <3>1, <3>2
        <4> QED
          BY <2>3, <4>1
      <3> QED
        BY <1>0, <2>3, <3>1, <3>2
    <2> HIDE DEF x
    <2>7. On(x, 1) = {} /\ \A k \in 1..Len(x) : k # 1 => On(x, k) = {x[k - 1]}
      BY <2>6, OnIs
    <2>8. \A k \in 1..Len(s) : k # 1 => On(s, k) = {s[k - 1]}
      BY OnIs
    <2>9. ASSUME NEW k \in 1..Len(x)
          PROVE  Knows(ses, run, files, x[k], On(x, k))
      <3>1. CASE k = 1
        BY <2>5, <2>6, <2>7, <3>1
      <3>2. CASE k = 2
        <4>1. x[k] = s[3] /\ On(s, 3) = {s[2]} /\ On(x, k) = {h} /\ 3 \in 1..Len(s) /\ 3 # 1
          BY <1>0, <2>6, <2>7, <2>8, <3>2
        <4>2. Knows(ses, run, files, s[3], {s[2]})
          BY <4>1 DEF BelowKnows
        <4> QED
          BY <2>2, <4>1, <4>2, StandsKeeps
      <3>3. CASE k > 2
        <4>1. /\ k + 1 \in 1..Len(s) /\ k - 1 \in 1..Len(x) /\ (k - 1) + 1 = k
              /\ (k + 1) - 1 = k /\ k # 1 /\ k - 1 # 1 /\ k + 1 # 1
          BY <1>0, <2>6, <3>3
        <4>2. x[k] = s[k + 1] /\ x[k - 1] = s[k]
          BY <2>6, <4>1
        <4>3. On(s, k + 1) = {s[k]} /\ On(x, k) = {x[k - 1]}
          BY <2>7, <2>8, <4>1
        <4> QED
          BY <4>1, <4>2, <4>3 DEF BelowKnows
      <3> QED
        BY <2>6, <3>1, <3>2, <3>3
    <2> QED
      BY <2>4, <2>9 DEF StackKnows, x
  <1>3. Len(s) = 1 \/ Len(s) > 1
    <2>1. \A m \in Nat \ {0} : m = 1 \/ m > 1
      OBVIOUS
    <2> QED
      BY <1>0, <2>1
  <1> QED
    BY <1>1, <1>2, <1>3

\* A call that is neither a close nor a deletion returns.
LEMMA PlainReturns ==
    ASSUME NEW ses, NEW run, NEW files, NEW s \in Seq(Frame), s # <<>>, NEW r \in Outcomes,
           NEW n \in Nat, BelowKnows(ses, run, files, s), Head(s).op \notin {"close", "delete"}
    PROVE  StackKnows(ses, run, files, After(s, r, n))
  <1>1. Head(s) = s[1] /\ Len(s) \in Nat \ {0}
    OBVIOUS
  <1>2. ASSUME Len(s) > 1
        PROVE  Knows(ses, run, files, Told(s[2], r, n), {})
    <2>1. s[2] \in Frame /\ 2 \in 1..Len(s) /\ 2 # 1 /\ On(s, 2) = {s[1]}
      BY <1>1, <1>2, ElementOfSeq, OnIs
    <2>2. Knows(ses, run, files, s[2], {s[1]})
      BY <2>1 DEF BelowKnows
    <2> QED
      BY <1>1, <2>1, <2>2, PlainBack
  <1> QED
    BY <1>2, AfterKnows

LEMMA OneKnows ==
    ASSUME NEW ses, NEW run, NEW files, NEW f \in Frame
    PROVE  /\ StackKnows(ses, run, files, <<>>)
           /\ Knows(ses, run, files, f, {}) => StackKnows(ses, run, files, <<f>>)
  <1>1. Len(<<>>) = 0 /\ Len(<<f>>) = 1 /\ <<f>>[1] = f /\ <<f>> \in Seq(Frame)
    OBVIOUS
  <1>2. On(<<f>>, 1) = {}
    BY <1>1, OnIs
  <1> QED
    BY <1>1, <1>2 DEF StackKnows

(***************************************************************************)
(* Steps that open no runtime and register none.                           *)
(***************************************************************************)
\* Runtimes that are open stay as they are, nothing is registered, and no file of
\* a child appears while nobody is registered as its owner.
Calm(ses, run, files, ses2, run2, files2) ==
    /\ \A i \in Ids : ses2[i] \in {ses[i], 0}
    /\ \A i \in Ids : \A g \in 1..MaxBuilds :
          \/ run2[i][g].life = run[i][g].life /\ run2[i][g].owner = run[i][g].owner
          \/ /\ run[i][g].life \in {"starting", "closed"} /\ run2[i][g].owner = 0
             /\ run2[i][g].life \in {"starting", "closed"}
    /\ \/ ses[Main] # 0 /\ \E g \in 1..MaxBuilds : run[Main][g].life = "active"
       \/ \A c \in Children : files2[c].there => files[c].there

LEMMA CalmLive ==
    ASSUME NEW ses \in [Ids -> 0..MaxBuilds], NEW run, NEW files, NEW ses2, NEW run2, NEW files2,
           Calm(ses, run, files, ses2, run2, files2), NEW c \in Children, NEW g,
           Live(ses2, run2, c, g)
    PROVE  Live(ses, run, c, g) /\ ses2[c] = ses[c]
  <1>1. c \in Ids /\ ses2[c] = ses[c] /\ ses[c] # 0
    BY MainIs DEF Calm, Live
  <1>2. ses[c] \in 1..MaxBuilds
    <2>1. ses[c] \in 0..MaxBuilds /\ MaxBuilds \in Nat
      BY <1>1, HostAssumption
    <2> QED
      BY <1>1, <2>1
  <1>3. run2[c][ses[c]].owner = g /\ run2[c][ses[c]].life = "active"
    BY <1>1 DEF Live
  <1> QED
    BY <1>1, <1>2, <1>3 DEF Calm, Live

LEMMA CalmNoKids ==
    ASSUME NEW ses, NEW run, NEW files, NEW ses2, NEW run2, NEW files2,
           Calm(ses, run, files, ses2, run2, files2), NoKids(run, files)
    PROVE  NoKids(run2, files2)
  <1>1. \A g \in 1..MaxBuilds : run2[Main][g].life # "active"
    BY MainIs DEF Calm, NoKids
  <1>2. \A c \in Children : ~files2[c].there
    BY DEF Calm, NoKids
  <1> QED
    BY <1>1, <1>2 DEF NoKids

LEMMA CalmKnows ==
    ASSUME NEW ses \in [Ids -> 0..MaxBuilds], NEW run, NEW files, NEW ses2, NEW run2, NEW files2,
           Calm(ses, run, files, ses2, run2, files2), NEW f \in Frame, NEW on,
           Knows(ses, run, files, f, on)
    PROVE  Knows(ses2, run2, files2, f, on)
  <1>1. f.id \in Ids /\ Main \in Ids
    BY MainIs DEF Frame
  <1>2. BuildKnows(run2, files2, f)
    <2>1. BuildKnows(run, files, f)
      BY DEF Knows
    <2>2. ASSUME f.op = "build", f.guard
          PROVE  run2[Main][f.owner].life = "active"
      BY <1>1, <2>1, <2>2 DEF BuildKnows, Calm
    <2>3. ASSUME f.op = "build", f.at \in {"hook", "register", "start", "checkpoint"}
          PROVE  run2[f.id][f.held].owner \in {f.owner, 0}
      BY <1>1, <2>1, <2>3 DEF BuildKnows, Calm
    <2>4. NoKids(run, files) => NoKids(run2, files2)
      BY CalmNoKids
    <2> QED
      BY <2>1, <2>2, <2>3, <2>4 DEF BuildKnows
  <1>3. CloseKnows(ses2, run2, f, on)
    <2>1. CloseKnows(ses, run, f, on)
      BY DEF Knows
    <2>2. ASSUME f.op = "close", f.at \in {"children", "join", "hook"}
          PROVE  run2[f.id][f.held].life = "closing"
      BY <1>1, <2>1, <2>2 DEF CloseKnows, Calm
    <2>3. \A c \in Children : Live(ses2, run2, c, f.held) =>
              Live(ses, run, c, f.held) /\ ses2[c] = ses[c]
      BY CalmLive
    <2> QED
      BY <2>1, <2>2, <2>3 DEF CloseKnows
  <1>4. DeleteKnows(ses2, files2, f, on)
    <2>1. DeleteKnows(ses, files, f, on)
      BY DEF Knows
    <2>2. ses[f.id] = 0 => ses2[f.id] = 0
      BY <1>1 DEF Calm
    <2>3. ses[Main] = 0 => \A c \in Children : files2[c].there => files[c].there
      BY DEF Calm
    <2> QED
      BY <2>1, <2>2, <2>3 DEF DeleteKnows
  <1> QED
    BY <1>2, <1>3, <1>4 DEF Knows

LEMMA CalmStack ==
    ASSUME NEW ses \in [Ids -> 0..MaxBuilds], NEW run, NEW files, NEW ses2, NEW run2, NEW files2,
           Calm(ses, run, files, ses2, run2, files2), NEW s \in Seq(Frame),
           StackKnows(ses, run, files, s)
    PROVE  StackKnows(ses2, run2, files2, s)
  <1>1. ASSUME NEW k \in 1..Len(s)
        PROVE  Knows(ses2, run2, files2, s[k], On(s, k))
    <2>1. s[k] \in Frame
      BY ElementOfSeq
    <2>2. Knows(ses, run, files, s[k], On(s, k))
      BY DEF StackKnows
    <2> QED
      BY <2>1, <2>2, CalmKnows
  <1> QED
    BY <1>1 DEF StackKnows

\* Nothing is opened, registered or removed; a runtime that was never active may
\* be given up.
Even ==
    /\ sessions' = sessions /\ built' = built /\ deleted' = deleted
    /\ \A i \in Ids : disk'[i].there = disk[i].there
    /\ \A i \in Ids : \A g \in 1..MaxBuilds :
          \/ /\ runtimes'[i][g].life = runtimes[i][g].life
             /\ runtimes'[i][g].owner = runtimes[i][g].owner
          \/ /\ runtimes[i][g].life \in {"starting", "closed"}
             /\ runtimes'[i][g].life = "closed" /\ runtimes'[i][g].owner = 0

LEMMA EvenCalm ==
    ASSUME Even
    PROVE  Calm(sessions, runtimes, disk, sessions', runtimes', disk')
  <1>1. \A i \in Ids : sessions'[i] \in {sessions[i], 0}
    BY DEF Even
  <1>2. \A c \in Children : disk'[c].there => disk[c].there
    BY MainIs DEF Even
  <1> QED
    BY <1>1, <1>2 DEF Even, Calm

\* Who changes nothing else has only to see to the stacks it changes.
LEMMA EvenStep ==
    ASSUME HostTypes, ClosingInv, Even,
           \A u \in Workers : \/ stack'[u] = stack[u]
                              \/ StackKnows(sessions', runtimes', disk', stack'[u])
    PROVE  ClosingInv'
  <1>0. Calm(sessions, runtimes, disk, sessions', runtimes', disk')
    BY EvenCalm
  <1>1. CallsKnow'
    <2>1. ASSUME NEW u \in Workers
          PROVE  StackKnows(sessions', runtimes', disk', stack'[u])
      <3>1. CASE stack'[u] = stack[u]
        <4>1. stack[u] \in Seq(Frame) /\ sessions \in [Ids -> 0..MaxBuilds]
          BY DEF HostTypes
        <4>2. StackKnows(sessions, runtimes, disk, stack[u])
          BY DEF ClosingInv, CallsKnow
        <4> QED
          BY <1>0, <3>1, <4>1, <4>2, CalmStack
      <3> QED
        BY <3>1
    <2> QED
      BY <2>1 DEF CallsKnow
  <1>2. RegistryKnows(sessions', runtimes', built', disk', deleted')
    <2>0. RegistryKnows(sessions, runtimes, built, disk, deleted)
      BY DEF ClosingInv
    <2>1. \A i \in Ids : sessions'[i] # 0 => disk'[i].there
      BY <2>0 DEF RegistryKnows, Even
    <2>2. \A i \in Roots : \A g \in 1..MaxBuilds :
             runtimes'[i][g].life \in {"active", "closing"} => sessions'[i] = g
      BY <2>0 DEF RegistryKnows, Even, Ids
    <2>3. \A i \in Ids : \A g \in 1..MaxBuilds :
             g > built'[i] => runtimes'[i][g].life = "closed"
      BY <2>0 DEF RegistryKnows, Even
    <2>4. \A c \in Children : \A g \in Nat : g # 0 /\ Live(sessions', runtimes', c, g) =>
             g \in 1..MaxBuilds /\ runtimes'[Main][g].life \in {"active", "closing"}
      <3>1. ASSUME NEW c \in Children, NEW g \in Nat, g # 0, Live(sessions', runtimes', c, g)
            PROVE  g \in 1..MaxBuilds /\ runtimes'[Main][g].life \in {"active", "closing"}
        <4>1. Live(sessions, runtimes, c, g)
          BY <1>0, <3>1, CalmLive DEF HostTypes
        <4>2. g \in 1..MaxBuilds /\ runtimes[Main][g].life \in {"active", "closing"}
          BY <2>0, <3>1, <4>1 DEF RegistryKnows
        <4> QED
          BY <4>2, MainIs DEF Even
      <3> QED
        BY <3>1
    <2>5. \A i \in deleted' : \A k \in {i} \cup Owned(i) : ~disk'[k].there
      <3>1. ASSUME NEW i \in deleted, NEW k \in {i} \cup Owned(i)
            PROVE  ~disk'[k].there
        <4>1. k \in Ids
          BY MainIs DEF HostTypes, Owned
        <4> QED
          BY <2>0, <4>1 DEF RegistryKnows, Even
      <3> QED
        BY <3>1 DEF Even
    <2>6. built'[Main] > 0 /\ ~disk'[Main].there => \A c \in Children : ~disk'[c].there
      BY <2>0, MainIs DEF RegistryKnows, Even
    <2> QED
      BY <2>1, <2>2, <2>3, <2>4, <2>5, <2>6 DEF RegistryKnows
  <1> QED
    BY <1>1, <1>2 DEF ClosingInv

(***************************************************************************)
(* The shapes of such a step.                                              *)
(***************************************************************************)
\* Only a build, a close and a deletion know something.
LEMMA OtherKnows ==
    ASSUME NEW ses, NEW run, NEW files, NEW f, NEW on, f.op \notin {"build", "close", "delete"}
    PROVE  Knows(ses, run, files, f, on)
  BY DEF Knows, BuildKnows, CloseKnows, DeleteKnows

\* What a build knows does not depend on the call it waits for.
LEMMA PlainKnows ==
    ASSUME NEW ses, NEW run, NEW files, NEW f, f.op \notin {"close", "delete"}
    PROVE  \A on : Knows(ses, run, files, f, on) <=> BuildKnows(run, files, f)
  BY DEF Knows, CloseKnows, DeleteKnows

LEMMA PushKnows ==
    ASSUME NEW ses, NEW run, NEW files, NEW x \in Seq(Frame), NEW g \in Frame,
           StackKnows(ses, run, files, x), Knows(ses, run, files, g, {}),
           x # <<>> => Knows(ses, run, files, Head(x), {g})
    PROVE  StackKnows(ses, run, files, <<g>> \o x)
  <1>1. CASE x = <<>>
    <2>1. <<g>> \o x = <<g>>
      BY <1>1
    <2> QED
      BY <2>1, OneKnows
  <1>2. CASE x # <<>>
    <2>1. Head(x) \in Frame /\ Tail(x) \in Seq(Frame) /\ x = <<Head(x)>> \o Tail(x)
      BY <1>2
    <2>2. <<g, Head(x)>> \o Tail(x) = <<g>> \o (<<Head(x)>> \o Tail(x))
      BY <1>2, <2>1, GrownCall
    <2>3. Stands(Head(x), Head(x))
      BY DEF Stands
    <2>4. StackKnows(ses, run, files, <<g, Head(x)>> \o Tail(x))
      BY <1>2, <2>1, <2>3, CallKnows DEF StackKnows, BelowKnows
    <2> QED
      BY <2>1, <2>2, <2>4
  <1> QED
    BY <1>1, <1>2

\* What the stack of t knows in the new state.
LEMMA EvenKept ==
    ASSUME HostTypes, ClosingInv, Even, NEW t \in Workers
    PROVE  /\ StackKnows(sessions', runtimes', disk', stack[t])
           /\ BelowKnows(sessions', runtimes', disk', stack[t])
  <1>1. stack[t] \in Seq(Frame) /\ sessions \in [Ids -> 0..MaxBuilds]
    BY DEF HostTypes
  <1>2. StackKnows(sessions, runtimes, disk, stack[t])
    BY DEF ClosingInv, CallsKnow
  <1> QED
    BY <1>1, <1>2, EvenCalm, CalmStack DEF StackKnows, BelowKnows

LEMMA EvenTop ==
    ASSUME HostTypes, ClosingInv, Even, NEW t \in Workers, NEW x,
           stack' = [stack EXCEPT ![t] = x],
           x = stack[t] \/ StackKnows(sessions', runtimes', disk', x)
    PROVE  ClosingInv'
  <1>1. ASSUME NEW u \in Workers
        PROVE  \/ stack'[u] = stack[u]
               \/ StackKnows(sessions', runtimes', disk', stack'[u])
    BY DEF HostTypes
  <1> QED
    BY <1>1, EvenStep

LEMMA EvenReturns ==
    ASSUME HostInv, ClosingInv, Even, NEW t \in Workers, Busy(t),
           Top(t).op \notin {"close", "delete"}, NEW r \in Outcomes, Return(t, r)
    PROVE  ClosingInv'
  <1>1. HostTypes /\ stack[t] \in Seq(Frame) /\ stack[t] # <<>> /\ 0 \in Nat
    BY DEF HostInv, HostTypes, Busy
  <1>2. StackKnows(sessions', runtimes', disk', After(stack[t], r, 0))
    BY <1>1, EvenKept, PlainReturns DEF Top
  <1> QED
    BY <1>1, <1>2, EvenTop DEF Return

LEMMA EvenGoes ==
    ASSUME HostInv, ClosingInv, Even, NEW t \in Workers, Busy(t), NEW g \in Frame, Goto(t, g),
           Stands(Top(t), g), Knows(sessions', runtimes', disk', g, {})
    PROVE  ClosingInv'
  <1>1. HostTypes /\ stack[t] \in Seq(Frame) /\ stack[t] # <<>>
    BY DEF HostInv, HostTypes, Busy
  <1>2. StackKnows(sessions', runtimes', disk', <<g>> \o Tail(stack[t]))
    BY <1>1, EvenKept, GotoKnows DEF Top
  <1> QED
    BY <1>1, <1>2, EvenTop DEF Goto

LEMMA EvenCalls ==
    ASSUME HostInv, ClosingInv, Even, NEW t \in Workers, Busy(t), NEW f \in Frame, NEW g \in Frame,
           CallFrom(t, f, g), Stands(Top(t), f), Knows(sessions', runtimes', disk', f, {g}),
           Knows(sessions', runtimes', disk', g, {})
    PROVE  ClosingInv'
  <1>1. HostTypes /\ stack[t] \in Seq(Frame) /\ stack[t] # <<>>
    BY DEF HostInv, HostTypes, Busy
  <1>2. StackKnows(sessions', runtimes', disk', <<g, f>> \o Tail(stack[t]))
    BY <1>1, EvenKept, CallKnows DEF Top
  <1> QED
    BY <1>1, <1>2, EvenTop DEF CallFrom

LEMMA EvenBegins ==
    ASSUME HostInv, ClosingInv, Even, NEW t \in Workers, NEW g \in Frame,
           stack' = [stack EXCEPT ![t] = <<g>>], Knows(sessions', runtimes', disk', g, {})
    PROVE  ClosingInv'
  <1>1. HostTypes
    BY DEF HostInv
  <1>2. StackKnows(sessions', runtimes', disk', <<g>>)
    BY OneKnows
  <1> QED
    BY <1>1, <1>2, EvenTop

LEMMA EvenRests ==
    ASSUME HostInv, ClosingInv, Even, NEW t \in Workers,
           UNCHANGED stack \/ stack' = [stack EXCEPT ![t] = <<>>]
    PROVE  ClosingInv'
  <1>1. HostTypes
    BY DEF HostInv
  <1>2. StackKnows(sessions', runtimes', disk', <<>>)
    BY DEF StackKnows
  <1>3. CASE UNCHANGED stack
    BY <1>1, <1>3, EvenStep
  <1> QED
    BY <1>1, <1>2, <1>3, EvenTop

\* What makes a step even.
LEMMA UnchangedEven ==
    ASSUME UNCHANGED <<sessions, runtimes, built, disk, deleted>>
    PROVE  Even
  BY DEF Even

LEMMA TouchEven ==
    ASSUME HostTypes, UNCHANGED <<sessions, built, disk, deleted>>, NEW i \in Ids,
           NEW g \in 1..MaxBuilds, NEW r \in Runtime, Touch(i, g, r),
           \/ r.life = runtimes[i][g].life /\ r.owner = runtimes[i][g].owner
           \/ /\ runtimes[i][g].life \in {"starting", "closed"}
              /\ r.life = "closed" /\ r.owner = 0
    PROVE  Even
  <1>1. /\ runtimes'[i][g] = r /\ \A h \in 1..MaxBuilds : h # g => runtimes'[i][h] = runtimes[i][h]
        /\ \A j \in Ids \ {i} : runtimes'[j] = runtimes[j]
    BY TouchIs
  <1> QED
    BY <1>1 DEF Even

\* A call that is no build, close or deletion moves on.
LEMMA EvenMoves ==
    ASSUME HostInv, ClosingInv, Even, NEW t \in Workers, Busy(t), NEW g \in Frame, Goto(t, g),
           g.op = Top(t).op, g.op \notin {"build", "close", "delete"}
    PROVE  ClosingInv'
  <1>1. Stands(Top(t), g)
    BY DEF Stands
  <1>2. Knows(sessions', runtimes', disk', g, {})
    BY OtherKnows
  <1> QED
    BY <1>1, <1>2, EvenGoes

\* So does a build that learns nothing new.
LEMMA EvenBuilds ==
    ASSUME HostInv, ClosingInv, Even, NEW t \in Workers, Busy(t), NEW g \in Frame, Goto(t, g),
           Top(t).op = "build", g.op = "build", BuildKnows(runtimes', disk', g)
    PROVE  ClosingInv'
  <1>1. Stands(Top(t), g)
    BY DEF Stands
  <1>2. Knows(sessions', runtimes', disk', g, {})
    BY PlainKnows
  <1> QED
    BY <1>1, <1>2, EvenGoes

\* What the innermost call knows.
LEMMA TopKnows ==
    ASSUME HostInv, ClosingInv, NEW t \in Workers, Busy(t)
    PROVE  Knows(sessions, runtimes, disk, Top(t), {})
  <1>1. stack[t] \in Seq(Frame) /\ stack[t] # <<>> /\ 1 \in 1..Len(stack[t])
    BY DEF HostInv, HostTypes, Busy
  <1>2. Top(t) = stack[t][1] /\ On(stack[t], 1) = {}
    BY <1>1, OnIs DEF Top
  <1> QED
    BY <1>1, <1>2 DEF ClosingInv, CallsKnow, StackKnows

\* A runtime and its file are written.
LEMMA WrittenEven ==
    ASSUME HostTypes, UNCHANGED <<sessions, built, deleted>>, NEW i \in Ids,
           NEW g \in 1..MaxBuilds, NEW r \in Runtime, Touch(i, g, r),
           r.life = runtimes[i][g].life, r.owner = runtimes[i][g].owner,
           \A j \in Ids : disk'[j].there = disk[j].there
    PROVE  Even
  <1>1. /\ runtimes'[i][g] = r /\ \A h \in 1..MaxBuilds : h # g => runtimes'[i][h] = runtimes[i][h]
        /\ \A j \in Ids \ {i} : runtimes'[j] = runtimes[j]
    BY TouchIs
  <1> QED
    BY <1>1 DEF Even

(***************************************************************************)
(* Runs, reports, renames and settings.                                    *)
(***************************************************************************)
LEMMA ResumeLiveKeeps ==
    ASSUME HostInv, ClosingInv, NEW t \in Workers, ResumeLive(t)
    PROVE  ClosingInv'
  <1>1. Even
    BY UnchangedEven DEF ResumeLive
  <1>2. /\ Busy(t) /\ Top(t) \in Frame /\ Top(t).op = "build" /\ Top(t).at = "switch"
    BY AtIs DEF ResumeLive
  <1>3. ASSUME NEW r \in Outcomes, Return(t, r)
        PROVE  ClosingInv'
    BY <1>1, <1>2, <1>3, EvenReturns
  <1>4. CASE Goto(t, [Top(t) EXCEPT !.at = "gate"])
    <2>1. PICK f : f = [Top(t) EXCEPT !.at = "gate"]
      OBVIOUS
    <2>2. /\ f \in Frame /\ f.at = "gate" /\ f.op = "build" /\ f.why = Top(t).why
          /\ f.id = Top(t).id /\ f.guard = Top(t).guard /\ f.owner = Top(t).owner
      BY <1>2, <2>1, AwaitsAre DEF Frame
    <2>3. BuildKnows(runtimes', disk', f)
      <3>1. BuildKnows(runtimes, disk, Top(t)) /\ UNCHANGED <<runtimes, disk>>
        BY <1>2, TopKnows DEF Knows, ResumeLive
      <3> QED
        BY <1>2, <2>2, <3>1 DEF BuildKnows
    <2> QED
      BY <1>1, <1>2, <1>4, <2>1, <2>2, <2>3, EvenBuilds
  <1>5. "error" \in Outcomes /\ EnsureActive(Now(t)) \in Outcomes
    BY OutcomesAre DEF HostInv
  <1> QED
    BY <1>3, <1>4, <1>5 DEF ResumeLive

LEMMA AcquireOperationKeeps ==
    ASSUME HostInv, ClosingInv, NEW t \in Workers, AcquireOperation(t)
    PROVE  ClosingInv'
  <1>1. Even /\ Busy(t) /\ Top(t).op = "build"
    BY AtIs, UnchangedEven DEF AcquireOperation
  <1>2. PICK r : r = IF Now(t).closeRequested THEN "closing" ELSE EnsureActive(Now(t))
    OBVIOUS
  <1>3. r \in Outcomes
    BY <1>2, OutcomesAre DEF HostInv
  <1> QED
    BY <1>1, <1>2, <1>3, EvenReturns DEF AcquireOperation

LEMMA SubmitIdleKeeps ==
    ASSUME HostInv, ClosingInv, NEW t \in Workers, SubmitIdle(t)
    PROVE  ClosingInv'
  <1>1. Even /\ Busy(t) /\ Top(t).op = "run" /\ "cancelled" \in Outcomes
    BY AtIs, UnchangedEven DEF SubmitIdle, Outcomes
  <1> QED
    BY <1>1, EvenReturns DEF SubmitIdle

LEMMA ReportSentKeeps ==
    ASSUME HostInv, ClosingInv, NEW t \in Workers, ReportSent(t)
    PROVE  ClosingInv'
  <1>1. Even /\ Busy(t) /\ Top(t).op = "report" /\ "ok" \in Outcomes
    BY AtIs, UnchangedEven DEF ReportSent, Outcomes
  <1> QED
    BY <1>1, EvenReturns DEF ReportSent

LEMMA SubagentResultKeeps ==
    ASSUME HostInv, ClosingInv, NEW t \in Workers, SubagentResult(t)
    PROVE  ClosingInv'
  <1>1. Even /\ Busy(t) /\ Top(t) \in Frame /\ Top(t).op = "run"
    BY AtIs, UnchangedEven DEF SubagentResult
  <1>2. PICK f : f = [Top(t) EXCEPT !.at = "running", !.kids = {}]
    OBVIOUS
  <1>3. f \in Frame /\ f.op = "run"
    BY <1>1, <1>2, AwaitsAre DEF Frame
  <1> QED
    BY <1>1, <1>2, <1>3, EvenMoves DEF SubagentResult

LEMMA SpawnReporterKeeps ==
    ASSUME HostInv, ClosingInv, NEW t \in Workers, SpawnReporter(t)
    PROVE  ClosingInv'
  <1>1. Even /\ Busy(t) /\ Top(t) \in Frame /\ Top(t).op = "run"
    BY AtIs, UnchangedEven DEF SpawnReporter
  <1>2. PICK f : f = [Top(t) EXCEPT !.at = "running", !.back = "error", !.kids = {}]
    OBVIOUS
  <1>3. f \in Frame /\ f.op = "run"
    BY <1>1, <1>2, StartReporterFrame DEF Alike
  <1>4. CASE Goto(t, f)
    BY <1>1, <1>3, <1>4, EvenMoves
  <1>5. ASSUME NEW r \in Reporters, NEW i \in Top(t).kids, ~Busy(r),
               stack' = [stack EXCEPT
                 ![t] = <<f>> \o Tail(@),
                 ![r] = <<[Call("report", "none", "start", i) EXCEPT !.owner = Top(t).held]>>]
        PROVE  ClosingInv'
    <2>1. PICK g : g = [Call("report", "none", "start", i) EXCEPT !.owner = Top(t).held]
      OBVIOUS
    <2>2. i \in Ids /\ Top(t).held \in Nat
      BY <1>1 DEF Frame
    <2>3. g \in Frame /\ g.op = "report"
      BY <2>1, <2>2, AwaitsAre DEF Frame, Call, Outcomes
    <2>4. HostTypes /\ stack \in [Workers -> Seq(Frame)] /\ r \in Workers /\ r # t
      BY <1>1, <1>5 DEF HostInv, HostTypes, Workers
    <2>5. stack[t] \in Seq(Frame) /\ stack[t] # <<>> /\ Stands(Top(t), f)
      BY <1>1, <1>3, <2>4 DEF Busy, Stands
    <2>6. StackKnows(sessions', runtimes', disk', <<f>> \o Tail(stack[t]))
      BY <1>1, <1>3, <2>4, <2>5, EvenKept, OtherKnows, GotoKnows DEF Top
    <2>7. StackKnows(sessions', runtimes', disk', <<g>>)
      BY <2>3, OneKnows, OtherKnows
    <2>8. \A u \in Workers : stack'[u] = IF u = r THEN <<g>>
                                         ELSE IF u = t THEN <<f>> \o Tail(stack[t]) ELSE stack[u]
      BY <1>5, <2>1, <2>4
    <2> QED
      BY <1>1, <2>4, <2>6, <2>7, <2>8, EvenStep
  <1> QED
    BY <1>2, <1>4, <1>5 DEF SpawnReporter

LEMMA ReportAnswerKeeps ==
    ASSUME HostInv, ClosingInv, NEW t \in Workers, ReportAnswer(t)
    PROVE  ClosingInv'
  <1>1. Even /\ Busy(t) /\ Top(t) \in Frame /\ Top(t).op = "report" /\ "ok" \in Outcomes
    BY AtIs, UnchangedEven DEF ReportAnswer, Outcomes
  <1>2. CASE Return(t, "ok")
    BY <1>1, <1>2, EvenReturns
  <1>3. CASE Goto(t, [Top(t) EXCEPT !.at = "reply"])
    <2>1. PICK f : f = [Top(t) EXCEPT !.at = "reply"]
      OBVIOUS
    <2>2. f \in Frame /\ f.op = "report"
      BY <1>1, <2>1, AwaitsAre DEF Frame
    <2> QED
      BY <1>1, <1>3, <2>1, <2>2, EvenMoves
  <1> QED
    BY <1>2, <1>3 DEF ReportAnswer

\* A call of the kernel on top of what the task has: the stack without it knows,
\* then with it, and after it has returned.
LEMMA RunOn ==
    ASSUME NEW ses, NEW run, NEW files, NEW x \in Seq(Frame), StackKnows(ses, run, files, x),
           x # <<>> => Head(x).op \notin {"close", "delete"}, NEW f \in Frame, f.op = "run"
    PROVE  /\ <<f>> \o x \in Seq(Frame) /\ StackKnows(ses, run, files, <<f>> \o x)
           /\ \A r \in Outcomes : StackKnows(ses, run, files, After(<<f>> \o x, r, 0))
  <1>1. <<f>> \o x \in Seq(Frame) /\ <<f>> \o x # <<>> /\ Head(<<f>> \o x) = f /\ 0 \in Nat
    OBVIOUS
  <1>2. Knows(ses, run, files, f, {})
    BY OtherKnows
  <1>3. ASSUME x # <<>>
        PROVE  Knows(ses, run, files, Head(x), {f})
    <2>1. 1 \in 1..Len(x) /\ Head(x) = x[1] /\ On(x, 1) = {}
      BY <1>3, OnIs
    <2>2. Knows(ses, run, files, Head(x), {})
      BY <2>1 DEF StackKnows
    <2> QED
      BY <1>3, <2>2, PlainKnows
  <1>4. StackKnows(ses, run, files, <<f>> \o x)
    BY <1>2, <1>3, PushKnows
  <1>5. BelowKnows(ses, run, files, <<f>> \o x)
    BY <1>4 DEF StackKnows, BelowKnows
  <1> QED
    BY <1>1, <1>4, <1>5, PlainReturns

LEMMA SubmitKeeps ==
    ASSUME HostInv, ClosingInv, NEW t \in Workers, NEW i \in Ids, NEW rest \in Seq(Frame),
           Submit(t, rest, i), StackKnows(sessions', runtimes', disk', rest),
           rest # <<>> => Head(rest).op \notin {"close", "delete"}
    PROVE  ClosingInv'
  <1>0. HostTypes /\ Even
    BY UnchangedEven DEF HostInv, Submit
  <1>1. PICK n : n = sessions[i]
    OBVIOUS
  <1>2. n \in Nat
    BY <1>0, <1>1, HostAssumption DEF HostTypes
  <1>3. PICK f : f = [Call("run", "none", "gate", i) EXCEPT !.held = n]
    OBVIOUS
  <1>4. f \in Frame /\ f.op = "run"
    BY <1>2, <1>3, AwaitsAre DEF Frame, Call, Outcomes
  <1>5. PICK h : h = [f EXCEPT !.at = "queued"]
    OBVIOUS
  <1>6. h \in Frame /\ h.op = "run"
    BY <1>4, <1>5, AwaitsAre DEF Frame
  <1>7. SessionOf(i) \in Outcomes
    BY <1>0, OutcomesAre
  <1>8. \/ stack' = [stack EXCEPT ![t] = <<>>]
        \/ stack' = [stack EXCEPT ![t] = After(<<f>> \o rest, SessionOf(i), 0)]
        \/ stack' = [stack EXCEPT ![t] = <<h>> \o rest]
        \/ stack' = [stack EXCEPT ![t] = <<f>> \o rest]
    <2>1. CASE SessionOf(i) # "ok"
      BY <1>1, <1>3, <2>1 DEF Submit
    <2>2. CASE SessionOf(i) = "ok"
      BY <1>1, <1>3, <1>5, <2>2 DEF Submit
    <2> QED
      BY <2>1, <2>2
  <1>9. /\ StackKnows(sessions', runtimes', disk', After(<<f>> \o rest, SessionOf(i), 0))
        /\ StackKnows(sessions', runtimes', disk', <<f>> \o rest)
    BY <1>4, <1>7, RunOn
  <1>10. StackKnows(sessions', runtimes', disk', <<h>> \o rest)
    BY <1>6, RunOn
  <1>11. CASE stack' = [stack EXCEPT ![t] = <<>>]
    BY <1>0, <1>11, EvenRests
  <1> QED
    BY <1>0, <1>8, <1>9, <1>10, <1>11, EvenTop

LEMMA SubmitFrom ==
    ASSUME HostInv, ClosingInv, NEW t \in Workers, Busy(t), NEW i \in Ids, NEW h \in Frame,
           h.op = Top(t).op, h.op \notin {"build", "close", "delete"},
           Submit(t, <<h>> \o Tail(stack[t]), i)
    PROVE  ClosingInv'
  <1>1. HostTypes /\ Even /\ stack[t] \in Seq(Frame) /\ stack[t] # <<>>
    BY UnchangedEven DEF HostInv, HostTypes, Submit, Busy
  <1>2. PICK rest : rest = <<h>> \o Tail(stack[t])
    OBVIOUS
  <1>3. rest \in Seq(Frame) /\ rest # <<>> /\ Head(rest) = h
    BY <1>1, <1>2
  <1>4. Stands(Top(t), h) /\ Knows(sessions', runtimes', disk', h, {})
    BY OtherKnows DEF Stands
  <1>5. StackKnows(sessions', runtimes', disk', rest)
    BY <1>1, <1>2, <1>4, EvenKept, GotoKnows DEF Top
  <1> QED
    BY <1>2, <1>3, <1>5, SubmitKeeps

LEMMA RunPromptKeeps ==
    ASSUME HostInv, ClosingInv, NEW t, NEW i \in Ids, RunPrompt(t, i)
    PROVE  ClosingInv'
  <1>1. t \in Workers /\ Submit(t, <<>>, i)
    BY IdleIs DEF RunPrompt
  <1>2. PICK none \in Seq(Frame) : none = <<>> /\ \A k \in 1..Len(none) : FALSE
    BY NoFrames
  <1>3. StackKnows(sessions', runtimes', disk', none)
    BY <1>2 DEF StackKnows
  <1> QED
    BY <1>1, <1>2, <1>3, SubmitKeeps

LEMMA DelegateTaskKeeps ==
    ASSUME HostInv, ClosingInv, NEW t \in Workers, DelegateTask(t)
    PROVE  ClosingInv'
  <1>1. Busy(t) /\ Top(t) \in Frame /\ Top(t).op = "run"
    BY AtIs DEF DelegateTask
  <1>2. PICK f : f = [Top(t) EXCEPT !.at = "answer", !.back = "error"]
    OBVIOUS
  <1>3. f \in Frame /\ f.op = "run" /\ f.kids \subseteq Ids
    BY <1>1, <1>2, DelegatedFrame DEF Alike, Frame
  <1>4. ASSUME NEW i \in f.kids, Submit(t, <<f>> \o Tail(stack[t]), i)
        PROVE  ClosingInv'
    BY <1>1, <1>3, <1>4, SubmitFrom
  <1>5. CASE /\ Goto(t, f)
             /\ UNCHANGED <<sessions, pending, runtimes, built, disk, reports, deleted>>
    BY <1>1, <1>3, <1>5, UnchangedEven, EvenMoves
  <1> QED
    BY <1>2, <1>4, <1>5 DEF DelegateTask

LEMMA ReportStartKeeps ==
    ASSUME HostInv, ClosingInv, NEW t \in Workers, ReportStart(t)
    PROVE  ClosingInv'
  <1>1. Busy(t) /\ Top(t) \in Frame /\ Top(t).op = "report" /\ "ok" \in Outcomes
    BY AtIs DEF ReportStart, Outcomes
  <1>2. CASE /\ Return(t, "ok")
             /\ UNCHANGED <<sessions, pending, runtimes, built, disk, reports, deleted>>
    BY <1>1, <1>2, UnchangedEven, EvenReturns
  <1>3. CASE Submit(t, <<[Top(t) EXCEPT !.at = "told"]>>, Top(t).id)
    <2>1. PICK f : f = [Top(t) EXCEPT !.at = "told"]
      OBVIOUS
    <2>2. f \in Frame /\ f.op = "report" /\ Top(t).id \in Ids
      BY <1>1, <2>1, AwaitsAre DEF Frame
    <2>3. PICK rest : rest = <<f>>
      OBVIOUS
    <2>4. rest \in Seq(Frame) /\ Head(rest) = f
      BY <2>2, <2>3
    <2>5. StackKnows(sessions', runtimes', disk', rest)
      BY <2>2, <2>3, OtherKnows, OneKnows
    <2> QED
      BY <1>3, <2>1, <2>2, <2>3, <2>4, <2>5, SubmitKeeps
  <1> QED
    BY <1>2, <1>3 DEF ReportStart

LEMMA ReportReplyKeeps ==
    ASSUME HostInv, ClosingInv, NEW t \in Workers, ReportReply(t)
    PROVE  ClosingInv'
  <1>1. Busy(t) /\ Top(t) \in Frame /\ Top(t).op = "report" /\ "ok" \in Outcomes
    BY AtIs DEF ReportReply, Outcomes
  <1>2. CASE /\ Return(t, "ok")
             /\ UNCHANGED <<sessions, pending, runtimes, built, disk, reports, deleted>>
    BY <1>1, <1>2, UnchangedEven, EvenReturns
  <1>3. CASE Submit(t, <<[Top(t) EXCEPT !.at = "sent", !.back = "none"]>>, Main)
    <2>1. PICK f : f = [Top(t) EXCEPT !.at = "sent", !.back = "none"]
      OBVIOUS
    <2>2. f \in Frame /\ f.op = "report" /\ Main \in Ids
      BY <1>1, <2>1, MainIs, AwaitsAre DEF Frame, Outcomes
    <2>3. PICK rest : rest = <<f>>
      OBVIOUS
    <2>4. rest \in Seq(Frame) /\ Head(rest) = f
      BY <2>2, <2>3
    <2>5. StackKnows(sessions', runtimes', disk', rest)
      BY <2>2, <2>3, OtherKnows, OneKnows
    <2> QED
      BY <1>3, <2>1, <2>2, <2>3, <2>4, <2>5, SubmitKeeps
  <1> QED
    BY <1>2, <1>3 DEF ReportReply

LEMMA StartRunKeeps ==
    ASSUME HostInv, ClosingInv, NEW t \in Workers, StartRun(t)
    PROVE  ClosingInv'
  <1>0. HostTypes
    BY DEF HostInv
  <1>1. PICK top : top = Top(t)
    OBVIOUS
  <1>2. /\ Busy(t) /\ top \in Frame /\ top.op = "run" /\ top.held # 0 /\ Fine(t, top)
        /\ UNCHANGED <<sessions, pending, built, disk, reports, deleted>>
    BY <1>1, AtIs DEF StartRun, Fine, OtherFine
  <1>3. ASSUME NEW r \in Outcomes, Return(t, r), UNCHANGED runtimes
        PROVE  ClosingInv'
    BY <1>1, <1>2, <1>3, UnchangedEven, EvenReturns
  <1>4. CASE /\ Touch(top.id, top.held,
                      [Now(t) EXCEPT !.gate = t, !.running = TRUE, !.cancelled = FALSE,
                                     !.run = IF top.id \in Children THEN @ + 1 ELSE 0])
             /\ Goto(t, [top EXCEPT !.at = "running"])
    <2>1. PICK q : q = Now(t)
      OBVIOUS
    <2>2. /\ top.id \in Ids /\ top.held \in 1..MaxBuilds /\ q \in Runtime
          /\ q = runtimes[top.id][top.held]
      BY <1>0, <1>1, <1>2, <2>1, HeldIs DEF Now
    <2>3. PICK n : n = IF top.id \in Children THEN q.run + 1 ELSE 0
      OBVIOUS
    <2>4. n \in Nat
      BY <2>2, <2>3 DEF Runtime
    <2>5. PICK r : r = [q EXCEPT !.gate = t, !.running = TRUE, !.cancelled = FALSE, !.run = n]
      OBVIOUS
    <2>6. r \in Runtime /\ r.life = q.life /\ r.owner = q.owner
      <3>1. r \in Runtime
        BY <2>2, <2>4, <2>5 DEF Runtime
      <3> QED
        BY <2>2, <2>5, <3>1 DEF Runtime
    <2>7. Touch(top.id, top.held, r)
      BY <1>4, <2>1, <2>3, <2>5
    <2>8. Even
      BY <1>0, <1>2, <2>2, <2>6, <2>7, TouchEven
    <2>9. PICK f : f = [top EXCEPT !.at = "running"]
      OBVIOUS
    <2>10. f \in Frame /\ f.op = "run"
      BY <1>2, <2>9, AwaitsAre DEF Frame
    <2> QED
      BY <1>1, <1>2, <1>4, <2>8, <2>9, <2>10, EvenMoves
  <1>5. "closing" \in Outcomes /\ "cancelled" \in Outcomes
    BY DEF Outcomes
  <1> QED
    BY <1>1, <1>3, <1>4, <1>5 DEF StartRun

\* Tasks whose innermost call is a queued submission receive an answer.
LEMMA QueuedKnow ==
    ASSUME HostInv, ClosingInv, Even, NEW u \in Workers, NEW i, NEW g, Joined(u, i, g),
           NEW r \in Outcomes, NEW n \in Nat
    PROVE  StackKnows(sessions', runtimes', disk', After(stack[u], r, n))
  <1>1. HostTypes /\ stack[u] \in Seq(Frame) /\ stack[u] # <<>> /\ Head(stack[u]).op = "run"
    BY DEF HostInv, HostTypes, Joined, At, Busy, Top
  <1> QED
    BY <1>1, EvenKept, PlainReturns

LEMMA SettleRunKeeps ==
    ASSUME HostInv, ClosingInv, NEW t \in Workers, At(t, "run", "running"), NEW o \in Outcomes,
           SettleRun(t, o)
    PROVE  ClosingInv'
  <1>0. HostTypes
    BY DEF HostInv
  <1>1. PICK top : top = Top(t)
    OBVIOUS
  <1>2. Busy(t) /\ top \in Frame /\ top.op = "run" /\ Fine(t, top) /\ top.held # 0
    BY <1>1, AtIs DEF Fine, OtherFine
  <1>3. PICK q : q = Now(t)
    OBVIOUS
  <1>4. /\ top.id \in Ids /\ top.held \in 1..MaxBuilds /\ q \in Runtime
        /\ q = runtimes[top.id][top.held]
    BY <1>0, <1>1, <1>2, <1>3, HeldIs DEF Now
  <1>5. PICK r : r = [q EXCEPT !.gate = Free, !.running = FALSE]
    OBVIOUS
  <1>6. r \in Runtime /\ r.life = q.life /\ r.owner = q.owner
    BY <1>4, <1>5 DEF Runtime
  <1>7. Touch(top.id, top.held, r) /\ UNCHANGED <<sessions, built, disk, deleted>>
    BY <1>1, <1>3, <1>5 DEF SettleRun
  <1>8. Even
    BY <1>0, <1>4, <1>6, <1>7, TouchEven
  <1>9. PICK n : n = IF top.id \in Children THEN 100 * top.held + q.run ELSE 0
    OBVIOUS
  <1>10. n \in Nat
    BY <1>4, <1>9, HostAssumption DEF Runtime
  <1>11. stack' = [u \in Workers |-> IF u = t \/ Joined(u, top.id, top.held)
                                     THEN After(stack[u], o, n) ELSE stack[u]]
    BY <1>1, <1>3, <1>9 DEF SettleRun
  <1>12. StackKnows(sessions', runtimes', disk', After(stack[t], o, n))
    <2>1. stack[t] \in Seq(Frame) /\ stack[t] # <<>> /\ Head(stack[t]).op = "run"
      BY <1>0, <1>1, <1>2 DEF HostTypes, Busy, Top
    <2> QED
      BY <1>0, <1>8, <1>10, <2>1, EvenKept, PlainReturns
  <1>13. ASSUME NEW u \in Workers
         PROVE  \/ stack'[u] = stack[u]
                \/ StackKnows(sessions', runtimes', disk', stack'[u])
    <2>1. stack'[u] = IF u = t \/ Joined(u, top.id, top.held)
                      THEN After(stack[u], o, n) ELSE stack[u]
      BY <1>11
    <2>2. CASE u = t
      BY <1>12, <2>1, <2>2
    <2>3. CASE Joined(u, top.id, top.held)
      BY <1>8, <1>10, <2>1, <2>3, QueuedKnow
    <2> QED
      BY <2>1, <2>2, <2>3
  <1> QED
    BY <1>0, <1>8, <1>13, EvenStep

LEMMA RunAnswersKeeps ==
    ASSUME HostInv, ClosingInv, NEW t \in Workers, RunAnswers(t)
    PROVE  ClosingInv'
  <1>1. PICK o \in {"ok"} \cup {"error" : i \in {Top(t).id} \cap Children} : SettleRun(t, o)
    BY DEF RunAnswers
  <1>2. o \in Outcomes
    BY DEF Outcomes
  <1> QED
    BY <1>1, <1>2, SettleRunKeeps DEF RunAnswers

LEMMA RunCancelledKeeps ==
    ASSUME HostInv, ClosingInv, NEW t \in Workers, RunCancelled(t)
    PROVE  ClosingInv'
  <1>1. "cancelled" \in Outcomes
    BY DEF Outcomes
  <1> QED
    BY <1>1, SettleRunKeeps DEF RunCancelled

LEMMA SubmitCancelledKeeps ==
    ASSUME HostInv, ClosingInv, NEW t \in Workers, SubmitCancelled(t)
    PROVE  ClosingInv'
  <1>0. HostTypes
    BY DEF HostInv
  <1>1. PICK top : top = Top(t)
    OBVIOUS
  <1>2. /\ Busy(t) /\ top \in Frame /\ top.op = "run" /\ Fine(t, top) /\ top.held # 0
        /\ UNCHANGED <<sessions, built, disk, deleted>>
    BY <1>1, AtIs DEF SubmitCancelled, Fine, OtherFine
  <1>3. PICK q : q = Now(t)
    OBVIOUS
  <1>4. /\ top.id \in Ids /\ top.held \in 1..MaxBuilds /\ q \in Runtime
        /\ q = runtimes[top.id][top.held]
    BY <1>0, <1>1, <1>2, <1>3, HeldIs DEF Now
  <1>5. PICK r : r = [q EXCEPT !.cancelled = TRUE]
    OBVIOUS
  <1>6. r \in Runtime /\ r.life = q.life /\ r.owner = q.owner
    BY <1>4, <1>5 DEF Runtime
  <1>7. Touch(top.id, top.held, r)
    BY <1>1, <1>3, <1>5 DEF SubmitCancelled
  <1>8. Even
    BY <1>0, <1>2, <1>4, <1>6, <1>7, TouchEven
  <1>9. PICK f : f = [top EXCEPT !.at = "idle"]
    OBVIOUS
  <1>10. f \in Frame /\ f.op = "run"
    BY <1>2, <1>9, AwaitsAre DEF Frame
  <1> QED
    BY <1>1, <1>2, <1>8, <1>9, <1>10, EvenMoves DEF SubmitCancelled

LEMMA CancelSessionKeeps ==
    ASSUME HostInv, ClosingInv, NEW t, NEW i \in Ids, CancelSession(t, i)
    PROVE  ClosingInv'
  <1>0. HostTypes /\ t \in Workers /\ UNCHANGED <<sessions, built, disk, deleted, stack>>
    BY IdleIs DEF HostInv, CancelSession
  <1>1. PICK n : n = sessions[i]
    OBVIOUS
  <1>2. n # 0
    BY <1>1 DEF CancelSession, SessionOf
  <1>3. n \in 1..MaxBuilds
    BY <1>0, <1>1, <1>2, HostAssumption DEF HostTypes
  <1>4. PICK q : q = runtimes[i][n]
    OBVIOUS
  <1>5. q \in Runtime
    BY <1>0, <1>3, <1>4 DEF HostTypes
  <1>6. PICK r : r = [q EXCEPT !.cancelled = TRUE]
    OBVIOUS
  <1>7. r \in Runtime /\ r.life = q.life /\ r.owner = q.owner
    BY <1>5, <1>6 DEF Runtime
  <1>8. Touch(i, n, r)
    BY <1>1, <1>4, <1>6 DEF CancelSession
  <1>9. Even
    BY <1>0, <1>3, <1>4, <1>7, <1>8, TouchEven
  <1> QED
    BY <1>0, <1>9, EvenRests

(***************************************************************************)
(* Titles and settings.                                                    *)
(***************************************************************************)
LEMMA RenameKeeps ==
    ASSUME HostInv, ClosingInv, NEW t \in Workers, NEW f \in Frame, f.op = "rename",
           Rename(t, f), UNCHANGED <<sessions, runtimes, built, disk, deleted>>
    PROVE  ClosingInv'
  <1>0. HostTypes /\ Even
    BY UnchangedEven DEF HostInv
  <1>1. PICK n : n = sessions[f.id]
    OBVIOUS
  <1>2. n \in Nat /\ f.id \in Ids
    BY <1>0, <1>1, HostAssumption DEF HostTypes, Frame
  <1>3. ASSUME NEW g \in Frame, g.op = "rename", stack' = [stack EXCEPT ![t] = <<g>>]
        PROVE  ClosingInv'
    BY <1>0, <1>3, OtherKnows, EvenBegins
  <1>4. CASE stack' = [stack EXCEPT ![t] = <<>>]
    BY <1>0, <1>4, EvenRests
  <1>5. CASE stack' = [stack EXCEPT ![t] = <<[f EXCEPT !.at = "lock", !.held = n]>>]
    <2>1. PICK g : g = [f EXCEPT !.at = "lock", !.held = n]
      OBVIOUS
    <2>2. g \in Frame /\ g.op = "rename"
      BY <1>2, <2>1, AwaitsAre DEF Frame
    <2> QED
      BY <1>3, <1>5, <2>1, <2>2
  <1>6. ASSUME NEW a \in {"closing", "wait"}, stack' = [stack EXCEPT ![t] = <<[f EXCEPT !.at = a]>>]
        PROVE  ClosingInv'
    <2>1. PICK g : g = [f EXCEPT !.at = a]
      OBVIOUS
    <2>2. g \in Frame /\ g.op = "rename"
      BY <2>1, AwaitsAre DEF Frame
    <2> QED
      BY <1>3, <1>6, <2>1, <2>2
  <1>7. CASE stack' = [stack EXCEPT ![t] = <<[f EXCEPT !.at = "store", !.reserved = TRUE]>>]
    <2>1. PICK g : g = [f EXCEPT !.at = "store", !.reserved = TRUE]
      OBVIOUS
    <2>2. g \in Frame /\ g.op = "rename"
      BY <2>1, AwaitsAre DEF Frame
    <2> QED
      BY <1>3, <1>7, <2>1, <2>2
  <1>8. SessionOf(f.id) \in {"ok", "notFound", "starting", "closing"}
    BY <1>0, <1>2, OutcomesAre
  <1> QED
    BY <1>1, <1>4, <1>5, <1>6, <1>7, <1>8 DEF Rename

LEMMA SetSessionTitleKeeps ==
    ASSUME HostInv, ClosingInv, NEW t, NEW i \in Ids, SetSessionTitle(t, i)
    PROVE  ClosingInv'
  <1>1. t \in Workers /\ UNCHANGED <<sessions, runtimes, built, disk, deleted>>
    BY IdleIs DEF SetSessionTitle
  <1>2. PICK f : f = Call("rename", "none", "look", i)
    OBVIOUS
  <1>3. f \in Frame /\ f.op = "rename"
    BY <1>2, AwaitsAre DEF Call, Frame, Outcomes
  <1> QED
    BY <1>1, <1>2, <1>3, RenameKeeps DEF SetSessionTitle

LEMMA RenameAgainKeeps ==
    ASSUME HostInv, ClosingInv, NEW t \in Workers, RenameAgain(t)
    PROVE  ClosingInv'
  <1>1. PICK top : top = Top(t)
    OBVIOUS
  <1>2. /\ top \in Frame /\ top.op = "rename"
        /\ UNCHANGED <<sessions, runtimes, built, disk, deleted>>
    BY <1>1, AtIs DEF RenameAgain
  <1>3. PICK f : f = [top EXCEPT !.held = 0]
    OBVIOUS
  <1>4. f \in Frame /\ f.op = "rename"
    BY <1>2, <1>3 DEF Frame
  <1> QED
    BY <1>1, <1>2, <1>3, <1>4, RenameKeeps DEF RenameAgain

LEMMA LookAgainKeeps ==
    ASSUME HostInv, ClosingInv, UNCHANGED <<sessions, runtimes, built, disk, deleted>>,
           NEW t \in Workers, Busy(t), Top(t).op = "rename", Goto(t, [Top(t) EXCEPT !.at = "look"])
    PROVE  ClosingInv'
  <1>1. Top(t) \in Frame
    BY TopIs DEF HostInv
  <1>2. PICK g : g = [Top(t) EXCEPT !.at = "look"]
    OBVIOUS
  <1>3. g \in Frame /\ g.op = "rename"
    BY <1>1, <1>2, AwaitsAre DEF Frame
  <1> QED
    BY <1>2, <1>3, UnchangedEven, EvenMoves

LEMMA CloseSettledKeeps ==
    ASSUME HostInv, ClosingInv, NEW t \in Workers, CloseSettled(t)
    PROVE  ClosingInv'
  <1>1. /\ Busy(t) /\ Top(t).op = "rename"
        /\ UNCHANGED <<sessions, runtimes, built, disk, deleted>>
    BY AtIs DEF CloseSettled
  <1> QED
    BY <1>1, LookAgainKeeps DEF CloseSettled

LEMMA CloseWaitTimesOutKeeps ==
    ASSUME HostInv, ClosingInv, NEW t \in Workers, CloseWaitTimesOut(t)
    PROVE  ClosingInv'
  <1>1. Busy(t) /\ Even /\ "closing" \in Outcomes /\ Top(t).op = "rename"
    BY AtIs, UnchangedEven DEF CloseWaitTimesOut, Outcomes
  <1> QED
    BY <1>1, EvenReturns DEF CloseWaitTimesOut

LEMMA WaitForReservationKeeps ==
    ASSUME HostInv, ClosingInv, NEW t \in Workers, WaitForReservation(t)
    PROVE  ClosingInv'
  <1>1. /\ Busy(t) /\ Top(t).op = "rename" /\ "starting" \in Outcomes
        /\ UNCHANGED <<sessions, runtimes, built, disk, deleted>>
    BY AtIs DEF WaitForReservation, Outcomes
  <1> QED
    BY <1>1, LookAgainKeeps, UnchangedEven, EvenReturns DEF WaitForReservation

LEMMA WaitForCloseKeeps ==
    ASSUME HostInv, ClosingInv, NEW t \in Workers, WaitForClose(t)
    PROVE  ClosingInv'
  <1>0. HostTypes
    BY DEF HostInv
  <1>1. PICK top : top = Top(t)
    OBVIOUS
  <1>2. /\ Busy(t) /\ top \in Frame /\ top.op = "rename" /\ "closing" \in Outcomes
        /\ UNCHANGED <<sessions, runtimes, built, disk, deleted>> /\ top.id \in Ids
    BY <1>1, AtIs DEF WaitForClose, Outcomes, Frame
  <1>3. CASE Return(t, "closing")
    BY <1>1, <1>2, <1>3, UnchangedEven, EvenReturns
  <1>4. CASE Goto(t, [top EXCEPT !.at = "look"])
    BY <1>1, <1>2, <1>4, LookAgainKeeps
  <1>5. CASE Goto(t, [top EXCEPT !.at = "await", !.held = sessions[top.id]])
    <2>1. PICK n : n = sessions[top.id]
      OBVIOUS
    <2>2. n \in Nat
      BY <1>0, <1>2, <2>1, HostAssumption DEF HostTypes
    <2>3. PICK g : g = [top EXCEPT !.at = "await", !.held = n]
      OBVIOUS
    <2>4. g \in Frame /\ g.op = "rename"
      BY <1>2, <2>2, <2>3, AwaitsAre DEF Frame
    <2> QED
      BY <1>1, <1>2, <1>5, <2>1, <2>3, <2>4, UnchangedEven, EvenMoves
  <1> QED
    BY <1>1, <1>3, <1>4, <1>5 DEF WaitForClose

LEMMA RenameLiveKeeps ==
    ASSUME HostInv, ClosingInv, NEW t \in Workers, RenameLive(t)
    PROVE  ClosingInv'
  <1>0. HostTypes
    BY DEF HostInv
  <1>1. PICK top : top = Top(t)
    OBVIOUS
  <1>2. /\ Busy(t) /\ top \in Frame /\ top.op = "rename" /\ top.at = "lock" /\ Fine(t, top)
        /\ UNCHANGED <<sessions, built, deleted>> /\ top.held # 0 /\ "ok" \in Outcomes
    BY <1>1, AtIs DEF RenameLive, Fine, OtherFine, Outcomes
  <1>3. CASE Now(t).life = "closed"
    <2>1. UNCHANGED <<runtimes, disk>> /\ Goto(t, [Top(t) EXCEPT !.at = "look"])
      BY <1>3 DEF RenameLive
    <2> QED
      BY <1>1, <1>2, <2>1, LookAgainKeeps
  <1>4. CASE Now(t).life # "closed"
    <2>1. PICK q : q = Now(t)
      OBVIOUS
    <2>2. /\ q \in Runtime /\ top.id \in Ids /\ top.held \in 1..MaxBuilds
          /\ q = runtimes[top.id][top.held]
      BY <1>0, <1>1, <1>2, <2>1, HeldIs DEF Now
    <2>3. PICK r : r = [q EXCEPT !.title = TRUE]
      OBVIOUS
    <2>4. r \in Runtime /\ r.life = q.life /\ r.owner = q.owner
      BY <2>2, <2>3 DEF Runtime
    <2>5. /\ Touch(top.id, top.held, r) /\ Return(t, "ok")
          /\ disk' = IF disk[top.id].there /\ ~q.loose
                     THEN [disk EXCEPT ![top.id].title = TRUE] ELSE disk
      BY <1>1, <1>4, <2>1, <2>3 DEF RenameLive
    <2>6. \A j \in Ids : disk'[j].there = disk[j].there
      <3>1. CASE disk' = [disk EXCEPT ![top.id].title = TRUE]
        BY <1>0, <2>2, <3>1, TitleWritten
      <3>2. CASE disk' = disk
        BY <3>2
      <3> QED
        BY <2>5, <3>1, <3>2
    <2>7. Even
      BY <1>0, <1>2, <2>2, <2>4, <2>5, <2>6, WrittenEven
    <2> QED
      BY <1>1, <1>2, <2>5, <2>7, EvenReturns
  <1> QED
    BY <1>3, <1>4

LEMMA RenameStoredKeeps ==
    ASSUME HostInv, ClosingInv, NEW t \in Workers, RenameStored(t)
    PROVE  ClosingInv'
  <1>0. HostTypes
    BY DEF HostInv
  <1>1. PICK top : top = Top(t)
    OBVIOUS
  <1>2. /\ Busy(t) /\ top \in Frame /\ top.op = "rename" /\ top.id \in Ids
        /\ UNCHANGED <<sessions, runtimes, built, deleted>>
        /\ disk' = [disk EXCEPT ![top.id].title = TRUE]
        /\ Return(t, "ok") /\ "ok" \in Outcomes
    BY <1>1, AtIs DEF RenameStored, Outcomes, Frame
  <1>3. \A j \in Ids : disk'[j].there = disk[j].there
    BY <1>0, <1>2, TitleWritten
  <1>4. Even
    BY <1>2, <1>3 DEF Even
  <1> QED
    BY <1>1, <1>2, <1>4, EvenReturns

LEMMA SetSettingKeeps ==
    ASSUME HostInv, ClosingInv, NEW t, NEW i \in Ids, SetSetting(t, i)
    PROVE  ClosingInv'
  <1>0. HostTypes /\ t \in Workers /\ Even
    BY IdleIs, UnchangedEven DEF HostInv, SetSetting
  <1>1. PICK n : n = sessions[i]
    OBVIOUS
  <1>2. n \in Nat
    BY <1>0, <1>1, HostAssumption DEF HostTypes
  <1>3. PICK f : f = [Call("set", "none", "signin", i) EXCEPT !.held = n]
    OBVIOUS
  <1>4. f \in Frame /\ f.op = "set"
    BY <1>2, <1>3, AwaitsAre DEF Call, Frame, Outcomes
  <1>5. stack' = [stack EXCEPT ![t] = <<f>>]
    BY <1>1, <1>3 DEF SetSetting, Begin
  <1> QED
    BY <1>0, <1>4, <1>5, OtherKnows, EvenBegins

LEMMA PersistSettingKeeps ==
    ASSUME HostInv, ClosingInv, NEW t \in Workers, PersistSetting(t)
    PROVE  ClosingInv'
  <1>0. HostTypes
    BY DEF HostInv
  <1>1. PICK top : top = Top(t)
    OBVIOUS
  <1>2. /\ Busy(t) /\ top \in Frame /\ top.op = "set" /\ Fine(t, top) /\ top.held # 0
        /\ UNCHANGED <<sessions, built, deleted>> /\ "ok" \in Outcomes /\ "closing" \in Outcomes
    BY <1>1, AtIs DEF PersistSetting, Fine, OtherFine, Outcomes
  <1>3. CASE Now(t).life = "closed"
    <2>1. UNCHANGED <<runtimes, disk>> /\ Return(t, "closing")
      BY <1>3 DEF PersistSetting
    <2> QED
      BY <1>1, <1>2, <2>1, UnchangedEven, EvenReturns
  <1>4. CASE Now(t).life # "closed"
    <2>1. PICK q : q = Now(t)
      OBVIOUS
    <2>2. /\ q \in Runtime /\ top.id \in Ids /\ top.held \in 1..MaxBuilds
          /\ q = runtimes[top.id][top.held]
      BY <1>0, <1>1, <1>2, <2>1, HeldIs DEF Now
    <2>3. PICK r : r = [q EXCEPT !.setting = TRUE]
      OBVIOUS
    <2>4. r \in Runtime /\ r.life = q.life /\ r.owner = q.owner
      BY <2>2, <2>3 DEF Runtime
    <2>5. /\ Touch(top.id, top.held, r) /\ Return(t, "ok")
          /\ disk' = IF disk[top.id].there /\ ~q.loose
                     THEN [disk EXCEPT ![top.id].setting = TRUE] ELSE disk
      BY <1>1, <1>4, <2>1, <2>3 DEF PersistSetting
    <2>6. \A j \in Ids : disk'[j].there = disk[j].there
      <3>1. CASE disk' = [disk EXCEPT ![top.id].setting = TRUE]
        BY <1>0, <2>2, <3>1, SettingWritten
      <3>2. CASE disk' = disk
        BY <3>2
      <3> QED
        BY <2>5, <3>1, <3>2
    <2>7. Even
      BY <1>0, <1>2, <2>2, <2>4, <2>5, <2>6, WrittenEven
    <2> QED
      BY <1>1, <1>2, <2>5, <2>7, EvenReturns
  <1> QED
    BY <1>3, <1>4

(***************************************************************************)
(* Steps that are calm, and steps that concern the innermost call of one   *)
(* task.                                                                   *)
(***************************************************************************)
LEMMA CalmKept ==
    ASSUME HostTypes, ClosingInv, Calm(sessions, runtimes, disk, sessions', runtimes', disk'),
           NEW t \in Workers
    PROVE  /\ StackKnows(sessions', runtimes', disk', stack[t])
           /\ BelowKnows(sessions', runtimes', disk', stack[t])
  <1>1. stack[t] \in Seq(Frame) /\ sessions \in [Ids -> 0..MaxBuilds]
    BY DEF HostTypes
  <1>2. StackKnows(sessions, runtimes, disk, stack[t])
    BY DEF ClosingInv, CallsKnow
  <1> QED
    BY <1>1, <1>2, CalmStack DEF StackKnows, BelowKnows

LEMMA CalmStep ==
    ASSUME HostTypes, ClosingInv, Calm(sessions, runtimes, disk, sessions', runtimes', disk'),
           RegistryKnows(sessions', runtimes', built', disk', deleted'), NEW t \in Workers, NEW x,
           stack' = [stack EXCEPT ![t] = x], StackKnows(sessions', runtimes', disk', x)
    PROVE  ClosingInv'
  <1>1. ASSUME NEW u \in Workers
        PROVE  StackKnows(sessions', runtimes', disk', stack'[u])
    <2>1. stack'[u] = IF u = t THEN x ELSE stack[u]
      BY DEF HostTypes
    <2>2. StackKnows(sessions', runtimes', disk', stack[u])
      BY CalmKept
    <2> QED
      BY <2>1, <2>2
  <1> QED
    BY <1>1 DEF ClosingInv, CallsKnow

\* Calls other than the innermost of t do not clash with it.
LEMMA OtherCalls ==
    ASSUME HostInv, NEW t \in Workers, Busy(t), NEW u \in Workers, NEW k \in 1..Len(stack[u]),
           u # t \/ k # 1
    PROVE  /\ stack[u][k] \in Frame /\ stack[u][k] \in Frames /\ Fine(u, stack[u][k])
           /\ ~Clash(Top(t), stack[u][k])
  <1>0. HostTypes /\ CallsFine /\ NoClash
    BY DEF HostInv
  <1>1. stack[u] \in Seq(Frame) /\ Len(stack[u]) \in Nat
    BY <1>0 DEF HostTypes
  <1>2. PICK p : p = Len(stack[u]) + 1 - k
    OBVIOUS
  <1>3. p \in 1..Len(stack[u]) /\ k = Len(stack[u]) + 1 - p
    BY <1>1, <1>2
  <1>4. stack[u][k] = Nth(stack[u], p)
    BY <1>3 DEF Nth
  <1>5. Top(t) = Nth(stack[t], Len(stack[t])) /\ Len(stack[t]) \in Nat \ {0}
    BY <1>0, TopIs
  <1>6. Len(stack[t]) \in 1..Len(stack[t]) /\ ~(u = t /\ p = Len(stack[t]))
    BY <1>1, <1>2, <1>3, <1>5
  <1>7. ~Clash(Top(t), stack[u][k])
    BY <1>0, <1>3, <1>4, <1>5, <1>6 DEF NoClash
  <1>8. Fine(u, stack[u][k]) /\ stack[u][k] \in Frame
    BY <1>0, <1>1, <1>3, <1>4, NthType DEF CallsFine
  <1>9. stack[u][k] \in Frames
    BY DEF Frames
  <1> QED
    BY <1>7, <1>8, <1>9

\* What the other calls know stays true; t sees to its own stack.
LEMMA MovedStep ==
    ASSUME HostInv, ClosingInv, NEW t \in Workers, Busy(t), NEW top, top = Top(t),
           \A u \in Workers, f \in Frame : f \in Frames /\ Fine(u, f) /\ ~Clash(top, f) =>
               \A on : Knows(sessions, runtimes, disk, f, on) =>
                          Knows(sessions', runtimes', disk', f, on),
           RegistryKnows(sessions', runtimes', built', disk', deleted'), NEW x,
           stack' = [stack EXCEPT ![t] = x],
           BelowKnows(sessions', runtimes', disk', stack[t]) =>
               StackKnows(sessions', runtimes', disk', x)
    PROVE  ClosingInv'
  <1>0. HostTypes
    BY DEF HostInv
  <1>1. ASSUME NEW u \in Workers, NEW k \in 1..Len(stack[u]), u # t \/ k # 1
        PROVE  Knows(sessions', runtimes', disk', stack[u][k], On(stack[u], k))
    <2>1. /\ stack[u][k] \in Frame /\ stack[u][k] \in Frames /\ Fine(u, stack[u][k])
          /\ ~Clash(top, stack[u][k])
      BY <1>1, OtherCalls
    <2>2. Knows(sessions, runtimes, disk, stack[u][k], On(stack[u], k))
      BY DEF ClosingInv, CallsKnow, StackKnows
    <2> QED
      BY <2>1, <2>2
  <1>2. BelowKnows(sessions', runtimes', disk', stack[t])
    BY <1>1 DEF BelowKnows
  <1>3. ASSUME NEW u \in Workers
        PROVE  StackKnows(sessions', runtimes', disk', stack'[u])
    <2>1. stack'[u] = IF u = t THEN x ELSE stack[u]
      BY <1>0 DEF HostTypes
    <2>2. CASE u = t
      BY <1>2, <2>1, <2>2
    <2>3. CASE u # t
      BY <1>1, <2>1, <2>3 DEF StackKnows
    <2> QED
      BY <2>2, <2>3
  <1> QED
    BY <1>3 DEF ClosingInv, CallsKnow

(***************************************************************************)
(* Building a runtime.                                                     *)
(***************************************************************************)
LEMMA GivenUp == Unused \in Runtime /\ Unused.life = "closed" /\ Unused.owner = 0
  BY DEF Unused, FreshRuntime, NoFile, Runtime, Lifecycle

LEMMA NewRuntime ==
    ASSUME NEW file \in File, NEW r, r = FreshRuntime(0, file)
    PROVE  r \in Runtime /\ r.life = "starting" /\ r.owner = 0
  BY DEF FreshRuntime, Runtime, Lifecycle, File

\* The innermost call of t, or its first one, goes on as g.
LEMMA BuildReplaces ==
    ASSUME NEW ses, NEW run, NEW files, NEW s \in Seq(Frame), BelowKnows(ses, run, files, s),
           NEW g \in Frame, g.op = "build", s # <<>> => Head(s).op = "build", BuildKnows(run, files, g)
    PROVE  StackKnows(ses, run, files, <<g>> \o (IF s = <<>> THEN <<>> ELSE Tail(s)))
  <1>1. Knows(ses, run, files, g, {})
    BY PlainKnows
  <1>2. CASE s = <<>>
    <2>1. <<g>> \o <<>> = <<g>>
      OBVIOUS
    <2> QED
      BY <1>1, <1>2, <2>1, OneKnows
  <1>3. CASE s # <<>>
    <2>1. Stands(Head(s), g)
      BY <1>3 DEF Stands
    <2> QED
      BY <1>1, <1>3, <2>1, GotoKnows
  <1> QED
    BY <1>2, <1>3

\* Main has a runtime that can own a new child.
Open == sessions[Main] # 0 /\ \E g \in 1..MaxBuilds : runtimes[Main][g].life = "active"

\* A store is opened: nobody has deleted the id, and a new child has a live owner.
LEMMA OpenRegistry ==
    ASSUME HostTypes, ClosingInv, NEW i \in Ids, NEW file \in File, file.there,
           built[i] < MaxBuilds, built' = [built EXCEPT ![i] = @ + 1],
           disk' = [disk EXCEPT ![i] = file], Touch(i, built[i] + 1, FreshRuntime(0, file)),
           UNCHANGED <<sessions, deleted>>, sessions[i] = 0,
           disk[i].there \/ i \in Roots \/ Open,
           \A j \in deleted : i \notin {j} \cup Owned(j)
    PROVE  /\ Calm(sessions, runtimes, disk, sessions', runtimes', disk')
           /\ RegistryKnows(sessions', runtimes', built', disk', deleted')
  <1>0. RegistryKnows(sessions, runtimes, built, disk, deleted)
    BY DEF ClosingInv
  <1>1. PICK n : n = built[i] + 1
    OBVIOUS
  <1>2. built[i] \in Nat /\ MaxBuilds \in Nat /\ n \in 1..MaxBuilds /\ n > built[i]
    BY <1>1, HostAssumption DEF HostTypes
  <1>3. built'[i] = n /\ \A j \in Ids \ {i} : built'[j] = built[j]
    BY <1>1, <1>2 DEF HostTypes
  <1>4. disk'[i] = file /\ \A j \in Ids \ {i} : disk'[j] = disk[j]
    BY FileIs
  <1>5. PICK r : r = FreshRuntime(0, file)
    OBVIOUS
  <1>6. r \in Runtime /\ r.life = "starting" /\ r.owner = 0
    BY <1>5, NewRuntime
  <1>7. /\ runtimes'[i][n] = r /\ \A h \in 1..MaxBuilds : h # n => runtimes'[i][h] = runtimes[i][h]
        /\ \A j \in Ids \ {i} : runtimes'[j] = runtimes[j]
    BY <1>1, <1>2, <1>5, <1>6, TouchIs
  <1>8. runtimes[i][n].life = "closed"
    BY <1>0, <1>2 DEF RegistryKnows
  <1>9. Calm(sessions, runtimes, disk, sessions', runtimes', disk')
    <2>1. \A j \in Ids : sessions'[j] \in {sessions[j], 0}
      OBVIOUS
    <2>2. \A j \in Ids : \A g \in 1..MaxBuilds :
          \/ runtimes'[j][g].life = runtimes[j][g].life /\ runtimes'[j][g].owner = runtimes[j][g].owner
          \/ /\ runtimes[j][g].life \in {"starting", "closed"} /\ runtimes'[j][g].owner = 0
             /\ runtimes'[j][g].life \in {"starting", "closed"}
      BY <1>6, <1>7, <1>8
    <2>3. \/ Open
          \/ \A c \in Children : disk'[c].there => disk[c].there
      <3>1. CASE disk[i].there
        BY <1>4, <3>1, MainIs
      <3>2. CASE i \in Roots
        <4>1. \A c \in Children : c \in Ids \ {i}
          BY <3>2, HostAssumption DEF Ids
        <4> QED
          BY <1>4, <4>1
      <3> QED
        BY <3>1, <3>2
    <2> QED
      BY <2>1, <2>2, <2>3 DEF Calm, Open
  <1>10. RegistryKnows(sessions', runtimes', built', disk', deleted')
    <2>1. \A j \in Ids : sessions'[j] # 0 => disk'[j].there
      BY <1>0, <1>4 DEF RegistryKnows
    <2>2. \A j \in Roots : \A g \in 1..MaxBuilds :
             runtimes'[j][g].life \in {"active", "closing"} => sessions'[j] = g
      BY <1>0, <1>6, <1>7 DEF RegistryKnows, Ids
    <2>3. \A j \in Ids : \A g \in 1..MaxBuilds :
             g > built'[j] => runtimes'[j][g].life = "closed"
      <3>1. ASSUME NEW g \in 1..MaxBuilds, g > n
            PROVE  runtimes'[i][g].life = "closed"
        <4>1. g # n /\ g > built[i]
          BY <1>1, <1>2, <3>1
        <4> QED
          BY <1>0, <1>7, <4>1 DEF RegistryKnows
      <3> QED
        BY <1>0, <1>3, <1>7, <3>1 DEF RegistryKnows
    <2>4. \A c \in Children : \A g \in Nat : g # 0 /\ Live(sessions', runtimes', c, g) =>
             g \in 1..MaxBuilds /\ runtimes'[Main][g].life \in {"active", "closing"}
      <3>1. ASSUME NEW c \in Children, NEW g \in Nat, g # 0, Live(sessions', runtimes', c, g)
            PROVE  g \in 1..MaxBuilds /\ runtimes'[Main][g].life \in {"active", "closing"}
        <4>1. Live(sessions, runtimes, c, g)
          BY <1>9, <3>1, CalmLive DEF HostTypes
        <4>2. g \in 1..MaxBuilds /\ runtimes[Main][g].life \in {"active", "closing"}
          BY <1>0, <3>1, <4>1 DEF RegistryKnows
        <4> QED
          BY <1>7, <1>8, <4>2, MainIs
      <3> QED
        BY <3>1
    <2>5. \A j \in deleted' : \A k \in {j} \cup Owned(j) : ~disk'[k].there
      <3>1. ASSUME NEW j \in deleted, NEW k \in {j} \cup Owned(j)
            PROVE  ~disk'[k].there
        <4>1. k \in Ids \ {i}
          BY MainIs DEF HostTypes, Owned
        <4> QED
          BY <1>0, <1>4, <4>1 DEF RegistryKnows
      <3> QED
        BY <3>1
    <2>6. built'[Main] > 0 /\ ~disk'[Main].there => \A c \in Children : ~disk'[c].there
      <3>1. CASE i = Main
        BY <1>4, <3>1
      <3>2. CASE i # Main
        <4>1. built'[Main] = built[Main] /\ disk'[Main] = disk[Main]
          BY <1>3, <1>4, <3>2, MainIs
        <4>2. Open => disk[Main].there
          BY <1>0, MainIs DEF Open, RegistryKnows
        <4>3. \/ disk[Main].there
              \/ \A c \in Children : disk'[c].there => disk[c].there
          <5>1. CASE disk[i].there
            BY <1>4, <5>1, MainIs
          <5>2. CASE i \in Roots
            <6>1. \A c \in Children : c \in Ids \ {i}
              BY <5>2, HostAssumption DEF Ids
            <6> QED
              BY <1>4, <6>1
          <5> QED
            BY <4>2, <5>1, <5>2
        <4> QED
          BY <1>0, <4>1, <4>3 DEF RegistryKnows
      <3> QED
        BY <3>1, <3>2
    <2> QED
      BY <2>1, <2>2, <2>3, <2>4, <2>5, <2>6 DEF RegistryKnows
  <1> QED
    BY <1>9, <1>10

LEMMA OpenStoreKeeps ==
    ASSUME HostInv, ClosingInv, NEW t \in Workers, NEW f \in Frame, NEW file \in File, file.there,
           NEW a \in {"build", "owner"}, OpenStore(t, f, file, a), f.op = "build",
           Busy(t) => Top(t).op = "build", sessions[f.id] = 0,
           disk[f.id].there \/ f.id \in Roots \/ Open,
           f.why \notin {"resume", "spawn"} /\ f.id = Main => NoKids(runtimes, disk),
           \A j \in deleted : f.id \notin {j} \cup Owned(j),
           f.why = "spawn" => f.id \in Children,
           IF f.guard THEN f.owner \in 1..MaxBuilds /\ runtimes[Main][f.owner].life = "active"
                           /\ a = "build"
                      ELSE f.owner = 0
    PROVE  ClosingInv'
  <1>0. HostTypes /\ f.id \in Ids
    BY DEF HostInv, Frame
  <1>1. /\ Calm(sessions, runtimes, disk, sessions', runtimes', disk')
        /\ RegistryKnows(sessions', runtimes', built', disk', deleted')
    BY <1>0, OpenRegistry DEF OpenStore
  <1>2. PICK n : n = built[f.id] + 1
    OBVIOUS
  <1>3. n \in Nat
    BY <1>0, <1>2 DEF HostTypes
  <1>4. PICK g : g = [f EXCEPT !.at = a, !.held = n, !.reserved = TRUE]
    OBVIOUS
  <1>5. g \in Frame
    BY <1>3, <1>4, AwaitsAre DEF Frame
  <1>6. /\ g.op = f.op /\ g.why = f.why /\ g.at = a /\ g.id = f.id /\ g.owner = f.owner
        /\ g.guard = f.guard
    BY <1>4 DEF Frame
  <1>7. f.guard => runtimes'[Main][f.owner].life = "active"
    BY <1>1, MainIs DEF Calm
  <1>8. BuildKnows(runtimes', disk', g)
    <2>1. NoKids(runtimes, disk) => NoKids(runtimes', disk')
      BY <1>1, CalmNoKids
    <2> QED
      BY <1>6, <1>7, <2>1 DEF BuildKnows
  <1>9. stack[t] \in Seq(Frame) /\ BelowKnows(sessions', runtimes', disk', stack[t])
    BY <1>0, <1>1, CalmKept DEF HostTypes
  <1>10. StackKnows(sessions', runtimes', disk',
                    <<g>> \o (IF stack[t] = <<>> THEN <<>> ELSE Tail(stack[t])))
    BY <1>5, <1>6, <1>8, <1>9, BuildReplaces DEF Busy, Top
  <1>11. stack' = [stack EXCEPT ![t] =
                     <<g>> \o (IF stack[t] = <<>> THEN <<>> ELSE Tail(stack[t]))]
    BY <1>2, <1>4 DEF OpenStore
  <1> QED
    BY <1>0, <1>1, <1>10, <1>11, CalmStep

\* A generated identifier owns nothing.
LEMMA FreshOwns ==
    ASSUME HostInv, ClosingInv, Fresh(Main)
    PROVE  NoKids(runtimes, disk)
  <1>1. built[Main] = 0 /\ \A g \in 1..MaxBuilds : g > built[Main]
    BY DEF Fresh
  <1>2. \A g \in 1..MaxBuilds : runtimes[Main][g].life = "closed"
    BY <1>1, MainIs DEF ClosingInv, RegistryKnows
  <1>3. \A c \in Children : ~disk[c].there
    BY DEF Fresh, Owned
  <1> QED
    BY <1>2, <1>3 DEF NoKids

LEMMA CreateSessionKeeps ==
    ASSUME HostInv, ClosingInv, NEW t, NEW i, CreateSession(t, i)
    PROVE  ClosingInv'
  <1>1. t \in Workers /\ ~Busy(t) /\ i \in Roots /\ i \in Ids
    BY IdleIs DEF CreateSession, Ids
  <1>2. PICK f : f = Call("build", "create", "build", i)
    OBVIOUS
  <1>3. /\ f \in Frame /\ f.op = "build" /\ f.id = i /\ f.why = "create" /\ ~f.guard
        /\ f.owner = 0
    BY <1>1, <1>2, AwaitsAre DEF Call, Frame, Outcomes
  <1>4. sessions[i] = 0 /\ i \notin deleted
    BY <1>1, FreshIs DEF CreateSession, Fresh
  <1>5. \A j \in deleted : i \notin {j} \cup Owned(j)
    BY <1>1, <1>4, HostAssumption DEF Owned
  <1>6. OpenStore(t, f, NewFile, "build")
    BY <1>2 DEF CreateSession
  <1>7. i = Main => NoKids(runtimes, disk)
    BY FreshOwns DEF CreateSession
  <1> QED
    BY <1>1, <1>3, <1>4, <1>5, <1>6, <1>7, FilesAre, OpenStoreKeeps

LEMMA ForkSessionKeeps ==
    ASSUME HostInv, ClosingInv, NEW t, NEW source \in Roots, NEW i, ForkSession(t, source, i)
    PROVE  ClosingInv'
  <1>1. t \in Workers /\ i \in Ids /\ i \in Roots /\ {source} \in SUBSET Ids
    BY IdleIs DEF ForkSession, Ids
  <1>2. PICK kids \in SUBSET Ids : kids = {source}
    BY <1>1
  <1>3. PICK g : g = [Call("build", "fork", "fork", i) EXCEPT !.kids = kids]
    OBVIOUS
  <1>4. /\ g \in Frame /\ g.op = "build" /\ g.why = "fork" /\ g.at = "fork" /\ g.id = i
        /\ ~g.guard /\ g.owner = 0
    BY <1>1, <1>3, AwaitsAre DEF Call, Frame, Outcomes
  <1>5. Even /\ stack' = [stack EXCEPT ![t] = <<g>>]
    BY <1>2, <1>3, UnchangedEven DEF ForkSession, Begin
  <1>6. BuildKnows(runtimes', disk', g)
    <2>1. i = Main => NoKids(runtimes, disk)
      BY FreshOwns DEF ForkSession
    <2>2. UNCHANGED <<runtimes, disk>>
      BY DEF ForkSession
    <2> QED
      BY <1>1, <1>4, <2>1, <2>2 DEF BuildKnows
  <1> QED
    BY <1>1, <1>4, <1>5, <1>6, PlainKnows, EvenBegins

LEMMA ForkStoreKeeps ==
    ASSUME HostInv, ClosingInv, NEW t \in Workers, ForkStore(t)
    PROVE  ClosingInv'
  <1>0. HostTypes
    BY DEF HostInv
  <1>1. PICK top : top = Top(t)
    OBVIOUS
  <1>2. /\ Busy(t) /\ top \in Frame /\ top.op = "build" /\ top.at = "fork" /\ Fine(t, top)
        /\ BuildKnows(runtimes, disk, top)
    BY <1>1, AtIs, TopKnows DEF ForkStore, Knows
  <1>3. /\ Unborn(top) /\ top.id \in Roots /\ top.owner = 0 /\ ~top.guard
        /\ top.why # "spawn" /\ top.id \notin deleted
    <2>1. Unborn(top) /\ ~Seen(top.id)
      BY <1>2 DEF Fine, BuildFine, Unborn
    <2>2. top.id \in Roots /\ top.owner = 0 /\ (top.guard => top.owner \in 1..MaxBuilds)
      BY <1>2 DEF BuildKnows
    <2>3. ~(0 \in 1..MaxBuilds)
      BY HostAssumption
    <2>4. top.why # "spawn"
      BY <1>2, <2>2, HostAssumption DEF BuildKnows
    <2> QED
      BY <2>1, <2>2, <2>3, <2>4 DEF Seen
  <1>4. CASE /\ Return(t, "error")
             /\ UNCHANGED <<sessions, pending, runtimes, built, disk, reports, deleted>>
    <2>1. Even /\ "error" \in Outcomes
      BY <1>4, UnchangedEven DEF Outcomes
    <2> QED
      BY <1>1, <1>2, <1>4, <2>1, EvenReturns
  <1>5. ASSUME NEW k \in top.kids,
               OpenStore(t, [top EXCEPT !.kids = {}, !.bad = FALSE],
                         [NewFile EXCEPT !.setting = disk[k].setting], "build")
        PROVE  ClosingInv'
    <2>1. PICK f, file : /\ f = [top EXCEPT !.kids = {}, !.bad = FALSE]
                         /\ file = [NewFile EXCEPT !.setting = disk[k].setting]
      OBVIOUS
    <2>2. /\ f \in Frame /\ f.op = "build" /\ f.id = top.id /\ f.why = top.why
          /\ f.guard = top.guard /\ f.owner = top.owner
      BY <1>2, <2>1 DEF Frame
    <2>3. k \in Ids /\ disk[k].setting \in BOOLEAN
      BY <1>0, <1>2 DEF Frame, HostTypes
    <2>4. file \in File /\ file.there
      BY <2>1, <2>3, SettingFile
    <2>5. sessions[f.id] = 0
      BY <1>2, <1>3, <2>2, UnbornIs
    <2>6. \A j \in deleted : f.id \notin {j} \cup Owned(j)
      BY <1>3, <2>2, HostAssumption DEF Owned
    <2>7. OpenStore(t, f, file, "build")
      BY <1>5, <2>1
    <2>8. f.why \notin {"resume", "spawn"} /\ f.id = Main => NoKids(runtimes, disk)
      BY <1>2, <2>2 DEF BuildKnows
    <2> QED
      BY <1>1, <1>2, <1>3, <2>2, <2>4, <2>5, <2>6, <2>7, <2>8, OpenStoreKeeps
  <1> QED
    BY <1>1, <1>4, <1>5 DEF ForkStore

LEMMA ForkRepairsKeeps ==
    ASSUME HostInv, ClosingInv, NEW t \in Workers, ForkRepairs(t)
    PROVE  ClosingInv'
  <1>0. HostTypes
    BY DEF HostInv
  <1>1. PICK top : top = Top(t)
    OBVIOUS
  <1>2. /\ Busy(t) /\ top \in Frame /\ top.op = "build" /\ top.at = "fork"
        /\ BuildKnows(runtimes, disk, top)
    BY <1>1, AtIs, TopKnows DEF ForkRepairs, Knows
  <1>3. PICK k \in top.kids, g \in 1..MaxBuilds :
            \/ Touch(k, g, [runtimes[k][g] EXCEPT !.loose = TRUE])
            \/ UNCHANGED runtimes
    BY <1>1 DEF ForkRepairs, Writers
  <1>4. k \in Ids /\ runtimes[k][g] \in Runtime
    BY <1>0, <1>2, <1>3 DEF Frame, HostTypes
  <1>5. PICK r : r = [runtimes[k][g] EXCEPT !.loose = TRUE]
    OBVIOUS
  <1>6. r \in Runtime /\ r.life = runtimes[k][g].life /\ r.owner = runtimes[k][g].owner
    BY <1>4, <1>5 DEF Runtime
  <1>7. UNCHANGED <<sessions, built, disk, deleted>>
    BY DEF ForkRepairs
  <1>8. Even
    <2>1. CASE Touch(k, g, r)
      BY <1>0, <1>4, <1>6, <1>7, <2>1, TouchEven
    <2>2. CASE UNCHANGED runtimes
      BY <1>7, <2>2, UnchangedEven
    <2> QED
      BY <1>3, <1>5, <2>1, <2>2
  <1>9. PICK f : f = [top EXCEPT !.bad = TRUE]
    OBVIOUS
  <1>10. /\ f \in Frame /\ f.op = top.op /\ f.why = top.why /\ f.at = top.at /\ f.id = top.id
         /\ f.guard = top.guard /\ f.owner = top.owner /\ f.kids = top.kids
    BY <1>2, <1>9 DEF Frame
  <1>11. NoKids(runtimes, disk) => NoKids(runtimes', disk')
    BY <1>8, EvenCalm, CalmNoKids
  <1>12. f.guard => runtimes'[Main][f.owner].life = runtimes[Main][f.owner].life
    BY <1>2, <1>8, <1>10, MainIs DEF BuildKnows, Even
  <1>13. BuildKnows(runtimes', disk', f)
    BY <1>2, <1>10, <1>11, <1>12 DEF BuildKnows
  <1>14. Goto(t, f)
    BY <1>1, <1>9 DEF ForkRepairs
  <1> QED
    BY <1>1, <1>2, <1>8, <1>10, <1>13, <1>14, PlainKnows, EvenGoes DEF Stands

\* Who has no owner holds no owner's lock.
LEMMA NoGuard ==
    ASSUME NEW run, NEW files, NEW f, f.op = "build", BuildKnows(run, files, f), f.at \in {"fork", "look", "owner"}
    PROVE  f.owner = 0 /\ ~f.guard
  <1>1. ~(0 \in 1..MaxBuilds)
    BY HostAssumption
  <1> QED
    BY <1>1 DEF BuildKnows

LEMMA ResumeKeeps ==
    ASSUME HostInv, ClosingInv, NEW t \in Workers, NEW f \in Frame, Resume(t, f), f.op = "build",
           f.why = "resume", f.owner = 0, ~f.guard, Busy(t) => Top(t).op = "build"
    PROVE  ClosingInv'
  <1>0. HostTypes
    BY DEF HostInv
  <1>1. PICK i \in Ids : i = f.id
    BY DEF Frame
  <1>2. CASE /\ SessionOf(i) = "ok"
             /\ stack' = [stack EXCEPT ![t] = <<[f EXCEPT !.at = "switch", !.held = sessions[i]]>>
                                              \o (IF @ = <<>> THEN <<>> ELSE Tail(@))]
             /\ UNCHANGED <<sessions, pending, runtimes, built, disk, reports, deleted>>
    <2>1. PICK n \in Nat : n = sessions[i]
      BY <1>0, <1>2, LiveIs
    <2>2. PICK g : g = [f EXCEPT !.at = "switch", !.held = n]
      OBVIOUS
    <2>3. g \in Frame
      BY <2>2, AwaitsAre DEF Frame
    <2>4. /\ g.op = f.op /\ g.why = f.why /\ g.at = "switch" /\ g.owner = f.owner
          /\ g.guard = f.guard
      BY <2>2 DEF Frame
    <2>5. BuildKnows(runtimes', disk', g)
      BY <2>4 DEF BuildKnows
    <2>6. Even
      BY <1>2, UnchangedEven
    <2>7. stack[t] \in Seq(Frame) /\ BelowKnows(sessions', runtimes', disk', stack[t])
      BY <1>0, <2>6, EvenKept DEF HostTypes
    <2>8. PICK x : x = <<g>> \o (IF stack[t] = <<>> THEN <<>> ELSE Tail(stack[t]))
      OBVIOUS
    <2>9. StackKnows(sessions', runtimes', disk', x)
      BY <2>3, <2>4, <2>5, <2>7, <2>8, BuildReplaces DEF Busy, Top
    <2>10. stack' = [stack EXCEPT ![t] = x]
      BY <1>2, <2>1, <2>2, <2>8
    <2> QED
      BY <1>0, <2>6, <2>9, <2>10, EvenTop
  <1>3. CASE /\ Reservable(i) /\ disk[i].there
             /\ OpenStore(t, [f EXCEPT !.kids = {k \in {OwnerOf(i)} \ {i} : disk[k].there}],
                          disk[i], IF i \in Children THEN "owner" ELSE "build")
    <2>1. PICK kids : kids = {k \in {OwnerOf(i)} \ {i} : disk[k].there}
      OBVIOUS
    <2>2. kids \in SUBSET Ids
      BY <2>1, MainIs DEF OwnerOf
    <2>3. PICK g : g = [f EXCEPT !.kids = kids]
      OBVIOUS
    <2>4. /\ g \in Frame /\ g.op = f.op /\ g.why = f.why /\ g.id = f.id /\ g.owner = f.owner
          /\ g.guard = f.guard
      BY <2>2, <2>3 DEF Frame
    <2>5. disk[i] \in File
      BY <1>0 DEF HostTypes, File
    <2>6. PICK a \in {"build", "owner"} : a = IF i \in Children THEN "owner" ELSE "build"
      OBVIOUS
    <2>7. OpenStore(t, g, disk[i], a)
      BY <1>3, <2>1, <2>3, <2>6
    <2>8. \A j \in deleted : i \notin {j} \cup Owned(j)
      BY <1>3 DEF ClosingInv, RegistryKnows
    <2> QED
      BY <1>1, <1>3, <2>4, <2>5, <2>7, <2>8, OpenStoreKeeps DEF Reservable
  <1>4. ASSUME NEW r \in Outcomes,
               stack' = [stack EXCEPT ![t] = IF @ = <<>> THEN <<>> ELSE After(@, r, 0)],
               UNCHANGED <<sessions, pending, runtimes, built, disk, reports, deleted>>
        PROVE  ClosingInv'
    <2>1. Even
      BY <1>4, UnchangedEven
    <2>2. CASE Busy(t)
      <3>1. Return(t, r)
        BY <1>4, <2>2 DEF Busy, Return
      <3> QED
        BY <2>1, <2>2, <3>1, EvenReturns
    <2>3. CASE ~Busy(t)
      BY <1>4, <2>1, <2>3, EvenRests DEF Busy
    <2> QED
      BY <2>2, <2>3
  <1>5. PICK r : r = IF sessions[i] # 0 THEN SessionOf(i)
                     ELSE IF i \in pending THEN "duplicate"
                     ELSE IF disk[i].there THEN "error" ELSE "notFound"
    OBVIOUS
  <1>6. r \in Outcomes
    BY <1>0, <1>5, OutcomesAre
  <1> QED
    BY <1>1, <1>2, <1>3, <1>4, <1>5, <1>6 DEF Resume

LEMMA ResumeSessionKeeps ==
    ASSUME HostInv, ClosingInv, NEW t, NEW i \in Ids, ResumeSession(t, i)
    PROVE  ClosingInv'
  <1>1. t \in Workers /\ ~Busy(t)
    BY IdleIs DEF ResumeSession
  <1>2. PICK f : f = Call("build", "resume", "look", i)
    OBVIOUS
  <1>3. f \in Frame /\ f.op = "build" /\ f.why = "resume" /\ f.owner = 0 /\ ~f.guard
    BY <1>2, AwaitsAre DEF Call, Frame, Outcomes
  <1> QED
    BY <1>1, <1>2, <1>3, ResumeKeeps DEF ResumeSession

LEMMA ResumeNestedKeeps ==
    ASSUME HostInv, ClosingInv, NEW t \in Workers, ResumeNested(t)
    PROVE  ClosingInv'
  <1>1. /\ Busy(t) /\ Top(t) \in Frame /\ Fine(t, Top(t)) /\ Top(t).op = "build"
        /\ Top(t).at = "look"
    BY AtIs DEF ResumeNested
  <1>2. Top(t).why = "resume"
    BY <1>1 DEF Fine, BuildFine
  <1>3. Top(t).owner = 0 /\ ~Top(t).guard
    BY <1>1, TopKnows, NoGuard DEF Knows
  <1> QED
    BY <1>1, <1>2, <1>3, ResumeKeeps DEF ResumeNested

\* A build that fails gives its runtime up.
LEMMA GivesUp ==
    ASSUME HostInv, ClosingInv, NEW t \in Workers, Busy(t), Building(Top(t)), NEW r \in Outcomes,
           Touch(Top(t).id, Top(t).held, Unused), Return(t, r),
           UNCHANGED <<sessions, built, disk, deleted>>
    PROVE  ClosingInv'
  <1>0. HostTypes /\ Top(t) \in Frame /\ Fine(t, Top(t)) /\ Top(t).op = "build"
    BY TopIs DEF HostInv, Building
  <1>1. Top(t).id \in Ids /\ Top(t).held \in 1..MaxBuilds
    BY <1>0, HeldIs DEF Building
  <1>2. runtimes[Top(t).id][Top(t).held].life = "starting"
    BY <1>0 DEF Fine, BuildFine
  <1>3. Even
    BY <1>0, <1>1, <1>2, GivenUp, TouchEven
  <1> QED
    BY <1>0, <1>3, EvenReturns

LEMMA LookKnows ==
    ASSUME NEW run, NEW files, NEW i \in Ids, NEW g, g = Call("build", "resume", "look", i)
    PROVE  g \in Frame /\ g.op = "build" /\ BuildKnows(run, files, g)
  <1>1. /\ g \in Frame /\ g.op = "build" /\ g.why = "resume" /\ g.at = "look"
        /\ g.owner = 0 /\ ~g.guard
    BY AwaitsAre DEF Call, Frame, Outcomes
  <1> QED
    BY <1>1 DEF BuildKnows

LEMMA SpawnKnows ==
    ASSUME HostTypes, SessionOf(Main) = "ok", NEW run, NEW files, NEW i \in Children, NEW g, g = SpawnCall(i)
    PROVE  g \in Frame /\ g.op = "build" /\ BuildKnows(run, files, g)
  <1>1. PICK n \in Nat : n = sessions[Main]
    BY LiveIs, MainIs
  <1>2. PICK c : c = Call("build", "spawn", "guard", i)
    OBVIOUS
  <1>3. /\ c \in Frame /\ c.op = "build" /\ c.at = "guard" /\ c.why = "spawn" /\ c.id = i
        /\ ~c.guard
    BY <1>2, MainIs, AwaitsAre DEF Call, Frame, Outcomes
  <1>4. g = [c EXCEPT !.owner = n]
    BY <1>1, <1>2 DEF SpawnCall
  <1>5. /\ g \in Frame /\ g.op = "build" /\ g.at = "guard" /\ g.why = "spawn" /\ g.id = i
        /\ ~g.guard
    BY <1>3, <1>4 DEF Frame
  <1> QED
    BY <1>5 DEF BuildKnows

LEMMA ResumeOwnerKeeps ==
    ASSUME HostInv, ClosingInv, NEW t \in Workers, ResumeOwner(t)
    PROVE  ClosingInv'
  <1>0. HostTypes /\ UNCHANGED <<sessions, built, disk, deleted>>
    BY DEF HostInv, ResumeOwner
  <1>1. PICK top : top = Top(t)
    OBVIOUS
  <1>2. /\ Busy(t) /\ top \in Frame /\ top.op = "build" /\ top.at = "owner" /\ Fine(t, top)
        /\ BuildKnows(runtimes, disk, top)
    BY <1>1, AtIs, TopKnows DEF ResumeOwner, Knows
  <1>3. Building(top) /\ top.owner = 0 /\ ~top.guard /\ top.why = "resume"
    BY <1>2, NoGuard DEF Fine, BuildFine, Building
  <1>4. top.back \in Outcomes /\ SessionOf(Main) \in Outcomes
    <2>1. top.back \in Outcomes
      BY <1>2 DEF Frame
    <2> QED
      BY <1>0, <2>1, OutcomesAre, MainIs
  <1>5. ASSUME NEW r \in Outcomes, Return(t, r), Touch(top.id, top.held, Unused)
        PROVE  ClosingInv'
    BY <1>0, <1>1, <1>2, <1>3, <1>5, GivesUp
  <1>6. CASE /\ SessionOf(Main) = "ok"
             /\ Goto(t, [top EXCEPT !.at = "guard", !.owner = sessions[Main], !.kids = {}])
             /\ UNCHANGED <<pending, runtimes>>
    <2>1. PICK n \in Nat : n = sessions[Main]
      BY <1>0, <1>6, LiveIs, MainIs
    <2>2. PICK g : g = [top EXCEPT !.at = "guard", !.owner = n, !.kids = {}]
      OBVIOUS
    <2>3. g \in Frame
      BY <1>2, <2>2, AwaitsAre DEF Frame
    <2>4. g.at = "guard" /\ g.op = top.op /\ g.why = top.why /\ g.id = top.id /\ g.guard = top.guard
      BY <1>2, <2>2 DEF Frame
    <2>5. BuildKnows(runtimes', disk', g)
      BY <1>0, <1>2, <1>3, <2>4 DEF BuildKnows
    <2>6. Even
      BY <1>0, <1>6, UnchangedEven
    <2> QED
      BY <1>1, <1>2, <1>6, <2>1, <2>2, <2>3, <2>4, <2>5, <2>6, EvenBuilds
  <1>7. CASE /\ IF top.kids = {} THEN Goto(t, [top EXCEPT !.at = "build"])
                ELSE CallFrom(t, [top EXCEPT !.back = "none"],
                              Call("build", "resume", "look", Main))
             /\ UNCHANGED <<pending, runtimes>>
    <2>1. Even
      BY <1>0, <1>7, UnchangedEven
    <2>2. CASE Goto(t, [top EXCEPT !.at = "build"])
      <3>1. PICK g : g = [top EXCEPT !.at = "build"]
        OBVIOUS
      <3>2. /\ g \in Frame /\ g.at = "build" /\ g.op = top.op /\ g.why = top.why /\ g.id = top.id
            /\ g.guard = top.guard /\ g.owner = top.owner
        BY <1>2, <3>1, AwaitsAre DEF Frame
      <3>3. BuildKnows(runtimes', disk', g)
        BY <1>2, <1>3, <3>2 DEF BuildKnows
      <3> QED
        BY <1>1, <1>2, <2>1, <2>2, <3>1, <3>2, <3>3, EvenBuilds
    <2>3. CASE CallFrom(t, [top EXCEPT !.back = "none"], Call("build", "resume", "look", Main))
      <3>1. PICK f, g : f = [top EXCEPT !.back = "none"] /\ g = Call("build", "resume", "look", Main)
        OBVIOUS
      <3>2. f \in Frame /\ Same(top, f)
        BY <1>2, <3>1, BackFrame
      <3>3. f.op = "build" /\ BuildKnows(runtimes', disk', f) /\ Stands(top, f)
        BY <1>2, <1>3, <1>7, <3>2 DEF BuildKnows, Same, Stands
      <3>4. g \in Frame /\ g.op = "build" /\ BuildKnows(runtimes', disk', g)
        BY <3>1, MainIs, LookKnows
      <3>5. Knows(sessions', runtimes', disk', f, {g}) /\ Knows(sessions', runtimes', disk', g, {})
        BY <3>3, <3>4, PlainKnows
      <3> QED
        BY <1>1, <1>2, <2>1, <2>3, <3>1, <3>2, <3>3, <3>4, <3>5, EvenCalls
    <2> QED
      BY <1>7, <2>2, <2>3
  <1> QED
    BY <1>1, <1>4, <1>5, <1>6, <1>7 DEF ResumeOwner

LEMMA CreateOwnedKeeps ==
    ASSUME HostInv, ClosingInv, NEW t, NEW i, CreateOwned(t, i)
    PROVE  ClosingInv'
  <1>1. HostTypes /\ t \in Workers /\ Even
    BY IdleIs, UnchangedEven DEF CreateOwned, HostInv
  <1>2. PICK g : g = SpawnCall(i)
    OBVIOUS
  <1>3. g \in Frame /\ g.op = "build" /\ BuildKnows(runtimes', disk', g)
    BY <1>1, <1>2, SpawnKnows DEF CreateOwned
  <1>4. stack' = [stack EXCEPT ![t] = <<g>>]
    BY <1>2 DEF CreateOwned, Begin
  <1> QED
    BY <1>1, <1>3, <1>4, PlainKnows, EvenBegins

LEMMA OwnerGuardKeeps ==
    ASSUME HostInv, ClosingInv, NEW t \in Workers, OwnerGuard(t)
    PROVE  ClosingInv'
  <1>0. HostTypes /\ RegistryKnows(sessions, runtimes, built, disk, deleted)
    BY DEF HostInv, ClosingInv
  <1>1. PICK top : top = Top(t)
    OBVIOUS
  <1>2. /\ Busy(t) /\ top \in Frame /\ top.op = "build" /\ top.at = "guard" /\ Fine(t, top)
        /\ BuildKnows(runtimes, disk, top)
    BY <1>1, AtIs, TopKnows DEF OwnerGuard, Knows
  <1>3. /\ top.owner \in 1..MaxBuilds
        /\ IF top.held = 0 THEN top.why = "spawn" /\ ~top.reserved ELSE top.why = "resume"
    BY <1>2 DEF Fine, BuildFine
  <1>4. CASE /\ Return(t, EnsureActive(runtimes[Main][top.owner]))
             /\ runtimes' = IF top.held = 0 THEN runtimes
                            ELSE [runtimes EXCEPT ![top.id][top.held] = Unused]
             /\ UNCHANGED <<sessions, built, disk, reports, deleted>>
    <2>1. PICK r \in Outcomes : r = EnsureActive(runtimes[Main][top.owner])
      BY <1>0, OutcomesAre
    <2>2. CASE top.held = 0
      <3>1. Even
        BY <1>4, <2>2, UnchangedEven
      <3> QED
        BY <1>1, <1>2, <1>4, <2>1, <3>1, EvenReturns
    <2>3. CASE top.held # 0
      <3>1. Building(top)
        BY <1>2, <2>3 DEF Building
      <3>2. Touch(top.id, top.held, Unused)
        BY <1>4, <2>3 DEF Touch
      <3> QED
        BY <1>1, <1>2, <1>4, <2>1, <3>1, <3>2, GivesUp
    <2> QED
      BY <2>2, <2>3
  <1>5. CASE /\ top.why = "spawn" /\ runtimes[Main][top.owner].life = "active"
             /\ OpenStore(t, [top EXCEPT !.guard = TRUE],
                          [NewFile EXCEPT !.setting = runtimes[Main][top.owner].setting], "build")
    <2>1. PICK f, file : /\ f = [top EXCEPT !.guard = TRUE]
                         /\ file = [NewFile EXCEPT !.setting = runtimes[Main][top.owner].setting]
      OBVIOUS
    <2>2. /\ f \in Frame /\ f.op = "build" /\ f.id = top.id /\ f.why = top.why /\ f.guard
          /\ f.owner = top.owner
      BY <1>2, <2>1 DEF Frame
    <2>3. runtimes[Main][top.owner].setting \in BOOLEAN
      <3>1. runtimes[Main][top.owner] \in Runtime
        BY <1>0, <1>3, MainIs DEF HostTypes
      <3> QED
        BY <3>1 DEF Runtime
    <2>4. file \in File /\ file.there
      BY <2>1, <2>3, SettingFile
    <2>5. Unborn(top) /\ top.id \in Children
      BY <1>2, <1>3, <1>5 DEF Unborn, BuildKnows
    <2>6. sessions[f.id] = 0 /\ f.id \notin deleted
      BY <1>2, <2>2, <2>5, UnbornIs DEF Fine, BuildFine, Seen
    <2>7. sessions[Main] = top.owner /\ sessions[Main] # 0 /\ Open
      <3>1. top.owner # 0
        BY <1>3, HostAssumption
      <3> QED
        BY <1>0, <1>3, <1>5, <3>1, MainIs DEF RegistryKnows, Open
    <2>8. Main \notin deleted
      BY <1>0, <2>7, MainIs DEF RegistryKnows
    <2>9. \A j \in deleted : f.id \notin {j} \cup Owned(j)
      BY <2>6, <2>8 DEF Owned
    <2>10. OpenStore(t, f, file, "build")
      BY <1>5, <2>1
    <2> QED
      BY <1>1, <1>2, <1>3, <1>5, <2>2, <2>4, <2>5, <2>6, <2>7, <2>9, <2>10, OpenStoreKeeps
  <1>6. CASE /\ runtimes[Main][top.owner].life = "active"
             /\ Goto(t, [top EXCEPT !.guard = TRUE, !.at = "build"])
             /\ UNCHANGED <<sessions, pending, runtimes, built, disk, reports, deleted>>
    <2>1. PICK g : g = [top EXCEPT !.guard = TRUE, !.at = "build"]
      OBVIOUS
    <2>2. /\ g \in Frame /\ g.at = "build" /\ g.op = top.op /\ g.why = top.why /\ g.id = top.id
          /\ g.guard /\ g.owner = top.owner
      BY <1>2, <2>1, AwaitsAre DEF Frame
    <2>3. BuildKnows(runtimes', disk', g)
      BY <1>2, <1>3, <1>6, <2>2 DEF BuildKnows
    <2>4. Even
      BY <1>6, UnchangedEven
    <2> QED
      BY <1>1, <1>2, <1>6, <2>1, <2>2, <2>3, <2>4, EvenBuilds
  <1> QED
    BY <1>1, <1>4, <1>5, <1>6 DEF OwnerGuard

LEMMA SubagentKeeps ==
    ASSUME HostInv, ClosingInv, NEW t \in Workers, NEW i \in Children, Subagent(t, i)
    PROVE  ClosingInv'
  <1>0. HostTypes /\ Even
    BY UnchangedEven DEF HostInv, Subagent
  <1>1. Busy(t) /\ Top(t) \in Frame /\ Top(t).op = "run"
    BY AtIs DEF Subagent
  <1>2. PICK kids \in SUBSET Ids : kids = {i}
    BY MainIs
  <1>3. PICK f, g : f = [Top(t) EXCEPT !.at = "delegate", !.kids = kids] /\ g = SpawnCall(i)
    OBVIOUS
  <1>4. f \in Frame /\ f.op = "run" /\ Stands(Top(t), f)
    <2>1. f \in Frame /\ Alike(Top(t), f)
      BY <1>1, <1>3, FrameMovesKids, AwaitsAre
    <2> QED
      BY <1>1, <2>1 DEF Alike, Stands
  <1>5. g \in Frame /\ g.op = "build" /\ BuildKnows(runtimes', disk', g)
    BY <1>0, <1>3, SpawnKnows DEF Subagent
  <1>6. Knows(sessions', runtimes', disk', f, {g}) /\ Knows(sessions', runtimes', disk', g, {})
    BY <1>4, <1>5, PlainKnows, OtherKnows
  <1>7. CallFrom(t, f, g)
    BY <1>2, <1>3 DEF Subagent
  <1> QED
    BY <1>0, <1>1, <1>4, <1>5, <1>6, <1>7, EvenCalls

LEMMA BackgroundKeeps ==
    ASSUME HostInv, ClosingInv, NEW t \in Workers, NEW i \in Children, Background(t, i)
    PROVE  ClosingInv'
  <1>0. HostTypes /\ Even
    BY UnchangedEven DEF HostInv, Background
  <1>1. Busy(t) /\ Top(t) \in Frame /\ Top(t).op = "run"
    BY AtIs DEF Background
  <1>2. PICK kids \in SUBSET Ids : kids = {i}
    BY MainIs
  <1>3. PICK f : f = [Top(t) EXCEPT !.at = "manage", !.kids = kids]
    OBVIOUS
  <1>4. f \in Frame /\ f.op = "run" /\ Stands(Top(t), f)
    <2>1. f \in Frame /\ Alike(Top(t), f)
      BY <1>1, <1>3, FrameMovesKids, AwaitsAre
    <2> QED
      BY <1>1, <2>1 DEF Alike, Stands
  <1>5. ASSUME NEW g \in Frame, g.op = "build", BuildKnows(runtimes', disk', g), CallFrom(t, f, g)
        PROVE  ClosingInv'
    <2>1. Knows(sessions', runtimes', disk', f, {g}) /\ Knows(sessions', runtimes', disk', g, {})
      BY <1>4, <1>5, PlainKnows, OtherKnows
    <2> QED
      BY <1>0, <1>1, <1>4, <1>5, <2>1, EvenCalls
  <1>6. CASE SessionOf(Main) = "ok" /\ CallFrom(t, f, SpawnCall(i))
    <2>1. PICK g : g = SpawnCall(i)
      OBVIOUS
    <2>2. g \in Frame /\ g.op = "build" /\ BuildKnows(runtimes', disk', g)
      BY <1>0, <1>6, <2>1, SpawnKnows
    <2> QED
      BY <1>5, <1>6, <2>1, <2>2
  <1>7. CASE CallFrom(t, f, Call("build", "resume", "look", i))
    <2>1. PICK g : g = Call("build", "resume", "look", i)
      OBVIOUS
    <2>2. g \in Frame /\ g.op = "build" /\ BuildKnows(runtimes', disk', g)
      BY <2>1, MainIs, LookKnows
    <2> QED
      BY <1>5, <1>7, <2>1, <2>2
  <1>8. CASE Goto(t, [f EXCEPT !.back = SessionOf(i)])
    <2>1. PICK o \in Outcomes : o = SessionOf(i)
      BY <1>0, OutcomesAre, MainIs
    <2>2. PICK g : g = [f EXCEPT !.back = o]
      OBVIOUS
    <2>3. g \in Frame /\ g.op = "run"
      BY <1>4, <2>2 DEF Frame
    <2> QED
      BY <1>0, <1>1, <1>8, <2>1, <2>2, <2>3, EvenMoves
  <1> QED
    BY <1>2, <1>3, <1>6, <1>7, <1>8 DEF Background

\* What a call needs of a step that is not calm.
LEMMA KnowsMoves ==
    ASSUME NEW ses, NEW run, NEW files, NEW ses2, NEW run2, NEW files2, NEW f, NEW on,
           Knows(ses, run, files, f, on),
           f.op = "build" /\ f.guard => run2[Main][f.owner].life = "active",
           f.op = "build" /\ f.why \notin {"resume", "spawn"} /\ f.id = Main => NoKids(run2, files2),
           f.op = "build" /\ f.at \in {"hook", "register", "start", "checkpoint"} =>
               run2[f.id][f.held].owner = run[f.id][f.held].owner,
           f.op = "close" /\ f.at \in {"children", "join", "hook"} =>
               run2[f.id][f.held].life = "closing",
           f.op = "close" /\ f.at \in {"children", "join", "hook"} /\ f.id = Main =>
               \A c \in Children : Live(ses2, run2, c, f.held) =>
                   Live(ses, run, c, f.held) /\ ses2[c] = ses[c],
           f.op = "delete" /\ ses[f.id] = 0 => ses2[f.id] = 0,
           \A c \in Children : files2[c].there => files[c].there
    PROVE  Knows(ses2, run2, files2, f, on)
  <1>1. BuildKnows(run2, files2, f)
    BY DEF Knows, BuildKnows
  <1>2. CloseKnows(ses2, run2, f, on)
    BY DEF Knows, CloseKnows
  <1>3. DeleteKnows(ses2, files2, f, on)
    BY DEF Knows, DeleteKnows
  <1> QED
    BY <1>1, <1>2, <1>3 DEF Knows

\* A calm step that only takes away.
LEMMA LessRegistry ==
    ASSUME HostTypes, ClosingInv, Calm(sessions, runtimes, disk, sessions', runtimes', disk'),
           built' = built,
           \A i \in Ids : \A g \in 1..MaxBuilds :
               runtimes'[i][g].life \in {runtimes[i][g].life, "closed"},
           \A i \in Ids : disk'[i].there => disk[i].there,
           \A i \in Ids : sessions'[i] # 0 => disk'[i].there,
           disk[Main].there /\ ~disk'[Main].there => \A c \in Children : ~disk'[c].there,
           \A i \in Roots : \A g \in 1..MaxBuilds :
               runtimes'[i][g].life \in {"active", "closing"} => sessions'[i] = g,
           deleted' \subseteq Ids,
           \A i \in deleted' : i \in deleted \/ \A k \in {i} \cup Owned(i) : ~disk'[k].there
    PROVE  RegistryKnows(sessions', runtimes', built', disk', deleted')
  <1>0. RegistryKnows(sessions, runtimes, built, disk, deleted)
    BY DEF ClosingInv
  <1>1. \A i \in Ids : \A g \in 1..MaxBuilds : g > built'[i] => runtimes'[i][g].life = "closed"
    BY <1>0 DEF RegistryKnows
  <1>2. ASSUME NEW c \in Children, NEW g \in Nat, g # 0, Live(sessions', runtimes', c, g)
        PROVE  g \in 1..MaxBuilds /\ runtimes'[Main][g].life \in {"active", "closing"}
    <2>1. Live(sessions, runtimes, c, g)
      BY <1>2, CalmLive DEF HostTypes
    <2>2. g \in 1..MaxBuilds /\ runtimes[Main][g].life \in {"active", "closing"}
      BY <1>0, <1>2, <2>1 DEF RegistryKnows
    <2> QED
      BY <2>2, MainIs DEF Calm
  <1>3. ASSUME NEW i \in deleted', NEW k \in {i} \cup Owned(i)
        PROVE  ~disk'[k].there
    <2>1. k \in Ids
      BY MainIs DEF Owned
    <2> QED
      BY <1>0, <2>1 DEF RegistryKnows
  <1>4. built'[Main] > 0 /\ ~disk'[Main].there => \A c \in Children : ~disk'[c].there
    <2>1. \A c \in Children : disk'[c].there => disk[c].there
      BY MainIs
    <2> QED
      BY <1>0, <2>1 DEF RegistryKnows
  <1> QED
    BY <1>1, <1>2, <1>3, <1>4 DEF RegistryKnows

LEMMA CalmReturns ==
    ASSUME HostInv, ClosingInv, Calm(sessions, runtimes, disk, sessions', runtimes', disk'),
           RegistryKnows(sessions', runtimes', built', disk', deleted'), NEW t \in Workers, Busy(t),
           Top(t).op \notin {"close", "delete"}, NEW r \in Outcomes, Return(t, r)
    PROVE  ClosingInv'
  <1>1. HostTypes /\ stack[t] \in Seq(Frame) /\ stack[t] # <<>> /\ 0 \in Nat
    BY DEF HostInv, HostTypes, Busy
  <1>2. StackKnows(sessions', runtimes', disk', After(stack[t], r, 0))
    BY <1>1, CalmKept, PlainReturns DEF Top
  <1> QED
    BY <1>1, <1>2, CalmStep DEF Return

LEMMA BuildSessionKeeps ==
    ASSUME HostInv, ClosingInv, NEW t \in Workers, BuildSession(t)
    PROVE  ClosingInv'
  <1>0. /\ HostTypes /\ RegistryKnows(sessions, runtimes, built, disk, deleted)
        /\ UNCHANGED <<sessions, built, deleted>>
    BY DEF HostInv, ClosingInv, BuildSession
  <1>1. PICK top : top = Top(t)
    OBVIOUS
  <1>2. /\ Busy(t) /\ top \in Frame /\ top.op = "build" /\ top.at = "build" /\ Fine(t, top)
        /\ BuildKnows(runtimes, disk, top)
    BY <1>1, AtIs, TopKnows DEF BuildSession, Knows
  <1>3. /\ Building(top) /\ top.reserved /\ sessions[top.id] = 0
        /\ runtimes[top.id][top.held].life = "starting"
    BY <1>2 DEF Fine, BuildFine, Building
  <1>4. /\ top.id \in Ids /\ top.held \in 1..MaxBuilds /\ runtimes[top.id][top.held] \in Runtime
        /\ top.owner \in Nat
    <2>1. top.owner \in Nat
      BY <1>2 DEF Frame
    <2> QED
      BY <1>0, <1>2, <1>3, <2>1, HeldIs DEF Building
  <1>5. CASE /\ Touch(top.id, top.held, [Now(t) EXCEPT !.owner = top.owner])
             /\ Goto(t, [top EXCEPT !.at = IF top.why = "resume" THEN "hook" ELSE "register"])
             /\ UNCHANGED <<pending, disk, budget>>
    <2>1. PICK r : r = [Now(t) EXCEPT !.owner = top.owner]
      OBVIOUS
    <2>2. r \in Runtime /\ r.life = "starting" /\ r.owner = top.owner
      <3>1. r = [runtimes[top.id][top.held] EXCEPT !.owner = top.owner]
        BY <1>1, <2>1 DEF Now
      <3> QED
        BY <1>3, <1>4, <3>1 DEF Runtime
    <2>3. /\ runtimes'[top.id][top.held] = r
          /\ \A h \in 1..MaxBuilds : h # top.held => runtimes'[top.id][h] = runtimes[top.id][h]
          /\ \A j \in Ids \ {top.id} : runtimes'[j] = runtimes[j]
      BY <1>0, <1>4, <1>5, <2>1, <2>2, TouchIs
    <2>4. \A i \in Ids : \A g \in 1..MaxBuilds : runtimes'[i][g].life = runtimes[i][g].life
      BY <1>3, <2>2, <2>3
    <2>5. ASSUME NEW c \in Children, NEW g, Live(sessions', runtimes', c, g)
          PROVE  Live(sessions, runtimes, c, g) /\ sessions'[c] = sessions[c]
      <3>1. c # top.id /\ c \in Ids
        BY <1>0, <1>3, <2>5, MainIs DEF Live
      <3> QED
        BY <1>0, <2>3, <2>5, <3>1 DEF Live
    <2>6. ASSUME NEW u \in Workers, NEW f \in Frame, Fine(u, f), ~Clash(top, f), NEW on,
                 Knows(sessions, runtimes, disk, f, on)
          PROVE  Knows(sessions', runtimes', disk', f, on)
      <3>1. f.id \in Ids
        BY DEF Frame
      <3>2. ASSUME f.op = "build", f.guard
            PROVE  runtimes'[Main][f.owner].life = "active"
        BY <2>4, <2>6, <3>2, MainIs DEF Knows, BuildKnows
      <3>3. ASSUME f.op = "build", f.at \in {"hook", "register", "start", "checkpoint"}
            PROVE  runtimes'[f.id][f.held].owner = runtimes[f.id][f.held].owner
        <4>1. f.reserved /\ f.held \in 1..MaxBuilds
          BY <2>6, <3>3 DEF Fine, BuildFine, Building, Knows, BuildKnows
        <4>2. f.id # top.id
          BY <1>3, <2>6, <4>1 DEF Clash
        <4> QED
          BY <2>3, <3>1, <4>2
      <3>4. ASSUME f.op = "close", f.at \in {"children", "join", "hook"}
            PROVE  runtimes'[f.id][f.held].life = "closing"
        BY <2>4, <2>6, <3>1, <3>4 DEF Knows, CloseKnows
      <3>5. f.op = "build" /\ f.why \notin {"resume", "spawn"} /\ f.id = Main =>
               NoKids(runtimes', disk')
        BY <1>5, <2>4, <2>6, MainIs DEF Knows, BuildKnows, NoKids
      <3> QED
        BY <1>0, <1>5, <2>5, <2>6, <3>2, <3>3, <3>4, <3>5, KnowsMoves
    <2>7. RegistryKnows(sessions', runtimes', built', disk', deleted')
      BY <1>0, <1>5, <2>4, <2>5, MainIs DEF RegistryKnows, Ids
    <2>8. PICK a \in {"hook", "register"} : a = IF top.why = "resume" THEN "hook" ELSE "register"
      OBVIOUS
    <2>9. PICK f : f = [top EXCEPT !.at = a]
      OBVIOUS
    <2>10. /\ f \in Frame /\ f.at = a /\ f.op = top.op /\ f.why = top.why /\ f.id = top.id
           /\ f.held = top.held /\ f.owner = top.owner /\ f.guard = top.guard
      BY <1>2, <2>9, AwaitsAre DEF Frame
    <2>11. BuildKnows(runtimes', disk', f)
      <3>1. NoKids(runtimes, disk) => NoKids(runtimes', disk')
        BY <1>5, <2>4, MainIs DEF NoKids
      <3> QED
        BY <1>2, <1>4, <2>2, <2>3, <2>4, <2>10, <3>1, MainIs DEF BuildKnows
    <2>12. Knows(sessions', runtimes', disk', f, {}) /\ Stands(top, f)
      BY <1>2, <2>10, <2>11, PlainKnows DEF Stands
    <2>13. stack[t] \in Seq(Frame) /\ stack[t] # <<>>
      BY <1>0, <1>2 DEF HostTypes, Busy
    <2>14. ASSUME BelowKnows(sessions', runtimes', disk', stack[t])
           PROVE  StackKnows(sessions', runtimes', disk', <<f>> \o Tail(stack[t]))
      BY <1>1, <2>10, <2>12, <2>13, <2>14, GotoKnows DEF Top
    <2>15. stack' = [stack EXCEPT ![t] = <<f>> \o Tail(stack[t])]
      BY <1>5, <2>8, <2>9 DEF Goto
    <2> QED
      BY <1>1, <1>2, <2>6, <2>7, <2>14, <2>15, MovedStep
  <1>6. CASE /\ Touch(top.id, top.held, Unused)
             /\ disk' = IF top.why = "spawn" THEN [disk EXCEPT ![top.id] = NoFile] ELSE disk
             /\ Unreserve(top) /\ Return(t, "error")
    <2>1. "error" \in Outcomes
      BY DEF Outcomes
    <2>2. /\ runtimes'[top.id][top.held] = Unused
          /\ \A h \in 1..MaxBuilds : h # top.held => runtimes'[top.id][h] = runtimes[top.id][h]
          /\ \A j \in Ids \ {top.id} : runtimes'[j] = runtimes[j]
      BY <1>0, <1>4, <1>6, GivenUp, TouchIs
    <2>3. /\ \A j \in Ids \ {top.id} : disk'[j].there = disk[j].there
          /\ disk'[top.id].there => disk[top.id].there
      <3>1. CASE top.why = "spawn"
        BY <1>0, <1>4, <1>6, <3>1, FilesAre, FileIs
      <3>2. CASE top.why # "spawn"
        BY <1>6, <3>2
      <3> QED
        BY <3>1, <3>2
    <2>4. Calm(sessions, runtimes, disk, sessions', runtimes', disk')
      <3>1. \A i \in Ids : sessions'[i] \in {sessions[i], 0}
        BY <1>0
      <3>2. \A c \in Children : disk'[c].there => disk[c].there
        BY <2>3, MainIs
      <3> QED
        BY <1>3, <2>2, <3>1, <3>2, GivenUp DEF Calm
    <2>5. RegistryKnows(sessions', runtimes', built', disk', deleted')
      <3>1. \A i \in Ids : \A g \in 1..MaxBuilds :
               runtimes'[i][g].life \in {runtimes[i][g].life, "closed"}
        BY <2>2, GivenUp
      <3>2. \A i \in Ids : disk'[i].there => disk[i].there
        BY <2>3
      <3>3. \A i \in Ids : sessions'[i] # 0 => disk'[i].there
        BY <1>0, <1>3, <2>3 DEF RegistryKnows
      <3>4. \A i \in Roots : \A g \in 1..MaxBuilds :
               runtimes'[i][g].life \in {"active", "closing"} => sessions'[i] = g
        BY <1>0, <2>2, GivenUp DEF RegistryKnows, Ids
      <3>5. deleted' \subseteq Ids
        BY <1>0 DEF HostTypes
      <3>6. disk[Main].there => disk'[Main].there
        <4>1. top.why = "spawn" => top.id # Main
          BY <1>2, HostAssumption DEF BuildKnows
        <4> QED
          BY <1>6, <2>3, <4>1, MainIs
      <3> QED
        BY <1>0, <2>4, <3>1, <3>2, <3>3, <3>4, <3>5, <3>6, LessRegistry
    <2> QED
      BY <1>1, <1>2, <1>6, <2>1, <2>4, <2>5, CalmReturns
  <1> QED
    BY <1>1, <1>5, <1>6 DEF BuildSession

LEMMA BeforeSwitchKeeps ==
    ASSUME HostInv, ClosingInv, NEW t \in Workers, BeforeSwitch(t)
    PROVE  ClosingInv'
  <1>1. PICK top : top = Top(t)
    OBVIOUS
  <1>2. /\ Busy(t) /\ top \in Frame /\ top.op = "build" /\ top.at = "hook" /\ Fine(t, top)
        /\ BuildKnows(runtimes, disk, top) /\ UNCHANGED <<sessions, built, disk, deleted>>
    BY <1>1, AtIs, TopKnows DEF BeforeSwitch, Knows
  <1>3. Building(top)
    BY <1>2 DEF Fine, BuildFine, Building
  <1>4. CASE Goto(t, [top EXCEPT !.at = "register"]) /\ UNCHANGED <<pending, runtimes, budget>>
    <2>1. PICK f : f = [top EXCEPT !.at = "register"]
      OBVIOUS
    <2>2. /\ f \in Frame /\ f.at = "register" /\ f.op = top.op /\ f.why = top.why /\ f.id = top.id
          /\ f.held = top.held /\ f.owner = top.owner /\ f.guard = top.guard
      BY <1>2, <2>1, AwaitsAre DEF Frame
    <2>3. BuildKnows(runtimes', disk', f)
      BY <1>2, <1>4, <2>2 DEF BuildKnows
    <2>4. Even
      BY <1>2, <1>4, UnchangedEven
    <2> QED
      BY <1>1, <1>2, <1>4, <2>1, <2>2, <2>3, <2>4, EvenBuilds
  <1>5. CASE Touch(top.id, top.held, Unused) /\ Unreserve(top) /\ Return(t, "error")
    <2>1. "error" \in Outcomes
      BY DEF Outcomes
    <2> QED
      BY <1>1, <1>2, <1>3, <1>5, <2>1, GivesUp
  <1> QED
    BY <1>1, <1>4, <1>5 DEF BeforeSwitch

LEMMA RegisterSessionKeeps ==
    ASSUME HostInv, ClosingInv, NEW t \in Workers, RegisterSession(t)
    PROVE  ClosingInv'
  <1>0. HostTypes /\ RegistryKnows(sessions, runtimes, built, disk, deleted)
    BY DEF HostInv, ClosingInv
  <1>1. PICK top : top = Top(t)
    OBVIOUS
  <1>2. /\ Busy(t) /\ top \in Frame /\ top.op = "build" /\ top.at = "register" /\ Fine(t, top)
        /\ BuildKnows(runtimes, disk, top)
    BY <1>1, AtIs, TopKnows DEF RegisterSession, Knows
  <1>3. /\ Building(top) /\ top.reserved /\ sessions[top.id] = 0 /\ disk[top.id].there
        /\ runtimes[top.id][top.held].life = "starting" /\ top.held # 0
    BY <1>2 DEF Fine, BuildFine, Building
  <1>4. top.id \in Ids /\ top.held \in 1..MaxBuilds
    BY <1>0, <1>2, <1>3, HeldIs
  <1>5. /\ sessions' = [sessions EXCEPT ![top.id] = top.held]
        /\ Goto(t, [top EXCEPT !.at = "start"])
        /\ UNCHANGED <<runtimes, built, disk, deleted>>
    BY <1>1, <1>3 DEF RegisterSession
  <1>6. sessions'[top.id] = top.held /\ \A j \in Ids \ {top.id} : sessions'[j] = sessions[j]
    BY <1>0, <1>4, <1>5 DEF HostTypes
  <1>7. ASSUME NEW c \in Children, NEW g, Live(sessions', runtimes', c, g)
        PROVE  Live(sessions, runtimes, c, g) /\ sessions'[c] = sessions[c]
    <2>1. c # top.id /\ c \in Ids
      BY <1>3, <1>5, <1>6, <1>7, MainIs DEF Live
    <2> QED
      BY <1>5, <1>6, <1>7, <2>1 DEF Live
  <1>8. ASSUME NEW u \in Workers, NEW f \in Frame, Fine(u, f), ~Clash(top, f), NEW on,
               Knows(sessions, runtimes, disk, f, on)
        PROVE  Knows(sessions', runtimes', disk', f, on)
    <2>1. f.id \in Ids
      BY DEF Frame
    <2>2. ASSUME f.op = "build", f.guard
          PROVE  runtimes'[Main][f.owner].life = "active"
      BY <1>5, <1>8, <2>2 DEF Knows, BuildKnows
    <2>3. ASSUME f.op = "close", f.at \in {"children", "join", "hook"}
          PROVE  runtimes'[f.id][f.held].life = "closing"
      BY <1>5, <1>8, <2>3 DEF Knows, CloseKnows
    <2>4. ASSUME f.op = "delete", sessions[f.id] = 0
          PROVE  sessions'[f.id] = 0
      <3>1. f.reserved
        BY <1>8, <2>4 DEF Fine, OtherFine
      <3>2. f.id # top.id
        BY <1>3, <1>8, <3>1 DEF Clash
      <3> QED
        BY <1>6, <2>1, <2>4, <3>2
    <2>5. /\ runtimes'[f.id][f.held].owner = runtimes[f.id][f.held].owner
          /\ \A c \in Children : disk'[c].there => disk[c].there
      BY <1>5
    <2>6. f.op = "build" /\ f.why \notin {"resume", "spawn"} /\ f.id = Main =>
             NoKids(runtimes', disk')
      BY <1>5, <1>8 DEF Knows, BuildKnows
    <2> QED
      BY <1>7, <1>8, <2>2, <2>3, <2>4, <2>5, <2>6, KnowsMoves
  <1>9. RegistryKnows(sessions', runtimes', built', disk', deleted')
    <2>1. \A i \in Ids : sessions'[i] # 0 => disk'[i].there
      BY <1>0, <1>3, <1>5, <1>6 DEF RegistryKnows
    <2>2. \A i \in Roots : \A g \in 1..MaxBuilds :
             runtimes'[i][g].life \in {"active", "closing"} => sessions'[i] = g
      <3>1. ASSUME NEW i \in Roots, NEW g \in 1..MaxBuilds,
                   runtimes'[i][g].life \in {"active", "closing"}
            PROVE  sessions'[i] = g
        <4>1. sessions[i] = g /\ g # 0 /\ i \in Ids
          BY <1>0, <1>5, <3>1, HostAssumption DEF RegistryKnows, Ids
        <4> QED
          BY <1>3, <1>6, <4>1
      <3> QED
        BY <3>1
    <2> QED
      BY <1>0, <1>5, <1>7, <2>1, <2>2 DEF RegistryKnows
  <1>10. PICK f : f = [top EXCEPT !.at = "start"]
    OBVIOUS
  <1>11. /\ f \in Frame /\ f.at = "start" /\ f.op = top.op /\ f.why = top.why /\ f.id = top.id
         /\ f.held = top.held /\ f.owner = top.owner /\ f.guard = top.guard
    BY <1>2, <1>10, AwaitsAre DEF Frame
  <1>12. BuildKnows(runtimes', disk', f)
    BY <1>2, <1>5, <1>11 DEF BuildKnows
  <1>13. Knows(sessions', runtimes', disk', f, {}) /\ Stands(top, f)
    BY <1>2, <1>11, <1>12, PlainKnows DEF Stands
  <1>14. stack[t] \in Seq(Frame) /\ stack[t] # <<>>
    BY <1>0, <1>2 DEF HostTypes, Busy
  <1>15. ASSUME BelowKnows(sessions', runtimes', disk', stack[t])
         PROVE  StackKnows(sessions', runtimes', disk', <<f>> \o Tail(stack[t]))
    BY <1>1, <1>11, <1>13, <1>14, <1>15, GotoKnows DEF Top
  <1>16. stack' = [stack EXCEPT ![t] = <<f>> \o Tail(stack[t])]
    BY <1>5, <1>10 DEF Goto
  <1> QED
    BY <1>1, <1>2, <1>8, <1>9, <1>15, <1>16, MovedStep

LEMMA RollbackKeeps ==
    ASSUME HostInv, ClosingInv, NEW t \in Workers, Busy(t), NEW top, top = Top(t),
           top.op = "build", top.at \in {"start", "checkpoint", "name"}, Rollback(t, top),
           UNCHANGED <<runtimes, built, deleted>>
    PROVE  ClosingInv'
  <1>0. HostTypes /\ RegistryKnows(sessions, runtimes, built, disk, deleted)
    BY DEF HostInv, ClosingInv
  <1>1. /\ top \in Frame /\ top.id \in Ids /\ top.held \in 1..MaxBuilds
        /\ top.at = "name" => top.why = "spawn"
        /\ top.at # "name" => /\ sessions[top.id] = top.held
                              /\ runtimes[top.id][top.held].life = "starting"
    BY RegisteredCall
  <1>2. top.why = "spawn" => top.id \in Children
    BY TopKnows DEF Knows, BuildKnows
  <1>3. sessions'[top.id] = 0 /\ \A j \in Ids \ {top.id} : sessions'[j] = sessions[j]
    <2>1. sessions' = [sessions EXCEPT ![top.id] = 0]
      BY DEF Rollback
    <2> QED
      BY <1>0, <1>1, <2>1 DEF HostTypes
  <1>4. /\ \A j \in Ids \ {top.id} : disk'[j].there = disk[j].there
        /\ disk'[top.id].there => disk[top.id].there
    <2>1. CASE top.why = "resume"
      BY <2>1 DEF Rollback
    <2>2. CASE top.why # "resume"
      <3>1. disk' = [disk EXCEPT ![top.id] = NoFile]
        BY <2>2 DEF Rollback
      <3> QED
        BY <1>0, <1>1, <3>1, FilesAre, FileIs
    <2> QED
      BY <2>1, <2>2
  <1>5. Calm(sessions, runtimes, disk, sessions', runtimes', disk')
    <2>1. \A i \in Ids : sessions'[i] \in {sessions[i], 0}
      BY <1>3
    <2>2. \A c \in Children : disk'[c].there => disk[c].there
      BY <1>4, MainIs
    <2> QED
      BY <2>1, <2>2 DEF Calm
  <1>6. RegistryKnows(sessions', runtimes', built', disk', deleted')
    <2>1. \A i \in Ids : disk'[i].there => disk[i].there
      BY <1>4
    <2>2. \A i \in Ids : sessions'[i] # 0 => disk'[i].there
      BY <1>0, <1>3, <1>4 DEF RegistryKnows
    <2>3. \A i \in Roots : \A g \in 1..MaxBuilds :
             runtimes'[i][g].life \in {"active", "closing"} => sessions'[i] = g
      <3>1. ASSUME NEW i \in Roots, NEW g \in 1..MaxBuilds,
                   runtimes[i][g].life \in {"active", "closing"}
            PROVE  sessions'[i] = g
        <4>1. sessions[i] = g /\ i \in Ids
          BY <1>0, <3>1 DEF RegistryKnows, Ids
        <4>2. i # top.id
          <5>1. CASE top.at = "name"
            BY <1>1, <1>2, <5>1, HostAssumption
          <5>2. CASE top.at # "name"
            BY <1>1, <3>1, <4>1, <5>2
          <5> QED
            BY <5>1, <5>2
        <4> QED
          BY <1>3, <4>1, <4>2
      <3> QED
        BY <3>1
    <2>4. deleted' \subseteq Ids
      BY <1>0 DEF HostTypes
    <2>5. disk[Main].there /\ ~disk'[Main].there => \A c \in Children : ~disk'[c].there
      <3>1. ASSUME disk[Main].there, ~disk'[Main].there
            PROVE  \A c \in Children : ~disk'[c].there
        <4>1. top.id = Main /\ top.why # "resume"
          BY <1>4, <3>1, MainIs DEF Rollback
        <4>2. top.why \notin {"resume", "spawn"}
          BY <1>1, <1>2, <4>1, HostAssumption DEF Frame
        <4>3. NoKids(runtimes, disk)
          BY <4>1, <4>2, TopKnows DEF Knows, BuildKnows
        <4> QED
          BY <1>5, <4>3, CalmNoKids DEF NoKids
      <3> QED
        BY <3>1
    <2> QED
      BY <1>0, <1>5, <2>1, <2>2, <2>3, <2>4, <2>5, LessRegistry
  <1>7. Return(t, "error") /\ "error" \in Outcomes
    BY DEF Rollback, Outcomes
  <1> QED
    BY <1>5, <1>6, <1>7, CalmReturns

LEMMA StartExtensionsKeeps ==
    ASSUME HostInv, ClosingInv, NEW t \in Workers, StartExtensions(t)
    PROVE  ClosingInv'
  <1>1. PICK top : top = Top(t)
    OBVIOUS
  <1>2. /\ Busy(t) /\ top \in Frame /\ top.op = "build" /\ top.at = "start"
        /\ BuildKnows(runtimes, disk, top) /\ UNCHANGED <<runtimes, built, deleted>>
    BY <1>1, AtIs, TopKnows DEF StartExtensions, Knows
  <1>3. CASE Goto(t, [top EXCEPT !.at = "checkpoint"]) /\ UNCHANGED <<sessions, pending, disk, budget>>
    <2>1. PICK f : f = [top EXCEPT !.at = "checkpoint"]
      OBVIOUS
    <2>2. /\ f \in Frame /\ f.at = "checkpoint" /\ f.op = top.op /\ f.why = top.why /\ f.id = top.id
          /\ f.held = top.held /\ f.owner = top.owner /\ f.guard = top.guard
      BY <1>2, <2>1, AwaitsAre DEF Frame
    <2>3. BuildKnows(runtimes', disk', f)
      BY <1>2, <1>3, <2>2 DEF BuildKnows
    <2>4. Even
      BY <1>2, <1>3, UnchangedEven
    <2> QED
      BY <1>1, <1>2, <1>3, <2>1, <2>2, <2>3, <2>4, EvenBuilds
  <1>4. CASE Rollback(t, top)
    BY <1>1, <1>2, <1>4, RollbackKeeps
  <1> QED
    BY <1>1, <1>3, <1>4 DEF StartExtensions

LEMMA CheckpointStartedKeeps ==
    ASSUME HostInv, ClosingInv, NEW t \in Workers, CheckpointStarted(t)
    PROVE  ClosingInv'
  <1>0. HostTypes /\ RegistryKnows(sessions, runtimes, built, disk, deleted)
    BY DEF HostInv, ClosingInv
  <1>1. PICK top : top = Top(t)
    OBVIOUS
  <1>2. /\ Busy(t) /\ top \in Frame /\ top.op = "build" /\ top.at = "checkpoint"
        /\ BuildKnows(runtimes, disk, top) /\ UNCHANGED <<built, deleted>>
    BY <1>1, AtIs, TopKnows DEF CheckpointStarted, Knows
  <1>3. CASE Rollback(t, top) /\ UNCHANGED runtimes
    BY <1>1, <1>2, <1>3, RollbackKeeps
  <1>4. CASE /\ Touch(top.id, top.held, [Now(t) EXCEPT !.life = "active"])
             /\ IF top.why = "spawn" THEN Goto(t, [top EXCEPT !.at = "name"]) /\ UNCHANGED pending
                ELSE Return(t, "ok") /\ Unreserve(top)
             /\ UNCHANGED <<sessions, disk, budget>>
    <2>1. /\ top.id \in Ids /\ top.held \in 1..MaxBuilds /\ top.held <= built[top.id]
          /\ runtimes[top.id][top.held] \in Runtime /\ built[top.id] \in Nat
          /\ sessions[top.id] = top.held /\ runtimes[top.id][top.held].life = "starting"
      BY <1>1, <1>2, RegisteredCall
    <2>2. PICK q : q = runtimes[top.id][top.held]
      OBVIOUS
    <2>3. PICK r : r = [q EXCEPT !.life = "active"]
      OBVIOUS
    <2>4. r \in Runtime /\ r.life = "active" /\ r.owner = q.owner
      BY <2>1, <2>2, <2>3 DEF Runtime, Lifecycle
    <2>5. /\ runtimes'[top.id][top.held] = r
          /\ \A h \in 1..MaxBuilds : h # top.held => runtimes'[top.id][h] = runtimes[top.id][h]
          /\ \A j \in Ids \ {top.id} : runtimes'[j] = runtimes[j]
      <3>1. Touch(top.id, top.held, r)
        BY <1>1, <1>4, <2>2, <2>3 DEF Now
      <3> QED
        BY <1>0, <2>1, <2>4, <3>1, TouchIs
    <2>6. q.owner \in {top.owner, 0} /\ (top.owner # 0 => top.guard)
          /\ (top.guard => top.owner \in 1..MaxBuilds /\ runtimes[Main][top.owner].life = "active")
      BY <1>2, <2>2 DEF BuildKnows
    <2>7. \A i \in Ids : \A g \in 1..MaxBuilds :
             /\ runtimes'[i][g].owner = runtimes[i][g].owner
             /\ runtimes[i][g].life # "starting" => runtimes'[i][g].life = runtimes[i][g].life
      BY <2>1, <2>2, <2>4, <2>5
    <2>8. ASSUME NEW c \in Children, NEW g, Live(sessions', runtimes', c, g)
          PROVE  \/ Live(sessions, runtimes, c, g)
                 \/ g = 0
                 \/ g \in 1..MaxBuilds /\ runtimes[Main][g].life = "active"
      <3>1. c \in Ids /\ sessions'[c] = sessions[c]
        BY <1>4, MainIs
      <3>2. CASE c = top.id
        <4>1. g = q.owner
          BY <2>1, <2>4, <2>5, <2>8, <3>1, <3>2 DEF Live
        <4> QED
          BY <2>6, <4>1
      <3>3. CASE c # top.id
        BY <2>5, <2>8, <3>1, <3>3 DEF Live
      <3> QED
        BY <3>2, <3>3
    <2>9. ASSUME NEW u \in Workers, NEW f \in Frame, Fine(u, f), ~Clash(top, f), NEW on,
                 Knows(sessions, runtimes, disk, f, on)
          PROVE  Knows(sessions', runtimes', disk', f, on)
      <3>1. f.id \in Ids
        BY DEF Frame
      <3>2. ASSUME f.op = "build", f.guard
            PROVE  runtimes'[Main][f.owner].life = "active"
        BY <2>7, <2>9, <3>2, MainIs DEF Knows, BuildKnows
      <3>3. ASSUME f.op = "build", f.at \in {"hook", "register", "start", "checkpoint"}
            PROVE  runtimes'[f.id][f.held].owner = runtimes[f.id][f.held].owner
        BY <2>7, <2>9, <3>1, <3>3 DEF Knows, BuildKnows
      <3>4. ASSUME f.op = "close", f.at \in {"children", "join", "hook"}
            PROVE  /\ runtimes'[f.id][f.held].life = "closing"
                   /\ f.held # 0 /\ runtimes[f.id][f.held].life = "closing"
        <4>1. f.held \in 1..MaxBuilds /\ runtimes[f.id][f.held].life = "closing"
          BY <2>9, <3>4 DEF Knows, CloseKnows
        <4>2. f.held # 0
          BY <4>1, HostAssumption
        <4> QED
          BY <2>7, <3>1, <4>1, <4>2
      <3>5. \A c \in Children : /\ sessions'[c] = sessions[c]
                                /\ disk'[c].there => disk[c].there
        BY <1>4
      <3>6. f.op = "delete" /\ sessions[f.id] = 0 => sessions'[f.id] = 0
        BY <1>4
      <3>7. f.op = "close" /\ f.at \in {"children", "join", "hook"} /\ f.id = Main =>
               \A c \in Children : Live(sessions', runtimes', c, f.held) =>
                   Live(sessions, runtimes, c, f.held)
        BY <2>8, <3>4
      <3>8. ASSUME f.op = "build", f.why \notin {"resume", "spawn"}, f.id = Main
            PROVE  NoKids(runtimes', disk')
        <4>1. BuildKnows(runtimes, disk, f) /\ NoKids(runtimes, disk) /\ BuildFine(f)
          BY <2>9, <3>8 DEF Knows, BuildKnows, Fine
        <4>2. top.id # Main
          <5>1. ASSUME top.id = Main
                PROVE  FALSE
            <6>1. f.at \in {"fork", "build", "hook", "register", "start", "checkpoint"}
              BY <3>8, <4>1 DEF BuildKnows, BuildFine
            <6>2. CASE f.at = "fork"
              <7>1. ~Seen(Main)
                BY <3>8, <4>1, <6>2 DEF BuildFine, Unborn
              <7>2. built[Main] > 0
                BY <2>1, <5>1
              <7> QED
                BY <7>1, <7>2 DEF Seen
            <6>3. CASE f.at # "fork"
              <7>1. f.reserved
                BY <3>8, <4>1, <6>1, <6>3 DEF BuildFine, Building
              <7>2. top.reserved
                BY <1>1, <1>2, TopIs DEF HostInv, Fine, BuildFine
              <7> QED
                BY <2>9, <3>8, <5>1, <7>1, <7>2 DEF Clash
            <6> QED
              BY <6>2, <6>3
          <5> QED
            BY <5>1
        <4>3. runtimes'[Main] = runtimes[Main] /\ disk' = disk
          BY <1>4, <2>5, <4>2, MainIs
        <4> QED
          BY <4>1, <4>3 DEF NoKids
      <3> QED
        BY <2>9, <3>2, <3>3, <3>4, <3>5, <3>6, <3>7, <3>8, KnowsMoves
    <2>10. RegistryKnows(sessions', runtimes', built', disk', deleted')
      <3>1. \A i \in Ids : sessions'[i] # 0 => disk'[i].there
        BY <1>0, <1>4 DEF RegistryKnows
      <3>2. \A i \in Roots : \A g \in 1..MaxBuilds :
               runtimes'[i][g].life \in {"active", "closing"} => sessions'[i] = g
        <4>1. ASSUME NEW i \in Roots, NEW g \in 1..MaxBuilds,
                     runtimes'[i][g].life \in {"active", "closing"}
              PROVE  sessions'[i] = g
          <5>1. i \in Ids
            BY DEF Ids
          <5>2. CASE i = top.id /\ g = top.held
            BY <1>4, <2>1, <5>2
          <5>3. CASE ~(i = top.id /\ g = top.held)
            BY <1>0, <1>4, <2>5, <4>1, <5>1, <5>3 DEF RegistryKnows
          <5> QED
            BY <5>2, <5>3
        <4> QED
          BY <4>1
      <3>3. \A i \in Ids : \A g \in 1..MaxBuilds :
               g > built'[i] => runtimes'[i][g].life = "closed"
        <4>1. ASSUME NEW i \in Ids, NEW g \in 1..MaxBuilds, g > built[i]
              PROVE  runtimes'[i][g].life = "closed"
          <5>1. runtimes[i][g].life = "closed"
            BY <1>0, <4>1 DEF RegistryKnows
          <5> QED
            BY <2>7, <5>1
        <4> QED
          BY <1>2, <4>1
      <3>4. ASSUME NEW c \in Children, NEW g \in Nat, g # 0, Live(sessions', runtimes', c, g)
            PROVE  g \in 1..MaxBuilds /\ runtimes'[Main][g].life \in {"active", "closing"}
        <4>1. g \in 1..MaxBuilds /\ runtimes[Main][g].life \in {"active", "closing"}
          BY <1>0, <2>8, <3>4 DEF RegistryKnows
        <4> QED
          BY <2>7, <4>1, MainIs
      <3>5. \A i \in deleted' : \A k \in {i} \cup Owned(i) : ~disk'[k].there
        BY <1>0, <1>2, <1>4 DEF RegistryKnows
      <3>6. built'[Main] > 0 /\ ~disk'[Main].there => \A c \in Children : ~disk'[c].there
        BY <1>0, <1>2, <1>4 DEF RegistryKnows
      <3> QED
        BY <3>1, <3>2, <3>3, <3>4, <3>5, <3>6 DEF RegistryKnows
    <2>11. stack[t] \in Seq(Frame) /\ stack[t] # <<>>
      BY <1>0, <1>2 DEF HostTypes, Busy
    <2>12. CASE top.why = "spawn"
      <3>1. PICK f : f = [top EXCEPT !.at = "name"]
        OBVIOUS
      <3>2. /\ f \in Frame /\ f.at = "name" /\ f.op = top.op /\ f.why = top.why /\ f.id = top.id
            /\ f.held = top.held /\ f.owner = top.owner /\ f.guard = top.guard
        BY <1>2, <3>1, AwaitsAre DEF Frame
      <3>3. top.guard => runtimes'[Main][top.owner].life = "active"
        BY <2>6, <2>7, MainIs
      <3>4. BuildKnows(runtimes', disk', f)
        BY <1>2, <2>12, <3>2, <3>3 DEF BuildKnows
      <3>5. Knows(sessions', runtimes', disk', f, {}) /\ Stands(top, f)
        BY <1>2, <3>2, <3>4, PlainKnows DEF Stands
      <3>6. ASSUME BelowKnows(sessions', runtimes', disk', stack[t])
            PROVE  StackKnows(sessions', runtimes', disk', <<f>> \o Tail(stack[t]))
        BY <1>1, <2>11, <3>2, <3>5, <3>6, GotoKnows DEF Top
      <3>7. stack' = [stack EXCEPT ![t] = <<f>> \o Tail(stack[t])]
        BY <1>4, <2>12, <3>1 DEF Goto
      <3> QED
        BY <1>1, <1>2, <2>9, <2>10, <3>6, <3>7, MovedStep
    <2>13. CASE top.why # "spawn"
      <3>1. "ok" \in Outcomes /\ 0 \in Nat
        BY DEF Outcomes
      <3>2. ASSUME BelowKnows(sessions', runtimes', disk', stack[t])
            PROVE  StackKnows(sessions', runtimes', disk', After(stack[t], "ok", 0))
        BY <1>1, <1>2, <2>11, <3>1, <3>2, PlainReturns DEF Top
      <3>3. stack' = [stack EXCEPT ![t] = After(stack[t], "ok", 0)]
        BY <1>4, <2>13 DEF Return
      <3> QED
        BY <1>1, <1>2, <2>9, <2>10, <3>2, <3>3, MovedStep
    <2> QED
      BY <2>12, <2>13
  <1> QED
    BY <1>1, <1>3, <1>4 DEF CheckpointStarted

LEMMA NameChildKeeps ==
    ASSUME HostInv, ClosingInv, NEW t \in Workers, NameChild(t)
    PROVE  ClosingInv'
  <1>0. HostTypes
    BY DEF HostInv
  <1>1. PICK top : top = Top(t)
    OBVIOUS
  <1>2. /\ Busy(t) /\ top \in Frame /\ top.op = "build" /\ top.at = "name"
        /\ UNCHANGED <<built, deleted>>
    BY <1>1, AtIs DEF NameChild
  <1>3. CASE Rollback(t, top) /\ UNCHANGED runtimes
    BY <1>1, <1>2, <1>3, RollbackKeeps
  <1>4. CASE /\ Touch(top.id, top.held, [Now(t) EXCEPT !.title = TRUE])
             /\ disk' = [disk EXCEPT ![top.id].title = TRUE]
             /\ Return(t, "ok") /\ UNCHANGED sessions
    <2>1. top.id \in Ids /\ top.held \in 1..MaxBuilds /\ runtimes[top.id][top.held] \in Runtime
      BY <1>1, <1>2, RegisteredCall
    <2>2. PICK q : q = runtimes[top.id][top.held]
      OBVIOUS
    <2>3. PICK r : r = [q EXCEPT !.title = TRUE]
      OBVIOUS
    <2>4. r \in Runtime /\ r.life = q.life /\ r.owner = q.owner
      BY <2>1, <2>2, <2>3 DEF Runtime
    <2>5. Touch(top.id, top.held, r) /\ "ok" \in Outcomes
      BY <1>1, <1>4, <2>2, <2>3 DEF Now, Outcomes
    <2>6. \A j \in Ids : disk'[j].there = disk[j].there
      BY <1>0, <1>4, <2>1, TitleWritten
    <2>7. Even
      BY <1>0, <1>2, <1>4, <2>1, <2>2, <2>4, <2>5, <2>6, WrittenEven
    <2> QED
      BY <1>1, <1>2, <1>4, <2>5, <2>7, EvenReturns
  <1> QED
    BY <1>1, <1>3, <1>4 DEF NameChild

(***************************************************************************)
(* Closing.                                                                *)
(***************************************************************************)
LEMMA PushBelow ==
    ASSUME NEW ses, NEW run, NEW files, NEW x \in Seq(Frame), NEW g \in Frame,
           BelowKnows(ses, run, files, x), x # <<>> => Knows(ses, run, files, Head(x), {g})
    PROVE  BelowKnows(ses, run, files, <<g>> \o x)
  <1>1. PICK y : y = <<g>> \o x
    OBVIOUS
  <1>2. /\ y \in Seq(Frame) /\ Len(y) = Len(x) + 1 /\ y[1] = g /\ Len(x) \in Nat
        /\ \A k \in 1..Len(x) : y[k + 1] = x[k]
    BY <1>1
  <1>3. \A k \in 1..Len(y) : k # 1 => On(y, k) = {y[k - 1]}
    BY <1>2, OnIs
  <1>4. \A k \in 1..Len(x) : k # 1 => On(x, k) = {x[k - 1]}
    BY OnIs
  <1>5. ASSUME NEW k \in 1..Len(y), k # 1
        PROVE  Knows(ses, run, files, y[k], On(y, k))
    <2>1. CASE k = 2
      <3>1. x # <<>> /\ Head(x) = x[1] /\ 1 \in 1..Len(x) /\ k = 1 + 1 /\ k - 1 = 1
        BY <1>2, <2>1
      <3>2. y[k] = Head(x) /\ On(y, k) = {g}
        BY <1>2, <1>3, <1>5, <3>1
      <3> QED
        BY <3>1, <3>2
    <2>2. CASE k # 2
      <3>1. /\ k - 1 \in 1..Len(x) /\ k - 1 # 1 /\ (k - 1) + 1 = k /\ (k - 1) - 1 \in 1..Len(x)
            /\ ((k - 1) - 1) + 1 = k - 1
        BY <1>2, <1>5, <2>2
      <3>2. y[k] = x[k - 1] /\ y[k - 1] = x[(k - 1) - 1]
        BY <1>2, <3>1
      <3>3. On(y, k) = On(x, k - 1)
        BY <1>3, <1>4, <1>5, <3>1, <3>2
      <3>4. Knows(ses, run, files, x[k - 1], On(x, k - 1))
        BY <3>1 DEF BelowKnows
      <3> QED
        BY <3>2, <3>3, <3>4
    <2> QED
      BY <2>1, <2>2
  <1> QED
    BY <1>1, <1>5 DEF BelowKnows

LEMMA BelowGoes ==
    ASSUME NEW ses, NEW run, NEW files, NEW s \in Seq(Frame), s # <<>>, NEW g \in Frame,
           BelowKnows(ses, run, files, s), Stands(Head(s), g)
    PROVE  BelowKnows(ses, run, files, <<g>> \o Tail(s))
  <1> DEFINE x == <<g>> \o Tail(s)
  <1>1. /\ x \in Seq(Frame) /\ Len(x) = Len(s) /\ x[1] = g /\ Len(s) \in Nat \ {0}
        /\ \A k \in 1..Len(s) : k # 1 => x[k] = s[k]
    OBVIOUS
  <1>2. Head(s) = s[1]
    OBVIOUS
  <1> HIDE DEF x
  <1>3. \A k \in 1..Len(x) : k # 1 => On(x, k) = {x[k - 1]}
    BY <1>1, OnIs
  <1>4. \A k \in 1..Len(s) : k # 1 => On(s, k) = {s[k - 1]}
    BY OnIs
  <1>5. ASSUME NEW k \in 1..Len(x), k # 1
        PROVE  Knows(ses, run, files, x[k], On(x, k))
    <2>1. k \in 1..Len(s) /\ x[k] = s[k] /\ Knows(ses, run, files, s[k], On(s, k))
      BY <1>1, <1>5 DEF BelowKnows
    <2>2. CASE k = 2
      <3>1. On(s, k) = {s[1]} /\ On(x, k) = {g}
        <4>1. k - 1 = 1
          BY <2>2
        <4> QED
          BY <1>1, <1>3, <1>4, <1>5, <2>1, <4>1
      <3> QED
        BY <1>2, <2>1, <3>1, StandsKeeps
    <2>3. CASE k # 2
      <3>1. k - 1 \in 1..Len(s) /\ k - 1 # 1
        BY <1>1, <1>5, <2>1, <2>3
      <3>2. On(x, k) = On(s, k)
        BY <1>1, <1>3, <1>4, <1>5, <2>1, <3>1
      <3> QED
        BY <2>1, <3>2
    <2> QED
      BY <2>2, <2>3
  <1> QED
    BY <1>5 DEF BelowKnows, x

LEMMA TopBelow ==
    ASSUME NEW ses, NEW run, NEW files, NEW x \in Seq(Frame), x # <<>>,
           BelowKnows(ses, run, files, x), Knows(ses, run, files, Head(x), {})
    PROVE  StackKnows(ses, run, files, x)
  <1>1. Head(x) = x[1] /\ On(x, 1) = {}
    BY OnIs
  <1> QED
    BY <1>1 DEF BelowKnows, StackKnows

\* A call that was made and returns at once.
LEMMA PushBack ==
    ASSUME NEW x \in Seq(Frame), x # <<>>, NEW g \in Frame, NEW r \in Outcomes, NEW n \in Nat
    PROVE  After(<<g>> \o x, r, n) = <<Told(Head(x), r, n)>> \o Tail(x)
  <1>1. PICK y : y = <<g>> \o x
    OBVIOUS
  <1>2. /\ y \in Seq(Frame) /\ Len(y) = Len(x) + 1 /\ Len(x) \in Nat \ {0}
        /\ \A k \in 1..Len(x) : y[k + 1] = x[k]
    BY <1>1
  <1>3. y[2] = Head(x) /\ Len(y) # 1
    <2>1. 1 \in 1..Len(x) /\ 1 + 1 = 2 /\ Head(x) = x[1]
      BY <1>2
    <2> QED
      BY <1>2, <2>1
  <1>4. SubSeq(y, 3, Len(y)) = Tail(x)
    <2>1. PICK z : z = SubSeq(y, 3, Len(y))
      OBVIOUS
    <2>2. 3 \in Int /\ Len(y) \in Int /\ \A i \in 3..Len(y) : y[i] \in Frame
      BY <1>2, ElementOfSeq
    <2>3. /\ z \in Seq(Frame) /\ Len(z) = IF 3 <= Len(y) THEN Len(y) - 3 + 1 ELSE 0
          /\ \A i \in 1..(Len(y) - 3 + 1) : z[i] = y[3 + i - 1]
      BY <2>1, <2>2, SubSeqProperties
    <2>4. Len(z) = Len(x) - 1
      <3>1. \A m \in Nat \ {0} : (IF 3 <= m + 1 THEN (m + 1) - 3 + 1 ELSE 0) = m - 1
        OBVIOUS
      <3>2. Len(z) = IF 3 <= Len(x) + 1 THEN (Len(x) + 1) - 3 + 1 ELSE 0
        BY <1>2, <2>3
      <3> QED
        BY <1>2, <3>1, <3>2
    <2>5. /\ Tail(x) \in Seq(Frame) /\ Len(Tail(x)) = Len(x) - 1
          /\ \A i \in 1..(Len(x) - 1) : Tail(x)[i] = x[i + 1]
      OBVIOUS
    <2>6. ASSUME NEW i \in 1..(Len(x) - 1)
          PROVE  z[i] = Tail(x)[i]
      <3>1. /\ i \in 1..(Len(y) - 3 + 1) /\ 3 + i - 1 = (i + 1) + 1 /\ i + 1 \in 1..Len(x)
        BY <1>2
      <3>2. z[i] = y[(i + 1) + 1] /\ y[(i + 1) + 1] = x[i + 1]
        BY <1>2, <2>3, <3>1
      <3> QED
        BY <2>5, <3>2
    <2>7. z = Tail(x)
      BY <2>3, <2>4, <2>5, <2>6, SeqEqual
    <2> QED
      BY <2>1, <2>7
  <1> QED
    BY <1>1, <1>3, <1>4 DEF After, Told

\* Closing is refused, or the runtime is told to stop.
LEMMA CloseEven ==
    ASSUME HostTypes, NEW t, NEW i \in Ids, NEW rest, Close(t, i, rest),
           UNCHANGED <<sessions, built, disk, deleted>>
    PROVE  Even
  <1>1. CASE SessionOf(i) # "ok"
    BY <1>1, UnchangedEven DEF Close
  <1>2. CASE SessionOf(i) = "ok"
    <2>1. sessions[i] \in 1..MaxBuilds /\ runtimes[i][sessions[i]] \in Runtime
      BY <1>2, LiveIs
    <2>2. PICK q : q = runtimes[i][sessions[i]]
      OBVIOUS
    <2>3. PICK r : r = [q EXCEPT !.shutdown = TRUE, !.closeRequested = TRUE, !.cancelled = TRUE]
      OBVIOUS
    <2>4. r \in Runtime /\ r.life = q.life /\ r.owner = q.owner
      BY <2>1, <2>2, <2>3 DEF Runtime
    <2>5. Touch(i, sessions[i], r)
      BY <1>2, <2>2, <2>3 DEF Close
    <2> QED
      BY <2>1, <2>2, <2>4, <2>5, TouchEven
  <1> QED
    BY <1>1, <1>2

\* A close of i that is called by the innermost of the calls rest, or from outside.
LEMMA CloseKeeps ==
    ASSUME HostInv, ClosingInv, NEW t \in Workers, NEW i \in Ids, NEW rest \in Seq(Frame),
           Close(t, i, rest), UNCHANGED <<sessions, built, disk, deleted>>,
           BelowKnows(sessions, runtimes, disk, rest),
           rest # <<>> /\ SessionOf(i) # "ok" =>
               Knows(sessions, runtimes, disk, Told(Head(rest), SessionOf(i), 0), {}),
           rest # <<>> /\ SessionOf(i) = "ok" =>
               \A g \in Frame : g.op = "close" /\ g.id = i /\ g.held = sessions[i] =>
                   Knows(sessions, runtimes, disk, Head(rest), {g})
    PROVE  ClosingInv'
  <1>0. HostTypes /\ Even
    BY CloseEven DEF HostInv
  <1>1. ASSUME NEW x \in Seq(Frame), StackKnows(sessions, runtimes, disk, x),
               stack' = [stack EXCEPT ![t] = x]
        PROVE  ClosingInv'
    <2>1. StackKnows(sessions', runtimes', disk', x)
      BY <1>0, <1>1, EvenCalm, CalmStack DEF HostTypes
    <2> QED
      BY <1>0, <1>1, <2>1, EvenTop
  <1>2. CASE SessionOf(i) # "ok"
    <2>1. PICK c : c = Call("close", "none", "gate", i)
      OBVIOUS
    <2>2. c \in Frame
      BY <2>1, AwaitsAre DEF Call, Frame, Outcomes
    <2>3. SessionOf(i) \in Outcomes /\ 0 \in Nat
      BY <1>0, OutcomesAre
    <2>4. CASE rest = <<>>
      <3>1. stack' = [stack EXCEPT ![t] = <<>>] /\ <<>> \in Seq(Frame)
        BY <1>2, <2>4 DEF Close
      <3>2. StackKnows(sessions, runtimes, disk, <<>>)
        BY DEF StackKnows
      <3> QED
        BY <1>1, <3>1, <3>2
    <2>5. CASE rest # <<>>
      <3>1. stack' = [stack EXCEPT ![t] = After(<<c>> \o rest, SessionOf(i), 0)]
        BY <1>2, <2>1, <2>5 DEF Close
      <3>2. PICK h : h = Told(Head(rest), SessionOf(i), 0)
        OBVIOUS
      <3>3. Head(rest) \in Frame /\ Tail(rest) \in Seq(Frame)
        BY <2>5
      <3>4. h \in Frame /\ Stands(Head(rest), h)
        BY <2>3, <3>2, <3>3 DEF Told, Frame, Stands
      <3>5. After(<<c>> \o rest, SessionOf(i), 0) = <<h>> \o Tail(rest)
        BY <2>2, <2>3, <2>5, <3>2, PushBack
      <3>6. <<h>> \o Tail(rest) \in Seq(Frame)
        BY <3>3, <3>4
      <3>7. StackKnows(sessions, runtimes, disk, <<h>> \o Tail(rest))
        BY <1>2, <2>5, <3>2, <3>4, GotoKnows
      <3> QED
        BY <1>1, <3>1, <3>5, <3>6, <3>7
    <2> QED
      BY <2>4, <2>5
  <1>3. CASE SessionOf(i) = "ok"
    <2>1. PICK n \in Nat : n = sessions[i]
      BY <1>0, <1>3, LiveIs, HostAssumption
    <2>2. PICK g : g = [Call("close", "none", "gate", i) EXCEPT !.held = n]
      OBVIOUS
    <2>3. g \in Frame /\ g.op = "close" /\ g.at = "gate" /\ g.id = i /\ g.held = n
      BY <2>1, <2>2, AwaitsAre DEF Call, Frame, Outcomes
    <2>4. Knows(sessions, runtimes, disk, g, {})
      BY <2>3 DEF Knows, BuildKnows, CloseKnows, DeleteKnows
    <2>5. BelowKnows(sessions, runtimes, disk, <<g>> \o rest)
      BY <1>3, <2>1, <2>3, PushBelow
    <2>6. <<g>> \o rest \in Seq(Frame) /\ <<g>> \o rest # <<>> /\ Head(<<g>> \o rest) = g
      BY <2>3
    <2>7. StackKnows(sessions, runtimes, disk, <<g>> \o rest)
      BY <2>4, <2>5, <2>6, TopBelow
    <2>8. stack' = [stack EXCEPT ![t] = <<g>> \o rest]
      BY <1>3, <2>1, <2>2 DEF Close
    <2> QED
      BY <1>1, <2>6, <2>7, <2>8
  <1> QED
    BY <1>2, <1>3

LEMMA CloseSessionKeeps ==
    ASSUME HostInv, ClosingInv, NEW t, NEW i \in Ids, CloseSession(t, i)
    PROVE  ClosingInv'
  <1>1. t \in Workers /\ UNCHANGED <<sessions, built, disk, deleted>> /\ Close(t, i, <<>>)
    BY IdleIs DEF CloseSession
  <1>2. <<>> \in Seq(Frame) /\ BelowKnows(sessions, runtimes, disk, <<>>)
    BY DEF BelowKnows
  <1> QED
    BY <1>1, <1>2, CloseKeeps

LEMMA ToldIs ==
    ASSUME NEW f \in Frame, NEW r \in Outcomes, NEW n \in Nat, NEW h, h = Told(f, r, n)
    PROVE  /\ h \in Frame
           /\ h.op = f.op /\ h.why = f.why /\ h.at = f.at /\ h.id = f.id /\ h.held = f.held
           /\ h.owner = f.owner /\ h.guard = f.guard /\ h.kids = f.kids /\ h.back = r
  BY DEF Frame, Told

\* What a close that found nothing to close tells the close that made it.
LEMMA CloseRefused ==
    ASSUME HostTypes, NEW i \in Ids, SessionOf(i) # "ok", NEW f \in Frame, f.op = "close",
           \A g \in Frame : g.op = "close" /\ g.id = i /\ g.held = sessions[i] =>
               Knows(sessions, runtimes, disk, f, {g})
    PROVE  Knows(sessions, runtimes, disk, Told(f, SessionOf(i), 0), {})
  <1>0. SessionOf(i) \in Outcomes /\ 0 \in Nat
    BY OutcomesAre
  <1>1. PICK h : h = Told(f, SessionOf(i), 0)
    OBVIOUS
  <1>2. h.op = "close" /\ h.at = f.at /\ h.id = f.id /\ h.held = f.held /\ h.kids = f.kids
    BY <1>0, <1>1, ToldIs
  <1>3. \A c \in Children : Live(sessions, runtimes, c, f.held) => c # i
    BY DEF Live, SessionOf
  <1>4. PICK n \in Nat : n = sessions[i]
    BY HostAssumption DEF HostTypes
  <1>5. PICK g : g = [Call("close", "none", "gate", i) EXCEPT !.held = n]
    OBVIOUS
  <1>6. g \in Frame /\ g.op = "close" /\ g.id = i /\ g.held = n
    BY <1>4, <1>5, AwaitsAre DEF Call, Frame, Outcomes
  <1>7. CloseKnows(sessions, runtimes, f, {g})
    BY <1>4, <1>6 DEF Knows
  <1>8. CloseKnows(sessions, runtimes, h, {})
    BY <1>2, <1>3, <1>6, <1>7 DEF CloseKnows
  <1> QED
    BY <1>1, <1>2, <1>8 DEF Knows, BuildKnows, DeleteKnows

\* What it tells a deletion.
LEMMA DeleteRefused ==
    ASSUME HostTypes, NEW f \in Frame, f.op = "delete", f.at = "closed",
           SessionOf(f.id) # "ok", Knows(sessions, runtimes, disk, f, {})
    PROVE  Knows(sessions, runtimes, disk, Told(f, SessionOf(f.id), 0), {})
  <1>0. SessionOf(f.id) \in Outcomes /\ 0 \in Nat
    BY OutcomesAre DEF Frame
  <1>1. PICK h : h = Told(f, SessionOf(f.id), 0)
    OBVIOUS
  <1>2. /\ h.op = "delete" /\ h.at = "closed" /\ h.id = f.id /\ h.kids = f.kids
        /\ h.back = SessionOf(f.id)
    BY <1>0, <1>1, ToldIs
  <1>3. SessionOf(f.id) \in {"ok", "notFound"} => sessions[f.id] = 0
    BY DEF SessionOf
  <1>4. DeleteKnows(sessions, disk, f, {})
    BY DEF Knows
  <1>5. DeleteKnows(sessions, disk, h, {})
    BY <1>2, <1>3, <1>4 DEF DeleteKnows
  <1> QED
    BY <1>1, <1>2, <1>5 DEF Knows, BuildKnows, CloseKnows

LEMMA CloseChildrenKeeps ==
    ASSUME HostInv, ClosingInv, NEW t \in Workers, CloseChildren(t)
    PROVE  ClosingInv'
  <1>0. HostTypes
    BY DEF HostInv
  <1>1. PICK top : top = Top(t)
    OBVIOUS
  <1>2. /\ Busy(t) /\ top \in Frame /\ top.op = "close" /\ top.at = "children"
        /\ UNCHANGED <<sessions, built, disk, deleted>>
        /\ CloseKnows(sessions, runtimes, top, {})
    BY <1>1, AtIs, TopKnows DEF CloseChildren, Knows
  <1>3. PICK b : b = (top.bad \/ top.back \notin {"none", "ok", "notFound"})
    OBVIOUS
  <1>4. b \in BOOLEAN
    BY <1>2, <1>3 DEF Frame
  <1>5. PICK f : f = [top EXCEPT !.back = "none", !.bad = b]
    OBVIOUS
  <1>6. f \in Frame /\ f.at = "children" /\ Alike(top, f) /\ f.kids = top.kids
    BY <1>2, <1>4, <1>5, ClosingFrame
  <1>7. /\ f.kids = {} => Goto(t, [f EXCEPT !.at = "join"]) /\ UNCHANGED runtimes
        /\ f.kids # {} =>
             \E k \in f.kids : Close(t, k, <<[f EXCEPT !.kids = @ \ {k}]>> \o Tail(stack[t]))
    <2>1. f = [Top(t) EXCEPT !.back = "none",
                 !.bad = @ \/ Top(t).back \notin {"none", "ok", "notFound"}]
      BY <1>1, <1>3, <1>5
    <2> QED
      BY <2>1 DEF CloseChildren
  <1>8. CASE f.kids = {}
    <2>1. PICK g : g = [f EXCEPT !.at = "join"]
      OBVIOUS
    <2>2. g \in Frame /\ g.at = "join" /\ Alike(f, g)
      BY <1>6, <2>1, FrameMoves, AwaitsAre
    <2>3. Even /\ UNCHANGED runtimes
      BY <1>2, <1>7, <1>8, UnchangedEven
    <2>4. g.op = "close" /\ g.id = top.id /\ g.held = top.held
      BY <1>2, <1>6, <2>2 DEF Alike
    <2>5. CloseKnows(sessions, runtimes, g, {})
      BY <1>2, <1>6, <1>8, <2>2, <2>4 DEF CloseKnows
    <2>6. Knows(sessions', runtimes', disk', g, {}) /\ Stands(top, g)
      BY <1>2, <2>3, <2>4, <2>5 DEF Knows, BuildKnows, DeleteKnows, Stands
    <2>7. Goto(t, g)
      BY <1>7, <1>8, <2>1
    <2> QED
      BY <1>1, <1>2, <2>2, <2>3, <2>6, <2>7, EvenGoes
  <1>9. CASE f.kids # {}
    <2>1. PICK k \in f.kids : Close(t, k, <<[f EXCEPT !.kids = @ \ {k}]>> \o Tail(stack[t]))
      BY <1>7, <1>9
    <2>2. PICK g : g = [f EXCEPT !.kids = @ \ {k}]
      OBVIOUS
    <2>3. g \in Frame /\ g.at = "children" /\ Alike(f, g) /\ g.kids = f.kids \ {k} /\ k \in Ids
      <3>1. f.kids \ {k} \in SUBSET Ids /\ k \in Ids
        BY <1>6, <2>1 DEF Frame
      <3> QED
        BY <1>6, <2>2, <3>1 DEF Frame, Alike
    <2>4. g.op = "close" /\ g.id = top.id /\ g.held = top.held
      BY <1>2, <1>6, <2>3 DEF Alike
    <2>5. BuildKnows(runtimes, disk, g) /\ Stands(top, g)
      BY <1>2, <2>4 DEF BuildKnows, Stands
    <2>6. ASSUME NEW u \in Frame, u.op = "close", u.id = k, u.held = sessions[k]
          PROVE  Knows(sessions, runtimes, disk, g, {u})
      <3>1. CloseKnows(sessions, runtimes, g, {u})
        BY <1>2, <1>6, <2>3, <2>4, <2>6 DEF CloseKnows
      <3> QED
        BY <2>4, <2>5, <3>1 DEF Knows, DeleteKnows
    <2>7. PICK rest : rest = <<g>> \o Tail(stack[t])
      OBVIOUS
    <2>8. stack[t] \in Seq(Frame) /\ stack[t] # <<>> /\ Tail(stack[t]) \in Seq(Frame)
      BY <1>0, <1>2 DEF HostTypes, Busy
    <2>9. rest \in Seq(Frame) /\ rest # <<>> /\ Head(rest) = g
      BY <2>3, <2>7, <2>8
    <2>10. BelowKnows(sessions, runtimes, disk, rest)
      <3>1. BelowKnows(sessions, runtimes, disk, stack[t])
        BY DEF ClosingInv, CallsKnow, StackKnows, BelowKnows
      <3> QED
        BY <1>1, <2>3, <2>5, <2>7, <2>8, <3>1, BelowGoes DEF Top
    <2>11. SessionOf(k) # "ok" =>
              Knows(sessions, runtimes, disk, Told(Head(rest), SessionOf(k), 0), {})
      <3>1. \A u \in Frame : u.op = "close" /\ u.id = k /\ u.held = sessions[k] =>
               Knows(sessions, runtimes, disk, g, {u})
        BY <2>6
      <3>2. SessionOf(k) # "ok" => Knows(sessions, runtimes, disk, Told(g, SessionOf(k), 0), {})
        BY <1>0, <2>3, <2>4, <3>1, CloseRefused
      <3> QED
        BY <2>9, <3>2
    <2>12. Close(t, k, rest)
      BY <2>1, <2>2, <2>7
    <2> QED
      BY <1>2, <2>3, <2>6, <2>9, <2>10, <2>11, <2>12, CloseKeeps
  <1> QED
    BY <1>8, <1>9

\* A close that ends tells who made it: the child is not active any more, and a
\* successful one has left the map.
LEMMA CloseBack ==
    ASSUME NEW ses, NEW run, NEW files, NEW f \in Frame, NEW u, u.op = "close",
           Knows(ses, run, files, f, {u}), NEW r \in Outcomes, NEW n \in Nat,
           \A c \in Children : u.id = c /\ u.held = ses[c] => \A g : ~Live(ses, run, c, g),
           r \in {"ok", "notFound"} => ses[u.id] = 0
    PROVE  Knows(ses, run, files, Told(f, r, n), {})
  <1>1. PICK h : h = Told(f, r, n)
    OBVIOUS
  <1>2. /\ h.op = f.op /\ h.why = f.why /\ h.at = f.at /\ h.id = f.id /\ h.held = f.held
        /\ h.owner = f.owner /\ h.guard = f.guard /\ h.kids = f.kids /\ h.back = r
    BY <1>1, ToldIs
  <1>3. BuildKnows(run, files, h)
    BY <1>2 DEF Knows, BuildKnows
  <1>4. CloseKnows(ses, run, h, {})
    <2>1. CloseKnows(ses, run, f, {u})
      BY DEF Knows
    <2> QED
      BY <1>2, <2>1 DEF CloseKnows
  <1>5. DeleteKnows(ses, files, h, {})
    <2>1. DeleteKnows(ses, files, f, {u})
      BY DEF Knows
    <2>2. f.op = "delete" => f.at # "kids" /\ u.id = f.id
      BY <2>1 DEF DeleteKnows
    <2> QED
      BY <1>2, <2>1, <2>2 DEF DeleteKnows
  <1> QED
    BY <1>1, <1>3, <1>4, <1>5 DEF Knows

LEMMA CloseReturns ==
    ASSUME NEW ses, NEW run, NEW files, NEW s \in Seq(Frame), s # <<>>, NEW top, top = Head(s),
           top.op = "close", BelowKnows(ses, run, files, s), NEW r \in Outcomes,
           \A c \in Children : top.id = c /\ top.held = ses[c] => \A g : ~Live(ses, run, c, g),
           r \in {"ok", "notFound"} => ses[top.id] = 0
    PROVE  StackKnows(ses, run, files, After(s, r, 0))
  <1>1. Head(s) = s[1] /\ Len(s) \in Nat \ {0} /\ 0 \in Nat
    OBVIOUS
  <1>2. ASSUME Len(s) > 1
        PROVE  Knows(ses, run, files, Told(s[2], r, 0), {})
    <2>1. s[2] \in Frame /\ 2 \in 1..Len(s) /\ 2 # 1 /\ On(s, 2) = {s[1]}
      BY <1>1, <1>2, ElementOfSeq, OnIs
    <2>2. Knows(ses, run, files, s[2], {top})
      BY <1>1, <2>1 DEF BelowKnows
    <2> QED
      BY <1>1, <2>1, <2>2, CloseBack
  <1> QED
    BY <1>1, <1>2, AfterKnows

LEMMA CloseGateKeeps ==
    ASSUME HostInv, ClosingInv, NEW t \in Workers, CloseGate(t)
    PROVE  ClosingInv'
  <1>0. HostTypes
    BY DEF HostInv
  <1>1. PICK top : top = Top(t)
    OBVIOUS
  <1>2. /\ Busy(t) /\ top \in Frame /\ top.op = "close" /\ top.at = "gate" /\ Fine(t, top)
        /\ UNCHANGED <<sessions, built, disk, deleted>>
    BY <1>1, AtIs DEF CloseGate
  <1>3. /\ top.id \in Ids /\ top.held \in 1..MaxBuilds /\ runtimes[top.id][top.held] \in Runtime
    <2>1. top.held # 0
      BY <1>2 DEF Fine, OtherFine
    <2> QED
      BY <1>0, <1>2, <2>1, HeldIs
  <1>4. stack[t] \in Seq(Frame) /\ stack[t] # <<>>
    BY <1>0, <1>2 DEF HostTypes, Busy
  <1>5. CASE Now(t).life # "active"
    <2>1. UNCHANGED runtimes /\ "closing" \in Outcomes /\ Return(t, "closing")
      BY <1>5 DEF CloseGate, Outcomes
    <2>2. Even /\ runtimes[top.id][top.held].life # "active"
      BY <1>1, <1>2, <1>5, <2>1, UnchangedEven DEF Now
    <2>3. BelowKnows(sessions, runtimes, disk, stack[t])
      BY DEF ClosingInv, CallsKnow, StackKnows, BelowKnows
    <2>4. \A c \in Children : top.id = c /\ top.held = sessions[c] =>
             \A g : ~Live(sessions, runtimes, c, g)
      BY <2>2 DEF Live
    <2>5. StackKnows(sessions, runtimes, disk, After(stack[t], "closing", 0))
      BY <1>1, <1>2, <1>4, <2>1, <2>3, <2>4, CloseReturns DEF Top
    <2>6. StackKnows(sessions', runtimes', disk', After(stack[t], "closing", 0))
      BY <1>2, <2>1, <2>5
    <2> QED
      BY <1>0, <2>1, <2>2, <2>6, EvenTop DEF Return
  <1>6. CASE Now(t).life = "active"
    <2>1. PICK q : q = runtimes[top.id][top.held]
      OBVIOUS
    <2>2. PICK r : r = [q EXCEPT !.gate = t]
      OBVIOUS
    <2>3. r \in Runtime /\ r.life = q.life /\ r.owner = q.owner
      BY <1>3, <2>1, <2>2 DEF Runtime
    <2>4. Touch(top.id, top.held, r)
      BY <1>1, <1>6, <2>1, <2>2 DEF CloseGate, Now
    <2>5. Even
      BY <1>0, <1>2, <1>3, <2>1, <2>3, <2>4, TouchEven
    <2>6. PICK f : f = [top EXCEPT !.at = "creation"]
      OBVIOUS
    <2>7. f \in Frame /\ f.at = "creation" /\ Alike(top, f)
      BY <1>2, <2>6, FrameMoves, AwaitsAre
    <2>8. Knows(sessions', runtimes', disk', f, {}) /\ Stands(top, f)
      BY <1>2, <2>7 DEF Alike, Stands, Knows, BuildKnows, CloseKnows, DeleteKnows
    <2>9. StackKnows(sessions', runtimes', disk', <<f>> \o Tail(stack[t]))
      BY <1>0, <1>1, <1>4, <2>5, <2>7, <2>8, EvenKept, GotoKnows DEF Top
    <2>10. PICK x : x = <<f>> \o Tail(stack[t])
      OBVIOUS
    <2>11. stack' = [u \in Workers |->
                 CASE u = t -> x
                   [] u # t /\ Joined(u, top.id, top.held) -> After(stack[u], "cancelled", 0)
                   [] OTHER -> stack[u]]
      BY <1>1, <1>6, <2>6, <2>10 DEF CloseGate
    <2>12. "cancelled" \in Outcomes /\ 0 \in Nat
      BY DEF Outcomes
    <2>13. ASSUME NEW u \in Workers
           PROVE  \/ stack'[u] = stack[u]
                  \/ StackKnows(sessions', runtimes', disk', stack'[u])
      <3>1. CASE u = t
        <4>1. stack'[u] = x
          BY <2>11, <3>1
        <4> QED
          BY <2>9, <2>10, <4>1
      <3>2. CASE u # t /\ Joined(u, top.id, top.held)
        <4>1. stack'[u] = After(stack[u], "cancelled", 0)
          BY <2>11, <3>2
        <4> QED
          BY <2>5, <2>12, <3>2, <4>1, QueuedKnow
      <3>3. CASE u # t /\ ~Joined(u, top.id, top.held)
        BY <2>11, <3>3
      <3> QED
        BY <3>1, <3>2, <3>3
    <2> QED
      BY <1>0, <2>5, <2>13, EvenStep
  <1> QED
    BY <1>5, <1>6

LEMMA JoinReportersKeeps ==
    ASSUME HostInv, ClosingInv, NEW t \in Workers, JoinReporters(t)
    PROVE  ClosingInv'
  <1>1. PICK top : top = Top(t)
    OBVIOUS
  <1>2. /\ Busy(t) /\ top \in Frame /\ top.op = "close" /\ top.at = "join"
        /\ UNCHANGED <<sessions, runtimes, built, disk, deleted>>
        /\ CloseKnows(sessions, runtimes, top, {}) /\ Goto(t, [top EXCEPT !.at = "hook"])
    BY <1>1, AtIs, TopKnows DEF JoinReporters, Knows
  <1>3. PICK g : g = [top EXCEPT !.at = "hook"]
    OBVIOUS
  <1>4. g \in Frame /\ g.at = "hook" /\ Alike(top, g)
    BY <1>2, <1>3, FrameMoves, AwaitsAre
  <1>5. g.op = "close" /\ g.id = top.id /\ g.held = top.held
    BY <1>2, <1>4 DEF Alike
  <1>6. CloseKnows(sessions, runtimes, g, {})
    BY <1>2, <1>4, <1>5 DEF CloseKnows
  <1>7. Knows(sessions', runtimes', disk', g, {}) /\ Stands(top, g) /\ Even
    BY <1>2, <1>5, <1>6, UnchangedEven DEF Knows, BuildKnows, DeleteKnows, Stands
  <1> QED
    BY <1>1, <1>2, <1>3, <1>4, <1>7, EvenGoes

LEMMA BeginClosingKeeps ==
    ASSUME HostInv, ClosingInv, NEW t \in Workers, BeginClosing(t)
    PROVE  ClosingInv'
  <1>0. HostTypes /\ RegistryKnows(sessions, runtimes, built, disk, deleted)
    BY DEF HostInv, ClosingInv
  <1>1. PICK top : top = Top(t)
    OBVIOUS
  <1>2. /\ Busy(t) /\ top \in Frame /\ top.op = "close" /\ top.at = "creation" /\ Fine(t, top)
        /\ UNCHANGED <<sessions, built, disk, deleted>> /\ (top.id = Main => ~Reading(top.held))
    BY <1>1, AtIs DEF BeginClosing
  <1>3. top.held # 0 /\ Holding(top)
    BY <1>2 DEF Fine, OtherFine, Holding
  <1>4. PICK q : q = runtimes[top.id][top.held]
    OBVIOUS
  <1>5. /\ top.id \in Ids /\ top.held \in 1..MaxBuilds /\ q \in Runtime
        /\ q.life \in {"active", "closing"}
    <2>1. top.id \in Ids /\ top.held \in 1..MaxBuilds /\ q \in Runtime
      BY <1>0, <1>2, <1>3, <1>4, HeldIs
    <2> QED
      BY <1>2, <1>3, <1>4, <2>1 DEF Fine, GateFine
  <1>6. PICK r : r = [q EXCEPT !.life = "closing", !.closing = TRUE]
    OBVIOUS
  <1>7. r \in Runtime /\ r.life = "closing" /\ r.owner = q.owner
    BY <1>5, <1>6 DEF Runtime, Lifecycle
  <1>8. Touch(top.id, top.held, r)
    BY <1>1, <1>4, <1>6 DEF BeginClosing, Now
  <1>9. /\ runtimes'[top.id][top.held] = r
        /\ \A h \in 1..MaxBuilds : h # top.held => runtimes'[top.id][h] = runtimes[top.id][h]
        /\ \A j \in Ids \ {top.id} : runtimes'[j] = runtimes[j]
    BY <1>0, <1>5, <1>7, <1>8, TouchIs
  <1>10. ASSUME NEW i \in Ids, NEW g \in 1..MaxBuilds
         PROVE  /\ runtimes'[i][g].owner = runtimes[i][g].owner
                /\ \/ runtimes'[i][g].life = runtimes[i][g].life
                   \/ i = top.id /\ g = top.held /\ runtimes[i][g].life \in {"active", "closing"}
                      /\ runtimes'[i][g].life = "closing"
    BY <1>4, <1>5, <1>7, <1>9
  <1>11. ASSUME NEW c \in Children, NEW g, Live(sessions', runtimes', c, g)
         PROVE  Live(sessions, runtimes, c, g) /\ sessions'[c] = sessions[c]
    <2>1. c \in Ids /\ sessions'[c] = sessions[c] /\ sessions[c] # 0
      BY <1>2, <1>11, MainIs DEF Live
    <2>2. sessions[c] \in 1..MaxBuilds
      <3>1. sessions[c] \in 0..MaxBuilds /\ MaxBuilds \in Nat
        BY <1>0, <2>1, HostAssumption DEF HostTypes
      <3> QED
        BY <2>1, <3>1
    <2>3. runtimes'[c][sessions[c]].owner = g /\ runtimes'[c][sessions[c]].life = "active"
      BY <1>11, <2>1 DEF Live
    <2>4. runtimes[c][sessions[c]].owner = g /\ runtimes[c][sessions[c]].life = "active"
      BY <1>10, <2>1, <2>2, <2>3
    <2> QED
      BY <2>1, <2>4 DEF Live
  <1>12. ASSUME NEW u \in Workers, NEW f \in Frame, f \in Frames, Fine(u, f), ~Clash(top, f), NEW on,
                Knows(sessions, runtimes, disk, f, on)
         PROVE  Knows(sessions', runtimes', disk', f, on)
    <2>1. f.id \in Ids
      BY DEF Frame
    <2>2. ASSUME f.op = "build", f.guard
          PROVE  runtimes'[Main][f.owner].life = "active"
      <3>1. f.owner \in 1..MaxBuilds /\ runtimes[Main][f.owner].life = "active"
        BY <1>12, <2>2 DEF Knows, BuildKnows
      <3>2. ~(Main = top.id /\ f.owner = top.held)
        BY <1>2, <1>12, <2>2 DEF Reading
      <3> QED
        BY <1>10, <3>1, <3>2, MainIs
    <2>3. ASSUME f.op = "build", f.at \in {"hook", "register", "start", "checkpoint"}
          PROVE  runtimes'[f.id][f.held].owner = runtimes[f.id][f.held].owner
      <3>1. f.held \in 1..MaxBuilds
        BY <1>12, <2>3 DEF Knows, BuildKnows
      <3> QED
        BY <1>10, <2>1, <3>1
    <2>4. ASSUME f.op = "close", f.at \in {"children", "join", "hook"}
          PROVE  runtimes'[f.id][f.held].life = "closing"
      <3>1. f.held \in 1..MaxBuilds /\ runtimes[f.id][f.held].life = "closing"
        BY <1>12, <2>4 DEF Knows, CloseKnows
      <3> QED
        BY <1>10, <2>1, <3>1
    <2>5. NoKids(runtimes, disk) => NoKids(runtimes', disk')
      BY <1>2, <1>10, MainIs DEF NoKids
    <2>6. f.op = "build" /\ f.why \notin {"resume", "spawn"} /\ f.id = Main =>
             NoKids(runtimes', disk')
      BY <1>12, <2>5 DEF Knows, BuildKnows
    <2>7. /\ f.op = "delete" /\ sessions[f.id] = 0 => sessions'[f.id] = 0
          /\ \A c \in Children : disk'[c].there => disk[c].there
      BY <1>2
    <2> QED
      BY <1>11, <1>12, <2>2, <2>3, <2>4, <2>6, <2>7, KnowsMoves
  <1>13. RegistryKnows(sessions', runtimes', built', disk', deleted')
    <2>1. \A i \in Roots : \A g \in 1..MaxBuilds :
             runtimes'[i][g].life \in {"active", "closing"} => sessions'[i] = g
      <3>1. ASSUME NEW i \in Roots, NEW g \in 1..MaxBuilds,
                   runtimes'[i][g].life \in {"active", "closing"}
            PROVE  sessions'[i] = g
        <4>1. i \in Ids /\ runtimes[i][g].life \in {"active", "closing"}
          BY <1>10, <3>1 DEF Ids
        <4> QED
          BY <1>0, <1>2, <4>1 DEF RegistryKnows
      <3> QED
        BY <3>1
    <2>2. \A i \in Ids : \A g \in 1..MaxBuilds :
             g > built'[i] => runtimes'[i][g].life = "closed"
      <3>1. ASSUME NEW i \in Ids, NEW g \in 1..MaxBuilds, g > built[i]
            PROVE  runtimes'[i][g].life = "closed"
        <4>1. runtimes[i][g].life = "closed"
          BY <1>0, <3>1 DEF RegistryKnows
        <4> QED
          BY <1>10, <4>1
      <3> QED
        BY <1>2, <3>1
    <2>3. ASSUME NEW c \in Children, NEW g \in Nat, g # 0, Live(sessions', runtimes', c, g)
          PROVE  g \in 1..MaxBuilds /\ runtimes'[Main][g].life \in {"active", "closing"}
      <3>1. g \in 1..MaxBuilds /\ runtimes[Main][g].life \in {"active", "closing"}
        BY <1>0, <1>11, <2>3 DEF RegistryKnows
      <3> QED
        BY <1>10, <3>1, MainIs
    <2> QED
      BY <1>0, <1>2, <2>1, <2>2, <2>3 DEF RegistryKnows
  <1>14. PICK own : own = LiveChildren(top.id)
    OBVIOUS
  <1>15. own \in SUBSET Ids /\ (top.id = Main => \A c \in Children : sessions[c] # 0 => c \in own)
    BY <1>14 DEF LiveChildren, Owned, Ids
  <1>16. PICK g : g = [top EXCEPT !.at = "children", !.kids = own]
    OBVIOUS
  <1>17. g \in Frame /\ g.at = "children" /\ Alike(top, g)
    BY <1>2, <1>15, <1>16, FrameMovesKids, AwaitsAre
  <1>18. g.kids = own /\ g.op = "close" /\ g.id = top.id /\ g.held = top.held
    <2>1. g.kids = own
      BY <1>2, <1>16 DEF Frame
    <2> QED
      BY <1>2, <1>17, <2>1 DEF Alike
  <1>19. CloseKnows(sessions', runtimes', g, {})
    <2>1. \A c \in Children : Live(sessions', runtimes', c, g.held) => sessions[c] # 0
      BY <1>2 DEF Live
    <2> QED
      BY <1>5, <1>7, <1>9, <1>15, <1>17, <1>18, <2>1 DEF CloseKnows
  <1>20. Knows(sessions', runtimes', disk', g, {}) /\ Stands(top, g)
    BY <1>2, <1>18, <1>19 DEF Knows, BuildKnows, DeleteKnows, Stands
  <1>21. stack[t] \in Seq(Frame) /\ stack[t] # <<>>
    BY <1>0, <1>2 DEF HostTypes, Busy
  <1>22. ASSUME BelowKnows(sessions', runtimes', disk', stack[t])
         PROVE  StackKnows(sessions', runtimes', disk', <<g>> \o Tail(stack[t]))
    BY <1>1, <1>17, <1>20, <1>21, <1>22, GotoKnows DEF Top
  <1>23. stack' = [stack EXCEPT ![t] = <<g>> \o Tail(stack[t])]
    BY <1>1, <1>14, <1>16 DEF BeginClosing, Goto
  <1> QED
    BY <1>1, <1>2, <1>12, <1>13, <1>22, <1>23, MovedStep

LEMMA FinishClosingKeeps ==
    ASSUME HostInv, ClosingInv, NEW t \in Workers, FinishClosing(t)
    PROVE  ClosingInv'
  <1>0. HostTypes /\ RegistryKnows(sessions, runtimes, built, disk, deleted)
    BY DEF HostInv, ClosingInv
  <1>1. PICK top : top = Top(t)
    OBVIOUS
  <1>2. /\ Busy(t) /\ top \in Frame /\ top.op = "close" /\ top.at = "hook" /\ Fine(t, top)
        /\ UNCHANGED <<built, disk, deleted>>
        /\ CloseKnows(sessions, runtimes, top, {})
        /\ sessions' = [sessions EXCEPT ![top.id] = 0]
    BY <1>1, AtIs, TopKnows DEF FinishClosing, Knows
  <1>3. /\ Holding(top) /\ top.id \in Ids /\ top.held \in 1..MaxBuilds
        /\ runtimes[top.id][top.held].life = "closing"
        /\ top.id = Main => \A c \in Children : ~Live(sessions, runtimes, c, top.held)
    BY <1>2 DEF Holding, CloseKnows, Frame
  <1>4. PICK r : r = [Unused EXCEPT !.closeRequested = TRUE, !.shutdown = TRUE, !.cancelled = TRUE]
    OBVIOUS
  <1>5. r \in Runtime /\ r.life = "closed"
    BY <1>4 DEF Unused, FreshRuntime, NoFile, Runtime, Lifecycle
  <1>6. Touch(top.id, top.held, r)
    BY <1>1, <1>4 DEF FinishClosing
  <1>7. /\ runtimes'[top.id][top.held] = r
        /\ \A h \in 1..MaxBuilds : h # top.held => runtimes'[top.id][h] = runtimes[top.id][h]
        /\ \A j \in Ids \ {top.id} : runtimes'[j] = runtimes[j]
    BY <1>0, <1>3, <1>5, <1>6, TouchIs
  <1>8. sessions'[top.id] = 0 /\ \A j \in Ids \ {top.id} : sessions'[j] = sessions[j]
    BY <1>0, <1>2, <1>3 DEF HostTypes
  <1>9. ASSUME NEW i \in Ids, NEW g \in 1..MaxBuilds
        PROVE  \/ runtimes'[i][g] = runtimes[i][g] /\ ~(i = top.id /\ g = top.held)
               \/ i = top.id /\ g = top.held /\ runtimes'[i][g].life = "closed"
    BY <1>5, <1>7
  <1>10. ASSUME NEW c \in Children, NEW g, Live(sessions', runtimes', c, g)
         PROVE  Live(sessions, runtimes, c, g) /\ sessions'[c] = sessions[c]
    <2>1. c \in Ids \ {top.id}
      BY <1>8, <1>10, MainIs DEF Live
    <2> QED
      BY <1>7, <1>8, <1>10, <2>1 DEF Live
  <1>11. ASSUME NEW u \in Workers, NEW f \in Frame, f \in Frames, Fine(u, f), ~Clash(top, f), NEW on,
                Knows(sessions, runtimes, disk, f, on)
         PROVE  Knows(sessions', runtimes', disk', f, on)
    <2>1. f.id \in Ids
      BY DEF Frame
    <2>2. ASSUME f.op = "build", f.guard
          PROVE  runtimes'[Main][f.owner].life = "active"
      <3>1. f.owner \in 1..MaxBuilds /\ runtimes[Main][f.owner].life = "active"
        BY <1>11, <2>2 DEF Knows, BuildKnows
      <3> QED
        BY <1>3, <1>9, <3>1, MainIs
    <2>3. ASSUME f.op = "build", f.at \in {"hook", "register", "start", "checkpoint"}
          PROVE  runtimes'[f.id][f.held].owner = runtimes[f.id][f.held].owner
      <3>1. f.held \in 1..MaxBuilds
        BY <1>11, <2>3 DEF Knows, BuildKnows
      <3>2. runtimes[f.id][f.held].life = "starting"
        BY <1>11, <2>3 DEF Fine, BuildFine, Building
      <3> QED
        BY <1>3, <1>9, <2>1, <3>1, <3>2
    <2>4. ASSUME f.op = "close", f.at \in {"children", "join", "hook"}
          PROVE  runtimes'[f.id][f.held].life = "closing"
      <3>1. f.held \in 1..MaxBuilds /\ runtimes[f.id][f.held].life = "closing" /\ Holding(f)
        BY <1>11, <2>4 DEF Knows, CloseKnows, Holding
      <3>2. ~(f.id = top.id /\ f.held = top.held)
        BY <1>3, <1>11, <3>1 DEF Clash
      <3> QED
        BY <1>9, <2>1, <3>1, <3>2
    <2>5. NoKids(runtimes, disk) => NoKids(runtimes', disk')
      BY <1>2, <1>9, MainIs DEF NoKids
    <2>6. f.op = "build" /\ f.why \notin {"resume", "spawn"} /\ f.id = Main =>
             NoKids(runtimes', disk')
      BY <1>11, <2>5 DEF Knows, BuildKnows
    <2>7. /\ f.op = "delete" /\ sessions[f.id] = 0 => sessions'[f.id] = 0
          /\ \A c \in Children : disk'[c].there => disk[c].there
      <3>1. sessions[f.id] = 0 => sessions'[f.id] = 0
        BY <1>8, <2>1
      <3>2. disk' = disk
        BY <1>2
      <3> QED
        BY <3>1, <3>2
    <2> QED
      BY <1>10, <1>11, <2>2, <2>3, <2>4, <2>6, <2>7, KnowsMoves
  <1>12. RegistryKnows(sessions', runtimes', built', disk', deleted')
    <2>0. UNCHANGED <<built, disk, deleted>>
      BY <1>2
    <2>1. \A i \in Roots : \A g \in 1..MaxBuilds :
             runtimes'[i][g].life \in {"active", "closing"} => sessions'[i] = g
      <3>1. ASSUME NEW i \in Roots, NEW g \in 1..MaxBuilds,
                   runtimes'[i][g].life \in {"active", "closing"}
            PROVE  sessions'[i] = g
        <4>1. i \in Ids
          BY DEF Ids
        <4>2. runtimes[i][g].life \in {"active", "closing"} /\ ~(i = top.id /\ g = top.held)
          BY <1>9, <3>1, <4>1
        <4>3. sessions[i] = g
          BY <1>0, <4>2 DEF RegistryKnows
        <4>4. i = top.id => sessions[i] = top.held
          BY <1>0, <1>3 DEF RegistryKnows
        <4> QED
          BY <1>8, <4>1, <4>2, <4>3, <4>4
      <3> QED
        BY <3>1
    <2>2. \A i \in Ids : \A g \in 1..MaxBuilds :
             g > built'[i] => runtimes'[i][g].life = "closed"
      <3>1. ASSUME NEW i \in Ids, NEW g \in 1..MaxBuilds, g > built[i]
            PROVE  runtimes'[i][g].life = "closed"
        <4>1. runtimes[i][g].life = "closed"
          BY <1>0, <3>1 DEF RegistryKnows
        <4> QED
          BY <1>9, <4>1
      <3> QED
        BY <2>0, <3>1
    <2>3. ASSUME NEW c \in Children, NEW g \in Nat, g # 0, Live(sessions', runtimes', c, g)
          PROVE  g \in 1..MaxBuilds /\ runtimes'[Main][g].life \in {"active", "closing"}
      <3>1. Live(sessions, runtimes, c, g)
        BY <1>10, <2>3
      <3>2. g \in 1..MaxBuilds /\ runtimes[Main][g].life \in {"active", "closing"}
        BY <1>0, <2>3, <3>1 DEF RegistryKnows
      <3>3. ~(Main = top.id /\ g = top.held)
        BY <1>3, <3>1
      <3> QED
        BY <1>9, <3>2, <3>3, MainIs
    <2>4. \A i \in Ids : sessions'[i] # 0 => disk'[i].there
      BY <1>0, <1>8, <2>0 DEF RegistryKnows
    <2>5. /\ \A i \in deleted' : \A k \in {i} \cup Owned(i) : ~disk'[k].there
          /\ built'[Main] > 0 /\ ~disk'[Main].there => \A c \in Children : ~disk'[c].there
      BY <1>0, <2>0 DEF RegistryKnows
    <2> QED
      BY <2>1, <2>2, <2>3, <2>4, <2>5 DEF RegistryKnows
  <1>13. stack[t] \in Seq(Frame) /\ stack[t] # <<>>
    BY <1>0, <1>2 DEF HostTypes, Busy
  <1>14. PICK o \in Outcomes : Return(t, o)
    BY DEF FinishClosing, Outcomes
  <1>15. ASSUME BelowKnows(sessions', runtimes', disk', stack[t])
         PROVE  StackKnows(sessions', runtimes', disk', After(stack[t], o, 0))
    <2>1. \A c \in Children : top.id = c /\ top.held = sessions'[c] =>
             \A g : ~Live(sessions', runtimes', c, g)
      BY <1>8 DEF Live
    <2>2. top = Head(stack[t]) /\ top.op = "close" /\ sessions'[top.id] = 0
      BY <1>1, <1>2, <1>8 DEF Top
    <2> QED
      BY <1>13, <1>15, <2>1, <2>2, CloseReturns
  <1>16. stack' = [stack EXCEPT ![t] = After(stack[t], o, 0)]
    BY <1>14 DEF Return
  <1> QED
    BY <1>1, <1>2, <1>11, <1>12, <1>15, <1>16, MovedStep

(***************************************************************************)
(* Deleting.                                                               *)
(***************************************************************************)
\* A deletion that ends tells who made it: after a success the child has no file.
LEMMA DeleteBack ==
    ASSUME NEW ses, NEW run, NEW files, NEW f \in Frame, NEW u, u.op = "delete",
           Knows(ses, run, files, f, {u}), NEW r \in Outcomes, NEW n \in Nat,
           r \in {"none", "ok"} => ~files[u.id].there
    PROVE  Knows(ses, run, files, Told(f, r, n), {})
  <1>1. PICK h : h = Told(f, r, n)
    OBVIOUS
  <1>2. /\ h.op = f.op /\ h.why = f.why /\ h.at = f.at /\ h.id = f.id /\ h.held = f.held
        /\ h.owner = f.owner /\ h.guard = f.guard /\ h.kids = f.kids /\ h.back = r
    BY <1>1, ToldIs
  <1>3. BuildKnows(run, files, h)
    BY <1>2 DEF Knows, BuildKnows
  <1>4. CloseKnows(ses, run, h, {})
    <2>1. CloseKnows(ses, run, f, {u})
      BY DEF Knows
    <2> QED
      BY <1>2, <2>1 DEF CloseKnows
  <1>5. DeleteKnows(ses, files, h, {})
    <2>1. DeleteKnows(ses, files, f, {u})
      BY DEF Knows
    <2>2. f.op = "delete" => f.at = "kids"
      BY <2>1 DEF DeleteKnows
    <2> QED
      BY <1>2, <2>1, <2>2 DEF DeleteKnows
  <1> QED
    BY <1>1, <1>3, <1>4, <1>5 DEF Knows

LEMMA DeleteReturns ==
    ASSUME NEW ses, NEW run, NEW files, NEW s \in Seq(Frame), s # <<>>, NEW top, top = Head(s),
           top.op = "delete", BelowKnows(ses, run, files, s), NEW r \in Outcomes,
           r \in {"none", "ok"} => ~files[top.id].there
    PROVE  StackKnows(ses, run, files, After(s, r, 0))
  <1>1. Head(s) = s[1] /\ Len(s) \in Nat \ {0} /\ 0 \in Nat
    OBVIOUS
  <1>2. ASSUME Len(s) > 1
        PROVE  Knows(ses, run, files, Told(s[2], r, 0), {})
    <2>1. s[2] \in Frame /\ 2 \in 1..Len(s) /\ 2 # 1 /\ On(s, 2) = {s[1]}
      BY <1>1, <1>2, ElementOfSeq, OnIs
    <2>2. Knows(ses, run, files, s[2], {top})
      BY <1>1, <2>1 DEF BelowKnows
    <2> QED
      BY <1>1, <2>1, <2>2, DeleteBack
  <1> QED
    BY <1>1, <1>2, AfterKnows

\* A deletion that begins: it lists the children of a Session it can see, and a
\* Session that is gone already has left none.
LEMMA DeletionBegins ==
    ASSUME HostTypes, ClosingInv, NEW i \in Ids, Seen(i), NEW d \in Frame, d.op = "delete",
           d.at = "closed", d.id = i, d.back = "none",
           d.kids = IF sessions[i] # 0 \/ disk[i].there THEN Owned(i) ELSE {}
    PROVE  /\ Knows(sessions, runtimes, disk, d, {})
           /\ \A g \in Frame : g.op = "close" /\ g.id = i => Knows(sessions, runtimes, disk, d, {g})
  <1>1. RegistryKnows(sessions, runtimes, built, disk, deleted)
    BY DEF ClosingInv
  <1>2. i = Main => \/ Children \subseteq d.kids
                    \/ sessions[Main] = 0 /\ \A c \in Children : ~disk[c].there
    <2>1. CASE sessions[i] # 0 \/ disk[i].there
      BY <2>1 DEF Owned
    <2>2. CASE i = Main /\ sessions[i] = 0 /\ ~disk[i].there
      <3>1. built[Main] > 0 \/ Main \in deleted
        BY <2>2 DEF Seen
      <3>2. Main \in deleted => \A c \in Children : ~disk[c].there
        BY <1>1 DEF RegistryKnows, Owned
      <3>3. built[Main] > 0 => \A c \in Children : ~disk[c].there
        BY <1>1, <2>2 DEF RegistryKnows
      <3> QED
        BY <2>2, <3>1, <3>2, <3>3
    <2> QED
      BY <2>1, <2>2
  <1>3. BuildKnows(runtimes, disk, d) /\ \A on : CloseKnows(sessions, runtimes, d, on)
    BY DEF BuildKnows, CloseKnows
  <1>4. DeleteKnows(sessions, disk, d, {})
    BY <1>2 DEF DeleteKnows
  <1>5. \A g \in Frame : g.op = "close" /\ g.id = i => DeleteKnows(sessions, disk, d, {g})
    BY <1>2 DEF DeleteKnows
  <1> QED
    BY <1>3, <1>4, <1>5 DEF Knows

\* A deletion of i that is called by the innermost of the calls rest, or from outside.
LEMMA DeleteKeeps ==
    ASSUME HostInv, ClosingInv, NEW t \in Workers, NEW i \in Ids, Seen(i), NEW rest \in Seq(Frame),
           Delete(t, i, rest), UNCHANGED <<sessions, built, disk, deleted>>,
           BelowKnows(sessions, runtimes, disk, rest),
           rest # <<>> => \A d \in Frame : d.op = "delete" /\ d.id = i =>
               Knows(sessions, runtimes, disk, Head(rest), {d}),
           rest # <<>> => \A r \in {"duplicate", "starting", "closing"} :
               Knows(sessions, runtimes, disk, Told(Head(rest), r, 0), {})
    PROVE  ClosingInv'
  <1>0. HostTypes
    BY DEF HostInv
  <1>1. PICK own : own = IF sessions[i] # 0 \/ disk[i].there THEN Owned(i) ELSE {}
    OBVIOUS
  <1>2. own \in SUBSET Ids
    BY <1>1 DEF Owned, Ids
  <1>3. PICK d : d = [Call("delete", "none", "closed", i) EXCEPT !.reserved = TRUE, !.kids = own]
    OBVIOUS
  <1>4. /\ d \in Frame /\ d.op = "delete" /\ d.at = "closed" /\ d.id = i /\ d.kids = own
        /\ d.back = "none"
    BY <1>2, <1>3, AwaitsAre DEF Call, Frame, Outcomes
  <1>5. ASSUME NEW r \in {"duplicate", "starting", "closing"}, UNCHANGED runtimes,
               stack' = [stack EXCEPT ![t] =
                            IF rest = <<>> THEN <<>> ELSE After(<<d>> \o rest, r, 0)]
        PROVE  ClosingInv'
    <2>0. Even /\ r \in Outcomes /\ 0 \in Nat
      BY <1>5, UnchangedEven DEF Outcomes
    <2>1. CASE rest = <<>>
      <3>1. stack' = [stack EXCEPT ![t] = <<>>] /\ StackKnows(sessions', runtimes', disk', <<>>)
        BY <1>5, <2>1 DEF StackKnows
      <3> QED
        BY <1>0, <2>0, <3>1, EvenTop
    <2>2. CASE rest # <<>>
      <3>1. PICK h : h = Told(Head(rest), r, 0)
        OBVIOUS
      <3>2. Head(rest) \in Frame /\ Tail(rest) \in Seq(Frame)
        BY <2>2
      <3>3. h \in Frame /\ Stands(Head(rest), h)
        BY <2>0, <3>1, <3>2 DEF Told, Frame, Stands
      <3>4. After(<<d>> \o rest, r, 0) = <<h>> \o Tail(rest)
        BY <1>4, <2>0, <2>2, <3>1, PushBack
      <3>5. StackKnows(sessions, runtimes, disk, <<h>> \o Tail(rest))
        BY <2>2, <3>1, <3>3, GotoKnows
      <3>6. stack' = [stack EXCEPT ![t] = <<h>> \o Tail(rest)]
        BY <1>5, <2>2, <3>4
      <3>7. StackKnows(sessions', runtimes', disk', <<h>> \o Tail(rest))
        BY <1>5, <3>5
      <3> QED
        BY <1>0, <2>0, <3>6, <3>7, EvenTop
    <2> QED
      BY <2>1, <2>2
  <1>6. ASSUME Close(t, i, <<d>> \o rest)
        PROVE  ClosingInv'
    <2>1. PICK more : more = <<d>> \o rest
      OBVIOUS
    <2>2. more \in Seq(Frame) /\ more # <<>> /\ Head(more) = d
      BY <1>4, <2>1
    <2>3. /\ Knows(sessions, runtimes, disk, d, {})
          /\ \A g \in Frame : g.op = "close" /\ g.id = i => Knows(sessions, runtimes, disk, d, {g})
      BY <1>0, <1>1, <1>4, DeletionBegins
    <2>4. BelowKnows(sessions, runtimes, disk, more)
      BY <1>4, <2>1, PushBelow
    <2>5. SessionOf(i) # "ok" => Knows(sessions, runtimes, disk, Told(d, SessionOf(i), 0), {})
      BY <1>0, <1>4, <2>3, DeleteRefused
    <2> QED
      BY <1>6, <2>1, <2>2, <2>3, <2>4, <2>5, CloseKeeps
  <1>7. \/ \E r \in {"duplicate", "starting", "closing"} :
              /\ UNCHANGED runtimes
              /\ stack' = [stack EXCEPT ![t] =
                            IF rest = <<>> THEN <<>> ELSE After(<<d>> \o rest, r, 0)]
        \/ Close(t, i, <<d>> \o rest)
    BY <1>1, <1>3 DEF Delete
  <1> QED
    BY <1>5, <1>6, <1>7

LEMMA DeleteSessionKeeps ==
    ASSUME HostInv, ClosingInv, NEW t, NEW i \in Ids, Seen(i), DeleteSession(t, i)
    PROVE  ClosingInv'
  <1>1. t \in Workers /\ UNCHANGED <<sessions, built, disk, deleted>> /\ Delete(t, i, <<>>)
    BY IdleIs DEF DeleteSession
  <1>2. <<>> \in Seq(Frame) /\ BelowKnows(sessions, runtimes, disk, <<>>)
    BY DEF BelowKnows
  <1> QED
    BY <1>1, <1>2, DeleteKeeps

\* A deletion ends: it leaves the Session as it is, or has left nothing of it.
LEMMA DeletionEndsKeeps ==
    ASSUME HostInv, ClosingInv, NEW t \in Workers, Busy(t), NEW top, top = Top(t),
           top.op = "delete", NEW r \in Outcomes, Return(t, r),
           Calm(sessions, runtimes, disk, sessions', runtimes', disk'),
           RegistryKnows(sessions', runtimes', built', disk', deleted'),
           r \in {"none", "ok"} => ~disk'[top.id].there
    PROVE  ClosingInv'
  <1>1. HostTypes /\ stack[t] \in Seq(Frame) /\ stack[t] # <<>>
    BY DEF HostInv, HostTypes, Busy
  <1>2. StackKnows(sessions', runtimes', disk', After(stack[t], r, 0))
    BY <1>1, CalmKept, DeleteReturns DEF Top
  <1> QED
    BY <1>1, <1>2, CalmStep DEF Return

LEMMA DeletionFails ==
    ASSUME HostInv, ClosingInv, NEW t \in Workers, Busy(t), Top(t).op = "delete",
           Return(t, "error"), UNCHANGED <<sessions, runtimes, built, disk, deleted>>
    PROVE  ClosingInv'
  <1>1. Even /\ "error" \in Outcomes
    BY UnchangedEven DEF Outcomes
  <1>2. Calm(sessions, runtimes, disk, sessions', runtimes', disk')
    BY <1>1, EvenCalm
  <1>3. RegistryKnows(sessions', runtimes', built', disk', deleted')
    BY DEF ClosingInv
  <1> QED
    BY <1>1, <1>2, <1>3, DeletionEndsKeeps

LEMMA DeleteClosedKeeps ==
    ASSUME HostInv, ClosingInv, NEW t \in Workers, DeleteClosed(t)
    PROVE  ClosingInv'
  <1>1. PICK top : top = Top(t)
    OBVIOUS
  <1>2. /\ Busy(t) /\ top \in Frame /\ top.op = "delete" /\ top.at = "closed"
        /\ UNCHANGED <<sessions, runtimes, built, disk, deleted>>
        /\ DeleteKnows(sessions, disk, top, {})
    BY <1>1, AtIs, TopKnows DEF DeleteClosed, Knows
  <1>3. CASE Return(t, "error")
    BY <1>1, <1>2, <1>3, DeletionFails
  <1>4. CASE /\ top.back \in {"ok", "notFound"}
             /\ Goto(t, [top EXCEPT !.at = "kids", !.back = "none",
                            !.kids = {k \in top.kids : disk[k].there}])
    <2>1. PICK own : own = {k \in top.kids : disk[k].there}
      OBVIOUS
    <2>2. own \in SUBSET Ids
      BY <1>2, <2>1 DEF Frame
    <2>3. PICK g : g = [top EXCEPT !.at = "kids", !.back = "none", !.kids = own]
      OBVIOUS
    <2>4. /\ g \in Frame /\ g.at = "kids" /\ g.kids = own /\ g.op = "delete" /\ g.id = top.id
          /\ g.held = top.held
      <3>1. g \in Frame
        BY <1>2, <2>2, <2>3, AwaitsAre DEF Frame, Outcomes
      <3> QED
        BY <1>2, <2>3, <3>1 DEF Frame
    <2>5. DeleteKnows(sessions, disk, g, {})
      <3>1. sessions[g.id] = 0
        BY <1>2, <1>4, <2>4 DEF DeleteKnows
      <3>2. g.id = Main => \A c \in Children : c \in g.kids \/ ~disk[c].there
        BY <1>2, <2>1, <2>4 DEF DeleteKnows
      <3> QED
        BY <2>4, <3>1, <3>2 DEF DeleteKnows
    <2>6. Even /\ Stands(top, g)
      BY <1>2, <2>4, UnchangedEven DEF Stands
    <2>7. Knows(sessions', runtimes', disk', g, {})
      BY <1>2, <2>4, <2>5 DEF Knows, BuildKnows, CloseKnows
    <2>8. Goto(t, g)
      BY <1>4, <2>1, <2>3
    <2> QED
      BY <1>1, <1>2, <2>4, <2>6, <2>7, <2>8, EvenGoes
  <1> QED
    BY <1>1, <1>3, <1>4 DEF DeleteClosed

LEMMA DeleteKidsKeeps ==
    ASSUME HostInv, ClosingInv, NEW t \in Workers, DeleteKids(t)
    PROVE  ClosingInv'
  <1>0. HostTypes
    BY DEF HostInv
  <1>1. PICK top : top = Top(t)
    OBVIOUS
  <1>2. /\ Busy(t) /\ top \in Frame /\ top.op = "delete" /\ top.at = "kids" /\ Fine(t, top)
        /\ UNCHANGED <<sessions, built>> /\ DeleteKnows(sessions, disk, top, {})
        /\ top.id \in Ids
    <2>1. At(t, "delete", "kids") /\ UNCHANGED <<sessions, built>>
      BY DEF DeleteKids
    <2>2. Busy(t) /\ top \in Frame /\ top.op = "delete" /\ top.at = "kids" /\ Fine(t, top)
      BY <1>1, <2>1, AtIs
    <2>3. DeleteKnows(sessions, disk, top, {})
      BY <1>1, <2>2, TopKnows DEF Knows
    <2>4. top.id \in Ids
      BY <2>2 DEF Frame
    <2> QED
      BY <2>1, <2>2, <2>3, <2>4
  <1>3. CASE Return(t, "error") /\ UNCHANGED <<runtimes, disk, deleted>>
    BY <1>1, <1>2, <1>3, DeletionFails
  <1>4. CASE /\ top.back \in {"none", "ok"} /\ top.kids = {}
             /\ disk' = [disk EXCEPT ![top.id] = NoFile]
             /\ deleted' = deleted \cup {top.id}
             /\ Return(t, "ok") /\ UNCHANGED runtimes
    <2>1. sessions[top.id] = 0 /\ (top.id = Main => \A c \in Children : ~disk[c].there)
      BY <1>2, <1>4 DEF DeleteKnows
    <2>2. ~disk'[top.id].there /\ \A j \in Ids \ {top.id} : disk'[j] = disk[j]
      BY <1>0, <1>2, <1>4, FilesAre, FileIs
    <2>3. \A j \in Ids : disk'[j].there => disk[j].there
      BY <2>2
    <2>4. Calm(sessions, runtimes, disk, sessions', runtimes', disk')
      BY <1>2, <1>4, <2>3, MainIs DEF Calm
    <2>5. \A i \in Ids : sessions'[i] # 0 => disk'[i].there
      BY <1>2, <2>1, <2>2 DEF ClosingInv, RegistryKnows
    <2>6. disk[Main].there /\ ~disk'[Main].there => \A c \in Children : ~disk'[c].there
      BY <2>1, <2>2, <2>3, MainIs
    <2>7. \A i \in Roots : \A g \in 1..MaxBuilds :
             runtimes'[i][g].life \in {"active", "closing"} => sessions'[i] = g
      BY <1>2, <1>4 DEF ClosingInv, RegistryKnows
    <2>8. \A i \in deleted' : i \in deleted \/ \A k \in {i} \cup Owned(i) : ~disk'[k].there
      BY <1>4, <2>1, <2>2, <2>3, MainIs DEF Owned
    <2>9. /\ built' = built /\ deleted' \subseteq Ids
          /\ \A i \in Ids : \A g \in 1..MaxBuilds :
               runtimes'[i][g].life \in {runtimes[i][g].life, "closed"}
      BY <1>0, <1>2, <1>4 DEF HostTypes
    <2>10. RegistryKnows(sessions', runtimes', built', disk', deleted')
      BY <1>0, <2>3, <2>4, <2>5, <2>6, <2>7, <2>8, <2>9, LessRegistry
    <2>11. Return(t, "ok") /\ "ok" \in Outcomes
      BY <1>4 DEF Outcomes
    <2> QED
      BY <1>1, <1>2, <2>2, <2>4, <2>10, <2>11, DeletionEndsKeeps
  <1>5. ASSUME NEW k \in top.kids, UNCHANGED <<disk, deleted>>, top.back \in {"none", "ok"},
               Delete(t, k, <<[top EXCEPT !.kids = @ \ {k}, !.back = "none"]>> \o Tail(stack[t]))
        PROVE  ClosingInv'
    <2>1. PICK own : own = top.kids \ {k}
      OBVIOUS
    <2>2. own \in SUBSET Ids /\ k \in Ids /\ Seen(k)
      BY <1>2, <2>1 DEF Frame, Fine, OtherFine
    <2>3. PICK g : g = [top EXCEPT !.kids = own, !.back = "none"]
      OBVIOUS
    <2>4. /\ g \in Frame /\ g.at = "kids" /\ g.kids = own /\ g.op = "delete" /\ g.id = top.id
          /\ g.held = top.held /\ g.back = "none"
      <3>1. g \in Frame
        BY <1>2, <2>2, <2>3 DEF Frame, Outcomes
      <3> QED
        BY <1>2, <2>3, <3>1 DEF Frame
    <2>5. /\ sessions[top.id] = 0
          /\ top.id = Main => \A c \in Children : c \in top.kids \/ ~disk[c].there
      BY <1>2, <1>5 DEF DeleteKnows
    <2>6. Stands(top, g)
      BY <1>2, <2>4 DEF Stands
    <2>7. ASSUME NEW d \in Frame, d.op = "delete", d.id = k
          PROVE  Knows(sessions, runtimes, disk, g, {d})
      <3>1. DeleteKnows(sessions, disk, g, {d})
        BY <2>1, <2>4, <2>5, <2>7 DEF DeleteKnows
      <3> QED
        BY <2>4, <3>1 DEF Knows, BuildKnows, CloseKnows
    <2>8. ASSUME NEW r \in {"duplicate", "starting", "closing"}
          PROVE  Knows(sessions, runtimes, disk, Told(g, r, 0), {})
      <3>1. r \in Outcomes /\ 0 \in Nat
        BY DEF Outcomes
      <3>2. PICK h : h = Told(g, r, 0)
        OBVIOUS
      <3>3. h.op = "delete" /\ h.at = "kids" /\ h.id = top.id /\ h.back = r
        BY <2>4, <3>1, <3>2, ToldIs
      <3>4. DeleteKnows(sessions, disk, h, {})
        BY <2>5, <3>3 DEF DeleteKnows
      <3> QED
        BY <3>2, <3>3, <3>4 DEF Knows, BuildKnows, CloseKnows
    <2>9. PICK rest : rest = <<g>> \o Tail(stack[t])
      OBVIOUS
    <2>10. stack[t] \in Seq(Frame) /\ stack[t] # <<>> /\ Tail(stack[t]) \in Seq(Frame)
      BY <1>0, <1>2 DEF HostTypes, Busy
    <2>11. rest \in Seq(Frame) /\ rest # <<>> /\ Head(rest) = g
      BY <2>4, <2>9, <2>10
    <2>12. BelowKnows(sessions, runtimes, disk, rest)
      <3>1. BelowKnows(sessions, runtimes, disk, stack[t])
        BY DEF ClosingInv, CallsKnow, StackKnows, BelowKnows
      <3> QED
        BY <1>1, <2>4, <2>6, <2>9, <2>10, <3>1, BelowGoes DEF Top
    <2>13. Delete(t, k, rest)
      BY <1>5, <2>1, <2>3, <2>9
    <2> QED
      BY <1>2, <1>5, <2>2, <2>7, <2>8, <2>11, <2>12, <2>13, DeleteKeeps
  <1> QED
    BY <1>1, <1>3, <1>4, <1>5 DEF DeleteKids

(***************************************************************************)
(* A future is dropped: what it was building is given up.                  *)
(***************************************************************************)
LEMMA DropCallKeeps ==
    ASSUME HostInv, ClosingInv, NEW t \in Tasks, DropCall(t)
    PROVE  ClosingInv'
  <1>0. HostTypes
    BY DEF HostInv
  <1>1. t \in Workers /\ Busy(t) /\ UNCHANGED <<sessions, built, disk, deleted>>
    BY DEF DropCall, Workers
  <1>2. PICK mine : mine = {stack[t][k] : k \in 1..Len(stack[t])}
    OBVIOUS
  <1>3. ASSUME NEW m \in mine
        PROVE  m \in Frame /\ Fine(t, m)
    BY <1>1, <1>2, MineIs
  <1> DEFINE Back(i, g) == /\ sessions[i] # g
                           /\ \E m \in mine : m.op = "build" /\ m.reserved /\ m.id = i /\ m.held = g
             E(i, g) == IF runtimes[i][g].gate = t
                        THEN [runtimes[i][g] EXCEPT !.gate = Free, !.running = FALSE,
                                                    !.closing = FALSE]
                        ELSE runtimes[i][g]
  <1>4. runtimes' = [i \in Ids |-> [g \in 1..MaxBuilds |-> IF Back(i, g) THEN Unused ELSE E(i, g)]]
    BY <1>2 DEF DropCall
  <1>5. ASSUME NEW i \in Ids, NEW g \in 1..MaxBuilds
        PROVE  \/ /\ runtimes'[i][g].life = runtimes[i][g].life
                  /\ runtimes'[i][g].owner = runtimes[i][g].owner
               \/ /\ runtimes[i][g].life \in {"starting", "closed"}
                  /\ runtimes'[i][g].life = "closed" /\ runtimes'[i][g].owner = 0
    <2>1. runtimes'[i][g] = IF Back(i, g) THEN Unused ELSE E(i, g)
      BY <1>4
    <2>2. CASE Back(i, g)
      <3>1. PICK m \in mine : m.op = "build" /\ m.reserved /\ m.id = i /\ m.held = g
        BY <2>2
      <3>2. m \in Frame /\ Fine(t, m) /\ m.held # 0 /\ sessions[m.id] # m.held
        BY <1>3, <2>2, <3>1
      <3>3. runtimes[i][g].life \in {"starting", "closed"}
        BY <3>1, <3>2, TakenBack
      <3>4. runtimes'[i][g] = Unused
        BY <2>1, <2>2
      <3> QED
        BY <3>3, <3>4, GivenUp
    <2>3. CASE ~Back(i, g)
      <3>1. runtimes[i][g] \in Runtime
        BY <1>0 DEF HostTypes
      <3>2. PICK q : q = runtimes[i][g]
        OBVIOUS
      <3>3. PICK e : e = [q EXCEPT !.gate = Free, !.running = FALSE, !.closing = FALSE]
        OBVIOUS
      <3>4. e.life = q.life /\ e.owner = q.owner
        BY <3>1, <3>2, <3>3 DEF Runtime
      <3>5. runtimes'[i][g] = IF q.gate = t THEN e ELSE q
        BY <2>1, <2>3, <3>2, <3>3
      <3> HIDE DEF E, Back
      <3> QED
        BY <3>2, <3>4, <3>5
    <2> QED
      BY <2>2, <2>3
  <1> HIDE DEF E, Back
  <1>6. Even
    BY <1>1, <1>5 DEF Even
  <1>7. PICK failed :
           /\ \A u \in failed : u # t /\ \E i, g : Joined(u, i, g)
           /\ stack' = [u \in Workers |-> CASE u = t -> <<>>
                                            [] u \in failed -> After(stack[u], "error", 0)
                                            [] OTHER -> stack[u]]
    <2> DEFINE Waiting == {u \in Workers \ {t} : \E f \in mine :
                      f.op = "run" /\ f.at # "gate" /\ Joined(u, f.id, f.held)
                        /\ runtimes[f.id][f.held].gate = t}
    <2>1. \A u \in Waiting : u # t /\ \E i, g : Joined(u, i, g)
      OBVIOUS
    <2>2. \E failed \in SUBSET Waiting :
             stack' = [u \in Workers |-> CASE u = t -> <<>>
                                           [] u \in failed -> After(stack[u], "error", 0)
                                           [] OTHER -> stack[u]]
      BY <1>2 DEF DropCall
    <2> HIDE DEF Waiting
    <2> QED
      BY <2>1, <2>2
  <1>8. ASSUME NEW u \in Workers
        PROVE  \/ stack'[u] = stack[u]
               \/ StackKnows(sessions', runtimes', disk', stack'[u])
    <2>1. CASE u = t
      <3>1. stack'[u] = <<>>
        BY <1>7, <2>1
      <3> QED
        BY <3>1 DEF StackKnows
    <2>2. CASE u # t /\ u \in failed
      <3>1. stack'[u] = After(stack[u], "error", 0)
        BY <1>7, <2>2
      <3>2. PICK i, g : Joined(u, i, g)
        BY <1>7, <2>2
      <3>3. "error" \in Outcomes /\ 0 \in Nat
        BY DEF Outcomes
      <3>4. StackKnows(sessions', runtimes', disk', After(stack[u], "error", 0))
        BY <1>6, <3>2, <3>3, QueuedKnow
      <3> QED
        BY <3>1, <3>4
    <2>3. CASE u # t /\ u \notin failed
      BY <1>7, <2>3
    <2> QED
      BY <2>1, <2>2, <2>3
  <1> QED
    BY <1>0, <1>6, <1>8, EvenStep

(***************************************************************************)
(* The invariant.                                                          *)
(***************************************************************************)
LEMMA InitKnows ==
    ASSUME Init
    PROVE  ClosingInv
  <1>0. PICK files \in {{Main}, {Main} \cup Children, Children} :
        \E live \in SUBSET (files \cap {Main}) :
         /\ disk = [i \in Ids |-> IF i \in files THEN NewFile ELSE NoFile]
         /\ built = [i \in Ids |-> IF i \in live THEN 1 ELSE 0]
         /\ sessions = built
         /\ runtimes = [i \in Ids |-> [g \in 1..MaxBuilds |->
              IF i \in live /\ g = 1 THEN [FreshRuntime(0, NewFile) EXCEPT !.life = "active"]
              ELSE Unused]]
    BY DEF Init
  <1>1. PICK live \in SUBSET (files \cap {Main}) :
         /\ disk = [i \in Ids |-> IF i \in files THEN NewFile ELSE NoFile]
         /\ built = [i \in Ids |-> IF i \in live THEN 1 ELSE 0]
         /\ sessions = built
         /\ runtimes = [i \in Ids |-> [g \in 1..MaxBuilds |->
              IF i \in live /\ g = 1 THEN [FreshRuntime(0, NewFile) EXCEPT !.life = "active"]
              ELSE Unused]]
    BY <1>0
  <1>2. \A i \in Ids : /\ i \in files => disk[i].there
                       /\ sessions[i] = built[i] /\ (i \in live => sessions[i] = 1)
                       /\ i \notin live => sessions[i] = 0
    BY <1>1 DEF NewFile, NoFile
  <1>3. \A i \in Ids : \A g \in 1..MaxBuilds :
            i \notin live \/ g # 1 => runtimes[i][g].life = "closed"
    BY <1>1, UnusedIs
  <1>4. Main \in Ids /\ Children \subseteq Ids /\ Roots \subseteq Ids /\ Main \notin Children
    BY MainIs DEF Ids
  <1>5. \A i \in Ids : i \in live => i = Main /\ i \in files
    BY <1>1
  <1>6. \A c \in Children : sessions[c] = 0
    BY <1>2, <1>4, <1>5
  <1>7. \A i \in Ids : \A g \in 1..MaxBuilds : g > built[i] => runtimes[i][g].life = "closed"
    <2>1. ASSUME NEW i \in Ids, NEW g \in 1..MaxBuilds, g > built[i]
          PROVE  i \notin live \/ g # 1
      <3>1. i \in live => built[i] = 1
        BY <1>2
      <3> QED
        BY <2>1, <3>1
    <2> QED
      BY <1>3, <2>1
  <1>8. \A i \in Roots : \A g \in 1..MaxBuilds :
            runtimes[i][g].life \in {"active", "closing"} => sessions[i] = g
    BY <1>2, <1>3, <1>4
  <1>9. built[Main] > 0 => disk[Main].there
    <2>1. Main \notin live => built[Main] = 0
      BY <1>2, <1>4
    <2> QED
      BY <1>2, <1>4, <1>5, <2>1
  <1>10. \A i \in Ids : sessions[i] # 0 => disk[i].there
    BY <1>2, <1>5
  <1>11. deleted = {} /\ \A t \in Workers : Len(stack[t]) = 0
    BY DEF Init
  <1>12. CallsKnow
    BY <1>11 DEF CallsKnow, StackKnows
  <1>13. \A c \in Children : \A g : ~Live(sessions, runtimes, c, g)
    BY <1>6 DEF Live
  <1>14. RegistryKnows(sessions, runtimes, built, disk, deleted)
    BY <1>7, <1>8, <1>9, <1>10, <1>11, <1>13 DEF RegistryKnows
  <1> QED
    BY <1>12, <1>14 DEF ClosingInv

LEMMA ArriveKnows ==
    ASSUME HostInv, ClosingInv, NEW t \in Tasks, Arrive(t)
    PROVE  ClosingInv'
  <1>1. ASSUME NEW i \in Ids, Known(i),
               \/ ResumeSession(t, i) \/ RunPrompt(t, i) \/ CancelSession(t, i)
               \/ CloseSession(t, i) \/ DeleteSession(t, i)
               \/ SetSessionTitle(t, i) \/ SetSetting(t, i)
        PROVE  ClosingInv'
    <2>1. Seen(i)
      BY <1>1 DEF Known, Seen
    <2> QED
      BY <1>1, <2>1, ResumeSessionKeeps, RunPromptKeeps, CancelSessionKeeps, CloseSessionKeeps,
         DeleteSessionKeeps, SetSessionTitleKeeps, SetSettingKeeps
  <1>2. ASSUME NEW i \in Roots, CreateSession(t, i) \/ \E source \in Roots : ForkSession(t, source, i)
        PROVE  ClosingInv'
    BY <1>2, CreateSessionKeeps, ForkSessionKeeps
  <1>3. ASSUME NEW i \in Children, CreateOwned(t, i)
        PROVE  ClosingInv'
    BY <1>3, CreateOwnedKeeps
  <1> QED
    BY <1>1, <1>2, <1>3 DEF Arrive

LEMMA ContinueKnows ==
    ASSUME HostInv, ClosingInv, NEW t \in Workers, Continue(t)
    PROVE  ClosingInv'
  <1>1. CASE \/ ForkStore(t) \/ ResumeNested(t) \/ ResumeLive(t) \/ AcquireOperation(t)
             \/ ResumeOwner(t) \/ OwnerGuard(t) \/ BuildSession(t) \/ BeforeSwitch(t)
             \/ RegisterSession(t) \/ StartExtensions(t) \/ CheckpointStarted(t) \/ NameChild(t)
    BY <1>1, ForkStoreKeeps, ResumeNestedKeeps, ResumeLiveKeeps, AcquireOperationKeeps,
       ResumeOwnerKeeps, OwnerGuardKeeps, BuildSessionKeeps, BeforeSwitchKeeps,
       RegisterSessionKeeps, StartExtensionsKeeps, CheckpointStartedKeeps, NameChildKeeps
  <1>2. CASE \/ StartRun(t) \/ RunCancelled(t) \/ SubmitCancelled(t) \/ SubmitIdle(t)
             \/ DelegateTask(t) \/ SubagentResult(t)
             \/ SpawnReporter(t) \/ ReportStart(t) \/ ReportAnswer(t) \/ ReportReply(t)
             \/ ReportSent(t)
    BY <1>2, StartRunKeeps, RunCancelledKeeps, SubmitCancelledKeeps, SubmitIdleKeeps,
       DelegateTaskKeeps, SubagentResultKeeps, SpawnReporterKeeps, ReportStartKeeps,
       ReportAnswerKeeps, ReportReplyKeeps, ReportSentKeeps
  <1>3. CASE \/ CloseGate(t) \/ BeginClosing(t) \/ CloseChildren(t)
             \/ JoinReporters(t) \/ FinishClosing(t) \/ DeleteClosed(t) \/ DeleteKids(t)
    BY <1>3, CloseGateKeeps, BeginClosingKeeps, CloseChildrenKeeps, JoinReportersKeeps,
       FinishClosingKeeps, DeleteClosedKeeps, DeleteKidsKeeps
  <1>4. CASE \/ RenameAgain(t) \/ RenameLive(t) \/ RenameStored(t) \/ WaitForClose(t)
             \/ CloseSettled(t) \/ WaitForReservation(t) \/ PersistSetting(t)
    BY <1>4, RenameAgainKeeps, RenameLiveKeeps, RenameStoredKeeps, WaitForCloseKeeps,
       CloseSettledKeeps, WaitForReservationKeeps, PersistSettingKeeps
  <1> QED
    BY <1>1, <1>2, <1>3, <1>4 DEF Continue

LEMMA NextKnows ==
    ASSUME HostInv, ClosingInv, [Next]_vars
    PROVE  ClosingInv'
  <1>0. Tasks \subseteq Workers
    BY DEF Workers
  <1>1. CASE UNCHANGED vars
    <2>1. UNCHANGED <<sessions, runtimes, built, disk, stack, deleted>>
      BY <1>1 DEF vars
    <2> QED
      BY <2>1 DEF ClosingInv, CallsKnow
  <1>2. ASSUME NEW t \in Tasks, Arrive(t) \/ DropCall(t) PROVE ClosingInv'
    BY <1>2, ArriveKnows, DropCallKeeps
  <1>3. ASSUME NEW t \in Workers, Continue(t) \/ RunAnswers(t) \/ CloseWaitTimesOut(t)
        PROVE  ClosingInv'
    BY <1>3, ContinueKnows, RunAnswersKeeps, CloseWaitTimesOutKeeps
  <1>4. ASSUME NEW t \in Tasks, NEW i \in Children, Subagent(t, i) \/ Background(t, i)
        PROVE  ClosingInv'
    BY <1>0, <1>4, SubagentKeeps, BackgroundKeeps
  <1>5. ASSUME NEW t \in Workers, ForkRepairs(t) PROVE ClosingInv'
    BY <1>5, ForkRepairsKeeps
  <1> QED
    BY <1>1, <1>2, <1>3, <1>4, <1>5 DEF Next

\* What closes and deletions know while they work through the children holds in
\* every state: close_session past begin_closing still has to visit every active
\* child that shares its MCP connection, or waits for the close of it, and
\* delete_session still has to delete every child that has a file, or waits for
\* its deletion, however calls that create or resume children overlap with them.
THEOREM ClosesKnowTheirChildren == Spec => [](HostInv /\ ClosingInv)
  <1>1. Init => HostInv /\ ClosingInv
    BY InitHolds, InitKnows
  <1>2. (HostInv /\ ClosingInv) /\ [Next]_vars => (HostInv /\ ClosingInv)'
    BY NextHolds, NextKnows
  <1> QED
    BY <1>1, <1>2, PTL DEF Spec

\* No active child is left whose owner's runtime was closed: close_session takes
\* every child with it, also one that was being created, resumed or checkpointed
\* when the close began, for any Sessions, callers and reporters.
THEOREM ChildrenAreClosedFirst == Spec => []ChildrenGoFirst
  <1>1. HostInv /\ ClosingInv => ChildrenGoFirst
    <2> SUFFICES ASSUME HostInv, ClosingInv, NEW c \in Children, sessions[c] # 0,
                        runtimes[c][sessions[c]].life = "active",
                        runtimes[c][sessions[c]].owner # 0
                 PROVE  runtimes[Main][runtimes[c][sessions[c]].owner].life # "closed"
      BY DEF ChildrenGoFirst
    <2>1. PICK g : g = runtimes[c][sessions[c]].owner
      OBVIOUS
    <2>2. runtimes[c][sessions[c]] \in Runtime
      BY MainIs, HostAssumption DEF HostInv, HostTypes
    <2>3. g \in Nat /\ g # 0
      BY <2>1, <2>2 DEF Runtime
    <2>4. Live(sessions, runtimes, c, g)
      BY <2>1 DEF Live
    <2>5. runtimes[Main][g].life \in {"active", "closing"}
      BY <2>3, <2>4 DEF ClosingInv, RegistryKnows
    <2> QED
      BY <2>1, <2>5
  <1> QED
    BY <1>1, ClosesKnowTheirChildren, PTL

\* What delete_session has deleted stays gone: neither it nor any child it owned
\* has a file or a registered runtime in any later state, also when the deletion
\* ran beside calls that resume or name them.
THEOREM DeletionIsComplete == Spec => []DeletedIsGone
  <1>1. HostInv /\ ClosingInv => DeletedIsGone
    <2> SUFFICES ASSUME HostInv, ClosingInv, NEW i \in deleted, NEW k \in {i} \cup Owned(i)
                 PROVE  ~disk[k].there /\ sessions[k] = 0
      BY DEF DeletedIsGone
    <2>1. k \in Ids
      BY MainIs DEF HostInv, HostTypes, Owned
    <2>2. ~disk[k].there
      BY DEF ClosingInv, RegistryKnows
    <2>3. sessions[k] # 0 => disk[k].there
      BY <2>1 DEF ClosingInv, RegistryKnows
    <2> QED
      BY <2>2, <2>3
  <1> QED
    BY <1>1, ClosesKnowTheirChildren, PTL
=============================================================================
