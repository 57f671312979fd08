------------------------ MODULE SessionHost_proofs ------------------------
(***************************************************************************)
(* One writer per file, and memory that matches it: the proof for any      *)
(* Sessions, callers and reporters, and any number of calls, runtimes and  *)
(* mishaps.                                                                *)
(*                                                                         *)
(* A call knows what its place in the code promises it (Fine): whoever     *)
(* builds a runtime has the reservation of its id and the runtime is       *)
(* registered by nobody; whoever was given a runtime by the registry has   *)
(* one that is registered, closed, or has lost its file for good.  Three   *)
(* things belong to one call at a time: the reservation of an id, a new    *)
(* identifier that has no file yet, and the gate of a runtime (Clash).     *)
(***************************************************************************)
EXTENDS SessionHost, SequenceTheorems, FiniteSetTheorems, TLAPS

\* The p-th call of a stack, counted from the call its task began with, so that
\* a call keeps its number while others come and go above it.
Nth(s, p) == s[Len(s) + 1 - p]

\* The id was given out: a file, a runtime or a deletion of it exists or existed.
Seen(i) == disk[i].there \/ built[i] > 0 \/ i \in deleted

\* A call that holds a runtime it builds and has not registered, one that holds an
\* identifier that nothing has yet, and one that holds the gate.
Building(f) == /\ f.op = "build" /\ f.held # 0
               /\ f.at \in {"owner", "guard", "build", "hook", "register"}
Unborn(f)   == f.op = "build" /\ f.at \in {"fork", "guard"} /\ f.held = 0
Holding(f)  == \/ f.op = "run" /\ f.at \in {"running", "delegate", "answer", "manage"}
               \/ f.op = "close" /\ f.at \in {"creation", "children", "join", "hook"}

\* Two calls claim what only one of them can have.
Clash(f, g) == /\ f.id = g.id
               /\ \/ f.reserved /\ g.reserved
                  \/ Unborn(f) /\ Unborn(g)
                  \/ Holding(f) /\ Holding(g) /\ f.held = g.held

Matches(r, file) ==
    file.there /\ ~r.loose => r.title = file.title /\ r.setting = file.setting

\* What a call of build_session knows at its await.
BuildFine(f) ==
    /\ f.at \in {"fork", "look", "switch", "gate", "owner", "guard", "build", "hook",
                 "register", "start", "checkpoint", "name"}
    /\ f.at \in {"fork", "look"} => f.held = 0 /\ ~f.reserved
    /\ f.at = "look" => f.why = "resume"
    /\ f.at \in {"switch", "gate"} => f.held # 0 /\ ~f.reserved
    /\ f.at = "owner" => f.held # 0 /\ f.why = "resume" /\ \A k \in f.kids : Seen(k)
    /\ f.at = "guard" => /\ f.owner \in 1..MaxBuilds
                         /\ IF f.held = 0 THEN f.why = "spawn" /\ ~f.reserved
                                          ELSE f.why = "resume"
    /\ f.at \in {"build", "hook", "register"} => f.held # 0
    /\ f.at \in {"start", "checkpoint"} =>
          /\ f.held # 0 /\ f.reserved
          /\ sessions[f.id] = f.held /\ runtimes[f.id][f.held].life = "starting"
    /\ f.at = "name" =>
          /\ f.held # 0 /\ f.reserved /\ f.why = "spawn"
          /\ \/ sessions[f.id] = f.held
             \/ sessions[f.id] = 0 /\ runtimes[f.id][f.held].life = "closed"
    /\ Building(f) =>
          /\ f.reserved /\ sessions[f.id] = 0
          /\ runtimes[f.id][f.held].life = "starting" /\ disk[f.id].there
          /\ Matches(runtimes[f.id][f.held], disk[f.id])
    /\ Unborn(f) => ~Seen(f.id) /\ f.id \notin pending

\* What the other calls know.
OtherFine(f) ==
    /\ f.op = "close" => /\ f.at \in {"gate", "creation", "children", "join", "hook"}
                         /\ f.held # 0 /\ ~f.reserved
    /\ f.op = "run" =>
          /\ f.at \in {"gate", "queued", "idle", "running", "delegate", "answer", "manage"}
          /\ f.held # 0 /\ ~f.reserved
    /\ f.op = "rename" =>
          /\ f.at \in {"look", "lock", "closing", "wait", "store", "await"}
          /\ f.at \in {"lock", "await"} => f.held # 0
          /\ IF f.at = "store" THEN f.reserved /\ sessions[f.id] = 0 /\ f.held = 0
                               ELSE ~f.reserved
    /\ f.op = "set" => f.at = "signin" /\ f.held # 0 /\ ~f.reserved
    /\ f.op = "report" => f.held = 0 /\ ~f.reserved
    /\ f.op = "delete" => /\ f.at \in {"closed", "kids"}
                          /\ f.held = 0 /\ f.reserved
                          /\ f.at = "kids" => \A k \in f.kids : Seen(k)

\* Who holds the gate of a runtime has it open or closing.
GateFine(t, f) ==
    Holding(f) => /\ runtimes[f.id][f.held].gate = t
                  /\ runtimes[f.id][f.held].life \in {"active", "closing"}

\* A runtime that a call did not build itself is past its startup; as long as it is
\* open it is registered, or no runtime is and there is no file.
HeldFine(f) ==
    f.held # 0 /\ ~Building(f) /\ ~(f.op = "build" /\ f.at \in {"start", "checkpoint"}) =>
        /\ runtimes[f.id][f.held].life # "starting"
        /\ \/ runtimes[f.id][f.held].life = "closed"
           \/ sessions[f.id] = f.held
           \/ sessions[f.id] = 0 /\ ~disk[f.id].there

Fine(t, f) ==
    /\ f.held <= built[f.id]
    /\ f.reserved => f.id \in pending
    /\ f.op = "build" => BuildFine(f)
    /\ OtherFine(f) /\ GateFine(t, f) /\ HeldFine(f)

\* What holds of every call, and of any two.
CallsFine ==
    \A t \in Workers : \A p \in 1..Len(stack[t]) : Fine(t, Nth(stack[t], p))
NoClash ==
    \A t, u \in Workers : \A p \in 1..Len(stack[t]), q \in 1..Len(stack[u]) :
        Clash(Nth(stack[t], p), Nth(stack[u], q)) => t = u /\ p = q

HostTypes ==
    /\ sessions \in [Ids -> 0..MaxBuilds]
    /\ pending \subseteq Ids
    /\ runtimes \in [Ids -> [1..MaxBuilds -> Runtime]]
    /\ built \in [Ids -> 0..MaxBuilds]
    /\ disk \in [Ids -> [there : BOOLEAN, title : BOOLEAN, setting : BOOLEAN]]
    /\ stack \in [Workers -> Seq(Frame)]
    /\ deleted \subseteq Ids

\* What holds of every id.
Registered ==
    \A i \in Ids :
        /\ sessions[i] <= built[i]
        /\ sessions[i] # 0 => Matches(runtimes[i][sessions[i]], disk[i])
        /\ \A g \in 1..MaxBuilds : runtimes[i][g].closing => runtimes[i][g].life # "starting"

HostInv == HostTypes /\ Registered /\ CallsFine /\ NoClash

(***************************************************************************)
(* Stacks.                                                                 *)
(***************************************************************************)
\* Two frames of the same call at the same await: only what the last call it made
\* returned may differ.
Same(f, g) ==
    /\ f.op = g.op /\ f.why = g.why /\ f.at = g.at /\ f.id = g.id /\ f.held = g.held
    /\ f.reserved = g.reserved /\ f.owner = g.owner /\ f.guard = g.guard
    /\ f.kids = g.kids /\ f.bad = g.bad

\* A frame on top of a stack is its last call, and the others keep their numbers.
LEMMA OnTop ==
    ASSUME NEW S, NEW r \in Seq(S), NEW g \in S
    PROVE  /\ <<g>> \o r \in Seq(S) /\ Len(<<g>> \o r) = Len(r) + 1
           /\ Nth(<<g>> \o r, Len(r) + 1) = g
           /\ \A p \in 1..Len(r) : Nth(<<g>> \o r, p) = Nth(r, p)
  BY DEF Nth

\* So do those below the top.
LEMMA Below ==
    ASSUME NEW S, NEW s \in Seq(S), s # <<>>
    PROVE  /\ Tail(s) \in Seq(S) /\ Len(Tail(s)) = Len(s) - 1 /\ Len(s) \in Nat \ {0}
           /\ Nth(s, Len(s)) = Head(s) /\ Head(s) \in S
           /\ \A p \in 1..(Len(s) - 1) : Nth(Tail(s), p) = Nth(s, p)
  BY DEF Nth

LEMMA NthType ==
    ASSUME NEW S, NEW s \in Seq(S), NEW p \in 1..Len(s)
    PROVE  Nth(s, p) \in S
  BY DEF Nth

\* What a returning call leaves: the calls below it, the first of them with the
\* outcome.
LEMMA AfterKeeps ==
    ASSUME NEW s \in Seq(Frame), s # <<>>, NEW r \in Outcomes, NEW n \in Nat
    PROVE  /\ After(s, r, n) \in Seq(Frame) /\ Len(After(s, r, n)) = Len(s) - 1
           /\ \A p \in 1..(Len(s) - 1) : Same(Nth(s, p), Nth(After(s, r, n), p))
  <1> DEFINE h == [s[2] EXCEPT !.back = r, !.answer = n]
             b == SubSeq(s, 3, Len(s))
  <1>0. Len(s) \in Nat \ {0}
    OBVIOUS
  <1>1. CASE Len(s) = 1
    BY <1>1 DEF After
  <1>2. CASE Len(s) # 1
    <2>0. Len(s) >= 2 /\ 2 \in 1..Len(s) /\ 3 \in Int /\ Len(s) \in Int
      BY <1>0, <1>2
    <2>1. s[2] \in Frame /\ Len(s) >= 2
      BY <2>0, ElementOfSeq
    <2>2. \A q \in Frame : /\ [q EXCEPT !.back = r, !.answer = n] \in Frame
                           /\ Same(q, [q EXCEPT !.back = r, !.answer = n])
      BY DEF Frame, Same
    <2>3. h \in Frame /\ Same(s[2], h)
      BY <2>1, <2>2
    <2>4. /\ b \in Seq(Frame) /\ Len(b) = Len(s) - 2
          /\ \A k \in 1..(Len(s) - 2) : b[k] = s[k + 2]
      <3>1. \A i \in 3..Len(s) : s[i] \in Frame
        BY <2>0, ElementOfSeq
      <3>2. /\ b \in Seq(Frame) /\ Len(b) = IF 3 <= Len(s) THEN Len(s) - 3 + 1 ELSE 0
            /\ \A i \in 1..(Len(s) - 3 + 1) : b[i] = s[3 + i - 1]
        BY <2>0, <3>1, SubSeqProperties
      <3> HIDE DEF b
      <3>3. Len(b) = Len(s) - 2
        <4>1. \A m \in Nat : m >= 2 => (IF 3 <= m THEN m - 3 + 1 ELSE 0) = m - 2
          OBVIOUS
        <4> QED
          BY <1>0, <2>0, <3>2, <4>1
      <3>4. ASSUME NEW k \in 1..(Len(s) - 2)
            PROVE  b[k] = s[k + 2]
        <4>1. k \in 1..(Len(s) - 3 + 1) /\ 3 + k - 1 = k + 2
          BY <2>0
        <4> QED
          BY <3>2, <4>1
      <3> QED
        BY <3>2, <3>3, <3>4
    <2>5. \A p \in 1..(Len(s) - 2) : Nth(b, p) = Nth(s, p)
      BY <2>1, <2>4 DEF Nth
    <2> HIDE DEF h, b
    <2>6. After(s, r, n) = <<h>> \o b
      BY <1>2 DEF After, h, b
    <2>7. /\ <<h>> \o b \in Seq(Frame) /\ Len(<<h>> \o b) = Len(s) - 1
          /\ Nth(<<h>> \o b, Len(s) - 1) = h
          /\ \A p \in 1..(Len(s) - 2) : Nth(<<h>> \o b, p) = Nth(s, p)
      BY <2>1, <2>3, <2>4, <2>5, OnTop
    <2>8. Nth(s, Len(s) - 1) = s[2]
      BY <2>1 DEF Nth
    <2>9. \A p \in 1..(Len(s) - 2) : Same(Nth(s, p), Nth(s, p))
      BY DEF Same
    <2> QED
      BY <2>1, <2>3, <2>6, <2>7, <2>8, <2>9
  <1> QED
    BY <1>1, <1>2

\* x is s with its first base calls kept and the calls new on top of them, up to
\* what calls returned.
Grown(s, base, new, x) ==
    /\ x \in Seq(Frame) /\ base \in 0..Len(s) /\ Len(x) = base + Len(new)
    /\ \A p \in 1..base : Same(Nth(s, p), Nth(x, p))
    /\ \A q \in 1..Len(new) : Same(new[q], Nth(x, base + q))

\* The frame of a reporter holds nothing.
Report(f) == f.op = "report" /\ f.held = 0 /\ ~f.reserved

\* A step of task t; other tasks keep their calls, or some of them, or become
\* reporters.
Step(t, base, new) ==
    /\ stack' \in [Workers -> Seq(Frame)]
    /\ Grown(stack[t], base, new, stack'[t])
    /\ \A u \in Workers \ {t} :
          \/ \E b \in 0..Len(stack[u]) : Grown(stack[u], b, <<>>, stack'[u])
          \/ \E g \in Frame : Report(g) /\ stack'[u] = <<g>>

LEMMA SameIsEquivalence ==
    /\ \A f : Same(f, f)
    /\ \A f, g, h : Same(f, g) /\ Same(g, h) => Same(f, h)
  BY DEF Same

LEMMA GrownWhole ==
    ASSUME NEW s \in Seq(Frame)
    PROVE  Grown(s, Len(s), <<>>, s)
  BY SameIsEquivalence DEF Grown

LEMMA GrownTail ==
    ASSUME NEW s \in Seq(Frame), s # <<>>
    PROVE  Grown(s, Len(s) - 1, <<>>, Tail(s))
  <1>1. /\ Tail(s) \in Seq(Frame) /\ Len(Tail(s)) = Len(s) - 1 /\ Len(s) \in Nat \ {0}
        /\ \A p \in 1..(Len(s) - 1) : Nth(Tail(s), p) = Nth(s, p)
    BY Below
  <1>2. \A p \in 1..(Len(s) - 1) : Same(Nth(s, p), Nth(Tail(s), p))
    BY <1>1, SameIsEquivalence
  <1> QED
    BY <1>1, <1>2 DEF Grown

LEMMA GrownPush ==
    ASSUME NEW s \in Seq(Frame), NEW base, NEW new \in Seq(Frame), NEW x, NEW g \in Frame,
           Grown(s, base, new, x)
    PROVE  Grown(s, base, Append(new, g), <<g>> \o x)
  <1>1. /\ x \in Seq(Frame) /\ base \in 0..Len(s) /\ base \in Nat /\ Len(x) = base + Len(new)
        /\ Len(new) \in Nat
    BY DEF Grown
  <1>2. /\ <<g>> \o x \in Seq(Frame) /\ Len(<<g>> \o x) = Len(x) + 1
        /\ Nth(<<g>> \o x, Len(x) + 1) = g
        /\ \A p \in 1..Len(x) : Nth(<<g>> \o x, p) = Nth(x, p)
    BY <1>1, OnTop
  <1>3. /\ Len(Append(new, g)) = Len(new) + 1
        /\ \A q \in 1..Len(new) : Append(new, g)[q] = new[q]
        /\ Append(new, g)[Len(new) + 1] = g
    BY <1>1
  <1>4. ASSUME NEW p \in 1..base
        PROVE  Same(Nth(s, p), Nth(<<g>> \o x, p))
    <2>1. p \in 1..Len(x)
      BY <1>1
    <2>2. Nth(<<g>> \o x, p) = Nth(x, p)
      BY <2>1, <1>2
    <2> QED
      BY <2>2 DEF Grown
  <1>5. ASSUME NEW q \in 1..(Len(new) + 1)
        PROVE  Same(Append(new, g)[q], Nth(<<g>> \o x, base + q))
    <2>1. CASE q = Len(new) + 1
      <3>1. base + q = Len(x) + 1
        BY <1>1, <2>1
      <3> QED
        BY <2>1, <3>1, <1>2, <1>3, SameIsEquivalence
    <2>2. CASE q # Len(new) + 1
      <3>1. q \in 1..Len(new) /\ base + q \in 1..Len(x)
        BY <1>1, <2>2
      <3> QED
        BY <3>1, <1>2, <1>3 DEF Grown
    <2> QED
      BY <2>1, <2>2
  <1> QED
    BY <1>1, <1>2, <1>3, <1>4, <1>5, SMTT(30) DEF Grown

\* A call returns: one of the new calls goes, or one of the old.
LEMMA GrownAfter ==
    ASSUME NEW s \in Seq(Frame), NEW base, NEW new \in Seq(Frame), NEW x, x # <<>>,
           Grown(s, base, new, x), NEW r \in Outcomes, NEW n \in Nat
    PROVE  /\ new = <<>> => Grown(s, base - 1, <<>>, After(x, r, n))
           /\ \A old \in Seq(Frame), g \in Frame : new = Append(old, g) =>
                 Grown(s, base, old, After(x, r, n))
  <1> DEFINE y == After(x, r, n)
  <1>1. /\ x \in Seq(Frame) /\ base \in 0..Len(s) /\ base \in Nat /\ Len(x) = base + Len(new)
        /\ Len(new) \in Nat /\ Len(x) \in Nat \ {0}
    BY DEF Grown
  <1>2. /\ y \in Seq(Frame) /\ Len(y) = Len(x) - 1
        /\ \A p \in 1..(Len(x) - 1) : Same(Nth(x, p), Nth(y, p))
    BY <1>1, AfterKeeps
  <1> HIDE DEF y
  <1>3. CASE new = <<>>
    <2>1. base - 1 \in 0..Len(s) /\ Len(x) = base /\ Len(<<>>) = 0 /\ Len(y) = base - 1
      BY <1>1, <1>2, <1>3
    <2>2. \A p \in 1..(base - 1) : Same(Nth(s, p), Nth(x, p)) /\ Same(Nth(x, p), Nth(y, p))
      BY <1>1, <1>2, <2>1 DEF Grown
    <2>3. \A p \in 1..(base - 1) : Same(Nth(s, p), Nth(y, p))
      BY <2>2, SameIsEquivalence
    <2>4. Grown(s, base - 1, <<>>, y)
      BY <1>2, <2>1, <2>3 DEF Grown
    <2>5. \A old \in Seq(Frame), g \in Frame : new # Append(old, g)
      BY <1>3
    <2> QED
      BY <2>4, <2>5 DEF y
  <1>4. ASSUME NEW old \in Seq(Frame), NEW g \in Frame, new = Append(old, g)
        PROVE  Grown(s, base, old, y)
    <2>1. /\ Len(old) \in Nat /\ Len(new) = Len(old) + 1
          /\ \A q \in 1..Len(old) : new[q] = old[q] /\ q \in 1..Len(new)
      BY <1>4
    <2>2. \A p \in 1..base : Same(Nth(s, p), Nth(x, p)) /\ Same(Nth(x, p), Nth(y, p))
      BY <1>1, <1>2, <2>1 DEF Grown
    <2>3. ASSUME NEW q \in 1..Len(old)
          PROVE  Same(old[q], Nth(x, base + q)) /\ Same(Nth(x, base + q), Nth(y, base + q))
      <3>1. base + q \in 1..(Len(x) - 1)
        BY <1>1, <2>1
      <3> QED
        BY <1>2, <2>1, <3>1 DEF Grown
    <2>4. Len(y) = base + Len(old)
      BY <1>1, <1>2, <2>1
    <2>5. /\ \A p \in 1..base : Same(Nth(s, p), Nth(y, p))
          /\ \A q \in 1..Len(old) : Same(old[q], Nth(y, base + q))
      BY <2>2, <2>3, SameIsEquivalence
    <2> QED
      BY <1>1, <1>2, <2>4, <2>5 DEF Grown
  <1>5. new = <<>> => Grown(s, base - 1, <<>>, y)
    BY <1>3 DEF y
  <1> QED
    BY <1>4, <1>5 DEF y

(***************************************************************************)
(* What a step has to show: the calls it keeps stay fine, the calls it     *)
(* makes are fine and clash with none.                                     *)
(***************************************************************************)
LEMMA FineSame ==
    ASSUME NEW t, NEW f, NEW g, Same(f, g), Fine(t, f)'
    PROVE  Fine(t, g)'
  BY DEF Same, Fine, BuildFine, OtherFine, GateFine, HeldFine, Building, Unborn, Holding

LEMMA ClashSame ==
    ASSUME NEW f, NEW g, NEW h, NEW k, Same(f, g), Same(h, k), Clash(g, k)
    PROVE  Clash(f, h)
  BY DEF Same, Clash, Unborn, Holding

LEMMA ClashSymmetric ==
    ASSUME NEW f, NEW g, Clash(f, g)
    PROVE  Clash(g, f)
  BY DEF Clash

LEMMA FramesAre ==
    ASSUME HostTypes, NEW t \in Workers, NEW p \in 1..Len(stack[t])
    PROVE  Nth(stack[t], p) \in Frame /\ Nth(stack[t], p) \in Frames
  <1>1. stack[t] \in Seq(Frame) /\ Len(stack[t]) \in Nat
    BY DEF HostTypes
  <1>2. Len(stack[t]) + 1 - p \in 1..Len(stack[t])
    BY <1>1
  <1> QED
    BY <1>1, <1>2, NthType DEF Nth, Frames

\* Where a call of the new state comes from.
LEMMA Origin ==
    ASSUME HostTypes, NEW t \in Workers, NEW base, NEW new \in Seq(Frame), Step(t, base, new),
           NEW u \in Workers, NEW p \in 1..Len(stack'[u])
    PROVE  \/ /\ p \in 1..Len(stack[u]) /\ (u # t \/ p <= base)
              /\ Same(Nth(stack[u], p), Nth(stack'[u], p))
           \/ /\ u = t /\ base \in Nat /\ p - base \in 1..Len(new)
              /\ Same(new[p - base], Nth(stack'[u], p))
           \/ Nth(stack'[u], p) \in Frame /\ Report(Nth(stack'[u], p))
  <1>1. stack[u] \in Seq(Frame) /\ Len(stack[u]) \in Nat /\ Len(new) \in Nat
    BY DEF HostTypes
  <1>4. ASSUME NEW g \in Frame, Report(g), stack'[u] = <<g>>
        PROVE  Nth(stack'[u], p) \in Frame /\ Report(Nth(stack'[u], p))
    BY <1>4 DEF Nth
  <1>2. CASE u # t /\ \E b \in 0..Len(stack[u]) : Grown(stack[u], b, <<>>, stack'[u])
    <2>1. PICK b \in 0..Len(stack[u]) : Grown(stack[u], b, <<>>, stack'[u])
      BY <1>2
    <2>2. Len(stack'[u]) = b + 0 /\ b \in Nat
      BY <2>1 DEF Grown
    <2>3. p \in 1..b /\ p \in 1..Len(stack[u])
      BY <1>1, <2>1, <2>2
    <2> QED
      BY <1>2, <2>1, <2>3 DEF Grown
  <1>3. CASE u = t
    <2>1. Grown(stack[u], base, new, stack'[u])
      BY <1>3 DEF Step
    <2>2. base \in 0..Len(stack[u]) /\ base \in Nat /\ Len(stack'[u]) = base + Len(new)
      BY <2>1 DEF Grown
    <2>3. CASE p <= base
      <3>1. p \in 1..base /\ p \in 1..Len(stack[u])
        BY <1>1, <2>2, <2>3
      <3> QED
        BY <2>1, <2>3, <3>1 DEF Grown
    <2>4. CASE ~(p <= base)
      <3>1. p - base \in 1..Len(new) /\ base + (p - base) = p
        BY <1>1, <2>2, <2>4
      <3> QED
        BY <1>3, <2>1, <2>2, <3>1 DEF Grown
    <2> QED
      BY <2>3, <2>4
  <1> QED
    BY <1>2, <1>3, <1>4 DEF Step

LEMMA Preserve ==
    ASSUME HostTypes, HostTypes', CallsFine, NoClash,
           NEW t \in Workers, NEW base, NEW new \in Seq(Frame), Step(t, base, new),
           \A u \in Workers : \A p \in 1..Len(stack[u]) : \A f \in Frame :
               (u # t \/ p <= base) /\ f = Nth(stack[u], p) =>
                   Fine(u, f)' /\ \A q \in 1..Len(new) : ~Clash(new[q], f),
           \A q \in 1..Len(new) : Fine(t, new[q])',
           \A q, r \in 1..Len(new) : Clash(new[q], new[r]) => q = r
    PROVE  CallsFine' /\ NoClash'
  <1>1. ASSUME NEW u \in Workers, NEW p \in 1..Len(stack'[u]), NEW f, f = Nth(stack'[u], p)
        PROVE  Fine(u, f)'
    <2>1. CASE /\ p \in 1..Len(stack[u]) /\ (u # t \/ p <= base)
               /\ Same(Nth(stack[u], p), Nth(stack'[u], p))
      <3>1. PICK g \in Frame : g = Nth(stack[u], p)
        BY <2>1, FramesAre
      <3>2. Fine(u, g)' /\ Same(g, f)
        BY <1>1, <2>1, <3>1
      <3> QED
        BY <3>2, FineSame
    <2>2. CASE /\ u = t /\ base \in Nat /\ p - base \in 1..Len(new)
               /\ Same(new[p - base], Nth(stack'[u], p))
      <3>1. PICK g : g = new[p - base]
        OBVIOUS
      <3>2. Fine(u, g)' /\ Same(g, f)
        BY <1>1, <2>2, <3>1
      <3> QED
        BY <3>2, FineSame
    <2>3. CASE Nth(stack'[u], p) \in Frame /\ Report(Nth(stack'[u], p))
      <3>1. f.id \in Ids /\ built'[f.id] \in Nat /\ f \in Frame /\ Report(f)
        BY <1>1, <2>3 DEF Frame, HostTypes
      <3> QED
        <4>1. f.op = "report" /\ f.held = 0 /\ ~f.reserved
          BY <3>1 DEF Report
        <4>2. f.held <= built'[f.id]
          BY <3>1, <4>1
        <4>3. OtherFine(f)'
          BY <4>1 DEF OtherFine
        <4>4. GateFine(u, f)'
          BY <4>1 DEF GateFine, Holding
        <4>5. HeldFine(f)'
          BY <4>1 DEF HeldFine
        <4> QED
          BY <4>1, <4>2, <4>3, <4>4, <4>5 DEF Fine
    <2>4. \/ /\ p \in 1..Len(stack[u]) /\ (u # t \/ p <= base)
             /\ Same(Nth(stack[u], p), Nth(stack'[u], p))
          \/ /\ u = t /\ base \in Nat /\ p - base \in 1..Len(new)
             /\ Same(new[p - base], Nth(stack'[u], p))
          \/ Nth(stack'[u], p) \in Frame /\ Report(Nth(stack'[u], p))
      BY Origin
    <2> QED
      BY <2>1, <2>2, <2>3, <2>4
  <1>2. ASSUME NEW u \in Workers, NEW v \in Workers,
               NEW p \in 1..Len(stack'[u]), NEW q \in 1..Len(stack'[v]),
               Clash(Nth(stack'[u], p), Nth(stack'[v], q))
        PROVE  u = v /\ p = q
    <2> DEFINE KU == /\ p \in 1..Len(stack[u]) /\ (u # t \/ p <= base)
                     /\ Same(Nth(stack[u], p), Nth(stack'[u], p))
               KV == /\ q \in 1..Len(stack[v]) /\ (v # t \/ q <= base)
                     /\ Same(Nth(stack[v], q), Nth(stack'[v], q))
               NU == /\ u = t /\ base \in Nat /\ p - base \in 1..Len(new)
                     /\ Same(new[p - base], Nth(stack'[u], p))
               NV == /\ v = t /\ base \in Nat /\ q - base \in 1..Len(new)
                     /\ Same(new[q - base], Nth(stack'[v], q))
    <2>0. /\ ~Report(Nth(stack'[u], p)) \/ Nth(stack'[u], p) \notin Frame
          /\ ~Report(Nth(stack'[v], q)) \/ Nth(stack'[v], q) \notin Frame
      BY <1>2 DEF Clash, Unborn, Holding, Report, Frame
    <2>1. (KU \/ NU) /\ (KV \/ NV)
      BY <2>0, Origin
    <2>2. CASE KU /\ KV
      <3>1. Clash(Nth(stack[u], p), Nth(stack[v], q))
        BY <1>2, <2>2, ClashSame
      <3> QED
        BY <2>2, <3>1 DEF NoClash
    <2>3. CASE NU /\ NV
      <3>1. Clash(new[p - base], new[q - base])
        BY <1>2, <2>3, ClashSame
      <3>2. p - base = q - base
        BY <2>3, <3>1
      <3> QED
        BY <2>3, <3>2
    <2>4. CASE NU /\ KV
      <3>1. Clash(new[p - base], Nth(stack[v], q))
        BY <1>2, <2>4, ClashSame
      <3>2. Nth(stack[v], q) \in Frame
        BY <2>4, FramesAre
      <3> QED
        BY <2>4, <3>1, <3>2
    <2>5. CASE KU /\ NV
      <3>1. Clash(new[q - base], Nth(stack[u], p))
        BY <1>2, <2>5, ClashSame, ClashSymmetric
      <3>2. Nth(stack[u], p) \in Frame
        BY <2>5, FramesAre
      <3> QED
        BY <2>5, <3>1, <3>2
    <2> QED
      BY <2>1, <2>2, <2>3, <2>4, <2>5
  <1>3. CallsFine'
    <2>1. ASSUME NEW u \in Workers, NEW p \in 1..Len(stack'[u])
          PROVE  Fine(u, Nth(stack[u], p))'
      BY <1>1 DEF Fine
    <2> QED
      BY <2>1 DEF CallsFine
  <1>4. NoClash'
    BY <1>2 DEF NoClash
  <1> QED
    BY <1>3, <1>4

LEMMA TopIs ==
    ASSUME HostTypes, CallsFine, NEW t \in Workers, Busy(t)
    PROVE  /\ Top(t) \in Frame /\ Top(t) \in Frames /\ Fine(t, Top(t))
           /\ Len(stack[t]) \in Nat \ {0} /\ Top(t) = Nth(stack[t], Len(stack[t]))
           /\ stack[t] \in Seq(Frame) /\ stack[t] # <<>>
  <1>1. stack[t] \in Seq(Frame) /\ stack[t] # <<>>
    BY DEF HostTypes, Busy
  <1>2. Nth(stack[t], Len(stack[t])) = Top(t) /\ Len(stack[t]) \in Nat \ {0}
    BY <1>1, Below DEF Top
  <1>3. Len(stack[t]) \in 1..Len(stack[t])
    BY <1>2
  <1>4. Nth(stack[t], Len(stack[t])) \in Frame /\ Nth(stack[t], Len(stack[t])) \in Frames
    BY <1>3, FramesAre
  <1>5. Fine(t, Nth(stack[t], Len(stack[t])))
    BY <1>3 DEF CallsFine
  <1> QED
    BY <1>1, <1>2, <1>4, <1>5

\* A step that replaces or ends the innermost call of t.
LEMMA PreserveTop ==
    ASSUME HostTypes, HostTypes', CallsFine, NoClash, NEW t \in Workers, Busy(t),
           NEW new \in Seq(Frame), Step(t, Len(stack[t]) - 1, new),
           NEW top, top = Top(t),
           \A u \in Workers, f \in Frame :
               Fine(u, f) /\ f \in Frames /\ ~Clash(top, f) =>
                   Fine(u, f)' /\ \A q \in 1..Len(new) : ~Clash(new[q], f),
           \A q \in 1..Len(new) : Fine(t, new[q])',
           \A q, r \in 1..Len(new) : Clash(new[q], new[r]) => q = r
    PROVE  CallsFine' /\ NoClash'
  <1>1. /\ Len(stack[t]) \in Nat \ {0} /\ Top(t) = Nth(stack[t], Len(stack[t]))
    BY TopIs
  <1>2. ASSUME NEW u \in Workers, NEW p \in 1..Len(stack[u]), NEW f \in Frame,
               u # t \/ p <= Len(stack[t]) - 1, f = Nth(stack[u], p)
        PROVE  Fine(u, f)' /\ \A q \in 1..Len(new) : ~Clash(new[q], f)
    <2>1. Fine(u, f) /\ f \in Frames
      BY <1>2, FramesAre DEF CallsFine
    <2>2. ~(t = u /\ Len(stack[t]) = p) /\ Len(stack[t]) \in 1..Len(stack[t])
      BY <1>1, <1>2
    <2>3. ~Clash(top, f)
      BY <1>1, <1>2, <2>2 DEF NoClash
    <2> QED
      BY <2>1, <2>3
  <1> QED
    BY <1>2, Preserve

\* A step whose new calls clash with none there is.
LEMMA PreserveAll ==
    ASSUME HostTypes, HostTypes', CallsFine, NoClash, NEW t \in Workers,
           NEW base, NEW new \in Seq(Frame), Step(t, base, new),
           \A u \in Workers, f \in Frame :
               Fine(u, f) /\ f \in Frames =>
                   Fine(u, f)' /\ \A q \in 1..Len(new) : ~Clash(new[q], f),
           \A q \in 1..Len(new) : Fine(t, new[q])',
           \A q, r \in 1..Len(new) : Clash(new[q], new[r]) => q = r
    PROVE  CallsFine' /\ NoClash'
  <1>1. ASSUME NEW u \in Workers, NEW p \in 1..Len(stack[u]), NEW f \in Frame,
               f = Nth(stack[u], p)
        PROVE  Fine(u, f)' /\ \A q \in 1..Len(new) : ~Clash(new[q], f)
    BY <1>1, FramesAre DEF CallsFine
  <1> QED
    BY <1>1, Preserve

\* The shapes of a step.
LEMMA StepFrom ==
    ASSUME HostTypes, NEW t \in Workers, NEW x, stack' = [stack EXCEPT ![t] = x],
           NEW base, NEW new \in Seq(Frame), Grown(stack[t], base, new, x)
    PROVE  Step(t, base, new)
  <1>1. stack \in [Workers -> Seq(Frame)] /\ x \in Seq(Frame)
    BY DEF HostTypes, Grown
  <1>2. stack' \in [Workers -> Seq(Frame)] /\ stack'[t] = x
    BY <1>1
  <1>3. ASSUME NEW u \in Workers \ {t}
        PROVE  \E b \in 0..Len(stack[u]) : Grown(stack[u], b, <<>>, stack'[u])
    <2>1. stack'[u] = stack[u] /\ stack[u] \in Seq(Frame)
      BY <1>1
    <2>2. Grown(stack[u], Len(stack[u]), <<>>, stack'[u]) /\ Len(stack[u]) \in 0..Len(stack[u])
      BY <2>1, GrownWhole
    <2> QED
      BY <2>2
  <1> QED
    BY <1>2, <1>3 DEF Step

LEMMA GrownGoto ==
    ASSUME NEW s \in Seq(Frame), s # <<>>, NEW f \in Frame
    PROVE  Grown(s, Len(s) - 1, <<f>>, <<f>> \o Tail(s))
  <1>1. Append(<<>>, f) = <<f>> /\ <<>> \in Seq(Frame)
    OBVIOUS
  <1> QED
    BY <1>1, GrownTail, GrownPush

LEMMA GrownCall ==
    ASSUME NEW s \in Seq(Frame), s # <<>>, NEW f \in Frame, NEW g \in Frame
    PROVE  /\ Grown(s, Len(s) - 1, <<f, g>>, <<g>> \o (<<f>> \o Tail(s)))
           /\ <<g, f>> \o Tail(s) = <<g>> \o (<<f>> \o Tail(s))
  <1>0. <<f>> \in Seq(Frame)
    OBVIOUS
  <1>1. Append(<<f>>, g) = <<f, g>> /\ <<f>> \in Seq(Frame)
    <2>1. <<f, g>> \in Seq(Frame)
      OBVIOUS
    <2>2. Append(<<f>>, g) \in Seq(Frame) /\ Len(Append(<<f>>, g)) = 2
      BY <1>0
    <2>3. \A k \in 1..2 : Append(<<f>>, g)[k] = <<f, g>>[k]
      BY <1>0
    <2> QED
      BY <1>0, <2>1, <2>2, <2>3, SeqEqual
  <1>2. Tail(s) \in Seq(Frame)
    OBVIOUS
  <1>3. <<g, f>> \o Tail(s) = <<g>> \o (<<f>> \o Tail(s))
    BY <1>2
  <1> QED
    BY <1>1, <1>3, GrownGoto, GrownPush

LEMMA GotoStep ==
    ASSUME HostTypes, NEW t \in Workers, Busy(t), NEW f \in Frame, Goto(t, f)
    PROVE  Step(t, Len(stack[t]) - 1, <<f>>)
  <1>1. stack[t] \in Seq(Frame) /\ stack[t] # <<>> /\ <<f>> \in Seq(Frame)
    BY DEF HostTypes, Busy
  <1>2. stack' = [stack EXCEPT ![t] = <<f>> \o Tail(stack[t])]
    BY DEF Goto
  <1> QED
    BY <1>1, <1>2, GrownGoto, StepFrom

LEMMA ReturnStep ==
    ASSUME HostTypes, NEW t \in Workers, Busy(t), NEW r \in Outcomes, Return(t, r)
    PROVE  Step(t, Len(stack[t]) - 1, <<>>)
  <1>1. stack[t] \in Seq(Frame) /\ stack[t] # <<>> /\ <<>> \in Seq(Frame) /\ 0 \in Nat
    BY DEF HostTypes, Busy
  <1>2. stack' = [stack EXCEPT ![t] = After(stack[t], r, 0)]
    BY DEF Return
  <1>3. Grown(stack[t], Len(stack[t]) - 1, <<>>, After(stack[t], r, 0))
    BY <1>1, GrownWhole, GrownAfter
  <1> QED
    BY <1>1, <1>2, <1>3, StepFrom

LEMMA CallStep ==
    ASSUME HostTypes, NEW t \in Workers, Busy(t), NEW f \in Frame, NEW g \in Frame,
           CallFrom(t, f, g)
    PROVE  Step(t, Len(stack[t]) - 1, <<f, g>>)
  <1>1. stack[t] \in Seq(Frame) /\ stack[t] # <<>> /\ <<f, g>> \in Seq(Frame)
    BY DEF HostTypes, Busy
  <1>2. stack' = [stack EXCEPT ![t] = <<g, f>> \o Tail(stack[t])]
    BY DEF CallFrom
  <1> QED
    BY <1>1, <1>2, GrownCall, StepFrom

LEMMA BeginStep ==
    ASSUME HostTypes, NEW t \in Workers, ~Busy(t), NEW f \in Frame,
           stack' = [stack EXCEPT ![t] = <<f>>]
    PROVE  Step(t, Len(stack[t]), <<f>>)
  <1>1. stack[t] = <<>> /\ <<>> \in Seq(Frame) /\ Append(<<>>, f) = <<f>> /\ <<f>> \o <<>> = <<f>>
    BY DEF Busy
  <1>2. Grown(<<>>, Len(<<>>), <<f>>, <<f>>)
    BY <1>1, GrownWhole, GrownPush
  <1>3. <<f>> \in Seq(Frame)
    OBVIOUS
  <1>4. Grown(stack[t], Len(stack[t]), <<f>>, <<f>>)
    BY <1>1, <1>2
  <1> QED
    BY <1>3, <1>4, StepFrom

LEMMA NoStep ==
    ASSUME HostTypes, NEW t \in Workers,
           UNCHANGED stack \/ (~Busy(t) /\ stack' = [stack EXCEPT ![t] = <<>>])
    PROVE  Step(t, Len(stack[t]), <<>>)
  <1>1. stack' = [stack EXCEPT ![t] = stack[t]]
    BY DEF HostTypes, Busy
  <1>2. stack[t] \in Seq(Frame) /\ <<>> \in Seq(Frame)
    BY DEF HostTypes
  <1> QED
    BY <1>1, <1>2, GrownWhole, StepFrom

(***************************************************************************)
(* What keeps a call fine.                                                 *)
(***************************************************************************)
state == <<sessions, pending, runtimes, built, disk, deleted>>

\* Nothing the call relies on changed.
Untouched(f) ==
    /\ sessions'[f.id] = sessions[f.id] /\ built'[f.id] = built[f.id]
    /\ disk'[f.id].there => disk[f.id].there
    /\ f.reserved => f.id \in pending'
    /\ Unborn(f) => f.id \notin pending' /\ (f.id \in deleted' => f.id \in deleted)
    /\ f.held # 0 => runtimes'[f.id][f.held].life = runtimes[f.id][f.held].life
    /\ Holding(f) => runtimes'[f.id][f.held].gate = runtimes[f.id][f.held].gate
    /\ Building(f) => /\ disk'[f.id] = disk[f.id]
                      /\ runtimes'[f.id][f.held].title = runtimes[f.id][f.held].title
                      /\ runtimes'[f.id][f.held].setting = runtimes[f.id][f.held].setting
                      /\ runtimes[f.id][f.held].loose => runtimes'[f.id][f.held].loose

\* No id is forgotten.
Remembered == \A k \in Ids : Seen(k) => Seen(k)'

LEMMA FineUntouched ==
    ASSUME NEW u, NEW f \in Frame, Fine(u, f), Untouched(f), Remembered
    PROVE  Fine(u, f)'
  <1>1. f.id \in Ids /\ \A k \in f.kids : k \in Ids
    BY DEF Frame
  <1>2. Unborn(f) => ~Seen(f.id)'
    BY <1>1 DEF Fine, BuildFine, Untouched, Unborn, Seen
  <1>3. f.op = "build" => BuildFine(f)'
    BY <1>1, <1>2 DEF Fine, BuildFine, Untouched, Unborn, Building, Remembered, Matches
  <1>4. OtherFine(f)'
    BY <1>1 DEF Fine, OtherFine, Untouched, Remembered
  <1>5. GateFine(u, f)' /\ HeldFine(f)'
    <2>1. Holding(f) => f.held # 0
      BY DEF Fine, OtherFine, Holding
    <2> QED
      BY <2>1 DEF Fine, GateFine, HeldFine, Untouched, Building, Holding
  <1> QED
    BY <1>3, <1>4, <1>5 DEF Fine, Untouched

LEMMA QuietIsUntouched ==
    ASSUME UNCHANGED state
    PROVE  Remembered /\ \A f \in Frame : (\A u : Fine(u, f) => Untouched(f))
  BY DEF state, Remembered, Seen, Untouched, Fine, BuildFine, Unborn

\* g claims nothing that f does not.
Within(g, f) ==
    /\ g.reserved => f.reserved /\ g.id = f.id
    /\ Unborn(g) => Unborn(f) /\ g.id = f.id
    /\ Holding(g) => Holding(f) /\ g.id = f.id /\ g.held = f.held

LEMMA WithinKeeps ==
    ASSUME NEW f, NEW g, NEW h, Within(g, f), ~Clash(f, h)
    PROVE  ~Clash(g, h)
  BY DEF Within, Clash

LEMMA QuietTypes ==
    ASSUME HostInv, UNCHANGED state, stack' \in [Workers -> Seq(Frame)]
    PROVE  HostTypes' /\ Registered'
  BY DEF HostInv, HostTypes, Registered, state

LEMMA NoFrames ==
    \E none \in Seq(Frame) : none = <<>> /\ \A q \in 1..Len(none) : FALSE
  <1>1. <<>> \in Seq(Frame) /\ Len(<<>>) = 0
    OBVIOUS
  <1>2. \A q \in 1..0 : FALSE
    OBVIOUS
  <1>3. \A q \in 1..Len(<<>>) : FALSE
    BY <1>1, <1>2
  <1> WITNESS <<>> \in Seq(Frame)
  <1> QED
    BY <1>3

\* Steps that change nothing but the calls of t.
LEMMA QuietTop ==
    ASSUME HostInv, UNCHANGED state, NEW t \in Workers, Busy(t),
           NEW new \in Seq(Frame), Step(t, Len(stack[t]) - 1, new),
           \A q \in 1..Len(new) : Fine(t, new[q]),
           \A q \in 1..Len(new) : \A f \in Frames :
               ~Clash(Top(t), f) => ~Clash(new[q], f),
           \A q, r \in 1..Len(new) : Clash(new[q], new[r]) => q = r
    PROVE  HostInv'
  <1>1. HostTypes' /\ Registered'
    BY QuietTypes DEF Step
  <1>2. PICK top : top = Top(t)
    OBVIOUS
  <1>3. \A u \in Workers, f \in Frame : Fine(u, f) => Fine(u, f)'
    BY QuietIsUntouched, FineUntouched
  <1>4. \A q \in 1..Len(new) : new[q] \in Frame
    OBVIOUS
  <1>5. \A q \in 1..Len(new) : Fine(t, new[q])'
    BY <1>3, <1>4
  <1>6. HostTypes /\ CallsFine /\ NoClash
    BY DEF HostInv
  <1>7. CallsFine' /\ NoClash'
    BY <1>1, <1>2, <1>3, <1>5, <1>6, PreserveTop
  <1> QED
    BY <1>1, <1>7 DEF HostInv

LEMMA QuietReturn ==
    ASSUME HostInv, UNCHANGED state, NEW t \in Workers, Busy(t), NEW r \in Outcomes, Return(t, r)
    PROVE  HostInv'
  <1>1. HostTypes
    BY DEF HostInv
  <1>2. Step(t, Len(stack[t]) - 1, <<>>)
    BY <1>1, ReturnStep
  <1>3. PICK none \in Seq(Frame) : none = <<>> /\ \A q \in 1..Len(none) : FALSE
    BY NoFrames
  <1> QED
    BY <1>2, <1>3, QuietTop

LEMMA QuietGoto ==
    ASSUME HostInv, UNCHANGED state, NEW t \in Workers, Busy(t), NEW f \in Frame, Goto(t, f),
           Fine(t, f), Within(f, Top(t))
    PROVE  HostInv'
  <1>1. HostTypes
    BY DEF HostInv
  <1>2. Step(t, Len(stack[t]) - 1, <<f>>)
    BY <1>1, GotoStep
  <1>3. <<f>> \in Seq(Frame) /\ Len(<<f>>) = 1 /\ <<f>>[1] = f /\ \A q \in 1..1 : q = 1
    OBVIOUS
  <1>4. \A h \in Frames : ~Clash(Top(t), h) => ~Clash(f, h)
    BY WithinKeeps
  <1> QED
    BY <1>2, <1>3, <1>4, QuietTop

\* t calls on: its call goes on as f, below a new call g.
LEMMA QuietCall ==
    ASSUME HostInv, UNCHANGED state, NEW t \in Workers, Busy(t), NEW f \in Frame, NEW g \in Frame,
           CallFrom(t, f, g), Fine(t, f), Within(f, Top(t)), Fine(t, g),
           \A h \in Frames : ~Clash(g, h)
    PROVE  HostInv'
  <1>1. HostTypes /\ CallsFine
    BY DEF HostInv
  <1>2. Step(t, Len(stack[t]) - 1, <<f, g>>)
    BY <1>1, CallStep
  <1>3. /\ <<f, g>> \in Seq(Frame) /\ Len(<<f, g>>) = 2
        /\ <<f, g>>[1] = f /\ <<f, g>>[2] = g /\ \A q \in 1..2 : q = 1 \/ q = 2
    OBVIOUS
  <1>4. \A h \in Frames : ~Clash(Top(t), h) => ~Clash(f, h)
    BY WithinKeeps
  <1>5. ~Clash(f, g) /\ ~Clash(g, f)
    <2>1. Top(t) \in Frames
      BY <1>1, TopIs
    <2>2. ~Clash(Top(t), g)
      BY <2>1, ClashSymmetric
    <2>3. ~Clash(f, g)
      BY <2>2, WithinKeeps
    <2> QED
      BY <2>3, ClashSymmetric
  <1> QED
    BY <1>2, <1>3, <1>4, <1>5, QuietTop

LEMMA QuietBegin ==
    ASSUME HostInv, UNCHANGED state, NEW t \in Workers, ~Busy(t), NEW f \in Frame,
           stack' = [stack EXCEPT ![t] = <<f>>],
           Fine(t, f), \A h \in Frames : ~Clash(f, h)
    PROVE  HostInv'
  <1>1. HostTypes /\ CallsFine /\ NoClash
    BY DEF HostInv
  <1>2. Step(t, Len(stack[t]), <<f>>)
    BY <1>1, BeginStep
  <1>3. <<f>> \in Seq(Frame) /\ Len(<<f>>) = 1 /\ <<f>>[1] = f /\ \A q \in 1..1 : q = 1
    OBVIOUS
  <1>4. HostTypes' /\ Registered'
    BY <1>2, QuietTypes DEF Step
  <1>5. \A u \in Workers, h \in Frame : Fine(u, h) => Fine(u, h)'
    BY QuietIsUntouched, FineUntouched
  <1>6. CallsFine' /\ NoClash'
    BY <1>1, <1>2, <1>3, <1>4, <1>5, PreserveAll
  <1> QED
    BY <1>4, <1>6 DEF HostInv

LEMMA QuietNone ==
    ASSUME HostInv, UNCHANGED state, NEW t \in Workers,
           UNCHANGED stack \/ (~Busy(t) /\ stack' = [stack EXCEPT ![t] = <<>>])
    PROVE  HostInv'
  <1>1. HostTypes /\ CallsFine /\ NoClash
    BY DEF HostInv
  <1>2. Step(t, Len(stack[t]), <<>>)
    BY <1>1, NoStep
  <1>3. PICK none \in Seq(Frame) : none = <<>> /\ \A q \in 1..Len(none) : FALSE
    BY NoFrames
  <1>4. HostTypes' /\ Registered'
    BY <1>2, QuietTypes DEF Step
  <1>5. \A u \in Workers, h \in Frame : Fine(u, h) => Fine(u, h)'
    BY QuietIsUntouched, FineUntouched
  <1>6. CallsFine' /\ NoClash'
    BY <1>1, <1>2, <1>3, <1>4, <1>5, PreserveAll
  <1> QED
    BY <1>4, <1>6 DEF HostInv

(***************************************************************************)
(* Calls that change nothing but where they are.                           *)
(***************************************************************************)
\* The same call at any await.
Alike(f, g) ==
    /\ f.op = g.op /\ f.why = g.why /\ f.id = g.id /\ f.held = g.held
    /\ f.reserved = g.reserved

LEMMA AtIs ==
    ASSUME HostInv, NEW t \in Workers, NEW o, NEW a, At(t, o, a)
    PROVE  /\ Busy(t) /\ Top(t) \in Frame /\ Top(t) \in Frames /\ Fine(t, Top(t))
           /\ Top(t).op = o /\ Top(t).at = a
  BY TopIs DEF HostInv, At

LEMMA OutcomesAre ==
    ASSUME HostTypes
    PROVE  /\ \A i \in Ids : SessionOf(i) \in {"ok", "notFound", "starting", "closing"}
           /\ \A r : EnsureActive(r) \in {"ok", "starting", "closing"}
           /\ {"none", "ok", "notFound", "starting", "closing", "duplicate", "error", "cancelled"}
                = Outcomes
  BY DEF SessionOf, EnsureActive, Outcomes

LEMMA AwaitsAre ==
    /\ "fork" \in Awaits /\ "look" \in Awaits /\ "switch" \in Awaits /\ "gate" \in Awaits
    /\ "owner" \in Awaits /\ "guard" \in Awaits /\ "build" \in Awaits /\ "hook" \in Awaits
    /\ "register" \in Awaits /\ "start" \in Awaits /\ "checkpoint" \in Awaits /\ "name" \in Awaits
    /\ "queued" \in Awaits /\ "running" \in Awaits /\ "idle" \in Awaits /\ "delegate" \in Awaits
    /\ "answer" \in Awaits /\ "manage" \in Awaits /\ "told" \in Awaits /\ "reply" \in Awaits
    /\ "sent" \in Awaits /\ "creation" \in Awaits /\ "children" \in Awaits /\ "join" \in Awaits
    /\ "closed" \in Awaits /\ "kids" \in Awaits /\ "lock" \in Awaits /\ "closing" \in Awaits
    /\ "wait" \in Awaits /\ "store" \in Awaits /\ "await" \in Awaits /\ "signin" \in Awaits
  BY DEF Awaits

LEMMA FrameMoves ==
    \A q \in Frame, a \in Awaits :
        /\ [q EXCEPT !.at = a] \in Frame /\ [q EXCEPT !.at = a].at = a
        /\ Alike(q, [q EXCEPT !.at = a]) /\ [q EXCEPT !.at = a].kids = q.kids
  BY DEF Frame, Alike

LEMMA FrameMovesKids ==
    \A q \in Frame, a \in Awaits, k \in SUBSET Ids :
        /\ [q EXCEPT !.at = a, !.kids = k] \in Frame /\ [q EXCEPT !.at = a, !.kids = k].at = a
        /\ Alike(q, [q EXCEPT !.at = a, !.kids = k])
        /\ [q EXCEPT !.at = a, !.kids = k].kids = k
  <1>1. ASSUME NEW q \in Frame, NEW a \in Awaits, NEW k \in SUBSET Ids
        PROVE  /\ [q EXCEPT !.at = a, !.kids = k] \in Frame
               /\ Alike(q, [q EXCEPT !.at = a, !.kids = k])
    BY DEF Frame, Alike
  <1>2. ASSUME NEW q \in Frame, NEW a \in Awaits, NEW k \in SUBSET Ids
        PROVE  /\ [q EXCEPT !.at = a, !.kids = k].at = a
               /\ [q EXCEPT !.at = a, !.kids = k].kids = k
    BY DEF Frame
  <1> QED
    BY <1>1, <1>2

\* The moves of a call from one await to the next that change nothing else.
MayMove(f, g) ==
    \/ /\ f.op = "build"
       /\ \/ f.at = "switch" /\ g.at = "gate"
          \/ f.at = "owner" /\ g.at = "guard" /\ g.owner \in 1..MaxBuilds
          \/ f.at = "owner" /\ g.at = "build"
          \/ f.at = "guard" /\ f.held # 0 /\ g.at = "build"
          \/ f.at = "build" /\ g.at \in {"hook", "register"}
          \/ f.at = "hook" /\ g.at = "register"
          \/ f.at = "start" /\ g.at = "checkpoint"
    \/ f.op = "run" /\ Holding(f) /\ Holding(g)
    \/ f.op = "close" /\ \/ f.at = "children" /\ g.at \in {"children", "join"}
                         \/ f.at = "join" /\ g.at = "hook"
    \/ f.op = "rename" /\ f.at \in {"lock", "await", "closing", "wait"} /\ g.at = "look"
    \/ f.op = "report"

LEMMA MoveFine ==
    ASSUME NEW t, NEW f \in Frame, NEW g \in Frame, Fine(t, f), Alike(f, g), MayMove(f, g)
    PROVE  Fine(t, g) /\ Within(g, f)
  <1>1. CASE f.op = "build"
    BY <1>1 DEF Alike, MayMove, Fine, BuildFine, OtherFine, GateFine, HeldFine, Building, Holding,
                Unborn, Within
  <1>2. CASE f.op = "run"
    BY <1>2 DEF Alike, MayMove, Fine, OtherFine, GateFine, HeldFine, Building, Holding, Unborn, Within
  <1>3. CASE f.op = "close"
    BY <1>3 DEF Alike, MayMove, Fine, OtherFine, GateFine, HeldFine, Building, Holding, Unborn, Within
  <1>4. CASE f.op = "rename"
    BY <1>4 DEF Alike, MayMove, Fine, OtherFine, GateFine, HeldFine, Building, Holding, Unborn, Within
  <1>5. CASE f.op = "report"
    BY <1>5 DEF Alike, MayMove, Fine, OtherFine, GateFine, HeldFine, Building, Holding, Unborn, Within
  <1> QED
    BY <1>1, <1>2, <1>3, <1>4, <1>5 DEF MayMove

\* A call moves on and changes nothing else.
LEMMA QuietMove ==
    ASSUME HostInv, UNCHANGED state, NEW t \in Workers, Busy(t), NEW f \in Frame, Goto(t, f),
           Alike(Top(t), f), MayMove(Top(t), f)
    PROVE  HostInv'
  <1>1. Top(t) \in Frame /\ Fine(t, Top(t))
    BY TopIs DEF HostInv
  <1>2. Fine(t, f) /\ Within(f, Top(t))
    BY <1>1, MoveFine
  <1> QED
    BY <1>2, QuietGoto

LEMMA ResumeLiveStep ==
    ASSUME HostInv, NEW t \in Workers, ResumeLive(t)
    PROVE  HostInv'
  <1>1. UNCHANGED state
    BY DEF ResumeLive, state
  <1>2. /\ Busy(t) /\ Top(t) \in Frame /\ Top(t).op = "build" /\ Top(t).at = "switch"
    BY AtIs DEF ResumeLive
  <1>3. CASE \E r \in Outcomes : Return(t, r)
    BY <1>1, <1>2, <1>3, QuietReturn
  <1>4. CASE Goto(t, [Top(t) EXCEPT !.at = "gate"])
    <2>1. PICK f : f = [Top(t) EXCEPT !.at = "gate"]
      OBVIOUS
    <2>2. f \in Frame /\ f.at = "gate" /\ Alike(Top(t), f)
      BY <1>2, <2>1, FrameMoves, AwaitsAre
    <2>3. MayMove(Top(t), f)
      BY <1>2, <2>2 DEF MayMove
    <2> QED
      BY <1>1, <1>2, <1>4, <2>1, <2>2, <2>3, QuietMove
  <1>5. "error" \in Outcomes /\ EnsureActive(Now(t)) \in Outcomes
    BY OutcomesAre DEF HostInv
  <1> QED
    BY <1>3, <1>4, <1>5 DEF ResumeLive

LEMMA AcquireOperationStep ==
    ASSUME HostInv, NEW t \in Workers, AcquireOperation(t)
    PROVE  HostInv'
  <1>1. UNCHANGED state /\ Busy(t)
    BY AtIs DEF AcquireOperation, state
  <1>2. PICK r : r = IF Now(t).closeRequested THEN "closing" ELSE EnsureActive(Now(t))
    OBVIOUS
  <1>3. r \in Outcomes
    BY <1>2, OutcomesAre DEF HostInv
  <1> QED
    BY <1>1, <1>2, <1>3, QuietReturn DEF AcquireOperation

LEMMA SubmitIdleStep ==
    ASSUME HostInv, NEW t \in Workers, SubmitIdle(t)
    PROVE  HostInv'
  <1>1. UNCHANGED state /\ Busy(t) /\ "cancelled" \in Outcomes
    BY AtIs DEF SubmitIdle, state, Outcomes
  <1> QED
    BY <1>1, QuietReturn DEF SubmitIdle

LEMMA ReportSentStep ==
    ASSUME HostInv, NEW t \in Workers, ReportSent(t)
    PROVE  HostInv'
  <1>1. UNCHANGED state /\ Busy(t) /\ "ok" \in Outcomes
    BY AtIs DEF ReportSent, state, Outcomes
  <1> QED
    BY <1>1, QuietReturn DEF ReportSent

LEMMA SubagentResultStep ==
    ASSUME HostInv, NEW t \in Workers, SubagentResult(t)
    PROVE  HostInv'
  <1>1. UNCHANGED state
    BY DEF SubagentResult, state
  <1>2. Busy(t) /\ Top(t) \in Frame /\ Top(t).op = "run" /\ Top(t).at = "answer"
    BY AtIs DEF SubagentResult
  <1>3. PICK f : f = [Top(t) EXCEPT !.at = "running", !.kids = {}]
    OBVIOUS
  <1>4. f \in Frame /\ f.at = "running" /\ Alike(Top(t), f)
    <2>1. {} \in SUBSET Ids
      OBVIOUS
    <2> QED
      BY <1>2, <1>3, <2>1, FrameMovesKids, AwaitsAre
  <1>5. MayMove(Top(t), f)
    BY <1>2, <1>4 DEF MayMove, Holding, Alike
  <1> QED
    BY <1>1, <1>2, <1>3, <1>4, <1>5, QuietMove DEF SubagentResult

LEMMA JoinReportersStep ==
    ASSUME HostInv, NEW t \in Workers, JoinReporters(t)
    PROVE  HostInv'
  <1>1. UNCHANGED state
    BY DEF JoinReporters, state
  <1>2. Busy(t) /\ Top(t) \in Frame /\ Top(t).op = "close" /\ Top(t).at = "join"
    BY AtIs DEF JoinReporters
  <1>3. PICK f : f = [Top(t) EXCEPT !.at = "hook"]
    OBVIOUS
  <1>4. f \in Frame /\ f.at = "hook" /\ Alike(Top(t), f)
    BY <1>2, <1>3, FrameMoves, AwaitsAre
  <1>5. MayMove(Top(t), f)
    BY <1>2, <1>4 DEF MayMove
  <1> QED
    BY <1>1, <1>2, <1>3, <1>4, <1>5, QuietMove DEF JoinReporters

LEMMA StartReporterFrame ==
    ASSUME NEW q \in Frame, NEW g, g = [q EXCEPT !.at = "running", !.back = "error", !.kids = {}]
    PROVE  g \in Frame /\ g.at = "running" /\ Alike(q, g)
  BY AwaitsAre DEF Frame, Alike, Outcomes

LEMMA SpawnReporterStep ==
    ASSUME HostInv, NEW t \in Workers, SpawnReporter(t)
    PROVE  HostInv'
  <1>1. UNCHANGED state
    BY DEF SpawnReporter, state
  <1>2. Busy(t) /\ Top(t) \in Frame /\ Top(t).op = "run" /\ Top(t).at = "manage" /\ Fine(t, Top(t))
    BY AtIs DEF SpawnReporter
  <1>3. PICK f : f = [Top(t) EXCEPT !.at = "running", !.back = "error", !.kids = {}]
    OBVIOUS
  <1>4. f \in Frame /\ f.at = "running" /\ Alike(Top(t), f)
    BY <1>2, <1>3, StartReporterFrame
  <1>5. MayMove(Top(t), f)
    BY <1>2, <1>4 DEF MayMove, Holding, Alike
  <1>6. CASE Goto(t, f)
    BY <1>1, <1>2, <1>4, <1>5, <1>6, QuietMove
  <1>7. CASE \E r \in {r \in Reporters : ~Busy(r)}, i \in Top(t).kids :
               stack' = [stack EXCEPT
                 ![t] = <<f>> \o Tail(@),
                 ![r] = <<[Call("report", "none", "start", i) EXCEPT !.owner = Top(t).held]>>]
    <2>1. PICK r \in Reporters, i \in Top(t).kids :
             /\ ~Busy(r)
             /\ stack' = [stack EXCEPT
                 ![t] = <<f>> \o Tail(@),
                 ![r] = <<[Call("report", "none", "start", i) EXCEPT !.owner = Top(t).held]>>]
      BY <1>7
    <2>2. PICK g : g = [Call("report", "none", "start", i) EXCEPT !.owner = Top(t).held]
      OBVIOUS
    <2>3. i \in Ids /\ Top(t).held \in Nat
      BY <1>2 DEF Frame
    <2>4. g \in Frame /\ Report(g)
      BY <2>2, <2>3, AwaitsAre DEF Frame, Call, Report, Outcomes
    <2>5. HostTypes /\ stack \in [Workers -> Seq(Frame)] /\ r \in Workers /\ r # t
      BY <1>2, <2>1 DEF HostInv, HostTypes, Workers
    <2>6. stack[t] \in Seq(Frame) /\ stack[t] # <<>>
      BY <1>2, <2>5 DEF Busy
    <2>7. Grown(stack[t], Len(stack[t]) - 1, <<f>>, <<f>> \o Tail(stack[t]))
      BY <1>4, <2>6, GrownGoto
    <2>8. <<f>> \o Tail(stack[t]) \in Seq(Frame) /\ <<g>> \in Seq(Frame)
      BY <2>4, <2>7 DEF Grown
    <2>9. /\ stack' \in [Workers -> Seq(Frame)] /\ stack'[t] = <<f>> \o Tail(stack[t])
          /\ stack'[r] = <<g>> /\ \A u \in Workers \ {t, r} : stack'[u] = stack[u]
      BY <2>1, <2>2, <2>5, <2>8
    <2>10. Step(t, Len(stack[t]) - 1, <<f>>)
      <3>1. ASSUME NEW u \in Workers \ {t, r}
            PROVE  \E b \in 0..Len(stack[u]) : Grown(stack[u], b, <<>>, stack'[u])
        <4>1. stack[u] \in Seq(Frame) /\ Len(stack[u]) \in 0..Len(stack[u])
          BY <2>5
        <4> QED
          BY <4>1, <2>9, GrownWhole
      <3> QED
        BY <2>4, <2>7, <2>9, <3>1 DEF Step
    <2>11. Fine(t, f) /\ Within(f, Top(t))
      BY <1>2, <1>4, <1>5, MoveFine
    <2>12. <<f>> \in Seq(Frame) /\ Len(<<f>>) = 1 /\ <<f>>[1] = f /\ \A q \in 1..1 : q = 1
      BY <1>4
    <2>13. \A h \in Frames : ~Clash(Top(t), h) => ~Clash(f, h)
      BY <2>11, WithinKeeps
    <2> QED
      BY <1>1, <1>2, <2>10, <2>11, <2>12, <2>13, QuietTop
  <1> QED
    BY <1>3, <1>6, <1>7 DEF SpawnReporter

(***************************************************************************)
(* Calls that change one Session.                                          *)
(***************************************************************************)
StateTypes ==
    /\ sessions \in [Ids -> 0..MaxBuilds]
    /\ pending \subseteq Ids
    /\ runtimes \in [Ids -> [1..MaxBuilds -> Runtime]]
    /\ built \in [Ids -> 0..MaxBuilds]
    /\ disk \in [Ids -> [there : BOOLEAN, title : BOOLEAN, setting : BOOLEAN]]
    /\ deleted \subseteq Ids

\* Nothing changes but what there is of i.
Only(i) ==
    \A j \in Ids \ {i} :
        /\ sessions'[j] = sessions[j] /\ built'[j] = built[j] /\ disk'[j] = disk[j]
        /\ runtimes'[j] = runtimes[j]
        /\ (j \in pending' <=> j \in pending) /\ (j \in deleted' <=> j \in deleted)

\* What Registered says of i.
RegisteredAs(i) ==
    /\ sessions[i] <= built[i]
    /\ sessions[i] # 0 => Matches(runtimes[i][sessions[i]], disk[i])
    /\ \A g \in 1..MaxBuilds : runtimes[i][g].closing => runtimes[i][g].life # "starting"

LEMMA OnlyRemembers ==
    ASSUME NEW i \in Ids, Only(i), Seen(i) => Seen(i)'
    PROVE  Remembered
  <1>1. ASSUME NEW k \in Ids \ {i}, Seen(k) PROVE Seen(k)'
    BY <1>1 DEF Only, Seen
  <1> QED
    BY <1>1 DEF Remembered

LEMMA OnlyRegistered ==
    ASSUME Registered, NEW i \in Ids, Only(i), RegisteredAs(i)'
    PROVE  Registered'
  <1>1. ASSUME NEW j \in Ids PROVE RegisteredAs(j)'
    <2>1. CASE j # i
      BY <2>1 DEF Only, Registered, RegisteredAs, Matches
    <2>2. CASE j = i
      BY <2>2
    <2> QED
      BY <2>1, <2>2
  <1> QED
    BY <1>1 DEF Registered, RegisteredAs

LEMMA ElsewhereFine ==
    ASSUME NEW i \in Ids, Only(i), Remembered, NEW u, NEW f \in Frame, Fine(u, f), f.id # i
    PROVE  Fine(u, f)'
  <1>1. f.id \in Ids
    BY DEF Frame
  <1>2. Unborn(f) => f.id \notin pending
    BY DEF Fine, BuildFine, Unborn
  <1>3. Untouched(f)
    BY <1>1, <1>2 DEF Only, Untouched, Fine
  <1> QED
    BY <1>3, FineUntouched

\* A step of t that changes one Session and replaces the innermost call of t.
LEMMA TopStep ==
    ASSUME HostInv, NEW t \in Workers, Busy(t), NEW top, top = Top(t),
           NEW i \in Ids, Only(i), Seen(i) => Seen(i)', StateTypes', RegisteredAs(i)',
           NEW new \in Seq(Frame), Step(t, Len(stack[t]) - 1, new),
           \A u \in Workers, f \in Frame :
               Fine(u, f) /\ f \in Frames /\ ~Clash(top, f) /\ f.id = i => Fine(u, f)',
           \A f \in Frame : f \in Frames /\ ~Clash(top, f) =>
               \A q \in 1..Len(new) : ~Clash(new[q], f),
           \A q \in 1..Len(new) : Fine(t, new[q])',
           \A q, r \in 1..Len(new) : Clash(new[q], new[r]) => q = r
    PROVE  HostInv'
  <1>1. HostTypes /\ Registered /\ CallsFine /\ NoClash
    BY DEF HostInv
  <1>2. HostTypes'
    BY DEF Step, StateTypes, HostTypes
  <1>3. Registered' /\ Remembered
    BY <1>1, OnlyRegistered, OnlyRemembers
  <1>4. ASSUME NEW u \in Workers, NEW f \in Frame, Fine(u, f), f \in Frames, ~Clash(top, f)
        PROVE  Fine(u, f)'
    BY <1>3, <1>4, ElsewhereFine
  <1>5. CallsFine' /\ NoClash'
    BY <1>1, <1>2, <1>4, PreserveTop
  <1> QED
    BY <1>2, <1>3, <1>5 DEF HostInv

LEMMA AllStep ==
    ASSUME HostInv, NEW t \in Workers,
           NEW i \in Ids, Only(i), Seen(i) => Seen(i)', StateTypes', RegisteredAs(i)',
           NEW base, NEW new \in Seq(Frame), Step(t, base, new),
           \A u \in Workers, f \in Frame :
               Fine(u, f) /\ f \in Frames /\ f.id = i => Fine(u, f)',
           \A f \in Frame : f \in Frames => \A q \in 1..Len(new) : ~Clash(new[q], f),
           \A q \in 1..Len(new) : Fine(t, new[q])',
           \A q, r \in 1..Len(new) : Clash(new[q], new[r]) => q = r
    PROVE  HostInv'
  <1>1. HostTypes /\ Registered /\ CallsFine /\ NoClash
    BY DEF HostInv
  <1>2. HostTypes'
    BY DEF Step, StateTypes, HostTypes
  <1>3. Registered' /\ Remembered
    BY <1>1, OnlyRegistered, OnlyRemembers
  <1>4. ASSUME NEW u \in Workers, NEW f \in Frame, Fine(u, f), f \in Frames
        PROVE  Fine(u, f)'
    BY <1>3, <1>4, ElsewhereFine
  <1>5. CallsFine' /\ NoClash'
    BY <1>1, <1>2, <1>4, PreserveAll
  <1> QED
    BY <1>2, <1>3, <1>5 DEF HostInv

\* It returns.
LEMMA TopReturns ==
    ASSUME HostInv, NEW t \in Workers, Busy(t), NEW top, top = Top(t),
           NEW i \in Ids, Only(i), Seen(i) => Seen(i)', StateTypes', RegisteredAs(i)',
           NEW r \in Outcomes, Return(t, r),
           \A u \in Workers, f \in Frame :
               Fine(u, f) /\ f \in Frames /\ ~Clash(top, f) /\ f.id = i => Fine(u, f)'
    PROVE  HostInv'
  <1>1. HostTypes
    BY DEF HostInv
  <1>2. Step(t, Len(stack[t]) - 1, <<>>)
    BY <1>1, ReturnStep
  <1>3. PICK none \in Seq(Frame) : none = <<>> /\ \A q \in 1..Len(none) : FALSE
    BY NoFrames
  <1> QED
    BY <1>2, <1>3, TopStep, ZenonT(60)

\* It goes on as g.
LEMMA TopGoes ==
    ASSUME HostInv, NEW t \in Workers, Busy(t), NEW top, top = Top(t),
           NEW i \in Ids, Only(i), Seen(i) => Seen(i)', StateTypes', RegisteredAs(i)',
           NEW g \in Frame, Step(t, Len(stack[t]) - 1, <<g>>), Fine(t, g)',
           \A f \in Frame : f \in Frames /\ ~Clash(top, f) => ~Clash(g, f),
           \A u \in Workers, f \in Frame :
               Fine(u, f) /\ f \in Frames /\ ~Clash(top, f) /\ f.id = i => Fine(u, f)'
    PROVE  HostInv'
  <1>1. PICK new \in Seq(Frame) : new = <<g>> /\ Len(new) = 1 /\ new[1] = g
    <2>1. <<g>> \in Seq(Frame) /\ Len(<<g>>) = 1 /\ <<g>>[1] = g
      OBVIOUS
    <2> QED
      BY <2>1
  <1>2. \A q \in 1..Len(new) : q = 1
    BY <1>1
  <1>3. \A q \in 1..Len(new) : Fine(t, new[q])'
    <2>1. \A q \in 1..Len(new) : new[q] = g
      BY <1>1, <1>2
    <2> QED
      BY <2>1
  <1>4. Step(t, Len(stack[t]) - 1, new)
    BY <1>1
  <1>5. \A f \in Frame : f \in Frames /\ ~Clash(top, f) =>
            \A q \in 1..Len(new) : ~Clash(new[q], f)
    BY <1>1, <1>2
  <1>6. \A q, r \in 1..Len(new) : Clash(new[q], new[r]) => q = r
    BY <1>2
  <1> QED
    BY <1>3, <1>4, <1>5, <1>6, TopStep

\* A call that claims nothing stays fine when its runtime is past its startup, and
\* registered or closed.
LEMMA PlainFine ==
    ASSUME NEW u, NEW f \in Frame, Fine(u, f), ~f.reserved, ~Unborn(f),
           f.held <= built'[f.id],
           f.held # 0 => /\ runtimes'[f.id][f.held].life # "starting"
                         /\ \/ runtimes'[f.id][f.held].life = "closed"
                            \/ sessions'[f.id] = f.held
                            \/ sessions'[f.id] = 0 /\ ~disk'[f.id].there,
           Holding(f) => /\ runtimes'[f.id][f.held].gate = u
                         /\ runtimes'[f.id][f.held].life \in {"active", "closing"}
    PROVE  Fine(u, f)'
  <1>1. ~Building(f) /\ ~(f.op = "build" /\ f.at \in {"start", "checkpoint", "name"})
    BY DEF Fine, BuildFine, Building
  <1>2. f.op = "build" => BuildFine(f)'
    BY <1>1 DEF Fine, BuildFine, Unborn, Building
  <1>3. OtherFine(f)'
    BY DEF Fine, OtherFine
  <1>4. GateFine(u, f)' /\ HeldFine(f)'
    BY <1>1 DEF GateFine, HeldFine, Building, Holding
  <1> QED
    BY <1>2, <1>3, <1>4 DEF Fine

\* What PlainFine needs of a call, in the state before.
LEMMA PlainIs ==
    ASSUME NEW u, NEW f \in Frame, Fine(u, f), ~f.reserved
    PROVE  /\ ~Building(f) /\ ~(f.op = "build" /\ f.at \in {"start", "checkpoint", "name"})
           /\ f.held <= built[f.id] /\ f.held \in Nat
           /\ f.held # 0 => /\ runtimes[f.id][f.held].life # "starting"
                            /\ \/ runtimes[f.id][f.held].life = "closed"
                               \/ sessions[f.id] = f.held
                               \/ sessions[f.id] = 0 /\ ~disk[f.id].there
           /\ Holding(f) => /\ f.held # 0 /\ runtimes[f.id][f.held].gate = u
                            /\ runtimes[f.id][f.held].life \in {"active", "closing"}
  <1>1. ~Building(f) /\ ~(f.op = "build" /\ f.at \in {"start", "checkpoint", "name"})
    BY DEF Fine, BuildFine, Building
  <1>2. f.held \in Nat
    BY DEF Frame
  <1> QED
    BY <1>1, <1>2 DEF Fine, GateFine, HeldFine, OtherFine, Holding

\* Beside a call that holds the reservation of an id, the calls on it are plain.
LEMMA BesideReserved ==
    ASSUME NEW t, NEW top, Fine(t, top), top.reserved,
           NEW u, NEW f \in Frame, Fine(u, f), ~Clash(top, f), f.id = top.id
    PROVE  ~f.reserved /\ ~Unborn(f)
  BY DEF Clash, Fine, BuildFine, Unborn

LEMMA TouchIs ==
    ASSUME HostTypes, NEW i \in Ids, NEW g \in 1..MaxBuilds, NEW r \in Runtime, Touch(i, g, r)
    PROVE  /\ runtimes' \in [Ids -> [1..MaxBuilds -> Runtime]] /\ runtimes'[i][g] = r
           /\ \A h \in 1..MaxBuilds : h # g => runtimes'[i][h] = runtimes[i][h]
           /\ \A j \in Ids \ {i} : runtimes'[j] = runtimes[j]
  BY DEF HostTypes, Touch

LEMMA HeldIs ==
    ASSUME HostTypes, NEW u, NEW f \in Frame, Fine(u, f)
    PROVE  /\ f.id \in Ids /\ f.held \in Nat /\ f.held <= built[f.id] /\ built[f.id] \in 0..MaxBuilds
           /\ f.held # 0 => f.held \in 1..MaxBuilds /\ runtimes[f.id][f.held] \in Runtime
                            /\ Seen(f.id)
           /\ sessions[f.id] \in 0..MaxBuilds
  <1>1. f.id \in Ids /\ f.held \in Nat
    BY DEF Frame
  <1>2. f.held <= built[f.id] /\ built[f.id] \in 0..MaxBuilds /\ MaxBuilds \in Nat
    BY <1>1, HostAssumption DEF Fine, HostTypes
  <1>3. f.held # 0 => f.held \in 1..MaxBuilds /\ built[f.id] > 0
    BY <1>1, <1>2
  <1>4. sessions[f.id] \in 0..MaxBuilds /\ runtimes[f.id] \in [1..MaxBuilds -> Runtime]
    BY <1>1 DEF HostTypes
  <1> QED
    BY <1>1, <1>2, <1>3, <1>4 DEF Seen

LEMMA UnusedIs ==
    /\ Unused \in Runtime /\ Unused.life = "closed" /\ Unused.gate = Free
    /\ Unused.closing = FALSE
  BY DEF Unused, FreshRuntime, NoFile, Runtime, Lifecycle

File == [there : BOOLEAN, title : BOOLEAN, setting : BOOLEAN]

LEMMA FilesAre ==
    /\ NoFile \in File /\ ~NoFile.there
    /\ NewFile \in File /\ NewFile.there
  BY DEF NoFile, NewFile, File

LEMMA FileIs ==
    ASSUME HostTypes, NEW i \in Ids, NEW file \in File, disk' = [disk EXCEPT ![i] = file]
    PROVE  /\ disk' \in [Ids -> [there : BOOLEAN, title : BOOLEAN, setting : BOOLEAN]]
           /\ disk'[i] = file /\ \A j \in Ids \ {i} : disk'[j] = disk[j]
  BY DEF HostTypes, File

\* The runtime changes in what no other call relies on.
Flags(r, q) ==
    /\ r.life = q.life /\ r.gate = q.gate /\ r.closing = q.closing
    /\ r.title = q.title /\ r.setting = q.setting /\ (r.loose => q.loose)

LEMMA FlagsKeep ==
    ASSUME HostInv, NEW i \in Ids, UNCHANGED <<sessions, built, disk, deleted>>,
           pending' = pending \/ (pending' = pending \cup {i} /\ Seen(i)),
           \/ runtimes' = runtimes
           \/ \E g \in 1..MaxBuilds, r \in Runtime :
                 Touch(i, g, r) /\ Flags(runtimes[i][g], r)
    PROVE  /\ Only(i) /\ (Seen(i) => Seen(i)') /\ StateTypes' /\ RegisteredAs(i)'
           /\ \A u \in Workers, f \in Frame : Fine(u, f) => Fine(u, f)'
  <1>1. HostTypes /\ Registered
    BY DEF HostInv
  <1>2. /\ runtimes' \in [Ids -> [1..MaxBuilds -> Runtime]]
        /\ \A j \in Ids \ {i} : runtimes'[j] = runtimes[j]
        /\ \A h \in 1..MaxBuilds : Flags(runtimes[i][h], runtimes'[i][h])
    <2>1. CASE runtimes' = runtimes
      BY <1>1, <2>1 DEF Flags, HostTypes
    <2>2. ASSUME NEW g \in 1..MaxBuilds, NEW r \in Runtime, Touch(i, g, r),
                 Flags(runtimes[i][g], r)
          PROVE  <1>2!:
      <3>1. \A q : Flags(q, q)
        BY DEF Flags
      <3> QED
        BY <1>1, <2>2, <3>1, TouchIs
    <2> QED
      BY <2>1, <2>2
  <1>3. Only(i)
    BY <1>2 DEF Only
  <1>4. StateTypes'
    BY <1>1, <1>2 DEF StateTypes, HostTypes
  <1>5. RegisteredAs(i)'
    <2>1. sessions[i] # 0 => sessions[i] \in 1..MaxBuilds
      BY <1>1 DEF HostTypes
    <2> QED
      BY <1>1, <1>2, <2>1 DEF Registered, RegisteredAs, Flags, Matches
  <1>6. Seen(i) => Seen(i)'
    BY DEF Seen
  <1>7. Remembered
    BY <1>3, <1>6, OnlyRemembers
  <1>8. ASSUME NEW u \in Workers, NEW f \in Frame, Fine(u, f)
        PROVE  Fine(u, f)'
    <2>1. f.id \in Ids /\ (f.held # 0 => f.held \in 1..MaxBuilds)
      BY <1>1, <1>8, HeldIs
    <2>2. f.held # 0 => Flags(runtimes[f.id][f.held], runtimes'[f.id][f.held])
      BY <1>2, <2>1 DEF Flags
    <2>3. Holding(f) \/ Building(f) => f.held # 0
      BY <1>8 DEF Holding, Building, Fine, OtherFine
    <2>4. /\ f.reserved => f.id \in pending'
          /\ Unborn(f) => f.id \notin pending'
      BY <1>8, <2>1 DEF Fine, BuildFine, Unborn
    <2>5. Untouched(f)
      BY <2>1, <2>2, <2>3, <2>4 DEF Untouched, Flags
    <2> QED
      BY <1>7, <1>8, <2>5, FineUntouched
  <1> QED
    BY <1>3, <1>4, <1>5, <1>6, <1>8

\* A build fails before its runtime is registered.
LEMMA BuildFails ==
    ASSUME HostInv, NEW t \in Workers, Busy(t), NEW top, top = Top(t), Building(top),
           Touch(top.id, top.held, Unused), Unreserve(top), NEW r \in Outcomes, Return(t, r),
           UNCHANGED <<sessions, built, deleted>>,
           disk' = disk \/ disk' = [disk EXCEPT ![top.id] = NoFile]
    PROVE  HostInv'
  <1>1. HostTypes /\ Registered
    BY DEF HostInv
  <1>2. top \in Frame /\ Fine(t, top)
    BY TopIs DEF HostInv
  <1>3. /\ top.id \in Ids /\ top.held # 0 /\ top.held \in 1..MaxBuilds /\ Seen(top.id)
        /\ built[top.id] > 0 /\ built[top.id] \in Nat
    <2>1. top.held # 0
      BY DEF Building
    <2>2. top.held \in Nat /\ top.held <= built[top.id] /\ built[top.id] \in 0..MaxBuilds
      BY <1>1, <1>2, HeldIs
    <2> QED
      BY <1>1, <1>2, <2>1, <2>2, HeldIs
  <1>4. /\ top.reserved /\ sessions[top.id] = 0 /\ disk[top.id].there
        /\ runtimes[top.id][top.held].life = "starting"
    BY <1>2 DEF Fine, BuildFine, Building
  <1>5. /\ runtimes' \in [Ids -> [1..MaxBuilds -> Runtime]] /\ runtimes'[top.id][top.held] = Unused
        /\ \A h \in 1..MaxBuilds : h # top.held => runtimes'[top.id][h] = runtimes[top.id][h]
        /\ \A j \in Ids \ {top.id} : runtimes'[j] = runtimes[j]
    BY <1>1, <1>3, UnusedIs, TouchIs
  <1>6. pending' = pending \ {top.id}
    BY <1>4 DEF Unreserve
  <1>7. /\ disk' \in [Ids -> [there : BOOLEAN, title : BOOLEAN, setting : BOOLEAN]]
        /\ \A j \in Ids \ {top.id} : disk'[j] = disk[j]
    <2>1. CASE disk' = disk
      BY <1>1, <2>1 DEF HostTypes
    <2>2. CASE disk' = [disk EXCEPT ![top.id] = NoFile]
      BY <1>1, <1>3, <2>2, FilesAre, FileIs
    <2> QED
      BY <2>1, <2>2
  <1>8. Only(top.id) /\ StateTypes' /\ Seen(top.id)'
    BY <1>1, <1>3, <1>5, <1>6, <1>7 DEF Only, StateTypes, HostTypes, Seen
  <1>9. RegisteredAs(top.id)'
    <2>1. \A g \in 1..MaxBuilds : runtimes'[top.id][g].closing => runtimes'[top.id][g].life # "starting"
      BY <1>1, <1>3, <1>5, UnusedIs DEF Registered
    <2> QED
      BY <1>1, <1>3, <1>4, <2>1 DEF RegisteredAs, Registered
  <1>10. ASSUME NEW u \in Workers, NEW f \in Frame, Fine(u, f), ~Clash(top, f), f.id = top.id
         PROVE  Fine(u, f)'
    <2>1. ~f.reserved /\ ~Unborn(f)
      BY <1>2, <1>4, <1>10, BesideReserved
    <2>2. f.held # 0 => f.held \in 1..MaxBuilds
      BY <1>1, <1>10, HeldIs
    <2>3. /\ f.held <= built[f.id] /\ (f.held # 0 => runtimes[f.id][f.held].life = "closed")
          /\ ~Holding(f)
      BY <1>4, <1>10, <2>1, PlainIs
    <2>4. f.held # 0 => runtimes'[f.id][f.held].life = "closed"
      BY <1>3, <1>5, <1>10, <2>2, <2>3, UnusedIs
    <2> QED
      BY <1>10, <2>1, <2>3, <2>4, PlainFine
  <1> QED
    BY <1>3, <1>8, <1>9, <1>10, TopReturns

(***************************************************************************)
(* Building a runtime.                                                     *)
(***************************************************************************)
\* A call that claims nothing clashes with none.
Modest(g) == ~g.reserved /\ ~Unborn(g) /\ ~Holding(g)

LEMMA ModestIs ==
    ASSUME NEW g, Modest(g), NEW h
    PROVE  ~Clash(g, h)
  BY DEF Modest, Clash

LEMMA FineSameNow ==
    ASSUME NEW t, NEW f, NEW g, Same(f, g), Fine(t, f)
    PROVE  Fine(t, g) /\ Within(g, f)
  <1>1. Fine(t, g)
    BY SMTT(60) DEF Same, Fine, BuildFine, OtherFine, GateFine, HeldFine, Building, Unborn, Holding
  <1>2. Within(g, f)
    BY DEF Same, Within, Unborn, Holding
  <1> QED
    BY <1>1, <1>2

LEMMA LookFine ==
    ASSUME HostTypes, NEW t, NEW g \in Frame, g.op = "build", g.at = "look", g.why = "resume",
           g.held = 0, ~g.reserved
    PROVE  Fine(t, g) /\ Modest(g)
  <1>1. 0 <= built[g.id]
    BY HostAssumption DEF HostTypes, Frame
  <1> QED
    BY <1>1 DEF Fine, BuildFine, OtherFine, GateFine, HeldFine, Building, Unborn, Holding, Modest

LEMMA BackFrame ==
    ASSUME NEW q \in Frame, NEW g, g = [q EXCEPT !.back = "none"]
    PROVE  g \in Frame /\ Same(q, g)
  BY DEF Frame, Same, Outcomes

LEMMA LiveIs ==
    ASSUME HostTypes, NEW i \in Ids, SessionOf(i) = "ok"
    PROVE  /\ sessions[i] # 0 /\ sessions[i] \in 1..MaxBuilds
           /\ runtimes[i][sessions[i]].life = "active" /\ runtimes[i][sessions[i]] \in Runtime
  <1>1. sessions[i] \in 0..MaxBuilds /\ MaxBuilds \in Nat
    BY HostAssumption DEF HostTypes
  <1>2. sessions[i] # 0 /\ runtimes[i][sessions[i]].life = "active"
    BY DEF SessionOf
  <1>3. sessions[i] \in 1..MaxBuilds
    BY <1>1, <1>2
  <1> QED
    BY <1>2, <1>3 DEF HostTypes

LEMMA MainIs == Main \in Ids /\ Main \in Roots /\ \A i \in Children : i \in Ids /\ i # Main
  BY HostAssumption DEF Ids

LEMMA ResumeOwnerStep ==
    ASSUME HostInv, NEW t \in Workers, ResumeOwner(t)
    PROVE  HostInv'
  <1>0. HostTypes
    BY DEF HostInv
  <1>1. PICK top : top = Top(t)
    OBVIOUS
  <1>2. Busy(t) /\ top \in Frame /\ top.op = "build" /\ top.at = "owner" /\ Fine(t, top)
    BY <1>1, AtIs DEF ResumeOwner
  <1>3. Building(top)
    BY <1>2 DEF Fine, BuildFine, Building
  <1>4. top.back \in Outcomes /\ SessionOf(Main) \in Outcomes
    <2>1. top.back \in Outcomes
      BY <1>2 DEF Frame
    <2> QED
      BY <1>0, <2>1, OutcomesAre, MainIs
  <1>5. ASSUME NEW r \in Outcomes, Return(t, r), Unreserve(top), Touch(top.id, top.held, Unused)
        PROVE  HostInv'
    BY <1>1, <1>2, <1>3, <1>5, BuildFails DEF ResumeOwner
  <1>6. CASE /\ SessionOf(Main) = "ok"
             /\ Goto(t, [top EXCEPT !.at = "guard", !.owner = sessions[Main], !.kids = {}])
             /\ UNCHANGED <<pending, runtimes>>
    <2>1. PICK g : g = [top EXCEPT !.at = "guard", !.owner = sessions[Main], !.kids = {}]
      OBVIOUS
    <2>2. PICK n \in Nat : n = sessions[Main] /\ n \in 1..MaxBuilds
      BY <1>0, <1>6, LiveIs, MainIs
    <2>3. g \in Frame /\ g.at = "guard" /\ Alike(top, g) /\ g.owner = n
      <3>1. g = [top EXCEPT !.at = "guard", !.owner = n, !.kids = {}]
        BY <2>1, <2>2
      <3>2. g \in Frame
        BY <1>2, <3>1, AwaitsAre DEF Frame
      <3>3. g.at = "guard" /\ Alike(top, g) /\ g.owner = n
        BY <1>2, <3>1 DEF Frame, Alike
      <3> QED
        BY <3>2, <3>3
    <2>4. MayMove(top, g)
      BY <1>2, <2>2, <2>3 DEF MayMove
    <2>5. UNCHANGED state
      BY <1>6 DEF ResumeOwner, state
    <2> QED
      BY <1>1, <1>2, <1>6, <2>1, <2>3, <2>4, <2>5, QuietMove
  <1>7. CASE /\ IF top.kids = {} THEN Goto(t, [top EXCEPT !.at = "build"])
                ELSE CallFrom(t, [top EXCEPT !.back = "none"],
                              Call("build", "resume", "look", Main))
             /\ UNCHANGED <<pending, runtimes>>
    <2>1. UNCHANGED state
      BY <1>7 DEF ResumeOwner, state
    <2>2. CASE Goto(t, [top EXCEPT !.at = "build"])
      <3>1. PICK g : g = [top EXCEPT !.at = "build"]
        OBVIOUS
      <3>2. g \in Frame /\ g.at = "build" /\ Alike(top, g)
        BY <1>2, <3>1, FrameMoves, AwaitsAre
      <3>3. MayMove(top, g)
        BY <1>2, <3>2 DEF MayMove
      <3> QED
        BY <1>1, <1>2, <2>1, <2>2, <3>1, <3>2, <3>3, QuietMove
    <2>3. CASE CallFrom(t, [top EXCEPT !.back = "none"], Call("build", "resume", "look", Main))
      <3>1. PICK f, g : f = [top EXCEPT !.back = "none"] /\ g = Call("build", "resume", "look", Main)
        OBVIOUS
      <3>2. f \in Frame /\ Fine(t, f) /\ Within(f, top)
        BY <1>2, <3>1, BackFrame, FineSameNow
      <3>3. /\ g \in Frame /\ g.op = "build" /\ g.why = "resume" /\ g.at = "look"
            /\ g.held = 0 /\ ~g.reserved
        BY <3>1, MainIs, AwaitsAre DEF Call, Frame, Outcomes
      <3>4. Fine(t, g) /\ \A h \in Frames : ~Clash(g, h)
        BY <1>0, <3>3, LookFine, ModestIs
      <3> QED
        BY <1>1, <1>2, <2>1, <2>3, <3>1, <3>2, <3>3, <3>4, QuietCall
    <2> QED
      BY <1>7, <2>2, <2>3
  <1> QED
    BY <1>1, <1>4, <1>5, <1>6, <1>7 DEF ResumeOwner

LEMMA FramesFine ==
    ASSUME HostInv, NEW h \in Frames
    PROVE  h \in Frame /\ \E u \in Workers : Fine(u, h)
  <1>0. PICK u \in Workers : \E k \in 1..Len(stack[u]) : h = stack[u][k]
    BY DEF Frames
  <1>1. PICK k \in 1..Len(stack[u]) : h = stack[u][k]
    BY <1>0
  <1>2. stack[u] \in Seq(Frame) /\ Len(stack[u]) \in Nat
    BY DEF HostInv, HostTypes
  <1>3. PICK p \in 1..Len(stack[u]) : k = Len(stack[u]) + 1 - p
    <2>1. Len(stack[u]) + 1 - k \in 1..Len(stack[u])
      BY <1>2
    <2>2. k = Len(stack[u]) + 1 - (Len(stack[u]) + 1 - k)
      BY <1>2
    <2> QED
      BY <2>1, <2>2
  <1>4. h = Nth(stack[u], p)
    BY <1>1, <1>3 DEF Nth
  <1> QED
    BY <1>2, <1>4, NthType DEF HostInv, CallsFine

LEMMA FreshRuntimeIs ==
    ASSUME NEW file \in File, NEW r, r = FreshRuntime(0, file)
    PROVE  /\ r \in Runtime /\ r.life = "starting" /\ r.closing = FALSE
           /\ r.title = file.title /\ r.setting = file.setting
  BY DEF FreshRuntime, Runtime, Lifecycle, File

\* The store of an id that nobody has is opened.
LEMMA StoreOpened ==
    ASSUME HostInv, NEW i \in Ids, NEW file \in File, file.there, built[i] < MaxBuilds,
           pending' = pending \cup {i}, built' = [built EXCEPT ![i] = @ + 1],
           disk' = [disk EXCEPT ![i] = file], Touch(i, built[i] + 1, FreshRuntime(0, file)),
           UNCHANGED <<sessions, deleted>>,
           i \notin pending, sessions[i] = 0, disk[i].there \/ built[i] = 0
    PROVE  /\ Only(i) /\ Seen(i)' /\ StateTypes' /\ RegisteredAs(i)'
           /\ \A u \in Workers, f \in Frame :
                 Fine(u, f) /\ f.id = i /\ ~Unborn(f) => Fine(u, f)' /\ ~f.reserved
           /\ \A t \in Workers, g \in Frame :
                 /\ g.op = "build" /\ g.id = i /\ g.held = built[i] + 1 /\ g.reserved
                 /\ \/ g.at = "build"
                    \/ g.at = "owner" /\ g.why = "resume" /\ \A k \in g.kids : Seen(k)'
                 => Fine(t, g)'
  <1>1. HostTypes /\ Registered
    BY DEF HostInv
  <1>2. PICK n : n = built[i] + 1
    OBVIOUS
  <1>3. built[i] \in Nat /\ MaxBuilds \in Nat /\ n \in 1..MaxBuilds /\ n # 0
    BY <1>1, <1>2, HostAssumption DEF HostTypes
  <1>4. built' \in [Ids -> 0..MaxBuilds] /\ built'[i] = n /\ \A j \in Ids \ {i} : built'[j] = built[j]
    BY <1>1, <1>2, <1>3 DEF HostTypes
  <1>5. /\ disk' \in [Ids -> [there : BOOLEAN, title : BOOLEAN, setting : BOOLEAN]]
        /\ disk'[i] = file /\ \A j \in Ids \ {i} : disk'[j] = disk[j]
    BY <1>1, FileIs
  <1>6. PICK r : r = FreshRuntime(0, file)
    OBVIOUS
  <1>7. /\ r \in Runtime /\ r.life = "starting" /\ r.closing = FALSE
        /\ r.title = file.title /\ r.setting = file.setting
    BY <1>6, FreshRuntimeIs
  <1>8. /\ runtimes' \in [Ids -> [1..MaxBuilds -> Runtime]] /\ runtimes'[i][n] = r
        /\ \A h \in 1..MaxBuilds : h # n => runtimes'[i][h] = runtimes[i][h]
        /\ \A j \in Ids \ {i} : runtimes'[j] = runtimes[j]
    BY <1>1, <1>2, <1>3, <1>6, <1>7, TouchIs
  <1>9. Only(i)
    BY <1>4, <1>5, <1>8 DEF Only
  <1>10. StateTypes' /\ Seen(i)'
    BY <1>1, <1>4, <1>5, <1>8 DEF StateTypes, HostTypes, Seen
  <1>11. RegisteredAs(i)'
    <2>1. \A g \in 1..MaxBuilds : runtimes'[i][g].closing => runtimes'[i][g].life # "starting"
      BY <1>1, <1>7, <1>8 DEF Registered
    <2> QED
      BY <1>3, <1>4, <2>1 DEF RegisteredAs
  <1>12. ASSUME NEW u \in Workers, NEW f \in Frame, Fine(u, f), f.id = i, ~Unborn(f)
         PROVE  Fine(u, f)' /\ ~f.reserved
    <2>1. ~f.reserved
      BY <1>12 DEF Fine
    <2>2. f.held \in Nat /\ f.held <= built[i] /\ (f.held # 0 => f.held \in 1..MaxBuilds)
      BY <1>1, <1>12, HeldIs
    <2>3. f.held <= n /\ f.held # n /\ (built[i] = 0 => f.held = 0)
      BY <1>2, <1>3, <2>2
    <2>4. (f.held # 0 => runtimes[f.id][f.held].life = "closed") /\ ~Holding(f)
      BY <1>12, <2>1, <2>3, PlainIs
    <2>5. f.held # 0 => runtimes'[f.id][f.held].life = "closed"
      BY <1>8, <1>12, <2>2, <2>3, <2>4
    <2> QED
      BY <1>4, <1>12, <2>1, <2>3, <2>4, <2>5, PlainFine
  <1>13. ASSUME NEW t \in Workers, NEW g \in Frame,
                g.op = "build", g.id = i, g.held = built[i] + 1, g.reserved,
                \/ g.at = "build"
                \/ g.at = "owner" /\ g.why = "resume" /\ \A k \in g.kids : Seen(k)'
         PROVE  Fine(t, g)'
    <2>1. g.held = n /\ g.held # 0 /\ g.held <= built'[g.id]
      BY <1>2, <1>3, <1>4, <1>13
    <2>2. Building(g) /\ ~Unborn(g) /\ ~Holding(g)
      BY <1>13, <2>1 DEF Building, Unborn, Holding
    <2>3. /\ runtimes'[g.id][g.held].life = "starting" /\ disk'[g.id].there /\ sessions'[g.id] = 0
          /\ Matches(runtimes'[g.id][g.held], disk'[g.id])
      BY <1>5, <1>7, <1>8, <1>13, <2>1 DEF Matches
    <2>4. BuildFine(g)'
      BY <1>13, <2>1, <2>2, <2>3 DEF BuildFine, Building, Unborn
    <2>5. OtherFine(g)' /\ GateFine(t, g)' /\ HeldFine(g)'
      BY <1>13, <2>2 DEF OtherFine, GateFine, HeldFine, Building, Holding
    <2> QED
      BY <1>13, <2>1, <2>4, <2>5 DEF Fine
  <1> QED
    BY <1>9, <1>10, <1>11, <1>12, <1>13

\* OpenStore, by a call in progress or by a new one.
LEMMA OpenStoreStep ==
    ASSUME HostInv, NEW t \in Workers, NEW f \in Frame, NEW file \in File, file.there,
           NEW a \in {"build", "owner"}, OpenStore(t, f, file, a), f.op = "build",
           f.id \notin pending, sessions[f.id] = 0, disk[f.id].there \/ built[f.id] = 0,
           a = "owner" => f.why = "resume" /\ \A k \in f.kids : disk[k].there,
           \A h \in Frames : h.id = f.id /\ Unborn(h) => Busy(t) /\ Clash(Top(t), h)
    PROVE  HostInv'
  <1>1. HostTypes
    BY DEF HostInv
  <1>2. f.id \in Ids /\ f.kids \subseteq Ids
    BY DEF Frame
  <1>3. /\ built[f.id] < MaxBuilds /\ pending' = pending \cup {f.id}
        /\ built' = [built EXCEPT ![f.id] = @ + 1] /\ disk' = [disk EXCEPT ![f.id] = file]
        /\ Touch(f.id, built[f.id] + 1, FreshRuntime(0, file))
        /\ UNCHANGED <<sessions, deleted>>
    BY DEF OpenStore
  <1>4. /\ Only(f.id) /\ Seen(f.id)' /\ StateTypes' /\ RegisteredAs(f.id)'
        /\ \A u \in Workers, h \in Frame :
              Fine(u, h) /\ h.id = f.id /\ ~Unborn(h) => Fine(u, h)' /\ ~h.reserved
        /\ \A u \in Workers, g \in Frame :
              /\ g.op = "build" /\ g.id = f.id /\ g.held = built[f.id] + 1 /\ g.reserved
              /\ \/ g.at = "build"
                 \/ g.at = "owner" /\ g.why = "resume" /\ \A k \in g.kids : Seen(k)'
              => Fine(u, g)'
    BY <1>2, <1>3, StoreOpened
  <1>5. PICK n \in Nat : n = built[f.id] + 1 /\ n # 0
    BY <1>1, <1>2 DEF HostTypes
  <1>6. PICK g : g = [f EXCEPT !.at = a, !.held = n, !.reserved = TRUE]
    OBVIOUS
  <1>7. g \in Frame
    BY <1>6, AwaitsAre DEF Frame
  <1>8. /\ g.op = f.op /\ g.why = f.why /\ g.at = a /\ g.id = f.id /\ g.held = n
        /\ g.reserved = TRUE /\ g.kids = f.kids
    BY <1>6 DEF Frame
  <1>9. \A k \in Ids : disk[k].there => Seen(k)'
    BY <1>2, <1>4 DEF Only, Seen
  <1>10. Fine(t, g)'
    BY <1>2, <1>4, <1>5, <1>7, <1>8, <1>9
  <1>11. ~Unborn(g) /\ ~Holding(g)
    BY <1>5, <1>8 DEF Unborn, Holding
  <1>12. ASSUME NEW h \in Frame, h \in Frames PROVE ~Clash(g, h)
    <2>1. PICK u \in Workers : Fine(u, h)
      BY <1>12, FramesFine
    <2>2. h.id = f.id => ~h.reserved
      BY <2>1 DEF Fine
    <2> QED
      BY <1>8, <1>11, <2>2 DEF Clash
  <1>13. stack' = [stack EXCEPT ![t] = <<g>> \o (IF stack[t] = <<>> THEN <<>> ELSE Tail(stack[t]))]
    BY <1>5, <1>6 DEF OpenStore
  <1>14. CASE Busy(t)
    <2>1. Goto(t, g)
      BY <1>13, <1>14 DEF Busy, Goto
    <2>2. PICK top : top = Top(t)
      OBVIOUS
    <2>3. Step(t, Len(stack[t]) - 1, <<g>>)
      BY <1>1, <1>7, <1>14, <2>1, GotoStep
    <2>4. ASSUME NEW u \in Workers, NEW h \in Frame, Fine(u, h), h \in Frames, ~Clash(top, h),
                 h.id = f.id
          PROVE  Fine(u, h)'
      BY <1>4, <2>2, <2>4
    <2> QED
      BY <1>2, <1>4, <1>7, <1>10, <1>12, <1>14, <2>2, <2>3, <2>4, TopGoes
  <1>15. CASE ~Busy(t)
    <2>1. stack' = [stack EXCEPT ![t] = <<g>>]
      <3>1. <<g>> \o <<>> = <<g>>
        BY <1>7
      <3> QED
        BY <1>13, <1>15, <3>1 DEF Busy
    <2>2. PICK new \in Seq(Frame) : new = <<g>> /\ Len(new) = 1 /\ new[1] = g
      <3>1. <<g>> \in Seq(Frame) /\ Len(<<g>>) = 1 /\ <<g>>[1] = g
        BY <1>7
      <3> QED
        BY <3>1
    <2>3. Step(t, Len(stack[t]), new)
      BY <1>1, <1>7, <1>15, <2>1, <2>2, BeginStep
    <2>4. \A q \in 1..Len(new) : q = 1 /\ new[q] = g
      BY <2>2
    <2>5. \A q \in 1..Len(new) : Fine(t, new[q])'
      BY <1>10, <2>4
    <2>6. \A h \in Frame : h \in Frames => \A q \in 1..Len(new) : ~Clash(new[q], h)
      BY <1>12, <2>4
    <2>7. \A q, r \in 1..Len(new) : Clash(new[q], new[r]) => q = r
      BY <2>4
    <2>8. \A u \in Workers, h \in Frame : Fine(u, h) /\ h \in Frames /\ h.id = f.id => Fine(u, h)'
      BY <1>4, <1>15
    <2> QED
      BY <1>2, <1>4, <2>3, <2>5, <2>6, <2>7, <2>8, AllStep
  <1> QED
    BY <1>14, <1>15

LEMMA FreshIs ==
    ASSUME HostInv, NEW i \in Ids, Fresh(i)
    PROVE  /\ sessions[i] = 0 /\ i \notin pending /\ built[i] = 0 /\ ~Seen(i)
           /\ \A h \in Frames : h.id # i
  <1>1. built[i] = 0 /\ ~(built[i] > 0)
    BY DEF Fresh
  <1> QED
    BY <1>1 DEF Fresh, Reservable, Seen

LEMMA IdleIs ==
    ASSUME NEW t, Idle(t)
    PROVE  t \in Workers /\ ~Busy(t)
  BY DEF Idle, Workers

LEMMA UnbornIs ==
    ASSUME HostInv, NEW t, NEW f \in Frame, Fine(t, f), Unborn(f)
    PROVE  f.id \notin pending /\ sessions[f.id] = 0 /\ built[f.id] = 0
  <1>1. f.id \notin pending /\ ~Seen(f.id) /\ f.id \in Ids
    BY DEF Fine, BuildFine, Unborn, Frame
  <1>2. /\ built[f.id] \in Nat /\ ~(built[f.id] > 0) /\ sessions[f.id] <= built[f.id]
        /\ sessions[f.id] \in Nat
    BY <1>1 DEF Seen, HostInv, HostTypes, Registered
  <1> QED
    BY <1>1, <1>2

LEMMA CreateSessionStep ==
    ASSUME HostInv, NEW t, NEW i, CreateSession(t, i)
    PROVE  HostInv'
  <1>1. t \in Workers /\ i \in Ids
    BY IdleIs DEF CreateSession, Ids
  <1>2. PICK f : f = Call("build", "create", "build", i)
    OBVIOUS
  <1>3. f \in Frame /\ f.op = "build" /\ f.id = i
    BY <1>1, <1>2, AwaitsAre DEF Call, Frame, Outcomes
  <1>4. /\ sessions[i] = 0 /\ i \notin pending /\ built[i] = 0 /\ \A h \in Frames : h.id # i
    BY <1>1, FreshIs DEF CreateSession
  <1>5. OpenStore(t, f, NewFile, "build")
    BY <1>2 DEF CreateSession
  <1> QED
    BY <1>1, <1>3, <1>4, <1>5, FilesAre, OpenStoreStep

LEMMA KidsFrame ==
    ASSUME NEW q \in Frame, NEW g, g = [q EXCEPT !.kids = {}, !.bad = FALSE]
    PROVE  g \in Frame /\ g.op = q.op /\ g.id = q.id
  BY DEF Frame

LEMMA SettingFile ==
    ASSUME NEW b \in BOOLEAN, NEW x, x = [NewFile EXCEPT !.setting = b]
    PROVE  x \in File /\ x.there
  BY DEF NewFile, NoFile, File

LEMMA ForkStoreStep ==
    ASSUME HostInv, NEW t \in Workers, ForkStore(t)
    PROVE  HostInv'
  <1>1. PICK top : top = Top(t)
    OBVIOUS
  <1>2. /\ Busy(t) /\ top \in Frame /\ top \in Frames /\ top.op = "build" /\ top.at = "fork"
        /\ Fine(t, top)
    BY <1>1, AtIs DEF ForkStore
  <1>3. Unborn(top)
    BY <1>2 DEF Fine, BuildFine, Unborn
  <1>4. CASE /\ Return(t, "error")
             /\ UNCHANGED <<sessions, pending, runtimes, built, disk, reports, deleted>>
    <2>1. UNCHANGED state /\ "error" \in Outcomes
      BY <1>4 DEF state, Outcomes
    <2> QED
      BY <1>2, <1>4, <2>1, QuietReturn
  <1>5. ASSUME NEW k \in top.kids,
               OpenStore(t, [top EXCEPT !.kids = {}, !.bad = FALSE],
                         [NewFile EXCEPT !.setting = disk[k].setting], "build")
        PROVE  HostInv'
    <2>1. PICK f, file : /\ f = [top EXCEPT !.kids = {}, !.bad = FALSE]
                         /\ file = [NewFile EXCEPT !.setting = disk[k].setting]
      OBVIOUS
    <2>2. f \in Frame /\ f.op = "build" /\ f.id = top.id
      BY <1>2, <2>1, KidsFrame
    <2>3. k \in Ids /\ disk[k].setting \in BOOLEAN
      BY <1>2 DEF Frame, HostInv, HostTypes
    <2>4. file \in File /\ file.there
      BY <2>1, <2>3, SettingFile
    <2>5. f.id \notin pending /\ sessions[f.id] = 0 /\ built[f.id] = 0
      BY <1>2, <1>3, <2>2, UnbornIs
    <2>6. \A h : h.id = f.id /\ Unborn(h) => Clash(Top(t), h)
      BY <1>1, <1>3, <2>2 DEF Clash
    <2>7. OpenStore(t, f, file, "build")
      BY <1>5, <2>1
    <2> QED
      BY <1>2, <2>2, <2>4, <2>5, <2>6, <2>7, OpenStoreStep
  <1> QED
    BY <1>1, <1>4, <1>5 DEF ForkStore

\* The repair of the source's last line goes past the runtime that writes it.
LEMMA ForkRepairsStep ==
    ASSUME HostInv, NEW t \in Workers, ForkRepairs(t)
    PROVE  HostInv'
  <1>0. HostTypes
    BY DEF HostInv
  <1>1. PICK top : top = Top(t)
    OBVIOUS
  <1>2. /\ Busy(t) /\ top \in Frame /\ top \in Frames /\ top.op = "build" /\ top.at = "fork"
        /\ Fine(t, top)
    BY <1>1, AtIs DEF ForkRepairs
  <1>3. PICK k \in top.kids, g \in 1..MaxBuilds :
            \/ Touch(k, g, [runtimes[k][g] EXCEPT !.loose = TRUE])
            \/ UNCHANGED runtimes
    BY <1>1 DEF ForkRepairs, Writers
  <1>4. k \in Ids /\ runtimes[k][g] \in Runtime
    BY <1>0, <1>2, <1>3 DEF Frame, HostTypes
  <1>5. PICK r : r = [runtimes[k][g] EXCEPT !.loose = TRUE]
    OBVIOUS
  <1>6. r \in Runtime /\ Flags(runtimes[k][g], r)
    BY <1>4, <1>5 DEF Runtime, Flags
  <1>7. UNCHANGED <<sessions, pending, built, disk, deleted>>
    BY DEF ForkRepairs
  <1>8. /\ Only(k) /\ (Seen(k) => Seen(k)') /\ StateTypes' /\ RegisteredAs(k)'
        /\ \A u \in Workers, f \in Frame : Fine(u, f) => Fine(u, f)'
    <2>1. \/ runtimes' = runtimes
          \/ \E h \in 1..MaxBuilds, q \in Runtime : Touch(k, h, q) /\ Flags(runtimes[k][h], q)
      BY <1>3, <1>4, <1>5, <1>6
    <2> QED
      BY <1>4, <1>7, <2>1, FlagsKeep
  <1>9. PICK f : f = [top EXCEPT !.bad = TRUE]
    OBVIOUS
  <1>10. /\ f \in Frame /\ f.op = top.op /\ f.why = top.why /\ f.at = top.at /\ f.id = top.id
         /\ f.held = top.held /\ f.reserved = top.reserved /\ f.owner = top.owner
         /\ f.kids = top.kids
    BY <1>2, <1>9 DEF Frame
  <1>11. Fine(t, f)
    BY <1>2, <1>10 DEF Fine, BuildFine, OtherFine, GateFine, HeldFine, Building, Unborn, Holding
  <1>12. \A h : ~Clash(top, h) => ~Clash(f, h)
    BY <1>10 DEF Clash, Unborn, Holding
  <1>13. Step(t, Len(stack[t]) - 1, <<f>>)
    <2>1. Goto(t, f)
      BY <1>1, <1>9 DEF ForkRepairs
    <2> QED
      BY <1>0, <1>2, <1>10, <2>1, GotoStep
  <1> QED
    BY <1>1, <1>2, <1>4, <1>8, <1>10, <1>11, <1>12, <1>13, TopGoes

\* A call that has just been given the registered runtime.
LEMMA LiveFine ==
    ASSUME HostInv, NEW t, NEW g \in Frame, SessionOf(g.id) = "ok", g.held = sessions[g.id],
           ~g.reserved,
           \/ g.op = "build" /\ g.at = "switch"
           \/ g.op = "run" /\ g.at \in {"gate", "queued"}
           \/ g.op = "close" /\ g.at = "gate"
           \/ g.op = "rename" /\ g.at = "lock"
           \/ g.op = "set" /\ g.at = "signin"
    PROVE  Fine(t, g) /\ Modest(g)
  <1>1. g.id \in Ids
    BY DEF Frame
  <1>2. /\ g.held # 0 /\ runtimes[g.id][g.held].life = "active" /\ g.held <= built[g.id]
    BY <1>1, LiveIs DEF HostInv, Registered
  <1>3. ~Building(g) /\ ~Unborn(g) /\ ~Holding(g)
    BY DEF Building, Unborn, Holding
  <1>4. g.op = "build" => BuildFine(g)
    BY <1>2, <1>3 DEF BuildFine
  <1>5. OtherFine(g) /\ GateFine(t, g) /\ HeldFine(g)
    BY <1>2, <1>3 DEF OtherFine, GateFine, HeldFine
  <1> QED
    BY <1>2, <1>3, <1>4, <1>5 DEF Fine, Modest

\* The call of t, or its first one, goes on as g.
LEMMA QuietReplace ==
    ASSUME HostInv, UNCHANGED state, NEW t \in Workers, NEW g \in Frame,
           stack' = [stack EXCEPT ![t] =
                        <<g>> \o (IF stack[t] = <<>> THEN <<>> ELSE Tail(stack[t]))],
           Fine(t, g), Modest(g)
    PROVE  HostInv'
  <1>1. \A h : ~Clash(g, h)
    BY ModestIs
  <1>2. CASE Busy(t)
    <2>1. Goto(t, g)
      BY <1>2 DEF Busy, Goto
    <2>2. Within(g, Top(t))
      BY DEF Modest, Within
    <2> QED
      BY <1>2, <2>1, <2>2, QuietGoto
  <1>3. CASE ~Busy(t)
    <2>1. <<g>> \o <<>> = <<g>>
      OBVIOUS
    <2>2. stack' = [stack EXCEPT ![t] = <<g>>]
      BY <1>3, <2>1 DEF Busy
    <2> QED
      BY <1>1, <1>3, <2>2, QuietBegin
  <1> QED
    BY <1>2, <1>3

LEMMA ResumeStep ==
    ASSUME HostInv, NEW t \in Workers, NEW f \in Frame, Resume(t, f), f.op = "build",
           f.why = "resume", f.held = 0, ~f.reserved
    PROVE  HostInv'
  <1>0. HostTypes
    BY DEF HostInv
  <1>1. PICK i \in Ids : i = f.id
    BY DEF Frame
  <1>2. CASE /\ SessionOf(i) = "ok"
             /\ stack' = [stack EXCEPT ![t] = <<[f EXCEPT !.at = "switch", !.held = sessions[i]]>>
                                              \o (IF @ = <<>> THEN <<>> ELSE Tail(@))]
             /\ UNCHANGED <<sessions, pending, runtimes, built, disk, reports, deleted>>
    <2>1. PICK n \in Nat : n = sessions[i]
      BY <1>0, <1>2, LiveIs
    <2>2. PICK g : g = [f EXCEPT !.at = "switch", !.held = n]
      OBVIOUS
    <2>3. g \in Frame
      BY <2>2, AwaitsAre DEF Frame
    <2>4. /\ g.op = f.op /\ g.at = "switch" /\ g.id = f.id /\ g.held = n
          /\ g.reserved = f.reserved
      BY <2>2 DEF Frame
    <2>5. Fine(t, g) /\ Modest(g)
      BY <1>1, <1>2, <2>1, <2>3, <2>4, LiveFine
    <2>6. UNCHANGED state
      BY <1>2 DEF state
    <2> QED
      BY <1>2, <2>1, <2>2, <2>3, <2>5, <2>6, QuietReplace
  <1>3. CASE /\ Reservable(i) /\ disk[i].there
             /\ OpenStore(t, [f EXCEPT !.kids = {k \in {OwnerOf(i)} \ {i} : disk[k].there}],
                          disk[i], IF i \in Children THEN "owner" ELSE "build")
    <2>1. PICK kids : kids = {k \in {OwnerOf(i)} \ {i} : disk[k].there}
      OBVIOUS
    <2>2. kids \in SUBSET Ids /\ \A k \in kids : disk[k].there
      BY <2>1, MainIs DEF OwnerOf
    <2>3. PICK g : g = [f EXCEPT !.kids = kids]
      OBVIOUS
    <2>4. g \in Frame /\ g.op = f.op /\ g.why = f.why /\ g.id = f.id /\ g.kids = kids
      BY <2>2, <2>3 DEF Frame
    <2>5. disk[i] \in File
      BY <1>0 DEF HostTypes, File
    <2>6. PICK a \in {"build", "owner"} : a = IF i \in Children THEN "owner" ELSE "build"
      OBVIOUS
    <2>7. OpenStore(t, g, disk[i], a)
      BY <1>3, <2>1, <2>3, <2>6
    <2>8. ASSUME NEW h \in Frames, h.id = i, Unborn(h) PROVE FALSE
      <3>1. PICK u \in Workers : h \in Frame /\ Fine(u, h)
        BY <2>8, FramesFine
      <3> QED
        BY <1>3, <2>8, <3>1 DEF Fine, BuildFine, Unborn, Seen
    <2> QED
      BY <1>1, <1>3, <2>2, <2>4, <2>5, <2>7, <2>8, OpenStoreStep DEF Reservable
  <1>4. ASSUME NEW r \in Outcomes,
               stack' = [stack EXCEPT ![t] = IF @ = <<>> THEN <<>> ELSE After(@, r, 0)],
               UNCHANGED <<sessions, pending, runtimes, built, disk, reports, deleted>>
        PROVE  HostInv'
    <2>1. UNCHANGED state
      BY <1>4 DEF state
    <2>2. CASE Busy(t)
      <3>1. Return(t, r)
        BY <1>4, <2>2 DEF Busy, Return
      <3> QED
        BY <2>1, <2>2, <3>1, QuietReturn
    <2>3. CASE ~Busy(t)
      BY <1>4, <2>1, <2>3, QuietNone DEF Busy
    <2> QED
      BY <2>2, <2>3
  <1>5. PICK r : r = IF sessions[i] # 0 THEN SessionOf(i)
                     ELSE IF i \in pending THEN "duplicate"
                     ELSE IF disk[i].there THEN "error" ELSE "notFound"
    OBVIOUS
  <1>6. r \in Outcomes
    BY <1>0, <1>5, OutcomesAre
  <1> QED
    BY <1>1, <1>2, <1>3, <1>4, <1>5, <1>6 DEF Resume

LEMMA ResumeSessionStep ==
    ASSUME HostInv, NEW t, NEW i \in Ids, ResumeSession(t, i)
    PROVE  HostInv'
  <1>1. t \in Workers
    BY IdleIs DEF ResumeSession
  <1>2. PICK f : f = Call("build", "resume", "look", i)
    OBVIOUS
  <1>3. f \in Frame /\ f.op = "build" /\ f.why = "resume" /\ f.held = 0 /\ ~f.reserved
    BY <1>2, AwaitsAre DEF Call, Frame, Outcomes
  <1> QED
    BY <1>1, <1>2, <1>3, ResumeStep DEF ResumeSession

LEMMA ResumeNestedStep ==
    ASSUME HostInv, NEW t \in Workers, ResumeNested(t)
    PROVE  HostInv'
  <1>1. Top(t) \in Frame /\ Fine(t, Top(t)) /\ Top(t).op = "build" /\ Top(t).at = "look"
    BY AtIs DEF ResumeNested
  <1>2. Top(t).why = "resume" /\ Top(t).held = 0 /\ ~Top(t).reserved
    BY <1>1 DEF Fine, BuildFine
  <1> QED
    BY <1>1, <1>2, ResumeStep DEF ResumeNested

LEMMA GuardedFrame ==
    ASSUME NEW q \in Frame, NEW g, g = [q EXCEPT !.guard = TRUE, !.at = "build"]
    PROVE  g \in Frame /\ g.at = "build" /\ Alike(q, g)
  BY AwaitsAre DEF Frame, Alike

LEMMA GuardingFrame ==
    ASSUME NEW q \in Frame, NEW g, g = [q EXCEPT !.guard = TRUE]
    PROVE  g \in Frame /\ Alike(q, g)
  BY DEF Frame, Alike

LEMMA OwnerGuardStep ==
    ASSUME HostInv, NEW t \in Workers, OwnerGuard(t)
    PROVE  HostInv'
  <1>0. HostTypes
    BY DEF HostInv
  <1>1. PICK top : top = Top(t)
    OBVIOUS
  <1>2. /\ Busy(t) /\ top \in Frame /\ top \in Frames /\ top.op = "build" /\ top.at = "guard"
        /\ Fine(t, top)
    BY <1>1, AtIs DEF OwnerGuard
  <1>3. /\ top.owner \in 1..MaxBuilds
        /\ IF top.held = 0 THEN top.why = "spawn" /\ ~top.reserved ELSE top.why = "resume"
    BY <1>2 DEF Fine, BuildFine
  <1>4. CASE /\ Return(t, EnsureActive(runtimes[Main][top.owner])) /\ Unreserve(top)
             /\ runtimes' = IF top.held = 0 THEN runtimes
                            ELSE [runtimes EXCEPT ![top.id][top.held] = Unused]
             /\ UNCHANGED <<sessions, built, disk, reports, deleted>>
    <2>1. PICK r \in Outcomes : r = EnsureActive(runtimes[Main][top.owner])
      BY <1>0, OutcomesAre
    <2>2. CASE top.held = 0
      <3>1. UNCHANGED state
        BY <1>3, <1>4, <2>2 DEF Unreserve, state
      <3> QED
        BY <1>2, <1>4, <2>1, <3>1, QuietReturn
    <2>3. CASE top.held # 0
      <3>1. Building(top)
        BY <1>2, <2>3 DEF Building
      <3>2. Touch(top.id, top.held, Unused)
        BY <1>4, <2>3 DEF Touch
      <3> QED
        BY <1>1, <1>2, <1>4, <2>1, <3>1, <3>2, BuildFails
    <2> QED
      BY <2>2, <2>3
  <1>5. CASE /\ top.why = "spawn"
             /\ OpenStore(t, [top EXCEPT !.guard = TRUE],
                          [NewFile EXCEPT !.setting = runtimes[Main][top.owner].setting], "build")
    <2>1. PICK f, file : /\ f = [top EXCEPT !.guard = TRUE]
                         /\ file = [NewFile EXCEPT !.setting = runtimes[Main][top.owner].setting]
      OBVIOUS
    <2>2. f \in Frame /\ f.op = "build" /\ f.id = top.id
      BY <1>2, <2>1, GuardingFrame DEF Alike
    <2>3. runtimes[Main][top.owner].setting \in BOOLEAN
      <3>1. runtimes[Main][top.owner] \in Runtime
        BY <1>0, <1>3, MainIs DEF HostTypes
      <3> QED
        BY <3>1 DEF Runtime
    <2>4. file \in File /\ file.there
      BY <2>1, <2>3, SettingFile
    <2>5. Unborn(top)
      BY <1>2, <1>3, <1>5 DEF Unborn
    <2>6. f.id \notin pending /\ sessions[f.id] = 0 /\ built[f.id] = 0
      BY <1>2, <2>2, <2>5, UnbornIs
    <2>7. \A h : h.id = f.id /\ Unborn(h) => Clash(Top(t), h)
      BY <1>1, <2>2, <2>5 DEF Clash
    <2>8. OpenStore(t, f, file, "build")
      BY <1>5, <2>1
    <2> QED
      BY <1>2, <2>2, <2>4, <2>6, <2>7, <2>8, OpenStoreStep
  <1>6. CASE /\ top.why # "spawn"
             /\ Goto(t, [top EXCEPT !.guard = TRUE, !.at = "build"])
             /\ UNCHANGED <<sessions, pending, runtimes, built, disk, reports, deleted>>
    <2>1. PICK g : g = [top EXCEPT !.guard = TRUE, !.at = "build"]
      OBVIOUS
    <2>2. g \in Frame /\ g.at = "build" /\ Alike(top, g)
      BY <1>2, <2>1, GuardedFrame
    <2>3. MayMove(top, g)
      BY <1>2, <1>3, <1>6, <2>2 DEF MayMove
    <2>4. UNCHANGED state
      BY <1>6 DEF state
    <2> QED
      BY <1>1, <1>2, <1>6, <2>1, <2>2, <2>3, <2>4, QuietMove
  <1> QED
    BY <1>1, <1>4, <1>5, <1>6 DEF OwnerGuard

\* The step changes flags of a runtime, or reserves a known id, and replaces the
\* innermost call of t.
LEMMA FlagTop ==
    ASSUME HostInv, NEW t \in Workers, Busy(t), NEW top, top = Top(t),
           NEW i \in Ids, UNCHANGED <<sessions, built, disk, deleted>>,
           pending' = pending \/ (pending' = pending \cup {i} /\ Seen(i)),
           \/ runtimes' = runtimes
           \/ \E g \in 1..MaxBuilds, r \in Runtime :
                 Touch(i, g, r) /\ Flags(runtimes[i][g], r),
           NEW f \in Frame, Step(t, Len(stack[t]) - 1, <<f>>), Fine(t, f), Within(f, top)
    PROVE  HostInv'
  <1>1. /\ Only(i) /\ (Seen(i) => Seen(i)') /\ StateTypes' /\ RegisteredAs(i)'
        /\ \A u \in Workers, h \in Frame : Fine(u, h) => Fine(u, h)'
    BY FlagsKeep
  <1>2. \A h \in Frame : h \in Frames /\ ~Clash(top, h) => ~Clash(f, h)
    BY WithinKeeps
  <1>3. Fine(t, f)'
    BY <1>1
  <1> QED
    BY <1>1, <1>2, <1>3, TopGoes

LEMMA BuildSessionStep ==
    ASSUME HostInv, NEW t \in Workers, BuildSession(t)
    PROVE  HostInv'
  <1>0. HostTypes
    BY DEF HostInv
  <1>1. PICK top : top = Top(t)
    OBVIOUS
  <1>2. Busy(t) /\ top \in Frame /\ top.op = "build" /\ top.at = "build" /\ Fine(t, top)
    BY <1>1, AtIs DEF BuildSession
  <1>3. Building(top)
    BY <1>2 DEF Fine, BuildFine, Building
  <1>4. /\ top.id \in Ids /\ top.held \in 1..MaxBuilds /\ runtimes[top.id][top.held] \in Runtime
        /\ top.owner \in Nat
    <2>1. top.owner \in Nat
      BY <1>2 DEF Frame
    <2> QED
      BY <1>0, <1>2, <1>3, <2>1, HeldIs DEF Building
  <1>5. CASE /\ Touch(top.id, top.held, [Now(t) EXCEPT !.owner = top.owner])
             /\ Goto(t, [top EXCEPT !.at = IF top.why = "resume" THEN "hook" ELSE "register"])
             /\ UNCHANGED <<pending, disk, budget>>
    <2>1. PICK r : r = [Now(t) EXCEPT !.owner = top.owner]
      OBVIOUS
    <2>2. r \in Runtime /\ Flags(runtimes[top.id][top.held], r)
      <3>1. r = [runtimes[top.id][top.held] EXCEPT !.owner = top.owner]
        BY <1>1, <2>1 DEF Now
      <3> QED
        BY <1>4, <3>1 DEF Runtime, Flags
    <2>3. PICK a \in {"hook", "register"} : a = IF top.why = "resume" THEN "hook" ELSE "register"
      OBVIOUS
    <2>4. PICK f : f = [top EXCEPT !.at = a]
      OBVIOUS
    <2>5. f \in Frame /\ f.at = a /\ Alike(top, f)
      BY <1>2, <2>3, <2>4, FrameMoves, AwaitsAre
    <2>6. MayMove(top, f)
      BY <1>2, <2>3, <2>5 DEF MayMove
    <2>7. Fine(t, f) /\ Within(f, top)
      BY <1>2, <2>5, <2>6, MoveFine
    <2>8. Step(t, Len(stack[t]) - 1, <<f>>)
      BY <1>0, <1>2, <1>5, <2>3, <2>4, <2>5, GotoStep
    <2>9. UNCHANGED <<sessions, built, disk, deleted>> /\ pending' = pending
      BY <1>5 DEF BuildSession
    <2>10. \E g \in 1..MaxBuilds, q \in Runtime :
              Touch(top.id, g, q) /\ Flags(runtimes[top.id][g], q)
      BY <1>4, <1>5, <2>1, <2>2
    <2> QED
      BY <1>1, <1>2, <1>4, <2>5, <2>7, <2>8, <2>9, <2>10, FlagTop
  <1>6. CASE /\ Touch(top.id, top.held, Unused)
             /\ disk' = IF top.why = "spawn" THEN [disk EXCEPT ![top.id] = NoFile] ELSE disk
             /\ Unreserve(top) /\ Return(t, "error")
    <2>1. "error" \in Outcomes
      BY DEF Outcomes
    <2>2. UNCHANGED <<sessions, built, deleted>>
      BY DEF BuildSession
    <2> QED
      BY <1>1, <1>2, <1>3, <1>6, <2>1, <2>2, BuildFails
  <1> QED
    BY <1>1, <1>5, <1>6 DEF BuildSession

LEMMA BeforeSwitchStep ==
    ASSUME HostInv, NEW t \in Workers, BeforeSwitch(t)
    PROVE  HostInv'
  <1>1. PICK top : top = Top(t)
    OBVIOUS
  <1>2. Busy(t) /\ top \in Frame /\ top.op = "build" /\ top.at = "hook" /\ Fine(t, top)
    BY <1>1, AtIs DEF BeforeSwitch
  <1>3. Building(top)
    BY <1>2 DEF Fine, BuildFine, Building
  <1>4. CASE Goto(t, [top EXCEPT !.at = "register"]) /\ UNCHANGED <<pending, runtimes, budget>>
    <2>1. PICK f : f = [top EXCEPT !.at = "register"]
      OBVIOUS
    <2>2. f \in Frame /\ f.at = "register" /\ Alike(top, f)
      BY <1>2, <2>1, FrameMoves, AwaitsAre
    <2>3. MayMove(top, f)
      BY <1>2, <2>2 DEF MayMove
    <2>4. UNCHANGED state
      BY <1>4 DEF BeforeSwitch, state
    <2> QED
      BY <1>1, <1>2, <1>4, <2>1, <2>2, <2>3, <2>4, QuietMove
  <1>5. CASE Touch(top.id, top.held, Unused) /\ Unreserve(top) /\ Return(t, "error")
    <2>1. "error" \in Outcomes
      BY DEF Outcomes
    <2>2. UNCHANGED <<sessions, built, deleted>> /\ disk' = disk
      BY DEF BeforeSwitch
    <2> QED
      BY <1>1, <1>2, <1>3, <1>5, <2>1, <2>2, BuildFails
  <1> QED
    BY <1>1, <1>4, <1>5 DEF BeforeSwitch

LEMMA RegisterSessionStep ==
    ASSUME HostInv, NEW t \in Workers, RegisterSession(t)
    PROVE  HostInv'
  <1>0. HostTypes /\ Registered
    BY DEF HostInv
  <1>1. PICK top : top = Top(t)
    OBVIOUS
  <1>2. Busy(t) /\ top \in Frame /\ top.op = "build" /\ top.at = "register" /\ Fine(t, top)
    BY <1>1, AtIs DEF RegisterSession
  <1>3. Building(top)
    BY <1>2 DEF Fine, BuildFine, Building
  <1>4. /\ top.reserved /\ sessions[top.id] = 0 /\ disk[top.id].there
        /\ runtimes[top.id][top.held].life = "starting"
        /\ Matches(runtimes[top.id][top.held], disk[top.id]) /\ top.held # 0
        /\ top.id \in pending /\ top.held <= built[top.id]
    BY <1>2, <1>3 DEF Fine, BuildFine, Building
  <1>5. top.id \in Ids /\ top.held \in 1..MaxBuilds /\ top.held \in 0..MaxBuilds
    BY <1>0, <1>2, <1>4, HeldIs
  <1>6. /\ sessions' = [sessions EXCEPT ![top.id] = top.held]
        /\ Goto(t, [top EXCEPT !.at = "start"])
        /\ UNCHANGED <<pending, runtimes, built, disk, deleted>>
    BY <1>1, <1>4 DEF RegisterSession
  <1>7. PICK f : f = [top EXCEPT !.at = "start"]
    OBVIOUS
  <1>8. f \in Frame /\ f.at = "start" /\ Alike(top, f)
    BY <1>2, <1>7, FrameMoves, AwaitsAre
  <1>9. /\ sessions' \in [Ids -> 0..MaxBuilds] /\ sessions'[top.id] = top.held
        /\ \A j \in Ids \ {top.id} : sessions'[j] = sessions[j]
    BY <1>0, <1>5, <1>6 DEF HostTypes
  <1>10. Only(top.id) /\ StateTypes' /\ (Seen(top.id) => Seen(top.id)')
    BY <1>0, <1>6, <1>9 DEF Only, StateTypes, HostTypes, Seen
  <1>11. RegisteredAs(top.id)'
    BY <1>0, <1>4, <1>5, <1>6, <1>9 DEF RegisteredAs, Registered, Matches
  <1>12. Fine(t, f)'
    <2>1. BuildFine(f)'
      BY <1>2, <1>4, <1>6, <1>8, <1>9 DEF BuildFine, Building, Unborn, Alike
    <2>2. OtherFine(f)' /\ GateFine(t, f)' /\ HeldFine(f)'
      BY <1>2, <1>8 DEF OtherFine, GateFine, HeldFine, Building, Holding, Alike
    <2> QED
      BY <1>2, <1>4, <1>6, <1>8, <2>1, <2>2 DEF Fine, Alike
  <1>13. \A h \in Frame : h \in Frames /\ ~Clash(top, h) => ~Clash(f, h)
    <2>1. Within(f, top)
      BY <1>2, <1>8 DEF Within, Alike, Unborn, Holding
    <2> QED
      BY <2>1, WithinKeeps
  <1>14. ASSUME NEW u \in Workers, NEW h \in Frame, Fine(u, h), ~Clash(top, h), h.id = top.id
         PROVE  Fine(u, h)'
    <2>1. ~h.reserved /\ ~Unborn(h)
      BY <1>2, <1>4, <1>14, BesideReserved
    <2>2. /\ h.held <= built[h.id] /\ (h.held # 0 => runtimes[h.id][h.held].life = "closed")
          /\ ~Holding(h)
      BY <1>4, <1>14, <2>1, PlainIs
    <2> QED
      BY <1>6, <1>14, <2>1, <2>2, PlainFine
  <1>15. Step(t, Len(stack[t]) - 1, <<f>>)
    BY <1>0, <1>2, <1>6, <1>7, <1>8, GotoStep
  <1> QED
    BY <1>1, <1>2, <1>5, <1>8, <1>10, <1>11, <1>12, <1>13, <1>14, <1>15, TopGoes

\* A call that holds the reservation of its id ends and gives it up; what it leaves
\* of the Session is fine for the calls that claim nothing.
LEMMA ReservedReturns ==
    ASSUME HostInv, NEW t \in Workers, Busy(t), NEW top, top = Top(t), top.reserved,
           Only(top.id), Seen(top.id) => Seen(top.id)', StateTypes', RegisteredAs(top.id)',
           NEW r \in Outcomes, Return(t, r),
           \A n \in 0..MaxBuilds : n <= built[top.id] => n <= built'[top.id],
           \A u \in Workers, g \in 1..MaxBuilds :
               LET x == runtimes[top.id][g]  y == runtimes'[top.id][g] IN
               /\ /\ x.life # "starting"
                  /\ x.life = "closed" \/ sessions[top.id] = g
                       \/ (sessions[top.id] = 0 /\ ~disk[top.id].there)
                  => /\ y.life # "starting"
                     /\ y.life = "closed" \/ sessions'[top.id] = g
                          \/ (sessions'[top.id] = 0 /\ ~disk'[top.id].there)
               /\ x.gate = u /\ x.life \in {"active", "closing"}
                  => y.gate = u /\ y.life \in {"active", "closing"}
    PROVE  HostInv'
  <1>1. HostTypes
    BY DEF HostInv
  <1>2. top \in Frame /\ Fine(t, top) /\ top.id \in Ids
    BY <1>1, TopIs, HeldIs DEF HostInv
  <1>3. ASSUME NEW u \in Workers, NEW f \in Frame, Fine(u, f), ~Clash(top, f), f.id = top.id
        PROVE  Fine(u, f)'
    <2>1. ~f.reserved /\ ~Unborn(f)
      BY <1>2, <1>3, BesideReserved
    <2>2. (f.held # 0 => f.held \in 1..MaxBuilds) /\ f.held \in Nat /\ f.held <= built[f.id]
      BY <1>1, <1>3, HeldIs
    <2>3. f.held \in 0..MaxBuilds
      BY <2>2, HostAssumption
    <2>4. f.held <= built'[f.id]
      BY <1>3, <2>2, <2>3
    <2>5. /\ f.held # 0 => /\ runtimes[f.id][f.held].life # "starting"
                           /\ \/ runtimes[f.id][f.held].life = "closed"
                              \/ sessions[f.id] = f.held
                              \/ sessions[f.id] = 0 /\ ~disk[f.id].there
          /\ Holding(f) => /\ f.held # 0 /\ runtimes[f.id][f.held].gate = u
                           /\ runtimes[f.id][f.held].life \in {"active", "closing"}
      BY <1>3, <2>1, PlainIs
    <2>6. f.held # 0 => /\ runtimes'[f.id][f.held].life # "starting"
                        /\ \/ runtimes'[f.id][f.held].life = "closed"
                           \/ sessions'[f.id] = f.held
                           \/ sessions'[f.id] = 0 /\ ~disk'[f.id].there
      BY <1>3, <2>2, <2>5
    <2>7. Holding(f) => /\ runtimes'[f.id][f.held].gate = u
                        /\ runtimes'[f.id][f.held].life \in {"active", "closing"}
      BY <1>3, <2>2, <2>5
    <2> QED
      BY <1>3, <2>1, <2>4, <2>6, <2>7, PlainFine
  <1> QED
    BY <1>2, <1>3, TopReturns

\* The frames of a call that registered its runtime.
LEMMA RegisteredCall ==
    ASSUME HostInv, NEW t \in Workers, Busy(t), NEW top, top = Top(t), top.op = "build",
           top.at \in {"start", "checkpoint", "name"}
    PROVE  /\ top \in Frame /\ Fine(t, top) /\ top.id \in Ids /\ top.reserved /\ top.held # 0
           /\ top.held \in 1..MaxBuilds /\ top.held <= built[top.id]
           /\ runtimes[top.id][top.held] \in Runtime
           /\ built[top.id] \in Nat /\ built[top.id] > 0
           /\ top.at = "name" => top.why = "spawn"
           /\ top.at # "name" => /\ sessions[top.id] = top.held
                                 /\ runtimes[top.id][top.held].life = "starting"
  <1>1. HostTypes
    BY DEF HostInv
  <1>2. top \in Frame /\ Fine(t, top)
    BY TopIs DEF HostInv
  <1>3. /\ top.reserved /\ top.held # 0
        /\ top.at = "name" => top.why = "spawn"
        /\ top.at # "name" => /\ sessions[top.id] = top.held
                              /\ runtimes[top.id][top.held].life = "starting"
    BY <1>2 DEF Fine, BuildFine
  <1>4. /\ top.id \in Ids /\ top.held \in Nat /\ top.held <= built[top.id]
        /\ built[top.id] \in 0..MaxBuilds /\ top.held \in 1..MaxBuilds
        /\ runtimes[top.id][top.held] \in Runtime
    BY <1>1, <1>2, <1>3, HeldIs
  <1>5. built[top.id] \in Nat /\ built[top.id] > 0
    BY <1>3, <1>4
  <1> QED
    BY <1>2, <1>3, <1>4, <1>5

LEMMA RollbackStep ==
    ASSUME HostInv, NEW t \in Workers, Busy(t), NEW top, top = Top(t), top.op = "build",
           top.at \in {"start", "checkpoint", "name"}, Rollback(t, top),
           UNCHANGED <<runtimes, built, deleted>>
    PROVE  HostInv'
  <1>0. HostTypes /\ Registered
    BY DEF HostInv
  <1>1. /\ top \in Frame /\ Fine(t, top) /\ top.id \in Ids /\ top.reserved /\ top.held # 0
        /\ top.held \in 1..MaxBuilds /\ built[top.id] \in Nat /\ built[top.id] > 0
        /\ top.at = "name" => top.why = "spawn"
        /\ top.at # "name" => /\ sessions[top.id] = top.held
                              /\ runtimes[top.id][top.held].life = "starting"
    BY RegisteredCall
  <1>2. /\ sessions' \in [Ids -> 0..MaxBuilds] /\ sessions'[top.id] = 0
        /\ \A j \in Ids \ {top.id} : sessions'[j] = sessions[j]
    <2>1. sessions' = [sessions EXCEPT ![top.id] = 0] /\ 0 \in 0..MaxBuilds
      BY HostAssumption DEF Rollback
    <2> QED
      BY <1>0, <1>1, <2>1 DEF HostTypes
  <1>3. /\ disk' \in [Ids -> [there : BOOLEAN, title : BOOLEAN, setting : BOOLEAN]]
        /\ \A j \in Ids \ {top.id} : disk'[j] = disk[j]
        /\ disk'[top.id].there => disk[top.id].there
        /\ top.why = "spawn" => ~disk'[top.id].there
    <2>1. CASE top.why = "resume"
      BY <1>0, <2>1 DEF Rollback, HostTypes
    <2>2. CASE top.why # "resume"
      <3>1. disk' = [disk EXCEPT ![top.id] = NoFile]
        BY <2>2 DEF Rollback
      <3> QED
        BY <1>0, <1>1, <3>1, FilesAre, FileIs
    <2> QED
      BY <2>1, <2>2
  <1>4. pending' = pending \ {top.id} /\ Return(t, "error") /\ "error" \in Outcomes
    BY <1>1 DEF Rollback, Unreserve, Outcomes
  <1>5. Only(top.id) /\ StateTypes' /\ Seen(top.id)'
    BY <1>0, <1>1, <1>2, <1>3, <1>4 DEF Only, StateTypes, HostTypes, Seen
  <1>6. RegisteredAs(top.id)'
    BY <1>0, <1>1, <1>2 DEF RegisteredAs, Registered
  <1>7. ASSUME NEW g \in 1..MaxBuilds, runtimes[top.id][g].life # "starting",
               \/ runtimes[top.id][g].life = "closed"
               \/ sessions[top.id] = g
               \/ sessions[top.id] = 0 /\ ~disk[top.id].there
        PROVE  runtimes[top.id][g].life = "closed" \/ ~disk'[top.id].there
    BY <1>1, <1>3, <1>7
  <1> QED
    BY <1>1, <1>2, <1>4, <1>5, <1>6, <1>7, ReservedReturns

LEMMA StartExtensionsStep ==
    ASSUME HostInv, NEW t \in Workers, StartExtensions(t)
    PROVE  HostInv'
  <1>1. PICK top : top = Top(t)
    OBVIOUS
  <1>2. Busy(t) /\ top \in Frame /\ top.op = "build" /\ top.at = "start"
    BY <1>1, AtIs DEF StartExtensions
  <1>3. CASE Goto(t, [top EXCEPT !.at = "checkpoint"]) /\ UNCHANGED <<sessions, pending, disk, budget>>
    <2>1. PICK f : f = [top EXCEPT !.at = "checkpoint"]
      OBVIOUS
    <2>2. f \in Frame /\ f.at = "checkpoint" /\ Alike(top, f)
      BY <1>2, <2>1, FrameMoves, AwaitsAre
    <2>3. MayMove(top, f)
      BY <1>2, <2>2 DEF MayMove
    <2>4. UNCHANGED state
      BY <1>3 DEF StartExtensions, state
    <2> QED
      BY <1>1, <1>2, <1>3, <2>1, <2>2, <2>3, <2>4, QuietMove
  <1>4. CASE Rollback(t, top)
    <2>1. UNCHANGED <<runtimes, built, deleted>>
      BY DEF StartExtensions
    <2> QED
      BY <1>1, <1>2, <1>4, <2>1, RollbackStep
  <1> QED
    BY <1>1, <1>3, <1>4 DEF StartExtensions

LEMMA ActiveRuntime ==
    ASSUME NEW q \in Runtime, NEW r, r = [q EXCEPT !.life = "active"]
    PROVE  /\ r \in Runtime /\ r.life = "active" /\ r.gate = q.gate /\ r.closing = q.closing
           /\ r.title = q.title /\ r.setting = q.setting /\ r.loose = q.loose
  BY DEF Runtime, Lifecycle

LEMMA CheckpointStartedStep ==
    ASSUME HostInv, NEW t \in Workers, CheckpointStarted(t)
    PROVE  HostInv'
  <1>0. HostTypes /\ Registered
    BY DEF HostInv
  <1>1. PICK top : top = Top(t)
    OBVIOUS
  <1>2. Busy(t) /\ top \in Frame /\ top.op = "build" /\ top.at = "checkpoint"
    BY <1>1, AtIs DEF CheckpointStarted
  <1>3. CASE Rollback(t, top) /\ UNCHANGED runtimes
    <2>1. UNCHANGED <<runtimes, built, deleted>>
      BY <1>3 DEF CheckpointStarted
    <2> QED
      BY <1>1, <1>2, <1>3, <2>1, RollbackStep
  <1>4. CASE /\ Touch(top.id, top.held, [Now(t) EXCEPT !.life = "active"])
             /\ IF top.why = "spawn" THEN Goto(t, [top EXCEPT !.at = "name"]) /\ UNCHANGED pending
                ELSE Return(t, "ok") /\ Unreserve(top)
             /\ UNCHANGED <<sessions, disk, budget>>
    <2>1. /\ Fine(t, top) /\ top.id \in Ids /\ top.reserved /\ top.held # 0
          /\ top.held \in 1..MaxBuilds /\ built[top.id] \in Nat /\ built[top.id] > 0
          /\ runtimes[top.id][top.held] \in Runtime /\ top.held <= built[top.id]
          /\ sessions[top.id] = top.held /\ runtimes[top.id][top.held].life = "starting"
      BY <1>1, <1>2, RegisteredCall
    <2>2. PICK r : r = [Now(t) EXCEPT !.life = "active"]
      OBVIOUS
    <2>3. /\ r \in Runtime /\ r.life = "active" /\ r.gate = runtimes[top.id][top.held].gate
          /\ r.title = runtimes[top.id][top.held].title
          /\ r.setting = runtimes[top.id][top.held].setting
          /\ r.loose = runtimes[top.id][top.held].loose
      BY <1>1, <2>1, <2>2, ActiveRuntime DEF Now
    <2>4. /\ runtimes' \in [Ids -> [1..MaxBuilds -> Runtime]] /\ runtimes'[top.id][top.held] = r
          /\ \A h \in 1..MaxBuilds : h # top.held => runtimes'[top.id][h] = runtimes[top.id][h]
          /\ \A j \in Ids \ {top.id} : runtimes'[j] = runtimes[j]
      BY <1>0, <1>4, <2>1, <2>2, <2>3, TouchIs
    <2>5. UNCHANGED <<sessions, built, disk, deleted>>
      BY <1>4 DEF CheckpointStarted
    <2>6. pending' = pending \/ pending' = pending \ {top.id}
      BY <1>4, <2>1 DEF Unreserve
    <2>7. Only(top.id) /\ StateTypes' /\ Seen(top.id)'
      BY <1>0, <2>1, <2>4, <2>5, <2>6 DEF Only, StateTypes, HostTypes, Seen
    <2>8. RegisteredAs(top.id)'
      <3>1. \A g \in 1..MaxBuilds : runtimes'[top.id][g].closing => runtimes'[top.id][g].life # "starting"
        BY <1>0, <2>1, <2>3, <2>4 DEF Registered
      <3> QED
        BY <1>0, <2>1, <2>3, <2>4, <2>5, <3>1 DEF RegisteredAs, Registered, Matches
    <2>9. CASE top.why = "spawn"
      <3>1. PICK f : f = [top EXCEPT !.at = "name"]
        OBVIOUS
      <3>2. f \in Frame /\ f.at = "name" /\ Alike(top, f)
        BY <1>2, <3>1, FrameMoves, AwaitsAre
      <3>3. Fine(t, f)'
        <4>1. BuildFine(f)'
          BY <1>2, <2>1, <2>5, <2>9, <3>2 DEF BuildFine, Building, Unborn, Alike
        <4>2. OtherFine(f)' /\ GateFine(t, f)' /\ HeldFine(f)'
          BY <1>2, <2>1, <2>3, <2>4, <2>5, <3>2 DEF OtherFine, GateFine, HeldFine, Holding, Alike
        <4>3. f.id \in pending'
          BY <1>4, <2>1, <2>9, <3>2 DEF Fine, Alike
        <4> QED
          BY <1>2, <2>1, <2>5, <3>2, <4>1, <4>2, <4>3 DEF Fine, Alike
      <3>4. Within(f, top)
        BY <1>2, <3>2 DEF Within, Alike, Unborn, Holding
      <3>5. \A h \in Frame : h \in Frames /\ ~Clash(top, h) => ~Clash(f, h)
        BY <3>4, WithinKeeps
      <3>6. ASSUME NEW u \in Workers, NEW h \in Frame, Fine(u, h), ~Clash(top, h), h.id = top.id
            PROVE  Fine(u, h)'
        <4>1. ~h.reserved /\ ~Unborn(h)
          BY <2>1, <3>6, BesideReserved
        <4>2. /\ h.held <= built[h.id]
              /\ (h.held # 0 => /\ runtimes[h.id][h.held].life # "starting"
                                /\ \/ runtimes[h.id][h.held].life = "closed"
                                   \/ sessions[h.id] = h.held
                                   \/ sessions[h.id] = 0 /\ ~disk[h.id].there)
              /\ Holding(h) => /\ h.held # 0 /\ runtimes[h.id][h.held].gate = u
                               /\ runtimes[h.id][h.held].life \in {"active", "closing"}
          BY <3>6, <4>1, PlainIs
        <4>3. h.held # 0 => h.held \in 1..MaxBuilds
          BY <1>0, <3>6, HeldIs
        <4>4. h.held # 0 => runtimes'[h.id][h.held] = runtimes[h.id][h.held]
          BY <2>1, <2>4, <3>6, <4>2, <4>3
        <4> QED
          BY <2>5, <3>6, <4>1, <4>2, <4>4, PlainFine
      <3>7. Step(t, Len(stack[t]) - 1, <<f>>)
        BY <1>0, <1>2, <1>4, <2>9, <3>1, <3>2, GotoStep
      <3> QED
        BY <1>1, <1>2, <2>1, <2>7, <2>8, <3>2, <3>3, <3>5, <3>6, <3>7, TopGoes
    <2>10. CASE top.why # "spawn"
      <3>1. Return(t, "ok") /\ "ok" \in Outcomes
        BY <1>4, <2>10 DEF Outcomes
      <3>2. \A g \in 1..MaxBuilds : runtimes[top.id][g].life # "starting" =>
                                       runtimes'[top.id][g] = runtimes[top.id][g]
        BY <2>1, <2>4
      <3>3. \A g \in 1..MaxBuilds : runtimes[top.id][g].life \in {"active", "closing"} =>
                                       runtimes'[top.id][g] = runtimes[top.id][g]
        BY <2>1, <2>4
      <3> QED
        BY <1>1, <1>2, <2>1, <2>5, <2>7, <2>8, <3>1, <3>2, <3>3, ReservedReturns
    <2> QED
      BY <2>9, <2>10
  <1> QED
    BY <1>1, <1>3, <1>4 DEF CheckpointStarted

\* A title or a setting is written to a file, and to a runtime.
LEMMA TitleWritten ==
    ASSUME HostTypes, NEW i \in Ids, disk' = [disk EXCEPT ![i].title = TRUE]
    PROVE  /\ disk' \in [Ids -> [there : BOOLEAN, title : BOOLEAN, setting : BOOLEAN]]
           /\ disk'[i].there = disk[i].there /\ disk'[i].title = TRUE
           /\ disk'[i].setting = disk[i].setting
           /\ \A j \in Ids \ {i} : disk'[j] = disk[j]
  BY DEF HostTypes

LEMMA SettingWritten ==
    ASSUME HostTypes, NEW i \in Ids, disk' = [disk EXCEPT ![i].setting = TRUE]
    PROVE  /\ disk' \in [Ids -> [there : BOOLEAN, title : BOOLEAN, setting : BOOLEAN]]
           /\ disk'[i].there = disk[i].there /\ disk'[i].setting = TRUE
           /\ disk'[i].title = disk[i].title
           /\ \A j \in Ids \ {i} : disk'[j] = disk[j]
  BY DEF HostTypes

LEMMA TitledRuntime ==
    ASSUME NEW q \in Runtime, NEW r, r = [q EXCEPT !.title = TRUE]
    PROVE  /\ r \in Runtime /\ r.life = q.life /\ r.gate = q.gate /\ r.closing = q.closing
           /\ r.title = TRUE /\ r.setting = q.setting /\ r.loose = q.loose
  BY DEF Runtime

LEMMA SetRuntime ==
    ASSUME NEW q \in Runtime, NEW r, r = [q EXCEPT !.setting = TRUE]
    PROVE  /\ r \in Runtime /\ r.life = q.life /\ r.gate = q.gate /\ r.closing = q.closing
           /\ r.setting = TRUE /\ r.title = q.title /\ r.loose = q.loose
  BY DEF Runtime

LEMMA NameChildStep ==
    ASSUME HostInv, NEW t \in Workers, NameChild(t)
    PROVE  HostInv'
  <1>0. HostTypes /\ Registered
    BY DEF HostInv
  <1>1. PICK top : top = Top(t)
    OBVIOUS
  <1>2. Busy(t) /\ top \in Frame /\ top.op = "build" /\ top.at = "name"
    BY <1>1, AtIs DEF NameChild
  <1>3. CASE Rollback(t, top) /\ UNCHANGED runtimes
    <2>1. UNCHANGED <<runtimes, built, deleted>>
      BY <1>3 DEF NameChild
    <2> QED
      BY <1>1, <1>2, <1>3, <2>1, RollbackStep
  <1>4. CASE /\ SessionOf(top.id) = "ok"
             /\ Touch(top.id, top.held, [Now(t) EXCEPT !.title = TRUE])
             /\ disk' = [disk EXCEPT ![top.id].title = TRUE]
             /\ Unreserve(top) /\ Return(t, "ok")
             /\ UNCHANGED <<sessions, budget>>
    <2>1. /\ Fine(t, top) /\ top.id \in Ids /\ top.reserved /\ top.held # 0
          /\ top.held \in 1..MaxBuilds /\ built[top.id] \in Nat /\ built[top.id] > 0
          /\ runtimes[top.id][top.held] \in Runtime /\ top.held <= built[top.id]
      BY <1>1, <1>2, RegisteredCall
    <2>2. sessions[top.id] = top.held
      <3>1. sessions[top.id] # 0
        BY <1>0, <1>4, <2>1, LiveIs
      <3> QED
        BY <1>2, <2>1, <3>1 DEF Fine, BuildFine
    <2>3. PICK r : r = [Now(t) EXCEPT !.title = TRUE]
      OBVIOUS
    <2>4. /\ r \in Runtime /\ r.life = runtimes[top.id][top.held].life
          /\ r.gate = runtimes[top.id][top.held].gate
          /\ r.closing = runtimes[top.id][top.held].closing
          /\ r.title = TRUE /\ r.setting = runtimes[top.id][top.held].setting
          /\ r.loose = runtimes[top.id][top.held].loose
      <3>1. PICK q \in Runtime : q = runtimes[top.id][top.held]
        BY <2>1
      <3>2. r = [q EXCEPT !.title = TRUE]
        BY <1>1, <2>3, <3>1 DEF Now
      <3>3. /\ r \in Runtime /\ r.life = q.life /\ r.gate = q.gate /\ r.closing = q.closing
            /\ r.title = TRUE /\ r.setting = q.setting /\ r.loose = q.loose
        BY <3>2, TitledRuntime
      <3> QED
        BY <3>1, <3>3
    <2>5. /\ runtimes' \in [Ids -> [1..MaxBuilds -> Runtime]] /\ runtimes'[top.id][top.held] = r
          /\ \A h \in 1..MaxBuilds : h # top.held => runtimes'[top.id][h] = runtimes[top.id][h]
          /\ \A j \in Ids \ {top.id} : runtimes'[j] = runtimes[j]
      BY <1>0, <1>4, <2>1, <2>3, <2>4, TouchIs
    <2>6. /\ disk' \in [Ids -> [there : BOOLEAN, title : BOOLEAN, setting : BOOLEAN]]
          /\ disk'[top.id].there = disk[top.id].there /\ disk'[top.id].title = TRUE
          /\ disk'[top.id].setting = disk[top.id].setting
          /\ \A j \in Ids \ {top.id} : disk'[j] = disk[j]
      BY <1>0, <1>4, <2>1, TitleWritten
    <2>7. UNCHANGED <<sessions, built, deleted>> /\ pending' = pending \ {top.id}
      BY <1>4, <2>1 DEF NameChild, Unreserve
    <2>8. Only(top.id) /\ StateTypes' /\ Seen(top.id)'
      BY <1>0, <2>1, <2>5, <2>6, <2>7 DEF Only, StateTypes, HostTypes, Seen
    <2>9. RegisteredAs(top.id)'
      <3>1. \A g \in 1..MaxBuilds : runtimes'[top.id][g].closing => runtimes'[top.id][g].life # "starting"
        BY <1>0, <2>1, <2>4, <2>5 DEF Registered
      <3>2. Matches(runtimes[top.id][top.held], disk[top.id])
        BY <1>0, <2>1, <2>2 DEF Registered
      <3>3. Matches(runtimes'[top.id][top.held], disk'[top.id])
        BY <2>4, <2>5, <2>6, <3>2 DEF Matches
      <3> QED
        BY <2>1, <2>2, <2>7, <3>1, <3>3 DEF RegisteredAs
    <2>10. \A g \in 1..MaxBuilds : /\ runtimes'[top.id][g].life = runtimes[top.id][g].life
                                   /\ runtimes'[top.id][g].gate = runtimes[top.id][g].gate
      BY <2>1, <2>4, <2>5
    <2>11. Return(t, "ok") /\ "ok" \in Outcomes
      BY <1>4 DEF Outcomes
    <2>12. \A u \in Workers, g \in 1..MaxBuilds :
              LET x == runtimes[top.id][g]  y == runtimes'[top.id][g] IN
              /\ /\ x.life # "starting"
                 /\ x.life = "closed" \/ sessions[top.id] = g
                      \/ (sessions[top.id] = 0 /\ ~disk[top.id].there)
                 => /\ y.life # "starting"
                    /\ y.life = "closed" \/ sessions'[top.id] = g
                         \/ (sessions'[top.id] = 0 /\ ~disk'[top.id].there)
              /\ x.gate = u /\ x.life \in {"active", "closing"}
                 => y.gate = u /\ y.life \in {"active", "closing"}
      BY <2>6, <2>7, <2>10
    <2>13. \A n \in 0..MaxBuilds : n <= built[top.id] => n <= built'[top.id]
      BY <2>7
    <2> QED
      BY <1>1, <1>2, <2>1, <2>8, <2>9, <2>11, <2>12, <2>13, ReservedReturns
  <1> QED
    BY <1>1, <1>3, <1>4 DEF NameChild

(***************************************************************************)
(* Runs.                                                                   *)
(***************************************************************************)
\* A frame on top of the calls x that t goes on with, or its outcome for the call
\* below.
LEMMA PushIs ==
    ASSUME HostTypes, NEW t \in Workers, NEW base, NEW new \in Seq(Frame), NEW x,
           Grown(stack[t], base, new, x), NEW g \in Frame
    PROVE  /\ stack' = [stack EXCEPT ![t] = <<g>> \o x] => Step(t, base, Append(new, g))
           /\ \A r \in Outcomes :
                 stack' = [stack EXCEPT ![t] = After(<<g>> \o x, r, 0)] => Step(t, base, new)
  <1>1. stack[t] \in Seq(Frame) /\ Append(new, g) \in Seq(Frame)
    BY DEF HostTypes
  <1>2. Grown(stack[t], base, Append(new, g), <<g>> \o x)
    BY <1>1, GrownPush
  <1>3. stack' = [stack EXCEPT ![t] = <<g>> \o x] => Step(t, base, Append(new, g))
    BY <1>1, <1>2, StepFrom
  <1>4. ASSUME NEW r \in Outcomes, stack' = [stack EXCEPT ![t] = After(<<g>> \o x, r, 0)]
        PROVE  Step(t, base, new)
    <2>1. <<g>> \o x # <<>>
      <3>1. x \in Seq(Frame)
        BY DEF Grown
      <3> QED
        BY <3>1
    <2>2. Grown(stack[t], base, new, After(<<g>> \o x, r, 0))
      BY <1>1, <1>2, <2>1, GrownAfter
    <2> QED
      BY <1>4, <2>2, StepFrom
  <1> QED
    BY <1>3, <1>4

\* Submit from a call that goes on as f: it waits below a new Run, or has its
\* answer already.
LEMMA SubmitStep ==
    ASSUME HostInv, NEW t \in Workers, Busy(t), NEW f \in Frame, NEW i \in Ids,
           Submit(t, <<f>> \o Tail(stack[t]), i), Fine(t, f), Within(f, Top(t))
    PROVE  HostInv'
  <1>1. HostTypes /\ UNCHANGED state
    BY DEF HostInv, Submit, state
  <1>2. PICK rest : rest = <<f>> \o Tail(stack[t])
    OBVIOUS
  <1>3. stack[t] \in Seq(Frame) /\ stack[t] # <<>> /\ <<f>> \in Seq(Frame) /\ rest # <<>>
    <2>1. stack[t] \in Seq(Frame) /\ stack[t] # <<>>
      BY <1>1 DEF HostTypes, Busy
    <2>2. Tail(stack[t]) \in Seq(Frame)
      BY <2>1
    <2>3. <<f>> \o Tail(stack[t]) # <<>>
      BY <2>2
    <2> QED
      BY <1>2, <2>1, <2>3
  <1>4. Grown(stack[t], Len(stack[t]) - 1, <<f>>, rest)
    BY <1>2, <1>3, GrownGoto
  <1>5. \A h \in Frames : ~Clash(Top(t), h) => ~Clash(f, h)
    BY WithinKeeps
  <1>6. ASSUME Step(t, Len(stack[t]) - 1, <<f>>) PROVE HostInv'
    <2>1. <<f>> \in Seq(Frame) /\ Len(<<f>>) = 1 /\ <<f>>[1] = f /\ \A q \in 1..1 : q = 1
      OBVIOUS
    <2> QED
      BY <1>1, <1>5, <1>6, <2>1, QuietTop
  <1>7. ASSUME NEW g \in Frame, Step(t, Len(stack[t]) - 1, Append(<<f>>, g)), Fine(t, g), Modest(g)
        PROVE  HostInv'
    <2>1. PICK new \in Seq(Frame) : /\ new = Append(<<f>>, g) /\ Len(new) = 2
                                    /\ new[1] = f /\ new[2] = g
      <3>1. /\ Append(<<f>>, g) \in Seq(Frame) /\ Len(Append(<<f>>, g)) = 2
            /\ Append(<<f>>, g)[1] = f /\ Append(<<f>>, g)[2] = g
        BY <1>3
      <3> QED
        BY <3>1
    <2>2. \A q \in 1..Len(new) : q = 1 \/ q = 2
      BY <2>1
    <2>3. \A h : ~Clash(g, h) /\ ~Clash(h, g)
      BY <1>7, ModestIs, ClashSymmetric
    <2>4. \A q \in 1..Len(new) : Fine(t, new[q])
      BY <1>7, <2>1, <2>2
    <2>5. \A q \in 1..Len(new) : \A h \in Frames : ~Clash(Top(t), h) => ~Clash(new[q], h)
      BY <1>5, <2>1, <2>2, <2>3
    <2>6. \A q, r \in 1..Len(new) : Clash(new[q], new[r]) => q = r
      BY <2>1, <2>2, <2>3
    <2>7. Step(t, Len(stack[t]) - 1, new)
      BY <1>7, <2>1
    <2> QED
      BY <1>1, <2>4, <2>5, <2>6, <2>7, QuietTop
  <1>8. PICK n : n = sessions[i]
    OBVIOUS
  <1>9. n \in Nat
    BY <1>1, <1>8, HostAssumption DEF HostTypes
  <1>10. PICK g, k : /\ g = [Call("run", "none", "gate", i) EXCEPT !.held = n]
                     /\ k = [g EXCEPT !.at = "queued"]
    OBVIOUS
  <1>11. /\ g \in Frame /\ g.op = "run" /\ g.at = "gate" /\ g.id = i /\ g.held = n /\ ~g.reserved
    BY <1>9, <1>10, AwaitsAre DEF Call, Frame, Outcomes
  <1>12. /\ k \in Frame /\ k.op = "run" /\ k.at = "queued" /\ k.id = i /\ k.held = n /\ ~k.reserved
    <2>1. k \in Frame /\ k.at = "queued" /\ Alike(g, k)
      BY <1>10, <1>11, FrameMoves, AwaitsAre
    <2> QED
      BY <1>11, <2>1 DEF Alike
  <1>13. SessionOf(i) \in Outcomes
    BY <1>1, OutcomesAre
  <1>14. CASE SessionOf(i) # "ok"
    <2>1. stack' = [stack EXCEPT ![t] = After(<<g>> \o rest, SessionOf(i), 0)]
      BY <1>2, <1>3, <1>8, <1>10, <1>14 DEF Submit
    <2> QED
      BY <1>1, <1>3, <1>4, <1>6, <1>11, <1>13, <2>1, PushIs
  <1>15. CASE SessionOf(i) = "ok"
    <2>1. \/ stack' = [stack EXCEPT ![t] = <<k>> \o rest]
          \/ stack' = [stack EXCEPT ![t] = <<g>> \o rest]
      BY <1>2, <1>8, <1>10, <1>15 DEF Submit
    <2>2. Fine(t, g) /\ Modest(g) /\ Fine(t, k) /\ Modest(k)
      BY <1>8, <1>11, <1>12, <1>15, LiveFine
    <2> QED
      BY <1>1, <1>3, <1>4, <1>7, <1>11, <1>12, <2>1, <2>2, PushIs
  <1> QED
    BY <1>14, <1>15

\* The calls of t are replaced by calls that claim nothing.
LEMMA QuietModest ==
    ASSUME HostInv, UNCHANGED state, NEW t \in Workers, NEW base, NEW new \in Seq(Frame),
           Step(t, base, new), \A q \in 1..Len(new) : Fine(t, new[q]) /\ Modest(new[q])
    PROVE  HostInv'
  <1>1. HostTypes /\ CallsFine /\ NoClash
    BY DEF HostInv
  <1>2. HostTypes' /\ Registered'
    BY QuietTypes DEF Step
  <1>3. \A u \in Workers, f \in Frame : Fine(u, f) => Fine(u, f)'
    BY QuietIsUntouched, FineUntouched
  <1>4. \A q \in 1..Len(new) : new[q] \in Frame
    OBVIOUS
  <1>5. \A q \in 1..Len(new) : Fine(t, new[q])'
    BY <1>3, <1>4
  <1>6. \A q \in 1..Len(new) : \A h : ~Clash(new[q], h)
    BY ModestIs
  <1>7. CallsFine' /\ NoClash'
    BY <1>1, <1>2, <1>3, <1>5, <1>6, PreserveAll
  <1> QED
    BY <1>2, <1>7 DEF HostInv

LEMMA GrownAnew ==
    ASSUME NEW s \in Seq(Frame)
    PROVE  /\ Grown(s, 0, <<>>, <<>>)
           /\ \A f \in Frame : Grown(s, 0, <<f>>, <<f>>)
  <1>1. /\ Grown(s, 0, <<>>, <<>>) /\ <<>> \in Seq(Frame)
    BY DEF Grown
  <1>2. ASSUME NEW f \in Frame PROVE Grown(s, 0, <<f>>, <<f>>)
    <2>1. Append(<<>>, f) = <<f>> /\ <<f>> \o <<>> = <<f>>
      OBVIOUS
    <2> QED
      BY <1>1, <2>1, GrownPush
  <1> QED
    BY <1>1, <1>2

LEMMA ReportFine ==
    ASSUME HostTypes, NEW t, NEW f \in Frame, Report(f)
    PROVE  Fine(t, f) /\ Modest(f)
  <1>1. 0 <= built[f.id]
    BY HostAssumption DEF HostTypes, Frame
  <1> QED
    BY <1>1 DEF Report, Fine, OtherFine, GateFine, HeldFine, Building, Holding, Unborn, Modest

\* Submit from a reporter.
LEMMA ReporterSubmits ==
    ASSUME HostInv, NEW t \in Workers, NEW f \in Frame, Report(f), NEW i \in Ids,
           Submit(t, <<f>>, i)
    PROVE  HostInv'
  <1>1. HostTypes /\ UNCHANGED state
    BY DEF HostInv, Submit, state
  <1>2. stack[t] \in Seq(Frame)
    BY <1>1 DEF HostTypes
  <1>3. Grown(stack[t], 0, <<f>>, <<f>>) /\ <<f>> \in Seq(Frame) /\ <<f>> # <<>>
    BY <1>2, GrownAnew
  <1>4. Fine(t, f) /\ Modest(f)
    BY <1>1, ReportFine
  <1>5. ASSUME Step(t, 0, <<f>>) PROVE HostInv'
    <2>1. <<f>> \in Seq(Frame) /\ Len(<<f>>) = 1 /\ <<f>>[1] = f /\ \A q \in 1..1 : q = 1
      OBVIOUS
    <2> QED
      BY <1>1, <1>4, <1>5, <2>1, QuietModest
  <1>6. ASSUME NEW g \in Frame, Step(t, 0, Append(<<f>>, g)), Fine(t, g), Modest(g)
        PROVE  HostInv'
    <2>1. PICK new \in Seq(Frame) : /\ new = Append(<<f>>, g) /\ Len(new) = 2
                                    /\ new[1] = f /\ new[2] = g
      <3>1. /\ Append(<<f>>, g) \in Seq(Frame) /\ Len(Append(<<f>>, g)) = 2
            /\ Append(<<f>>, g)[1] = f /\ Append(<<f>>, g)[2] = g
        BY <1>3
      <3> QED
        BY <3>1
    <2>2. \A q \in 1..Len(new) : new[q] = f \/ new[q] = g
      BY <2>1
    <2>3. \A q \in 1..Len(new) : Fine(t, new[q]) /\ Modest(new[q])
      BY <1>4, <1>6, <2>2
    <2> QED
      BY <1>1, <1>6, <2>1, <2>3, QuietModest
  <1>8. PICK n : n = sessions[i]
    OBVIOUS
  <1>9. n \in Nat
    BY <1>1, <1>8, HostAssumption DEF HostTypes
  <1>10. PICK g, k : /\ g = [Call("run", "none", "gate", i) EXCEPT !.held = n]
                     /\ k = [g EXCEPT !.at = "queued"]
    OBVIOUS
  <1>11. /\ g \in Frame /\ g.op = "run" /\ g.at = "gate" /\ g.id = i /\ g.held = n /\ ~g.reserved
    BY <1>9, <1>10, AwaitsAre DEF Call, Frame, Outcomes
  <1>12. /\ k \in Frame /\ k.op = "run" /\ k.at = "queued" /\ k.id = i /\ k.held = n /\ ~k.reserved
    <2>1. k \in Frame /\ k.at = "queued" /\ Alike(g, k)
      BY <1>10, <1>11, FrameMoves, AwaitsAre
    <2> QED
      BY <1>11, <2>1 DEF Alike
  <1>13. SessionOf(i) \in Outcomes
    BY <1>1, OutcomesAre
  <1>14. CASE SessionOf(i) # "ok"
    <2>1. stack' = [stack EXCEPT ![t] = After(<<g>> \o <<f>>, SessionOf(i), 0)]
      BY <1>3, <1>8, <1>10, <1>14 DEF Submit
    <2> QED
      BY <1>1, <1>3, <1>5, <1>11, <1>13, <2>1, PushIs
  <1>15. CASE SessionOf(i) = "ok"
    <2>1. \/ stack' = [stack EXCEPT ![t] = <<k>> \o <<f>>]
          \/ stack' = [stack EXCEPT ![t] = <<g>> \o <<f>>]
      BY <1>8, <1>10, <1>15 DEF Submit
    <2>2. Fine(t, g) /\ Modest(g) /\ Fine(t, k) /\ Modest(k)
      BY <1>8, <1>11, <1>12, <1>15, LiveFine
    <2> QED
      BY <1>1, <1>3, <1>6, <1>11, <1>12, <2>1, <2>2, PushIs
  <1> QED
    BY <1>14, <1>15

LEMMA ReportStartStep ==
    ASSUME HostInv, NEW t \in Workers, ReportStart(t)
    PROVE  HostInv'
  <1>1. Busy(t) /\ Top(t) \in Frame /\ Top(t).op = "report" /\ Fine(t, Top(t))
    BY AtIs DEF ReportStart
  <1>2. PICK f : f = [Top(t) EXCEPT !.at = "told"]
    OBVIOUS
  <1>3. f \in Frame /\ Alike(Top(t), f) /\ Top(t).id \in Ids
    BY <1>1, <1>2, FrameMoves, AwaitsAre DEF Frame
  <1>4. Report(f)
    BY <1>1, <1>3 DEF Report, Alike, Fine, OtherFine
  <1>5. CASE Submit(t, <<f>>, Top(t).id)
    BY <1>3, <1>4, <1>5, ReporterSubmits
  <1>6. CASE /\ Return(t, "ok")
             /\ UNCHANGED <<sessions, pending, runtimes, built, disk, reports, deleted>>
    <2>1. UNCHANGED state /\ "ok" \in Outcomes
      BY <1>6 DEF state, Outcomes
    <2> QED
      BY <1>1, <1>6, <2>1, QuietReturn
  <1> QED
    BY <1>2, <1>5, <1>6 DEF ReportStart

LEMMA SentFrame ==
    ASSUME NEW q \in Frame, NEW g, g = [q EXCEPT !.at = "sent", !.back = "none"]
    PROVE  g \in Frame /\ Alike(q, g)
  BY AwaitsAre DEF Frame, Alike, Outcomes

LEMMA ReportReplyStep ==
    ASSUME HostInv, NEW t \in Workers, ReportReply(t)
    PROVE  HostInv'
  <1>1. Busy(t) /\ Top(t) \in Frame /\ Top(t).op = "report" /\ Fine(t, Top(t))
    BY AtIs DEF ReportReply
  <1>2. PICK f : f = [Top(t) EXCEPT !.at = "sent", !.back = "none"]
    OBVIOUS
  <1>3. f \in Frame /\ Alike(Top(t), f) /\ Main \in Ids
    BY <1>1, <1>2, SentFrame, MainIs
  <1>4. Report(f)
    BY <1>1, <1>3 DEF Report, Alike, Fine, OtherFine
  <1>5. CASE Submit(t, <<f>>, Main)
    BY <1>3, <1>4, <1>5, ReporterSubmits
  <1>6. CASE /\ Return(t, "ok")
             /\ UNCHANGED <<sessions, pending, runtimes, built, disk, reports, deleted>>
    <2>1. UNCHANGED state /\ "ok" \in Outcomes
      BY <1>6 DEF state, Outcomes
    <2> QED
      BY <1>1, <1>6, <2>1, QuietReturn
  <1> QED
    BY <1>2, <1>5, <1>6 DEF ReportReply

LEMMA ReportAnswerStep ==
    ASSUME HostInv, NEW t \in Workers, ReportAnswer(t)
    PROVE  HostInv'
  <1>1. Busy(t) /\ Top(t) \in Frame /\ Top(t).op = "report" /\ Fine(t, Top(t))
    BY AtIs DEF ReportAnswer
  <1>2. UNCHANGED state /\ "ok" \in Outcomes
    BY DEF ReportAnswer, state, Outcomes
  <1>3. CASE Return(t, "ok")
    BY <1>1, <1>2, <1>3, QuietReturn
  <1>4. CASE Goto(t, [Top(t) EXCEPT !.at = "reply"])
    <2>1. PICK f : f = [Top(t) EXCEPT !.at = "reply"]
      OBVIOUS
    <2>2. f \in Frame /\ Alike(Top(t), f)
      BY <1>1, <2>1, FrameMoves, AwaitsAre
    <2>3. MayMove(Top(t), f)
      BY <1>1 DEF MayMove
    <2> QED
      BY <1>1, <1>2, <1>4, <2>1, <2>2, <2>3, QuietMove
  <1> QED
    BY <1>3, <1>4 DEF ReportAnswer

LEMMA DelegatedFrame ==
    ASSUME NEW q \in Frame, NEW g, g = [q EXCEPT !.at = "answer", !.back = "error"]
    PROVE  g \in Frame /\ g.at = "answer" /\ Alike(q, g) /\ g.kids = q.kids
  BY AwaitsAre DEF Frame, Alike, Outcomes

LEMMA DelegateTaskStep ==
    ASSUME HostInv, NEW t \in Workers, DelegateTask(t)
    PROVE  HostInv'
  <1>1. /\ Busy(t) /\ Top(t) \in Frame /\ Top(t).op = "run" /\ Top(t).at = "delegate"
        /\ Fine(t, Top(t))
    BY AtIs DEF DelegateTask
  <1>2. PICK f : f = [Top(t) EXCEPT !.at = "answer", !.back = "error"]
    OBVIOUS
  <1>3. f \in Frame /\ f.at = "answer" /\ Alike(Top(t), f) /\ f.kids = Top(t).kids
    BY <1>1, <1>2, DelegatedFrame
  <1>4. MayMove(Top(t), f)
    BY <1>1, <1>3 DEF MayMove, Holding, Alike
  <1>5. Fine(t, f) /\ Within(f, Top(t))
    BY <1>1, <1>3, <1>4, MoveFine
  <1>6. ASSUME NEW i \in f.kids, Submit(t, <<f>> \o Tail(stack[t]), i)
        PROVE  HostInv'
    <2>1. i \in Ids
      BY <1>3 DEF Frame
    <2> QED
      BY <1>1, <1>3, <1>5, <1>6, <2>1, SubmitStep
  <1>7. CASE /\ Goto(t, f)
             /\ UNCHANGED <<sessions, pending, runtimes, built, disk, reports, deleted>>
    <2>1. UNCHANGED state
      BY <1>7 DEF state
    <2> QED
      BY <1>1, <1>3, <1>4, <1>7, <2>1, QuietMove
  <1> QED
    BY <1>2, <1>6, <1>7 DEF DelegateTask

LEMMA RunPromptStep ==
    ASSUME HostInv, NEW t, NEW i \in Ids, RunPrompt(t, i)
    PROVE  HostInv'
  <1>1. t \in Workers /\ ~Busy(t)
    BY IdleIs DEF RunPrompt
  <1>2. HostTypes /\ UNCHANGED state
    BY DEF HostInv, RunPrompt, Submit, state
  <1>8. PICK n : n = sessions[i]
    OBVIOUS
  <1>9. n \in Nat
    BY <1>2, <1>8, HostAssumption DEF HostTypes
  <1>10. PICK g, k : /\ g = [Call("run", "none", "gate", i) EXCEPT !.held = n]
                     /\ k = [g EXCEPT !.at = "queued"]
    OBVIOUS
  <1>11. /\ g \in Frame /\ g.op = "run" /\ g.at = "gate" /\ g.id = i /\ g.held = n /\ ~g.reserved
    BY <1>9, <1>10, AwaitsAre DEF Call, Frame, Outcomes
  <1>12. /\ k \in Frame /\ k.op = "run" /\ k.at = "queued" /\ k.id = i /\ k.held = n /\ ~k.reserved
    <2>1. k \in Frame /\ k.at = "queued" /\ Alike(g, k)
      BY <1>10, <1>11, FrameMoves, AwaitsAre
    <2> QED
      BY <1>11, <2>1 DEF Alike
  <1>13. CASE SessionOf(i) # "ok"
    <2>1. stack' = [stack EXCEPT ![t] = <<>>]
      BY <1>13 DEF RunPrompt, Submit
    <2> QED
      BY <1>1, <1>2, <2>1, QuietNone
  <1>14. CASE SessionOf(i) = "ok"
    <2>1. \/ stack' = [stack EXCEPT ![t] = <<k>> \o <<>>]
          \/ stack' = [stack EXCEPT ![t] = <<g>> \o <<>>]
      BY <1>8, <1>10, <1>14 DEF RunPrompt, Submit
    <2>2. Fine(t, g) /\ Modest(g) /\ Fine(t, k) /\ Modest(k)
      BY <1>8, <1>11, <1>12, <1>14, LiveFine
    <2>3. stack[t] = <<>>
      BY <1>1 DEF Busy
    <2> QED
      BY <1>1, <1>2, <1>11, <1>12, <2>1, <2>2, <2>3, QuietReplace
  <1> QED
    BY <1>13, <1>14

\* A call that was given a new identifier.
LEMMA UnbornFine ==
    ASSUME HostInv, NEW t, NEW g \in Frame, Fresh(g.id), g.op = "build", g.held = 0, ~g.reserved,
           \/ g.at = "fork"
           \/ g.at = "guard" /\ g.why = "spawn" /\ g.owner \in 1..MaxBuilds
    PROVE  Fine(t, g) /\ \A h \in Frames : ~Clash(g, h)
  <1>1. g.id \in Ids
    BY DEF Frame
  <1>2. /\ g.id \notin pending /\ built[g.id] = 0 /\ ~Seen(g.id)
        /\ \A h \in Frames : h.id # g.id
    BY <1>1, FreshIs
  <1>3. BuildFine(g)
    BY <1>2 DEF BuildFine, Building, Unborn
  <1>4. OtherFine(g) /\ GateFine(t, g) /\ HeldFine(g)
    BY DEF OtherFine, GateFine, HeldFine, Holding
  <1>5. g.held <= built[g.id]
    BY <1>2
  <1>6. Fine(t, g)
    BY <1>3, <1>4, <1>5 DEF Fine
  <1> QED
    BY <1>2, <1>6 DEF Clash

LEMMA SpawnFine ==
    ASSUME HostInv, NEW t, NEW i \in Children, Fresh(i), SessionOf(Main) = "ok",
           NEW g, g = SpawnCall(i)
    PROVE  g \in Frame /\ Fine(t, g) /\ \A h \in Frames : ~Clash(g, h)
  <1>1. PICK n \in Nat : n = sessions[Main] /\ n \in 1..MaxBuilds
    BY LiveIs, MainIs DEF HostInv
  <1>2. g = [Call("build", "spawn", "guard", i) EXCEPT !.owner = n]
    BY <1>1 DEF SpawnCall
  <1>3. /\ g \in Frame /\ g.op = "build" /\ g.at = "guard" /\ g.why = "spawn" /\ g.id = i
        /\ g.held = 0 /\ ~g.reserved /\ g.owner = n
    <2>1. i \in Ids
      BY MainIs
    <2>2. PICK c : c = Call("build", "spawn", "guard", i)
      OBVIOUS
    <2>3. /\ c \in Frame /\ c.op = "build" /\ c.at = "guard" /\ c.why = "spawn" /\ c.id = i
          /\ c.held = 0 /\ ~c.reserved
      BY <2>1, <2>2, AwaitsAre DEF Call, Frame, Outcomes
    <2>4. g = [c EXCEPT !.owner = n]
      BY <1>2, <2>2
    <2> QED
      BY <2>3, <2>4 DEF Frame
  <1> QED
    BY <1>1, <1>3, UnbornFine

LEMMA CreateOwnedStep ==
    ASSUME HostInv, NEW t, NEW i, CreateOwned(t, i)
    PROVE  HostInv'
  <1>1. t \in Workers /\ ~Busy(t)
    BY IdleIs DEF CreateOwned
  <1>2. PICK g : g = SpawnCall(i)
    OBVIOUS
  <1>3. g \in Frame /\ Fine(t, g) /\ \A h \in Frames : ~Clash(g, h)
    BY <1>2, SpawnFine DEF CreateOwned
  <1>4. stack' = [stack EXCEPT ![t] = <<g>>] /\ UNCHANGED state
    BY <1>2 DEF CreateOwned, Begin, state
  <1> QED
    BY <1>1, <1>3, <1>4, QuietBegin

LEMMA ForkSessionStep ==
    ASSUME HostInv, NEW t, NEW source \in Roots, NEW i, ForkSession(t, source, i)
    PROVE  HostInv'
  <1>1. t \in Workers /\ ~Busy(t) /\ i \in Ids /\ {source} \in SUBSET Ids
    BY IdleIs DEF ForkSession, Ids
  <1>2. PICK kids \in SUBSET Ids : kids = {source}
    BY <1>1
  <1>3. PICK g : g = [Call("build", "fork", "fork", i) EXCEPT !.kids = kids]
    OBVIOUS
  <1>4. /\ g \in Frame /\ g.op = "build" /\ g.at = "fork" /\ g.id = i
        /\ g.held = 0 /\ ~g.reserved
    BY <1>1, <1>3, AwaitsAre DEF Call, Frame, Outcomes
  <1>5. Fine(t, g) /\ \A h \in Frames : ~Clash(g, h)
    BY <1>4, UnbornFine DEF ForkSession
  <1>6. stack' = [stack EXCEPT ![t] = <<g>>] /\ UNCHANGED state
    BY <1>2, <1>3 DEF ForkSession, Begin, state
  <1> QED
    BY <1>1, <1>4, <1>5, <1>6, QuietBegin

LEMMA SetSettingStep ==
    ASSUME HostInv, NEW t, NEW i \in Ids, SetSetting(t, i)
    PROVE  HostInv'
  <1>1. t \in Workers /\ ~Busy(t)
    BY IdleIs DEF SetSetting
  <1>2. PICK n \in Nat : n = sessions[i]
    BY LiveIs DEF SetSetting, HostInv
  <1>3. PICK g : g = [Call("set", "none", "signin", i) EXCEPT !.held = n]
    OBVIOUS
  <1>4. g \in Frame /\ g.op = "set" /\ g.at = "signin" /\ g.id = i /\ g.held = n /\ ~g.reserved
    BY <1>3, AwaitsAre DEF Call, Frame, Outcomes
  <1>5. Fine(t, g) /\ Modest(g)
    BY <1>2, <1>4, LiveFine DEF SetSetting
  <1>6. stack' = [stack EXCEPT ![t] = <<g>>] /\ UNCHANGED state
    BY <1>2, <1>3 DEF SetSetting, Begin, state
  <1> QED
    BY <1>1, <1>4, <1>5, <1>6, ModestIs, QuietBegin

LEMMA SubagentStep ==
    ASSUME HostInv, NEW t \in Workers, NEW i \in Children, Subagent(t, i)
    PROVE  HostInv'
  <1>1. /\ Busy(t) /\ Top(t) \in Frame /\ Top(t).op = "run" /\ Top(t).at = "running"
        /\ Fine(t, Top(t))
    BY AtIs DEF Subagent
  <1>2. PICK kids \in SUBSET Ids : kids = {i}
    BY MainIs
  <1>3. PICK f, g : f = [Top(t) EXCEPT !.at = "delegate", !.kids = kids] /\ g = SpawnCall(i)
    OBVIOUS
  <1>4. f \in Frame /\ f.at = "delegate" /\ Alike(Top(t), f)
    BY <1>1, <1>3, FrameMovesKids, AwaitsAre
  <1>5. MayMove(Top(t), f)
    BY <1>1, <1>4 DEF MayMove, Holding, Alike
  <1>6. Fine(t, f) /\ Within(f, Top(t))
    BY <1>1, <1>4, <1>5, MoveFine
  <1>7. g \in Frame /\ Fine(t, g) /\ \A h \in Frames : ~Clash(g, h)
    BY <1>3, SpawnFine DEF Subagent
  <1>8. CallFrom(t, f, g) /\ UNCHANGED state
    BY <1>2, <1>3 DEF Subagent, state
  <1> QED
    BY <1>1, <1>4, <1>6, <1>7, <1>8, QuietCall

LEMMA BackgroundStep ==
    ASSUME HostInv, NEW t \in Workers, NEW i \in Children, Background(t, i)
    PROVE  HostInv'
  <1>0. HostTypes
    BY DEF HostInv
  <1>1. /\ Busy(t) /\ Top(t) \in Frame /\ Top(t).op = "run" /\ Top(t).at = "running"
        /\ Fine(t, Top(t))
    BY AtIs DEF Background
  <1>2. PICK kids \in SUBSET Ids : kids = {i}
    BY MainIs
  <1>3. PICK f : f = [Top(t) EXCEPT !.at = "manage", !.kids = kids]
    OBVIOUS
  <1>4. f \in Frame /\ f.at = "manage" /\ Alike(Top(t), f)
    BY <1>1, <1>3, FrameMovesKids, AwaitsAre
  <1>5. ASSUME NEW k \in Frame, k.at = "manage", Alike(Top(t), k)
        PROVE  Fine(t, k) /\ Within(k, Top(t)) /\ MayMove(Top(t), k)
    <2>1. MayMove(Top(t), k)
      BY <1>1, <1>5 DEF MayMove, Holding, Alike
    <2> QED
      BY <1>1, <1>5, <2>1, MoveFine
  <1>6. UNCHANGED state
    BY DEF Background, state
  <1>7. CASE SessionOf(Main) = "ok" /\ Fresh(i) /\ CallFrom(t, f, SpawnCall(i))
    <2>1. PICK g : g = SpawnCall(i)
      OBVIOUS
    <2>2. g \in Frame /\ Fine(t, g) /\ \A h \in Frames : ~Clash(g, h)
      BY <1>7, <2>1, SpawnFine
    <2> QED
      BY <1>1, <1>4, <1>5, <1>6, <1>7, <2>1, <2>2, QuietCall
  <1>8. CASE CallFrom(t, f, Call("build", "resume", "look", i))
    <2>1. PICK g : g = Call("build", "resume", "look", i)
      OBVIOUS
    <2>2. /\ g \in Frame /\ g.op = "build" /\ g.why = "resume" /\ g.at = "look"
          /\ g.held = 0 /\ ~g.reserved
      BY <2>1, MainIs, AwaitsAre DEF Call, Frame, Outcomes
    <2>3. Fine(t, g) /\ \A h \in Frames : ~Clash(g, h)
      BY <1>0, <2>2, LookFine, ModestIs
    <2> QED
      BY <1>1, <1>4, <1>5, <1>6, <1>8, <2>1, <2>2, <2>3, QuietCall
  <1>9. CASE Goto(t, [f EXCEPT !.back = SessionOf(i)])
    <2>1. PICK o \in Outcomes : o = SessionOf(i)
      BY <1>0, OutcomesAre, MainIs
    <2>2. PICK g : g = [f EXCEPT !.back = o]
      OBVIOUS
    <2>3. g \in Frame /\ g.at = f.at /\ Alike(f, g)
      BY <1>4, <2>2 DEF Frame, Alike
    <2>4. Alike(Top(t), g) /\ g.at = "manage"
      BY <1>4, <2>3 DEF Alike
    <2> QED
      BY <1>1, <1>5, <1>6, <1>9, <2>1, <2>2, <2>3, <2>4, QuietMove
  <1> QED
    BY <1>2, <1>3, <1>7, <1>8, <1>9 DEF Background

(***************************************************************************)
(* The gate of a runtime.                                                  *)
(***************************************************************************)
\* Only the gate and flags of one runtime change.
LEMMA GateState ==
    ASSUME HostInv, NEW i \in Ids, NEW g \in 1..MaxBuilds, NEW r \in Runtime, Touch(i, g, r),
           r.life = runtimes[i][g].life, r.closing = runtimes[i][g].closing,
           r.title = runtimes[i][g].title, r.setting = runtimes[i][g].setting,
           r.loose = runtimes[i][g].loose,
           UNCHANGED <<sessions, pending, built, disk, deleted>>
    PROVE  /\ Only(i) /\ (Seen(i) => Seen(i)') /\ StateTypes' /\ RegisteredAs(i)'
           /\ \A u \in Workers, f \in Frame :
                 Fine(u, f) /\ ~(Holding(f) /\ f.id = i /\ f.held = g) => Fine(u, f)'
  <1>1. HostTypes /\ Registered
    BY DEF HostInv
  <1>2. /\ runtimes' \in [Ids -> [1..MaxBuilds -> Runtime]] /\ runtimes'[i][g] = r
        /\ \A h \in 1..MaxBuilds : h # g => runtimes'[i][h] = runtimes[i][h]
        /\ \A j \in Ids \ {i} : runtimes'[j] = runtimes[j]
    BY <1>1, TouchIs
  <1>3. Only(i) /\ StateTypes' /\ (Seen(i) => Seen(i)')
    BY <1>1, <1>2 DEF Only, StateTypes, HostTypes, Seen
  <1>4. \A h \in 1..MaxBuilds : /\ runtimes'[i][h].life = runtimes[i][h].life
                                /\ runtimes'[i][h].closing = runtimes[i][h].closing
                                /\ runtimes'[i][h].title = runtimes[i][h].title
                                /\ runtimes'[i][h].setting = runtimes[i][h].setting
                                /\ runtimes'[i][h].loose = runtimes[i][h].loose
    BY <1>2
  <1>5. RegisteredAs(i)'
    <2>1. sessions[i] # 0 => sessions[i] \in 1..MaxBuilds
      BY <1>1, HostAssumption DEF HostTypes
    <2> QED
      BY <1>1, <1>4, <2>1 DEF RegisteredAs, Registered, Matches
  <1>6. Remembered
    BY <1>3, OnlyRemembers
  <1>7. ASSUME NEW u \in Workers, NEW f \in Frame, Fine(u, f),
               ~(Holding(f) /\ f.id = i /\ f.held = g)
        PROVE  Fine(u, f)'
    <2>1. f.id \in Ids /\ (f.held # 0 => f.held \in 1..MaxBuilds)
      BY <1>1, <1>7, HeldIs
    <2>2. Holding(f) \/ Building(f) => f.held # 0
      BY <1>7 DEF Holding, Building, Fine, OtherFine
    <2>3. f.held # 0 => /\ runtimes'[f.id][f.held].life = runtimes[f.id][f.held].life
                        /\ runtimes'[f.id][f.held].title = runtimes[f.id][f.held].title
                        /\ runtimes'[f.id][f.held].setting = runtimes[f.id][f.held].setting
                        /\ runtimes'[f.id][f.held].loose = runtimes[f.id][f.held].loose
      BY <1>2, <1>4, <2>1
    <2>4. Holding(f) => runtimes'[f.id][f.held].gate = runtimes[f.id][f.held].gate
      BY <1>2, <1>7, <2>1, <2>2
    <2>5. Unborn(f) => f.id \notin pending
      BY <1>7 DEF Fine, BuildFine, Unborn
    <2>6. Untouched(f)
      BY <1>7, <2>1, <2>2, <2>3, <2>4, <2>5 DEF Untouched, Fine
    <2> QED
      BY <1>6, <1>7, <2>6, FineUntouched
  <1> QED
    BY <1>3, <1>5, <1>7

\* A Run or a close takes the free gate of an active runtime.
LEMMA GateTaken ==
    ASSUME HostInv, NEW t \in Workers, Busy(t), NEW top, top = Top(t), top.at = "gate",
           Now(t).gate = Free, Now(t).life = "active",
           NEW f \in Frame, Alike(top, f), Step(t, Len(stack[t]) - 1, <<f>>),
           (top.op = "run" /\ f.at = "running") \/ (top.op = "close" /\ f.at = "creation"),
           NEW r \in Runtime, Touch(top.id, top.held, r), r.gate = t,
           r.life = Now(t).life, r.closing = Now(t).closing,
           r.title = Now(t).title, r.setting = Now(t).setting, r.loose = Now(t).loose,
           UNCHANGED <<sessions, pending, built, disk, deleted>>
    PROVE  HostInv'
  <1>1. HostTypes
    BY DEF HostInv
  <1>2. top \in Frame /\ Fine(t, top)
    BY TopIs DEF HostInv
  <1>3. top.held # 0 /\ ~top.reserved
    BY <1>2 DEF Fine, OtherFine
  <1>4. top.id \in Ids /\ top.held \in 1..MaxBuilds /\ Now(t) = runtimes[top.id][top.held]
    BY <1>1, <1>2, <1>3, HeldIs DEF Now
  <1>5. /\ Only(top.id) /\ (Seen(top.id) => Seen(top.id)') /\ StateTypes' /\ RegisteredAs(top.id)'
        /\ \A u \in Workers, h \in Frame :
              Fine(u, h) /\ ~(Holding(h) /\ h.id = top.id /\ h.held = top.held) => Fine(u, h)'
    BY <1>4, GateState
  <1>6. ASSUME NEW u \in Workers, NEW h \in Frame, Fine(u, h), Holding(h), h.id = top.id,
               h.held = top.held
        PROVE  FALSE
    <2>1. runtimes[h.id][h.held].gate = u
      BY <1>6 DEF Fine, GateFine
    <2> QED
      BY <1>4, <1>6, <2>1, HostAssumption DEF Workers
  <1>7. runtimes'[top.id][top.held] = r
    BY <1>1, <1>4, TouchIs
  <1>8. Fine(t, f)'
    <2>1. /\ top.held <= built[top.id]
          /\ \/ sessions[top.id] = top.held
             \/ sessions[top.id] = 0 /\ ~disk[top.id].there
      BY <1>2, <1>3, <1>4, PlainIs
    <2>2. OtherFine(f)'
      BY <1>3 DEF OtherFine, Alike
    <2>3. GateFine(t, f)' /\ HeldFine(f)'
      BY <1>3, <1>4, <1>7, <2>1 DEF GateFine, HeldFine, Alike
    <2> QED
      BY <1>3, <2>1, <2>2, <2>3 DEF Fine, Alike
  <1>9. ASSUME NEW h \in Frame, h \in Frames PROVE ~Clash(f, h)
    <2>1. PICK u \in Workers : Fine(u, h)
      BY <1>9, FramesFine
    <2> QED
      BY <1>3, <1>6, <2>1 DEF Clash, Unborn, Alike
  <1>10. \A u \in Workers, h \in Frame :
            Fine(u, h) /\ h \in Frames /\ ~Clash(top, h) /\ h.id = top.id => Fine(u, h)'
    BY <1>5, <1>6
  <1> QED
    BY <1>4, <1>5, <1>8, <1>9, <1>10, TopGoes

\* Whoever waits for a Run returns; the other tasks keep their calls.
LEMMA OthersReturn ==
    ASSUME HostTypes, NEW t \in Workers, NEW base, NEW new \in Seq(Frame), NEW x,
           Grown(stack[t], base, new, x), NEW o \in Outcomes, NEW n \in Nat, NEW told,
           stack' = [u \in Workers |-> stack'[u]], stack'[t] = x,
           \A u \in Workers \ {t} :
               stack'[u] = IF u \in told THEN After(stack[u], o, n) ELSE stack[u],
           \A u \in Workers : u \in told => Busy(u)
    PROVE  Step(t, base, new)
  <1>1. stack'[t] = x /\ x \in Seq(Frame)
    BY DEF Grown
  <1>2. ASSUME NEW u \in Workers \ {t}
        PROVE  /\ stack'[u] \in Seq(Frame)
               /\ \E b \in 0..Len(stack[u]) : Grown(stack[u], b, <<>>, stack'[u])
    <2>1. stack[u] \in Seq(Frame) /\ Len(stack[u]) \in Nat
      BY DEF HostTypes
    <2>2. Grown(stack[u], Len(stack[u]), <<>>, stack[u])
      BY <2>1, GrownWhole
    <2>3. CASE u \in told
      <3>1. stack'[u] = After(stack[u], o, n) /\ stack[u] # <<>>
        BY <2>3 DEF Busy
      <3>2. <<>> \in Seq(Frame)
        OBVIOUS
      <3>a. PICK z \in Seq(Frame) : z = stack[u]
        BY <2>1
      <3>b. Grown(z, Len(z) - 1, <<>>, After(z, o, n))
        BY <2>2, <3>a, <3>1, <3>2, GrownAfter
      <3>3. Grown(stack[u], Len(stack[u]) - 1, <<>>, stack'[u])
        BY <3>a, <3>b, <3>1
      <3>4. Len(stack[u]) - 1 \in 0..Len(stack[u])
        BY <2>1, <3>1, <3>3 DEF Grown
      <3> QED
        BY <3>3, <3>4 DEF Grown
    <2>4. CASE u \notin told
      <3>1. stack'[u] = stack[u] /\ Len(stack[u]) \in 0..Len(stack[u])
        BY <2>1, <2>4
      <3> QED
        BY <2>1, <2>2, <3>1
    <2> QED
      BY <2>3, <2>4
  <1>3. stack' \in [Workers -> Seq(Frame)]
    BY <1>1, <1>2
  <1> QED
    BY <1>1, <1>2, <1>3 DEF Step

LEMMA StartRunStep ==
    ASSUME HostInv, NEW t \in Workers, StartRun(t)
    PROVE  HostInv'
  <1>0. HostTypes
    BY DEF HostInv
  <1>1. PICK top : top = Top(t)
    OBVIOUS
  <1>2. Busy(t) /\ top \in Frame /\ top.op = "run" /\ top.at = "gate" /\ Fine(t, top)
    BY <1>1, AtIs DEF StartRun
  <1>3. CASE UNCHANGED runtimes /\ \E r \in Outcomes : Return(t, r)
    <2>1. UNCHANGED state
      BY <1>3 DEF StartRun, state
    <2> QED
      BY <1>2, <1>3, <2>1, QuietReturn
  <1>4. CASE /\ Now(t).gate = Free /\ Now(t).life = "active"
             /\ Touch(top.id, top.held,
                      [Now(t) EXCEPT !.gate = t, !.running = TRUE, !.cancelled = FALSE,
                                     !.run = IF top.id \in Children THEN @ + 1 ELSE 0])
             /\ Goto(t, [top EXCEPT !.at = "running"])
    <2>1. PICK q : q = Now(t)
      OBVIOUS
    <2>2. q \in Runtime
      <3>1. top.held # 0
        BY <1>2 DEF Fine, OtherFine
      <3> QED
        BY <1>0, <1>1, <1>2, <2>1, <3>1, HeldIs DEF Now
    <2>3. PICK n : n = IF top.id \in Children THEN q.run + 1 ELSE 0
      OBVIOUS
    <2>4. n \in Nat
      BY <2>2, <2>3 DEF Runtime
    <2>5. PICK r : r = [q EXCEPT !.gate = t, !.running = TRUE, !.cancelled = FALSE, !.run = n]
      OBVIOUS
    <2>6. /\ r \in Runtime /\ r.life = q.life /\ r.gate = t /\ r.closing = q.closing
          /\ r.title = q.title /\ r.setting = q.setting /\ r.loose = q.loose
      <3>1. r \in Runtime
        BY <2>2, <2>4, <2>5 DEF Runtime
      <3>2. r.life = q.life /\ r.gate = t /\ r.closing = q.closing
        BY <2>2, <2>5 DEF Runtime
      <3>3. r.title = q.title /\ r.setting = q.setting /\ r.loose = q.loose
        BY <2>2, <2>5 DEF Runtime
      <3> QED
        BY <3>1, <3>2, <3>3
    <2>7. Touch(top.id, top.held, r)
      BY <1>4, <2>1, <2>3, <2>5
    <2>8. PICK f : f = [top EXCEPT !.at = "running"]
      OBVIOUS
    <2>9. f \in Frame /\ f.at = "running" /\ Alike(top, f)
      BY <1>2, <2>8, FrameMoves, AwaitsAre
    <2>10. Step(t, Len(stack[t]) - 1, <<f>>)
      BY <1>0, <1>2, <1>4, <2>8, <2>9, GotoStep
    <2>11. UNCHANGED <<sessions, pending, built, disk, deleted>>
      BY DEF StartRun
    <2> QED
      BY <1>1, <1>2, <1>4, <2>1, <2>6, <2>7, <2>9, <2>10, <2>11, GateTaken
  <1>5. "closing" \in Outcomes /\ "cancelled" \in Outcomes
    BY DEF Outcomes
  <1> QED
    BY <1>1, <1>3, <1>4, <1>5 DEF StartRun

(***************************************************************************)
(* Waiting renames.                                                        *)
(***************************************************************************)
LEMMA LookAgain ==
    ASSUME HostInv, UNCHANGED state, NEW t \in Workers, Busy(t), Top(t).op = "rename",
           Top(t).at \in {"lock", "await", "closing", "wait"},
           Goto(t, [Top(t) EXCEPT !.at = "look"])
    PROVE  HostInv'
  <1>1. Top(t) \in Frame
    BY TopIs DEF HostInv
  <1>2. PICK g : g = [Top(t) EXCEPT !.at = "look"]
    OBVIOUS
  <1>3. g \in Frame /\ g.at = "look" /\ Alike(Top(t), g)
    BY <1>1, <1>2, FrameMoves, AwaitsAre
  <1>4. MayMove(Top(t), g)
    BY <1>3 DEF MayMove
  <1> QED
    BY <1>2, <1>3, <1>4, QuietMove

LEMMA CloseSettledStep ==
    ASSUME HostInv, NEW t \in Workers, CloseSettled(t)
    PROVE  HostInv'
  <1>1. Busy(t) /\ Top(t).op = "rename" /\ Top(t).at = "await" /\ UNCHANGED state
    BY AtIs DEF CloseSettled, state
  <1> QED
    BY <1>1, LookAgain DEF CloseSettled

LEMMA CloseWaitTimesOutStep ==
    ASSUME HostInv, NEW t \in Workers, CloseWaitTimesOut(t)
    PROVE  HostInv'
  <1>1. Busy(t) /\ UNCHANGED state /\ "closing" \in Outcomes
    BY AtIs DEF CloseWaitTimesOut, state, Outcomes
  <1> QED
    BY <1>1, QuietReturn DEF CloseWaitTimesOut

LEMMA WaitForReservationStep ==
    ASSUME HostInv, NEW t \in Workers, WaitForReservation(t)
    PROVE  HostInv'
  <1>1. /\ Busy(t) /\ Top(t).op = "rename" /\ Top(t).at = "wait" /\ UNCHANGED state
        /\ "starting" \in Outcomes
    BY AtIs DEF WaitForReservation, state, Outcomes
  <1> QED
    BY <1>1, LookAgain, QuietReturn DEF WaitForReservation

LEMMA WaitForCloseStep ==
    ASSUME HostInv, NEW t \in Workers, WaitForClose(t)
    PROVE  HostInv'
  <1>0. HostTypes /\ Registered
    BY DEF HostInv
  <1>1. PICK top : top = Top(t)
    OBVIOUS
  <1>2. /\ Busy(t) /\ top \in Frame /\ top.op = "rename" /\ top.at = "closing" /\ Fine(t, top)
        /\ UNCHANGED state /\ "closing" \in Outcomes /\ top.id \in Ids
    BY <1>1, AtIs DEF WaitForClose, state, Outcomes, Frame
  <1>3. CASE Return(t, "closing")
    BY <1>2, <1>3, QuietReturn
  <1>4. CASE Goto(t, [top EXCEPT !.at = "look"])
    BY <1>1, <1>2, <1>4, LookAgain
  <1>5. CASE /\ sessions[top.id] # 0 /\ runtimes[top.id][sessions[top.id]].closing
             /\ Goto(t, [top EXCEPT !.at = "await", !.held = sessions[top.id]])
    <2>1. PICK n : n = sessions[top.id]
      OBVIOUS
    <2>2. n \in 1..MaxBuilds /\ n \in Nat /\ n # 0 /\ n <= built[top.id]
      BY <1>0, <1>2, <1>5, <2>1, HostAssumption DEF HostTypes, Registered
    <2>3. PICK g : g = [top EXCEPT !.at = "await", !.held = n]
      OBVIOUS
    <2>4. /\ g \in Frame /\ g.op = "rename" /\ g.at = "await" /\ g.held = n /\ g.id = top.id
          /\ g.reserved = top.reserved
      <3>1. g \in Frame
        BY <1>2, <2>2, <2>3, AwaitsAre DEF Frame
      <3> QED
        BY <1>2, <2>3, <3>1 DEF Frame
    <2>5. ~g.reserved
      BY <1>2, <2>4 DEF Fine, OtherFine
    <2>6. runtimes[g.id][g.held].life # "starting"
      BY <1>0, <1>2, <1>5, <2>1, <2>2, <2>4 DEF Registered
    <2>7. Fine(t, g)
      BY <2>1, <2>2, <2>4, <2>5, <2>6
         DEF Fine, OtherFine, GateFine, HeldFine, Holding
    <2>8. Within(g, Top(t))
      BY <2>4, <2>5 DEF Within, Unborn, Holding
    <2> QED
      BY <1>2, <1>5, <2>1, <2>3, <2>4, <2>7, <2>8, QuietGoto
  <1> QED
    BY <1>1, <1>3, <1>4, <1>5 DEF WaitForClose

(***************************************************************************)
(* The end of a Run, and a close that takes the gate.                      *)
(***************************************************************************)
LEMMA FreedRuntime ==
    ASSUME NEW q \in Runtime, NEW r, r = [q EXCEPT !.gate = Free, !.running = FALSE]
    PROVE  /\ r \in Runtime /\ r.life = q.life /\ r.gate = Free /\ r.closing = q.closing
           /\ r.title = q.title /\ r.setting = q.setting /\ r.loose = q.loose
  BY DEF Runtime

LEMMA SettleRunStep ==
    ASSUME HostInv, NEW t \in Workers, At(t, "run", "running"), NEW o \in Outcomes,
           SettleRun(t, o)
    PROVE  HostInv'
  <1>0. HostTypes
    BY DEF HostInv
  <1>1. PICK top : top = Top(t)
    OBVIOUS
  <1>2. Busy(t) /\ top \in Frame /\ top.op = "run" /\ top.at = "running" /\ Fine(t, top)
    BY <1>1, AtIs
  <1>3. top.held # 0 /\ Holding(top)
    BY <1>2 DEF Fine, OtherFine, Holding
  <1>4. PICK q : q = Now(t)
    OBVIOUS
  <1>5. /\ top.id \in Ids /\ top.held \in 1..MaxBuilds /\ q \in Runtime
        /\ q = runtimes[top.id][top.held]
    BY <1>0, <1>1, <1>2, <1>3, <1>4, HeldIs DEF Now
  <1>6. PICK r : r = [q EXCEPT !.gate = Free, !.running = FALSE]
    OBVIOUS
  <1>7. /\ r \in Runtime /\ r.life = q.life /\ r.closing = q.closing
        /\ r.title = q.title /\ r.setting = q.setting /\ r.loose = q.loose
    BY <1>5, <1>6, FreedRuntime, ZenonT(60)
  <1>8. /\ Touch(top.id, top.held, r) /\ UNCHANGED <<sessions, pending, built, disk, deleted>>
    BY <1>1, <1>4, <1>6 DEF SettleRun
  <1>9. /\ Only(top.id) /\ (Seen(top.id) => Seen(top.id)') /\ StateTypes' /\ RegisteredAs(top.id)'
        /\ \A u \in Workers, h \in Frame :
              Fine(u, h) /\ ~(Holding(h) /\ h.id = top.id /\ h.held = top.held) => Fine(u, h)'
    BY <1>5, <1>7, <1>8, GateState
  <1>10. PICK n : n = IF top.id \in Children THEN 100 * top.held + q.run ELSE 0
    OBVIOUS
  <1>11. n \in Nat
    BY <1>5, <1>10, HostAssumption DEF Runtime
  <1>12. PICK told : told = {u \in Workers : Joined(u, top.id, top.held)}
    OBVIOUS
  <1>13. PICK none \in Seq(Frame) : none = <<>> /\ \A k \in 1..Len(none) : FALSE
    BY NoFrames
  <1>14. Step(t, Len(stack[t]) - 1, none)
    <2>1. stack[t] \in Seq(Frame) /\ stack[t] # <<>>
      BY <1>0, <1>2 DEF HostTypes, Busy
    <2>2. Grown(stack[t], Len(stack[t]), <<>>, stack[t])
      BY <2>1, GrownWhole
    <2>3. PICK x : x = After(stack[t], o, n)
      OBVIOUS
    <2>4. Grown(stack[t], Len(stack[t]) - 1, none, x)
      BY <1>11, <1>13, <2>1, <2>2, <2>3, GrownAfter
    <2>5. /\ stack' = [u \in Workers |-> stack'[u]] /\ stack'[t] = x
          /\ \A u \in Workers \ {t} :
                stack'[u] = IF u \in told THEN After(stack[u], o, n) ELSE stack[u]
      <3>1. stack' = [u \in Workers |-> IF u = t \/ Joined(u, top.id, top.held)
                                        THEN After(stack[u], o, n) ELSE stack[u]]
        BY <1>1, <1>4, <1>10 DEF SettleRun
      <3>2. stack' = [u \in Workers |-> stack'[u]]
        BY <3>1
      <3> QED
        BY <1>12, <2>3, <3>1, <3>2
    <2>6. \A u \in Workers : u \in told => Busy(u)
      BY <1>12 DEF Joined, At
    <2> QED
      BY <1>0, <1>11, <2>4, <2>5, <2>6, OthersReturn
  <1>15. \A u \in Workers, h \in Frame :
            Fine(u, h) /\ h \in Frames /\ ~Clash(top, h) /\ h.id = top.id => Fine(u, h)'
    BY <1>3, <1>9 DEF Clash
  <1>16. /\ \A h \in Frame : h \in Frames /\ ~Clash(top, h) =>
               \A k \in 1..Len(none) : ~Clash(none[k], h)
         /\ \A k \in 1..Len(none) : Fine(t, none[k])'
         /\ \A k, l \in 1..Len(none) : Clash(none[k], none[l]) => k = l
    BY <1>13
  <1> QED
    BY <1>1, <1>2, <1>5, <1>9, <1>14, <1>15, <1>16, TopStep

LEMMA RunAnswersStep ==
    ASSUME HostInv, NEW t \in Workers, RunAnswers(t)
    PROVE  HostInv'
  <1>1. PICK o \in {"ok"} \cup {"error" : i \in {Top(t).id} \cap Children} : SettleRun(t, o)
    BY DEF RunAnswers
  <1>2. o \in Outcomes
    BY DEF Outcomes
  <1> QED
    BY <1>1, <1>2, SettleRunStep DEF RunAnswers

LEMMA RunCancelledStep ==
    ASSUME HostInv, NEW t \in Workers, RunCancelled(t)
    PROVE  HostInv'
  <1>1. "cancelled" \in Outcomes
    BY DEF Outcomes
  <1> QED
    BY <1>1, SettleRunStep DEF RunCancelled

LEMMA GatedRuntime ==
    ASSUME NEW t \in Workers, NEW q \in Runtime, NEW r, r = [q EXCEPT !.gate = t]
    PROVE  /\ r \in Runtime /\ r.life = q.life /\ r.gate = t /\ r.closing = q.closing
           /\ r.title = q.title /\ r.setting = q.setting /\ r.loose = q.loose
  BY DEF Runtime

LEMMA CloseGateStep ==
    ASSUME HostInv, NEW t \in Workers, CloseGate(t)
    PROVE  HostInv'
  <1>0. HostTypes
    BY DEF HostInv
  <1>1. PICK top : top = Top(t)
    OBVIOUS
  <1>2. /\ Busy(t) /\ top \in Frame /\ top.op = "close" /\ top.at = "gate" /\ Fine(t, top)
        /\ UNCHANGED <<sessions, pending, built, disk, deleted>>
    BY <1>1, AtIs DEF CloseGate
  <1>3. CASE Now(t).life # "active"
    <2>1. UNCHANGED state /\ "closing" \in Outcomes /\ Return(t, "closing")
      BY <1>3 DEF CloseGate, state, Outcomes
    <2> QED
      BY <1>2, <2>1, QuietReturn
  <1>4. CASE Now(t).life = "active"
    <2>1. PICK q : q = Now(t)
      OBVIOUS
    <2>2. q \in Runtime
      <3>1. top.held # 0
        BY <1>2 DEF Fine, OtherFine
      <3> QED
        BY <1>0, <1>1, <1>2, <2>1, <3>1, HeldIs DEF Now
    <2>3. PICK r : r = [q EXCEPT !.gate = t]
      OBVIOUS
    <2>4. /\ r \in Runtime /\ r.life = q.life /\ r.gate = t /\ r.closing = q.closing
          /\ r.title = q.title /\ r.setting = q.setting /\ r.loose = q.loose
      BY <2>2, <2>3, GatedRuntime
    <2>5. Touch(top.id, top.held, r) /\ q.gate = Free
      BY <1>1, <1>4, <2>1, <2>3 DEF CloseGate
    <2>6. PICK f : f = [top EXCEPT !.at = "creation"]
      OBVIOUS
    <2>7. f \in Frame /\ f.at = "creation" /\ Alike(top, f)
      BY <1>2, <2>6, FrameMoves, AwaitsAre
    <2>8. PICK told : told = {u \in Workers : Joined(u, top.id, top.held)}
      OBVIOUS
    <2>9. Step(t, Len(stack[t]) - 1, <<f>>)
      <3>1. stack[t] \in Seq(Frame) /\ stack[t] # <<>> /\ <<f>> \in Seq(Frame)
        BY <1>0, <1>2, <2>7 DEF HostTypes, Busy
      <3>2. PICK x : x = <<f>> \o Tail(stack[t])
        OBVIOUS
      <3>3. Grown(stack[t], Len(stack[t]) - 1, <<f>>, x)
        BY <2>7, <3>1, <3>2, GrownGoto
      <3>4. /\ stack' = [u \in Workers |-> stack'[u]] /\ stack'[t] = x
            /\ \A u \in Workers \ {t} :
                  stack'[u] = IF u \in told THEN After(stack[u], "cancelled", 0) ELSE stack[u]
        <4>1. stack' = [u \in Workers |->
                 CASE u = t -> x
                   [] u # t /\ Joined(u, top.id, top.held) -> After(stack[u], "cancelled", 0)
                   [] OTHER -> stack[u]]
          BY <1>1, <1>4, <2>6, <3>2 DEF CloseGate
        <4>2. stack' = [u \in Workers |-> stack'[u]]
          BY <4>1
        <4> QED
          BY <2>8, <4>1, <4>2
      <3>5. \A u \in Workers : u \in told => Busy(u)
        BY <2>8 DEF Joined, At
      <3>6. "cancelled" \in Outcomes /\ 0 \in Nat
        BY DEF Outcomes
      <3> QED
        BY <1>0, <3>1, <3>3, <3>4, <3>5, <3>6, OthersReturn, ZenonT(60)
    <2> QED
      BY <1>1, <1>2, <1>4, <2>1, <2>4, <2>5, <2>7, <2>9, GateTaken
  <1> QED
    BY <1>3, <1>4

(***************************************************************************)
(* Calls that only raise flags, or take a reservation.                     *)
(***************************************************************************)
\* The new calls of t clash with no call that stays.
Apart(t, base, new) ==
    \A u \in Workers : \A p \in 1..Len(stack[u]) :
        (u # t \/ p <= base) => \A q \in 1..Len(new) : ~Clash(new[q], Nth(stack[u], p))

LEMMA ApartTop ==
    ASSUME HostInv, NEW t \in Workers, Busy(t), NEW new \in Seq(Frame),
           \A f \in Frames : ~Clash(Top(t), f) => \A q \in 1..Len(new) : ~Clash(new[q], f)
    PROVE  Apart(t, Len(stack[t]) - 1, new)
  <1>1. /\ HostTypes /\ NoClash /\ Len(stack[t]) \in Nat \ {0}
        /\ Top(t) = Nth(stack[t], Len(stack[t]))
    BY TopIs DEF HostInv
  <1>2. ASSUME NEW u \in Workers, NEW p \in 1..Len(stack[u]), u # t \/ p <= Len(stack[t]) - 1
        PROVE  \A q \in 1..Len(new) : ~Clash(new[q], Nth(stack[u], p))
    <2>1. PICK f : f = Nth(stack[u], p)
      OBVIOUS
    <2>2. f \in Frames
      BY <1>1, <2>1, FramesAre
    <2>3. ~(t = u /\ Len(stack[t]) = p) /\ Len(stack[t]) \in 1..Len(stack[t])
      BY <1>1, <1>2
    <2>4. ~Clash(Top(t), f)
      BY <1>1, <2>1, <2>3 DEF NoClash
    <2> QED
      BY <2>1, <2>2, <2>4
  <1> QED
    BY <1>2 DEF Apart

LEMMA ApartAll ==
    ASSUME HostInv, NEW t \in Workers, NEW base, NEW new \in Seq(Frame),
           \A f \in Frames : \A q \in 1..Len(new) : ~Clash(new[q], f)
    PROVE  Apart(t, base, new)
  <1>1. HostTypes
    BY DEF HostInv
  <1>2. \A u \in Workers : \A p \in 1..Len(stack[u]) : Nth(stack[u], p) \in Frames
    BY <1>1, FramesAre
  <1> QED
    BY <1>2 DEF Apart

LEMMA FlagStep ==
    ASSUME HostInv, NEW t \in Workers,
           NEW i \in Ids, UNCHANGED <<sessions, built, disk, deleted>>,
           pending' = pending \/ (pending' = pending \cup {i} /\ Seen(i)),
           \/ runtimes' = runtimes
           \/ \E g \in 1..MaxBuilds, r \in Runtime :
                 Touch(i, g, r) /\ Flags(runtimes[i][g], r),
           NEW base, NEW new \in Seq(Frame), Step(t, base, new), Apart(t, base, new),
           \A q \in 1..Len(new) : Fine(t, new[q]) \/ Fine(t, new[q])',
           \A q, r \in 1..Len(new) : Clash(new[q], new[r]) => q = r
    PROVE  HostInv'
  <1>1. HostTypes /\ Registered /\ CallsFine /\ NoClash
    BY DEF HostInv
  <1>2. /\ Only(i) /\ StateTypes' /\ RegisteredAs(i)'
        /\ \A u \in Workers, f \in Frame : Fine(u, f) => Fine(u, f)'
    BY FlagsKeep
  <1>3. HostTypes'
    BY <1>2 DEF Step, StateTypes, HostTypes
  <1>4. Registered'
    BY <1>1, <1>2, OnlyRegistered
  <1>5. ASSUME NEW u \in Workers, NEW p \in 1..Len(stack[u]), NEW f \in Frame,
               u # t \/ p <= base, f = Nth(stack[u], p)
        PROVE  Fine(u, f)' /\ \A q \in 1..Len(new) : ~Clash(new[q], f)
    <2>1. Fine(u, f)
      BY <1>1, <1>5 DEF CallsFine
    <2> QED
      BY <1>2, <1>5, <2>1 DEF Apart
  <1>6. \A q \in 1..Len(new) : new[q] \in Frame
    OBVIOUS
  <1>7. \A q \in 1..Len(new) : Fine(t, new[q])'
    BY <1>2, <1>6
  <1>8. CallsFine' /\ NoClash'
    BY <1>1, <1>3, <1>5, <1>7, Preserve
  <1> QED
    BY <1>3, <1>4, <1>8 DEF HostInv

LEMMA StoppedRuntime ==
    ASSUME NEW q \in Runtime, NEW r,
           \/ r = [q EXCEPT !.cancelled = TRUE]
           \/ r = [q EXCEPT !.shutdown = TRUE, !.closeRequested = TRUE, !.cancelled = TRUE]
    PROVE  r \in Runtime /\ Flags(q, r)
  BY DEF Runtime, Flags

LEMMA SubmitCancelledStep ==
    ASSUME HostInv, NEW t \in Workers, SubmitCancelled(t)
    PROVE  HostInv'
  <1>0. HostTypes
    BY DEF HostInv
  <1>1. PICK top : top = Top(t)
    OBVIOUS
  <1>2. /\ Busy(t) /\ top \in Frame /\ top.op = "run" /\ top.at = "queued" /\ Fine(t, top)
        /\ UNCHANGED <<sessions, pending, built, disk, deleted>>
    BY <1>1, AtIs DEF SubmitCancelled
  <1>3. PICK q : q = Now(t)
    OBVIOUS
  <1>4. /\ q \in Runtime /\ top.id \in Ids /\ top.held \in 1..MaxBuilds
        /\ q = runtimes[top.id][top.held] /\ top.held # 0 /\ ~top.reserved
    <2>1. top.held # 0 /\ ~top.reserved
      BY <1>2 DEF Fine, OtherFine
    <2> QED
      BY <1>0, <1>1, <1>2, <1>3, <2>1, HeldIs DEF Now
  <1>5. PICK r : r = [q EXCEPT !.cancelled = TRUE]
    OBVIOUS
  <1>6. r \in Runtime /\ Flags(q, r)
    BY <1>4, <1>5, StoppedRuntime
  <1>7. Touch(top.id, top.held, r)
    BY <1>1, <1>3, <1>5 DEF SubmitCancelled
  <1>8. PICK f : f = [top EXCEPT !.at = "idle"]
    OBVIOUS
  <1>9. f \in Frame /\ f.at = "idle" /\ Alike(top, f)
    BY <1>2, <1>8, FrameMoves, AwaitsAre
  <1>10. Step(t, Len(stack[t]) - 1, <<f>>)
    BY <1>0, <1>1, <1>2, <1>8, <1>9, GotoStep DEF SubmitCancelled
  <1>11. Fine(t, f)
    BY <1>2, <1>9 DEF Alike, Fine, OtherFine, GateFine, HeldFine, Holding, Building
  <1>12. Within(f, top)
    BY <1>2, <1>4, <1>9 DEF Alike, Within, Unborn, Holding
  <1>13. \E g \in 1..MaxBuilds, x \in Runtime :
            Touch(top.id, g, x) /\ Flags(runtimes[top.id][g], x)
    BY <1>4, <1>6, <1>7
  <1> QED
    BY <1>1, <1>2, <1>4, <1>9, <1>10, <1>11, <1>12, <1>13, FlagTop

LEMMA CancelSessionStep ==
    ASSUME HostInv, NEW t, NEW i \in Ids, CancelSession(t, i)
    PROVE  HostInv'
  <1>0. HostTypes
    BY DEF HostInv
  <1>1. /\ t \in Workers /\ UNCHANGED <<sessions, pending, built, disk, deleted>>
        /\ UNCHANGED stack
    BY IdleIs DEF CancelSession
  <1>2. sessions[i] \in 1..MaxBuilds /\ runtimes[i][sessions[i]] \in Runtime
    BY <1>0, LiveIs DEF CancelSession
  <1>3. PICK q : q = runtimes[i][sessions[i]]
    OBVIOUS
  <1>4. PICK r : r = [q EXCEPT !.cancelled = TRUE]
    OBVIOUS
  <1>5. r \in Runtime /\ Flags(q, r)
    BY <1>2, <1>3, <1>4, StoppedRuntime
  <1>6. Touch(i, sessions[i], r)
    BY <1>3, <1>4 DEF CancelSession
  <1>7. \E g \in 1..MaxBuilds, x \in Runtime : Touch(i, g, x) /\ Flags(runtimes[i][g], x)
    BY <1>2, <1>3, <1>5, <1>6
  <1>8. PICK none \in Seq(Frame) : none = <<>> /\ \A k \in 1..Len(none) : FALSE
    BY NoFrames
  <1>9. Step(t, Len(stack[t]), none)
    BY <1>0, <1>1, <1>8, NoStep
  <1>10. Apart(t, Len(stack[t]), none)
    BY <1>8 DEF Apart
  <1>11. /\ \A k \in 1..Len(none) : Fine(t, none[k])'
         /\ \A k, l \in 1..Len(none) : Clash(none[k], none[l]) => k = l
    BY <1>8
  <1> QED
    BY <1>1, <1>7, <1>9, <1>10, <1>11, FlagStep

\* Close of i, called by the innermost of the calls new or by none.
LEMMA CloseStep ==
    ASSUME HostInv, NEW t \in Workers, NEW i \in Ids, UNCHANGED <<sessions, built, disk, deleted>>,
           pending' = pending \/ (pending' = pending \cup {i} /\ Seen(i)),
           NEW base, NEW new \in Seq(Frame), NEW rest, Grown(stack[t], base, new, rest),
           Close(t, i, rest), Apart(t, base, new),
           rest = <<>> => ~Busy(t) /\ new = <<>> /\ base = Len(stack[t]),
           \A q \in 1..Len(new) : Fine(t, new[q]) \/ Fine(t, new[q])',
           \A q, r \in 1..Len(new) : Clash(new[q], new[r]) => q = r
    PROVE  HostInv'
  <1>0. HostTypes
    BY DEF HostInv
  <1>1. CASE SessionOf(i) # "ok"
    <2>1. SessionOf(i) \in Outcomes
      BY <1>0, OutcomesAre
    <2>2. PICK c : c = Call("close", "none", "gate", i)
      OBVIOUS
    <2>3. c \in Frame
      BY <2>2, AwaitsAre DEF Call, Frame, Outcomes
    <2>4. runtimes' = runtimes
      BY <1>1 DEF Close
    <2>5. Step(t, base, new)
      <3>1. CASE rest = <<>>
        <4>1. stack' = [stack EXCEPT ![t] = <<>>]
          BY <1>1, <3>1 DEF Close
        <4> QED
          BY <1>0, <3>1, <4>1, NoStep
      <3>2. CASE rest # <<>>
        <4>1. stack' = [stack EXCEPT ![t] = After(<<c>> \o rest, SessionOf(i), 0)]
          BY <1>1, <2>2, <3>2 DEF Close
        <4> QED
          BY <1>0, <2>1, <2>3, <4>1, PushIs
      <3> QED
        BY <3>1, <3>2
    <2> QED
      BY <2>4, <2>5, FlagStep
  <1>2. CASE SessionOf(i) = "ok"
    <2>1. sessions[i] \in 1..MaxBuilds /\ runtimes[i][sessions[i]] \in Runtime
      BY <1>0, <1>2, LiveIs
    <2>2. PICK q, n : q = runtimes[i][sessions[i]] /\ n = sessions[i] /\ n \in Nat
      <3>1. sessions[i] \in Nat
        BY <2>1, HostAssumption
      <3> QED
        BY <3>1
    <2>3. PICK r : r = [q EXCEPT !.shutdown = TRUE, !.closeRequested = TRUE, !.cancelled = TRUE]
      OBVIOUS
    <2>4. r \in Runtime /\ Flags(q, r)
      BY <2>1, <2>2, <2>3, StoppedRuntime
    <2>5. Touch(i, sessions[i], r)
      BY <1>2, <2>2, <2>3 DEF Close
    <2>6. \E g \in 1..MaxBuilds, x \in Runtime : Touch(i, g, x) /\ Flags(runtimes[i][g], x)
      BY <2>1, <2>2, <2>4, <2>5
    <2>7. PICK c : c = [Call("close", "none", "gate", i) EXCEPT !.held = n]
      OBVIOUS
    <2>8. /\ c \in Frame /\ c.op = "close" /\ c.at = "gate" /\ c.id = i /\ c.held = n
          /\ ~c.reserved
      BY <2>2, <2>7, AwaitsAre DEF Call, Frame, Outcomes
    <2>9. Fine(t, c) /\ Modest(c)
      BY <1>2, <2>2, <2>8, LiveFine
    <2>10. Fine(t, c)'
      BY <2>6, <2>8, <2>9, FlagsKeep
    <2>11. stack' = [stack EXCEPT ![t] = <<c>> \o rest]
      BY <1>2, <2>2, <2>7 DEF Close
    <2>12. PICK more \in Seq(Frame) :
              /\ more = Append(new, c) /\ Len(more) = Len(new) + 1 /\ more[Len(new) + 1] = c
              /\ \A k \in 1..Len(new) : more[k] = new[k]
      <3>1. /\ Append(new, c) \in Seq(Frame) /\ Len(Append(new, c)) = Len(new) + 1
            /\ Append(new, c)[Len(new) + 1] = c
            /\ \A k \in 1..Len(new) : Append(new, c)[k] = new[k]
        BY <2>8
      <3> QED
        BY <3>1
    <2>13. Step(t, base, more)
      BY <1>0, <2>8, <2>11, <2>12, PushIs
    <2>14. \A k \in 1..Len(more) : k \in 1..Len(new) \/ k = Len(new) + 1
      BY <2>12
    <2>15. \A h : ~Clash(c, h) /\ ~Clash(h, c)
      BY <2>9, ModestIs, ClashSymmetric
    <2>16. Apart(t, base, more)
      BY <2>12, <2>14, <2>15 DEF Apart
    <2>17. \A k \in 1..Len(more) : Fine(t, more[k]) \/ Fine(t, more[k])'
      BY <2>10, <2>12, <2>14
    <2>18. \A k, l \in 1..Len(more) : Clash(more[k], more[l]) => k = l
      BY <2>12, <2>14, <2>15
    <2> QED
      BY <2>6, <2>13, <2>16, <2>17, <2>18, FlagStep
  <1> QED
    BY <1>1, <1>2

LEMMA CloseSessionStep ==
    ASSUME HostInv, NEW t, NEW i \in Ids, CloseSession(t, i)
    PROVE  HostInv'
  <1>1. /\ t \in Workers /\ ~Busy(t) /\ UNCHANGED <<sessions, pending, built, disk, deleted>>
        /\ Close(t, i, <<>>)
    BY IdleIs DEF CloseSession
  <1>2. PICK none \in Seq(Frame) : none = <<>> /\ \A k \in 1..Len(none) : FALSE
    BY NoFrames
  <1>3. Grown(stack[t], Len(stack[t]), none, <<>>)
    <2>1. stack[t] = <<>> /\ <<>> \in Seq(Frame) /\ <<>> = none
      BY <1>1, <1>2 DEF Busy
    <2> QED
      BY <2>1, GrownWhole
  <1>4. Apart(t, Len(stack[t]), none)
    BY <1>2 DEF Apart
  <1>5. /\ \A k \in 1..Len(none) : Fine(t, none[k])'
        /\ \A k, l \in 1..Len(none) : Clash(none[k], none[l]) => k = l
    BY <1>2
  <1> QED
    BY <1>1, <1>2, <1>3, <1>4, <1>5, CloseStep

LEMMA OneFrame ==
    ASSUME NEW g \in Frame
    PROVE  \E new \in Seq(Frame) : /\ new = <<g>> /\ Len(new) = 1 /\ new[1] = g
                                   /\ \A q \in 1..Len(new) : q = 1
  <1>1. /\ <<g>> \in Seq(Frame) /\ Len(<<g>>) = 1 /\ <<g>>[1] = g
        /\ \A q \in 1..Len(<<g>>) : q = 1
    OBVIOUS
  <1> QED
    BY <1>1

LEMMA ClosingFrame ==
    ASSUME NEW q \in Frame, NEW b \in BOOLEAN, NEW f, f = [q EXCEPT !.back = "none", !.bad = b]
    PROVE  f \in Frame /\ f.at = q.at /\ Alike(q, f) /\ f.kids = q.kids
  BY DEF Frame, Alike, Outcomes

LEMMA CloseChildrenStep ==
    ASSUME HostInv, NEW t \in Workers, CloseChildren(t)
    PROVE  HostInv'
  <1>0. HostTypes
    BY DEF HostInv
  <1>1. PICK top : top = Top(t)
    OBVIOUS
  <1>2. /\ Busy(t) /\ top \in Frame /\ top.op = "close" /\ top.at = "children" /\ Fine(t, top)
        /\ UNCHANGED <<sessions, pending, built, disk, deleted>>
    BY <1>1, AtIs DEF CloseChildren
  <1>3. PICK b : b = (top.bad \/ top.back \notin {"none", "ok", "notFound"})
    OBVIOUS
  <1>4. b \in BOOLEAN
    BY <1>2, <1>3 DEF Frame
  <1>5. PICK f : f = [top EXCEPT !.back = "none", !.bad = b]
    OBVIOUS
  <1>6. f \in Frame /\ f.at = "children" /\ Alike(top, f) /\ f.kids = top.kids
    BY <1>2, <1>4, <1>5, ClosingFrame
  <1>7. /\ f.kids = {} => Goto(t, [f EXCEPT !.at = "join"]) /\ UNCHANGED runtimes
        /\ f.kids # {} =>
             \E k \in f.kids : Close(t, k, <<[f EXCEPT !.kids = @ \ {k}]>> \o Tail(stack[t]))
    <2>1. f = [Top(t) EXCEPT !.back = "none",
                 !.bad = @ \/ Top(t).back \notin {"none", "ok", "notFound"}]
      BY <1>1, <1>3, <1>5
    <2> QED
      BY <2>1 DEF CloseChildren
  <1>8. CASE f.kids = {}
    <2>1. PICK g : g = [f EXCEPT !.at = "join"]
      OBVIOUS
    <2>2. g \in Frame /\ g.at = "join" /\ Alike(f, g)
      BY <1>6, <2>1, FrameMoves, AwaitsAre
    <2>3. Alike(top, g) /\ MayMove(top, g)
      BY <1>2, <1>6, <2>2 DEF Alike, MayMove
    <2>4. UNCHANGED state
      BY <1>2, <1>7, <1>8 DEF state
    <2> QED
      BY <1>1, <1>2, <1>7, <1>8, <2>1, <2>2, <2>3, <2>4, QuietMove
  <1>9. CASE f.kids # {}
    <2>1. PICK k \in f.kids : Close(t, k, <<[f EXCEPT !.kids = @ \ {k}]>> \o Tail(stack[t]))
      BY <1>7, <1>9
    <2>2. PICK g : g = [f EXCEPT !.kids = @ \ {k}]
      OBVIOUS
    <2>3. g \in Frame /\ g.at = "children" /\ Alike(f, g) /\ k \in Ids
      <3>1. f.kids \ {k} \in SUBSET Ids /\ k \in Ids
        BY <1>6, <2>1 DEF Frame
      <3> QED
        BY <1>6, <2>2, <3>1 DEF Frame, Alike
    <2>4. Alike(top, g) /\ MayMove(top, g)
      BY <1>2, <1>6, <2>3 DEF Alike, MayMove
    <2>5. Fine(t, g) /\ Within(g, top)
      BY <1>2, <2>3, <2>4, MoveFine
    <2>6. PICK new \in Seq(Frame) : /\ new = <<g>> /\ Len(new) = 1 /\ new[1] = g
                                    /\ \A q \in 1..Len(new) : q = 1
      BY <2>3, OneFrame
    <2>7. \A q \in 1..Len(new) : q = 1
      BY <2>6
    <2>8. PICK rest : rest = <<g>> \o Tail(stack[t])
      OBVIOUS
    <2>9. Grown(stack[t], Len(stack[t]) - 1, new, rest) /\ rest # <<>>
      <3>1. stack[t] \in Seq(Frame) /\ stack[t] # <<>>
        BY <1>0, <1>2 DEF HostTypes, Busy
      <3>2. Tail(stack[t]) \in Seq(Frame)
        BY <3>1
      <3>3. rest # <<>>
        BY <2>3, <2>8, <3>2
      <3> QED
        BY <2>3, <2>6, <2>8, <3>1, <3>3, GrownGoto
    <2>10. \A h \in Frames : ~Clash(Top(t), h) => \A q \in 1..Len(new) : ~Clash(new[q], h)
      BY <1>1, <2>5, <2>6, <2>7, WithinKeeps
    <2>11. Apart(t, Len(stack[t]) - 1, new)
      BY <1>2, <2>10, ApartTop
    <2>12. /\ \A q \in 1..Len(new) : Fine(t, new[q])
           /\ \A q, r \in 1..Len(new) : Clash(new[q], new[r]) => q = r
      BY <2>5, <2>6, <2>7
    <2>13. Close(t, k, rest)
      BY <2>1, <2>2, <2>8
    <2> QED
      BY <1>2, <2>3, <2>9, <2>11, <2>12, <2>13, CloseStep
  <1> QED
    BY <1>8, <1>9

(***************************************************************************)
(* Deleting.                                                               *)
(***************************************************************************)
LEMMA DeleteStep ==
    ASSUME HostInv, NEW t \in Workers, NEW i \in Ids, Seen(i),
           UNCHANGED <<sessions, built, disk, deleted>>,
           NEW base, NEW new \in Seq(Frame), NEW rest, Grown(stack[t], base, new, rest),
           Delete(t, i, rest), Apart(t, base, new),
           rest = <<>> => ~Busy(t) /\ new = <<>> /\ base = Len(stack[t]),
           \A q \in 1..Len(new) : Fine(t, new[q]),
           \A q, r \in 1..Len(new) : Clash(new[q], new[r]) => q = r
    PROVE  HostInv'
  <1>0. HostTypes
    BY DEF HostInv
  <1>1. PICK own : own = IF sessions[i] # 0 \/ disk[i].there THEN Owned(i) ELSE {}
    OBVIOUS
  <1>2. own \in SUBSET Ids
    BY <1>1 DEF Owned, Ids
  <1>3. PICK d : d = [Call("delete", "none", "closed", i) EXCEPT !.reserved = TRUE, !.kids = own]
    OBVIOUS
  <1>4. /\ d \in Frame /\ d.op = "delete" /\ d.at = "closed" /\ d.id = i /\ d.held = 0
        /\ d.reserved
    BY <1>2, <1>3, AwaitsAre DEF Call, Frame, Outcomes
  <1>5. ASSUME NEW r \in Outcomes, UNCHANGED <<pending, runtimes>>,
               stack' = [stack EXCEPT ![t] =
                            IF rest = <<>> THEN <<>> ELSE After(<<d>> \o rest, r, 0)]
        PROVE  HostInv'
    <2>1. Step(t, base, new)
      <3>1. CASE rest = <<>>
        BY <1>0, <1>5, <3>1, NoStep
      <3>2. CASE rest # <<>>
        <4>1. stack' = [stack EXCEPT ![t] = After(<<d>> \o rest, r, 0)]
          BY <1>5, <3>2
        <4> QED
          BY <1>0, <1>4, <4>1, PushIs
      <3> QED
        BY <3>1, <3>2
    <2> QED
      BY <1>5, <2>1, FlagStep
  <1>6. ASSUME i \notin pending, pending' = pending \cup {i}, Close(t, i, <<d>> \o rest)
        PROVE  HostInv'
    <2>1. PICK more \in Seq(Frame) :
              /\ more = Append(new, d) /\ Len(more) = Len(new) + 1 /\ more[Len(new) + 1] = d
              /\ \A k \in 1..Len(new) : more[k] = new[k]
      <3>1. /\ Append(new, d) \in Seq(Frame) /\ Len(Append(new, d)) = Len(new) + 1
            /\ Append(new, d)[Len(new) + 1] = d
            /\ \A k \in 1..Len(new) : Append(new, d)[k] = new[k]
        BY <1>4
      <3> QED
        BY <3>1
    <2>2. \A k \in 1..Len(more) : k \in 1..Len(new) \/ k = Len(new) + 1
      BY <2>1
    <2>3. PICK rest2 : rest2 = <<d>> \o rest
      OBVIOUS
    <2>4. Grown(stack[t], base, more, rest2) /\ rest2 # <<>>
      <3>1. stack[t] \in Seq(Frame)
        BY <1>0 DEF HostTypes
      <3>2. rest \in Seq(Frame)
        BY DEF Grown
      <3>3. rest2 # <<>>
        BY <1>4, <2>3, <3>2
      <3> QED
        BY <1>4, <2>1, <2>3, <3>1, <3>3, GrownPush
    <2>5. ASSUME NEW h, NEW u, Fine(u, h) PROVE ~Clash(d, h) /\ ~Clash(h, d)
      BY <1>4, <1>6, <2>5 DEF Clash, Unborn, Holding, Fine
    <2>6. Apart(t, base, more)
      <3>1. \A u \in Workers : \A p \in 1..Len(stack[u]) : Fine(u, Nth(stack[u], p))
        BY DEF HostInv, CallsFine
      <3> QED
        BY <2>1, <2>2, <2>5, <3>1 DEF Apart
    <2>7. Fine(t, d)'
      <3>1. 0 <= built[i]
        BY <1>0, HostAssumption DEF HostTypes
      <3> QED
        BY <1>4, <1>6, <3>1 DEF Fine, OtherFine, GateFine, HeldFine, Holding
    <2>8. \A k \in 1..Len(more) : Fine(t, more[k]) \/ Fine(t, more[k])'
      BY <2>1, <2>2, <2>7
    <2>9. \A k, l \in 1..Len(more) : Clash(more[k], more[l]) => k = l
      BY <2>1, <2>2, <2>5
    <2> QED
      BY <1>6, <2>3, <2>4, <2>6, <2>8, <2>9, CloseStep
  <1>7. SessionOf(i) \in Outcomes /\ "duplicate" \in Outcomes
    BY <1>0, OutcomesAre DEF Outcomes
  <1>8. \/ \E r \in Outcomes :
              /\ UNCHANGED <<pending, runtimes>>
              /\ stack' = [stack EXCEPT ![t] =
                            IF rest = <<>> THEN <<>> ELSE After(<<d>> \o rest, r, 0)]
        \/ i \notin pending /\ pending' = pending \cup {i} /\ Close(t, i, <<d>> \o rest)
    BY <1>1, <1>3, <1>7 DEF Delete
  <1> QED
    BY <1>5, <1>6, <1>8

LEMMA DeleteSessionStep ==
    ASSUME HostInv, NEW t, NEW i \in Ids, Seen(i), DeleteSession(t, i)
    PROVE  HostInv'
  <1>1. /\ t \in Workers /\ ~Busy(t) /\ UNCHANGED <<sessions, built, disk, deleted>>
        /\ Delete(t, i, <<>>)
    BY IdleIs DEF DeleteSession
  <1>2. PICK none \in Seq(Frame) : none = <<>> /\ \A k \in 1..Len(none) : FALSE
    BY NoFrames
  <1>3. Grown(stack[t], Len(stack[t]), none, <<>>)
    <2>1. stack[t] = <<>> /\ <<>> \in Seq(Frame) /\ <<>> = none
      BY <1>1, <1>2 DEF Busy
    <2> QED
      BY <2>1, GrownWhole
  <1>4. Apart(t, Len(stack[t]), none)
    BY <1>2 DEF Apart
  <1>5. /\ \A k \in 1..Len(none) : Fine(t, none[k])
        /\ \A k, l \in 1..Len(none) : Clash(none[k], none[l]) => k = l
    BY <1>2
  <1> QED
    BY <1>1, <1>2, <1>3, <1>4, <1>5, DeleteStep

\* A deletion ends: it leaves the Session as it is, or without its file.
LEMMA DeletionEnds ==
    ASSUME HostInv, NEW t \in Workers, Busy(t), NEW top, top = Top(t), top.op = "delete",
           NEW r \in Outcomes, Return(t, r), Unreserve(top),
           UNCHANGED <<sessions, built, runtimes>>,
           \/ UNCHANGED <<disk, deleted>>
           \/ /\ disk' = [disk EXCEPT ![top.id] = NoFile]
              /\ deleted' = deleted \cup {top.id}
    PROVE  HostInv'
  <1>0. HostTypes /\ Registered
    BY DEF HostInv
  <1>1. top \in Frame /\ Fine(t, top)
    BY TopIs DEF HostInv
  <1>2. top.id \in Ids /\ top.reserved
    BY <1>0, <1>1, HeldIs DEF Fine, OtherFine
  <1>3. pending' = pending \ {top.id}
    BY <1>2 DEF Unreserve
  <1>4. /\ disk' \in [Ids -> [there : BOOLEAN, title : BOOLEAN, setting : BOOLEAN]]
        /\ \A j \in Ids \ {top.id} : disk'[j] = disk[j]
        /\ disk'[top.id] = disk[top.id] \/ ~disk'[top.id].there
    <2>1. CASE disk' = disk
      BY <1>0, <2>1 DEF HostTypes
    <2>2. CASE disk' = [disk EXCEPT ![top.id] = NoFile]
      BY <1>0, <1>2, <2>2, FilesAre, FileIs
    <2> QED
      BY <2>1, <2>2
  <1>5. Only(top.id) /\ StateTypes'
    BY <1>0, <1>2, <1>3, <1>4 DEF Only, StateTypes, HostTypes
  <1>6. Seen(top.id) => Seen(top.id)'
    BY DEF Seen
  <1>7. RegisteredAs(top.id)'
    <2>1. \A x : Matches(x, disk[top.id]) => Matches(x, disk'[top.id])
      BY <1>4 DEF Matches
    <2> QED
      BY <1>0, <1>2, <2>1 DEF Registered, RegisteredAs, Matches
  <1>8. \A g \in 1..MaxBuilds : /\ runtimes'[top.id][g] = runtimes[top.id][g]
                                /\ sessions'[top.id] = sessions[top.id]
                                /\ ~disk[top.id].there => ~disk'[top.id].there
    BY <1>4
  <1> QED
    BY <1>2, <1>5, <1>6, <1>7, <1>8, ReservedReturns

LEMMA DeleteClosedStep ==
    ASSUME HostInv, NEW t \in Workers, DeleteClosed(t)
    PROVE  HostInv'
  <1>0. HostTypes
    BY DEF HostInv
  <1>1. PICK top : top = Top(t)
    OBVIOUS
  <1>2. /\ Busy(t) /\ top \in Frame /\ top.op = "delete" /\ top.at = "closed" /\ Fine(t, top)
        /\ UNCHANGED <<sessions, runtimes, built, disk, deleted>> /\ "error" \in Outcomes
    BY <1>1, AtIs DEF DeleteClosed, Outcomes
  <1>3. CASE Return(t, "error") /\ Unreserve(top)
    BY <1>1, <1>2, <1>3, DeletionEnds
  <1>4. CASE /\ Goto(t, [top EXCEPT !.at = "kids", !.back = "none",
                            !.kids = {k \in top.kids : disk[k].there}])
             /\ UNCHANGED pending
    <2>1. PICK own : own = {k \in top.kids : disk[k].there}
      OBVIOUS
    <2>2. own \in SUBSET Ids /\ \A k \in own : Seen(k)
      BY <1>2, <2>1 DEF Frame, Seen
    <2>3. PICK g : g = [top EXCEPT !.at = "kids", !.back = "none", !.kids = own]
      OBVIOUS
    <2>4. g \in Frame /\ g.at = "kids" /\ Alike(top, g) /\ g.kids = own
      <3>1. g \in Frame
        BY <1>2, <2>2, <2>3, AwaitsAre DEF Frame, Outcomes
      <3> QED
        BY <1>2, <2>3, <3>1 DEF Frame, Alike
    <2>5. Fine(t, g)
      BY <1>2, <2>2, <2>4 DEF Alike, Fine, OtherFine, GateFine, HeldFine, Holding
    <2>6. Within(g, top)
      BY <1>2, <2>4 DEF Alike, Within, Unborn, Holding
    <2>7. UNCHANGED state
      BY <1>2, <1>4 DEF state
    <2> QED
      BY <1>1, <1>2, <1>4, <2>1, <2>3, <2>4, <2>5, <2>6, <2>7, QuietGoto
  <1> QED
    BY <1>1, <1>3, <1>4 DEF DeleteClosed

LEMMA DeleteKidsStep ==
    ASSUME HostInv, NEW t \in Workers, DeleteKids(t)
    PROVE  HostInv'
  <1>0. HostTypes
    BY DEF HostInv
  <1>1. PICK top : top = Top(t)
    OBVIOUS
  <1>2. /\ Busy(t) /\ top \in Frame /\ top.op = "delete" /\ top.at = "kids" /\ Fine(t, top)
        /\ UNCHANGED <<sessions, built>> /\ "error" \in Outcomes /\ "ok" \in Outcomes
    BY <1>1, AtIs DEF DeleteKids, Outcomes
  <1>3. CASE Return(t, "error") /\ Unreserve(top) /\ UNCHANGED <<runtimes, disk, deleted>>
    BY <1>1, <1>2, <1>3, DeletionEnds
  <1>4. CASE /\ disk' = [disk EXCEPT ![top.id] = NoFile]
             /\ deleted' = deleted \cup {top.id}
             /\ Return(t, "ok") /\ Unreserve(top)
             /\ UNCHANGED runtimes
    BY <1>1, <1>2, <1>4, DeletionEnds
  <1>5. ASSUME NEW k \in top.kids, UNCHANGED <<disk, deleted>>,
               Delete(t, k, <<[top EXCEPT !.kids = @ \ {k}, !.back = "none"]>> \o Tail(stack[t]))
        PROVE  HostInv'
    <2>1. PICK own : own = top.kids \ {k}
      OBVIOUS
    <2>2. own \in SUBSET Ids /\ (\A j \in own : Seen(j)) /\ k \in Ids /\ Seen(k)
      BY <1>2, <2>1 DEF Frame, Fine, OtherFine
    <2>3. PICK g : g = [top EXCEPT !.kids = own, !.back = "none"]
      OBVIOUS
    <2>4. g \in Frame /\ g.at = "kids" /\ Alike(top, g) /\ g.kids = own
      <3>1. g \in Frame
        BY <1>2, <2>2, <2>3 DEF Frame, Outcomes
      <3> QED
        BY <1>2, <2>3, <3>1 DEF Frame, Alike
    <2>5. Fine(t, g)
      BY <1>2, <2>2, <2>4 DEF Alike, Fine, OtherFine, GateFine, HeldFine, Holding
    <2>6. Within(g, top)
      BY <1>2, <2>4 DEF Alike, Within, Unborn, Holding
    <2>7. PICK new \in Seq(Frame) : /\ new = <<g>> /\ Len(new) = 1 /\ new[1] = g
                                    /\ \A q \in 1..Len(new) : q = 1
      BY <2>4, OneFrame
    <2>8. PICK rest : rest = <<g>> \o Tail(stack[t])
      OBVIOUS
    <2>9. Grown(stack[t], Len(stack[t]) - 1, new, rest) /\ rest # <<>>
      <3>1. stack[t] \in Seq(Frame) /\ stack[t] # <<>>
        BY <1>0, <1>2 DEF HostTypes, Busy
      <3>2. Tail(stack[t]) \in Seq(Frame)
        BY <3>1
      <3>3. rest # <<>>
        BY <2>4, <2>8, <3>2
      <3> QED
        BY <2>4, <2>7, <2>8, <3>1, <3>3, GrownGoto
    <2>10. \A h \in Frames : ~Clash(Top(t), h) => \A q \in 1..Len(new) : ~Clash(new[q], h)
      BY <1>1, <2>6, <2>7, WithinKeeps
    <2>11. Apart(t, Len(stack[t]) - 1, new)
      BY <1>2, <2>10, ApartTop
    <2>12. /\ \A q \in 1..Len(new) : Fine(t, new[q])
           /\ \A q, r \in 1..Len(new) : Clash(new[q], new[r]) => q = r
      BY <2>5, <2>7
    <2>13. Delete(t, k, rest)
      BY <1>5, <2>1, <2>3, <2>8
    <2> QED
      BY <1>2, <1>5, <2>2, <2>9, <2>11, <2>12, <2>13, DeleteStep
  <1> QED
    BY <1>1, <1>3, <1>4, <1>5 DEF DeleteKids

(***************************************************************************)
(* The lifecycle of a close.                                               *)
(***************************************************************************)
\* An open runtime begins to close.
LEMMA LifeMoves ==
    ASSUME HostInv, NEW i \in Ids, NEW g \in 1..MaxBuilds, NEW r \in Runtime, Touch(i, g, r),
           runtimes[i][g].life \in {"active", "closing"}, r.life \in {"active", "closing"},
           r.gate = runtimes[i][g].gate,
           r.title = runtimes[i][g].title, r.setting = runtimes[i][g].setting,
           r.loose = runtimes[i][g].loose,
           UNCHANGED <<sessions, pending, built, disk, deleted>>
    PROVE  /\ Only(i) /\ (Seen(i) => Seen(i)') /\ StateTypes' /\ RegisteredAs(i)'
           /\ \A u \in Workers, f \in Frame : Fine(u, f) => Fine(u, f)'
  <1>1. HostTypes /\ Registered
    BY DEF HostInv
  <1>2. /\ runtimes' \in [Ids -> [1..MaxBuilds -> Runtime]] /\ runtimes'[i][g] = r
        /\ \A h \in 1..MaxBuilds : h # g => runtimes'[i][h] = runtimes[i][h]
        /\ \A j \in Ids \ {i} : runtimes'[j] = runtimes[j]
    BY <1>1, TouchIs
  <1>3. Only(i) /\ StateTypes' /\ (Seen(i) => Seen(i)')
    BY <1>1, <1>2 DEF Only, StateTypes, HostTypes, Seen
  <1>4. \A h \in 1..MaxBuilds : /\ runtimes'[i][h].title = runtimes[i][h].title
                                /\ runtimes'[i][h].setting = runtimes[i][h].setting
                                /\ runtimes'[i][h].loose = runtimes[i][h].loose
                                /\ runtimes'[i][h].gate = runtimes[i][h].gate
    BY <1>2
  <1>5. RegisteredAs(i)'
    <2>1. sessions[i] # 0 => sessions[i] \in 1..MaxBuilds
      BY <1>1, HostAssumption DEF HostTypes
    <2>2. \A h \in 1..MaxBuilds : runtimes'[i][h].closing => runtimes'[i][h].life # "starting"
      BY <1>1, <1>2 DEF Registered
    <2> QED
      BY <1>1, <1>4, <2>1, <2>2 DEF RegisteredAs, Registered, Matches
  <1>6. Remembered
    BY <1>3, OnlyRemembers
  <1>7. ASSUME NEW u \in Workers, NEW f \in Frame, Fine(u, f)
        PROVE  Fine(u, f)'
    <2>1. f.id \in Ids /\ (f.held # 0 => f.held \in 1..MaxBuilds)
      BY <1>1, <1>7, HeldIs
    <2>2. Holding(f) \/ Building(f) => f.held # 0
      BY <1>7 DEF Holding, Building, Fine, OtherFine
    <2>3. f.held # 0 => /\ runtimes'[f.id][f.held].gate = runtimes[f.id][f.held].gate
                        /\ runtimes'[f.id][f.held].title = runtimes[f.id][f.held].title
                        /\ runtimes'[f.id][f.held].setting = runtimes[f.id][f.held].setting
                        /\ runtimes'[f.id][f.held].loose = runtimes[f.id][f.held].loose
      BY <1>2, <1>4, <2>1
    <2>4. Unborn(f) => f.id \notin pending
      BY <1>7 DEF Fine, BuildFine, Unborn
    <2>5. CASE f.held # 0 => runtimes'[f.id][f.held].life = runtimes[f.id][f.held].life
      <3>1. Untouched(f)
        BY <1>7, <2>1, <2>2, <2>3, <2>4, <2>5 DEF Untouched, Fine
      <3> QED
        BY <1>6, <1>7, <3>1, FineUntouched
    <2>6. CASE f.held # 0 /\ runtimes'[f.id][f.held].life # runtimes[f.id][f.held].life
      <3>1. /\ f.id = i /\ f.held = g
        BY <1>2, <2>1, <2>6
      <3>2. /\ runtimes[f.id][f.held].life \in {"active", "closing"}
            /\ runtimes'[f.id][f.held].life \in {"active", "closing"}
        BY <1>2, <3>1
      <3>3. ~Building(f) /\ ~(f.op = "build" /\ f.at \in {"start", "checkpoint"})
        BY <1>7, <3>2 DEF Fine, BuildFine, Building
      <3>4. f.op = "build" => BuildFine(f)'
        <4>1. ASSUME f.op = "build" PROVE BuildFine(f)'
          <5>1. BuildFine(f)
            BY <1>7, <4>1 DEF Fine
          <5>2. \A k \in Ids : Seen(k) => Seen(k)'
            BY <1>6 DEF Remembered
          <5>3. f.kids \in SUBSET Ids /\ f.id \in Ids
            BY DEF Frame
          <5> QED
            BY <2>6, <3>2, <3>3, <5>1, <5>2, <5>3 DEF BuildFine, Unborn, Building
        <4> QED
          BY <4>1
      <3>5. OtherFine(f)'
        <4>1. f.op # "delete"
          BY <1>7, <2>6 DEF Fine, OtherFine
        <4> QED
          BY <1>7, <4>1 DEF Fine, OtherFine
      <3>6. GateFine(u, f)' /\ HeldFine(f)'
        BY <1>7, <2>3, <2>6, <3>2, <3>3 DEF Fine, GateFine, HeldFine, Building, Holding
      <3> QED
        BY <1>7, <3>4, <3>5, <3>6 DEF Fine
    <2> QED
      BY <2>5, <2>6
  <1> QED
    BY <1>3, <1>5, <1>7

LEMMA ClosingRuntime ==
    ASSUME NEW q \in Runtime, NEW r, r = [q EXCEPT !.life = "closing", !.closing = TRUE]
    PROVE  /\ r \in Runtime /\ r.life = "closing" /\ r.gate = q.gate
           /\ r.title = q.title /\ r.setting = q.setting /\ r.loose = q.loose
  BY DEF Runtime, Lifecycle

LEMMA BeginClosingStep ==
    ASSUME HostInv, NEW t \in Workers, BeginClosing(t)
    PROVE  HostInv'
  <1>0. HostTypes
    BY DEF HostInv
  <1>1. PICK top : top = Top(t)
    OBVIOUS
  <1>2. /\ Busy(t) /\ top \in Frame /\ top.op = "close" /\ top.at = "creation" /\ Fine(t, top)
        /\ UNCHANGED <<sessions, pending, built, disk, deleted>>
    BY <1>1, AtIs DEF BeginClosing
  <1>3. top.held # 0 /\ ~top.reserved /\ Holding(top)
    BY <1>2 DEF Fine, OtherFine, Holding
  <1>4. PICK q : q = Now(t)
    OBVIOUS
  <1>5. /\ top.id \in Ids /\ top.held \in 1..MaxBuilds /\ q \in Runtime
        /\ q = runtimes[top.id][top.held] /\ q.life \in {"active", "closing"}
    <2>1. /\ top.id \in Ids /\ top.held \in 1..MaxBuilds /\ q \in Runtime
          /\ q = runtimes[top.id][top.held]
      BY <1>0, <1>1, <1>2, <1>3, <1>4, HeldIs DEF Now
    <2> QED
      BY <1>2, <1>3, <2>1 DEF Fine, GateFine
  <1>6. PICK r : r = [q EXCEPT !.life = "closing", !.closing = TRUE]
    OBVIOUS
  <1>7. /\ r \in Runtime /\ r.life = "closing" /\ r.gate = q.gate
        /\ r.title = q.title /\ r.setting = q.setting /\ r.loose = q.loose
    BY <1>5, <1>6, ClosingRuntime
  <1>8. Touch(top.id, top.held, r)
    BY <1>1, <1>4, <1>6 DEF BeginClosing
  <1>9. /\ Only(top.id) /\ (Seen(top.id) => Seen(top.id)') /\ StateTypes' /\ RegisteredAs(top.id)'
        /\ \A u \in Workers, f \in Frame : Fine(u, f) => Fine(u, f)'
    BY <1>2, <1>5, <1>7, <1>8, LifeMoves
  <1>10. PICK own : own = LiveChildren(top.id)
    OBVIOUS
  <1>11. own \in SUBSET Ids
    BY <1>10 DEF LiveChildren, Owned, Ids
  <1>12. PICK g : g = [top EXCEPT !.at = "children", !.kids = own]
    OBVIOUS
  <1>13. g \in Frame /\ g.at = "children" /\ Alike(top, g)
    BY <1>2, <1>11, <1>12, FrameMovesKids, AwaitsAre
  <1>14. Fine(t, g)
    BY <1>2, <1>13 DEF Alike, Fine, OtherFine, GateFine, HeldFine, Holding, Building
  <1>15. Within(g, top)
    BY <1>2, <1>3, <1>13 DEF Alike, Within, Unborn, Holding
  <1>16. Step(t, Len(stack[t]) - 1, <<g>>)
    BY <1>0, <1>1, <1>2, <1>10, <1>12, <1>13, GotoStep DEF BeginClosing
  <1>17. \A h \in Frame : h \in Frames /\ ~Clash(top, h) => ~Clash(g, h)
    BY <1>15, WithinKeeps
  <1> QED
    BY <1>1, <1>2, <1>5, <1>9, <1>13, <1>14, <1>16, <1>17, TopGoes

LEMMA FinishClosingStep ==
    ASSUME HostInv, NEW t \in Workers, FinishClosing(t)
    PROVE  HostInv'
  <1>0. HostTypes /\ Registered
    BY DEF HostInv
  <1>1. PICK top : top = Top(t)
    OBVIOUS
  <1>2. /\ Busy(t) /\ top \in Frame /\ top.op = "close" /\ top.at = "hook" /\ Fine(t, top)
        /\ UNCHANGED <<pending, built, disk, deleted>>
        /\ sessions' = [sessions EXCEPT ![top.id] = 0]
    BY <1>1, AtIs DEF FinishClosing
  <1>3. top.held # 0 /\ ~top.reserved /\ Holding(top) /\ ~Building(top)
    BY <1>2 DEF Fine, OtherFine, Holding, Building
  <1>4. PICK i, g : i = top.id /\ g = top.held
    OBVIOUS
  <1>5. /\ i \in Ids /\ g \in 1..MaxBuilds /\ runtimes[i][g] \in Runtime /\ Seen(i)
        /\ runtimes[i][g].life \in {"active", "closing"}
        /\ sessions[i] = g \/ (sessions[i] = 0 /\ ~disk[i].there)
    <2>1. /\ i \in Ids /\ g \in 1..MaxBuilds /\ runtimes[i][g] \in Runtime /\ Seen(i)
      BY <1>0, <1>1, <1>2, <1>3, <1>4, HeldIs
    <2>2. runtimes[i][g].life \in {"active", "closing"}
      BY <1>2, <1>3, <1>4 DEF Fine, GateFine
    <2> QED
      BY <1>2, <1>3, <1>4, <2>1, <2>2 DEF Fine, HeldFine
  <1>6. PICK r : r = [Unused EXCEPT !.closeRequested = TRUE, !.shutdown = TRUE, !.cancelled = TRUE]
    OBVIOUS
  <1>7. r \in Runtime /\ r.life = "closed" /\ r.closing = FALSE
    BY <1>6 DEF Unused, FreshRuntime, NoFile, Runtime, Lifecycle
  <1>8. Touch(i, g, r)
    BY <1>1, <1>4, <1>6 DEF FinishClosing
  <1>9. /\ runtimes' \in [Ids -> [1..MaxBuilds -> Runtime]] /\ runtimes'[i][g] = r
        /\ \A h \in 1..MaxBuilds : h # g => runtimes'[i][h] = runtimes[i][h]
        /\ \A j \in Ids \ {i} : runtimes'[j] = runtimes[j]
    BY <1>0, <1>5, <1>7, <1>8, TouchIs
  <1>10. /\ sessions' \in [Ids -> 0..MaxBuilds] /\ sessions'[i] = 0
         /\ \A j \in Ids \ {i} : sessions'[j] = sessions[j]
    BY <1>0, <1>2, <1>4, <1>5, HostAssumption DEF HostTypes
  <1>11. Only(i) /\ StateTypes' /\ (Seen(i) => Seen(i)')
    BY <1>0, <1>2, <1>9, <1>10 DEF Only, StateTypes, HostTypes, Seen
  <1>12. RegisteredAs(i)'
    <2>1. \A h \in 1..MaxBuilds : runtimes'[i][h].closing => runtimes'[i][h].life # "starting"
      BY <1>0, <1>5, <1>7, <1>9 DEF Registered
    <2>2. 0 <= built[i]
      BY <1>0, <1>5, HostAssumption DEF HostTypes
    <2> QED
      BY <1>2, <1>10, <2>1, <2>2 DEF RegisteredAs
  <1>13. ASSUME NEW u \in Workers, NEW f \in Frame, Fine(u, f), ~Clash(top, f), f.id = i
         PROVE  Fine(u, f)'
    <2>1. f.held # 0 => f.held \in 1..MaxBuilds
      BY <1>0, <1>13, HeldIs
    <2>2. ~Unborn(f)
      BY <1>5, <1>13 DEF Fine, BuildFine, Unborn
    <2>3. ~Building(f) /\ ~(f.op = "build" /\ f.at \in {"start", "checkpoint"})
      <3>1. ~Building(f)
        BY <1>5, <1>13, <2>1 DEF Fine, BuildFine, Building
      <3>2. ~(f.op = "build" /\ f.at \in {"start", "checkpoint"})
        BY <1>5, <1>13, <2>1 DEF Fine, BuildFine
      <3> QED
        BY <3>1, <3>2
    <2>4. Holding(f) => f.held # g /\ f.held # 0
      BY <1>3, <1>4, <1>13 DEF Clash, Holding, Fine, OtherFine
    <2>5. f.held # 0 => /\ runtimes[f.id][f.held].life # "starting"
                        /\ \/ runtimes[f.id][f.held].life = "closed"
                           \/ sessions[f.id] = f.held
                           \/ sessions[f.id] = 0 /\ ~disk[f.id].there
      BY <1>13, <2>3 DEF Fine, HeldFine
    <2>6. f.held # 0 /\ f.held # g => runtimes'[f.id][f.held] = runtimes[f.id][f.held]
      BY <1>9, <1>13, <2>1
    <2>7. f.held # 0 =>
            /\ runtimes'[f.id][f.held].life # "starting"
            /\ \/ runtimes'[f.id][f.held].life = "closed"
               \/ sessions'[f.id] = 0 /\ ~disk'[f.id].there
      BY <1>2, <1>5, <1>7, <1>9, <1>10, <1>13, <2>5, <2>6
    <2>8. f.op = "build" => BuildFine(f)'
      <3>1. ASSUME f.op = "build" PROVE BuildFine(f)'
        <4>1. BuildFine(f)
          BY <1>13, <3>1 DEF Fine
        <4>2. f.at = "name" => sessions'[f.id] = 0 /\ runtimes'[f.id][f.held].life = "closed"
          BY <1>5, <1>7, <1>9, <1>10, <1>13, <2>1, <2>6, <3>1, <4>1 DEF BuildFine
        <4>3. f.at # "owner"
          BY <2>3, <3>1, <4>1 DEF BuildFine, Building
        <4> QED
          BY <2>2, <2>3, <3>1, <4>1, <4>2, <4>3 DEF BuildFine, Building, Unborn
      <3> QED
        BY <3>1
    <2>9. OtherFine(f)'
      <3>1. \A k \in Ids : Seen(k) => Seen(k)'
        BY <1>2 DEF Seen
      <3>2. f.kids \in SUBSET Ids
        BY DEF Frame
      <3> QED
        BY <1>10, <1>13, <3>1, <3>2 DEF Fine, OtherFine
    <2>10. GateFine(u, f)'
      BY <1>13, <2>4, <2>6 DEF Fine, GateFine, Holding
    <2>11. HeldFine(f)'
      BY <2>7 DEF HeldFine
    <2> QED
      BY <1>2, <1>13, <2>8, <2>9, <2>10, <2>11 DEF Fine
  <1>14. \E o \in Outcomes : Return(t, o)
    <2>1. "error" \in Outcomes /\ "ok" \in Outcomes
      BY DEF Outcomes
    <2> QED
      BY <2>1 DEF FinishClosing
  <1> QED
    BY <1>1, <1>2, <1>4, <1>5, <1>11, <1>12, <1>13, <1>14, TopReturns

(***************************************************************************)
(* Renames and settings.                                                   *)
(***************************************************************************)
LEMMA RenameWaits ==
    ASSUME HostTypes, NEW t, NEW g \in Frame, g.op = "rename", g.at \in {"look", "closing", "wait"},
           g.held = 0, ~g.reserved
    PROVE  Fine(t, g) /\ Modest(g)
  <1>1. 0 <= built[g.id]
    BY HostAssumption DEF HostTypes, Frame
  <1> QED
    BY <1>1 DEF Fine, OtherFine, GateFine, HeldFine, Building, Unborn, Holding, Modest

LEMMA RenameStep ==
    ASSUME HostInv, NEW t \in Workers, NEW f \in Frame, f.op = "rename", f.held = 0, ~f.reserved,
           Rename(t, f), UNCHANGED <<sessions, runtimes, built, disk, deleted>>
    PROVE  HostInv'
  <1>0. HostTypes
    BY DEF HostInv
  <1>1. PICK i : i = f.id
    OBVIOUS
  <1>2. i \in Ids /\ stack[t] \in Seq(Frame)
    BY <1>0, <1>1 DEF Frame, HostTypes
  <1>3. ASSUME NEW g \in Frame, Fine(t, g), Modest(g), UNCHANGED pending,
               stack' = [stack EXCEPT ![t] = <<g>>]
        PROVE  HostInv'
    <2>1. PICK new \in Seq(Frame) : /\ new = <<g>> /\ Len(new) = 1 /\ new[1] = g
                                    /\ \A q \in 1..Len(new) : q = 1
      BY OneFrame
    <2>2. Step(t, 0, new)
      BY <1>0, <1>2, <1>3, <2>1, GrownAnew, StepFrom
    <2>3. UNCHANGED state
      BY <1>3 DEF state
    <2> QED
      BY <1>3, <2>1, <2>2, <2>3, QuietModest
  <1>4. CASE SessionOf(i) = "ok"
    <2>1. PICK n : n = sessions[i]
      OBVIOUS
    <2>2. n \in Nat
      BY <1>0, <1>2, <2>1, HostAssumption DEF HostTypes
    <2>3. PICK g : g = [f EXCEPT !.at = "lock", !.held = n]
      OBVIOUS
    <2>4. /\ g \in Frame /\ g.op = "rename" /\ g.at = "lock" /\ g.held = n /\ g.id = i
          /\ ~g.reserved
      <3>1. g \in Frame
        BY <2>2, <2>3, AwaitsAre DEF Frame
      <3> QED
        BY <1>1, <2>3, <3>1 DEF Frame
    <2>5. Fine(t, g) /\ Modest(g)
      BY <1>4, <2>1, <2>4, LiveFine
    <2>6. stack' = [stack EXCEPT ![t] = <<g>>] /\ UNCHANGED pending
      BY <1>1, <1>4, <2>1, <2>3 DEF Rename
    <2> QED
      BY <1>3, <2>4, <2>5, <2>6
  <1>5. ASSUME NEW a \in {"closing", "wait"}, UNCHANGED pending,
               stack' = [stack EXCEPT ![t] = <<[f EXCEPT !.at = a]>>]
        PROVE  HostInv'
    <2>1. PICK g : g = [f EXCEPT !.at = a]
      OBVIOUS
    <2>2. g \in Frame /\ g.at = a /\ Alike(f, g)
      BY <2>1, FrameMoves, AwaitsAre
    <2>3. Fine(t, g) /\ Modest(g)
      BY <1>0, <2>2, RenameWaits DEF Alike
    <2> QED
      BY <1>3, <1>5, <2>1, <2>2, <2>3
  <1>6. CASE stack' = [stack EXCEPT ![t] = <<>>] /\ UNCHANGED pending
    <2>1. PICK none \in Seq(Frame) : none = <<>> /\ \A k \in 1..Len(none) : FALSE
      BY NoFrames
    <2>2. Step(t, 0, none)
      BY <1>0, <1>2, <1>6, <2>1, GrownAnew, StepFrom
    <2>3. UNCHANGED state
      BY <1>6 DEF state
    <2> QED
      BY <2>1, <2>2, <2>3, QuietModest
  <1>7. CASE /\ Reservable(i) /\ disk[i].there /\ pending' = pending \cup {i}
             /\ stack' = [stack EXCEPT ![t] = <<[f EXCEPT !.at = "store", !.reserved = TRUE]>>]
    <2>1. PICK g : g = [f EXCEPT !.at = "store", !.reserved = TRUE]
      OBVIOUS
    <2>2. /\ g \in Frame /\ g.op = "rename" /\ g.at = "store" /\ g.held = 0 /\ g.id = i
          /\ g.reserved
      <3>1. g \in Frame
        BY <2>1, AwaitsAre DEF Frame
      <3> QED
        BY <1>1, <2>1, <3>1 DEF Frame
    <2>3. Fine(t, g)'
      <3>1. 0 <= built[i]
        BY <1>0, <1>2, HostAssumption DEF HostTypes
      <3> QED
        BY <1>7, <2>2, <3>1 DEF Fine, OtherFine, GateFine, HeldFine, Holding, Reservable
    <2>4. PICK new \in Seq(Frame) : /\ new = <<g>> /\ Len(new) = 1 /\ new[1] = g
                                    /\ \A q \in 1..Len(new) : q = 1
      BY <2>2, OneFrame
    <2>5. Step(t, 0, new)
      BY <1>0, <1>2, <1>7, <2>1, <2>2, <2>4, GrownAnew, StepFrom
    <2>6. ASSUME NEW h \in Frames PROVE ~Clash(g, h)
      <3>1. PICK u \in Workers : Fine(u, h)
        BY FramesFine
      <3> QED
        BY <1>7, <2>2, <3>1 DEF Clash, Fine, Reservable, Unborn, Holding
    <2>7. Apart(t, 0, new)
      BY <2>4, <2>6, ApartAll
    <2>8. Seen(i)
      BY <1>7 DEF Seen
    <2>9. /\ \A q \in 1..Len(new) : Fine(t, new[q]) \/ Fine(t, new[q])'
          /\ \A q, r \in 1..Len(new) : Clash(new[q], new[r]) => q = r
      BY <2>3, <2>4
    <2> QED
      BY <1>2, <1>7, <2>5, <2>7, <2>8, <2>9, FlagStep
  <1>8. SessionOf(i) \in {"ok", "notFound", "starting", "closing"}
    BY <1>0, <1>2, OutcomesAre
  <1> QED
    BY <1>1, <1>4, <1>5, <1>6, <1>7, <1>8 DEF Rename

LEMMA SetSessionTitleStep ==
    ASSUME HostInv, NEW t, NEW i \in Ids, SetSessionTitle(t, i)
    PROVE  HostInv'
  <1>1. t \in Workers /\ UNCHANGED <<sessions, runtimes, built, disk, deleted>>
    BY IdleIs DEF SetSessionTitle
  <1>2. PICK f : f = Call("rename", "none", "look", i)
    OBVIOUS
  <1>3. f \in Frame /\ f.op = "rename" /\ f.held = 0 /\ ~f.reserved
    BY <1>2, AwaitsAre DEF Call, Frame, Outcomes
  <1> QED
    BY <1>1, <1>2, <1>3, RenameStep DEF SetSessionTitle

LEMMA RenameAgainStep ==
    ASSUME HostInv, NEW t \in Workers, RenameAgain(t)
    PROVE  HostInv'
  <1>1. PICK top : top = Top(t)
    OBVIOUS
  <1>2. /\ top \in Frame /\ top.op = "rename" /\ top.at = "look" /\ Fine(t, top)
        /\ UNCHANGED <<sessions, runtimes, built, disk, deleted>>
    BY <1>1, AtIs DEF RenameAgain
  <1>3. PICK f : f = [top EXCEPT !.held = 0]
    OBVIOUS
  <1>4. f \in Frame /\ f.op = "rename" /\ f.held = 0 /\ f.reserved = top.reserved
    BY <1>2, <1>3 DEF Frame
  <1>5. ~f.reserved
    BY <1>2, <1>4 DEF Fine, OtherFine
  <1> QED
    BY <1>1, <1>2, <1>3, <1>4, <1>5, RenameStep DEF RenameAgain

LEMMA RenameStoredStep ==
    ASSUME HostInv, NEW t \in Workers, RenameStored(t)
    PROVE  HostInv'
  <1>0. HostTypes /\ Registered
    BY DEF HostInv
  <1>1. PICK top : top = Top(t)
    OBVIOUS
  <1>2. /\ Busy(t) /\ top \in Frame /\ top.op = "rename" /\ top.at = "store" /\ Fine(t, top)
        /\ UNCHANGED <<sessions, runtimes, built, deleted>>
        /\ disk' = [disk EXCEPT ![top.id].title = TRUE]
        /\ Unreserve(top) /\ Return(t, "ok") /\ "ok" \in Outcomes
    BY <1>1, AtIs DEF RenameStored, Outcomes
  <1>3. top.id \in Ids /\ top.reserved /\ sessions[top.id] = 0
    BY <1>0, <1>2, HeldIs DEF Fine, OtherFine
  <1>4. pending' = pending \ {top.id}
    BY <1>2, <1>3 DEF Unreserve
  <1>5. /\ disk' \in [Ids -> [there : BOOLEAN, title : BOOLEAN, setting : BOOLEAN]]
        /\ disk'[top.id].there = disk[top.id].there
        /\ \A j \in Ids \ {top.id} : disk'[j] = disk[j]
    BY <1>0, <1>2, <1>3, TitleWritten
  <1>6. Only(top.id) /\ StateTypes' /\ (Seen(top.id) => Seen(top.id)')
    BY <1>0, <1>2, <1>3, <1>4, <1>5 DEF Only, StateTypes, HostTypes, Seen
  <1>7. RegisteredAs(top.id)'
    BY <1>0, <1>2, <1>3 DEF Registered, RegisteredAs
  <1>8. \A g \in 1..MaxBuilds : /\ runtimes'[top.id][g] = runtimes[top.id][g]
                                /\ sessions'[top.id] = sessions[top.id]
                                /\ ~disk[top.id].there => ~disk'[top.id].there
    BY <1>2, <1>5
  <1> QED
    BY <1>1, <1>2, <1>3, <1>6, <1>7, <1>8, ReservedReturns

\* A call writes to the open runtime it holds and to its file.
LEMMA LiveWrites ==
    ASSUME HostInv, NEW t \in Workers, Busy(t), NEW top, top = Top(t),
           top.op \in {"rename", "set"}, top.at \in {"lock", "signin"},
           Now(t).life # "closed", NEW r \in Runtime, Touch(top.id, top.held, r),
           r.life = Now(t).life, r.gate = Now(t).gate, r.closing = Now(t).closing,
           disk' \in [Ids -> [there : BOOLEAN, title : BOOLEAN, setting : BOOLEAN]],
           disk'[top.id].there = disk[top.id].there,
           \A j \in Ids \ {top.id} : disk'[j] = disk[j],
           Matches(Now(t), disk[top.id]) => Matches(r, disk'[top.id]),
           UNCHANGED <<sessions, pending, built, deleted>>, Return(t, "ok")
    PROVE  HostInv'
  <1>0. HostTypes /\ Registered
    BY DEF HostInv
  <1>1. top \in Frame /\ Fine(t, top)
    BY TopIs DEF HostInv
  <1>2. top.held # 0 /\ ~top.reserved
    BY <1>1 DEF Fine, OtherFine
  <1>3. PICK i, g : i = top.id /\ g = top.held
    OBVIOUS
  <1>4. /\ i \in Ids /\ g \in 1..MaxBuilds /\ Now(t) = runtimes[i][g]
        /\ sessions[i] = g \/ (sessions[i] = 0 /\ ~disk[i].there)
    <2>1. i \in Ids /\ g \in 1..MaxBuilds /\ Now(t) = runtimes[i][g]
      BY <1>0, <1>1, <1>2, <1>3, HeldIs DEF Now
    <2>2. \/ runtimes[top.id][top.held].life = "closed"
          \/ sessions[top.id] = top.held
          \/ sessions[top.id] = 0 /\ ~disk[top.id].there
      BY <1>1, <1>2, PlainIs
    <2> QED
      BY <1>3, <2>1, <2>2
  <1>5. /\ runtimes' \in [Ids -> [1..MaxBuilds -> Runtime]] /\ runtimes'[i][g] = r
        /\ \A h \in 1..MaxBuilds : h # g => runtimes'[i][h] = runtimes[i][h]
        /\ \A j \in Ids \ {i} : runtimes'[j] = runtimes[j]
    BY <1>0, <1>3, <1>4, TouchIs
  <1>6. Only(i) /\ StateTypes' /\ (Seen(i) => Seen(i)')
    BY <1>0, <1>3, <1>5 DEF Only, StateTypes, HostTypes, Seen
  <1>7. RegisteredAs(i)'
    <2>1. sessions[i] # 0 => Matches(runtimes[i][sessions[i]], disk[i]) /\ sessions[i] = g
      BY <1>0, <1>4 DEF Registered
    <2>2. sessions[i] # 0 => Matches(runtimes'[i][sessions[i]], disk'[i])
      BY <1>3, <1>4, <1>5, <2>1
    <2>3. \A h \in 1..MaxBuilds : runtimes'[i][h].closing => runtimes'[i][h].life # "starting"
      BY <1>0, <1>4, <1>5 DEF Registered
    <2>4. sessions[i] <= built[i]
      BY <1>0, <1>4 DEF Registered
    <2>5. sessions'[i] = sessions[i] /\ built'[i] = built[i]
      OBVIOUS
    <2>6. sessions'[i] # 0 => Matches(runtimes[i][sessions[i]], disk[i])'
      BY <2>2, <2>5
    <2> QED
      BY <2>3, <2>4, <2>5, <2>6 DEF RegisteredAs
  <1>8. Remembered
    BY <1>4, <1>6, OnlyRemembers
  <1>9. ASSUME NEW u \in Workers, NEW f \in Frame, Fine(u, f), f.id = i
        PROVE  Fine(u, f)'
    <2>1. f.held # 0 => f.held \in 1..MaxBuilds
      BY <1>0, <1>9, HeldIs
    <2>2. ~Building(f)
      BY <1>4, <1>9, <2>1 DEF Fine, BuildFine, Building
    <2>3. Holding(f) => f.held # 0
      BY <1>9 DEF Holding, Fine, OtherFine
    <2>4. f.held # 0 => /\ runtimes'[f.id][f.held].life = runtimes[f.id][f.held].life
                        /\ runtimes'[f.id][f.held].gate = runtimes[f.id][f.held].gate
      BY <1>4, <1>5, <1>9, <2>1
    <2>5. Unborn(f) => f.id \notin pending
      BY <1>9 DEF Fine, BuildFine, Unborn
    <2>6. Untouched(f)
      BY <1>3, <1>9, <2>2, <2>3, <2>4, <2>5 DEF Untouched, Fine
    <2> QED
      BY <1>8, <1>9, <2>6, FineUntouched
  <1>10. "ok" \in Outcomes
    BY DEF Outcomes
  <1> QED
    BY <1>4, <1>6, <1>7, <1>9, <1>10, TopReturns

LEMMA RenameLiveStep ==
    ASSUME HostInv, NEW t \in Workers, RenameLive(t)
    PROVE  HostInv'
  <1>0. HostTypes
    BY DEF HostInv
  <1>1. PICK top : top = Top(t)
    OBVIOUS
  <1>2. /\ Busy(t) /\ top \in Frame /\ top.op = "rename" /\ top.at = "lock" /\ Fine(t, top)
        /\ UNCHANGED <<sessions, pending, built, deleted>>
    BY <1>1, AtIs DEF RenameLive
  <1>3. CASE Now(t).life = "closed"
    <2>1. UNCHANGED state /\ Goto(t, [Top(t) EXCEPT !.at = "look"])
      BY <1>3 DEF RenameLive, state
    <2> QED
      BY <1>1, <1>2, <2>1, LookAgain
  <1>4. CASE Now(t).life # "closed"
    <2>1. PICK q : q = Now(t)
      OBVIOUS
    <2>2. q \in Runtime /\ top.id \in Ids
      <3>1. top.held # 0
        BY <1>2 DEF Fine, OtherFine
      <3> QED
        BY <1>0, <1>1, <1>2, <2>1, <3>1, HeldIs DEF Now
    <2>3. PICK r : r = [q EXCEPT !.title = TRUE]
      OBVIOUS
    <2>4. /\ r \in Runtime /\ r.life = q.life /\ r.gate = q.gate /\ r.closing = q.closing
          /\ r.title = TRUE /\ r.setting = q.setting /\ r.loose = q.loose
      BY <2>2, <2>3, TitledRuntime
    <2>5. /\ Touch(top.id, top.held, r) /\ Return(t, "ok")
          /\ disk' = IF disk[top.id].there /\ ~q.loose
                     THEN [disk EXCEPT ![top.id].title = TRUE] ELSE disk
      BY <1>1, <1>4, <2>1, <2>3 DEF RenameLive
    <2>6. /\ disk' \in [Ids -> [there : BOOLEAN, title : BOOLEAN, setting : BOOLEAN]]
          /\ disk'[top.id].there = disk[top.id].there
          /\ \A j \in Ids \ {top.id} : disk'[j] = disk[j]
          /\ disk[top.id].there /\ ~q.loose =>
                disk'[top.id].title = TRUE /\ disk'[top.id].setting = disk[top.id].setting
      <3>1. CASE disk[top.id].there /\ ~q.loose
        <4>1. disk' = [disk EXCEPT ![top.id].title = TRUE]
          BY <2>5, <3>1
        <4> QED
          BY <1>0, <2>2, <4>1, TitleWritten
      <3>2. CASE ~disk[top.id].there \/ q.loose
        BY <1>0, <2>5, <3>2 DEF HostTypes
      <3> QED
        BY <3>1, <3>2
    <2>7. Matches(q, disk[top.id]) => Matches(r, disk'[top.id])
      BY <2>4, <2>6 DEF Matches
    <2>8. /\ Matches(Now(t), disk[top.id]) => Matches(r, disk'[top.id])
          /\ r.life = Now(t).life /\ r.gate = Now(t).gate /\ r.closing = Now(t).closing
      BY <2>1, <2>4, <2>7
    <2>9. top.op \in {"rename", "set"} /\ top.at \in {"lock", "signin"} /\ r \in Runtime
      BY <1>2, <2>4
    <2>10. /\ Touch(top.id, top.held, r) /\ Return(t, "ok")
           /\ disk' \in [Ids -> [there : BOOLEAN, title : BOOLEAN, setting : BOOLEAN]]
           /\ disk'[top.id].there = disk[top.id].there
           /\ \A j \in Ids \ {top.id} : disk'[j] = disk[j]
      BY <2>5, <2>6
    <2> QED
      BY <1>1, <1>2, <1>4, <2>8, <2>9, <2>10, LiveWrites
  <1> QED
    BY <1>3, <1>4

LEMMA PersistSettingStep ==
    ASSUME HostInv, NEW t \in Workers, PersistSetting(t)
    PROVE  HostInv'
  <1>0. HostTypes
    BY DEF HostInv
  <1>1. PICK top : top = Top(t)
    OBVIOUS
  <1>2. /\ Busy(t) /\ top \in Frame /\ top.op = "set" /\ top.at = "signin" /\ Fine(t, top)
        /\ UNCHANGED <<sessions, pending, built, deleted>>
    BY <1>1, AtIs DEF PersistSetting
  <1>3. CASE Now(t).life = "closed"
    <2>1. UNCHANGED state /\ Return(t, "closing") /\ "closing" \in Outcomes
      BY <1>3 DEF PersistSetting, state, Outcomes
    <2> QED
      BY <1>2, <2>1, QuietReturn
  <1>4. CASE Now(t).life # "closed"
    <2>1. PICK q : q = Now(t)
      OBVIOUS
    <2>2. q \in Runtime /\ top.id \in Ids
      <3>1. top.held # 0
        BY <1>2 DEF Fine, OtherFine
      <3> QED
        BY <1>0, <1>1, <1>2, <2>1, <3>1, HeldIs DEF Now
    <2>3. PICK r : r = [q EXCEPT !.setting = TRUE]
      OBVIOUS
    <2>4. /\ r \in Runtime /\ r.life = q.life /\ r.gate = q.gate /\ r.closing = q.closing
          /\ r.setting = TRUE /\ r.title = q.title /\ r.loose = q.loose
      BY <2>2, <2>3, SetRuntime
    <2>5. /\ Touch(top.id, top.held, r) /\ Return(t, "ok")
          /\ disk' = IF disk[top.id].there /\ ~q.loose
                     THEN [disk EXCEPT ![top.id].setting = TRUE] ELSE disk
      BY <1>1, <1>4, <2>1, <2>3 DEF PersistSetting
    <2>6. /\ disk' \in [Ids -> [there : BOOLEAN, title : BOOLEAN, setting : BOOLEAN]]
          /\ disk'[top.id].there = disk[top.id].there
          /\ \A j \in Ids \ {top.id} : disk'[j] = disk[j]
          /\ disk[top.id].there /\ ~q.loose =>
                disk'[top.id].setting = TRUE /\ disk'[top.id].title = disk[top.id].title
      <3>1. CASE disk[top.id].there /\ ~q.loose
        <4>1. disk' = [disk EXCEPT ![top.id].setting = TRUE]
          BY <2>5, <3>1
        <4> QED
          BY <1>0, <2>2, <4>1, SettingWritten
      <3>2. CASE ~disk[top.id].there \/ q.loose
        BY <1>0, <2>5, <3>2 DEF HostTypes
      <3> QED
        BY <3>1, <3>2
    <2>7. Matches(q, disk[top.id]) => Matches(r, disk'[top.id])
      BY <2>4, <2>6 DEF Matches
    <2>8. /\ Matches(Now(t), disk[top.id]) => Matches(r, disk'[top.id])
          /\ r.life = Now(t).life /\ r.gate = Now(t).gate /\ r.closing = Now(t).closing
      BY <2>1, <2>4, <2>7
    <2>9. top.op \in {"rename", "set"} /\ top.at \in {"lock", "signin"} /\ r \in Runtime
      BY <1>2, <2>4
    <2>10. /\ Touch(top.id, top.held, r) /\ Return(t, "ok")
           /\ disk' \in [Ids -> [there : BOOLEAN, title : BOOLEAN, setting : BOOLEAN]]
           /\ disk'[top.id].there = disk[top.id].there
           /\ \A j \in Ids \ {top.id} : disk'[j] = disk[j]
      BY <2>5, <2>6
    <2> QED
      BY <1>1, <1>2, <1>4, <2>8, <2>9, <2>10, LiveWrites
  <1> QED
    BY <1>3, <1>4

(***************************************************************************)
(* A future is dropped.                                                    *)
(***************************************************************************)
LEMMA MineIs ==
    ASSUME HostInv, NEW t \in Workers, NEW k \in 1..Len(stack[t]), NEW m, m = stack[t][k]
    PROVE  /\ m \in Frame /\ Fine(t, m)
           /\ \E p \in 1..Len(stack[t]) : m = Nth(stack[t], p)
  <1>1. stack[t] \in Seq(Frame) /\ Len(stack[t]) \in Nat
    BY DEF HostInv, HostTypes
  <1>2. PICK p \in 1..Len(stack[t]) : k = Len(stack[t]) + 1 - p
    <2>1. Len(stack[t]) + 1 - k \in 1..Len(stack[t])
      BY <1>1
    <2>2. k = Len(stack[t]) + 1 - (Len(stack[t]) + 1 - k)
      BY <1>1
    <2> QED
      BY <2>1, <2>2
  <1>3. m = Nth(stack[t], p)
    BY <1>2 DEF Nth
  <1>4. m \in Frame
    BY <1>1, <1>3, NthType
  <1>5. Fine(t, m)
    BY <1>3 DEF HostInv, CallsFine
  <1> QED
    BY <1>3, <1>4, <1>5

LEMMA DroppedRuntime ==
    ASSUME NEW q \in Runtime, NEW r,
           r = [q EXCEPT !.gate = Free, !.running = FALSE, !.closing = FALSE]
    PROVE  /\ r \in Runtime /\ r.life = q.life /\ r.gate = Free /\ r.closing = FALSE
           /\ r.title = q.title /\ r.setting = q.setting /\ r.loose = q.loose
  BY DEF Runtime

\* The call of a build that a drop takes back has the reservation of its id, and
\* nobody else the runtime, unless it is closed.
LEMMA TakenBack ==
    ASSUME HostInv, NEW t, NEW m \in Frame, Fine(t, m), m.op = "build", m.reserved, m.held # 0,
           sessions[m.id] # m.held
    PROVE  \/ runtimes[m.id][m.held].life = "starting"
           \/ runtimes[m.id][m.held].life = "closed"
  BY DEF Fine, BuildFine, Building

LEMMA DropCallStep ==
    ASSUME HostInv, NEW t \in Tasks, DropCall(t)
    PROVE  HostInv'
  <1>0. HostTypes /\ Registered /\ CallsFine /\ NoClash
    BY DEF HostInv
  <1>1. t \in Workers /\ Busy(t) /\ UNCHANGED <<sessions, built, disk, deleted>>
    BY DEF DropCall, Workers
  <1>2. PICK mine : mine = {stack[t][k] : k \in 1..Len(stack[t])}
    OBVIOUS
  <1>3. ASSUME NEW m \in mine
        PROVE  /\ m \in Frame /\ Fine(t, m)
               /\ \E p \in 1..Len(stack[t]) : m = Nth(stack[t], p)
    BY <1>1, <1>2, MineIs
  <1>4. ASSUME NEW m \in mine, NEW u \in Workers \ {t}, NEW p \in 1..Len(stack[u]), NEW f,
               f = Nth(stack[u], p)
        PROVE  ~Clash(m, f)
    <2>1. PICK k \in 1..Len(stack[t]) : m = Nth(stack[t], k)
      BY <1>3
    <2> QED
      BY <1>0, <1>1, <1>4, <2>1 DEF NoClash
  <1> DEFINE Back(i, g) == /\ sessions[i] # g
                           /\ \E m \in mine : m.op = "build" /\ m.reserved /\ m.id = i /\ m.held = g
             E(i, g) == IF runtimes[i][g].gate = t
                        THEN [runtimes[i][g] EXCEPT !.gate = Free, !.running = FALSE,
                                                    !.closing = FALSE]
                        ELSE runtimes[i][g]
  <1>5. runtimes' = [i \in Ids |-> [g \in 1..MaxBuilds |-> IF Back(i, g) THEN Unused ELSE E(i, g)]]
    BY <1>2 DEF DropCall
  <1>6. pending' = pending \ {m.id : m \in {m \in mine : m.reserved}}
    BY <1>2 DEF DropCall
  <1>7. ASSUME NEW i \in Ids, NEW g \in 1..MaxBuilds
        PROVE  /\ runtimes'[i][g] \in Runtime
               /\ Back(i, g) => runtimes'[i][g] = Unused
               /\ ~Back(i, g) =>
                    /\ runtimes'[i][g].life = runtimes[i][g].life
                    /\ runtimes'[i][g].title = runtimes[i][g].title
                    /\ runtimes'[i][g].setting = runtimes[i][g].setting
                    /\ runtimes'[i][g].loose = runtimes[i][g].loose
                    /\ runtimes'[i][g].closing => runtimes[i][g].closing
                    /\ runtimes[i][g].gate # t => runtimes'[i][g].gate = runtimes[i][g].gate
    <2>1. runtimes'[i][g] = IF Back(i, g) THEN Unused ELSE E(i, g)
      BY <1>5
    <2>2. runtimes[i][g] \in Runtime
      BY <1>0 DEF HostTypes
    <2>3. PICK q : q = runtimes[i][g]
      OBVIOUS
    <2>4. PICK e : e = [q EXCEPT !.gate = Free, !.running = FALSE, !.closing = FALSE]
      OBVIOUS
    <2>5. /\ e \in Runtime /\ e.life = q.life /\ e.closing = FALSE
          /\ e.title = q.title /\ e.setting = q.setting /\ e.loose = q.loose
      BY <2>2, <2>3, <2>4, DroppedRuntime, ZenonT(60)
    <2>6. E(i, g) = IF q.gate = t THEN e ELSE q
      BY <2>3, <2>4
    <2> HIDE DEF E, Back
    <2> QED
      BY <2>1, <2>2, <2>3, <2>5, <2>6, UnusedIs
  <1>8. runtimes' \in [Ids -> [1..MaxBuilds -> Runtime]]
    BY <1>5, <1>7
  <1> HIDE DEF E
  <1>9. StateTypes'
    BY <1>0, <1>1, <1>6, <1>8 DEF StateTypes, HostTypes
  <1>10. Registered'
    <2>1. ASSUME NEW i \in Ids
          PROVE  /\ sessions[i] <= built[i]
                 /\ sessions[i] # 0 => Matches(runtimes'[i][sessions[i]], disk[i])
                 /\ \A g \in 1..MaxBuilds : runtimes'[i][g].closing => runtimes'[i][g].life # "starting"
      <3>1. sessions[i] # 0 => sessions[i] \in 1..MaxBuilds /\ ~Back(i, sessions[i])
        BY <1>0, HostAssumption DEF HostTypes
      <3>2. sessions[i] # 0 => Matches(runtimes'[i][sessions[i]], disk[i])
        BY <1>0, <1>7, <3>1 DEF Registered, Matches
      <3>3. \A g \in 1..MaxBuilds : runtimes'[i][g].closing => runtimes'[i][g].life # "starting"
        BY <1>0, <1>7, UnusedIs DEF Registered
      <3> QED
        BY <1>0, <3>2, <3>3 DEF Registered
    <2> QED
      BY <1>1, <2>1 DEF Registered
  <1>11. Remembered
    BY <1>1 DEF Remembered, Seen
  <1>12. ASSUME NEW u \in Workers \ {t}, NEW p \in 1..Len(stack[u]), NEW f \in Frame,
                f = Nth(stack[u], p)
         PROVE  Fine(u, f)'
    <2>1. Fine(u, f)
      BY <1>0, <1>12 DEF CallsFine
    <2>2. f.id \in Ids /\ (f.held # 0 => f.held \in 1..MaxBuilds)
      BY <1>0, <2>1, HeldIs
    <2>3. f.reserved => f.id \in pending'
      <3>1. ASSUME NEW m \in mine, m.reserved, m.id = f.id, f.reserved PROVE FALSE
        <4>1. Clash(m, f)
          BY <3>1 DEF Clash
        <4> QED
          BY <1>4, <1>12, <4>1
      <3> QED
        BY <1>6, <2>1, <3>1 DEF Fine
    <2>4. Unborn(f) => f.id \notin pending'
      BY <1>6, <2>1 DEF Fine, BuildFine, Unborn
    <2>5. ASSUME f.held # 0, Back(f.id, f.held)
          PROVE  ~f.reserved /\ runtimes[f.id][f.held].life = "closed"
      <3>1. PICK m \in mine : m.op = "build" /\ m.reserved /\ m.id = f.id /\ m.held = f.held
        BY <2>5
      <3>2. ~Clash(m, f)
        BY <1>4, <1>12
      <3>3. ~f.reserved
        BY <3>1, <3>2 DEF Clash
      <3>4. runtimes[f.id][f.held].life # "starting"
        BY <2>1, <2>5, <3>3, PlainIs
      <3>5. m \in Frame /\ Fine(t, m)
        BY <1>3
      <3>6. sessions[m.id] # m.held
        BY <2>5, <3>1
      <3> QED
        BY <2>5, <3>1, <3>3, <3>4, <3>5, <3>6, TakenBack
    <2>6. Holding(f) \/ Building(f) => f.held # 0
      BY <2>1 DEF Holding, Building, Fine, OtherFine
    <2>7. Building(f) => f.reserved
      BY <2>1 DEF Fine, BuildFine, Building
    <2>8. Holding(f) => /\ runtimes[f.id][f.held].gate = u
                        /\ runtimes[f.id][f.held].life \in {"active", "closing"}
      BY <2>1 DEF Fine, GateFine
    <2>9. f.held # 0 => runtimes'[f.id][f.held].life = runtimes[f.id][f.held].life
      BY <1>7, <2>2, <2>5, UnusedIs
    <2>10. Holding(f) => runtimes'[f.id][f.held].gate = runtimes[f.id][f.held].gate
      <3>1. ASSUME Holding(f) PROVE ~Back(f.id, f.held)
        BY <2>5, <2>6, <2>8, <3>1
      <3> QED
        BY <1>7, <1>12, <2>2, <2>6, <2>8, <3>1
    <2>11. Building(f) => /\ runtimes'[f.id][f.held].title = runtimes[f.id][f.held].title
                          /\ runtimes'[f.id][f.held].setting = runtimes[f.id][f.held].setting
                          /\ runtimes'[f.id][f.held].loose = runtimes[f.id][f.held].loose
      <3>1. ASSUME Building(f) PROVE ~Back(f.id, f.held)
        BY <2>5, <2>6, <2>7, <3>1
      <3> QED
        BY <1>7, <2>2, <2>6, <3>1
    <2>12. Untouched(f)
      BY <1>1, <2>3, <2>4, <2>9, <2>10, <2>11 DEF Untouched
    <2> QED
      BY <1>11, <2>1, <2>12, FineUntouched
  <1>13. PICK none \in Seq(Frame) : none = <<>> /\ \A k \in 1..Len(none) : FALSE
    BY NoFrames
  <1>14. Step(t, 0, none)
    <2>1. PICK failed : /\ failed \subseteq {u \in Workers \ {t} : Busy(u)}
                        /\ stack' = [u \in Workers |-> CASE u = t -> <<>>
                                                         [] u \in failed -> After(stack[u], "error", 0)
                                                         [] OTHER -> stack[u]]
      <3> DEFINE Waiting == {u \in Workers \ {t} : \E f \in mine :
                      f.op = "run" /\ f.at # "gate" /\ Joined(u, f.id, f.held)
                        /\ runtimes[f.id][f.held].gate = t}
      <3>1. Waiting \subseteq {u \in Workers \ {t} : Busy(u)}
        BY DEF Joined, At
      <3>2. \E failed \in SUBSET Waiting :
               stack' = [u \in Workers |-> CASE u = t -> <<>>
                                             [] u \in failed -> After(stack[u], "error", 0)
                                             [] OTHER -> stack[u]]
        BY <1>2 DEF DropCall
      <3> HIDE DEF Waiting
      <3> QED
        BY <3>1, <3>2
    <2>2. stack' = [u \in Workers |-> stack'[u]]
      BY <2>1
    <2>3. /\ stack'[t] = <<>>
          /\ \A u \in Workers \ {t} :
                stack'[u] = IF u \in failed THEN After(stack[u], "error", 0) ELSE stack[u]
      BY <1>1, <2>1
    <2>4. \A u \in Workers : u \in failed => Busy(u)
      BY <2>1
    <2>5. "error" \in Outcomes /\ 0 \in Nat
      BY DEF Outcomes
    <2>6. Grown(stack[t], 0, none, <<>>)
      <3>1. stack[t] \in Seq(Frame)
        BY <1>0, <1>1 DEF HostTypes
      <3> QED
        BY <1>13, <3>1, GrownAnew
    <2>7. PICK x : x = <<>>
      OBVIOUS
    <2> QED
      BY <1>0, <1>1, <2>2, <2>3, <2>4, <2>5, <2>6, <2>7, OthersReturn
  <1>15. HostTypes'
    BY <1>9, <1>14 DEF Step, StateTypes, HostTypes
  <1>16. ASSUME NEW u \in Workers, NEW p \in 1..Len(stack[u]), NEW f \in Frame,
                u # t \/ p <= 0, f = Nth(stack[u], p)
         PROVE  Fine(u, f)' /\ \A q \in 1..Len(none) : ~Clash(none[q], f)
    <2>1. Len(stack[u]) \in Nat
      BY <1>0 DEF HostTypes
    <2>2. u \in Workers \ {t}
      BY <1>16, <2>1
    <2> QED
      BY <1>12, <1>13, <1>16, <2>2
  <1>17. /\ \A q \in 1..Len(none) : Fine(t, none[q])'
         /\ \A q, r \in 1..Len(none) : Clash(none[q], none[r]) => q = r
    BY <1>13
  <1>18. CallsFine' /\ NoClash'
    BY <1>0, <1>1, <1>14, <1>15, <1>16, <1>17, Preserve
  <1> QED
    BY <1>10, <1>15, <1>18 DEF HostInv

(***************************************************************************)
(* The invariant.                                                          *)
(***************************************************************************)
LEMMA InitHolds ==
    ASSUME Init
    PROVE  HostInv
  <1>1. PICK files \in {{Main}, {Main} \cup Children, Children} :
        \E live \in SUBSET (files \cap {Main}) :
         /\ disk = [i \in Ids |-> IF i \in files THEN NewFile ELSE NoFile]
         /\ built = [i \in Ids |-> IF i \in live THEN 1 ELSE 0]
         /\ sessions = built
         /\ runtimes = [i \in Ids |-> [g \in 1..MaxBuilds |->
              IF i \in live /\ g = 1 THEN [FreshRuntime(0, NewFile) EXCEPT !.life = "active"]
              ELSE Unused]]
    BY DEF Init
  <1>2. PICK live \in SUBSET (files \cap {Main}) :
         /\ disk = [i \in Ids |-> IF i \in files THEN NewFile ELSE NoFile]
         /\ built = [i \in Ids |-> IF i \in live THEN 1 ELSE 0]
         /\ sessions = built
         /\ runtimes = [i \in Ids |-> [g \in 1..MaxBuilds |->
              IF i \in live /\ g = 1 THEN [FreshRuntime(0, NewFile) EXCEPT !.life = "active"]
              ELSE Unused]]
    BY <1>1
  <1>3. PICK r : r = [FreshRuntime(0, NewFile) EXCEPT !.life = "active"]
    OBVIOUS
  <1>4. /\ r \in Runtime /\ r.life = "active" /\ r.closing = FALSE
        /\ r.title = FALSE /\ r.setting = FALSE
    BY <1>3 DEF FreshRuntime, NewFile, NoFile, Runtime, Lifecycle
  <1>5. NewFile.title = FALSE /\ NewFile.setting = FALSE
    BY DEF NewFile, NoFile
  <1>6. \A i \in Ids : /\ disk[i] \in File /\ disk[i] = (IF i \in files THEN NewFile ELSE NoFile)
                       /\ sessions[i] = built[i] /\ sessions[i] = (IF i \in live THEN 1 ELSE 0)
                       /\ sessions[i] \in 0..MaxBuilds
    BY <1>2, FilesAre, HostAssumption
  <1>7. \A i \in Ids : \A g \in 1..MaxBuilds :
            /\ runtimes[i][g] \in Runtime
            /\ runtimes[i][g] = IF i \in live /\ g = 1 THEN r ELSE Unused
    BY <1>2, <1>3, <1>4, UnusedIs
  <1>8. stack = [t \in Workers |-> <<>>] /\ pending = {} /\ deleted = {}
    BY DEF Init
  <1>9. HostTypes
    <2>1. /\ sessions \in [Ids -> 0..MaxBuilds] /\ built \in [Ids -> 0..MaxBuilds]
      BY <1>2, HostAssumption
    <2>2. runtimes \in [Ids -> [1..MaxBuilds -> Runtime]]
      BY <1>2, <1>3, <1>4, UnusedIs
    <2>3. disk \in [Ids -> [there : BOOLEAN, title : BOOLEAN, setting : BOOLEAN]]
      BY <1>2, FilesAre DEF File
    <2>4. stack \in [Workers -> Seq(Frame)]
      BY <1>8
    <2> QED
      BY <1>8, <2>1, <2>2, <2>3, <2>4 DEF HostTypes
  <1>10. Registered
    <2>1. ASSUME NEW i \in Ids
          PROVE  /\ sessions[i] <= built[i]
                 /\ sessions[i] # 0 => Matches(runtimes[i][sessions[i]], disk[i])
                 /\ \A g \in 1..MaxBuilds : runtimes[i][g].closing => runtimes[i][g].life # "starting"
      <3>1. sessions[i] <= built[i]
        BY <1>6, HostAssumption
      <3>2. \A g \in 1..MaxBuilds : runtimes[i][g].closing => runtimes[i][g].life # "starting"
        BY <1>4, <1>7, UnusedIs
      <3>3. ASSUME sessions[i] # 0 PROVE Matches(runtimes[i][sessions[i]], disk[i])
        <4>1. sessions[i] = 1 /\ i \in live /\ i \in files /\ 1 \in 1..MaxBuilds
          BY <1>6, <3>3, HostAssumption
        <4>2. runtimes[i][sessions[i]] = r /\ disk[i] = NewFile
          BY <1>6, <1>7, <4>1
        <4> QED
          BY <1>4, <1>5, <4>2 DEF Matches
      <3> QED
        BY <3>1, <3>2, <3>3
    <2> QED
      BY <2>1 DEF Registered
  <1>11. \A t \in Workers : Len(stack[t]) = 0
    BY <1>8
  <1>12. CallsFine /\ NoClash
    BY <1>11 DEF CallsFine, NoClash
  <1> QED
    BY <1>9, <1>10, <1>12 DEF HostInv

LEMMA ArriveHolds ==
    ASSUME HostInv, NEW t \in Tasks, Arrive(t)
    PROVE  HostInv'
  <1>1. Roots \subseteq Ids /\ Children \subseteq Ids
    BY DEF Ids
  <1>2. ASSUME NEW i \in Ids, Known(i),
               \/ ResumeSession(t, i) \/ RunPrompt(t, i) \/ CancelSession(t, i)
               \/ CloseSession(t, i) \/ DeleteSession(t, i)
               \/ SetSessionTitle(t, i) \/ SetSetting(t, i)
        PROVE  HostInv'
    <2>1. Seen(i)
      BY <1>2 DEF Known, Seen
    <2> QED
      BY <1>2, <2>1, ResumeSessionStep, RunPromptStep, CancelSessionStep, CloseSessionStep,
         DeleteSessionStep, SetSessionTitleStep, SetSettingStep
  <1>3. ASSUME NEW i \in Roots, CreateSession(t, i) \/ \E source \in Roots : ForkSession(t, source, i)
        PROVE  HostInv'
    BY <1>3, CreateSessionStep, ForkSessionStep
  <1>4. ASSUME NEW i \in Children, CreateOwned(t, i)
        PROVE  HostInv'
    BY <1>4, CreateOwnedStep
  <1> QED
    BY <1>1, <1>2, <1>3, <1>4 DEF Arrive

LEMMA ContinueHolds ==
    ASSUME HostInv, NEW t \in Workers, Continue(t)
    PROVE  HostInv'
  <1>1. CASE \/ ForkStore(t) \/ ResumeNested(t) \/ ResumeLive(t) \/ AcquireOperation(t)
             \/ ResumeOwner(t) \/ OwnerGuard(t) \/ BuildSession(t) \/ BeforeSwitch(t)
             \/ RegisterSession(t) \/ StartExtensions(t) \/ CheckpointStarted(t) \/ NameChild(t)
    BY <1>1, ForkStoreStep, ResumeNestedStep, ResumeLiveStep, AcquireOperationStep,
       ResumeOwnerStep, OwnerGuardStep, BuildSessionStep, BeforeSwitchStep,
       RegisterSessionStep, StartExtensionsStep, CheckpointStartedStep, NameChildStep
  <1>2. CASE \/ StartRun(t) \/ RunCancelled(t) \/ SubmitCancelled(t) \/ SubmitIdle(t)
             \/ DelegateTask(t) \/ SubagentResult(t)
             \/ SpawnReporter(t) \/ ReportStart(t) \/ ReportAnswer(t) \/ ReportReply(t)
             \/ ReportSent(t)
    BY <1>2, StartRunStep, RunCancelledStep, SubmitCancelledStep, SubmitIdleStep,
       DelegateTaskStep, SubagentResultStep, SpawnReporterStep, ReportStartStep,
       ReportAnswerStep, ReportReplyStep, ReportSentStep
  <1>3. CASE \/ CloseGate(t) \/ BeginClosing(t) \/ CloseChildren(t)
             \/ JoinReporters(t) \/ FinishClosing(t) \/ DeleteClosed(t) \/ DeleteKids(t)
    BY <1>3, CloseGateStep, BeginClosingStep, CloseChildrenStep, JoinReportersStep,
       FinishClosingStep, DeleteClosedStep, DeleteKidsStep
  <1>4. CASE \/ RenameAgain(t) \/ RenameLive(t) \/ RenameStored(t) \/ WaitForClose(t)
             \/ CloseSettled(t) \/ WaitForReservation(t) \/ PersistSetting(t)
    BY <1>4, RenameAgainStep, RenameLiveStep, RenameStoredStep, WaitForCloseStep,
       CloseSettledStep, WaitForReservationStep, PersistSettingStep
  <1> QED
    BY <1>1, <1>2, <1>3, <1>4 DEF Continue

LEMMA NextHolds ==
    ASSUME HostInv, [Next]_vars
    PROVE  HostInv'
  <1>0. Tasks \subseteq Workers
    BY DEF Workers
  <1>1. CASE UNCHANGED vars
    <2>1. /\ UNCHANGED <<sessions, pending, runtimes, built, disk, stack, deleted>>
          /\ HostTypes /\ Registered /\ CallsFine /\ NoClash
      BY <1>1 DEF vars, HostInv
    <2>2. HostTypes'
      BY <2>1 DEF HostTypes
    <2>3. Registered'
      BY <2>1 DEF Registered, Matches, Seen
    <2>4. \A u, f : Fine(u, f)' <=> Fine(u, f)
      BY <2>1 DEF Fine, BuildFine, OtherFine, GateFine, HeldFine, Building, Unborn, Holding, Seen
    <2>5. CallsFine'
      BY <2>1, <2>4 DEF CallsFine
    <2>6. NoClash'
      BY <2>1 DEF NoClash
    <2> QED
      BY <2>2, <2>3, <2>5, <2>6 DEF HostInv
  <1>2. ASSUME NEW t \in Tasks, Arrive(t) \/ DropCall(t) PROVE HostInv'
    BY <1>2, ArriveHolds, DropCallStep
  <1>3. ASSUME NEW t \in Workers, Continue(t) \/ RunAnswers(t) \/ CloseWaitTimesOut(t)
        PROVE  HostInv'
    BY <1>3, ContinueHolds, RunAnswersStep, CloseWaitTimesOutStep
  <1>4. ASSUME NEW t \in Tasks, NEW i \in Children, Subagent(t, i) \/ Background(t, i)
        PROVE  HostInv'
    BY <1>0, <1>4, SubagentStep, BackgroundStep
  <1>5. ASSUME NEW t \in Workers, ForkRepairs(t) PROVE HostInv'
    BY <1>5, ForkRepairsStep
  <1> QED
    BY <1>1, <1>2, <1>3, <1>4, <1>5 DEF Next

\* What a call may rely on at its await holds in every state, for any Sessions,
\* callers and reporters: whoever builds a runtime alone has the id's reservation,
\* whoever runs or closes alone has the gate, and whoever was given a runtime by
\* the registry has one that is registered, closed, or without a file.
THEOREM CallsRelyOnTheirAwaits == Spec => []HostInv
  <1>1. Init => HostInv
    BY InitHolds
  <1>2. HostInv /\ [Next]_vars => HostInv'
    BY NextHolds
  <1> QED
    BY <1>1, <1>2, PTL DEF Spec

\* A registered runtime whose file was not replaced by a fork of the Session has the
\* title and the setting of its file, in every state: no rename, and no setting whose sign-in check was awaited, goes past it, whether
\* it was closed, resumed or rolled back in the meantime.
THEOREM MemoryIsCurrent == Spec => []MemoryMatchesFile
  <1>1. HostInv => MemoryMatchesFile
    BY DEF HostInv, Registered, Matches, MemoryMatchesFile
  <1> QED
    BY <1>1, CallsRelyOnTheirAwaits, PTL

(***************************************************************************)
(* One writer.                                                             *)
(***************************************************************************)
LEMMA AtMostOne ==
    ASSUME NEW S, \A x, y \in S : x = y
    PROVE  Cardinality(S) \in {0, 1} /\ (S = {} => Cardinality(S) = 0)
  <1>1. CASE S = {}
    BY <1>1, FS_EmptySet
  <1>2. CASE S # {}
    <2>1. PICK x : x \in S
      BY <1>2
    <2>2. S = {x}
      BY <2>1
    <2> QED
      BY <1>2, <2>2, FS_Singleton
  <1> QED
    BY <1>1, <1>2

\* Two calls with the reservation of one id are the same.
LEMMA OneReservation ==
    ASSUME HostInv, NEW f \in Frames, NEW g \in Frames, f.reserved, g.reserved, f.id = g.id
    PROVE  f = g
  <1>1. PICK t \in Workers : \E k \in 1..Len(stack[t]) : f = stack[t][k]
    BY DEF Frames
  <1>2. PICK p \in 1..Len(stack[t]) : f = Nth(stack[t], p)
    BY <1>1, MineIs
  <1>3. PICK u \in Workers : \E k \in 1..Len(stack[u]) : g = stack[u][k]
    BY DEF Frames
  <1>4. PICK q \in 1..Len(stack[u]) : g = Nth(stack[u], q)
    BY <1>3, MineIs
  <1>5. Clash(Nth(stack[t], p), Nth(stack[u], q))
    BY <1>2, <1>4 DEF Clash
  <1>6. t = u /\ p = q
    BY <1>5 DEF HostInv, NoClash
  <1> QED
    BY <1>2, <1>4, <1>6

LEMMA WritersAre ==
    ASSUME HostInv, NEW i \in Ids, disk[i].there, NEW g \in Writers(i)
    PROVE  \/ sessions[i] = g /\ g # 0
           \/ /\ sessions[i] = 0
              /\ \E f \in Frames : f.op = "build" /\ f.reserved /\ f.id = i /\ f.held = g
  <1>1. g \in 1..MaxBuilds /\ g # 0 /\ runtimes[i][g].life # "closed"
    BY HostAssumption DEF Writers
  <1>2. CASE sessions[i] = g
    BY <1>1, <1>2
  <1>3. ASSUME NEW f \in Frames, f.id = i, f.held = g, sessions[i] # g
        PROVE  sessions[i] = 0 /\ f.op = "build" /\ f.reserved
    <2>1. PICK u \in Workers : Fine(u, f)
      BY FramesFine
    <2>2. Building(f)
      BY <1>1, <1>3, <2>1 DEF Fine, BuildFine, HeldFine
    <2> QED
      BY <1>3, <2>1, <2>2 DEF Fine, BuildFine, Building
  <1> QED
    BY <1>2, <1>3 DEF Writers

\* A fork spoils the file of a Session.
LEMMA SpoiledAre == Spec => [](spoiled \subseteq Ids)
  <1>1. Init => spoiled \subseteq Ids
    BY DEF Init
  <1>2. HostInv /\ spoiled \subseteq Ids /\ [Next]_vars => (spoiled \subseteq Ids)'
    <2>1. ASSUME HostInv, spoiled \subseteq Ids, NEW t \in Workers, ForkRepairs(t)
          PROVE  (spoiled \subseteq Ids)'
      <3>1. Top(t).kids \subseteq Ids
        BY <2>1, AtIs DEF ForkRepairs, Frame
      <3> QED
        BY <2>1, <3>1 DEF ForkRepairs
    <2> QED
      BY <2>1 DEF Next, vars
  <1> QED
    BY <1>1, <1>2, CallsRelyOnTheirAwaits, PTL DEF Spec

\* At most one runtime, or one rename of a Session that is not live, can write a
\* Session's file at a time: however the calls that create, resume, close, delete
\* and rename it overlap, and whichever of their futures is dropped.  The opening
\* of a fork's source, which has no lock, is not counted among the writers.
THEOREM FilesHaveOneWriter == Spec => []OneWriter
  <1>1. ASSUME HostInv, spoiled \subseteq Ids PROVE OneWriter
    <2>0. HostTypes
      BY <1>1 DEF HostInv
    <2>1. TypeOK
      <3>1. \A t \in Workers : \A k \in 1..Len(stack[t]) : stack[t][k] \in Frame
        BY <1>1, MineIs
      <3> QED
        BY <1>1, <2>0, <3>1 DEF HostTypes, TypeOK
    <2>2. ASSUME NEW i \in Ids, disk[i].there
          PROVE  Cardinality(Writers(i))
                   + Cardinality({t \in Tasks : At(t, "rename", "store") /\ Top(t).id = i}) <= 1
      <3>1. PICK W, R : /\ W = Writers(i)
                        /\ R = {t \in Tasks : At(t, "rename", "store") /\ Top(t).id = i}
        OBVIOUS
      <3>2. ASSUME NEW t \in R
            PROVE  /\ t \in Workers /\ Top(t) \in Frames /\ Top(t).op = "rename" /\ Top(t).reserved
                   /\ sessions[i] = 0 /\ Top(t).id = i
        <4>1. t \in Workers /\ At(t, "rename", "store") /\ Top(t).id = i
          BY <3>1 DEF Workers
        <4>2. Top(t) \in Frames /\ Fine(t, Top(t)) /\ Top(t).op = "rename" /\ Top(t).at = "store"
          BY <1>1, <4>1, AtIs
        <4> QED
          BY <4>1, <4>2 DEF Fine, OtherFine
      <3>3. \A x, y \in W : x = y
        BY <1>1, <2>2, <3>1, WritersAre, OneReservation
      <3>4. \A x, y \in R : x = y
        <4>1. ASSUME NEW x \in R, NEW y \in R PROVE x = y
          <5>1. /\ x \in Workers /\ Busy(x) /\ y \in Workers /\ Busy(y)
            BY <3>1, <3>2 DEF At
          <5>2. /\ Top(x) = Nth(stack[x], Len(stack[x])) /\ Len(stack[x]) \in Nat \ {0}
                /\ Top(y) = Nth(stack[y], Len(stack[y])) /\ Len(stack[y]) \in Nat \ {0}
            BY <1>1, <5>1, TopIs DEF HostInv
          <5>3. Clash(Top(x), Top(y))
            BY <3>2 DEF Clash
          <5>4. Len(stack[x]) \in 1..Len(stack[x]) /\ Len(stack[y]) \in 1..Len(stack[y])
            BY <5>2
          <5> QED
            BY <1>1, <5>1, <5>2, <5>3, <5>4 DEF HostInv, NoClash
        <4> QED
          BY <4>1
      <3>5. R # {} => W = {}
        <4>1. ASSUME NEW t \in R, NEW g \in W PROVE FALSE
          <5>1. PICK f \in Frames : f.op = "build" /\ f.reserved /\ f.id = i
            BY <1>1, <2>2, <3>1, <3>2, WritersAre
          <5>2. f = Top(t)
            BY <1>1, <3>2, <5>1, OneReservation
          <5> QED
            BY <3>2, <5>1, <5>2
        <4> QED
          BY <4>1
      <3>6. /\ Cardinality(W) \in {0, 1} /\ (W = {} => Cardinality(W) = 0)
            /\ Cardinality(R) \in {0, 1} /\ (R = {} => Cardinality(R) = 0)
        BY <3>3, <3>4, AtMostOne
      <3>7. Cardinality(W) + Cardinality(R) <= 1
        BY <3>5, <3>6
      <3> QED
        BY <3>1, <3>7
    <2> QED
      BY <2>1, <2>2 DEF OneWriter
  <1>2. HostInv /\ spoiled \subseteq Ids => OneWriter
    BY <1>1
  <1> QED
    BY <1>2, CallsRelyOnTheirAwaits, SpoiledAre, PTL
=============================================================================
