--------------------------- MODULE RunQueueSafety ---------------------------
(***************************************************************************)
(* RunQueue's safety properties proved for any set of inputs and any       *)
(* bounds, from one inductive invariant.                                   *)
(***************************************************************************)
EXTENDS RunQueue_proofs

(***************************************************************************)
(* What a log says, and what appending to it or cutting it may change.     *)
(***************************************************************************)

\* Items a log records as queued.
QueuedIn(l) == {l[k].item : k \in {k \in 1..Len(l) : l[k].type = "enqueued"}}

\* No input has two message entries.
Once(l) ==
    \A j, k \in 1..Len(l) :
        l[j].type = "message" /\ l[k].type = "message" /\ l[j].item = l[k].item
        => j = k

\* i was never recorded as queued, or the cancellation that follows its last
\* enqueue record is in the first n entries.
SettledIn(l, n, i) ==
    \E k \in 0..n :
        /\ k = 0 \/ l[k] = Cancelled(i)
        /\ \A m \in 1..Len(l) :
              l[m].item = i /\ l[m].type = "enqueued" => m < k

\* m is l with entries appended, among them messages only of items in M and
\* enqueue records only of items in Q.
Extended(l, m, M, Q) ==
    /\ Len(l) <= Len(m)
    /\ \A k \in 1..Len(l) : m[k] = l[k]
    /\ \A k \in 1..Len(m) : k > Len(l) =>
          /\ m[k].type = "message" => m[k].item \in M
          /\ m[k].type = "enqueued" => m[k].item \in Q

\* Appending records whose kinds are known.
LEMMA ConcatExtends ==
    ASSUME NEW l \in Seq(Entry), NEW r \in Seq(Entry), NEW M, NEW Q,
           \A k \in 1..Len(r) : /\ r[k].type = "message" => r[k].item \in M
                                /\ r[k].type = "enqueued" => r[k].item \in Q
    PROVE  Extended(l, l \o r, M, Q)
<1>1. Len(l) \in Nat /\ Len(r) \in Nat /\ Len(l \o r) = Len(l) + Len(r)
  OBVIOUS
<1>2. \A k \in 1..Len(l) : (l \o r)[k] = l[k]
  OBVIOUS
<1>3. \A k \in 1..Len(l \o r) : k > Len(l) =>
          k - Len(l) \in 1..Len(r) /\ (l \o r)[k] = r[k - Len(l)]
  BY <1>1
<1> QED
  BY <1>1, <1>2, <1>3 DEF Extended

\* The same for the prefix of the records that a failed commit wrote.
LEMMA PrefixExtends ==
    ASSUME NEW l \in Seq(Entry), NEW r \in Seq(Entry), NEW M, NEW Q,
           NEW n \in 0..Len(r),
           \A k \in 1..Len(r) : /\ r[k].type = "message" => r[k].item \in M
                                /\ r[k].type = "enqueued" => r[k].item \in Q
    PROVE  Extended(l, l \o SubSeq(r, 1, n), M, Q)
<1> DEFINE t == SubSeq(r, 1, n)
<1>1. t \in Seq(Entry) /\ Len(t) = n
  OBVIOUS
<1>2. \A k \in 1..Len(t) : k \in 1..Len(r) /\ t[k] = r[k]
  OBVIOUS
<1> HIDE DEF t
<1>3. Extended(l, l \o t, M, Q)
  BY <1>1, <1>2, ConcatExtends
<1> QED
  BY <1>3 DEF t

\* A log extends itself.
LEMMA SameExtends ==
    ASSUME NEW l \in Seq(Entry), NEW M, NEW Q
    PROVE  Extended(l, l, M, Q)
BY DEF Extended

\* What an extension adds to the messages and to the queued items.
LEMMA ExtendedHolds ==
    ASSUME NEW l \in Seq(Entry), NEW m \in Seq(Entry), NEW M, NEW Q,
           Extended(l, m, M, Q)
    PROVE  /\ MessagesOf(m) \subseteq MessagesOf(l) \cup M
           /\ QueuedIn(m) \subseteq QueuedIn(l) \cup Q
           /\ M = {} /\ Once(l) => Once(m)
<1>1. Len(l) \in Nat /\ Len(m) \in Nat
  OBVIOUS
<1>2. \A k \in 1..Len(m) : k > Len(l) \/ k \in 1..Len(l)
  BY <1>1
<1>3. MessagesOf(m) \subseteq MessagesOf(l) \cup M
  BY <1>2 DEF Extended, MessagesOf
<1>4. QueuedIn(m) \subseteq QueuedIn(l) \cup Q
  BY <1>2 DEF Extended, QueuedIn
<1>5. ASSUME M = {}, Once(l) PROVE Once(m)
  BY <1>2, <1>5 DEF Extended, Once
<1> QED
  BY <1>3, <1>4, <1>5

\* A settled item stays settled unless it is queued again.
LEMMA SettledExtends ==
    ASSUME NEW l \in Seq(Entry), NEW m \in Seq(Entry), NEW M, NEW Q,
           Extended(l, m, M, Q), NEW i, i \notin Q,
           NEW a \in 0..Len(l), NEW b \in Nat, a <= b, SettledIn(l, a, i)
    PROVE  SettledIn(m, b, i)
<1>1. PICK k \in 0..a : /\ k = 0 \/ l[k] = Cancelled(i)
                        /\ \A j \in 1..Len(l) :
                              l[j].item = i /\ l[j].type = "enqueued" => j < k
  BY DEF SettledIn
<1>2. Len(l) \in Nat /\ Len(m) \in Nat
  OBVIOUS
<1>3. k \in 0..b /\ (k = 0 \/ k \in 1..Len(l))
  BY <1>2
<1>4. k = 0 \/ m[k] = Cancelled(i)
  BY <1>1, <1>3 DEF Extended
<1>5. ASSUME NEW j \in 1..Len(m), m[j].item = i, m[j].type = "enqueued"
      PROVE  j < k
  <2>1. ~(j > Len(l))
    BY <1>5 DEF Extended
  <2>2. j \in 1..Len(l)
    BY <2>1, <1>2
  <2> QED
    BY <2>2, <1>1, <1>5 DEF Extended
<1> QED
  BY <1>3, <1>4, <1>5 DEF SettledIn

\* One more message entry keeps messages unique.
LEMMA OnceAppend ==
    ASSUME NEW l \in Seq(Entry), NEW i \in Items, Once(l), i \notin MessagesOf(l)
    PROVE  /\ Once(Append(l, Message(i)))
           /\ Extended(l, Append(l, Message(i)), {i}, {})
<1> DEFINE m == Append(l, Message(i))
<1>1. m \in Seq(Entry) /\ Len(m) = Len(l) + 1 /\ Len(l) \in Nat
  BY EntryFields
<1>2. /\ \A k \in 1..Len(l) : m[k] = l[k]
      /\ m[Len(l) + 1] = Message(i)
  BY EntryFields
<1>3. \A k \in 1..Len(m) : k \in 1..Len(l) \/ k = Len(l) + 1
  BY <1>1
<1>4. Message(i).type = "message" /\ Message(i).item = i
  BY DEF Message
<1>5. \A k \in 1..Len(l) : l[k].type = "message" => l[k].item # i
  BY DEF MessagesOf
<1> HIDE DEF m
<1>6. Once(m)
  BY <1>2, <1>3, <1>4, <1>5 DEF Once
<1>7. Extended(l, m, {i}, {})
  BY <1>1, <1>2, <1>3, <1>4 DEF Extended
<1> QED
  BY <1>6, <1>7 DEF m

\* What remains of a log whose unsynced suffix a crash cut off.
LEMMA PrefixHolds ==
    ASSUME NEW l \in Seq(Entry), NEW n \in 0..Len(l)
    PROVE  /\ SubSeq(l, 1, n) \in Seq(Entry)
           /\ Len(SubSeq(l, 1, n)) = n
           /\ \A k \in 1..n : k \in 1..Len(l) /\ SubSeq(l, 1, n)[k] = l[k]
           /\ MessagesOf(SubSeq(l, 1, n)) \subseteq MessagesOf(l)
           /\ QueuedIn(SubSeq(l, 1, n)) \subseteq QueuedIn(l)
           /\ Once(l) => Once(SubSeq(l, 1, n))
<1> DEFINE m == SubSeq(l, 1, n)
<1>1. m \in Seq(Entry) /\ Len(m) = n /\ \A k \in 1..n : k \in 1..Len(l) /\ m[k] = l[k]
  OBVIOUS
<1> HIDE DEF m
<1>2. MessagesOf(m) \subseteq MessagesOf(l)
  BY <1>1 DEF MessagesOf
<1>3. QueuedIn(m) \subseteq QueuedIn(l)
  BY <1>1 DEF QueuedIn
<1>4. Once(l) => Once(m)
  BY <1>1 DEF Once
<1> QED
  BY <1>1, <1>2, <1>3, <1>4 DEF m

\* Replay of what a crash left never brings back a settled item.
LEMMA SettledNotLive ==
    ASSUME NEW l \in Seq(Entry), NEW a \in 0..Len(l), NEW n \in a..Len(l),
           NEW i, SettledIn(l, a, i)
    PROVE  /\ i \notin Live(SubSeq(l, 1, n))
           /\ SettledIn(SubSeq(l, 1, n), n, i)
<1> DEFINE m == SubSeq(l, 1, n)
<1>0. n \in 0..Len(l) /\ Len(l) \in Nat
  OBVIOUS
<1>1. m \in Seq(Entry) /\ Len(m) = n /\ \A k \in 1..n : k \in 1..Len(l) /\ m[k] = l[k]
  BY <1>0, PrefixHolds
<1>2. PICK k \in 0..a : /\ k = 0 \/ l[k] = Cancelled(i)
                        /\ \A j \in 1..Len(l) :
                              l[j].item = i /\ l[j].type = "enqueued" => j < k
  BY DEF SettledIn
<1>3. k \in 0..n /\ (k = 0 \/ k \in 1..n)
  OBVIOUS
<1> HIDE DEF m
<1>4. k = 0 \/ m[k] = Cancelled(i)
  BY <1>1, <1>2, <1>3
<1>5. \A j \in 1..Len(m) : m[j].item = i /\ m[j].type = "enqueued" => j < k
  BY <1>1, <1>2
<1>6. SettledIn(m, n, i)
  BY <1>3, <1>4, <1>5 DEF SettledIn
<1>7. ASSUME i \in Live(m) PROVE FALSE
  <2>1. PICK j \in 1..Len(m) : LastQueueRecord(m, i, j) /\ m[j].type = "enqueued"
    BY <1>7 DEF Live
  <2>2. j < k /\ k \in 1..Len(m)
    BY <2>1, <1>1, <1>3, <1>5 DEF LastQueueRecord
  <2>3. m[k].item = i /\ m[k].type = "cancelled"
    BY <2>2, <1>1, <1>4 DEF Cancelled
  <2>4. m[k].item # i \/ m[k].type = "message"
    BY <2>1, <2>2 DEF LastQueueRecord
  <2> QED
    BY <2>3, <2>4
<1> QED
  BY <1>6, <1>7 DEF m

\* Items a replay keeps were recorded as queued and are not in history.
LEMMA LiveQueued ==
    ASSUME NEW l \in Seq(Entry)
    PROVE  Live(l) \subseteq QueuedIn(l) \ MessagesOf(l)
BY DEF Live, QueuedIn, LastQueueRecord

\* A synced commit of cancellations settles every item it names.
LEMMA CommitSettles ==
    ASSUME TypeOK, NEW r \in Seq(Entry), CommitOk(r),
           \A k \in 1..Len(r) : r[k].type = "cancelled",
           NEW j \in 1..Len(r), NEW i, r[j] = Cancelled(i)
    PROVE  SettledIn(log', synced', i)
<1>1. log \in Seq(Entry) /\ log' = log \o r /\ synced' = Len(log) + Len(r)
  BY DEF CommitOk, TypeOK
<1>2. Len(log) \in Nat /\ Len(r) \in Nat /\ Len(log') = Len(log) + Len(r)
  BY <1>1
<1>3. log'[Len(log) + j] = r[j]
  BY <1>1, <1>2
<1>4. \A m \in 1..Len(log') : m > Len(log) => log'[m].type = "cancelled"
  BY <1>1, <1>2
<1>5. \A m \in 1..Len(log') : log'[m].type = "enqueued" => m < Len(log) + j
  BY <1>2, <1>4
<1>6. Len(log) + j \in 0..synced'
  BY <1>1, <1>2
<1> QED
  BY <1>3, <1>5, <1>6 DEF SettledIn

(***************************************************************************)
(* The inductive invariant.                                                *)
(***************************************************************************)

\* Inputs that were never accepted into the queue.
Unqueued == {i \in Items : stage[i] \in {"new", "arrived", "gate", "running"}}

\* The two lanes and the claim share no item, and no lane lists one twice.
LanesApart ==
    /\ NoDup(steering)
    /\ NoDup(followUp)
    /\ In(steering) \cap In(followUp) = {}
    /\ claimed \notin Waiting

\* An input that was never accepted is neither pending nor recorded as queued,
\* and before its own Run starts it is not in history either.
UnqueuedIsNew ==
    \A i \in Unqueued :
        /\ i \notin Pending
        /\ i \notin QueuedIn(log)
        /\ stage[i] # "running" => i \notin MessagesOf(log)

\* The input of the active Run is in history only once the Run inserted it, and
\* a client prompt that was inserted has been told so.
RunInput ==
    initial # None =>
        /\ stage[initial] = "running"
        /\ ~inserted => initial \notin MessagesOf(log)
        /\ inserted /\ initial \in Prompts => told[initial] # "nothing"

\* A withdrawn input is settled for good.
WithdrawnSettled ==
    \A i \in Items : told[i] = "withdrawn" =>
        /\ i \notin Unqueued
        /\ i \notin Pending
        /\ i \notin MessagesOf(log)
        /\ SettledIn(log, synced, i)

QueueInv ==
    /\ TypeOK
    /\ RunHasInput
    /\ LanesApart
    /\ UnqueuedIsNew
    /\ RunInput
    /\ Once(log)
    /\ Pending \cap MessagesOf(log) = {}
    /\ WithdrawnSettled

\* How a step that only appends to the log keeps the invariant: M bounds the
\* inputs it puts into history, Q the ones it records as queued.
LEMMA Advance ==
    ASSUME QueueInv, TypeOK', RunHasInput', LanesApart', RunInput',
           NEW M, NEW Q, Extended(log, log', M, Q), synced <= synced',
           Once(log'),
           \A i \in Pending' : /\ i \notin MessagesOf(log) \cup M
                               /\ i \notin Unqueued'
                               /\ told'[i] # "withdrawn",
           \A i \in Unqueued' : /\ i \in Unqueued
                                /\ i \notin Q
                                /\ stage'[i] # "running" =>
                                      stage[i] # "running" /\ i \notin M,
           \A i \in Items : told'[i] = "withdrawn" =>
                /\ i \notin Unqueued'
                /\ i \notin MessagesOf(log) \cup M
                /\ \/ told[i] = "withdrawn" /\ i \notin Q
                   \/ SettledIn(log', synced', i)
    PROVE  QueueInv'
<1>1. log \in Seq(Entry) /\ log' \in Seq(Entry) /\ synced \in 0..Len(log) /\ synced' \in Nat
  BY DEF QueueInv, TypeOK
<1>2. /\ MessagesOf(log') \subseteq MessagesOf(log) \cup M
      /\ QueuedIn(log') \subseteq QueuedIn(log) \cup Q
  BY <1>1, ExtendedHolds
<1>3. Pending' \cap MessagesOf(log)' = {}
  BY <1>2
<1>4. UnqueuedIsNew'
  <2> SUFFICES ASSUME NEW i \in Unqueued'
               PROVE  /\ i \notin Pending'
                      /\ i \notin QueuedIn(log')
                      /\ stage'[i] # "running" => i \notin MessagesOf(log')
    BY DEF UnqueuedIsNew
  <2>1. i \in Unqueued /\ i \notin Q
    OBVIOUS
  <2>2. i \notin QueuedIn(log) /\ (stage[i] # "running" => i \notin MessagesOf(log))
    BY <2>1 DEF QueueInv, UnqueuedIsNew
  <2> QED
    BY <2>1, <2>2, <1>2
<1>5. WithdrawnSettled'
  <2> SUFFICES ASSUME NEW i \in Items, told'[i] = "withdrawn"
               PROVE  /\ i \notin Unqueued' /\ i \notin Pending'
                      /\ i \notin MessagesOf(log')
                      /\ SettledIn(log', synced', i)
    BY DEF WithdrawnSettled
  <2>1. ASSUME told[i] = "withdrawn", i \notin Q PROVE SettledIn(log', synced', i)
    <3>1. SettledIn(log, synced, i)
      BY <2>1 DEF QueueInv, WithdrawnSettled
    <3> QED
      BY <3>1, <2>1, <1>1, SettledExtends
  <2> QED
    BY <2>1, <1>2
<1> QED
  BY <1>3, <1>4, <1>5 DEF QueueInv

\* A step that moves no item: it may settle waiters with anything but a
\* withdrawal, record entries that are no messages, and turn inputs away.
LEMMA Quiet ==
    ASSUME QueueInv, TypeOK', RunHasInput',
           UNCHANGED <<steering, followUp, claimed, initial, inserted>>,
           NEW Q, Extended(log, log', {}, Q), synced <= synced',
           Q \cap Unqueued' = {},
           \A i \in Q : told'[i] # "withdrawn",
           \A i \in Items : \/ stage'[i] = stage[i]
                            \/ stage'[i] \in {"arrived", "gate", "out"}
                                 /\ stage[i] \in {"new", "arrived", "gate"},
           \A i \in Items : \/ told'[i] = told[i]
                            \/ told[i] = "nothing"
                                 /\ told'[i] \notin {"nothing", "withdrawn"}
    PROVE  QueueInv'
<1>1. log \in Seq(Entry) /\ log' \in Seq(Entry)
  BY DEF QueueInv, TypeOK
<1>2. Once(log') /\ MessagesOf(log') \subseteq MessagesOf(log)
  BY <1>1, ExtendedHolds DEF QueueInv
<1>3. Pending' = Pending /\ Waiting' = Waiting
  BY DEF Pending, Waiting
<1>4. LanesApart'
  BY <1>3 DEF QueueInv, LanesApart
<1>5. Unqueued' \subseteq Unqueued
  BY DEF Unqueued
<1>6. RunInput'
  <2>1. initial # None => initial \in Items
    BY DEF QueueInv, TypeOK
  <2> QED
    BY <2>1, <1>2 DEF QueueInv, RunInput
<1>7. ASSUME NEW i \in Pending'
      PROVE  i \notin MessagesOf(log) \cup {} /\ i \notin Unqueued' /\ told'[i] # "withdrawn"
  <2>1. i \in Items /\ i \notin MessagesOf(log) /\ i \notin Unqueued
    BY <1>7, <1>3, InFinite DEF QueueInv, UnqueuedIsNew, Pending, Waiting, TypeOK
  <2>2. told[i] # "withdrawn"
    BY <2>1, <1>7, <1>3 DEF QueueInv, WithdrawnSettled
  <2> QED
    BY <2>1, <2>2, <1>5
<1>8. ASSUME NEW i \in Unqueued'
      PROVE  /\ i \in Unqueued
             /\ i \notin Q
             /\ stage'[i] # "running" => stage[i] # "running" /\ i \notin {}
  BY <1>5, <1>8 DEF Unqueued
<1>9. ASSUME NEW i \in Items, told'[i] = "withdrawn"
      PROVE  /\ i \notin Unqueued'
             /\ i \notin MessagesOf(log) \cup {}
             /\ \/ told[i] = "withdrawn" /\ i \notin Q
                \/ SettledIn(log', synced', i)
  BY <1>5, <1>9 DEF QueueInv, WithdrawnSettled
<1> QED
  BY <1>2, <1>4, <1>6, <1>7, <1>8, <1>9, Advance

\* What settling a waiter may change.
LEMMA TellFacts ==
    ASSUME TypeOK, NEW S, NEW what \in Tellings, what # "nothing", NEW i \in Items
    PROVE  \/ Tell(S, what)[i] = told[i]
           \/ told[i] = "nothing" /\ Tell(S, what)[i] = what /\ i \in S
BY DEF Tell, TypeOK

\* A failed commit appends a prefix of its records.
LEMMA CommitFailsExtends ==
    ASSUME TypeOK, NEW r \in Seq(Entry), CommitFails(r), NEW M, NEW Q,
           \A k \in 1..Len(r) : /\ r[k].type = "message" => r[k].item \in M
                                /\ r[k].type = "enqueued" => r[k].item \in Q
    PROVE  Extended(log, log', M, Q) /\ synced' = synced
<1>1. log \in Seq(Entry)
  BY DEF TypeOK
<1>2. CASE UNCHANGED log
  BY <1>1, <1>2, SameExtends DEF CommitFails
<1>3. CASE \E n \in 0..Len(r) : log' = log \o SubSeq(r, 1, n)
  BY <1>1, <1>3, PrefixExtends DEF CommitFails
<1> QED
  BY <1>2, <1>3 DEF CommitFails

\* A successful one appends all of them.
LEMMA CommitOkExtends ==
    ASSUME TypeOK, NEW r \in Seq(Entry), CommitOk(r), NEW M, NEW Q,
           \A k \in 1..Len(r) : /\ r[k].type = "message" => r[k].item \in M
                                /\ r[k].type = "enqueued" => r[k].item \in Q
    PROVE  Extended(log, log', M, Q) /\ synced <= synced'
<1>1. log \in Seq(Entry) /\ log' = log \o r
  BY DEF TypeOK, CommitOk
<1>2. synced <= synced'
  BY DEF TypeOK, CommitOk
<1> QED
  BY <1>1, <1>2, ConcatExtends

\* A quiet step that writes nothing.
LEMMA QuietSame ==
    ASSUME QueueInv, TypeOK', RunHasInput',
           UNCHANGED <<steering, followUp, claimed, initial, inserted, log>>,
           synced <= synced',
           \A i \in Items : \/ stage'[i] = stage[i]
                            \/ stage'[i] \in {"arrived", "gate", "out"}
                                 /\ stage[i] \in {"new", "arrived", "gate"},
           \A i \in Items : \/ told'[i] = told[i]
                            \/ told[i] = "nothing"
                                 /\ told'[i] \notin {"nothing", "withdrawn"}
    PROVE  QueueInv'
<1>1. Extended(log, log', {}, {})
  BY SameExtends DEF QueueInv, TypeOK
<1> QED
  BY <1>1, Quiet

(***************************************************************************)
(* Every action keeps the invariant.                                       *)
(***************************************************************************)

\* Steps that neither move an item nor withdraw one.
LEMMA QuietSteps ==
    ASSUME QueueInv, TypeOK', RunHasInput',
           \/ \E i \in Items : Arrive(i) \/ RejectUncertain(i) \/ EnqueueClosed(i)
           \/ \E p \in Prompts : ClientLeaves(p)
           \/ \E s \in Submissions : SubmitReturns(s)
           \/ \E x \in Stoppers : CancelTokens(x) \/ CancelCloses(x)
           \/ ParentCancelsRun \/ StartFails \/ OpenQueue \/ ContinueTurn \/ ModelErrs
           \/ \E o \in {"cancelled", "failed"} : EndTurn(o)
           \/ RetryTurn \/ CloseQueue
    PROVE  QueueInv'
<1> USE DEF queueVars, runVars, logVars
<1>0. TypeOK /\ synced \in Nat /\ synced <= Len(log)
  BY DEF QueueInv, TypeOK
<1>1. ASSUME NEW i \in Items, Arrive(i) PROVE QueueInv'
  <2>1. UNCHANGED <<steering, followUp, claimed, initial, inserted, log, synced>>
    BY <1>1 DEF Arrive
  <2>2. UNCHANGED told
    BY <1>1 DEF Arrive
  <2>3. stage[i] = "new" /\ stage' = [stage EXCEPT ![i] = "arrived"] /\ stage \in [Items -> Stages]
    BY <1>1, <1>0 DEF Arrive, TypeOK
  <2>4. \A j \in Items : \/ stage'[j] = stage[j]
                         \/ stage'[j] \in {"arrived", "gate", "out"}
                              /\ stage[j] \in {"new", "arrived", "gate"}
    BY <2>3
  <2> QED
    BY <2>1, <2>2, <2>4, <1>0, QuietSame
<1>2. ASSUME NEW i \in Items, EnqueueClosed(i) PROVE QueueInv'
  <2>1. UNCHANGED <<steering, followUp, claimed, initial, inserted, log, synced>>
    BY <1>2 DEF EnqueueClosed
  <2>2. UNCHANGED told
    BY <1>2 DEF EnqueueClosed
  <2>3. stage[i] = "arrived" /\ stage' = [stage EXCEPT ![i] = "gate"] /\ stage \in [Items -> Stages]
    BY <1>2, <1>0 DEF EnqueueClosed, TypeOK
  <2>4. \A j \in Items : \/ stage'[j] = stage[j]
                         \/ stage'[j] \in {"arrived", "gate", "out"}
                              /\ stage[j] \in {"new", "arrived", "gate"}
    BY <2>3
  <2> QED
    BY <2>1, <2>2, <2>4, <1>0, QuietSame
<1>3. ASSUME NEW i \in Items, RejectUncertain(i) PROVE QueueInv'
  <2>1. UNCHANGED <<steering, followUp, claimed, initial, inserted, log, synced>>
    BY <1>3 DEF RejectUncertain
  <2>2. \A j \in Items : told'[j] = told[j] \/ (told[j] = "nothing" /\ told'[j] = "error")
    BY <1>3, <1>0, TellFacts DEF RejectUncertain, Tellings
  <2>3. stage[i] = "arrived" /\ stage' = [stage EXCEPT ![i] = "out"] /\ stage \in [Items -> Stages]
    BY <1>3, <1>0 DEF RejectUncertain, TypeOK
  <2>4. \A j \in Items : \/ stage'[j] = stage[j]
                         \/ stage'[j] \in {"arrived", "gate", "out"}
                              /\ stage[j] \in {"new", "arrived", "gate"}
    BY <2>3
  <2> QED
    BY <2>1, <2>2, <2>4, <1>0, QuietSame
<1>4. ASSUME NEW p \in Prompts, ClientLeaves(p) PROVE QueueInv'
  <2>1. UNCHANGED <<steering, followUp, claimed, initial, inserted, log, synced>>
    BY <1>4 DEF ClientLeaves
  <2>2. \A j \in Items : told'[j] = told[j] \/ (told[j] = "nothing" /\ told'[j] = "lost")
    BY <1>4, <1>0, TellFacts DEF ClientLeaves, Tellings
  <2>4. UNCHANGED stage
    BY <1>4 DEF ClientLeaves
  <2> QED
    BY <2>1, <2>2, <2>4, <1>0, QuietSame
<1>5. ASSUME NEW s \in Submissions, SubmitReturns(s) PROVE QueueInv'
  <2>1. UNCHANGED <<steering, followUp, claimed, initial, inserted, log, synced>>
    BY <1>5 DEF SubmitReturns
  <2>2. \A j \in Items : told'[j] = told[j] \/ (told[j] = "nothing" /\ told'[j] = "answered")
    BY <1>5, <1>0, TellFacts DEF SubmitReturns, Tellings
  <2>4. UNCHANGED stage
    BY <1>5 DEF SubmitReturns
  <2> QED
    BY <2>1, <2>2, <2>4, <1>0, QuietSame
<1>6. ASSUME NEW x \in Stoppers, CancelTokens(x) PROVE QueueInv'
  <2>1. /\ UNCHANGED <<steering, followUp, claimed, initial, inserted, log, stage, told>>
        /\ synced' \in {synced, Len(log)}
    BY <1>6 DEF CancelTokens
  <2> QED
    BY <2>1, <1>0, QuietSame
<1>7. ASSUME NEW x \in Stoppers, CancelCloses(x) PROVE QueueInv'
  <2>1. /\ UNCHANGED <<steering, followUp, claimed, initial, inserted, log, stage, told>>
        /\ synced' \in {synced, Len(log)}
    BY <1>7 DEF CancelCloses
  <2> QED
    BY <2>1, <1>0, QuietSame
<1>8. ASSUME ParentCancelsRun PROVE QueueInv'
  <2>1. /\ UNCHANGED <<steering, followUp, claimed, initial, inserted, log, stage, told>>
        /\ synced' \in {synced, Len(log)}
    BY <1>8 DEF ParentCancelsRun
  <2> QED
    BY <2>1, <1>0, QuietSame
<1>9. ASSUME StartFails PROVE QueueInv'
  <2>1. /\ UNCHANGED <<steering, followUp, claimed, initial, inserted, log, stage, told>>
        /\ synced' \in {synced, Len(log)}
    BY <1>9 DEF StartFails
  <2> QED
    BY <2>1, <1>0, QuietSame
<1>10. ASSUME OpenQueue PROVE QueueInv'
  <2>1. /\ UNCHANGED <<steering, followUp, claimed, initial, inserted, log, stage, told>>
        /\ synced' \in {synced, Len(log)}
    BY <1>10 DEF OpenQueue
  <2> QED
    BY <2>1, <1>0, QuietSame
<1>11. ASSUME ContinueTurn PROVE QueueInv'
  <2>1. /\ UNCHANGED <<steering, followUp, claimed, initial, inserted, log, stage, told>>
        /\ synced' \in {synced, Len(log)}
    BY <1>11 DEF ContinueTurn
  <2> QED
    BY <2>1, <1>0, QuietSame
<1>12. ASSUME ModelErrs PROVE QueueInv'
  <2>1. /\ UNCHANGED <<steering, followUp, claimed, initial, inserted, log, stage, told>>
        /\ synced' \in {synced, Len(log)}
    BY <1>12 DEF ModelErrs
  <2> QED
    BY <2>1, <1>0, QuietSame
<1>13. ASSUME NEW o \in {"cancelled", "failed"}, EndTurn(o) PROVE QueueInv'
  <2>1. /\ UNCHANGED <<steering, followUp, claimed, initial, inserted, log, stage, told>>
        /\ synced' \in {synced, Len(log)}
    BY <1>13 DEF EndTurn, RecordTurn
  <2> QED
    BY <2>1, <1>0, QuietSame
<1>14. ASSUME RetryTurn PROVE QueueInv'
  <2>1. /\ UNCHANGED <<steering, followUp, claimed, initial, inserted, log, stage, told>>
        /\ synced' \in {synced, Len(log)}
    BY <1>14 DEF RetryTurn, RecordTurn
  <2> QED
    BY <2>1, <1>0, QuietSame
<1>15. ASSUME CloseQueue PROVE QueueInv'
  <2>1. /\ UNCHANGED <<steering, followUp, claimed, initial, inserted, log, stage, told>>
        /\ synced' \in {synced, Len(log)}
    BY <1>15 DEF CloseQueue
  <2> QED
    BY <2>1, <1>0, QuietSame
<1> QED
  BY <1>1, <1>2, <1>3, <1>4, <1>5, <1>6, <1>7, <1>8, <1>9, <1>10, <1>11, <1>12, <1>13, <1>14, <1>15

\* The records of clear_pending_messages: one cancellation for every waiting item.
LEMMA ClearRecordsHold ==
    ASSUME TypeOK
    PROVE  /\ ClearRecords \in Seq(Entry)
           /\ \A k \in 1..Len(ClearRecords) : ClearRecords[k].type = "cancelled"
           /\ \A i \in Waiting : \E k \in 1..Len(ClearRecords) : ClearRecords[k] = Cancelled(i)
<1> DEFINE all == steering \o followUp
           r == [k \in 1..Len(all) |-> Cancelled(all[k])]
<1>1. all \in Seq(Items) /\ In(all) = Waiting
  BY InConcat DEF TypeOK, Waiting
<1>2. ClearRecords = r
  BY DEF ClearRecords
<1> HIDE DEF all
<1>3. r \in Seq(Entry) /\ Len(r) = Len(all)
  BY <1>1, CancelRecords
<1>4. \A k \in 1..Len(r) : r[k] = Cancelled(all[k])
  BY <1>3
<1>5. \A i \in Waiting : \E k \in 1..Len(r) : r[k] = Cancelled(i)
  BY <1>1, <1>3, <1>4 DEF In
<1>6. \A k \in 1..Len(r) : r[k].type = "cancelled"
  BY <1>4 DEF Cancelled
<1> HIDE DEF r
<1> QED
  BY <1>2, <1>3, <1>5, <1>6

\* Commits that fail: their records may or may not be in the log, memory is as
\* it was, and whoever waits hears of an error.
LEMMA FailedCommitSteps ==
    ASSUME QueueInv, TypeOK', RunHasInput',
           \/ \E i \in Items, q \in Lanes : EnqueueFails(i, q)
           \/ MutationFails
           \/ WithdrawFails /\ UNCHANGED <<initial, inserted, stage>>
    PROVE  QueueInv'
<1>0. TypeOK
  BY DEF QueueInv
<1>1. ASSUME NEW i \in Items, NEW q \in Lanes, EnqueueFails(i, q) PROVE QueueInv'
  <2> DEFINE r == <<Enqueued(i, q)>>
  <2>1. r \in Seq(Entry) /\ CommitFails(r)
    BY <1>1, EntryFields DEF EnqueueFails
  <2>2. \A k \in 1..Len(r) : r[k].type = "enqueued" /\ r[k].item \in {i}
    BY DEF Enqueued
  <2> HIDE DEF r
  <2>3. Extended(log, log', {}, {i}) /\ synced' = synced
    BY <1>0, <2>1, <2>2, CommitFailsExtends
  <2>4. UNCHANGED <<steering, followUp, claimed, initial, inserted>>
    BY <1>1 DEF EnqueueFails, queueVars, runVars
  <2>5. \A j \in Items : told'[j] = told[j] \/ (told[j] = "nothing" /\ told'[j] = "error")
    BY <1>1, <1>0, TellFacts DEF EnqueueFails, Tellings
  <2>6. stage[i] = "arrived" /\ stage' = [stage EXCEPT ![i] = "out"]
    BY <1>1 DEF EnqueueFails
  <2>7. {i} \cap Unqueued' = {}
    BY <2>6, <1>0 DEF Unqueued, TypeOK
  <2>8. told[i] # "withdrawn"
    BY <2>6 DEF QueueInv, WithdrawnSettled, Unqueued
  <2>9. \A j \in Items : stage'[j] = stage[j] \/ (stage'[j] = "out" /\ stage[j] = "arrived")
    BY <2>6, <1>0 DEF TypeOK
  <2>10. synced <= synced'
    BY <2>3, <1>0 DEF TypeOK
  <2> QED
    BY <2>3, <2>4, <2>5, <2>7, <2>8, <2>9, <2>10, Quiet
<1>2. ASSUME NEW r \in Seq(Entry), CommitFails(r), NEW Q, Q \subseteq Pending,
             \A k \in 1..Len(r) : /\ r[k].type = "message" => r[k].item \in {}
                                  /\ r[k].type = "enqueued" => r[k].item \in Q,
             UNCHANGED <<steering, followUp, claimed, initial, inserted, stage>>,
             \A j \in Items : told'[j] = told[j] \/ (told[j] = "nothing" /\ told'[j] = "error")
      PROVE  QueueInv'
  <2>1. Extended(log, log', {}, Q) /\ synced' = synced
    BY <1>0, <1>2, CommitFailsExtends
  <2>2. Pending \subseteq Items
    BY <1>0, InFinite DEF Pending, Waiting, TypeOK
  <2>3. Q \cap Unqueued' = {}
    BY <1>2 DEF QueueInv, UnqueuedIsNew, Unqueued
  <2>4. \A i \in Q : told'[i] # "withdrawn"
    BY <1>2, <2>2 DEF QueueInv, WithdrawnSettled
  <2>5. synced <= synced'
    BY <2>1, <1>0 DEF TypeOK
  <2> QED
    BY <1>2, <2>1, <2>3, <2>4, <2>5, Quiet
<1>3. ASSUME MutationFails PROVE QueueInv'
  <2>1. UNCHANGED <<steering, followUp, claimed, initial, inserted, stage, told>>
    BY <1>3 DEF MutationFails, queueVars, runVars
  <2>2. Waiting \subseteq Items /\ In(followUp) \subseteq Waiting /\ Waiting \subseteq Pending
    BY <1>0, InFinite DEF Pending, Waiting, TypeOK
  <2>3. ASSUME NEW i \in Waiting, CommitFails(<<Cancelled(i)>>) PROVE QueueInv'
    <3> DEFINE r == <<Cancelled(i)>>
    <3>1. r \in Seq(Entry) /\ CommitFails(r)
      BY <2>2, <2>3, EntryFields
    <3>2. \A k \in 1..Len(r) : r[k].type = "cancelled"
      BY DEF Cancelled
    <3> HIDE DEF r
    <3> QED
      BY <3>1, <3>2, <2>1, <1>2
  <2>4. ASSUME NEW i \in In(followUp), CommitFails(<<Enqueued(i, "steering")>>) PROVE QueueInv'
    <3> DEFINE r == <<Enqueued(i, "steering")>>
    <3>1. r \in Seq(Entry) /\ CommitFails(r)
      BY <2>2, <2>4, EntryFields DEF Lanes
    <3>2. \A k \in 1..Len(r) : r[k].type = "enqueued" /\ r[k].item \in {i}
      BY DEF Enqueued
    <3>3. {i} \subseteq Pending
      BY <2>2
    <3> HIDE DEF r
    <3> QED
      BY <3>1, <3>2, <3>3, <2>1, <1>2
  <2>5. ASSUME CommitFails(ClearRecords) PROVE QueueInv'
    <3>1. ClearRecords \in Seq(Entry) /\ \A k \in 1..Len(ClearRecords) : ClearRecords[k].type = "cancelled"
      BY <1>0, ClearRecordsHold
    <3> QED
      BY <3>1, <2>1, <2>5, <1>2
  <2> QED
    BY <1>3, <2>3, <2>4, <2>5 DEF MutationFails
<1>4. ASSUME WithdrawFails, UNCHANGED <<initial, inserted, stage>> PROVE QueueInv'
  <2>1. PICK w \in Keep(steering \o followUp, Waiting \ Withdrawable) :
            CommitFails([k \in 1..Len(w) |-> Cancelled(w[k])])
    BY <1>4 DEF WithdrawFails
  <2> DEFINE r == [k \in 1..Len(w) |-> Cancelled(w[k])]
  <2>2. w \in Seq(Items)
    BY <1>0, WithdrawnList
  <2>3. r \in Seq(Entry) /\ CommitFails(r) /\ \A k \in 1..Len(r) : r[k].type = "cancelled"
    BY <2>1, <2>2, CancelRecords DEF Cancelled
  <2>4. UNCHANGED <<steering, followUp, claimed>>
    BY <1>4 DEF WithdrawFails
  <2>5. \A j \in Items : told'[j] = told[j] \/ (told[j] = "nothing" /\ told'[j] = "error")
    BY <1>4, <1>0, TellFacts DEF WithdrawFails, Tellings
  <2> HIDE DEF r
  <2> QED
    BY <2>3, <2>4, <2>5, <1>2, <1>4
<1> QED
  BY <1>1, <1>3, <1>4

\* What the invariant says of pending items.
LEMMA PendingFacts ==
    ASSUME QueueInv
    PROVE  /\ Waiting \subseteq Items /\ Waiting \subseteq Pending
           /\ Pending \subseteq Items
           /\ \A i \in Pending : /\ i \notin MessagesOf(log)
                                 /\ i \notin Unqueued
                                 /\ told[i] # "withdrawn"
<1>1. TypeOK
  BY DEF QueueInv
<1>2. Waiting \subseteq Items /\ Waiting \subseteq Pending
  BY <1>1, InFinite DEF Waiting, Pending, TypeOK
<1>3. Pending \subseteq Items
  BY <1>1, <1>2 DEF Pending, TypeOK
<1>4. \A i \in Pending : i \notin MessagesOf(log) /\ i \notin Unqueued
  BY DEF QueueInv, UnqueuedIsNew
<1>5. \A i \in Pending : told[i] # "withdrawn"
  BY <1>3 DEF QueueInv, WithdrawnSettled
<1> QED
  BY <1>2, <1>3, <1>4, <1>5

\* The input of the active Run is not pending.
LEMMA RunFacts ==
    ASSUME QueueInv, initial # None
    PROVE  /\ initial \in Unqueued /\ initial \in Items
           /\ initial \notin Pending
           /\ initial \notin QueuedIn(log)
           /\ ~inserted => initial \notin MessagesOf(log)
           /\ told[initial] # "withdrawn"
<1>1. initial \in Items /\ initial \in Unqueued
  BY DEF QueueInv, TypeOK, RunInput, Unqueued
<1> QED
  BY <1>1 DEF QueueInv, UnqueuedIsNew, RunInput, WithdrawnSettled

\* An item that was never queued is settled.
LEMMA NeverQueuedSettled ==
    ASSUME NEW l \in Seq(Entry), NEW n \in Nat, NEW i, i \notin QueuedIn(l)
    PROVE  SettledIn(l, n, i)
<1>1. \A m \in 1..Len(l) : ~(l[m].item = i /\ l[m].type = "enqueued")
  BY DEF QueuedIn
<1>2. 0 \in 0..n
  OBVIOUS
<1> QED
  BY <1>1, <1>2 DEF SettledIn

\* A step of the queue that inserts nothing: items may leave, and the waiters of
\* items that left under a synced cancellation may be given them back.
LEMMA Move ==
    ASSUME QueueInv, TypeOK', RunHasInput', LanesApart',
           UNCHANGED <<initial, inserted, stage>>,
           NEW Q, Extended(log, log', {}, Q), synced <= synced',
           Q \subseteq Pending, Pending' \subseteq Pending,
           \A i \in Items :
              \/ told'[i] = told[i]
              \/ /\ told[i] = "nothing"
                 /\ told'[i] # "nothing"
                 /\ told'[i] = "withdrawn" =>
                      /\ i \in Pending /\ i \notin Pending'
                      /\ SettledIn(log', synced', i)
    PROVE  QueueInv'
<1>1. log \in Seq(Entry) /\ log' \in Seq(Entry)
  BY DEF QueueInv, TypeOK
<1>2. Once(log') /\ MessagesOf(log') \subseteq MessagesOf(log)
  BY <1>1, ExtendedHolds DEF QueueInv
<1>3. Unqueued' = Unqueued
  BY DEF Unqueued
<1>4. RunInput'
  <2>1. initial # None => initial \in Items
    BY DEF QueueInv, TypeOK
  <2> QED
    BY <2>1, <1>2 DEF QueueInv, RunInput
<1>5. ASSUME NEW i \in Pending'
      PROVE  i \notin MessagesOf(log) \cup {} /\ i \notin Unqueued' /\ told'[i] # "withdrawn"
  BY <1>3, PendingFacts
<1>6. ASSUME NEW i \in Unqueued'
      PROVE  /\ i \in Unqueued
             /\ i \notin Q
             /\ stage'[i] # "running" => stage[i] # "running" /\ i \notin {}
  BY <1>3, PendingFacts
<1>7. ASSUME NEW i \in Items, told'[i] = "withdrawn"
      PROVE  /\ i \notin Unqueued'
             /\ i \notin MessagesOf(log) \cup {}
             /\ \/ told[i] = "withdrawn" /\ i \notin Q
                \/ SettledIn(log', synced', i)
  <2>1. CASE told[i] = "withdrawn"
    BY <2>1, <1>3, PendingFacts DEF QueueInv, WithdrawnSettled
  <2>2. CASE told[i] # "withdrawn"
    BY <2>2, <1>3, <1>7, PendingFacts
  <2> QED
    BY <2>1, <2>2
<1> QED
  BY <1>2, <1>4, <1>5, <1>6, <1>7, Advance

\* Returning a claim moves it to the front of its lane.
LEMMA ReturnClaimApart ==
    ASSUME TypeOK, LanesApart, ReturnClaim
    PROVE  LanesApart' /\ Pending' \subseteq Pending
<1>1. /\ steering \in Seq(Items) /\ followUp \in Seq(Items)
      /\ In(steering) \subseteq Items /\ In(followUp) \subseteq Items
  BY InFinite DEF TypeOK
<1>2. CASE claimed = None
  <2>1. UNCHANGED <<steering, followUp, claimed>>
    BY <1>2 DEF ReturnClaim
  <2> QED
    BY <2>1 DEF LanesApart, Waiting, Pending
<1>3. CASE claimed # None /\ lane[claimed] = "steering"
  <2>1. claimed \in Items
    BY <1>3 DEF TypeOK
  <2>2. steering' = <<claimed>> \o steering /\ followUp' = followUp /\ claimed' = None
    BY <1>3 DEF ReturnClaim
  <2>3. In(steering') = In(steering) \cup {claimed} /\ NoDup(steering')
    BY <1>1, <2>1, <2>2, InPrepend DEF LanesApart, Waiting
  <2> QED
    BY <1>1, <1>3, <2>1, <2>2, <2>3, ItemsAssumption DEF LanesApart, Waiting, Pending
<1>4. CASE claimed # None /\ lane[claimed] # "steering"
  <2>1. claimed \in Items /\ lane[claimed] = "followUp"
    BY <1>4 DEF TypeOK, Lanes
  <2>2. followUp' = <<claimed>> \o followUp /\ steering' = steering /\ claimed' = None
    BY <1>4, <2>1 DEF ReturnClaim
  <2>3. In(followUp') = In(followUp) \cup {claimed} /\ NoDup(followUp')
    BY <1>1, <2>1, <2>2, InPrepend DEF LanesApart, Waiting
  <2> QED
    BY <1>1, <1>4, <2>1, <2>2, <2>3, ItemsAssumption DEF LanesApart, Waiting, Pending
<1> QED
  BY <1>2, <1>3, <1>4

\* Claiming the next item takes it out of its lane.
LEMMA ClaimApart ==
    ASSUME TypeOK, LanesApart, NEW b \in BOOLEAN, ClaimNextOrClose(b)
    PROVE  LanesApart' /\ Pending' \subseteq Pending
<1>1. /\ steering \in Seq(Items) /\ followUp \in Seq(Items)
      /\ In(steering) \subseteq Items /\ In(followUp) \subseteq Items
  BY InFinite DEF TypeOK
<1>2. CASE steering # <<>>
  <2>1. claimed' = Head(steering) /\ steering' = Tail(steering) /\ followUp' = followUp
    BY <1>2 DEF ClaimNextOrClose
  <2>2. /\ In(steering) = In(steering') \cup {claimed'} /\ claimed' \in Items
        /\ NoDup(steering') /\ claimed' \notin In(steering')
    BY <1>1, <1>2, <2>1, InTail DEF LanesApart
  <2> QED
    BY <2>1, <2>2, ItemsAssumption DEF LanesApart, Waiting, Pending
<1>3. CASE steering = <<>> /\ b /\ followUp # <<>>
  <2>1. claimed' = Head(followUp) /\ steering' = steering /\ followUp' = Tail(followUp)
    BY <1>3 DEF ClaimNextOrClose
  <2>2. /\ In(followUp) = In(followUp') \cup {claimed'} /\ claimed' \in Items
        /\ NoDup(followUp') /\ claimed' \notin In(followUp')
    BY <1>1, <1>3, <2>1, InTail DEF LanesApart
  <2> QED
    BY <2>1, <2>2, ItemsAssumption DEF LanesApart, Waiting, Pending
<1>4. CASE steering = <<>> /\ ~(b /\ followUp # <<>>)
  <2>1. claimed' = None /\ steering' = steering /\ followUp' = followUp
    BY <1>4 DEF ClaimNextOrClose
  <2> QED
    BY <1>1, <2>1, ItemsAssumption DEF LanesApart, Waiting, Pending
<1> QED
  BY <1>2, <1>3, <1>4

\* Removing items from both lanes.
LEMMA KeepApart ==
    ASSUME TypeOK, LanesApart, NEW R, UNCHANGED claimed,
           steering' \in Keep(steering, R), followUp' \in Keep(followUp, R)
    PROVE  /\ LanesApart'
           /\ Waiting' = Waiting \ R
           /\ Pending' \subseteq Pending
           /\ \A i \in Waiting : i \in R => i \notin Pending'
<1>1. In(steering') = In(steering) \ R /\ NoDup(steering')
  BY KeepRest DEF TypeOK
<1>2. In(followUp') = In(followUp) \ R /\ NoDup(followUp')
  BY KeepRest DEF TypeOK
<1>3. Waiting' = Waiting \ R
  BY <1>1, <1>2 DEF Waiting
<1>4. LanesApart'
  BY <1>1, <1>2, <1>3 DEF LanesApart
<1>5. Pending' \subseteq Pending /\ \A i \in Waiting : i \in R => i \notin Pending'
  BY <1>3 DEF Pending, LanesApart
<1> QED
  BY <1>3, <1>4, <1>5

\* Steps in which items leave the queue, or move in it.
LEMMA MoveSteps ==
    ASSUME QueueInv, TypeOK', RunHasInput',
           \/ \E i \in Items : Remove(i) \/ Promote(i)
           \/ Clear
           \/ WithdrawOk /\ UNCHANGED <<initial, inserted, stage>>
           \/ TurnFails \/ TurnCancelled
           \/ \E tools \in BOOLEAN : NextTurn(tools)
    PROVE  QueueInv'
<1>0. /\ TypeOK /\ LanesApart /\ log \in Seq(Entry)
      /\ synced \in Nat /\ Len(log) \in Nat /\ synced <= Len(log)
  BY DEF QueueInv, TypeOK
<1>1. ASSUME NEW i \in Items, Remove(i) PROVE QueueInv'
  <2> DEFINE r == <<Cancelled(i)>>
  <2>1. r \in Seq(Entry) /\ CommitOk(r) /\ Len(r) = 1 /\ r[1] = Cancelled(i)
    BY <1>1, EntryFields DEF Remove
  <2>2. \A k \in 1..Len(r) : r[k].type = "cancelled"
    BY DEF Cancelled
  <2> HIDE DEF r
  <2>3. Extended(log, log', {}, {}) /\ synced <= synced'
    BY <1>0, <2>1, <2>2, CommitOkExtends
  <2>4. SettledIn(log', synced', i)
    BY <1>0, <2>1, <2>2, CommitSettles
  <2>5. UNCHANGED <<initial, inserted, stage, claimed>>
    BY <1>1 DEF Remove, runVars
  <2>6. steering' \in Keep(steering, {i}) /\ followUp' \in Keep(followUp, {i}) /\ i \in Waiting
    BY <1>1 DEF Remove
  <2>7. LanesApart' /\ Pending' \subseteq Pending /\ i \notin Pending'
    BY <1>0, <2>5, <2>6, KeepApart
  <2>8. \A j \in Items : told'[j] = told[j]
                           \/ (told[j] = "nothing" /\ told'[j] = "withdrawn" /\ j = i)
    BY <1>0, <1>1, TellFacts DEF Remove, Tellings
  <2>9. i \in Pending
    BY <2>6, PendingFacts
  <2> QED
    BY <2>3, <2>4, <2>5, <2>7, <2>8, <2>9, Move
<1>2. ASSUME NEW i \in Items, Promote(i) PROVE QueueInv'
  <2> DEFINE r == <<Enqueued(i, "steering")>>
  <2>1. r \in Seq(Entry) /\ CommitOk(r)
    BY <1>2, EntryFields DEF Promote, Lanes
  <2>2. \A k \in 1..Len(r) : r[k].type = "enqueued" /\ r[k].item \in {i}
    BY DEF Enqueued
  <2> HIDE DEF r
  <2>3. Extended(log, log', {}, {i}) /\ synced <= synced'
    BY <1>0, <2>1, <2>2, CommitOkExtends
  <2>4. UNCHANGED <<initial, inserted, stage, claimed, told>>
    BY <1>2 DEF Promote, runVars
  <2>5. /\ followUp' \in Keep(followUp, {i}) /\ steering' = Append(steering, i)
        /\ i \in In(followUp) /\ i \notin In(steering)
    BY <1>2 DEF Promote
  <2>6. In(followUp') = In(followUp) \ {i} /\ NoDup(followUp')
    BY <1>0, <2>5, KeepRest DEF TypeOK
  <2>7. In(steering') = In(steering) \cup {i} /\ NoDup(steering')
    BY <1>0, <2>5, InAppend DEF TypeOK, LanesApart
  <2>8. Waiting' = Waiting
    BY <2>5, <2>6, <2>7 DEF Waiting
  <2>9. LanesApart' /\ Pending' = Pending
    BY <1>0, <2>4, <2>6, <2>7, <2>8 DEF LanesApart, Pending
  <2>10. {i} \subseteq Pending
    BY <2>5, PendingFacts DEF Waiting
  <2> QED
    BY <2>3, <2>4, <2>9, <2>10, Move
<1>3. ASSUME Clear PROVE QueueInv'
  <2>1. ClearRecords \in Seq(Entry) /\ CommitOk(ClearRecords)
    BY <1>0, <1>3, ClearRecordsHold DEF Clear
  <2>2. \A k \in 1..Len(ClearRecords) : ClearRecords[k].type = "cancelled"
    BY <1>0, ClearRecordsHold
  <2>3. Extended(log, log', {}, {}) /\ synced <= synced'
    BY <1>0, <2>1, <2>2, CommitOkExtends
  <2>4. \A i \in Waiting : SettledIn(log', synced', i)
    <3> TAKE i \in Waiting
    <3>1. PICK k \in 1..Len(ClearRecords) : ClearRecords[k] = Cancelled(i)
      BY <1>0, ClearRecordsHold
    <3> QED
      BY <1>0, <2>1, <2>2, <3>1, CommitSettles
  <2>5. UNCHANGED <<initial, inserted, stage, claimed>>
    BY <1>3 DEF Clear, runVars
  <2>6. steering' = <<>> /\ followUp' = <<>>
    BY <1>3 DEF Clear
  <2>7. In(steering') = {} /\ In(followUp') = {} /\ NoDup(steering') /\ NoDup(followUp')
    BY <2>6 DEF In, NoDup
  <2>8. LanesApart' /\ Pending' \subseteq Pending /\ Pending' \cap Waiting = {}
    BY <1>0, <2>5, <2>7 DEF LanesApart, Pending, Waiting
  <2>9. \A j \in Items : told'[j] = told[j]
                           \/ (told[j] = "nothing" /\ told'[j] = "withdrawn" /\ j \in Waiting)
    BY <1>0, <1>3, TellFacts DEF Clear, Tellings
  <2> QED
    BY <2>3, <2>4, <2>5, <2>8, <2>9, PendingFacts, Move
<1>4. ASSUME WithdrawOk, UNCHANGED <<initial, inserted, stage>> PROVE QueueInv'
  <2>1. PICK w \in Keep(steering \o followUp, Waiting \ Withdrawable) :
          IF w = <<>> THEN UNCHANGED <<logVars, budget>>
          ELSE CommitOk([k \in 1..Len(w) |-> Cancelled(w[k])])
    BY <1>4 DEF WithdrawOk
  <2>2. w \in Seq(Items) /\ In(w) = Withdrawable
    BY <1>0, WithdrawnList
  <2>3. /\ Extended(log, log', {}, {}) /\ synced <= synced'
        /\ \A i \in Withdrawable : SettledIn(log', synced', i)
    <3>1. CASE w = <<>>
      <4>1. Withdrawable = {}
        BY <2>2, <3>1 DEF In
      <4>2. log' = log /\ synced' = synced
        BY <2>1, <3>1 DEF logVars
      <4> QED
        BY <4>1, <4>2, <1>0, SameExtends
    <3>2. CASE w # <<>>
      <4> DEFINE r == [k \in 1..Len(w) |-> Cancelled(w[k])]
      <4>1. r \in Seq(Entry) /\ CommitOk(r) /\ Len(r) = Len(w)
        BY <2>1, <2>2, <3>2, CancelRecords
      <4>2. \A k \in 1..Len(r) : r[k] = Cancelled(w[k])
        BY <4>1
      <4> HIDE DEF r
      <4>3. \A k \in 1..Len(r) : r[k].type = "cancelled"
        <5>1. \A x : Cancelled(x).type = "cancelled"
          BY DEF Cancelled
        <5> QED
          BY <4>2, <5>1
      <4>4. Extended(log, log', {}, {}) /\ synced <= synced'
        BY <1>0, <4>1, <4>3, CommitOkExtends
      <4>5. ASSUME NEW i \in Withdrawable PROVE SettledIn(log', synced', i)
        <5>1. PICK k \in 1..Len(w) : w[k] = i
          BY <2>2 DEF In
        <5>2. k \in 1..Len(r) /\ r[k] = Cancelled(i)
          BY <4>1, <4>2, <5>1
        <5> QED
          BY <1>0, <4>1, <4>3, <5>2, CommitSettles
      <4> QED
        BY <4>4, <4>5
    <3> QED
      BY <3>1, <3>2
  <2>4. UNCHANGED claimed
    BY <1>4 DEF WithdrawOk
  <2>5. steering' \in Keep(steering, Withdrawable) /\ followUp' \in Keep(followUp, Withdrawable)
    BY <1>4 DEF WithdrawOk
  <2>6. Withdrawable \subseteq Waiting
    BY DEF Withdrawable
  <2>7. /\ LanesApart' /\ Pending' \subseteq Pending
        /\ \A i \in Withdrawable : i \in Pending /\ i \notin Pending'
    BY <1>0, <2>4, <2>5, <2>6, KeepApart, PendingFacts
  <2>8. \A j \in Items : told'[j] = told[j]
                           \/ (told[j] = "nothing" /\ told'[j] = "withdrawn" /\ j \in Withdrawable)
    BY <1>0, <1>4, TellFacts DEF WithdrawOk, Tellings
  <2> QED
    BY <1>4, <2>3, <2>7, <2>8, Move
<1>5. ASSUME TurnFails \/ TurnCancelled PROVE QueueInv'
  <2>1. UNCHANGED <<initial, inserted, stage, told, log, synced>> /\ ReturnClaim
    BY <1>5 DEF TurnFails, TurnCancelled, logVars
  <2>2. Extended(log, log', {}, {}) /\ synced <= synced'
    BY <1>0, <2>1, SameExtends
  <2>3. LanesApart' /\ Pending' \subseteq Pending
    BY <1>0, <2>1, ReturnClaimApart
  <2> QED
    BY <2>1, <2>2, <2>3, Move
<1>6. ASSUME NEW tools \in BOOLEAN, NextTurn(tools) PROVE QueueInv'
  <2>1. /\ UNCHANGED <<initial, inserted, stage, told, log>> /\ synced' = Len(log)
        /\ ClaimNextOrClose(~tools)
    BY <1>6 DEF NextTurn, RecordTurn
  <2>2. Extended(log, log', {}, {}) /\ synced <= synced'
    BY <1>0, <2>1, SameExtends
  <2>3. (~tools) \in BOOLEAN
    OBVIOUS
  <2>4. LanesApart' /\ Pending' \subseteq Pending
    BY <1>0, <2>1, <2>3, ClaimApart
  <2> QED
    BY <2>1, <2>2, <2>4, Move
<1> QED
  BY <1>1, <1>2, <1>3, <1>4, <1>5, <1>6

\* A new entry of an accepted claim keeps messages unique, whether or not its
\* consumption record follows.
LEMMA OnceConcat ==
    ASSUME NEW l \in Seq(Entry), NEW r \in Seq(Entry), NEW i, Once(l),
           i \notin MessagesOf(l),
           \A k \in 1..Len(r) : r[k].type = "message" => k = 1 /\ r[k].item = i
    PROVE  Once(l \o r)
<1> DEFINE m == l \o r
<1>1. Len(l) \in Nat /\ Len(r) \in Nat /\ Len(m) = Len(l) + Len(r)
  OBVIOUS
<1>2. \A k \in 1..Len(l) : m[k] = l[k]
  OBVIOUS
<1>3. \A k \in 1..Len(m) : \/ k \in 1..Len(l)
                           \/ k - Len(l) \in 1..Len(r) /\ m[k] = r[k - Len(l)]
  BY <1>1
<1>4. \A k \in 1..Len(l) : l[k].type = "message" => l[k].item # i
  BY DEF MessagesOf
<1> HIDE DEF m
<1>5. \A k \in 1..Len(m) : m[k].type = "message" /\ k \notin 1..Len(l)
                              => k = Len(l) + 1 /\ m[k].item = i
  BY <1>1, <1>3
<1>6. Once(m)
  BY <1>2, <1>4, <1>5 DEF Once
<1> QED
  BY <1>6 DEF m

\* A Run's own input enters history.
LEMMA RunInserts ==
    ASSUME QueueInv, TypeOK', RunHasInput', initial # None, ~inserted,
           log' = Append(log, Message(initial)), inserted', synced <= synced',
           UNCHANGED <<steering, followUp, claimed, stage, initial>>,
           \A i \in Items : \/ told'[i] = told[i]
                            \/ told[i] = "nothing"
                                 /\ told'[i] \notin {"nothing", "withdrawn"},
           initial \in Prompts => told'[initial] # "nothing"
    PROVE  QueueInv'
<1>1. log \in Seq(Entry) /\ Once(log)
  BY DEF QueueInv, TypeOK
<1>2. Once(log') /\ Extended(log, log', {initial}, {})
  BY <1>1, RunFacts, OnceAppend
<1>3. LanesApart' /\ Pending' = Pending /\ Unqueued' = Unqueued
  BY DEF QueueInv, LanesApart, Pending, Waiting, Unqueued
<1>4. RunInput'
  BY DEF QueueInv, RunInput
<1>5. ASSUME NEW i \in Pending'
      PROVE  /\ i \notin MessagesOf(log) \cup {initial} /\ i \notin Unqueued'
             /\ told'[i] # "withdrawn"
  BY <1>3, PendingFacts, RunFacts
<1>6. ASSUME NEW i \in Unqueued'
      PROVE  /\ i \in Unqueued
             /\ i \notin {}
             /\ stage'[i] # "running" => stage[i] # "running" /\ i \notin {initial}
  BY <1>3 DEF QueueInv, RunInput
<1>7. ASSUME NEW i \in Items, told'[i] = "withdrawn"
      PROVE  /\ i \notin Unqueued'
             /\ i \notin MessagesOf(log) \cup {initial}
             /\ \/ told[i] = "withdrawn" /\ i \notin {}
                \/ SettledIn(log', synced', i)
  BY <1>3, <1>7, RunFacts DEF QueueInv, WithdrawnSettled
<1> QED
  BY <1>2, <1>3, <1>4, <1>5, <1>6, <1>7, Advance

\* A claimed item enters history, for certain or perhaps.
LEMMA ClaimInserts ==
    ASSUME QueueInv, TypeOK', RunHasInput', claimed # None, claimed' = None,
           UNCHANGED <<steering, followUp, stage, initial, inserted>>,
           Once(log'), Extended(log, log', {claimed}, {}), synced <= synced',
           \A i \in Items : \/ told'[i] = told[i]
                            \/ told[i] = "nothing"
                                 /\ told'[i] \notin {"nothing", "withdrawn"}
    PROVE  QueueInv'
<1>0. TypeOK /\ LanesApart /\ log \in Seq(Entry) /\ log' \in Seq(Entry)
  BY DEF QueueInv, TypeOK
<1>1. claimed \in Pending /\ claimed \in Items
  BY <1>0 DEF Pending, TypeOK
<1>2. Waiting' = Waiting /\ Pending' = Waiting /\ claimed \notin Waiting /\ Unqueued' = Unqueued
  BY <1>0 DEF LanesApart, Pending, Waiting, Unqueued
<1>3. LanesApart'
  BY <1>0, <1>2, PendingFacts, ItemsAssumption DEF LanesApart
<1>4. MessagesOf(log') \subseteq MessagesOf(log) \cup {claimed}
  BY <1>0, ExtendedHolds
<1>5. initial # None => initial # claimed /\ initial \in Items
  BY <1>1, RunFacts
<1>6. RunInput'
  BY <1>4, <1>5 DEF QueueInv, RunInput
<1>7. ASSUME NEW i \in Pending'
      PROVE  /\ i \notin MessagesOf(log) \cup {claimed} /\ i \notin Unqueued'
             /\ told'[i] # "withdrawn"
  BY <1>2, PendingFacts
<1>8. ASSUME NEW i \in Unqueued'
      PROVE  /\ i \in Unqueued
             /\ i \notin {}
             /\ stage'[i] # "running" => stage[i] # "running" /\ i \notin {claimed}
  BY <1>1, <1>2, PendingFacts
<1>9. ASSUME NEW i \in Items, told'[i] = "withdrawn"
      PROVE  /\ i \notin Unqueued'
             /\ i \notin MessagesOf(log) \cup {claimed}
             /\ \/ told[i] = "withdrawn" /\ i \notin {}
                \/ SettledIn(log', synced', i)
  BY <1>1, <1>2, <1>9, PendingFacts DEF QueueInv, WithdrawnSettled
<1> QED
  BY <1>3, <1>6, <1>7, <1>8, <1>9, Advance

\* Steps that put an input into history.
LEMMA InsertSteps ==
    ASSUME QueueInv, TypeOK', RunHasInput',
           InsertInitial \/ ConsumeClaimed \/ ConsumeFails \/ Settle \/ SettleFails
    PROVE  QueueInv'
<1>0. /\ TypeOK /\ RunHasInput /\ log \in Seq(Entry) /\ Once(log)
      /\ synced \in Nat /\ Len(log) \in Nat /\ synced <= Len(log)
  BY DEF QueueInv, TypeOK
<1>1. CASE InsertInitial
  <2>1. /\ UNCHANGED <<steering, followUp, claimed, stage, initial, synced>>
        /\ log' = Append(log, Message(initial)) /\ ~inserted /\ inserted' /\ phase = "turn"
    BY <1>1 DEF InsertInitial, queueVars
  <2>5. told' = IF initial \in Prompts THEN Tell({initial}, "inserted") ELSE told
    BY <1>1 DEF InsertInitial
  <2>2. initial # None
    BY <1>0, <2>1 DEF RunHasInput
  <2>3. \A i \in Items : told'[i] = told[i] \/ (told[i] = "nothing" /\ told'[i] = "inserted")
    BY <1>0, <2>5, TellFacts DEF Tellings
  <2>4. initial \in Prompts => told'[initial] # "nothing"
    BY <1>0, <2>5, ItemsAssumption DEF Tell, Items
  <2>6. synced <= synced'
    BY <1>0, <2>1
  <2> QED
    BY <2>1, <2>2, <2>3, <2>4, <2>6, RunInserts
<1> DEFINE r == <<Message(claimed), Consumed(claimed)>>
<1>2. ASSUME claimed # None
      PROVE  /\ claimed \in Items /\ r \in Seq(Entry) /\ Len(r) = 2
             /\ \A k \in 1..Len(r) :
                   /\ r[k].type = "message" => k = 1 /\ r[k].item = claimed
                   /\ r[k].type # "enqueued"
             /\ claimed \notin MessagesOf(log)
  <2>1. claimed \in Items /\ claimed \in Pending
    BY <1>0, <1>2 DEF TypeOK, Pending
  <2>2. r \in Seq(Entry) /\ Len(r) = 2 /\ r[1] = Message(claimed) /\ r[2] = Consumed(claimed)
    BY <2>1, EntryFields
  <2>3. \A k \in 1..Len(r) : /\ r[k].type = "message" => k = 1 /\ r[k].item = claimed
                            /\ r[k].type # "enqueued"
    BY DEF Message, Consumed
  <2> QED
    BY <2>1, <2>2, <2>3, PendingFacts
<1> HIDE DEF r
<1>3. CASE ConsumeClaimed
  <2>1. /\ claimed # None /\ claimed' = None /\ log' = log \o r
        /\ UNCHANGED <<steering, followUp, stage, initial, inserted, synced>>
    BY <1>3 DEF ConsumeClaimed, r
  <2>5. told' = IF claimed \in Prompts THEN Tell({claimed}, "inserted") ELSE told
    BY <1>3 DEF ConsumeClaimed
  <2>2. Once(log')
    BY <1>0, <1>2, <2>1, OnceConcat
  <2>3. Extended(log, log', {claimed}, {})
    BY <1>0, <1>2, <2>1, ConcatExtends
  <2>4. \A i \in Items : told'[i] = told[i] \/ (told[i] = "nothing" /\ told'[i] = "inserted")
    BY <1>0, <2>5, TellFacts DEF Tellings
  <2>6. synced <= synced'
    BY <1>0, <2>1
  <2> QED
    BY <2>1, <2>2, <2>3, <2>4, <2>6, ClaimInserts
<1>4. CASE ConsumeFails
  <2>1. /\ claimed # None /\ claimed' = None /\ CommitFails(r)
        /\ UNCHANGED <<steering, followUp, stage, initial, inserted>>
        /\ told' = Tell({claimed}, "error")
    BY <1>4 DEF ConsumeFails, r
  <2>2. Extended(log, log', {claimed}, {}) /\ synced' = synced
    BY <1>0, <1>2, <2>1, CommitFailsExtends
  <2>3. Once(log')
    <3>1. CASE UNCHANGED log
      BY <1>0, <3>1
    <3>2. CASE \E n \in 0..Len(r) : log' = log \o SubSeq(r, 1, n)
      <4>1. PICK n \in 0..Len(r) : log' = log \o SubSeq(r, 1, n)
        BY <3>2
      <4> DEFINE t == SubSeq(r, 1, n)
      <4>2. t \in Seq(Entry) /\ Len(t) = n /\ \A k \in 1..Len(t) : k \in 1..Len(r) /\ t[k] = r[k]
        BY <1>2, <2>1, PrefixHolds
      <4> HIDE DEF t
      <4>3. Once(log \o t)
        BY <1>0, <1>2, <2>1, <4>2, OnceConcat
      <4> QED
        BY <4>1, <4>3 DEF t
    <3> QED
      BY <2>1, <3>1, <3>2 DEF CommitFails
  <2>4. \A i \in Items : told'[i] = told[i] \/ (told[i] = "nothing" /\ told'[i] = "error")
    BY <1>0, <2>1, TellFacts DEF Tellings
  <2>5. synced <= synced'
    BY <1>0, <2>2
  <2> QED
    BY <2>1, <2>2, <2>3, <2>4, <2>5, ClaimInserts
<1>5. CASE Settle
  <2>1. /\ UNCHANGED <<steering, followUp, claimed, stage, initial>> /\ phase = "settling"
        /\ log' = IF Retained THEN Append(log, Message(initial)) ELSE log
        /\ synced' = Len(log') /\ told' = Tell(submissions, "answered")
        /\ inserted' = (inserted \/ Retained)
    BY <1>5 DEF Settle, queueVars
  <2>2. initial # None
    BY <1>0, <2>1 DEF RunHasInput
  <2>3. \A i \in Items : told'[i] = told[i] \/ (told[i] = "nothing" /\ told'[i] = "answered")
    BY <1>0, <2>1, TellFacts DEF Tellings
  <2>4. CASE Retained
    <3>1. ~inserted /\ initial \notin Prompts /\ inserted' /\ log' = Append(log, Message(initial))
      BY <2>1, <2>4 DEF Retained
    <3>2. initial \in Items
      BY <2>2, RunFacts
    <3>3. Len(log') = Len(log) + 1
      BY <1>0, <3>1, <3>2, EntryFields
    <3>4. synced <= synced'
      BY <1>0, <2>1, <3>3
    <3> QED
      BY <2>1, <2>2, <2>3, <3>1, <3>4, RunInserts
  <2>5. CASE ~Retained
    <3>1. UNCHANGED <<log, inserted>> /\ synced <= synced'
      BY <1>0, <2>1, <2>5 DEF TypeOK
    <3> QED
      BY <2>1, <2>3, <3>1, QuietSame
  <2> QED
    BY <2>4, <2>5
<1>6. CASE SettleFails
  <2>1. /\ UNCHANGED <<steering, followUp, claimed, stage, initial, told, synced>>
        /\ phase = "settling"
    BY <1>6 DEF SettleFails, queueVars
  <2>2. initial # None
    BY <1>0, <2>1 DEF RunHasInput
  <2>3. CASE UNCHANGED <<log, inserted>>
    BY <1>0, <2>1, <2>3, QuietSame
  <2>4. CASE Retained /\ log' = Append(log, Message(initial)) /\ inserted' = TRUE
    <3>1. ~inserted /\ initial \notin Prompts /\ inserted'
      BY <2>4 DEF Retained
    <3> QED
      BY <1>0, <2>1, <2>2, <2>4, <3>1, RunInserts
  <2> QED
    BY <1>6, <2>3, <2>4 DEF SettleFails
<1> QED
  BY <1>1, <1>3, <1>4, <1>5, <1>6

\* An input turned away before it was queued.
LEMMA Rejected ==
    ASSUME QueueInv, TypeOK', RunHasInput', NEW i \in Items,
           stage[i] \in {"arrived", "gate"}, stage' = [stage EXCEPT ![i] = "out"],
           told' = Tell({i}, "withdrawn"),
           UNCHANGED <<steering, followUp, claimed, initial, inserted, log, synced>>
    PROVE  QueueInv'
<1>0. /\ TypeOK /\ log \in Seq(Entry) /\ Once(log) /\ stage \in [Items -> Stages]
      /\ synced \in Nat
  BY DEF QueueInv, TypeOK
<1>1. \A j \in Items : stage'[j] = IF j = i THEN "out" ELSE stage[j]
  BY <1>0
<1>2. Unqueued' = Unqueued \ {i} /\ i \in Unqueued
  BY <1>1 DEF Unqueued
<1>3. i \notin MessagesOf(log) /\ i \notin QueuedIn(log)
  BY <1>2 DEF QueueInv, UnqueuedIsNew
<1>4. SettledIn(log', synced', i)
  BY <1>0, <1>3, NeverQueuedSettled
<1>5. \A j \in Items : told'[j] = told[j]
                         \/ (told[j] = "nothing" /\ told'[j] = "withdrawn" /\ j = i)
  BY <1>0, TellFacts DEF Tellings
<1>6. LanesApart' /\ Pending' = Pending
  BY DEF QueueInv, LanesApart, Pending, Waiting
<1>7. initial # None => initial \in Items /\ initial # i
  BY <1>1, RunFacts DEF QueueInv, RunInput
<1>8. RunInput'
  BY <1>1, <1>5, <1>7 DEF QueueInv, RunInput
<1>9. Extended(log, log', {}, {}) /\ synced <= synced' /\ Once(log')
  BY <1>0, SameExtends
<1>10. ASSUME NEW j \in Pending'
       PROVE  j \notin MessagesOf(log) \cup {} /\ j \notin Unqueued' /\ told'[j] # "withdrawn"
  BY <1>2, <1>5, <1>6, PendingFacts
<1>11. ASSUME NEW j \in Unqueued'
       PROVE  /\ j \in Unqueued
              /\ j \notin {}
              /\ stage'[j] # "running" => stage[j] # "running" /\ j \notin {}
  BY <1>1, <1>2 DEF Unqueued
<1>12. ASSUME NEW j \in Items, told'[j] = "withdrawn"
       PROVE  /\ j \notin Unqueued'
              /\ j \notin MessagesOf(log) \cup {}
              /\ \/ told[j] = "withdrawn" /\ j \notin {}
                 \/ SettledIn(log', synced', j)
  BY <1>2, <1>3, <1>4, <1>5, <1>12 DEF QueueInv, WithdrawnSettled
<1> QED
  BY <1>6, <1>8, <1>9, <1>10, <1>11, <1>12, Advance

\* An input accepted into the queue.
LEMMA EnqueueStep ==
    ASSUME QueueInv, TypeOK', RunHasInput', NEW i \in Items, NEW q \in Lanes, Enqueue(i, q)
    PROVE  QueueInv'
<1>0. /\ TypeOK /\ LanesApart /\ log \in Seq(Entry) /\ log' \in Seq(Entry)
      /\ Once(log) /\ stage \in [Items -> Stages]
  BY DEF QueueInv, TypeOK
<1>1. stage[i] = "arrived" /\ stage' = [stage EXCEPT ![i] = "queued"]
  BY DEF Enqueue
<1>2. i \in Unqueued /\ Unqueued' = Unqueued \ {i}
  BY <1>0, <1>1 DEF Unqueued
<1>3. i \notin Pending /\ i \notin MessagesOf(log) /\ told[i] # "withdrawn"
  BY <1>1, <1>2 DEF QueueInv, UnqueuedIsNew, WithdrawnSettled
<1> DEFINE r == <<Enqueued(i, q)>>
<1>4. r \in Seq(Entry) /\ CommitOk(r)
  BY EntryFields DEF Enqueue
<1>5. \A k \in 1..Len(r) : r[k].type = "enqueued" /\ r[k].item \in {i}
  BY DEF Enqueued
<1> HIDE DEF r
<1>6. Extended(log, log', {}, {i}) /\ synced <= synced'
  BY <1>0, <1>4, <1>5, CommitOkExtends
<1>7. Once(log') /\ MessagesOf(log') \subseteq MessagesOf(log)
  BY <1>0, <1>6, ExtendedHolds
<1>8. UNCHANGED <<claimed, initial, inserted, told>>
  BY DEF Enqueue, runVars
<1>9. Waiting \subseteq Pending /\ i # None
  BY PendingFacts, ItemsAssumption
<1>10. LanesApart' /\ Pending' = Pending \cup {i}
  <2>1. CASE q = "steering"
    <3>1. steering' = Append(steering, i) /\ followUp' = followUp
      BY <2>1 DEF Enqueue
    <3>2. In(steering') = In(steering) \cup {i} /\ NoDup(steering')
      BY <1>0, <1>3, <1>9, <3>1, InAppend DEF TypeOK, LanesApart, Waiting
    <3> QED
      BY <1>0, <1>3, <1>8, <1>9, <3>1, <3>2 DEF LanesApart, Pending, Waiting
  <2>2. CASE q = "followUp"
    <3>1. followUp' = Append(followUp, i) /\ steering' = steering
      BY <2>2 DEF Enqueue
    <3>2. In(followUp') = In(followUp) \cup {i} /\ NoDup(followUp')
      BY <1>0, <1>3, <1>9, <3>1, InAppend DEF TypeOK, LanesApart, Waiting
    <3> QED
      BY <1>0, <1>3, <1>8, <1>9, <3>1, <3>2 DEF LanesApart, Pending, Waiting
  <2> QED
    BY <2>1, <2>2 DEF Lanes
<1>11. initial # None => initial \in Items /\ initial # i
  BY <1>1, RunFacts DEF QueueInv, RunInput
<1>12. RunInput'
  BY <1>0, <1>1, <1>7, <1>8, <1>11 DEF QueueInv, RunInput
<1>13. ASSUME NEW j \in Pending'
       PROVE  j \notin MessagesOf(log) \cup {} /\ j \notin Unqueued' /\ told'[j] # "withdrawn"
  BY <1>2, <1>3, <1>8, <1>10, PendingFacts
<1>14. ASSUME NEW j \in Unqueued'
       PROVE  /\ j \in Unqueued
              /\ j \notin {i}
              /\ stage'[j] # "running" => stage[j] # "running" /\ j \notin {}
  BY <1>0, <1>1, <1>2 DEF Unqueued
<1>15. ASSUME NEW j \in Items, told'[j] = "withdrawn"
       PROVE  /\ j \notin Unqueued'
              /\ j \notin MessagesOf(log) \cup {}
              /\ \/ told[j] = "withdrawn" /\ j \notin {i}
                 \/ SettledIn(log', synced', j)
  BY <1>2, <1>3, <1>8, <1>15 DEF QueueInv, WithdrawnSettled
<1> QED
  BY <1>6, <1>7, <1>10, <1>12, <1>13, <1>14, <1>15, Advance

\* A Run starts with the input that held the gate.
LEMMA StartRunStep ==
    ASSUME QueueInv, TypeOK', RunHasInput', NEW i \in Items, StartRun(i)
    PROVE  QueueInv'
<1>0. /\ TypeOK /\ log \in Seq(Entry) /\ Once(log) /\ stage \in [Items -> Stages]
      /\ synced \in Nat
  BY DEF QueueInv, TypeOK
<1>1. /\ stage[i] = "gate" /\ stage' = [stage EXCEPT ![i] = "running"]
      /\ initial' = i /\ inserted' = FALSE
      /\ UNCHANGED <<steering, followUp, claimed, told, log, synced>>
  BY DEF StartRun, queueVars, logVars
<1>2. \A j \in Items : stage'[j] = IF j = i THEN "running" ELSE stage[j]
  BY <1>0, <1>1
<1>3. i \in Unqueued /\ Unqueued' = Unqueued
  BY <1>1, <1>2 DEF Unqueued
<1>4. i \notin MessagesOf(log)
  BY <1>1, <1>3 DEF QueueInv, UnqueuedIsNew
<1>5. LanesApart' /\ Pending' = Pending
  BY <1>1 DEF QueueInv, LanesApart, Pending, Waiting
<1>6. RunInput'
  BY <1>1, <1>2, <1>4 DEF RunInput
<1>7. Extended(log, log', {}, {}) /\ synced <= synced' /\ Once(log')
  BY <1>0, <1>1, SameExtends
<1>8. ASSUME NEW j \in Pending'
      PROVE  j \notin MessagesOf(log) \cup {} /\ j \notin Unqueued' /\ told'[j] # "withdrawn"
  BY <1>1, <1>3, <1>5, PendingFacts
<1>9. ASSUME NEW j \in Unqueued'
      PROVE  /\ j \in Unqueued
             /\ j \notin {}
             /\ stage'[j] # "running" => stage[j] # "running" /\ j \notin {}
  BY <1>2, <1>3 DEF Unqueued
<1>10. ASSUME NEW j \in Items, told'[j] = "withdrawn"
       PROVE  /\ j \notin Unqueued'
              /\ j \notin MessagesOf(log) \cup {}
              /\ \/ told[j] = "withdrawn" /\ j \notin {}
                 \/ SettledIn(log', synced', j)
  BY <1>1, <1>3, <1>10 DEF QueueInv, WithdrawnSettled
<1> QED
  BY <1>5, <1>6, <1>7, <1>8, <1>9, <1>10, Advance

\* A Run lets go of the Session.
LEMMA ReleaseStep ==
    ASSUME QueueInv, TypeOK', RunHasInput', initial # None, LanesApart',
           Pending' \subseteq Pending, UNCHANGED <<log, synced>>,
           NEW result \in Tellings, result # "nothing", ReleaseRun(result),
           result = "withdrawn" => initial \in Prompts
    PROVE  QueueInv'
<1>0. /\ TypeOK /\ log \in Seq(Entry) /\ Once(log) /\ stage \in [Items -> Stages]
      /\ synced \in Nat
  BY DEF QueueInv, TypeOK
<1>1. initial' = None /\ stage' = [stage EXCEPT ![initial] = "out"]
  BY DEF ReleaseRun
<1>2. initial \in Items /\ initial \in Unqueued /\ initial \notin QueuedIn(log)
  BY RunFacts
<1>3. \A j \in Items : stage'[j] = IF j = initial THEN "out" ELSE stage[j]
  BY <1>0, <1>1, <1>2
<1>4. Unqueued' = Unqueued \ {initial}
  BY <1>3 DEF Unqueued
<1>5. RunInput'
  BY <1>1 DEF RunInput
<1>6. told' = [i \in Items |->
                  IF i = initial THEN Tell({i}, result)[i]
                  ELSE Tell(submissions, "answered")[i]]
  BY DEF ReleaseRun
<1>7. \A j \in Items : Tell(submissions, "answered")[j] = "withdrawn" => told[j] = "withdrawn"
  BY <1>0, TellFacts DEF Tellings
<1>8. \A j \in Items : told'[j] = "withdrawn" /\ j # initial => told[j] = "withdrawn"
  BY <1>6, <1>7
<1>9. ASSUME told'[initial] = "withdrawn"
      PROVE  initial \notin MessagesOf(log) /\ SettledIn(log', synced', initial)
  <2>1. Tell({initial}, result)[initial] = "withdrawn"
    BY <1>2, <1>6, <1>9
  <2>2. told[initial] = "nothing" /\ result = "withdrawn"
    BY <1>0, <1>2, <2>1, TellFacts, RunFacts
  <2>3. ~inserted
    BY <2>2 DEF QueueInv, RunInput
  <2> QED
    BY <1>0, <1>2, <2>3, RunFacts, NeverQueuedSettled
<1>10. Extended(log, log', {}, {}) /\ synced <= synced' /\ Once(log')
  BY <1>0, SameExtends
<1>11. ASSUME NEW j \in Pending'
       PROVE  j \notin MessagesOf(log) \cup {} /\ j \notin Unqueued' /\ told'[j] # "withdrawn"
  BY <1>4, <1>8, PendingFacts, RunFacts
<1>12. ASSUME NEW j \in Unqueued'
       PROVE  /\ j \in Unqueued
              /\ j \notin {}
              /\ stage'[j] # "running" => stage[j] # "running" /\ j \notin {}
  BY <1>3, <1>4 DEF Unqueued
<1>13. ASSUME NEW j \in Items, told'[j] = "withdrawn"
       PROVE  /\ j \notin Unqueued'
              /\ j \notin MessagesOf(log) \cup {}
              /\ \/ told[j] = "withdrawn" /\ j \notin {}
                 \/ SettledIn(log', synced', j)
  <2>1. CASE j = initial
    BY <2>1, <1>4, <1>9, <1>13
  <2>2. CASE j # initial
    BY <2>2, <1>4, <1>8, <1>13 DEF QueueInv, WithdrawnSettled
  <2> QED
    BY <2>1, <2>2
<1> QED
  BY <1>5, <1>10, <1>11, <1>12, <1>13, Advance

\* A restart from what the disk kept.
LEMMA ReopenStep ==
    ASSUME QueueInv, TypeOK', RunHasInput', Reopen
    PROVE  QueueInv'
<1>0. /\ TypeOK /\ log \in Seq(Entry) /\ log' \in Seq(Entry) /\ Once(log)
      /\ synced \in 0..Len(log) /\ Len(log) \in Nat
  BY DEF QueueInv, TypeOK
<1>1. PICK n \in synced..Len(log) : log' = SubSeq(log, 1, n) /\ synced' = n
  BY DEF Reopen
<1>2. n \in 0..Len(log)
  BY <1>0
<1>3. /\ MessagesOf(log') \subseteq MessagesOf(log)
      /\ QueuedIn(log') \subseteq QueuedIn(log)
      /\ Once(log')
  BY <1>0, <1>1, <1>2, PrefixHolds
<1>4. /\ In(steering') = {i \in Live(log') : LaneIn(log', i) = "steering"}
      /\ NoDup(steering')
  BY <1>0, RestoredLaneHolds DEF Reopen, Lanes
<1>5. /\ In(followUp') = {i \in Live(log') : LaneIn(log', i) = "followUp"}
      /\ NoDup(followUp')
  BY <1>0, RestoredLaneHolds DEF Reopen, Lanes
<1>6. claimed' = None /\ initial' = None
  BY DEF Reopen
<1>7. Live(log') \subseteq Items
  BY DEF Live
<1>8. Waiting' \subseteq Live(log') /\ Pending' \subseteq Live(log')
  BY <1>4, <1>5, <1>6 DEF Waiting, Pending
<1>9. LanesApart'
  BY <1>4, <1>5, <1>6, <1>7, <1>8, ItemsAssumption DEF LanesApart
<1>10. RunInput'
  BY <1>6 DEF RunInput
<1>11. Live(log') \subseteq QueuedIn(log') \ MessagesOf(log')
  BY <1>0, LiveQueued
<1>12. Pending' \cap MessagesOf(log)' = {}
  BY <1>8, <1>11
<1>13. \A i \in Items : stage'[i] = IF stage[i] = "new" THEN "new" ELSE "out"
  BY DEF Reopen
<1>14. \A i \in Unqueued' : i \in Unqueued /\ stage[i] = "new"
  BY <1>13 DEF Unqueued
<1>15. UnqueuedIsNew'
  <2> SUFFICES ASSUME NEW i \in Unqueued'
               PROVE  /\ i \notin Pending'
                      /\ i \notin QueuedIn(log')
                      /\ stage'[i] # "running" => i \notin MessagesOf(log')
    BY DEF UnqueuedIsNew
  <2>1. i \notin QueuedIn(log) /\ i \notin MessagesOf(log)
    BY <1>14 DEF QueueInv, UnqueuedIsNew
  <2> QED
    BY <2>1, <1>3, <1>8, <1>11
<1>16. \A i \in Items : told'[i] = "withdrawn" => told[i] = "withdrawn"
  BY <1>0, TellFacts DEF Reopen, Tellings
<1>17. WithdrawnSettled'
  <2> SUFFICES ASSUME NEW i \in Items, told'[i] = "withdrawn"
               PROVE  /\ i \notin Unqueued' /\ i \notin Pending'
                      /\ i \notin MessagesOf(log')
                      /\ SettledIn(log', synced', i)
    BY DEF WithdrawnSettled
  <2>1. i \notin Unqueued /\ i \notin MessagesOf(log) /\ SettledIn(log, synced, i)
    BY <1>16 DEF QueueInv, WithdrawnSettled
  <2>2. i \notin Live(log') /\ SettledIn(log', synced', i)
    BY <2>1, <1>0, <1>1, SettledNotLive
  <2> QED
    BY <2>1, <2>2, <1>3, <1>8, <1>14
<1> QED
  BY <1>3, <1>9, <1>10, <1>12, <1>15, <1>17 DEF QueueInv

\* The invariant is inductive.
LEMMA QueueInvStep ==
    ASSUME QueueInv, [Next]_vars
    PROVE  QueueInv'
<1>0. TypeOK /\ RunHasInput /\ LanesApart
  BY DEF QueueInv
<1>1. TypeOK' /\ RunHasInput'
  BY <1>0, TypeStep
<1>2. ASSUME RunStep PROVE QueueInv'
  <2>1. ASSUME RunWithdraws PROVE QueueInv'
    <3>1. UNCHANGED <<initial, inserted, stage>> /\ (WithdrawOk \/ WithdrawFails)
      BY <2>1 DEF RunWithdraws
    <3> QED
      BY <1>1, <3>1, MoveSteps, FailedCommitSteps
  <2>2. ASSUME FinishRun PROVE QueueInv'
    <3>1. UNCHANGED <<steering, followUp, claimed, log, synced>> /\ phase = "ending"
      BY <2>2 DEF FinishRun, logVars
    <3>2. LanesApart' /\ Pending' \subseteq Pending
      BY <1>0, <3>1 DEF LanesApart, Pending, Waiting
    <3>3. initial # None
      BY <1>0, <3>1 DEF RunHasInput
    <3>4. /\ RunResult \in Tellings /\ RunResult # "nothing"
          /\ RunResult = "withdrawn" => initial \in Prompts
      BY <1>0 DEF RunResult, Tellings, TypeOK
    <3>5. ReleaseRun(RunResult)
      BY <2>2 DEF FinishRun
    <3> QED
      BY <1>1, <3>1, <3>2, <3>3, <3>4, <3>5, ReleaseStep
  <2> QED
    BY <1>1, <1>2, <2>1, <2>2, QuietSteps, MoveSteps, InsertSteps DEF RunStep
<1>3. ASSUME NEW i \in Items, ItemStep(i) \/ Remove(i) \/ Promote(i) PROVE QueueInv'
  BY <1>1, <1>3, QuietSteps, FailedCommitSteps, MoveSteps, EnqueueStep, StartRunStep
     DEF ItemStep
<1>4. ASSUME NEW p \in Prompts, RejectStale(p) \/ ClientLeaves(p) PROVE QueueInv'
  <2>1. ASSUME RejectStale(p) PROVE QueueInv'
    <3>1. /\ stage[p] \in {"arrived", "gate"} /\ stage' = [stage EXCEPT ![p] = "out"]
          /\ told' = Tell({p}, "withdrawn")
          /\ UNCHANGED <<steering, followUp, claimed, initial, inserted, log, synced>>
      BY <2>1 DEF RejectStale, queueVars, runVars, logVars
    <3>2. p \in Items
      BY DEF Items
    <3> QED
      BY <1>1, <3>1, <3>2, Rejected
  <2> QED
    BY <1>1, <1>4, <2>1, QuietSteps
<1>5. ASSUME NEW s \in Submissions, RejectOrphan(s) \/ SubmitReturns(s) PROVE QueueInv'
  <2>1. ASSUME RejectOrphan(s) PROVE QueueInv'
    <3>1. /\ stage[s] \in {"arrived", "gate"} /\ stage' = [stage EXCEPT ![s] = "out"]
          /\ told' = Tell({s}, "withdrawn")
          /\ UNCHANGED <<steering, followUp, claimed, initial, inserted, log, synced>>
      BY <2>1 DEF RejectOrphan, queueVars, runVars, logVars
    <3>2. s \in Items
      BY DEF Items
    <3> QED
      BY <1>1, <3>1, <3>2, Rejected
  <2> QED
    BY <1>1, <1>5, <2>1, QuietSteps
<1>6. ASSUME NEW x \in Stoppers, CancelTokens(x) \/ StopStep(x) PROVE QueueInv'
  <2>1. ASSUME CancelWithdraws(x) PROVE QueueInv'
    <3>1. UNCHANGED <<initial, inserted, stage>> /\ (WithdrawOk \/ WithdrawFails)
      BY <2>1 DEF CancelWithdraws, runVars
    <3> QED
      BY <1>1, <3>1, MoveSteps, FailedCommitSteps
  <2> QED
    BY <1>1, <1>6, <2>1, QuietSteps DEF StopStep
<1>7. ASSUME DropRun PROVE QueueInv'
  <2>1. ReturnClaim /\ ReleaseRun("lost") /\ UNCHANGED <<log, synced>> /\ phase # "idle"
    BY <1>7 DEF DropRun, logVars
  <2>2. LanesApart' /\ Pending' \subseteq Pending
    BY <1>0, <2>1, ReturnClaimApart
  <2>3. initial # None
    BY <1>0, <2>1 DEF RunHasInput
  <2>4. "lost" \in Tellings
    BY DEF Tellings
  <2> QED
    BY <1>1, <2>1, <2>2, <2>3, <2>4, ReleaseStep
<1>8. ASSUME Clear \/ MutationFails \/ ParentCancelsRun \/ Reopen PROVE QueueInv'
  BY <1>1, <1>8, MoveSteps, FailedCommitSteps, QuietSteps, ReopenStep
<1>9. CASE UNCHANGED vars
  <2>1. /\ UNCHANGED <<steering, followUp, claimed, initial, inserted, log, stage, told>>
        /\ synced' = synced /\ synced <= synced'
    BY <1>0, <1>9 DEF vars, TypeOK
  <2> QED
    BY <1>1, <2>1, QuietSame
<1> QED
  BY <1>2, <1>3, <1>4, <1>5, <1>6, <1>7, <1>8, <1>9 DEF Next

\* The invariant holds in every reachable state.
THEOREM QueueInvariant == Spec => []QueueInv
<1>1. Init => QueueInv
  <2> SUFFICES ASSUME Init PROVE QueueInv
    OBVIOUS
  <2>1. TypeOK /\ RunHasInput
    BY InitTypes
  <2>2. steering = <<>> /\ followUp = <<>> /\ claimed = None /\ log = <<>> /\ initial = None
    BY DEF Init
  <2>3. In(steering) = {} /\ In(followUp) = {} /\ NoDup(steering) /\ NoDup(followUp)
    BY <2>2 DEF In, NoDup
  <2>4. MessagesOf(log) = {} /\ QueuedIn(log) = {} /\ Once(log)
    BY <2>2 DEF MessagesOf, QueuedIn, Once
  <2>5. LanesApart /\ Pending = {}
    BY <2>2, <2>3 DEF LanesApart, Waiting, Pending
  <2>6. UnqueuedIsNew /\ RunInput
    BY <2>2, <2>4, <2>5 DEF UnqueuedIsNew, RunInput
  <2>7. WithdrawnSettled
    BY DEF Init, WithdrawnSettled
  <2> QED
    BY <2>1, <2>4, <2>5, <2>6, <2>7 DEF QueueInv
<1>2. QueueInv /\ [Next]_vars => QueueInv'
  BY QueueInvStep
<1> QED
  BY <1>1, <1>2, PTL DEF Spec

\* No input is inserted into history twice and nothing pending is in history,
\* however claims are returned, commits fail and the process crashes between the
\* message entry and its consumption record.
THEOREM HistoryIsOnce == Spec => []HistoryOnce
<1>1. QueueInv => HistoryOnce
  BY DEF QueueInv, HistoryOnce, Once
<1> QED
  BY <1>1, QueueInvariant, PTL

\* An input given back to its submitter never runs: it is in no lane, not in
\* history, and no replay of a log that a crash may leave restores it.
THEOREM WithdrawalIsFinal == Spec => []WithdrawnIsFinal
<1>1. QueueInv => WithdrawnIsFinal
  <2> SUFFICES ASSUME QueueInv, NEW i \in Items, told[i] = "withdrawn"
               PROVE  /\ i \notin Pending
                      /\ i \notin MessagesOf(log)
                      /\ \A n \in synced..Len(log) : i \notin Live(SubSeq(log, 1, n))
    BY DEF WithdrawnIsFinal
  <2>1. i \notin Pending /\ i \notin MessagesOf(log) /\ SettledIn(log, synced, i)
    BY DEF QueueInv, WithdrawnSettled
  <2>2. log \in Seq(Entry) /\ synced \in 0..Len(log)
    BY DEF QueueInv, TypeOK
  <2> QED
    BY <2>1, <2>2, SettledNotLive
<1> QED
  BY <1>1, QueueInvariant, PTL

(***************************************************************************)
(* What success means for the queue.                                       *)
(***************************************************************************)

\* A Run that will succeed has emptied and closed the queue, and only its
\* settlement is left.
SuccessInv ==
    outcome = "succeeded" =>
        /\ steering = <<>> /\ followUp = <<>> /\ claimed = None
        /\ ~open
        /\ phase \in {"finishing", "settling", "ending"}

\* Only the last look at the queue makes a Run succeed, and it closes the queue
\* in the same step, so that nothing is accepted until the Run lets go.
LEMMA SuccessStep ==
    ASSUME TypeOK, SuccessInv, [Next]_vars
    PROVE  SuccessInv'
<1> USE DEF SuccessInv
<1>1. ASSUME NEW i \in Items, ItemStep(i) \/ Remove(i) \/ Promote(i) PROVE SuccessInv'
  <2>1. ASSUME \/ Arrive(i) \/ RejectUncertain(i) \/ EnqueueClosed(i) \/ StartRun(i)
               \/ \E q \in Lanes : Enqueue(i, q) \/ EnqueueFails(i, q)
        PROVE  SuccessInv'
    BY <2>1 DEF Arrive, RejectUncertain, EnqueueClosed, StartRun, Enqueue,
                EnqueueFails, queueVars, runVars
  <2>2. ASSUME Remove(i) \/ Promote(i) PROVE SuccessInv'
    <3>1. i \in Waiting /\ UNCHANGED <<outcome, open, claimed, phase>>
      BY <2>2 DEF Remove, Promote, runVars, Waiting
    <3>2. steering # <<>> \/ followUp # <<>>
      BY <3>1 DEF Waiting, In
    <3> QED
      BY <3>1, <3>2
  <2> QED
    BY <1>1, <2>1, <2>2 DEF ItemStep
<1>2. ASSUME NEW p \in Prompts, RejectStale(p) \/ ClientLeaves(p) PROVE SuccessInv'
  BY <1>2 DEF RejectStale, ClientLeaves, queueVars, runVars
<1>3. ASSUME NEW s \in Submissions, RejectOrphan(s) \/ SubmitReturns(s) PROVE SuccessInv'
  BY <1>3 DEF RejectOrphan, SubmitReturns, queueVars, runVars
<1>4. ASSUME WithdrawOk \/ WithdrawFails, outcome' = outcome, outcome = "succeeded"
      PROVE  /\ steering' = <<>> /\ followUp' = <<>> /\ claimed' = None /\ ~open'
  <2>1. CASE WithdrawFails
    BY <2>1, <1>4 DEF WithdrawFails
  <2>2. CASE WithdrawOk
    <3>1. /\ steering' \in Keep(steering, Withdrawable)
          /\ followUp' \in Keep(followUp, Withdrawable)
          /\ claimed' = claimed /\ open' = FALSE
      BY <2>2 DEF WithdrawOk
    <3>2. /\ steering' \in Seq(Items) /\ In(steering') = {}
          /\ followUp' \in Seq(Items) /\ In(followUp') = {}
      <4>1. steering \in Seq(Items) /\ In(steering) = {}
        BY <1>4 DEF TypeOK, In
      <4>2. followUp \in Seq(Items) /\ In(followUp) = {}
        BY <1>4 DEF TypeOK, In
      <4> QED
        BY <3>1, <4>1, <4>2, KeepRest
    <3>3. \A t \in Seq(Items) : In(t) = {} => t = <<>>
      BY DEF In
    <3> QED
      BY <1>4, <3>1, <3>2, <3>3
  <2> QED
    BY <1>4, <2>1, <2>2
<1>5. ASSUME NEW x \in Stoppers, CancelTokens(x) \/ StopStep(x) PROVE SuccessInv'
  <2>1. ASSUME CancelWithdraws(x) PROVE SuccessInv'
    BY <1>4, <2>1 DEF CancelWithdraws, runVars
  <2> QED
    BY <1>5, <2>1 DEF StopStep, CancelTokens, CancelCloses, queueVars, runVars
<1>6. ASSUME RunStep PROVE SuccessInv'
  <2>1. ASSUME \/ StartFails \/ OpenQueue \/ TurnFails \/ TurnCancelled
               \/ InsertInitial \/ ConsumeClaimed \/ ConsumeFails \/ ContinueTurn
               \/ ModelErrs \/ RetryTurn
               \/ \E o \in {"cancelled", "failed"} : EndTurn(o)
        PROVE  SuccessInv'
    BY <2>1 DEF StartFails, OpenQueue, TurnFails, TurnCancelled, InsertInitial,
                ConsumeClaimed, ConsumeFails, ContinueTurn, ModelErrs, RetryTurn,
                RecordTurn, EndTurn
  <2>2. ASSUME NEW tools \in BOOLEAN, NextTurn(tools) PROVE SuccessInv'
    <3>1. phase = "model" /\ outcome # "succeeded"
      BY <2>2 DEF NextTurn, RecordTurn
    <3>2. CASE tools \/ claimed' # None
      BY <2>2, <3>1, <3>2 DEF NextTurn
    <3>3. CASE ~tools /\ claimed' = None
      <4>1. /\ steering # <<>> => Head(steering) # None
            /\ followUp # <<>> => Head(followUp) # None
        BY ItemsAssumption DEF TypeOK
      <4>2. ClaimNextOrClose(~tools) /\ phase' = "finishing"
        BY <2>2, <3>3 DEF NextTurn
      <4>3. steering = <<>> /\ followUp = <<>>
        BY <3>3, <4>1, <4>2 DEF ClaimNextOrClose
      <4>4. steering' = <<>> /\ followUp' = <<>> /\ ~open'
        BY <3>3, <4>2, <4>3 DEF ClaimNextOrClose
      <4> QED
        BY <3>3, <4>2, <4>4
    <3> QED
      BY <3>2, <3>3
  <2>3. ASSUME CloseQueue \/ Settle \/ SettleFails \/ FinishRun PROVE SuccessInv'
    BY <2>3 DEF CloseQueue, Settle, SettleFails, FinishRun, ReleaseRun, queueVars
  <2>4. ASSUME RunWithdraws PROVE SuccessInv'
    BY <2>4 DEF RunWithdraws
  <2> QED
    BY <1>6, <2>1, <2>2, <2>3, <2>4 DEF RunStep
<1>7. ASSUME Clear \/ MutationFails \/ ParentCancelsRun \/ DropRun \/ Reopen
      PROVE  SuccessInv'
  BY <1>7 DEF Clear, MutationFails, ParentCancelsRun, DropRun, ReleaseRun, Reopen,
              queueVars, runVars
<1>8. ASSUME UNCHANGED vars PROVE SuccessInv'
  BY <1>8 DEF vars
<1> QED
  BY <1>1, <1>2, <1>3, <1>5, <1>6, <1>7, <1>8 DEF Next

\* A successful Run leaves no pending input behind, and none can be accepted
\* between claim_next_or_close finding the lanes empty and the end of the Run.
THEOREM SuccessLeavesNothing == Spec => []SuccessEmptiesQueue
<1>1. Init => SuccessInv
  BY DEF Init, SuccessInv
<1>2. TypeOK /\ SuccessInv /\ [Next]_vars => SuccessInv'
  BY SuccessStep
<1>3. SuccessInv => SuccessEmptiesQueue
  BY DEF SuccessInv, SuccessEmptiesQueue, Pending, Waiting, In
<1> QED
  BY <1>1, <1>2, <1>3, TypeCorrect, PTL DEF Spec

(***************************************************************************)
(* What a prompt's entry in history is worth.                              *)
(***************************************************************************)

\* The record of a consumption stands behind the entry it is about.
Explained(l) ==
    \A k \in 1..Len(l) : l[k].type = "consumed" =>
        \E j \in 1..k : l[j] = Message(l[k].item)

\* Any prefix of the records one operation appends keeps a log explained.
Explains(r) ==
    \/ \A k \in 1..Len(r) : r[k].type # "consumed"
    \/ \E i : r = <<Message(i), Consumed(i)>>

LEMMA ConcatExplained ==
    ASSUME NEW l \in Seq(Entry), NEW r \in Seq(Entry), Explained(l), Explains(r)
    PROVE  Explained(l \o r)
<1>1. /\ Len(l) \in Nat /\ Len(r) \in Nat /\ Len(l \o r) = Len(l) + Len(r)
      /\ \A k \in 1..Len(l) : (l \o r)[k] = l[k]
      /\ \A k \in 1..Len(r) : (l \o r)[Len(l) + k] = r[k]
      /\ \A k \in 1..Len(l \o r) : k \in 1..Len(l) \/ k - Len(l) \in 1..Len(r)
  OBVIOUS
<1> DEFINE m == l \o r
<1>2. ASSUME NEW k \in 1..Len(m), m[k].type = "consumed"
      PROVE  \E j \in 1..k : m[j] = Message(m[k].item)
  <2>1. CASE k \in 1..Len(l)
    BY <1>1, <1>2, <2>1 DEF Explained
  <2>2. CASE k \notin 1..Len(l)
    <3>1. k - Len(l) \in 1..Len(r) /\ m[k] = r[k - Len(l)]
      BY <1>1, <2>2
    <3>2. PICK i : r = <<Message(i), Consumed(i)>>
      BY <1>2, <3>1 DEF Explains
    <3>3. Len(r) = 2 /\ r[1] = Message(i) /\ r[2] = Consumed(i)
      BY <3>2
    <3>4. m[Len(l) + 1] = Message(i)
      BY <1>1, <3>3
    <3>5. Message(i).type = "message" /\ Consumed(i).item = i
      BY DEF Message, Consumed
    <3>6. k = Len(l) + 2 /\ m[k].item = i
      BY <1>1, <1>2, <3>1, <3>3, <3>5
    <3> QED
      BY <1>1, <3>4, <3>6
  <2> QED
    BY <2>1, <2>2
<1> QED
  BY <1>2 DEF Explained

LEMMA PrefixExplained ==
    ASSUME NEW l \in Seq(Entry), NEW n \in 0..Len(l), Explained(l)
    PROVE  Explained(SubSeq(l, 1, n))
<1> DEFINE m == SubSeq(l, 1, n)
<1>1. Len(m) = n /\ \A k \in 1..n : k \in 1..Len(l) /\ m[k] = l[k]
  OBVIOUS
<1>2. Len(l) \in Nat
  OBVIOUS
<1> HIDE DEF m
<1>3. Explained(m)
  BY <1>1, <1>2 DEF Explained
<1> QED
  BY <1>3 DEF m

\* A commit that fails may have written any prefix of its records.
LEMMA CommitExplained ==
    ASSUME TypeOK, Explained(log), NEW r \in Seq(Entry), Explains(r),
           CommitOk(r) \/ CommitFails(r)
    PROVE  Explained(log')
<1>1. log \in Seq(Entry)
  BY DEF TypeOK
<1>2. CASE log' = log
  BY <1>2
<1>3. CASE log' = log \o r
  BY <1>1, <1>3, ConcatExplained
<1>4. ASSUME NEW n \in 0..Len(r), log' = log \o SubSeq(r, 1, n) PROVE Explained(log')
  <2> DEFINE t == SubSeq(r, 1, n)
  <2>1. t \in Seq(Entry) /\ Len(t) = n /\ \A k \in 1..n : k \in 1..Len(r) /\ t[k] = r[k]
    OBVIOUS
  <2>2. Explained(log \o r)
    BY <1>1, ConcatExplained
  <2>3. log \o r \in Seq(Entry) /\ Len(log) + n \in 0..Len(log \o r)
    BY <1>1
  <2>4. log \o t = SubSeq(log \o r, 1, Len(log) + n)
    <3>1. log \o r \in Seq(Entry) /\ Len(log) \in Nat /\ Len(r) \in Nat /\ Len(log \o r) = Len(log) + Len(r)
      BY <1>1
    <3> DEFINE a == log \o t
               b == SubSeq(log \o r, 1, Len(log) + n)
    <3>2. a \in Seq(Entry) /\ b \in Seq(Entry) /\ Len(a) = Len(log) + n /\ Len(b) = Len(log) + n
      BY <1>1, <2>1, <3>1
    <3>3. \A k \in 1..(Len(log) + n) : a[k] = IF k <= Len(log) THEN log[k] ELSE t[k - Len(log)]
      BY <1>1, <2>1
    <3>4. \A k \in 1..(Len(log) + n) : b[k] = IF k <= Len(log) THEN log[k] ELSE r[k - Len(log)]
      BY <1>1, <3>1
    <3>5. \A k \in 1..(Len(log) + n) : k <= Len(log) \/ k - Len(log) \in 1..n
      BY <3>1
    <3> HIDE DEF a, b, t
    <3>6. \A k \in 1..(Len(log) + n) : a[k] = b[k]
      BY <2>1, <3>3, <3>4, <3>5
    <3>7. a = b
      BY <3>2, <3>6
    <3> QED
      BY <3>7 DEF a, b
  <2> QED
    BY <1>4, <2>2, <2>3, <2>4, PrefixExplained
<1> QED
  BY <1>2, <1>3, <1>4 DEF CommitOk, CommitFails

LEMMA OneRecordExplains ==
    ASSUME NEW e \in Entry, e.type # "consumed"
    PROVE  <<e>> \in Seq(Entry) /\ Explains(<<e>>)
BY DEF Explains

\* Cancellation records explain nothing and need no explanation.
LEMMA WithdrawExplained ==
    ASSUME TypeOK, Explained(log), WithdrawOk \/ WithdrawFails
    PROVE  Explained(log')
<1>1. PICK w \in Keep(steering \o followUp, Waiting \ Withdrawable) :
          \/ UNCHANGED log
          \/ CommitOk([k \in 1..Len(w) |-> Cancelled(w[k])])
          \/ CommitFails([k \in 1..Len(w) |-> Cancelled(w[k])])
  BY DEF WithdrawOk, WithdrawFails, logVars
<1> DEFINE r == [k \in 1..Len(w) |-> Cancelled(w[k])]
<1>2. w \in Seq(Items)
  BY WithdrawnList
<1>3. r \in Seq(Entry) /\ Len(r) = Len(w)
  BY <1>2, CancelRecords
<1>4. \A k \in 1..Len(r) : r[k].type # "consumed"
  BY <1>3 DEF Cancelled
<1> HIDE DEF r
<1>5. Explains(r)
  BY <1>4 DEF Explains
<1>6. UNCHANGED log \/ CommitOk(r) \/ CommitFails(r)
  BY <1>1 DEF r
<1> QED
  BY <1>3, <1>5, <1>6, CommitExplained

LEMMA ExplainedStep ==
    ASSUME TypeOK, RunHasInput, Explained(log), [Next]_vars
    PROVE  Explained(log')
<1>0. log \in Seq(Entry) /\ synced \in 0..Len(log) /\ Len(log) \in Nat
  BY DEF TypeOK
<1>1. ASSUME NEW i \in Items, ItemStep(i) \/ Remove(i) \/ Promote(i) PROVE Explained(log')
  <2>1. ASSUME NEW q \in Lanes PROVE Enqueued(i, q) \in Entry /\ Enqueued(i, q).type # "consumed"
    BY EntryFields DEF Enqueued
  <2>2. Cancelled(i) \in Entry /\ Cancelled(i).type # "consumed"
    BY EntryFields DEF Cancelled
  <2>3. ASSUME NEW q \in Lanes, \/ CommitOk(<<Enqueued(i, q)>>) \/ CommitFails(<<Enqueued(i, q)>>)
        PROVE  Explained(log')
    BY <2>1, <2>3, OneRecordExplains, CommitExplained
  <2>4. CASE Remove(i)
    BY <2>2, <2>4, OneRecordExplains, CommitExplained DEF Remove
  <2>5. CASE Promote(i)
    BY <2>3, <2>5 DEF Promote, Lanes
  <2>6. CASE ItemStep(i)
    BY <2>3, <2>6 DEF ItemStep, Enqueue, EnqueueFails, Arrive, RejectUncertain, EnqueueClosed,
                      StartRun, logVars
  <2> QED
    BY <1>1, <2>4, <2>5, <2>6
<1>2. ASSUME NEW x \in Stoppers, CancelTokens(x) \/ StopStep(x) PROVE Explained(log')
  <2>1. ASSUME CancelWithdraws(x) PROVE Explained(log')
    BY <2>1, WithdrawExplained DEF CancelWithdraws
  <2> QED
    BY <1>2, <2>1 DEF StopStep, CancelTokens, CancelCloses, logVars
<1>3. ASSUME RunStep PROVE Explained(log')
  <2>1. ASSUME RunWithdraws PROVE Explained(log')
    BY <2>1, WithdrawExplained DEF RunWithdraws
  <2>2. ASSUME ConsumeClaimed \/ ConsumeFails PROVE Explained(log')
    <3>1. claimed \in Items
      BY <2>2 DEF ConsumeClaimed, ConsumeFails, TypeOK
    <3>2. <<Message(claimed), Consumed(claimed)>> \in Seq(Entry)
      BY <3>1, EntryFields
    <3>3. Explains(<<Message(claimed), Consumed(claimed)>>)
      BY DEF Explains
    <3>4. CASE ConsumeClaimed
      BY <1>0, <3>2, <3>3, <3>4, ConcatExplained DEF ConsumeClaimed
    <3>5. CASE ConsumeFails
      BY <3>2, <3>3, <3>5, CommitExplained DEF ConsumeFails
    <3> QED
      BY <2>2, <3>4, <3>5
  <2>3. ASSUME InsertInitial \/ Settle \/ SettleFails PROVE Explained(log')
    <3>1. initial \in Items
      BY <2>3 DEF InsertInitial, Settle, SettleFails, RunHasInput, TypeOK
    <3>2. Message(initial) \in Entry /\ Message(initial).type # "consumed"
      BY <3>1, EntryFields DEF Message
    <3>3. Append(log, Message(initial)) = log \o <<Message(initial)>>
      BY <1>0, <3>2
    <3>4. log' = log \/ log' = log \o <<Message(initial)>>
      BY <2>3, <3>3 DEF InsertInitial, Settle, SettleFails
    <3> QED
      BY <1>0, <3>2, <3>4, OneRecordExplains, ConcatExplained
  <2>4. ASSUME \/ \E o \in {"cancelled", "failed"} : EndTurn(o)
               \/ RetryTurn
               \/ \E tools \in BOOLEAN : NextTurn(tools)
               \/ StartFails \/ OpenQueue \/ TurnFails \/ TurnCancelled
               \/ ContinueTurn \/ ModelErrs \/ CloseQueue \/ FinishRun
        PROVE  log' = log
    BY <2>4 DEF EndTurn, RetryTurn, NextTurn, StartFails, OpenQueue, TurnFails, TurnCancelled,
                ContinueTurn, ModelErrs, CloseQueue, FinishRun, logVars
  <2> QED
    BY <1>3, <2>1, <2>2, <2>3, <2>4 DEF RunStep
<1>4. ASSUME Clear \/ MutationFails PROVE Explained(log')
  <2>1. ClearRecords \in Seq(Entry) /\ Explains(ClearRecords)
    BY ClearRecordsHold DEF Explains
  <2>2. \A i \in Waiting : i \in Items
    BY DEF Waiting, In, TypeOK
  <2>3. \A i \in Waiting : <<Cancelled(i)>> \in Seq(Entry) /\ Explains(<<Cancelled(i)>>)
    <3> TAKE i \in Waiting
    <3>1. Cancelled(i) \in Entry /\ Cancelled(i).type # "consumed"
      BY <2>2, EntryFields DEF Cancelled
    <3> QED
      BY <3>1, OneRecordExplains
  <2>4. \A i \in In(followUp) : /\ <<Enqueued(i, "steering")>> \in Seq(Entry)
                                /\ Explains(<<Enqueued(i, "steering")>>)
    <3> TAKE i \in In(followUp)
    <3>1. /\ Enqueued(i, "steering") \in Entry /\ Enqueued(i, "steering").type # "consumed"
      BY <2>2, EntryFields DEF Enqueued, Lanes, Waiting
    <3> QED
      BY <3>1, OneRecordExplains
  <2> QED
    BY <1>4, <2>1, <2>3, <2>4, CommitExplained DEF Clear, MutationFails
<1>5. ASSUME Reopen PROVE Explained(log')
  <2>1. PICK n \in synced..Len(log) : log' = SubSeq(log, 1, n)
    BY <1>5 DEF Reopen
  <2>2. n \in 0..Len(log)
    BY <1>0, <2>1
  <2> QED
    BY <1>0, <2>1, <2>2, PrefixExplained
<1>6. ASSUME \/ \E p \in Prompts : RejectStale(p) \/ ClientLeaves(p)
             \/ \E s \in Submissions : RejectOrphan(s) \/ SubmitReturns(s)
             \/ ParentCancelsRun \/ DropRun \/ UNCHANGED vars
      PROVE  log' = log
  BY <1>6 DEF RejectStale, ClientLeaves, RejectOrphan, SubmitReturns, ParentCancelsRun, DropRun,
              vars, logVars
<1> QED
  BY <1>1, <1>2, <1>3, <1>4, <1>5, <1>6 DEF Next

\* An item with a queue record has a last one.
LEMMA HasLastRecord ==
    ASSUME NEW l \in Seq(Entry), NEW i, NEW k \in 1..Len(l),
           l[k].item = i, l[k].type # "message"
    PROVE  \E m \in 1..Len(l) : LastQueueRecord(l, i, m)
<1> DEFINE T == {m \in 1..Len(l) : l[m].item = i /\ l[m].type # "message"}
<1>1. Len(l) \in Nat /\ T \in SUBSET (1..Len(l)) /\ k \in T
  OBVIOUS
<1>2. PICK m \in T : \A j \in T : j <= m
  <2> HIDE DEF T
  <2> QED
    BY <1>1, Greatest
<1>3. \A j \in 1..Len(l) : j > m => j \notin T
  BY <1>2
<1> QED
  BY <1>3 DEF LastQueueRecord

\* A queued prompt is in history, restorable, or somebody cancelled it: told or not,
\* no consumption, failed write or crash makes it vanish.
THEOREM InsertionIsNotLost == Spec => []InsertedNotLost
<1>1. Init => Explained(log)
  BY DEF Init, Explained
<1>2. Init => TypeOK /\ RunHasInput
  BY InitTypes
<1>3. TypeOK /\ RunHasInput /\ [Next]_vars => (TypeOK /\ RunHasInput)'
  BY TypeStep
<1>4. ASSUME TypeOK, Explained(log) PROVE InsertedNotLost
  <2> SUFFICES ASSUME NEW p \in Prompts, NEW k \in 1..Len(log),
                      log[k].type = "enqueued", log[k].item = p,
                      p \notin MessagesOf(log),
                      \A j \in 1..Len(log) : log[j] # Cancelled(p)
               PROVE  p \in Live(log)
    BY DEF InsertedNotLost
  <2>1. log \in Seq(Entry) /\ Len(log) \in Nat /\ p \in Items
    BY <1>4 DEF TypeOK, Items
  <2>2. PICK m \in 1..Len(log) : LastQueueRecord(log, p, m)
    BY <2>1, HasLastRecord
  <2>3. log[m] \in Entry /\ log[m].item = p /\ log[m].type # "message"
    BY <2>1, <2>2 DEF LastQueueRecord
  <2>4. log[m].type # "cancelled"
    <3>1. \A e \in Entry : e.type = "cancelled" => e = Cancelled(e.item)
      BY DEF Entry, Cancelled
    <3> QED
      BY <2>3, <3>1
  <2>5. log[m].type # "consumed"
    <3> SUFFICES ASSUME log[m].type = "consumed" PROVE FALSE
      OBVIOUS
    <3>1. PICK j \in 1..m : log[j] = Message(p)
      BY <1>4, <2>3 DEF Explained
    <3>2. j \in 1..Len(log) /\ log[j].type = "message" /\ log[j].item = p
      BY <2>1, <3>1 DEF Message
    <3> QED
      BY <3>2 DEF MessagesOf
  <2>6. log[m].type = "enqueued"
    BY <2>3, <2>4, <2>5, EntryFields
  <2> QED
    BY <2>1, <2>2, <2>6 DEF Live
<1>5. TypeOK /\ RunHasInput /\ Explained(log) /\ [Next]_vars => Explained(log)'
  BY ExplainedStep
<1>6. TypeOK /\ Explained(log) => InsertedNotLost
  BY <1>4
<1> QED
  BY <1>1, <1>2, <1>3, <1>5, <1>6, PTL DEF Spec

(***************************************************************************)
(* Whoever waits is told before the Run lets go.                           *)
(***************************************************************************)

\* Where a Run accepts input, holds a claim and owes receipts.
RunPhases ==
    /\ open => phase \in {"turn", "model", "finishing"}
    /\ claimed # None => phase = "turn"
    /\ phase = "model" \/ claimed # None => inserted
    /\ phase \in {"idle", "starting"} => submissions = {}

LEMMA RunPhasesStep ==
    ASSUME TypeOK, RunPhases, [Next]_vars
    PROVE  RunPhases'
<1> USE DEF RunPhases
<1>1. ASSUME NEW i \in Items, ItemStep(i) \/ Remove(i) \/ Promote(i) PROVE RunPhases'
  <2>1. CASE StartRun(i)
    BY <2>1 DEF StartRun, queueVars
  <2>2. CASE ~StartRun(i)
    <3>1. UNCHANGED <<open, claimed, phase, inserted, submissions>>
      BY <1>1, <2>2 DEF ItemStep, Arrive, RejectUncertain, EnqueueClosed, Enqueue,
                        EnqueueFails, Remove, Promote, queueVars, runVars
    <3> QED
      BY <3>1
  <2> QED
    BY <2>1, <2>2
<1>2. ASSUME \/ \E p \in Prompts : RejectStale(p) \/ ClientLeaves(p)
             \/ \E s \in Submissions : RejectOrphan(s) \/ SubmitReturns(s)
             \/ \E x \in Stoppers : CancelTokens(x) \/ StopStep(x)
      PROVE  RunPhases'
  <2>1. UNCHANGED <<claimed, phase, inserted, submissions>> /\ (open' = open \/ open' = FALSE)
    BY <1>2 DEF RejectStale, ClientLeaves, RejectOrphan, SubmitReturns, CancelTokens, StopStep,
                CancelCloses, CancelWithdraws, WithdrawOk, WithdrawFails, queueVars, runVars
  <2> QED
    BY <2>1
<1>3. ASSUME RunStep PROVE RunPhases'
  <2>1. ASSUME \/ StartFails \/ OpenQueue \/ TurnFails \/ TurnCancelled
               \/ InsertInitial \/ ConsumeClaimed \/ ConsumeFails \/ ContinueTurn
               \/ ModelErrs \/ RetryTurn
               \/ \E o \in {"cancelled", "failed"} : EndTurn(o)
        PROVE  RunPhases'
    BY <2>1 DEF StartFails, OpenQueue, TurnFails, TurnCancelled, InsertInitial,
                ConsumeClaimed, ConsumeFails, ContinueTurn, ModelErrs, RetryTurn,
                RecordTurn, EndTurn, ReturnClaim, queueVars
  <2>2. ASSUME NEW tools \in BOOLEAN, NextTurn(tools) PROVE RunPhases'
    BY <2>2 DEF NextTurn, RecordTurn, ClaimNextOrClose
  <2>3. ASSUME CloseQueue \/ Settle \/ SettleFails \/ FinishRun \/ RunWithdraws PROVE RunPhases'
    BY <2>3 DEF CloseQueue, Settle, SettleFails, FinishRun, ReleaseRun, RunWithdraws,
                WithdrawOk, WithdrawFails, queueVars
  <2> QED
    BY <1>3, <2>1, <2>2, <2>3 DEF RunStep
<1>4. ASSUME Clear \/ MutationFails \/ ParentCancelsRun \/ DropRun \/ Reopen
      PROVE  RunPhases'
  BY <1>4 DEF Clear, MutationFails, ParentCancelsRun, DropRun, ReleaseRun, ReturnClaim, Reopen,
              queueVars, runVars
<1>5. ASSUME UNCHANGED vars PROVE RunPhases'
  BY <1>5 DEF vars
<1> QED
  BY <1>1, <1>2, <1>3, <1>4, <1>5 DEF Next

\* The waiters of what lies in the queue outside the phases that deal with it.
Untold == {i \in Waiting \ Messages : told[i] = "nothing"}
Between == {"idle", "starting", "settling", "ending"}
AllTold == ~dropped /\ phase \in Between => Untold = {}

\* Nothing new waits and nobody who was told is forgotten.
LEMMA UntoldShrinks ==
    ASSUME TypeOK, AllTold, Waiting' \subseteq Waiting, dropped => dropped',
           \A i \in Items : told[i] # "nothing" => told'[i] # "nothing",
           phase' \in Between => phase \in Between
    PROVE  AllTold'
<1>1. Waiting \subseteq Items
  BY DEF Waiting, In, TypeOK
<1> QED
  BY <1>1 DEF AllTold, Untold

LEMMA TellKeeps ==
    ASSUME TypeOK, NEW S, NEW what, what # "nothing"
    PROVE  /\ \A i \in Items : told[i] # "nothing" => Tell(S, what)[i] # "nothing"
           /\ \A i \in Items \cap S : i \notin Messages => Tell(S, what)[i] # "nothing"
BY DEF Tell, TypeOK

\* A withdrawal tells everybody who waits in the lanes it leaves.
LEMMA WithdrawalTells ==
    ASSUME TypeOK, WithdrawOk \/ WithdrawFails
    PROVE  /\ Waiting' \subseteq Waiting
           /\ \A i \in Items : told[i] # "nothing" => told'[i] # "nothing"
           /\ Untold' = {}
<1>0. Waiting \subseteq Items /\ steering \in Seq(Items) /\ followUp \in Seq(Items)
  BY DEF Waiting, In, TypeOK
<1>1. \A i \in Waiting : i \notin Messages /\ told[i] = "nothing" => i \in Withdrawable
  BY <1>0 DEF Withdrawable, Items
<1>2. CASE WithdrawOk
  <2>1. /\ steering' \in Keep(steering, Withdrawable)
        /\ followUp' \in Keep(followUp, Withdrawable)
        /\ told' = Tell(Withdrawable, "withdrawn")
    BY <1>2 DEF WithdrawOk
  <2>2. /\ In(steering') = In(steering) \ Withdrawable
        /\ In(followUp') = In(followUp) \ Withdrawable
    BY <1>0, <2>1, KeepRest
  <2>3. Waiting' = Waiting \ Withdrawable
    BY <2>2 DEF Waiting
  <2>4. \A i \in Items : i \notin Withdrawable => told'[i] = told[i]
    BY <2>1 DEF Tell
  <2>5. \A i \in Items : told[i] # "nothing" => told'[i] # "nothing"
    BY <2>1, TellKeeps
  <2> QED
    BY <1>0, <1>1, <2>3, <2>4, <2>5 DEF Untold
<1>3. CASE WithdrawFails
  <2>1. /\ steering' = steering /\ followUp' = followUp
        /\ told' = Tell(Withdrawable, "error")
    BY <1>3 DEF WithdrawFails
  <2>2. /\ \A i \in Items : told[i] # "nothing" => told'[i] # "nothing"
        /\ \A i \in Items \cap Withdrawable : i \notin Messages => told'[i] # "nothing"
    BY <2>1, TellKeeps
  <2>3. Waiting' = Waiting
    BY <2>1 DEF Waiting
  <2> QED
    BY <1>0, <1>1, <2>2, <2>3 DEF Untold
<1> QED
  BY <1>2, <1>3

\* What is told to waiters is told once and for all, by every step.
LEMMA ReleaseTells ==
    ASSUME TypeOK, NEW result, result # "nothing", ReleaseRun(result)
    PROVE  /\ \A i \in Items : told[i] # "nothing" => told'[i] # "nothing"
           /\ \A i \in (submissions \cap Items) \ {initial} :
                 i \notin Messages => told'[i] # "nothing"
<1>1. \A i \in Items : told'[i] = IF i = initial THEN Tell({i}, result)[i]
                                  ELSE Tell(submissions, "answered")[i]
  BY DEF ReleaseRun
<1>2. \A i \in Items : told[i] # "nothing" => /\ Tell({i}, result)[i] # "nothing"
                                              /\ Tell(submissions, "answered")[i] # "nothing"
  BY TellKeeps
<1>3. \A i \in Items \cap submissions : i \notin Messages => Tell(submissions, "answered")[i] # "nothing"
  BY TellKeeps
<1> QED
  BY <1>1, <1>2, <1>3

LEMMA RunResultTells == RunResult # "nothing" \/ failedBy \notin {"none", "cancelled", "other"}
BY DEF RunResult

\* No step leaves a waiter untold outside the phases in which the Run will tell it.
LEMMA AllToldStep ==
    ASSUME QueueInv, RunPhases, SuccessInv, AllTold, [Next]_vars
    PROVE  AllTold'
<1>0. TypeOK /\ steering \in Seq(Items) /\ followUp \in Seq(Items)
  BY DEF QueueInv, TypeOK
<1>1. ASSUME NEW i \in Items, ItemStep(i) \/ Remove(i) \/ Promote(i) PROVE AllTold'
  <2>1. CASE \E q \in Lanes : Enqueue(i, q)
    <3>1. open /\ phase' = phase
      BY <2>1 DEF Enqueue, runVars
    <3> QED
      BY <3>1 DEF AllTold, RunPhases, Between
  <2>2. CASE Remove(i)
    <3>1. In(steering') \subseteq In(steering) /\ In(followUp') \subseteq In(followUp)
      BY <1>0, <2>2, KeepRest DEF Remove
    <3>2. Waiting' \subseteq Waiting
      BY <3>1 DEF Waiting
    <3>3. \A j \in Items : told[j] # "nothing" => told'[j] # "nothing"
      BY <1>0, <2>2, TellKeeps DEF Remove
    <3> QED
      BY <1>0, <2>2, <3>2, <3>3, UntoldShrinks DEF Remove, runVars
  <2>3. CASE Promote(i)
    <3>1. In(followUp') \subseteq In(followUp)
      BY <1>0, <2>3, KeepRest DEF Promote
    <3>2. In(steering') = In(steering) \cup {i}
      BY <1>0, <2>3, InAppend DEF Promote
    <3>3. Waiting' \subseteq Waiting
      BY <2>3, <3>1, <3>2 DEF Waiting, Promote
    <3> QED
      BY <1>0, <2>3, <3>3, UntoldShrinks DEF Promote, runVars
  <2>4. CASE ItemStep(i) /\ ~\E q \in Lanes : Enqueue(i, q)
    <3>1. steering' = steering /\ followUp' = followUp /\ dropped' = dropped
      BY <2>4 DEF ItemStep, Arrive, RejectUncertain, EnqueueClosed, StartRun, EnqueueFails, queueVars
    <3>2. phase' = phase \/ (phase = "idle" /\ phase' = "starting")
      BY <2>4 DEF ItemStep, Arrive, RejectUncertain, EnqueueClosed, StartRun, EnqueueFails, runVars
    <3>3. told' = told \/ told' = Tell({i}, "error")
      BY <2>4 DEF ItemStep, Arrive, RejectUncertain, EnqueueClosed, StartRun, EnqueueFails
    <3>4. \A j \in Items : told[j] # "nothing" => told'[j] # "nothing"
      BY <1>0, <3>3, TellKeeps
    <3> QED
      BY <1>0, <3>1, <3>2, <3>4, UntoldShrinks DEF Waiting, Between
  <2> QED
    BY <1>1, <2>1, <2>2, <2>3, <2>4
<1>2. ASSUME \/ \E p \in Prompts : RejectStale(p) \/ ClientLeaves(p)
             \/ \E s \in Submissions : RejectOrphan(s) \/ SubmitReturns(s)
             \/ \E x \in Stoppers : CancelTokens(x) \/ CancelCloses(x)
             \/ MutationFails \/ ParentCancelsRun \/ UNCHANGED vars
      PROVE  AllTold'
  <2>1. /\ steering' = steering /\ followUp' = followUp /\ dropped' = dropped /\ phase' = phase
    BY <1>2 DEF RejectStale, ClientLeaves, RejectOrphan, SubmitReturns, CancelTokens, CancelCloses,
                MutationFails, ParentCancelsRun, vars, queueVars, runVars
  <2>2. told' = told \/ \E S, what : what # "nothing" /\ told' = Tell(S, what)
    BY <1>2 DEF RejectStale, ClientLeaves, RejectOrphan, SubmitReturns, CancelTokens, CancelCloses,
                MutationFails, ParentCancelsRun, vars
  <2>3. \A j \in Items : told[j] # "nothing" => told'[j] # "nothing"
    BY <1>0, <2>2, TellKeeps
  <2> QED
    BY <1>0, <2>1, <2>3, UntoldShrinks DEF Waiting
<1>3. ASSUME NEW x \in Stoppers, CancelWithdraws(x) PROVE AllTold'
  BY <1>0, <1>3, WithdrawalTells, UntoldShrinks DEF CancelWithdraws, runVars
<1>4. ASSUME Clear PROVE AllTold'
  <2>1. \A j \in Items : told[j] # "nothing" => told'[j] # "nothing"
    BY <1>0, <1>4, TellKeeps DEF Clear
  <2>2. Waiting' = {}
    BY <1>4 DEF Clear, Waiting, In
  <2> QED
    BY <1>0, <1>4, <2>1, <2>2, UntoldShrinks DEF Clear, runVars
<1>5. ASSUME RunStep PROVE AllTold'
  <2>1. ASSUME RunWithdraws PROVE AllTold'
    BY <1>0, <2>1, WithdrawalTells DEF RunWithdraws, AllTold
  <2>2. ASSUME \/ OpenQueue \/ TurnFails \/ TurnCancelled \/ InsertInitial \/ ConsumeClaimed
               \/ ConsumeFails \/ ContinueTurn \/ ModelErrs \/ RetryTurn
               \/ \E o \in {"cancelled", "failed"} : EndTurn(o)
               \/ \E tools \in BOOLEAN : NextTurn(tools)
        PROVE  phase' \notin Between
    BY <2>2 DEF OpenQueue, TurnFails, TurnCancelled, InsertInitial, ConsumeClaimed, ConsumeFails,
                ContinueTurn, ModelErrs, RetryTurn, EndTurn, NextTurn, Between
  <2>3. ASSUME CloseQueue PROVE AllTold'
    <3>1. CASE outcome # "succeeded"
      BY <2>3, <3>1 DEF CloseQueue, AllTold, Between
    <3>2. CASE outcome = "succeeded"
      <4>1. steering' = <<>> /\ followUp' = <<>>
        BY <2>3, <3>2 DEF CloseQueue, SuccessInv
      <4> QED
        BY <4>1 DEF AllTold, Untold, Waiting, In
    <3> QED
      BY <3>1, <3>2
  <2>4. ASSUME StartFails \/ Settle \/ SettleFails \/ FinishRun PROVE AllTold'
    <3>1. /\ steering' = steering /\ followUp' = followUp /\ dropped' = dropped
          /\ phase \in Between
      BY <2>4 DEF StartFails, Settle, SettleFails, FinishRun, queueVars, Between
    <3>2. \A j \in Items : told[j] # "nothing" => told'[j] # "nothing"
      <4>1. CASE FinishRun
        BY <1>0, <4>1, ReleaseTells, RunResultTells DEF FinishRun, TypeOK
      <4>2. CASE ~FinishRun
        BY <1>0, <2>4, <4>2, TellKeeps DEF StartFails, Settle, SettleFails
      <4> QED
        BY <4>1, <4>2
    <3> QED
      BY <1>0, <3>1, <3>2, UntoldShrinks DEF Waiting
  <2> QED
    BY <1>5, <2>1, <2>2, <2>3, <2>4 DEF RunStep, AllTold
<1>6. ASSUME DropRun PROVE AllTold'
  BY <1>6 DEF DropRun, AllTold
<1>7. ASSUME Reopen PROVE AllTold'
  <2>1. PICK n \in synced..Len(log) : log' = SubSeq(log, 1, n)
    BY <1>7 DEF Reopen
  <2>2. log \in Seq(Entry) /\ n \in 0..Len(log)
    BY <1>0, <2>1 DEF TypeOK
  <2>3. log' \in Seq(Entry) /\ QueuedIn(log') \subseteq QueuedIn(log)
    BY <2>1, <2>2, PrefixHolds
  <2>4. Live(log') \subseteq QueuedIn(log) /\ Live(log') \subseteq Items
    BY <2>3, LiveQueued DEF Live
  <2>5. Waiting' \subseteq Live(log')
    <3>1. /\ steering' \in RestoredLane(log', "steering") /\ followUp' \in RestoredLane(log', "followUp")
          /\ "steering" \in Lanes /\ "followUp" \in Lanes
      BY <1>7 DEF Reopen, Lanes
    <3>2. In(steering') \subseteq Live(log') /\ In(followUp') \subseteq Live(log')
      BY <2>3, <3>1, RestoredLaneHolds
    <3> QED
      BY <3>2 DEF Waiting
  <2>6. \A i \in Waiting' : i \in Items /\ stage[i] # "new"
    BY <2>4, <2>5 DEF QueueInv, UnqueuedIsNew, Unqueued
  <2>7. told' = Tell({i \in Items : stage[i] # "new"}, "lost")
    BY <1>7 DEF Reopen
  <2>8. \A i \in Waiting' : i \notin Messages => told'[i] # "nothing"
    BY <1>0, <2>6, <2>7, TellKeeps
  <2> QED
    BY <2>8 DEF AllTold, Untold
<1> QED
  BY <1>1, <1>2, <1>3, <1>4, <1>5, <1>6, <1>7 DEF Next, StopStep

\* What a commit may put into history.
LEMMA CommitMessages ==
    ASSUME TypeOK, NEW r \in Seq(Entry), CommitOk(r) \/ CommitFails(r), NEW M,
           \A k \in 1..Len(r) : r[k].type = "message" => r[k].item \in M
    PROVE  MessagesOf(log') \subseteq MessagesOf(log) \cup M
<1>1. \A k \in 1..Len(r) : r[k].type = "enqueued" => r[k].item \in Items
  BY EntryFields
<1>2. Extended(log, log', M, Items)
  BY <1>1, CommitOkExtends, CommitFailsExtends
<1>3. log \in Seq(Entry) /\ log' \in Seq(Entry)
  BY CommitOkType, CommitFailsType DEF TypeOK
<1> QED
  BY <1>2, <1>3, ExtendedHolds

LEMMA OneRecordMessages ==
    ASSUME TypeOK, NEW e \in Entry, e.type # "message",
           CommitOk(<<e>>) \/ CommitFails(<<e>>)
    PROVE  MessagesOf(log') \subseteq MessagesOf(log)
<1> DEFINE r == <<e>>
<1>1. r \in Seq(Entry) /\ \A k \in 1..Len(r) : r[k].type = "message" => r[k].item \in {}
  OBVIOUS
<1> HIDE DEF r
<1>2. CommitOk(r) \/ CommitFails(r)
  BY DEF r
<1>3. MessagesOf(log') \subseteq MessagesOf(log) \cup {}
  BY <1>1, <1>2, CommitMessages
<1> QED
  BY <1>3

LEMMA WithdrawMessages ==
    ASSUME TypeOK, WithdrawOk \/ WithdrawFails
    PROVE  MessagesOf(log') \subseteq MessagesOf(log)
<1>1. PICK w \in Keep(steering \o followUp, Waiting \ Withdrawable) :
          \/ UNCHANGED log
          \/ CommitOk([k \in 1..Len(w) |-> Cancelled(w[k])])
          \/ CommitFails([k \in 1..Len(w) |-> Cancelled(w[k])])
  BY DEF WithdrawOk, WithdrawFails, logVars
<1> DEFINE r == [k \in 1..Len(w) |-> Cancelled(w[k])]
<1>2. r \in Seq(Entry) /\ Len(r) = Len(w)
  BY WithdrawnList, CancelRecords
<1>3. \A k \in 1..Len(r) : r[k].type = "message" => r[k].item \in {}
  BY <1>2 DEF Cancelled
<1> HIDE DEF r
<1>4. UNCHANGED log \/ CommitOk(r) \/ CommitFails(r)
  BY <1>1 DEF r
<1>5. CommitOk(r) \/ CommitFails(r) => MessagesOf(log') \subseteq MessagesOf(log) \cup {}
  BY <1>2, <1>3, CommitMessages
<1> QED
  BY <1>4, <1>5

\* Only a consumption or the Run's own input puts something into history.
LEMMA NewMessages ==
    ASSUME TypeOK, RunHasInput, [Next]_vars
    PROVE  \/ MessagesOf(log') \subseteq MessagesOf(log)
           \/ /\ ConsumeClaimed \/ ConsumeFails
              /\ MessagesOf(log') \subseteq MessagesOf(log) \cup {claimed}
           \/ /\ InsertInitial \/ Settle \/ SettleFails
              /\ MessagesOf(log') \subseteq MessagesOf(log) \cup {initial}
<1>0. log \in Seq(Entry) /\ synced \in 0..Len(log) /\ Len(log) \in Nat
  BY DEF TypeOK
<1> DEFINE Goal == MessagesOf(log') \subseteq MessagesOf(log)
<1>1. ASSUME NEW i \in Items, ItemStep(i) \/ Remove(i) \/ Promote(i) PROVE Goal
  <2>1. ASSUME NEW q \in Lanes, CommitOk(<<Enqueued(i, q)>>) \/ CommitFails(<<Enqueued(i, q)>>)
        PROVE  Goal
    <3>1. Enqueued(i, q) \in Entry /\ Enqueued(i, q).type # "message"
      BY EntryFields DEF Enqueued
    <3> QED
      BY <2>1, <3>1, OneRecordMessages
  <2>2. CASE Remove(i)
    <3>1. Cancelled(i) \in Entry /\ Cancelled(i).type # "message"
      BY EntryFields DEF Cancelled
    <3> QED
      BY <2>2, <3>1, OneRecordMessages DEF Remove
  <2>3. CASE Promote(i)
    BY <2>1, <2>3 DEF Promote, Lanes
  <2>4. CASE ItemStep(i)
    BY <2>1, <2>4 DEF ItemStep, Enqueue, EnqueueFails, Arrive, RejectUncertain, EnqueueClosed,
                      StartRun, logVars
  <2> QED
    BY <1>1, <2>2, <2>3, <2>4
<1>2. ASSUME NEW x \in Stoppers, CancelTokens(x) \/ StopStep(x) PROVE Goal
  <2>1. ASSUME CancelWithdraws(x) PROVE Goal
    BY <2>1, WithdrawMessages DEF CancelWithdraws
  <2> QED
    BY <1>2, <2>1 DEF StopStep, CancelTokens, CancelCloses, logVars
<1>3. ASSUME RunWithdraws PROVE Goal
  BY <1>3, WithdrawMessages DEF RunWithdraws
<1>4. ASSUME ConsumeClaimed \/ ConsumeFails
      PROVE  MessagesOf(log') \subseteq MessagesOf(log) \cup {claimed}
  <2> DEFINE r == <<Message(claimed), Consumed(claimed)>>
  <2>1. claimed \in Items
    BY <1>4 DEF ConsumeClaimed, ConsumeFails, TypeOK
  <2>2. r \in Seq(Entry) /\ \A k \in 1..Len(r) : r[k].type = "message" => r[k].item \in {claimed}
    BY <2>1, EntryFields DEF Message, Consumed
  <2>3. log' = log \o r \/ CommitFails(r)
    BY <1>4 DEF ConsumeClaimed, ConsumeFails
  <2> HIDE DEF r
  <2>4. CASE CommitFails(r)
    BY <2>2, <2>4, CommitMessages
  <2>5. CASE log' = log \o r
    <3>1. \A k \in 1..Len(r) : r[k].type = "enqueued" => r[k].item \in Items
      BY <2>2, EntryFields
    <3>2. Extended(log, log \o r, {claimed}, Items)
      BY <1>0, <2>2, <3>1, ConcatExtends
    <3>3. Extended(log, log', {claimed}, Items) /\ log' \in Seq(Entry)
      BY <1>0, <2>2, <2>5, <3>2
    <3> QED
      BY <1>0, <3>3, ExtendedHolds
  <2> QED
    BY <2>3, <2>4, <2>5
<1>5. ASSUME InsertInitial \/ Settle \/ SettleFails
      PROVE  MessagesOf(log') \subseteq MessagesOf(log) \cup {initial}
  <2> DEFINE r == <<Message(initial)>>
  <2>1. initial \in Items
    BY <1>5 DEF InsertInitial, Settle, SettleFails, RunHasInput, TypeOK
  <2>2. /\ r \in Seq(Entry) /\ Append(log, Message(initial)) = log \o r
        /\ \A k \in 1..Len(r) : r[k].type = "message" /\ r[k].item \in {initial}
    BY <1>0, <2>1, EntryFields DEF Message
  <2>3. log' = log \/ log' = log \o r
    BY <1>5, <2>2 DEF InsertInitial, Settle, SettleFails
  <2> HIDE DEF r
  <2>4. CASE log' = log \o r
    <3>1. Extended(log, log', {initial}, {}) /\ log' \in Seq(Entry)
      BY <1>0, <2>2, <2>4, ConcatExtends
    <3> QED
      BY <1>0, <3>1, ExtendedHolds
  <2> QED
    BY <2>3, <2>4
<1>6. ASSUME \/ \E o \in {"cancelled", "failed"} : EndTurn(o)
             \/ RetryTurn
             \/ \E tools \in BOOLEAN : NextTurn(tools)
             \/ StartFails \/ OpenQueue \/ TurnFails \/ TurnCancelled
             \/ ContinueTurn \/ ModelErrs \/ CloseQueue \/ FinishRun
      PROVE  log' = log
  BY <1>6 DEF EndTurn, RetryTurn, NextTurn, StartFails, OpenQueue, TurnFails, TurnCancelled,
              ContinueTurn, ModelErrs, CloseQueue, FinishRun, logVars
<1>7. ASSUME Clear \/ MutationFails PROVE Goal
  <2>1. ASSUME CommitOk(ClearRecords) \/ CommitFails(ClearRecords) PROVE Goal
    <3>1. ClearRecords \in Seq(Entry)
          /\ \A k \in 1..Len(ClearRecords) : ClearRecords[k].type = "message" => ClearRecords[k].item \in {}
      BY ClearRecordsHold
    <3>2. MessagesOf(log') \subseteq MessagesOf(log) \cup {}
      BY <2>1, <3>1, CommitMessages
    <3> QED
      BY <3>2
  <2>2. \A i \in Waiting : i \in Items
    BY DEF Waiting, In, TypeOK
  <2>3. ASSUME NEW i \in Waiting, CommitFails(<<Cancelled(i)>>) PROVE Goal
    <3>1. Cancelled(i) \in Entry /\ Cancelled(i).type # "message"
      BY <2>2, EntryFields DEF Cancelled
    <3> QED
      BY <2>3, <3>1, OneRecordMessages
  <2>4. ASSUME NEW i \in In(followUp), CommitFails(<<Enqueued(i, "steering")>>) PROVE Goal
    <3>1. Enqueued(i, "steering") \in Entry /\ Enqueued(i, "steering").type # "message"
      BY <2>2, EntryFields DEF Enqueued, Lanes, Waiting
    <3> QED
      BY <2>4, <3>1, OneRecordMessages
  <2> QED
    BY <1>7, <2>1, <2>3, <2>4 DEF Clear, MutationFails
<1>8. ASSUME Reopen PROVE Goal
  <2>1. PICK n \in synced..Len(log) : log' = SubSeq(log, 1, n)
    BY <1>8 DEF Reopen
  <2>2. n \in 0..Len(log)
    BY <1>0, <2>1
  <2> QED
    BY <1>0, <2>1, <2>2, PrefixHolds
<1>9. ASSUME \/ \E p \in Prompts : RejectStale(p) \/ ClientLeaves(p)
             \/ \E s \in Submissions : RejectOrphan(s) \/ SubmitReturns(s)
             \/ ParentCancelsRun \/ DropRun \/ UNCHANGED vars
      PROVE  log' = log
  BY <1>9 DEF RejectStale, ClientLeaves, RejectOrphan, SubmitReturns, ParentCancelsRun, DropRun,
              vars, logVars
<1> QED
  BY <1>1, <1>2, <1>3, <1>4, <1>5, <1>6, <1>7, <1>8, <1>9 DEF Next, RunStep

\* A consumed submission that was not answered is one the active Run will answer.
Owed == \A s \in Submissions :
    s \in MessagesOf(log) /\ stage[s] = "queued" /\ told[s] = "nothing" => s \in submissions

\* Nothing of a submission's changes but that it is told.
LEMMA OwedKept ==
    ASSUME QueueInv, Owed, NEW M, MessagesOf(log') \subseteq MessagesOf(log) \cup M,
           \A i \in Items : told[i] # "nothing" => told'[i] # "nothing",
           \A s \in Submissions : stage'[s] = "queued" =>
                /\ stage[s] = "queued" \/ s \notin MessagesOf(log)
                /\ s \in M => s \in submissions' \/ told'[s] # "nothing"
                /\ s \in submissions => s \in submissions' \/ told'[s] # "nothing"
    PROVE  Owed'
<1>1. Submissions \subseteq Items
  BY DEF Items
<1> QED
  BY <1>1 DEF Owed

LEMMA OwedStep ==
    ASSUME QueueInv, Owed, [Next]_vars
    PROVE  Owed'
<1>0. TypeOK /\ RunHasInput /\ Submissions \subseteq Items /\ Submissions \cap Messages = {}
  BY ItemsAssumption DEF QueueInv, Items
<1>1. CASE ConsumeClaimed \/ ConsumeFails
  <2>1. MessagesOf(log') \subseteq MessagesOf(log) \cup {claimed}
    <3>1. ~Settle /\ ~SettleFails
      BY <1>1 DEF ConsumeClaimed, ConsumeFails, Settle, SettleFails
    <3>2. ~InsertInitial
      BY <1>1 DEF ConsumeClaimed, ConsumeFails, InsertInitial
    <3> QED
      BY <1>0, <3>1, <3>2, NewMessages
  <2>2. stage' = stage /\ submissions \subseteq submissions'
    BY <1>1 DEF ConsumeClaimed, ConsumeFails
  <2>3. \A i \in Items : told[i] # "nothing" => told'[i] # "nothing"
    BY <1>0, <1>1, TellKeeps DEF ConsumeClaimed, ConsumeFails
  <2>4. \A s \in Submissions : s = claimed => s \in submissions' \/ told'[s] # "nothing"
    <3>1. CASE ConsumeClaimed
      BY <3>1 DEF ConsumeClaimed
    <3>2. CASE ConsumeFails
      BY <1>0, <3>2, TellKeeps DEF ConsumeFails
    <3> QED
      BY <1>1, <3>1, <3>2
  <2> QED
    BY <2>1, <2>2, <2>3, <2>4, OwedKept, ZenonT(60)
<1>2. CASE InsertInitial \/ Settle \/ SettleFails
  <2>1. MessagesOf(log') \subseteq MessagesOf(log) \cup {initial}
    BY <1>0, <1>2, NewMessages DEF ConsumeClaimed, ConsumeFails, InsertInitial, Settle, SettleFails
  <2>2. stage' = stage /\ initial # None
    BY <1>0, <1>2 DEF InsertInitial, Settle, SettleFails, RunHasInput
  <2>3. stage[initial] = "running"
    BY <2>2 DEF QueueInv, RunInput
  <2>4. \A i \in Items : told[i] # "nothing" => told'[i] # "nothing"
    BY <1>0, <1>2, TellKeeps DEF InsertInitial, Settle, SettleFails
  <2>5. \A s \in Submissions : s \in submissions => s \in submissions' \/ told'[s] # "nothing"
    BY <1>0, <1>2, TellKeeps DEF InsertInitial, Settle, SettleFails
  <2>6. \A s \in Submissions : stage'[s] = "queued" =>
            /\ stage[s] = "queued" \/ s \notin MessagesOf(log)
            /\ s \in {initial} => s \in submissions' \/ told'[s] # "nothing"
            /\ s \in submissions => s \in submissions' \/ told'[s] # "nothing"
    BY <2>2, <2>3, <2>5
  <2> QED
    BY <2>1, <2>4, <2>6, OwedKept
<1>3. CASE ~(ConsumeClaimed \/ ConsumeFails \/ InsertInitial \/ Settle \/ SettleFails)
  <2>1. MessagesOf(log') \subseteq MessagesOf(log) \cup {}
    BY <1>0, <1>3, NewMessages
  <2>2. ASSUME UNCHANGED <<submissions, stage>>,
               told' = told \/ \E S, what : what # "nothing" /\ told' = Tell(S, what)
        PROVE  Owed'
    <3>1. \A i \in Items : told[i] # "nothing" => told'[i] # "nothing"
      BY <1>0, <2>2, TellKeeps
    <3> QED
      BY <2>1, <2>2, <3>1, OwedKept
  <2>3. ASSUME NEW i \in Items, Remove(i) \/ Promote(i) PROVE Owed'
    BY <2>2, <2>3 DEF Remove, Promote
  <2>4. ASSUME NEW i \in Items, ItemStep(i) \/ RejectStale(i) \/ RejectOrphan(i) PROVE Owed'
    <3>1. submissions' = submissions /\ (told' = told \/ \E what : what # "nothing" /\ told' = Tell({i}, what))
      BY <2>4 DEF ItemStep, Arrive, RejectUncertain, EnqueueClosed, StartRun, Enqueue, EnqueueFails,
                  RejectStale, RejectOrphan
    <3>2. \A j \in Items : told[j] # "nothing" => told'[j] # "nothing"
      BY <1>0, <3>1, TellKeeps
    <3>3. \A j \in Items : stage'[j] = "queued" =>
              stage[j] = "queued" \/ (stage[j] = "arrived" /\ j \notin MessagesOf(log))
      <4>1. PICK st : /\ stage' = [stage EXCEPT ![i] = st]
                      /\ st # "queued" \/ stage[i] = "arrived"
        BY <2>4 DEF ItemStep, Arrive, RejectUncertain, EnqueueClosed, StartRun, Enqueue, EnqueueFails,
                    RejectStale, RejectOrphan
      <4>2. stage[i] = "arrived" => i \notin MessagesOf(log)
        BY DEF QueueInv, UnqueuedIsNew, Unqueued
      <4> QED
        BY <1>0, <4>1, <4>2 DEF TypeOK
    <3> QED
      BY <1>0, <2>1, <3>1, <3>2, <3>3, OwedKept
  <2>5. ASSUME \/ \E p \in Prompts : ClientLeaves(p)
               \/ \E s \in Submissions : SubmitReturns(s)
               \/ \E x \in Stoppers : CancelTokens(x) \/ CancelCloses(x)
               \/ Clear \/ MutationFails \/ ParentCancelsRun \/ UNCHANGED vars
        PROVE  Owed'
    BY <2>2, <2>5 DEF ClientLeaves, SubmitReturns, CancelTokens, CancelCloses, Clear, MutationFails,
                      ParentCancelsRun, vars
  <2>6. ASSUME RunWithdraws \/ \E x \in Stoppers : CancelWithdraws(x) PROVE Owed'
    BY <2>2, <2>6 DEF RunWithdraws, CancelWithdraws, WithdrawOk, WithdrawFails
  <2>7. ASSUME \/ \E o \in {"cancelled", "failed"} : EndTurn(o)
               \/ RetryTurn
               \/ \E tools \in BOOLEAN : NextTurn(tools)
               \/ StartFails \/ OpenQueue \/ TurnFails \/ TurnCancelled
               \/ ContinueTurn \/ ModelErrs \/ CloseQueue
        PROVE  Owed'
    BY <2>2, <2>7 DEF EndTurn, RetryTurn, NextTurn, StartFails, OpenQueue, TurnFails, TurnCancelled,
                      ContinueTurn, ModelErrs, CloseQueue
  <2>8. ASSUME FinishRun \/ DropRun PROVE Owed'
    <3>1. PICK result : result # "nothing" /\ ReleaseRun(result)
      BY <1>0, <2>8, RunResultTells DEF FinishRun, DropRun, TypeOK
    <3>2. /\ \A i \in Items : told[i] # "nothing" => told'[i] # "nothing"
          /\ \A i \in (submissions \cap Items) \ {initial} : i \notin Messages => told'[i] # "nothing"
      BY <1>0, <3>1, ReleaseTells
    <3>3. \A s \in Submissions : stage'[s] = "queued" => stage[s] = "queued" /\ s # initial
      <4>1. stage \in [Items -> Stages] /\ (initial = None => \A s \in Submissions : s # initial)
        BY <1>0, ItemsAssumption DEF TypeOK
      <4>2. stage' = IF initial = None THEN stage ELSE [stage EXCEPT ![initial] = "out"]
        BY <3>1 DEF ReleaseRun
      <4> QED
        BY <1>0, <4>1, <4>2
    <3> QED
      BY <1>0, <2>1, <3>2, <3>3, OwedKept
  <2>9. ASSUME Reopen PROVE Owed'
    BY <1>0, <2>9 DEF Reopen, Owed
  <2> QED
    BY <1>0, <1>3, <2>3, <2>4, <2>5, <2>6, <2>7, <2>8, <2>9 DEF Next, RunStep, StopStep, Items
<1> QED
  BY <1>1, <1>2, <1>3

\* When a Run is over, nobody is left waiting on the closed queue or on an input the
\* Run consumed, whatever stopped it, which writes failed and what was reopened.
THEOREM NobodyIsStranded == Spec => []NoStrandedWaiter
<1>1. Init => RunPhases /\ SuccessInv /\ AllTold /\ Owed
  BY DEF Init, RunPhases, SuccessInv, AllTold, Untold, Waiting, In, Owed, MessagesOf
<1>2. QueueInv /\ RunPhases /\ SuccessInv /\ AllTold /\ Owed /\ [Next]_vars
        => (RunPhases /\ SuccessInv /\ AllTold /\ Owed)'
  <2>1. QueueInv => TypeOK
    BY DEF QueueInv
  <2> QED
    BY <2>1, RunPhasesStep, SuccessStep, AllToldStep, OwedStep
<1>3. ASSUME QueueInv, RunPhases, AllTold, Owed PROVE NoStrandedWaiter
  <2>1. Waiting \subseteq Items
    BY <1>3 DEF QueueInv, TypeOK, Waiting, In
  <2> QED
    BY <1>3, <2>1 DEF RunPhases, AllTold, Untold, Between, Owed, NoStrandedWaiter
<1>4. QueueInv /\ RunPhases /\ AllTold /\ Owed => NoStrandedWaiter
  BY <1>3
<1> QED
  BY <1>1, <1>2, <1>4, QueueInvariant, PTL DEF Spec

(***************************************************************************)
(* Lanes are left in the order in which they were joined.                  *)
(***************************************************************************)

\* The k-th record queues an input of which the log says nothing more.
OpenAt(l, k) == /\ l[k].type = "enqueued"
                /\ \A m \in 1..Len(l) : m > k => l[m].item # l[k].item

\* A lane s holds the inputs with an open record of it, and has its items in the
\* order of their open records.
InLine(l, q, s) ==
    /\ \A u, v \in 1..Len(s), j, k \in 1..Len(l) :
          /\ u < v /\ OpenAt(l, j) /\ OpenAt(l, k)
          /\ l[j].item = s[u] /\ l[k].item = s[v]
          => j < k
    /\ \A k \in 1..Len(l) : OpenAt(l, k) /\ l[k].lane = q => l[k].item \in In(s)

\* LaneOrder of a log.
InOrder(l) ==
    \A a, b, c \in 1..Len(l) :
        /\ a < b /\ b < c
        /\ l[a].type = "enqueued" /\ l[b].type = "enqueued"
        /\ l[a].lane = l[b].lane
        /\ l[a].item # l[b].item
        /\ l[c] = Message(l[b].item)
        /\ \A m \in (b + 1)..(c - 1) : l[m].item # l[b].item
        => \E d \in (a + 1)..(c - 1) : l[d].item = l[a].item

\* Nothing is queued again once it is in history.
QueuedBefore(l) ==
    \A j, k \in 1..Len(l) :
        l[j].type = "message" /\ l[k].type = "enqueued" /\ l[j].item = l[k].item => k < j

\* Who is queued in which lane is known to the item, and as long as every write
\* succeeded the lanes, with the claim put back, are in line with the log.
OrderInv ==
    /\ \A i \in In(steering) : lane[i] = "steering"
    /\ \A i \in In(followUp) : lane[i] = "followUp"
    /\ ~writeFailed => /\ InLine(log, "steering", PutBack(steering, "steering"))
                       /\ InLine(log, "followUp", PutBack(followUp, "followUp"))
    /\ QueuedBefore(log)
    /\ InOrder(log)

\* t has some of the items of s, in the same order.
Part(t, s) ==
    \A u, v \in 1..Len(t) : u < v =>
        \E x, y \in 1..Len(s) : x < y /\ s[x] = t[u] /\ s[y] = t[v]

\* m is l and then entries of the items W, which are not enqueue records.
Appended(l, m, W) ==
    /\ Len(l) <= Len(m)
    /\ \A k \in 1..Len(l) : m[k] = l[k]
    /\ \A k \in 1..Len(m) : k > Len(l) => m[k].type # "enqueued" /\ m[k].item \in W
    /\ \A i \in W : \E k \in 1..Len(m) : k > Len(l) /\ m[k].item = i

\* Appending entries of W closes the records of W and opens none.
LEMMA AppendedOpen ==
    ASSUME NEW l \in Seq(Entry), NEW m \in Seq(Entry), NEW W, Appended(l, m, W),
           NEW k \in 1..Len(m), OpenAt(m, k)
    PROVE  k \in 1..Len(l) /\ OpenAt(l, k) /\ m[k] = l[k] /\ l[k].item \notin W
<1>0. Len(l) \in Nat /\ Len(m) \in Nat /\ Len(l) <= Len(m)
  BY DEF Appended
<1>1. k \in 1..Len(l) /\ m[k] = l[k]
  BY <1>0 DEF Appended, OpenAt
<1>2. ASSUME NEW j \in 1..Len(l), j > k PROVE l[j].item # l[k].item
  <2>1. j \in 1..Len(m) /\ m[j] = l[j]
    BY <1>0, <1>2 DEF Appended
  <2> QED
    BY <1>1, <1>2, <2>1 DEF OpenAt
<1>3. l[k].item \notin W
  <2> SUFFICES ASSUME l[k].item \in W PROVE FALSE
    OBVIOUS
  <2>1. PICK j \in 1..Len(m) : j > Len(l) /\ m[j].item = l[k].item
    BY DEF Appended
  <2>2. j > k
    BY <1>0, <1>1, <2>1
  <2> QED
    BY <1>1, <2>1, <2>2 DEF OpenAt
<1> QED
  BY <1>1, <1>2, <1>3 DEF OpenAt

\* A lane that loses the items of W, and no others, stays in line.
LEMMA PartInLine ==
    ASSUME NEW l \in Seq(Entry), NEW m \in Seq(Entry), NEW W, Appended(l, m, W),
           NEW q, NEW s \in Seq(Items), NEW t \in Seq(Items),
           InLine(l, q, s), Part(t, s), In(s) \ W \subseteq In(t)
    PROVE  InLine(m, q, t)
<1>1. ASSUME NEW u \in 1..Len(t), NEW v \in 1..Len(t), NEW j \in 1..Len(m), NEW k \in 1..Len(m),
             u < v, OpenAt(m, j), OpenAt(m, k), m[j].item = t[u], m[k].item = t[v]
      PROVE  j < k
  <2>1. /\ j \in 1..Len(l) /\ OpenAt(l, j) /\ m[j] = l[j]
        /\ k \in 1..Len(l) /\ OpenAt(l, k) /\ m[k] = l[k]
    BY <1>1, AppendedOpen
  <2>2. PICK x, y \in 1..Len(s) : x < y /\ s[x] = t[u] /\ s[y] = t[v]
    BY <1>1 DEF Part
  <2> QED
    BY <1>1, <2>1, <2>2 DEF InLine
<1>2. ASSUME NEW k \in 1..Len(m), OpenAt(m, k), m[k].lane = q
      PROVE  m[k].item \in In(t)
  <2>1. k \in 1..Len(l) /\ OpenAt(l, k) /\ m[k] = l[k] /\ l[k].item \notin W
    BY <1>2, AppendedOpen
  <2> QED
    BY <1>2, <2>1 DEF InLine
<1> QED
  BY <1>1, <1>2 DEF InLine

\* What is part of a list: the list, its tail, and what was kept of it.
LEMMA Parts ==
    ASSUME NEW s \in Seq(Items)
    PROVE  /\ Part(s, s)
           /\ Part(<<>>, s)
           /\ s # <<>> => Part(Tail(s), s)
           /\ \A R : \A t \in Keep(s, R) : Part(t, s)
<1>0. Len(s) \in Nat
  OBVIOUS
<1>1. Part(s, s) /\ Part(<<>>, s)
  BY DEF Part
<1>2. ASSUME s # <<>> PROVE Part(Tail(s), s)
  <2>1. /\ Len(Tail(s)) = Len(s) - 1
        /\ \A u \in 1..Len(Tail(s)) : u + 1 \in 1..Len(s) /\ Tail(s)[u] = s[u + 1]
    BY <1>2
  <2>2. ASSUME NEW u \in 1..Len(Tail(s)), NEW v \in 1..Len(Tail(s)), u < v
        PROVE  \E x, y \in 1..Len(s) : x < y /\ s[x] = Tail(s)[u] /\ s[y] = Tail(s)[v]
    <3>1. u + 1 < v + 1
      BY <2>2
    <3> QED
      BY <2>1, <2>2, <3>1
  <2> QED
    BY <2>2 DEF Part
<1>3. ASSUME NEW R, NEW t \in Keep(s, R) PROVE Part(t, s)
  <2> DEFINE S == In(s) \ R
             pos == [i \in In(s) |-> CHOOSE k \in 1..Len(s) : s[k] = i]
  <2>1. t \in Ordered(S, pos)
    BY <1>3 DEF Keep
  <2>2. \A i \in S : pos[i] \in 1..Len(s) /\ s[pos[i]] = i
    <3> SUFFICES ASSUME NEW i \in In(s) PROVE pos[i] \in 1..Len(s) /\ s[pos[i]] = i
      OBVIOUS
    <3>1. \E k \in 1..Len(s) : s[k] = i
      BY DEF In
    <3>2. pos[i] = CHOOSE k \in 1..Len(s) : s[k] = i
      OBVIOUS
    <3> QED
      BY <3>1, <3>2
  <2>3. IsFiniteSet(S)
    BY InFinite, FS_Subset
  <2> HIDE DEF S, pos
  <2>4. /\ Cardinality(S) \in Nat /\ t \in [1..Cardinality(S) -> S]
        /\ \A j, k \in 1..Cardinality(S) : j < k => pos[t[j]] < pos[t[k]]
    BY <2>1, <2>3, FS_CardinalityType DEF Ordered
  <2>5. Len(t) = Cardinality(S)
    BY <2>4
  <2>6. ASSUME NEW u \in 1..Len(t), NEW v \in 1..Len(t), u < v
        PROVE  \E x, y \in 1..Len(s) : x < y /\ s[x] = t[u] /\ s[y] = t[v]
    <3>1. t[u] \in S /\ t[v] \in S /\ pos[t[u]] < pos[t[v]]
      BY <2>4, <2>5, <2>6
    <3> QED
      BY <2>2, <3>1
  <2> QED
    BY <2>6 DEF Part
<1> QED
  BY <1>1, <1>2, <1>3

\* The same with the claim in front of both.
LEMMA PartsBehind ==
    ASSUME NEW s \in Seq(Items), NEW t \in Seq(Items), Part(t, s), In(t) \subseteq In(s),
           NEW c \in Items
    PROVE  Part(<<c>> \o t, <<c>> \o s)
<1> DEFINE S == <<c>> \o s
           T == <<c>> \o t
<1>1. /\ Len(s) \in Nat /\ Len(t) \in Nat /\ Len(S) = Len(s) + 1 /\ Len(T) = Len(t) + 1
      /\ S[1] = c /\ T[1] = c
  OBVIOUS
<1>2. /\ \A x \in 1..Len(s) : S[x + 1] = s[x]
      /\ \A u \in 1..(Len(t) + 1) : u # 1 => u - 1 \in 1..Len(t) /\ T[u] = t[u - 1]
  BY <1>1
<1> HIDE DEF S, T
<1>3. ASSUME NEW u \in 1..Len(T), NEW v \in 1..Len(T), u < v
      PROVE  \E x, y \in 1..Len(S) : x < y /\ S[x] = T[u] /\ S[y] = T[v]
  <2>1. v # 1 /\ v - 1 \in 1..Len(t) /\ T[v] = t[v - 1]
    BY <1>1, <1>2, <1>3
  <2>2. CASE u = 1
    <3>1. PICK y \in 1..Len(s) : s[y] = t[v - 1]
      BY <2>1 DEF In
    <3>2. y + 1 \in 1..Len(S) /\ 1 \in 1..Len(S) /\ 1 < y + 1 /\ S[y + 1] = T[v] /\ S[1] = T[u]
      BY <1>1, <1>2, <2>1, <2>2, <3>1
    <3> QED
      BY <3>2
  <2>3. CASE u # 1
    <3>1. u - 1 \in 1..Len(t) /\ T[u] = t[u - 1] /\ u - 1 < v - 1
      BY <1>1, <1>2, <1>3, <2>3
    <3>2. PICK x, y \in 1..Len(s) : x < y /\ s[x] = t[u - 1] /\ s[y] = t[v - 1]
      BY <2>1, <3>1 DEF Part
    <3>3. /\ x + 1 \in 1..Len(S) /\ y + 1 \in 1..Len(S) /\ x + 1 < y + 1
          /\ S[x + 1] = T[u] /\ S[y + 1] = T[v]
      BY <1>1, <1>2, <2>1, <3>1, <3>2
    <3> QED
      BY <3>3
  <2> QED
    BY <2>2, <2>3
<1>4. Part(T, S)
  BY <1>3 DEF Part
<1> QED
  BY <1>4 DEF S, T

\* One more enqueue record closes the item's earlier ones and is open itself.
LEMMA EnqueuedOpen ==
    ASSUME NEW l \in Seq(Entry), NEW i \in Items, NEW q \in Lanes,
           NEW k \in 1..(Len(l) + 1), OpenAt(Append(l, Enqueued(i, q)), k)
    PROVE  LET m == Append(l, Enqueued(i, q)) IN
           \/ k = Len(l) + 1 /\ m[k].item = i /\ m[k].lane = q
           \/ k \in 1..Len(l) /\ OpenAt(l, k) /\ m[k] = l[k] /\ l[k].item # i
<1> DEFINE m == Append(l, Enqueued(i, q))
<1>1. /\ Len(l) \in Nat /\ Len(m) = Len(l) + 1 /\ m[Len(l) + 1] = Enqueued(i, q)
      /\ \A j \in 1..Len(l) : m[j] = l[j]
  OBVIOUS
<1>2. Enqueued(i, q).item = i /\ Enqueued(i, q).lane = q
  BY DEF Enqueued
<1>3. OpenAt(m, k)
  OBVIOUS
<1> HIDE DEF m
<1>4. CASE k = Len(l) + 1
  BY <1>1, <1>2, <1>4 DEF m
<1>5. CASE k # Len(l) + 1
  <2>1. k \in 1..Len(l) /\ m[k] = l[k] /\ Len(l) + 1 \in 1..Len(m) /\ Len(l) + 1 > k
    BY <1>1, <1>5
  <2>2. l[k].item # i
    BY <1>1, <1>2, <1>3, <2>1 DEF OpenAt
  <2>3. ASSUME NEW j \in 1..Len(l), j > k PROVE l[j].item # l[k].item
    <3>1. j \in 1..Len(m) /\ m[j] = l[j]
      BY <1>1
    <3> QED
      BY <1>3, <2>1, <2>3, <3>1 DEF OpenAt
  <2> QED
    BY <1>3, <2>1, <2>2, <2>3 DEF OpenAt, m
<1> QED
  BY <1>4, <1>5

\* The lane an item joins stays in line with the item at its end, and so does a
\* lane it leaves.
LEMMA JoinInLine ==
    ASSUME NEW l \in Seq(Entry), NEW i \in Items, NEW q \in Lanes, NEW r \in Lanes,
           NEW s \in Seq(Items), NEW t \in Seq(Items), InLine(l, r, s),
           Part(t, s), In(t) = In(s) \ {i}
    PROVE  /\ r # q => InLine(Append(l, Enqueued(i, q)), r, t)
           /\ r = q => InLine(Append(l, Enqueued(i, q)), r, Append(t, i))
<1> DEFINE m == Append(l, Enqueued(i, q))
<1>1. /\ Len(l) \in Nat /\ Len(m) = Len(l) + 1
      /\ \A k \in 1..Len(m) : OpenAt(m, k) =>
           \/ k = Len(l) + 1 /\ m[k].item = i /\ m[k].lane = q
           \/ k \in 1..Len(l) /\ OpenAt(l, k) /\ m[k] = l[k] /\ l[k].item # i
  <2>1. Len(l) \in Nat /\ Len(m) = Len(l) + 1
    OBVIOUS
  <2> QED
    BY <2>1, EnqueuedOpen
<1> HIDE DEF m
<1>2. ASSUME NEW u \in 1..Len(t), NEW v \in 1..Len(t), NEW j \in 1..Len(m), NEW k \in 1..Len(m),
             u < v, OpenAt(m, j), OpenAt(m, k), m[j].item = t[u], m[k].item = t[v]
      PROVE  j < k
  <2>1. t[u] # i /\ t[v] # i
    BY DEF In
  <2>2. /\ j \in 1..Len(l) /\ OpenAt(l, j) /\ m[j] = l[j]
        /\ k \in 1..Len(l) /\ OpenAt(l, k) /\ m[k] = l[k]
    BY <1>1, <1>2, <2>1
  <2>3. PICK x, y \in 1..Len(s) : x < y /\ s[x] = t[u] /\ s[y] = t[v]
    BY <1>2 DEF Part
  <2> QED
    BY <1>2, <2>2, <2>3 DEF InLine
<1>3. ASSUME NEW k \in 1..Len(m), OpenAt(m, k), m[k].lane = r, r # q \/ k # Len(l) + 1
      PROVE  m[k].item \in In(t)
  <2>1. k \in 1..Len(l) /\ OpenAt(l, k) /\ m[k] = l[k] /\ l[k].item # i
    BY <1>1, <1>3
  <2> QED
    BY <1>3, <2>1 DEF InLine
<1>4. ASSUME r # q PROVE InLine(m, r, t)
  BY <1>2, <1>3, <1>4 DEF InLine
<1>5. ASSUME r = q PROVE InLine(m, r, Append(t, i))
  <2> DEFINE a == Append(t, i)
  <2>1. /\ Len(t) \in Nat /\ Len(a) = Len(t) + 1 /\ a[Len(t) + 1] = i
        /\ \A u \in 1..Len(t) : a[u] = t[u]
    OBVIOUS
  <2>2. In(a) = In(t) \cup {i}
    BY InAppend
  <2> HIDE DEF a
  <2>3. ASSUME NEW u \in 1..Len(a), NEW v \in 1..Len(a), NEW j \in 1..Len(m), NEW k \in 1..Len(m),
               u < v, OpenAt(m, j), OpenAt(m, k), m[j].item = a[u], m[k].item = a[v]
        PROVE  j < k
    <3>1. u \in 1..Len(t) /\ a[u] = t[u] /\ a[u] # i
      <4>1. u \in 1..Len(t) /\ a[u] = t[u]
        BY <2>1, <2>3
      <4>2. t[u] \in In(t)
        BY <4>1 DEF In
      <4> QED
        BY <4>1, <4>2
    <3>2. j \in 1..Len(l)
      BY <1>1, <2>3, <3>1
    <3>3. CASE v = Len(t) + 1
      <4>1. k = Len(l) + 1
        BY <1>1, <2>1, <2>3, <3>3
      <4> QED
        BY <1>1, <3>2, <4>1
    <3>4. CASE v # Len(t) + 1
      <4>0. v \in 1..(Len(t) + 1)
        BY <2>1
      <4>1. v \in 1..Len(t) /\ a[v] = t[v]
        <5>1. v \in 1..Len(t)
          BY <2>1, <3>4, <4>0
        <5> QED
          BY <2>1, <5>1
      <4>2. m[j].item = t[u] /\ m[k].item = t[v] /\ u < v /\ OpenAt(m, j) /\ OpenAt(m, k)
        BY <2>3, <3>1, <4>1
      <4> QED
        BY <1>2, <3>1, <4>1, <4>2
    <3> QED
      BY <3>3, <3>4
  <2>4. ASSUME NEW k \in 1..Len(m), OpenAt(m, k), m[k].lane = r
        PROVE  m[k].item \in In(a)
    BY <1>1, <1>3, <2>2, <2>4
  <2>5. InLine(m, r, a)
    BY <2>3, <2>4 DEF InLine
  <2> QED
    BY <2>5 DEF a
<1> QED
  BY <1>4, <1>5 DEF m

\* The item of an open record is live, and that record is its place.
LEMMA OpenIsLive ==
    ASSUME NEW l \in Seq(Entry), QueuedBefore(l), NEW k \in 1..Len(l), OpenAt(l, k)
    PROVE  l[k].item \in Live(l) /\ PlaceIn(l, l[k].item) = k
<1>0. Len(l) \in Nat
  OBVIOUS
<1>1. l[k] \in Entry /\ l[k].item \in Items /\ l[k].type = "enqueued"
  BY EntryFields DEF OpenAt
<1>2. LastQueueRecord(l, l[k].item, k)
  BY <1>1 DEF OpenAt, LastQueueRecord
<1>3. \A j \in 1..Len(l) : LastQueueRecord(l, l[k].item, j) => j = k
  BY <1>0, <1>2 DEF LastQueueRecord
<1>4. PlaceIn(l, l[k].item) = k
  <2> DEFINE p == PlaceIn(l, l[k].item)
  <2>1. p \in 1..Len(l) /\ LastQueueRecord(l, l[k].item, p)
    BY <1>2 DEF PlaceIn
  <2> QED
    BY <1>3, <2>1
<1>5. l[k].item \notin MessagesOf(l)
  <2> SUFFICES ASSUME l[k].item \in MessagesOf(l) PROVE FALSE
    OBVIOUS
  <2>1. PICK j \in 1..Len(l) : l[j].type = "message" /\ l[j].item = l[k].item
    BY DEF MessagesOf
  <2>2. k < j
    BY <1>1, <2>1 DEF QueuedBefore
  <2> QED
    BY <1>0, <2>1, <2>2 DEF OpenAt
<1> QED
  BY <1>1, <1>2, <1>4, <1>5 DEF Live

\* A restored lane is in line with the log it was restored from.
LEMMA RestoredInLine ==
    ASSUME NEW l \in Seq(Entry), QueuedBefore(l), NEW q \in Lanes, NEW s \in RestoredLane(l, q)
    PROVE  InLine(l, q, s)
<1>0. Len(l) \in Nat
  OBVIOUS
<1>1. ASSUME NEW k \in 1..Len(l), OpenAt(l, k)
      PROVE  l[k].item \in Live(l) /\ PlaceIn(l, l[k].item) = k
  BY <1>1, OpenIsLive
<1> DEFINE S == {i \in Live(l) : LaneIn(l, i) = q}
           pos == [i \in Live(l) |-> PlaceIn(l, i)]
<1>2. In(s) = S /\ s \in Seq(Items)
  BY RestoredLaneHolds
<1>3. s \in Ordered(S, pos) /\ IsFiniteSet(S)
  BY LiveRecords, FS_Subset DEF RestoredLane
<1>4. /\ Cardinality(S) \in Nat /\ s \in [1..Cardinality(S) -> S]
      /\ \A j, k \in 1..Cardinality(S) : j < k => pos[s[j]] < pos[s[k]]
  <2> HIDE DEF S, pos
  <2> QED
    BY <1>3, FS_CardinalityType DEF Ordered
<1>5. Len(s) = Cardinality(S)
  <2> HIDE DEF S, pos
  <2> QED
    BY <1>4
<1>6. ASSUME NEW u \in 1..Len(s), NEW v \in 1..Len(s), NEW j \in 1..Len(l), NEW k \in 1..Len(l),
             u < v, OpenAt(l, j), OpenAt(l, k), l[j].item = s[u], l[k].item = s[v]
      PROVE  j < k
  <2>1. pos[s[u]] < pos[s[v]]
    <3> HIDE DEF S, pos
    <3> QED
      BY <1>4, <1>5, <1>6
  <2>2. /\ s[u] \in Live(l) /\ PlaceIn(l, s[u]) = j
        /\ s[v] \in Live(l) /\ PlaceIn(l, s[v]) = k
    BY <1>1, <1>6
  <2>3. pos[s[u]] = j /\ pos[s[v]] = k
    BY <2>2
  <2> QED
    BY <2>1, <2>3
<1>7. ASSUME NEW k \in 1..Len(l), OpenAt(l, k), l[k].lane = q
      PROVE  l[k].item \in In(s)
  <2>1. LaneIn(l, l[k].item) = q /\ l[k].item \in Live(l)
    BY <1>1, <1>7 DEF LaneIn
  <2> QED
    BY <1>2, <2>1
<1> QED
  BY <1>6, <1>7 DEF InLine

\* The order of what was logged is kept by a prefix, by entries that are no
\* messages, and by the message of an input whose turn it is.
LEMMA PrefixInOrder ==
    ASSUME NEW l \in Seq(Entry), NEW n \in 0..Len(l)
    PROVE  /\ InOrder(l) => InOrder(SubSeq(l, 1, n))
           /\ QueuedBefore(l) => QueuedBefore(SubSeq(l, 1, n))
<1> DEFINE m == SubSeq(l, 1, n)
<1>1. Len(l) \in Nat /\ Len(m) = n /\ \A k \in 1..n : k \in 1..Len(l) /\ m[k] = l[k]
  OBVIOUS
<1> HIDE DEF m
<1>2. ASSUME InOrder(l) PROVE InOrder(m)
  <2> SUFFICES ASSUME NEW a \in 1..n, NEW b \in 1..n, NEW c \in 1..n, a < b, b < c,
                      m[a].type = "enqueued", m[b].type = "enqueued", m[a].lane = m[b].lane,
                      m[a].item # m[b].item, m[c] = Message(m[b].item),
                      \A j \in (b + 1)..(c - 1) : m[j].item # m[b].item
               PROVE  \E d \in (a + 1)..(c - 1) : m[d].item = m[a].item
    BY <1>1 DEF InOrder
  <2>1. \A j \in (a + 1)..(c - 1) : j \in 1..n
    BY <1>1
  <2>2. \A j \in (b + 1)..(c - 1) : j \in 1..n
    BY <1>1
  <2>3. \A j \in (b + 1)..(c - 1) : l[j].item # l[b].item
    BY <1>1, <2>2
  <2>4. PICK d \in (a + 1)..(c - 1) : l[d].item = l[a].item
    BY <1>1, <1>2, <2>3 DEF InOrder
  <2> QED
    BY <1>1, <2>1, <2>4
<1>3. ASSUME QueuedBefore(l) PROVE QueuedBefore(m)
  BY <1>1, <1>3 DEF QueuedBefore
<1> QED
  BY <1>2, <1>3 DEF m

\* Nothing stands between x and history: of two open records of one lane of which
\* the second is x's, the first is followed by an entry of its item.
Turn(l, x) ==
    \A a, b \in 1..Len(l) :
        /\ a < b
        /\ l[a].type = "enqueued" /\ l[b].type = "enqueued"
        /\ l[a].lane = l[b].lane
        /\ l[a].item # l[b].item /\ l[b].item = x
        /\ \A m \in 1..Len(l) : m > b => l[m].item # x
        => \E d \in 1..Len(l) : d > a /\ l[d].item = l[a].item

LEMMA AppendInOrder ==
    ASSUME NEW l \in Seq(Entry), InOrder(l), NEW e \in Entry,
           e.type = "message" => Turn(l, e.item)
    PROVE  InOrder(Append(l, e))
<1> DEFINE m == Append(l, e)
<1>1. /\ Len(l) \in Nat /\ Len(m) = Len(l) + 1 /\ m[Len(l) + 1] = e
      /\ \A k \in 1..Len(l) : m[k] = l[k]
  OBVIOUS
<1> HIDE DEF m
<1> SUFFICES ASSUME NEW a \in 1..Len(m), NEW b \in 1..Len(m), NEW c \in 1..Len(m), a < b, b < c,
                    m[a].type = "enqueued", m[b].type = "enqueued", m[a].lane = m[b].lane,
                    m[a].item # m[b].item, m[c] = Message(m[b].item),
                    \A j \in (b + 1)..(c - 1) : m[j].item # m[b].item
             PROVE  \E d \in (a + 1)..(c - 1) : m[d].item = m[a].item
  BY DEF InOrder, m
<1>2. a \in 1..Len(l) /\ b \in 1..Len(l) /\ m[a] = l[a] /\ m[b] = l[b]
  BY <1>1
<1>3. CASE c \in 1..Len(l)
  <2>1. \A j \in (a + 1)..(c - 1) : j \in 1..Len(l)
    BY <1>1, <1>3
  <2>2. \A j \in (b + 1)..(c - 1) : j \in 1..Len(l)
    BY <1>1, <1>3
  <2>3. \A j \in (b + 1)..(c - 1) : l[j].item # l[b].item
    BY <1>1, <1>2, <2>2
  <2>4. PICK d \in (a + 1)..(c - 1) : l[d].item = l[a].item
    BY <1>1, <1>2, <1>3, <2>3 DEF InOrder
  <2> QED
    BY <1>1, <1>2, <2>1, <2>4
<1>4. CASE c = Len(l) + 1
  <2>1. e = Message(l[b].item)
    BY <1>1, <1>2, <1>4
  <2>2. e.type = "message" /\ e.item = l[b].item
    BY <2>1 DEF Message
  <2>3. \A j \in 1..Len(l) : j > b => j \in (b + 1)..(c - 1)
    BY <1>1, <1>4
  <2>4. \A j \in 1..Len(l) : j > b => l[j].item # l[b].item
    BY <1>1, <1>2, <2>3
  <2>5. PICK d \in 1..Len(l) : d > a /\ l[d].item = l[a].item
    BY <1>2, <2>2, <2>4 DEF Turn
  <2>6. d \in (a + 1)..(c - 1)
    BY <1>1, <1>4, <2>5
  <2> QED
    BY <1>1, <1>2, <2>5, <2>6
<1> QED
  BY <1>1, <1>3, <1>4

\* Entries without messages keep the order, if nothing of history is queued again.
LEMMA ExtendedInOrder ==
    ASSUME NEW l \in Seq(Entry), NEW m \in Seq(Entry), NEW Q, Extended(l, m, {}, Q),
           InOrder(l), QueuedBefore(l), Q \cap MessagesOf(l) = {}
    PROVE  InOrder(m) /\ QueuedBefore(m)
<1>1. /\ Len(l) \in Nat /\ Len(m) \in Nat /\ Len(l) <= Len(m)
      /\ \A k \in 1..Len(l) : m[k] = l[k]
      /\ \A k \in 1..Len(m) : m[k].type = "message" => k \in 1..Len(l)
      /\ \A k \in 1..Len(m) : m[k].type = "enqueued" => k \in 1..Len(l) \/ m[k].item \in Q
  BY DEF Extended
<1>2. InOrder(m)
  <2> SUFFICES ASSUME NEW a \in 1..Len(m), NEW b \in 1..Len(m), NEW c \in 1..Len(m), a < b, b < c,
                      m[a].type = "enqueued", m[b].type = "enqueued", m[a].lane = m[b].lane,
                      m[a].item # m[b].item, m[c] = Message(m[b].item),
                      \A j \in (b + 1)..(c - 1) : m[j].item # m[b].item
               PROVE  \E d \in (a + 1)..(c - 1) : m[d].item = m[a].item
    BY DEF InOrder
  <2>0. c \in 1..Len(l)
    BY <1>1 DEF Message
  <2>1. a \in 1..Len(l) /\ b \in 1..Len(l)
    BY <1>1, <2>0
  <2>2. \A j \in (a + 1)..(c - 1) : j \in 1..Len(l)
    BY <1>1, <2>0
  <2>3. \A j \in (b + 1)..(c - 1) : j \in 1..Len(l)
    BY <1>1, <2>0
  <2>4. \A j \in (b + 1)..(c - 1) : l[j].item # l[b].item
    BY <1>1, <2>1, <2>3
  <2>5. PICK d \in (a + 1)..(c - 1) : l[d].item = l[a].item
    BY <1>1, <2>0, <2>1, <2>4 DEF InOrder
  <2> QED
    BY <1>1, <2>1, <2>2, <2>5
<1>3. QueuedBefore(m)
  <2> SUFFICES ASSUME NEW j \in 1..Len(m), NEW k \in 1..Len(m),
                      m[j].type = "message", m[k].type = "enqueued", m[j].item = m[k].item
               PROVE  k < j
    BY DEF QueuedBefore
  <2>1. j \in 1..Len(l) /\ m[j] = l[j] /\ m[j].item \in MessagesOf(l)
    BY <1>1 DEF MessagesOf
  <2>2. k \in 1..Len(l) /\ m[k] = l[k]
    BY <1>1, <2>1
  <2> QED
    BY <2>1, <2>2 DEF QueuedBefore
<1> QED
  BY <1>2, <1>3

\* So does the message of an input whose turn it is.
LEMMA MessageInOrder ==
    ASSUME NEW l \in Seq(Entry), NEW x \in Items, InOrder(l), QueuedBefore(l), Turn(l, x)
    PROVE  LET m == Append(l, Message(x)) IN
           m \in Seq(Entry) /\ InOrder(m) /\ QueuedBefore(m) /\ Appended(l, m, {x})
<1> DEFINE m == Append(l, Message(x))
<1>1. Message(x) \in Entry /\ Message(x).type = "message" /\ Message(x).item = x
  BY EntryFields DEF Message
<1>2. m \in Seq(Entry) /\ InOrder(m)
  BY <1>1, AppendInOrder
<1>3. /\ Len(l) \in Nat /\ Len(m) = Len(l) + 1 /\ m[Len(l) + 1] = Message(x)
      /\ \A k \in 1..Len(l) : m[k] = l[k]
  OBVIOUS
<1> HIDE DEF m
<1>4. QueuedBefore(m)
  BY <1>1, <1>3 DEF QueuedBefore
<1>5. Appended(l, m, {x})
  <2>1. Len(l) + 1 \in 1..Len(m) /\ Len(l) + 1 > Len(l) /\ m[Len(l) + 1].item = x
    BY <1>1, <1>3
  <2>2. \A k \in 1..Len(m) : k > Len(l) => m[k].type # "enqueued" /\ m[k].item \in {x}
    BY <1>1, <1>3
  <2> QED
    BY <1>3, <2>1, <2>2 DEF Appended
<1> QED
  BY <1>2, <1>4, <1>5 DEF m

\* An input that was never recorded as queued may enter history at any time.
LEMMA NeverQueuedTurn ==
    ASSUME NEW l \in Seq(Entry), NEW x, x \notin QueuedIn(l)
    PROVE  Turn(l, x)
BY DEF Turn, QueuedIn

\* The claim is put back before the items of its own lane.
LEMMA PutBackHolds ==
    ASSUME TypeOK, NEW q, NEW s \in Seq(Items), NEW t \in Seq(Items),
           Part(t, s), In(t) \subseteq In(s)
    PROVE  /\ PutBack(s, q) \in Seq(Items) /\ PutBack(t, q) \in Seq(Items)
           /\ In(PutBack(s, q)) = In(s) \cup {c \in {claimed} : c # None /\ lane[c] = q}
           /\ In(PutBack(t, q)) = In(t) \cup {c \in {claimed} : c # None /\ lane[c] = q}
           /\ Part(PutBack(t, q), PutBack(s, q))
<1>1. CASE claimed # None /\ lane[claimed] = q
  <2>1. claimed \in Items
    BY <1>1 DEF TypeOK
  <2>2. /\ <<claimed>> \o s \in Seq(Items) /\ In(<<claimed>> \o s) = In(s) \cup {claimed}
        /\ <<claimed>> \o t \in Seq(Items) /\ In(<<claimed>> \o t) = In(t) \cup {claimed}
    BY <2>1, InPrepend
  <2>3. Part(<<claimed>> \o t, <<claimed>> \o s)
    BY <2>1, PartsBehind
  <2> QED
    BY <1>1, <2>2, <2>3 DEF PutBack
<1>2. CASE ~(claimed # None /\ lane[claimed] = q)
  BY <1>2 DEF PutBack
<1> QED
  BY <1>1, <1>2

\* A lane without its claim is part of what it was with it.
LEMMA WithoutClaim ==
    ASSUME TypeOK, NEW q, NEW s \in Seq(Items)
    PROVE  Part(s, PutBack(s, q))
<1>1. CASE claimed # None /\ lane[claimed] = q
  <2>1. claimed \in Items
    BY <1>1 DEF TypeOK
  <2> DEFINE t == <<claimed>> \o s
  <2>2. t \in Seq(Items) /\ t # <<>> /\ Tail(t) = s
    BY <2>1
  <2> HIDE DEF t
  <2>3. Part(s, t)
    BY <2>2, Parts
  <2> QED
    BY <1>1, <2>3 DEF PutBack, t
<1>2. CASE ~(claimed # None /\ lane[claimed] = q)
  BY <1>2, Parts DEF PutBack
<1> QED
  BY <1>1, <1>2

\* A step that logs entries of the items W and takes them out of the lanes.
LEMMA Shrinks ==
    ASSUME TypeOK, TypeOK', OrderInv, NEW W, Appended(log, log', W),
           InOrder(log'), QueuedBefore(log'), ~writeFailed,
           UNCHANGED lane,
           \/ claimed' = claimed /\ claimed \notin W
           \/ claimed' = None /\ (claimed = None \/ claimed \in W),
           Part(steering', steering), In(steering') = In(steering) \ W,
           Part(followUp', followUp), In(followUp') = In(followUp) \ W
    PROVE  OrderInv'
<1>1. /\ log \in Seq(Entry) /\ log' \in Seq(Entry)
      /\ steering \in Seq(Items) /\ steering' \in Seq(Items)
      /\ followUp \in Seq(Items) /\ followUp' \in Seq(Items)
  BY DEF TypeOK
<1>2. ASSUME NEW q, NEW s \in Seq(Items), NEW t \in Seq(Items), InLine(log, q, PutBack(s, q)),
             Part(t, s), In(t) = In(s) \ W
      PROVE  InLine(log', q, IF claimed' # None /\ lane'[claimed'] = q THEN <<claimed'>> \o t ELSE t)
  <2>1. /\ PutBack(s, q) \in Seq(Items) /\ PutBack(t, q) \in Seq(Items)
        /\ In(PutBack(s, q)) = In(s) \cup {c \in {claimed} : c # None /\ lane[c] = q}
        /\ In(PutBack(t, q)) = In(t) \cup {c \in {claimed} : c # None /\ lane[c] = q}
        /\ Part(PutBack(t, q), PutBack(s, q))
    BY <1>2, PutBackHolds
  <2>2. CASE claimed' = claimed /\ claimed \notin W
    <3>1. InLine(log', q, PutBack(t, q))
      BY <1>1, <1>2, <2>1, <2>2, PartInLine
    <3> QED
      BY <2>2, <3>1 DEF PutBack
  <2>3. CASE claimed' = None /\ (claimed = None \/ claimed \in W)
    <3>1. Part(t, PutBack(s, q))
      <4>1. Part(s, PutBack(s, q))
        BY <1>2, WithoutClaim
      <4> QED
        BY <1>2, <4>1 DEF Part
    <3>2. In(PutBack(s, q)) \ W \subseteq In(t)
      BY <1>2, <2>1, <2>3
    <3>3. InLine(log', q, t)
      BY <1>1, <1>2, <2>1, <3>1, <3>2, PartInLine
    <3> QED
      BY <2>3, <3>3
  <2> QED
    BY <2>2, <2>3
<1>3. /\ InLine(log, "steering", PutBack(steering, "steering"))
      /\ InLine(log, "followUp", PutBack(followUp, "followUp"))
  BY DEF OrderInv
<1>4. /\ InLine(log', "steering", PutBack(steering, "steering")')
      /\ InLine(log', "followUp", PutBack(followUp, "followUp")')
  BY <1>1, <1>2, <1>3 DEF PutBack
<1> QED
  BY <1>4 DEF OrderInv

\* A step that leaves the lanes, the claim and the log alone.
LEMMA OrderSame ==
    ASSUME OrderInv, UNCHANGED <<steering, followUp, lane, claimed, log>>,
           writeFailed' = writeFailed
    PROVE  OrderInv'
BY DEF OrderInv, PutBack

\* A failed commit of records that are no messages.
LEMMA OrderFailed ==
    ASSUME QueueInv, OrderInv, UNCHANGED <<steering, followUp, lane, claimed>>,
           NEW r \in Seq(Entry), CommitFails(r), TypeOK', NEW Q, Q \cap MessagesOf(log) = {},
           \A k \in 1..Len(r) : /\ r[k].type # "message"
                                /\ r[k].type = "enqueued" => r[k].item \in Q
    PROVE  OrderInv'
<1>1. CASE writeFailed
  BY <1>1, OrderSame DEF CommitFails
<1>2. CASE ~writeFailed
  <2>1. writeFailed' = TRUE /\ TypeOK /\ log \in Seq(Entry) /\ log' \in Seq(Entry)
    BY <1>2 DEF CommitFails, QueueInv, TypeOK
  <2>2. Extended(log, log', {}, Q)
    BY <2>1, CommitFailsExtends
  <2>3. InOrder(log') /\ QueuedBefore(log')
    BY <2>1, <2>2, ExtendedInOrder DEF OrderInv
  <2> QED
    BY <2>1, <2>3 DEF OrderInv
<1> QED
  BY <1>1, <1>2 DEF QueueInv, TypeOK

\* A commit that cancels the items W of a list and takes them out of the lanes.
LEMMA OrderCancelled ==
    ASSUME QueueInv, TypeOK', OrderInv, NEW w \in Seq(Items), In(w) \subseteq Waiting,
           CommitOk([k \in 1..Len(w) |-> Cancelled(w[k])]),
           UNCHANGED <<lane, claimed>>,
           Part(steering', steering), In(steering') = In(steering) \ In(w),
           Part(followUp', followUp), In(followUp') = In(followUp) \ In(w)
    PROVE  OrderInv'
<1> DEFINE r == [k \in 1..Len(w) |-> Cancelled(w[k])]
<1>1. /\ r \in Seq(Entry) /\ Len(r) = Len(w) /\ Len(w) \in Nat
      /\ \A k \in 1..Len(w) : r[k] = Cancelled(w[k])
  BY CancelRecords
<1>2. \A k \in 1..Len(r) : /\ r[k].type # "message" /\ r[k].type # "enqueued"
                           /\ r[k].item = w[k]
  BY <1>1 DEF Cancelled
<1>3. /\ TypeOK /\ log \in Seq(Entry) /\ log' \in Seq(Entry) /\ CommitOk(r)
      /\ log' = log \o r /\ ~writeFailed
  BY DEF QueueInv, TypeOK, CommitOk
<1> HIDE DEF r
<1>4. Extended(log, log', {}, {})
  BY <1>1, <1>2, <1>3, CommitOkExtends
<1>5. InOrder(log') /\ QueuedBefore(log')
  <2>1. InOrder(log) /\ QueuedBefore(log) /\ {} \cap MessagesOf(log) = {}
    BY DEF OrderInv
  <2> QED
    BY <1>3, <1>4, <2>1, ExtendedInOrder
<1>6. Appended(log, log', In(w))
  <2>1. /\ Len(log) \in Nat /\ Len(log') = Len(log) + Len(r)
        /\ \A k \in 1..Len(log) : log'[k] = log[k]
        /\ \A k \in 1..Len(r) : log'[Len(log) + k] = r[k]
    <3>1. ASSUME NEW l \in Seq(Entry), NEW e \in Seq(Entry)
          PROVE  /\ Len(l) \in Nat /\ Len(l \o e) = Len(l) + Len(e)
                 /\ \A k \in 1..Len(l) : (l \o e)[k] = l[k]
                 /\ \A k \in 1..Len(e) : (l \o e)[Len(l) + k] = e[k]
      OBVIOUS
    <3> QED
      BY <1>1, <1>3, <3>1
  <2>2. ASSUME NEW k \in 1..Len(log'), k > Len(log)
        PROVE  log'[k].type # "enqueued" /\ log'[k].item \in In(w)
    <3>1. k - Len(log) \in 1..Len(r) /\ log'[k] = r[k - Len(log)]
      BY <1>1, <2>1, <2>2
    <3> QED
      BY <1>1, <1>2, <3>1 DEF In
  <2>3. ASSUME NEW i \in In(w)
        PROVE  \E k \in 1..Len(log') : k > Len(log) /\ log'[k].item = i
    <3>1. PICK j \in 1..Len(w) : w[j] = i
      BY DEF In
    <3>2. Len(log) + j \in 1..Len(log') /\ Len(log) + j > Len(log) /\ log'[Len(log) + j].item = i
      BY <1>1, <1>2, <2>1, <3>1
    <3> QED
      BY <3>2
  <2> QED
    BY <1>1, <2>1, <2>2, <2>3 DEF Appended
<1>7. /\ UNCHANGED lane
      /\ \/ claimed' = claimed /\ claimed \notin In(w)
         \/ claimed' = None /\ (claimed = None \/ claimed \in In(w))
  BY DEF QueueInv, LanesApart
<1> QED
  BY <1>3, <1>5, <1>6, <1>7, Shrinks

\* Removal, clearing and withdrawal.
LEMMA OrderLeaves ==
    ASSUME QueueInv, TypeOK', OrderInv,
           \/ \E i \in Items : Remove(i)
           \/ Clear
           \/ WithdrawOk
    PROVE  OrderInv'
<1>0. /\ TypeOK /\ steering \in Seq(Items) /\ followUp \in Seq(Items)
  BY DEF QueueInv, TypeOK
<1>1. ASSUME NEW R, NEW s \in Keep(steering, R), NEW f \in Keep(followUp, R)
      PROVE  /\ Part(s, steering) /\ In(s) = In(steering) \ R
             /\ Part(f, followUp) /\ In(f) = In(followUp) \ R
  BY <1>0, <1>1, Parts, KeepRest
<1>2. ASSUME NEW i \in Items, Remove(i) PROVE OrderInv'
  <2> DEFINE w == <<i>>
  <2>1. w \in Seq(Items) /\ Len(w) = 1 /\ w[1] = i
    OBVIOUS
  <2>2. In(w) = {i} /\ i \in Waiting
    BY <1>2, <2>1 DEF In, Remove
  <2>3. [k \in 1..Len(w) |-> Cancelled(w[k])] = <<Cancelled(i)>>
    BY <2>1
  <2> HIDE DEF w
  <2>4. /\ CommitOk(<<Cancelled(i)>>) /\ UNCHANGED <<lane, claimed>>
        /\ steering' \in Keep(steering, In(w)) /\ followUp' \in Keep(followUp, In(w))
    BY <1>2, <2>2 DEF Remove
  <2>5. CommitOk([k \in 1..Len(w) |-> Cancelled(w[k])])
    BY <2>3, <2>4
  <2> QED
    BY <1>1, <2>1, <2>2, <2>4, <2>5, OrderCancelled
<1>3. ASSUME Clear PROVE OrderInv'
  <2> DEFINE w == steering \o followUp
  <2>1. w \in Seq(Items) /\ In(w) = Waiting
    BY <1>0, InConcat DEF Waiting
  <2>2. CommitOk([k \in 1..Len(w) |-> Cancelled(w[k])])
    BY <1>3 DEF Clear, ClearRecords
  <2>3. UNCHANGED <<lane, claimed>> /\ steering' = <<>> /\ followUp' = <<>>
    BY <1>3 DEF Clear
  <2>4. In(<<>>) = {}
    BY DEF In
  <2>5. /\ In(steering') = In(steering) \ In(w) /\ In(followUp') = In(followUp) \ In(w)
    BY <2>1, <2>3, <2>4 DEF Waiting
  <2>6. Part(steering', steering) /\ Part(followUp', followUp)
    BY <1>0, <2>3, Parts
  <2> HIDE DEF w
  <2> QED
    BY <2>1, <2>2, <2>3, <2>5, <2>6, OrderCancelled
<1>4. ASSUME WithdrawOk PROVE OrderInv'
  <2>1. PICK w \in Keep(steering \o followUp, Waiting \ Withdrawable) :
          IF w = <<>> THEN UNCHANGED <<logVars, budget>>
          ELSE CommitOk([k \in 1..Len(w) |-> Cancelled(w[k])])
    BY <1>4 DEF WithdrawOk
  <2>3. w \in Seq(Items) /\ In(w) = Withdrawable
    BY <1>0, <2>1, WithdrawnList
  <2>4. Withdrawable \subseteq Waiting
    BY DEF Withdrawable
  <2>5. /\ UNCHANGED <<lane, claimed>>
        /\ steering' \in Keep(steering, Withdrawable) /\ followUp' \in Keep(followUp, Withdrawable)
    BY <1>4 DEF WithdrawOk
  <2>6. /\ Part(steering', steering) /\ In(steering') = In(steering) \ In(w)
        /\ Part(followUp', followUp) /\ In(followUp') = In(followUp) \ In(w)
    BY <1>1, <2>3, <2>5
  <2>7. CASE w # <<>>
    BY <2>1, <2>3, <2>4, <2>5, <2>6, <2>7, OrderCancelled
  <2>8. CASE w = <<>>
    <3>1. UNCHANGED <<log, writeFailed>> /\ In(w) = {}
      BY <2>1, <2>8 DEF logVars, In
    <3>2. In(steering') = In(steering) /\ In(followUp') = In(followUp)
      BY <2>6, <3>1
    <3>3. CASE writeFailed
      BY <2>5, <3>1, <3>2, <3>3 DEF OrderInv
    <3>4. CASE ~writeFailed
      <4>1. Appended(log, log', {})
        BY <1>0, <3>1 DEF Appended, TypeOK
      <4>2. InOrder(log') /\ QueuedBefore(log')
        BY <3>1 DEF OrderInv
      <4>3. /\ UNCHANGED lane
            /\ \/ claimed' = claimed /\ claimed \notin {}
               \/ claimed' = None /\ (claimed = None \/ claimed \in {})
            /\ In(steering') = In(steering) \ {} /\ In(followUp') = In(followUp) \ {}
        BY <2>5, <3>2
      <4> QED
        BY <1>0, <2>5, <2>6, <3>4, <4>1, <4>2, <4>3, Shrinks
    <3> QED
      BY <3>3, <3>4
  <2> QED
    BY <2>7, <2>8
<1> QED
  BY <1>2, <1>3, <1>4

\* The end of a lane with its claim put back.
LEMMA PutBackAppend ==
    ASSUME TypeOK, NEW q, NEW s \in Seq(Items), NEW i \in Items
    PROVE  PutBack(Append(s, i), q) = Append(PutBack(s, q), i)
<1>1. ASSUME NEW c \in Items PROVE <<c>> \o Append(s, i) = Append(<<c>> \o s, i)
  <2> DEFINE x == <<c>> \o Append(s, i)
             y == Append(<<c>> \o s, i)
  <2>1. x \in Seq(Items) /\ y \in Seq(Items) /\ Len(x) = Len(s) + 2 /\ Len(y) = Len(s) + 2
    OBVIOUS
  <2>2. \A k \in 1..(Len(s) + 2) : x[k] = y[k]
    OBVIOUS
  <2> HIDE DEF x, y
  <2>3. x = y
    <3>1. x \in [1..(Len(s) + 2) -> Items] /\ y \in [1..(Len(s) + 2) -> Items]
      BY <2>1
    <3> QED
      BY <2>2, <3>1
  <2> QED
    BY <2>3 DEF x, y
<1>2. CASE claimed # None /\ lane[claimed] = q
  <2>1. claimed \in Items
    BY <1>2 DEF TypeOK
  <2> QED
    BY <1>1, <1>2, <2>1 DEF PutBack
<1>3. CASE ~(claimed # None /\ lane[claimed] = q)
  BY <1>3 DEF PutBack
<1> QED
  BY <1>2, <1>3

\* An item joins lane q at its end and leaves the other one.
LEMMA OrderJoins ==
    ASSUME QueueInv, TypeOK', OrderInv, NEW i \in Items, NEW q \in Lanes,
           i # claimed, i \notin MessagesOf(log), CommitOk(<<Enqueued(i, q)>>),
           UNCHANGED claimed, lane' = [lane EXCEPT ![i] = q],
           NEW s \in Seq(Items), Part(s, steering), In(s) = In(steering) \ {i},
           NEW f \in Seq(Items), Part(f, followUp), In(f) = In(followUp) \ {i},
           steering' = IF q = "steering" THEN Append(s, i) ELSE s,
           followUp' = IF q = "followUp" THEN Append(f, i) ELSE f
    PROVE  OrderInv'
<1>1. /\ TypeOK /\ log \in Seq(Entry) /\ log' \in Seq(Entry) /\ lane \in [Items -> Lanes]
      /\ steering \in Seq(Items) /\ followUp \in Seq(Items)
      /\ ~writeFailed /\ writeFailed' = writeFailed
  BY DEF QueueInv, TypeOK, CommitOk
<1>2. <<Enqueued(i, q)>> \in Seq(Entry) /\ Enqueued(i, q) \in Entry
  BY EntryFields
<1>3. log' = log \o <<Enqueued(i, q)>> /\ log' = Append(log, Enqueued(i, q))
  <2>1. \A l \in Seq(Entry), e \in Entry : l \o <<e>> = Append(l, e)
    OBVIOUS
  <2> QED
    BY <1>1, <1>2, <2>1 DEF CommitOk
<1>4. InOrder(log') /\ QueuedBefore(log')
  <2>1. \A k \in 1..Len(<<Enqueued(i, q)>>) :
           /\ <<Enqueued(i, q)>>[k].type = "message" => <<Enqueued(i, q)>>[k].item \in {}
           /\ <<Enqueued(i, q)>>[k].type = "enqueued" => <<Enqueued(i, q)>>[k].item \in {i}
    BY DEF Enqueued
  <2>2. Extended(log, log', {}, {i})
    BY <1>1, <1>2, <2>1, CommitOkExtends
  <2>3. InOrder(log) /\ QueuedBefore(log) /\ {i} \cap MessagesOf(log) = {}
    BY DEF OrderInv
  <2> QED
    BY <1>1, <2>2, <2>3, ExtendedInOrder
<1>5. \A j \in In(steering') : lane'[j] = "steering"
  <2>1. CASE q = "steering"
    <3>1. In(steering') = In(s) \cup {i} /\ In(s) \subseteq Items
      BY <2>1, InAppend, InFinite
    <3> QED
      BY <1>1, <2>1, <3>1 DEF OrderInv
  <2>2. CASE q # "steering"
    <3>1. In(steering') = In(steering) \ {i} /\ In(s) \subseteq Items
      BY <2>2, InFinite
    <3> QED
      BY <1>1, <3>1 DEF OrderInv
  <2> QED
    BY <2>1, <2>2
<1>6. \A j \in In(followUp') : lane'[j] = "followUp"
  <2>1. CASE q = "followUp"
    <3>1. In(followUp') = In(f) \cup {i} /\ In(f) \subseteq Items
      BY <2>1, InAppend, InFinite
    <3> QED
      BY <1>1, <2>1, <3>1 DEF OrderInv
  <2>2. CASE q # "followUp"
    <3>1. In(followUp') = In(followUp) \ {i} /\ In(f) \subseteq Items
      BY <2>2, InFinite
    <3> QED
      BY <1>1, <3>1 DEF OrderInv
  <2> QED
    BY <2>1, <2>2
<1>7. ASSUME NEW r \in Lanes, NEW x \in Seq(Items), NEW t \in Seq(Items),
             InLine(log, r, PutBack(x, r)), Part(t, x), In(t) = In(x) \ {i}
      PROVE  /\ r # q => InLine(log', r, PutBack(t, r))
             /\ r = q => InLine(log', r, PutBack(Append(t, i), r))
  <2>1. /\ PutBack(x, r) \in Seq(Items) /\ PutBack(t, r) \in Seq(Items)
        /\ In(PutBack(x, r)) = In(x) \cup {c \in {claimed} : c # None /\ lane[c] = r}
        /\ In(PutBack(t, r)) = In(t) \cup {c \in {claimed} : c # None /\ lane[c] = r}
        /\ Part(PutBack(t, r), PutBack(x, r))
    BY <1>1, <1>7, PutBackHolds
  <2>2. In(PutBack(t, r)) = In(PutBack(x, r)) \ {i}
    BY <1>7, <2>1
  <2>3. PutBack(Append(t, i), r) = Append(PutBack(t, r), i)
    BY <1>1, PutBackAppend
  <2>4. /\ r # q => InLine(log', r, PutBack(t, r))
        /\ r = q => InLine(log', r, Append(PutBack(t, r), i))
    <3> DEFINE x1 == PutBack(x, r)
               t1 == PutBack(t, r)
    <3>1. /\ x1 \in Seq(Items) /\ t1 \in Seq(Items) /\ InLine(log, r, x1)
          /\ Part(t1, x1) /\ In(t1) = In(x1) \ {i} /\ log \in Seq(Entry)
      BY <1>1, <1>7, <2>1, <2>2
    <3> HIDE DEF x1, t1
    <3>2. /\ r # q => InLine(Append(log, Enqueued(i, q)), r, t1)
          /\ r = q => InLine(Append(log, Enqueued(i, q)), r, Append(t1, i))
      BY <3>1, JoinInLine
    <3> QED
      BY <1>3, <3>2 DEF t1
  <2> QED
    BY <2>3, <2>4
<1>8. ASSUME NEW x, NEW r PROVE PutBack(x, r) =
                (IF claimed' # None /\ lane'[claimed'] = r THEN <<claimed'>> \o x ELSE x)
  <2>1. claimed # None => claimed \in Items /\ lane'[claimed] = lane[claimed]
    BY <1>1 DEF TypeOK
  <2> QED
    BY <2>1 DEF PutBack
<1>9. /\ InLine(log, "steering", PutBack(steering, "steering"))
      /\ InLine(log, "followUp", PutBack(followUp, "followUp"))
      /\ "steering" \in Lanes /\ "followUp" \in Lanes
  BY <1>1 DEF OrderInv, Lanes
<1>10. InLine(log', "steering", PutBack(steering', "steering"))
  BY <1>1, <1>7, <1>9
<1>11. InLine(log', "followUp", PutBack(followUp', "followUp"))
  BY <1>1, <1>7, <1>9
<1>12. /\ InLine(log', "steering", PutBack(steering, "steering")')
       /\ InLine(log', "followUp", PutBack(followUp, "followUp")')
  <2>1. /\ PutBack(steering, "steering")' = PutBack(steering', "steering")
        /\ PutBack(followUp, "followUp")' = PutBack(followUp', "followUp")
    BY <1>8 DEF PutBack
  <2> QED
    BY <1>10, <1>11, <2>1
<1> QED
  BY <1>4, <1>5, <1>6, <1>12 DEF OrderInv

\* Acceptance and promotion.
LEMMA OrderQueued ==
    ASSUME QueueInv, TypeOK', OrderInv, NEW i \in Items,
           Promote(i) \/ \E q \in Lanes : Enqueue(i, q)
    PROVE  OrderInv'
<1>0. /\ TypeOK /\ steering \in Seq(Items) /\ followUp \in Seq(Items)
  BY DEF QueueInv, TypeOK
<1>1. ASSUME NEW q \in Lanes, Enqueue(i, q) PROVE OrderInv'
  <2>1. i \in Unqueued /\ stage[i] # "running"
    BY <1>1 DEF Enqueue, Unqueued
  <2>2. i \notin Pending /\ i \notin MessagesOf(log)
    BY <2>1 DEF QueueInv, UnqueuedIsNew
  <2>3. /\ i # claimed /\ In(steering) = In(steering) \ {i} /\ In(followUp) = In(followUp) \ {i}
    BY <2>2, ItemsAssumption DEF Pending, Waiting
  <2>4. Part(steering, steering) /\ Part(followUp, followUp)
    BY <1>0, Parts
  <2>5. /\ CommitOk(<<Enqueued(i, q)>>) /\ UNCHANGED claimed /\ lane' = [lane EXCEPT ![i] = q]
        /\ steering' = IF q = "steering" THEN Append(steering, i) ELSE steering
        /\ followUp' = IF q = "followUp" THEN Append(followUp, i) ELSE followUp
    BY <1>1 DEF Enqueue
  <2> QED
    BY <1>0, <2>2, <2>3, <2>4, <2>5, OrderJoins
<1>2. ASSUME Promote(i) PROVE OrderInv'
  <2>1. i \in Waiting /\ In(steering) = In(steering) \ {i}
    BY <1>2 DEF Promote, Waiting
  <2>2. i # claimed /\ i \notin MessagesOf(log)
    BY <2>1 DEF QueueInv, LanesApart, Pending
  <2>3. /\ followUp' \in Seq(Items) /\ In(followUp') = In(followUp) \ {i}
        /\ Part(followUp', followUp) /\ Part(steering, steering)
    BY <1>0, <1>2, KeepRest, Parts DEF Promote
  <2> DEFINE q == "steering"
  <2>4. /\ CommitOk(<<Enqueued(i, q)>>) /\ UNCHANGED claimed /\ lane' = [lane EXCEPT ![i] = q]
        /\ steering' = IF q = "steering" THEN Append(steering, i) ELSE steering
        /\ followUp' = IF q = "followUp" THEN Append(followUp', i) ELSE followUp'
        /\ q \in Lanes
    BY <1>2 DEF Promote, Lanes
  <2> HIDE DEF q
  <2> QED
    BY <1>0, <2>1, <2>2, <2>3, <2>4, OrderJoins
<1> QED
  BY <1>1, <1>2

\* Claiming the head of a lane and putting a claim back: with the claim put back
\* the lanes stay as they are.
LEMMA OrderClaims ==
    ASSUME QueueInv, RunPhases, TypeOK', OrderInv,
           \/ ReturnClaim /\ UNCHANGED <<lane, log, writeFailed>>
           \/ \E tools \in BOOLEAN : NextTurn(tools)
    PROVE  OrderInv'
<1>0. /\ TypeOK /\ steering \in Seq(Items) /\ followUp \in Seq(Items) /\ lane \in [Items -> Lanes]
      /\ claimed = None \/ claimed \in Items
  BY DEF QueueInv, TypeOK
<1>1. ASSUME ReturnClaim, UNCHANGED <<lane, log, writeFailed>> PROVE OrderInv'
  <2>1. /\ PutBack(steering, "steering")' = PutBack(steering, "steering")
        /\ PutBack(followUp, "followUp")' = PutBack(followUp, "followUp")
    BY <1>1 DEF ReturnClaim, PutBack
  <2>2. /\ In(steering') = In(steering) \cup {c \in {claimed} : c # None /\ lane[c] = "steering"}
        /\ In(followUp') = In(followUp) \cup {c \in {claimed} : c # None /\ lane[c] = "followUp"}
    <3>1. /\ steering' = PutBack(steering, "steering") /\ followUp' = PutBack(followUp, "followUp")
      BY <1>1 DEF ReturnClaim, PutBack
    <3> QED
      BY <1>0, <3>1, PutBackHolds, Parts
  <2> QED
    BY <1>1, <2>1, <2>2 DEF OrderInv
<1>2. ASSUME NEW tools \in BOOLEAN, NextTurn(tools) PROVE OrderInv'
  <2>1. claimed = None /\ UNCHANGED <<lane, log, writeFailed>> /\ ClaimNextOrClose(~tools)
    BY <1>2 DEF NextTurn, RecordTurn, RunPhases
  <2>2. /\ PutBack(steering, "steering") = steering /\ PutBack(followUp, "followUp") = followUp
    BY <2>1 DEF PutBack
  <2>3. ASSUME NEW s \in Seq(Items), s # <<>> PROVE /\ <<Head(s)>> \o Tail(s) = s /\ Head(s) \in In(s)
                                                   /\ In(Tail(s)) \subseteq In(s) /\ Head(s) \in Items
    <3>1. /\ Head(s) \in Items /\ In(s) = In(Tail(s)) \cup {Head(s)}
      BY <2>3, InTail
    <3>2. <<Head(s)>> \o Tail(s) = s
      BY <2>3
    <3> QED
      BY <3>1, <3>2
  <2>4. CASE steering # <<>>
    <3>1. claimed' = Head(steering) /\ steering' = Tail(steering) /\ followUp' = followUp
      BY <2>1, <2>4 DEF ClaimNextOrClose
    <3>2. claimed' # None /\ lane'[claimed'] = "steering"
      <4>1. Head(steering) \in In(steering) /\ Head(steering) \in Items
        BY <1>0, <2>3, <2>4
      <4> QED
        BY <2>1, <3>1, <4>1, ItemsAssumption DEF OrderInv
    <3>3. PutBack(steering, "steering")' = steering /\ PutBack(followUp, "followUp")' = followUp
      BY <1>0, <2>3, <2>4, <3>1, <3>2 DEF PutBack
    <3>4. In(steering') \subseteq In(steering)
      BY <1>0, <2>3, <2>4, <3>1
    <3> QED
      BY <2>1, <2>2, <3>1, <3>3, <3>4 DEF OrderInv
  <2>5. CASE steering = <<>> /\ ~tools /\ followUp # <<>>
    <3>1. claimed' = Head(followUp) /\ steering' = steering /\ followUp' = Tail(followUp)
      BY <2>1, <2>5 DEF ClaimNextOrClose
    <3>2. claimed' # None /\ lane'[claimed'] = "followUp"
      <4>1. Head(followUp) \in In(followUp) /\ Head(followUp) \in Items
        BY <1>0, <2>3, <2>5
      <4> QED
        BY <2>1, <3>1, <4>1, ItemsAssumption DEF OrderInv
    <3>3. PutBack(steering, "steering")' = steering /\ PutBack(followUp, "followUp")' = followUp
      <4>1. <<Head(followUp)>> \o Tail(followUp) = followUp
        BY <1>0, <2>3, <2>5
      <4> QED
        BY <3>1, <3>2, <4>1 DEF PutBack
    <3>4. In(followUp') \subseteq In(followUp)
      BY <1>0, <2>3, <2>5, <3>1
    <3> QED
      BY <2>1, <2>2, <3>1, <3>3, <3>4 DEF OrderInv
  <2>6. CASE steering = <<>> /\ (tools \/ followUp = <<>>)
    <3>1. claimed' = claimed /\ steering' = steering /\ followUp' = followUp
      BY <2>1, <2>6 DEF ClaimNextOrClose
    <3> QED
      BY <2>1, <3>1, OrderSame
  <2> QED
    BY <2>4, <2>5, <2>6
<1> QED
  BY <1>1, <1>2

\* The Run's own input was never in a lane.
LEMMA OrderInitial ==
    ASSUME QueueInv, TypeOK', OrderInv, initial # None, ~writeFailed,
           log' = Append(log, Message(initial)),
           UNCHANGED <<steering, followUp, lane, claimed>>
    PROVE  OrderInv'
<1>1. TypeOK /\ initial \in Items /\ log \in Seq(Entry) /\ steering \in Seq(Items) /\ followUp \in Seq(Items)
  BY DEF QueueInv, TypeOK
<1>2. initial \in Unqueued
  BY <1>1 DEF QueueInv, RunInput, Unqueued
<1>3. initial \notin Pending /\ initial \notin QueuedIn(log)
  BY <1>2 DEF QueueInv, UnqueuedIsNew
<1>4. InOrder(log) /\ QueuedBefore(log) /\ Turn(log, initial)
  BY <1>1, <1>3, NeverQueuedTurn DEF OrderInv
<1>5. InOrder(log') /\ QueuedBefore(log') /\ Appended(log, log', {initial})
  BY <1>1, <1>4, MessageInOrder
<1>6. /\ UNCHANGED lane
      /\ \/ claimed' = claimed /\ claimed \notin {initial}
         \/ claimed' = None /\ (claimed = None \/ claimed \in {initial})
      /\ In(steering') = In(steering) \ {initial} /\ In(followUp') = In(followUp) \ {initial}
  BY <1>3 DEF Pending, Waiting
<1>7. Part(steering', steering) /\ Part(followUp', followUp)
  BY <1>1, Parts
<1> QED
  BY <1>1, <1>5, <1>6, <1>7, Shrinks

\* It is the claim's turn: the record of whatever joined its lane before it is
\* closed, or the item would stand before the claim.
LEMMA ClaimTurn ==
    ASSUME QueueInv, OrderInv, claimed # None, ~writeFailed
    PROVE  Turn(log, claimed)
<1>0. /\ TypeOK /\ claimed \in Items /\ log \in Seq(Entry) /\ Len(log) \in Nat
      /\ steering \in Seq(Items) /\ followUp \in Seq(Items)
      /\ claimed \notin In(steering) /\ claimed \notin In(followUp)
  BY DEF QueueInv, TypeOK, LanesApart, Waiting
<1> SUFFICES ASSUME NEW a \in 1..Len(log), NEW b \in 1..Len(log), a < b,
                    log[a].type = "enqueued", log[b].type = "enqueued",
                    log[a].lane = log[b].lane, log[a].item # log[b].item, log[b].item = claimed,
                    \A m \in 1..Len(log) : m > b => log[m].item # claimed,
                    \A d \in 1..Len(log) : d > a => log[d].item # log[a].item
             PROVE  FALSE
  BY DEF Turn
<1>1. OpenAt(log, a) /\ OpenAt(log, b)
  BY DEF OpenAt
<1>2. log[b].lane \in Lanes
  BY <1>0, EntryFields
<1>3. ASSUME NEW q, NEW s \in Seq(Items), claimed \notin In(s), InLine(log, q, PutBack(s, q)),
             log[b].lane = q
      PROVE  FALSE
  <2>1. In(PutBack(s, q)) = In(s) \cup {c \in {claimed} : c # None /\ lane[c] = q}
    BY <1>0, <1>3, PutBackHolds, Parts
  <2>2. claimed \in In(PutBack(s, q)) /\ log[a].item \in In(PutBack(s, q))
    BY <1>1, <1>3 DEF InLine
  <2>3. PutBack(s, q) = <<claimed>> \o s
    BY <1>3, <2>1, <2>2 DEF PutBack
  <2> DEFINE t == PutBack(s, q)
  <2>4. t[1] = claimed /\ Len(t) \in Nat /\ 1 \in 1..Len(t)
    BY <1>0, <1>3, <2>3
  <2>5. PICK v \in 1..Len(t) : t[v] = log[a].item
    BY <2>2 DEF In
  <2> HIDE DEF t
  <2>6. 1 < v
    BY <2>4, <2>5
  <2>7. InLine(log, q, t)
    BY <1>3 DEF t
  <2>8. b < a
    BY <1>1, <2>4, <2>5, <2>6, <2>7 DEF InLine
  <2> QED
    BY <2>8
<1>4. /\ InLine(log, "steering", PutBack(steering, "steering"))
      /\ InLine(log, "followUp", PutBack(followUp, "followUp"))
  BY DEF OrderInv
<1> QED
  BY <1>0, <1>2, <1>3, <1>4 DEF Lanes

\* The claim enters history.
LEMMA OrderConsumes ==
    ASSUME QueueInv, TypeOK', OrderInv, ConsumeClaimed \/ ConsumeFails
    PROVE  OrderInv'
<1>1. /\ TypeOK /\ claimed \in Items /\ claimed # None /\ log \in Seq(Entry) /\ log' \in Seq(Entry)
      /\ steering \in Seq(Items) /\ followUp \in Seq(Items)
      /\ claimed \notin In(steering) /\ claimed \notin In(followUp)
      /\ claimed' = None /\ UNCHANGED <<steering, followUp, lane>>
  BY DEF QueueInv, TypeOK, LanesApart, Waiting, ConsumeClaimed, ConsumeFails
<1> DEFINE e == Message(claimed)
           c == Consumed(claimed)
           one == Append(log, e)
           two == Append(one, c)
<1>2. e \in Entry /\ c \in Entry /\ c.type = "consumed" /\ c.item = claimed
  BY <1>1, EntryFields DEF Consumed
<1>3. ASSUME ~writeFailed
      PROVE  /\ one \in Seq(Entry) /\ InOrder(one) /\ QueuedBefore(one) /\ Appended(log, one, {claimed})
             /\ two \in Seq(Entry) /\ InOrder(two) /\ QueuedBefore(two) /\ Appended(log, two, {claimed})
  <2>1. InOrder(log) /\ QueuedBefore(log) /\ Turn(log, claimed)
    BY <1>1, <1>3, ClaimTurn DEF OrderInv
  <2>2. one \in Seq(Entry) /\ InOrder(one) /\ QueuedBefore(one) /\ Appended(log, one, {claimed})
    BY <1>1, <2>1, MessageInOrder
  <2> HIDE DEF one, c
  <2>3. /\ two \in Seq(Entry) /\ Len(one) \in Nat /\ Len(two) = Len(one) + 1
        /\ two[Len(one) + 1] = c /\ \A k \in 1..Len(one) : two[k] = one[k]
    BY <1>2, <2>2
  <2> HIDE DEF two
  <2>4. Extended(one, two, {}, {}) /\ {} \cap MessagesOf(one) = {}
    BY <1>2, <2>3 DEF Extended
  <2>5. InOrder(two) /\ QueuedBefore(two)
    BY <2>2, <2>3, <2>4, ExtendedInOrder
  <2>6. Appended(log, two, {claimed})
    <3>1. Len(log) \in Nat /\ Len(log) <= Len(one) /\ \A k \in 1..Len(log) : one[k] = log[k]
      BY <1>1, <2>2 DEF Appended
    <3>2. \A k \in 1..Len(log) : two[k] = log[k]
      BY <2>3, <3>1
    <3>3. ASSUME NEW k \in 1..Len(two), k > Len(log)
          PROVE  two[k].type # "enqueued" /\ two[k].item \in {claimed}
      <4>1. CASE k \in 1..Len(one)
        BY <2>2, <2>3, <3>3, <4>1 DEF Appended
      <4>2. CASE k = Len(one) + 1
        BY <1>2, <2>3, <4>2
      <4> QED
        BY <2>3, <4>1, <4>2
    <3>4. Len(one) + 1 \in 1..Len(two) /\ Len(one) + 1 > Len(log) /\ two[Len(one) + 1].item = claimed
      BY <1>2, <2>3, <3>1
    <3> QED
      BY <2>3, <3>1, <3>2, <3>3, <3>4 DEF Appended
  <2> QED
    BY <2>2, <2>3, <2>5, <2>6
<1>4. log \o <<e, c>> = two
  <2>1. \A l \in Seq(Entry), x, y \in Entry : l \o <<x, y>> = Append(Append(l, x), y)
    <3> TAKE l \in Seq(Entry), x, y \in Entry
    <3> DEFINE f == l \o <<x, y>>
               g == Append(Append(l, x), y)
    <3>1. Len(l) \in Nat /\ f \in Seq(Entry) /\ g \in Seq(Entry) /\ Len(f) = Len(l) + 2 /\ Len(g) = Len(l) + 2
      OBVIOUS
    <3>2. \A k \in 1..(Len(l) + 2) : f[k] = g[k]
      OBVIOUS
    <3> HIDE DEF f, g
    <3>3. f \in [1..(Len(l) + 2) -> Entry] /\ g \in [1..(Len(l) + 2) -> Entry]
      BY <3>1
    <3>4. f = g
      BY <3>2, <3>3
    <3> QED
      BY <3>4 DEF f, g
  <2> HIDE DEF e, c
  <2> QED
    BY <1>1, <1>2, <2>1
<1> HIDE DEF e, c, one, two
<1>5. ASSUME ConsumeClaimed PROVE OrderInv'
  <2>1. ~writeFailed /\ writeFailed' = writeFailed /\ log' = two
    BY <1>4, <1>5 DEF ConsumeClaimed, e, c
  <2>2. InOrder(log') /\ QueuedBefore(log') /\ Appended(log, log', {claimed})
    BY <1>3, <2>1
  <2>3. /\ UNCHANGED lane
        /\ \/ claimed' = claimed /\ claimed \notin {claimed}
           \/ claimed' = None /\ (claimed = None \/ claimed \in {claimed})
        /\ In(steering') = In(steering) \ {claimed} /\ In(followUp') = In(followUp) \ {claimed}
    BY <1>1
  <2>4. Part(steering', steering) /\ Part(followUp', followUp)
    BY <1>1, Parts
  <2> QED
    BY <1>1, <2>1, <2>2, <2>3, <2>4, Shrinks
<1>6. ASSUME ConsumeFails PROVE OrderInv'
  <2>1. CommitFails(<<e, c>>) /\ InOrder(log) /\ QueuedBefore(log)
    BY <1>6 DEF ConsumeFails, e, c, OrderInv
  <2>2. writeFailed' = TRUE
    BY <1>1, <2>1 DEF CommitFails, TypeOK
  <2>3. InOrder(log') /\ QueuedBefore(log')
    <3>1. CASE writeFailed
      BY <2>1, <3>1 DEF CommitFails
    <3>2. CASE ~writeFailed
      <4>1. PICK n \in 0..Len(<<e, c>>) : log' = log \o SubSeq(<<e, c>>, 1, n)
        BY <2>1, <3>2 DEF CommitFails
      <4>2. n = 0 \/ n = 1 \/ n = 2
        OBVIOUS
      <4> DEFINE r == <<e, c>>
                 a == <<e>>
      <4>3. /\ r \in Seq(Entry) /\ Len(r) = 2
            /\ a \in Seq(Entry) /\ Len(a) = 1 /\ \A m \in 1..1 : a[m] = r[m]
        BY <1>2
      <4>5. ASSUME NEW k \in 0..2, NEW t \in Seq(Entry), Len(t) = k, \A m \in 1..k : t[m] = r[m]
            PROVE  SubSeq(r, 1, k) = t
        <5> DEFINE s == SubSeq(r, 1, k)
        <5> HIDE DEF r, a
        <5>1. s \in Seq(Entry) /\ Len(s) = k /\ \A m \in 1..k : s[m] = r[m]
          BY <4>3, <4>5
        <5> HIDE DEF s
        <5>2. s \in [1..k -> Entry] /\ t \in [1..k -> Entry]
          BY <4>5, <5>1
        <5>3. s = t
          BY <4>5, <5>1, <5>2
        <5> QED
          BY <5>3 DEF s
      <4> HIDE DEF r, a
      <4>6. SubSeq(r, 1, 0) = <<>> /\ SubSeq(r, 1, 1) = a /\ SubSeq(r, 1, 2) = r
        BY <4>3, <4>5
      <4>4. log \o <<>> = log /\ log \o <<e>> = one
        BY <1>1, <1>2 DEF one
      <4> QED
        BY <1>3, <1>4, <2>1, <3>2, <4>1, <4>2, <4>4, <4>6 DEF r, a
    <3> QED
      BY <3>1, <3>2 DEF QueueInv, TypeOK
  <2> QED
    BY <1>1, <2>2, <2>3 DEF OrderInv
<1> QED
  BY <1>5, <1>6

\* What a restart restores.
LEMMA OrderReopens ==
    ASSUME QueueInv, TypeOK', OrderInv, Reopen
    PROVE  OrderInv'
<1>1. /\ log \in Seq(Entry) /\ log' \in Seq(Entry) /\ synced \in 0..Len(log) /\ Len(log) \in Nat
  BY DEF QueueInv, TypeOK
<1>2. PICK n \in synced..Len(log) : log' = SubSeq(log, 1, n)
  BY DEF Reopen
<1>3. n \in 0..Len(log) /\ InOrder(log) /\ QueuedBefore(log)
  BY <1>1 DEF OrderInv
<1>4. InOrder(log') /\ QueuedBefore(log')
  BY <1>1, <1>2, <1>3, PrefixInOrder
<1>5. /\ steering' \in RestoredLane(log', "steering") /\ followUp' \in RestoredLane(log', "followUp")
      /\ claimed' = None /\ "steering" \in Lanes /\ "followUp" \in Lanes
      /\ lane' = [i \in Items |-> IF i \in Live(log') THEN LaneIn(log', i) ELSE lane[i]]
  BY DEF Reopen, Lanes
<1>6. InLine(log', "steering", steering') /\ InLine(log', "followUp", followUp')
  BY <1>1, <1>4, <1>5, RestoredInLine
<1>7. /\ In(steering') = {i \in Live(log') : LaneIn(log', i) = "steering"}
      /\ In(followUp') = {i \in Live(log') : LaneIn(log', i) = "followUp"}
      /\ Live(log') \subseteq Items
  BY <1>1, <1>5, RestoredLaneHolds DEF Live
<1>8. /\ \A i \in In(steering') : lane'[i] = "steering"
      /\ \A i \in In(followUp') : lane'[i] = "followUp"
  BY <1>5, <1>7
<1>9. /\ PutBack(steering, "steering")' = steering' /\ PutBack(followUp, "followUp")' = followUp'
  BY <1>5 DEF PutBack
<1> QED
  BY <1>4, <1>6, <1>8, <1>9 DEF OrderInv

\* Commits that fail.
LEMMA OrderFailedSteps ==
    ASSUME QueueInv, TypeOK', OrderInv,
           \/ \E i \in Items, q \in Lanes : EnqueueFails(i, q)
           \/ MutationFails
           \/ WithdrawFails
    PROVE  OrderInv'
<1>0. TypeOK
  BY DEF QueueInv
<1>1. ASSUME NEW i \in Items, NEW q \in Lanes, EnqueueFails(i, q) PROVE OrderInv'
  <2> DEFINE r == <<Enqueued(i, q)>>
  <2>1. r \in Seq(Entry) /\ CommitFails(r) /\ UNCHANGED <<steering, followUp, lane, claimed>>
    BY <1>1, EntryFields DEF EnqueueFails, queueVars
  <2>2. \A k \in 1..Len(r) : r[k].type = "enqueued" /\ r[k].item \in {i}
    BY DEF Enqueued
  <2>3. {i} \cap MessagesOf(log) = {}
    BY <1>1 DEF EnqueueFails, QueueInv, UnqueuedIsNew, Unqueued
  <2> HIDE DEF r
  <2> QED
    BY <2>1, <2>2, <2>3, OrderFailed
<1>2. ASSUME NEW r \in Seq(Entry), CommitFails(r), \A k \in 1..Len(r) : r[k].type = "cancelled",
             UNCHANGED <<steering, followUp, lane, claimed>>
      PROVE  OrderInv'
  <2>1. {} \cap MessagesOf(log) = {}
    OBVIOUS
  <2>2. \A k \in 1..Len(r) : r[k].type # "message" /\ (r[k].type = "enqueued" => r[k].item \in {})
    BY <1>2
  <2> QED
    BY <1>2, <2>1, <2>2, OrderFailed
<1>3. ASSUME MutationFails PROVE OrderInv'
  <2>1. UNCHANGED <<steering, followUp, lane, claimed>>
    BY <1>3 DEF MutationFails, queueVars
  <2>2. Waiting \subseteq Items /\ In(followUp) \subseteq Waiting /\ Waiting \cap MessagesOf(log) = {}
    BY PendingFacts DEF Waiting
  <2>3. ASSUME NEW i \in Waiting, CommitFails(<<Cancelled(i)>>) PROVE OrderInv'
    <3> DEFINE r == <<Cancelled(i)>>
    <3>1. r \in Seq(Entry) /\ CommitFails(r) /\ \A k \in 1..Len(r) : r[k].type = "cancelled"
      BY <2>2, <2>3, EntryFields DEF Cancelled
    <3> HIDE DEF r
    <3> QED
      BY <1>2, <2>1, <3>1
  <2>4. ASSUME NEW i \in In(followUp), CommitFails(<<Enqueued(i, "steering")>>) PROVE OrderInv'
    <3> DEFINE r == <<Enqueued(i, "steering")>>
    <3>1. r \in Seq(Entry) /\ CommitFails(r)
      BY <2>2, <2>4, EntryFields DEF Lanes
    <3>2. \A k \in 1..Len(r) : r[k].type = "enqueued" /\ r[k].item \in {i}
      BY DEF Enqueued
    <3>3. {i} \cap MessagesOf(log) = {}
      BY <2>2
    <3> HIDE DEF r
    <3> QED
      BY <2>1, <3>1, <3>2, <3>3, OrderFailed
  <2>5. ASSUME CommitFails(ClearRecords) PROVE OrderInv'
    <3>1. ClearRecords \in Seq(Entry) /\ \A k \in 1..Len(ClearRecords) : ClearRecords[k].type = "cancelled"
      BY <1>0, ClearRecordsHold
    <3> QED
      BY <1>2, <2>1, <2>5, <3>1
  <2> QED
    BY <1>3, <2>3, <2>4, <2>5 DEF MutationFails
<1>4. ASSUME WithdrawFails PROVE OrderInv'
  <2>1. PICK w \in Keep(steering \o followUp, Waiting \ Withdrawable) :
            CommitFails([k \in 1..Len(w) |-> Cancelled(w[k])])
    BY <1>4 DEF WithdrawFails
  <2> DEFINE r == [k \in 1..Len(w) |-> Cancelled(w[k])]
  <2>2. w \in Seq(Items)
    BY <1>0, WithdrawnList
  <2>3. r \in Seq(Entry) /\ CommitFails(r) /\ \A k \in 1..Len(r) : r[k].type = "cancelled"
    BY <2>1, <2>2, CancelRecords DEF Cancelled
  <2>4. UNCHANGED <<steering, followUp, lane, claimed>>
    BY <1>4 DEF WithdrawFails
  <2> HIDE DEF r
  <2> QED
    BY <1>2, <2>3, <2>4
<1> QED
  BY <1>1, <1>3, <1>4

\* Every step keeps the lanes in line with the log and the log in order.
LEMMA OrderStep ==
    ASSUME QueueInv, RunPhases, OrderInv, [Next]_vars
    PROVE  OrderInv'
<1>0. TypeOK' /\ RunHasInput
  BY TypeStep DEF QueueInv
<1>1. ASSUME NEW i \in Items, ItemStep(i) \/ Remove(i) \/ Promote(i) PROVE OrderInv'
  <2>1. CASE Arrive(i) \/ RejectUncertain(i) \/ EnqueueClosed(i) \/ StartRun(i)
    <3>1. UNCHANGED <<steering, followUp, lane, claimed, log, writeFailed>>
      BY <2>1 DEF Arrive, RejectUncertain, EnqueueClosed, StartRun, queueVars, logVars
    <3> QED
      BY <3>1, OrderSame
  <2>2. CASE \E q \in Lanes : EnqueueFails(i, q)
    BY <1>0, <2>2, OrderFailedSteps
  <2>3. CASE Promote(i) \/ \E q \in Lanes : Enqueue(i, q)
    BY <1>0, <2>3, OrderQueued
  <2>4. CASE Remove(i)
    BY <1>0, <2>4, OrderLeaves
  <2> QED
    BY <1>1, <2>1, <2>2, <2>3, <2>4 DEF ItemStep
<1>2. ASSUME \/ \E p \in Prompts : RejectStale(p) \/ ClientLeaves(p)
             \/ \E s \in Submissions : RejectOrphan(s) \/ SubmitReturns(s)
             \/ \E x \in Stoppers : CancelTokens(x) \/ CancelCloses(x)
             \/ ParentCancelsRun
      PROVE  OrderInv'
  <2>1. UNCHANGED <<steering, followUp, lane, claimed, log, writeFailed>>
    BY <1>2 DEF RejectStale, ClientLeaves, RejectOrphan, SubmitReturns, CancelTokens,
                CancelCloses, ParentCancelsRun, queueVars, logVars
  <2> QED
    BY <2>1, OrderSame
<1>3. ASSUME WithdrawOk \/ WithdrawFails \/ Clear \/ MutationFails PROVE OrderInv'
  BY <1>0, <1>3, OrderLeaves, OrderFailedSteps
<1>4. ASSUME RunStep PROVE OrderInv'
  <2>1. ASSUME \/ StartFails \/ OpenQueue \/ ContinueTurn \/ ModelErrs \/ RetryTurn
               \/ \E o \in {"cancelled", "failed"} : EndTurn(o)
               \/ CloseQueue \/ FinishRun
        PROVE  OrderInv'
    <3>1. UNCHANGED <<steering, followUp, lane, claimed, log, writeFailed>>
      BY <2>1 DEF StartFails, OpenQueue, ContinueTurn, ModelErrs, RetryTurn, EndTurn,
                  CloseQueue, FinishRun, queueVars, logVars
    <3> QED
      BY <3>1, OrderSame
  <2>2. ASSUME TurnFails \/ TurnCancelled PROVE OrderInv'
    <3>1. ReturnClaim /\ UNCHANGED <<lane, log, writeFailed>>
      BY <2>2 DEF TurnFails, TurnCancelled, logVars
    <3> QED
      BY <1>0, <3>1, OrderClaims
  <2>3. ASSUME NEW tools \in BOOLEAN, NextTurn(tools) PROVE OrderInv'
    BY <1>0, <2>3, OrderClaims
  <2>4. ASSUME InsertInitial \/ Settle \/ SettleFails PROVE OrderInv'
    <3>1. UNCHANGED <<steering, followUp, lane, claimed, writeFailed>> /\ initial # None
      BY <1>0, <2>4 DEF InsertInitial, Settle, SettleFails, RunHasInput, queueVars
    <3>2. log' = log \/ (~writeFailed /\ log' = Append(log, Message(initial)))
      BY <2>4 DEF InsertInitial, Settle, SettleFails
    <3> QED
      BY <1>0, <3>1, <3>2, OrderSame, OrderInitial
  <2>5. ASSUME ConsumeClaimed \/ ConsumeFails PROVE OrderInv'
    BY <1>0, <2>5, OrderConsumes
  <2>6. ASSUME RunWithdraws PROVE OrderInv'
    BY <1>3, <2>6 DEF RunWithdraws
  <2> QED
    BY <1>4, <2>1, <2>2, <2>3, <2>4, <2>5, <2>6 DEF RunStep
<1>5. ASSUME NEW x \in Stoppers, CancelWithdraws(x) PROVE OrderInv'
  BY <1>3, <1>5 DEF CancelWithdraws
<1>6. ASSUME DropRun PROVE OrderInv'
  <2>1. ReturnClaim /\ UNCHANGED <<lane, log, writeFailed>>
    BY <1>6 DEF DropRun, logVars
  <2> QED
    BY <1>0, <2>1, OrderClaims
<1>7. ASSUME Reopen PROVE OrderInv'
  BY <1>0, <1>7, OrderReopens
<1>8. ASSUME UNCHANGED vars PROVE OrderInv'
  <2>1. UNCHANGED <<steering, followUp, lane, claimed, log, writeFailed>>
    BY <1>8 DEF vars
  <2> QED
    BY <2>1, OrderSame
<1> QED
  BY <1>1, <1>2, <1>3, <1>4, <1>5, <1>6, <1>7, <1>8 DEF Next, StopStep

\* An input that its lane already held when another was queued behind it leaves the
\* queue first: ClaimedItem::drop, promotions, withdrawals, failed writes and the
\* replay of a log after a crash let nobody be overtaken.
THEOREM LanesKeepOrder == Spec => []LaneOrder
<1>1. Init => RunPhases /\ OrderInv
  <2> SUFFICES ASSUME Init PROVE RunPhases /\ OrderInv
    OBVIOUS
  <2>1. steering = <<>> /\ followUp = <<>> /\ claimed = None /\ log = <<>>
    BY DEF Init
  <2>2. RunPhases
    BY DEF Init, RunPhases
  <2> QED
    BY <2>1, <2>2 DEF OrderInv, InLine, InOrder, QueuedBefore, PutBack, In
<1>2. QueueInv /\ RunPhases /\ OrderInv /\ [Next]_vars => (RunPhases /\ OrderInv)'
  <2>1. QueueInv => TypeOK
    BY DEF QueueInv
  <2> QED
    BY <2>1, RunPhasesStep, OrderStep
<1>3. OrderInv => LaneOrder
  BY DEF OrderInv, InOrder, LaneOrder
<1> QED
  BY <1>1, <1>2, <1>3, QueueInvariant, PTL DEF Spec

(***************************************************************************)
(* The replay of the log gives the queue in memory.                        *)
(***************************************************************************)

\* A list without repetition is as long as the set of its items is large.
LEMMA NoDupCard ==
    ASSUME NEW S, NEW s \in Seq(S), NoDup(s)
    PROVE  IsFiniteSet(In(s)) /\ Cardinality(In(s)) = Len(s)
<1>1. Len(s) \in Nat /\ \A k \in 1..Len(s) : s[k] \in In(s)
  BY DEF In
<1> DEFINE f == [k \in 1..Len(s) |-> s[k]]
<1>2. f \in Bijection(1..Len(s), In(s))
  <2>1. f \in Surjection(1..Len(s), In(s))
    BY <1>1 DEF Surjection, In
  <2>2. f \in Injection(1..Len(s), In(s))
    BY <1>1 DEF Injection, IsInjective, NoDup
  <2> QED
    BY <2>1, <2>2 DEF Bijection
<1>3. ExistsBijection(1..Len(s), In(s))
  BY <1>2 DEF ExistsBijection
<1> QED
  BY <1>1, <1>3, FS_CountingElements, InFinite

\* How to show that a list is the one a restored or shortened lane must be.
LEMMA InOrdered ==
    ASSUME NEW S, NEW s \in Seq(S), NoDup(s), NEW pos,
           \A u, v \in 1..Len(s) : u < v => pos[s[u]] < pos[s[v]]
    PROVE  s \in Ordered(In(s), pos)
<1>1. Cardinality(In(s)) = Len(s) /\ Len(s) \in Nat
  BY NoDupCard
<1>2. s \in [1..Len(s) -> In(s)]
  <2>1. \A k \in 1..Len(s) : s[k] \in In(s)
    BY DEF In
  <2> QED
    BY <2>1
<1>3. \A i \in In(s) : \E k \in 1..Len(s) : s[k] = i
  BY DEF In
<1> QED
  BY <1>1, <1>2, <1>3 DEF Ordered

\* There is only one such list.
LEMMA OrderedOnce ==
    ASSUME NEW S, IsFiniteSet(S), NEW pos, \A i \in S : pos[i] \in Nat,
           NEW s \in Ordered(S, pos), NEW t \in Ordered(S, pos)
    PROVE  s = t
<1> DEFINE n == Cardinality(S)
<1>1. /\ n \in Nat /\ s \in [1..n -> S] /\ t \in [1..n -> S]
      /\ \A i \in S : \E k \in 1..n : s[k] = i
      /\ \A i \in S : \E k \in 1..n : t[k] = i
      /\ \A j, k \in 1..n : j < k => pos[s[j]] < pos[s[k]]
      /\ \A j, k \in 1..n : j < k => pos[t[j]] < pos[t[k]]
  BY FS_CardinalityType DEF Ordered
<1> HIDE DEF n
<1> DEFINE T == {k \in 1..n : s[k] # t[k]}
<1>2. SUFFICES ASSUME T # {} PROVE FALSE
  BY <1>1
<1>3. PICK k \in T : \A j \in T : k <= j
  <2>1. T \in SUBSET Nat
    BY <1>1
  <2> HIDE DEF T
  <2> QED
    BY <1>2, <2>1, Least
<1>4. k \in 1..n /\ s[k] # t[k] /\ s[k] \in S /\ t[k] \in S
  BY <1>1, <1>3
<1>5. PICK j \in 1..n : t[j] = s[k]
  BY <1>1, <1>4
<1>6. PICK i \in 1..n : s[i] = t[k]
  BY <1>1, <1>4
<1>7. \A m \in 1..n : pos[s[m]] \in Nat /\ pos[t[m]] \in Nat
  BY <1>1
<1>8. k < j
  <2>1. j # k
    BY <1>4, <1>5
  <2>2. ASSUME j < k PROVE FALSE
    <3>1. s[j] = t[j]
      BY <1>1, <1>3, <1>4, <1>5, <2>2
    <3>2. pos[s[j]] < pos[s[k]]
      BY <1>1, <1>4, <1>5, <2>2
    <3> QED
      BY <1>4, <1>5, <1>7, <3>1, <3>2
  <2> QED
    BY <1>1, <1>4, <1>5, <2>1, <2>2
<1>9. k < i
  <2>1. i # k
    BY <1>4, <1>6
  <2>2. ASSUME i < k PROVE FALSE
    <3>1. s[i] = t[i]
      BY <1>1, <1>3, <1>4, <1>6, <2>2
    <3>2. pos[t[i]] < pos[t[k]]
      BY <1>1, <1>4, <1>6, <2>2
    <3> QED
      BY <1>4, <1>6, <1>7, <3>1, <3>2
  <2> QED
    BY <1>1, <1>4, <1>6, <2>1, <2>2
<1>10. pos[t[k]] < pos[s[k]]
  <2>1. pos[t[k]] < pos[t[j]]
    BY <1>1, <1>4, <1>8
  <2> QED
    BY <1>5, <2>1
<1>11. pos[s[k]] < pos[t[k]]
  <2>1. pos[s[k]] < pos[s[i]]
    BY <1>1, <1>4, <1>9
  <2> QED
    BY <1>6, <2>1
<1> QED
  BY <1>4, <1>7, <1>10, <1>11

\* Some list has what is left of a lane, in its order; by the shortest lane of
\* which it is not so.
LEMMA RestExists ==
    ASSUME NEW R, NEW s \in Seq(Items), NoDup(s)
    PROVE  \E t \in Seq(Items) : NoDup(t) /\ In(t) = In(s) \ R /\ Part(t, s)
<1> DEFINE Rest(t, x) == NoDup(t) /\ In(t) = In(x) \ R /\ Part(t, x)
           T == {n \in Nat : \E x \in Seq(Items) :
                   Len(x) = n /\ NoDup(x) /\ ~ \E t \in Seq(Items) : Rest(t, x)}
<1> SUFFICES ASSUME T # {} PROVE FALSE
  OBVIOUS
<1>1. PICK n \in T : \A m \in T : n <= m
  <2>1. T \in SUBSET Nat
    OBVIOUS
  <2> HIDE DEF T
  <2> QED
    BY <2>1, Least
<1>2. PICK x \in Seq(Items) : Len(x) = n /\ NoDup(x) /\ ~ \E t \in Seq(Items) : Rest(t, x)
  BY <1>1
<1>3. n \in Nat
  BY <1>1
<1>4. CASE n = 0
  <2>1. In(x) = {} /\ In(<<>>) = {} /\ <<>> \in Seq(Items)
    BY <1>2, <1>4 DEF In
  <2>2. Rest(<<>>, x)
    BY <2>1 DEF NoDup, Part
  <2> QED
    BY <1>2, <2>1, <2>2
<1>5. CASE n # 0
  <2> DEFINE front == [k \in 1..(n - 1) |-> x[k]]
             last == x[n]
  <2>1. /\ front \in Seq(Items) /\ Len(front) = n - 1 /\ last \in Items
        /\ \A k \in 1..(n - 1) : front[k] = x[k] /\ k \in 1..n
        /\ \A k \in 1..n : k = n \/ k \in 1..(n - 1)
    BY <1>2, <1>3, <1>5
  <2> HIDE DEF front, last
  <2>2. NoDup(front)
    BY <1>2, <2>1 DEF NoDup
  <2>3. In(x) = In(front) \cup {last}
    <3>1. In(x) \subseteq In(front) \cup {last}
      BY <1>2, <2>1 DEF In, last
    <3>2. In(front) \subseteq In(x)
      BY <1>2, <2>1 DEF In
    <3>3. last \in In(x)
      BY <1>2, <1>3, <1>5 DEF In, last
    <3> QED
      BY <3>1, <3>2, <3>3
  <2>4. last \notin In(front)
    <3> SUFFICES ASSUME NEW k \in 1..(n - 1), front[k] = last PROVE FALSE
      BY <2>1 DEF In
    <3>1. x[k] = x[n] /\ k \in 1..n /\ n \in 1..n /\ k # n
      BY <1>3, <1>5, <2>1 DEF last
    <3> QED
      BY <1>2, <3>1 DEF NoDup
  <2>5. PICK t \in Seq(Items) : Rest(t, front)
    <3>1. n - 1 \in Nat /\ n - 1 \notin T
      BY <1>1, <1>3, <1>5
    <3>2. \E t \in Seq(Items) : Rest(t, front)
      BY <2>1, <2>2, <3>1
    <3> QED
      BY <3>2
  <2>6. Part(t, x)
    <3> SUFFICES ASSUME NEW u \in 1..Len(t), NEW v \in 1..Len(t), u < v
                 PROVE  \E a, b \in 1..Len(x) : a < b /\ x[a] = t[u] /\ x[b] = t[v]
      BY DEF Part
    <3>1. PICK a, b \in 1..Len(front) : a < b /\ front[a] = t[u] /\ front[b] = t[v]
      BY <2>5 DEF Part
    <3>2. a \in 1..Len(x) /\ b \in 1..Len(x) /\ x[a] = t[u] /\ x[b] = t[v]
      BY <1>2, <2>1, <3>1
    <3> QED
      BY <3>1, <3>2
  <2>7. CASE last \in R
    <3>1. Rest(t, x)
      BY <2>3, <2>5, <2>6, <2>7
    <3> QED
      BY <1>2, <3>1
  <2>8. CASE last \notin R
    <3> DEFINE a == Append(t, last)
    <3>1. last \notin In(t)
      BY <2>4, <2>5
    <3>2. a \in Seq(Items) /\ In(a) = In(t) \cup {last} /\ NoDup(a)
      BY <2>1, <2>5, <3>1, InAppend
    <3>3. /\ Len(a) = Len(t) + 1 /\ Len(t) \in Nat /\ a[Len(t) + 1] = last
          /\ \A k \in 1..Len(t) : a[k] = t[k]
      BY <2>1
    <3> HIDE DEF a
    <3>4. Part(a, x)
      <4> SUFFICES ASSUME NEW u \in 1..Len(a), NEW v \in 1..Len(a), u < v
                   PROVE  \E j, k \in 1..Len(x) : j < k /\ x[j] = a[u] /\ x[k] = a[v]
        BY DEF Part
      <4>1. u \in 1..Len(t) /\ a[u] = t[u]
        BY <3>3
      <4>2. CASE v = Len(t) + 1
        <5>1. t[u] \in In(t)
          BY <4>1 DEF In
        <5>2. t[u] \in In(front)
          BY <2>5, <5>1
        <5>3. PICK j \in 1..(n - 1) : front[j] = t[u]
          BY <2>1, <5>2 DEF In
        <5>4. j \in 1..Len(x) /\ n \in 1..Len(x) /\ j < n /\ x[j] = a[u] /\ x[n] = a[v]
          BY <1>2, <1>3, <1>5, <2>1, <3>3, <4>1, <4>2, <5>3 DEF last
        <5> QED
          BY <5>4
      <4>3. CASE v # Len(t) + 1
        <5>1. v \in 1..Len(t) /\ a[v] = t[v]
          BY <3>3, <4>3
        <5> QED
          BY <2>6, <4>1, <5>1 DEF Part
      <4> QED
        BY <4>2, <4>3
    <3>5. Rest(a, x)
      BY <2>3, <2>5, <2>8, <3>2, <3>4
    <3> QED
      BY <1>2, <3>2, <3>5
  <2> QED
    BY <2>7, <2>8
<1> QED
  BY <1>4, <1>5

\* What PendingQueue::remove leaves of a lane.
LEMMA WithoutHolds ==
    ASSUME NEW R, NEW s \in Seq(Items), NoDup(s)
    PROVE  /\ Without(s, R) \in Seq(Items) /\ NoDup(Without(s, R))
           /\ In(Without(s, R)) = In(s) \ R /\ Part(Without(s, R), s)
<1> DEFINE pos == [i \in In(s) |-> CHOOSE k \in 1..Len(s) : s[k] = i]
<1>1. \A k \in 1..Len(s) : s[k] \in In(s) /\ pos[s[k]] = k
  <2> TAKE k \in 1..Len(s)
  <2>1. s[k] \in In(s)
    BY DEF In
  <2>2. (CHOOSE j \in 1..Len(s) : s[j] = s[k]) = k
    <3> DEFINE p == CHOOSE j \in 1..Len(s) : s[j] = s[k]
    <3>1. p \in 1..Len(s) /\ s[p] = s[k]
      OBVIOUS
    <3> HIDE DEF p
    <3>2. p = k
      BY <3>1 DEF NoDup
    <3> QED
      BY <3>2 DEF p
  <2> QED
    BY <2>1, <2>2
<1>2. PICK t \in Seq(Items) : NoDup(t) /\ In(t) = In(s) \ R /\ Part(t, s)
  BY RestExists
<1>3. t \in Ordered(In(t), pos)
  <2> HIDE DEF pos
  <2>1. ASSUME NEW u \in 1..Len(t), NEW v \in 1..Len(t), u < v
        PROVE  pos[t[u]] < pos[t[v]]
    <3>1. PICK x, y \in 1..Len(s) : x < y /\ s[x] = t[u] /\ s[y] = t[v]
      BY <1>2, <2>1 DEF Part
    <3> QED
      BY <1>1, <3>1
  <2> QED
    BY <1>2, <2>1, InOrdered
<1>4. t \in Keep(s, R)
  BY <1>2, <1>3 DEF Keep
<1>5. Without(s, R) \in Keep(s, R)
  BY <1>4 DEF Without
<1> QED
  BY <1>5, KeepRest, Parts

\* m is the last record of the first k that says something of the queued item i.
LastUpTo(l, k, i, m) ==
    /\ l[m].type # "message"
    /\ l[m].item = i
    /\ \A j \in 1..k : j > m => l[j].item # i \/ l[j].type = "message"

\* s is lane q as the first k records tell it.
LaneAfter(l, k, q, s) ==
    /\ s \in Seq(Items) /\ NoDup(s)
    /\ In(s) = {i \in Items : \E m \in 1..k :
                  LastUpTo(l, k, i, m) /\ l[m].type = "enqueued" /\ l[m].lane = q}
    /\ \A u, v \in 1..Len(s), m, n \in 1..k :
          u < v /\ LastUpTo(l, k, s[u], m) /\ LastUpTo(l, k, s[v], n) => m < n

\* What a record makes of one lane.
NextLane(s, e, q) ==
    IF e.type = "message" THEN s
    ELSE IF e.type = "enqueued" /\ e.lane = q
           THEN Append(Without(s, {e.item}), e.item)
           ELSE Without(s, {e.item})

\* ReplayRecord does that to both lanes.
LEMMA RecordByLane ==
    ASSUME NEW queue, NEW e \in Entry
    PROVE  /\ ReplayRecord(queue, e).steering = NextLane(queue.steering, e, "steering")
           /\ ReplayRecord(queue, e).followUp = NextLane(queue.followUp, e, "followUp")
<1>1. e.type \in {"message", "cancelled", "consumed", "enqueued"}
  BY DEF Entry
<1>2. CASE e.type = "message"
  BY <1>2 DEF ReplayRecord, NextLane
<1>3. CASE e.type \in {"cancelled", "consumed"}
  BY <1>3 DEF ReplayRecord, NextLane
<1>4. CASE e.type = "enqueued"
  BY <1>4 DEF ReplayRecord, NextLane
<1> QED
  BY <1>1, <1>2, <1>3, <1>4

\* How the last records move when one more is read.
LEMMA LastMoves ==
    ASSUME NEW l \in Seq(Entry), NEW k \in 1..Len(l), NEW i
    PROVE  /\ l[k].type = "message" \/ l[k].item # i =>
                \A m \in 1..k : LastUpTo(l, k, i, m) <=> m \in 1..(k - 1) /\ LastUpTo(l, k - 1, i, m)
           /\ l[k].type # "message" /\ l[k].item = i =>
                \A m \in 1..k : LastUpTo(l, k, i, m) <=> m = k
<1>1. Len(l) \in Nat /\ k \in Nat /\ \A j \in 1..k : j = k \/ j \in 1..(k - 1)
  OBVIOUS
<1>2. \A j \in 1..(k - 1) : j \in 1..k /\ j < k
  BY <1>1
<1> QED
  BY <1>1, <1>2 DEF LastUpTo

\* One more record: the lane is still what the records read so far say.
LEMMA LaneReplayed ==
    ASSUME NEW l \in Seq(Entry), NEW k \in 1..Len(l), NEW q \in Lanes, NEW s,
           LaneAfter(l, k - 1, q, s)
    PROVE  LaneAfter(l, k, q, NextLane(s, l[k], q))
<1> DEFINE e == l[k]
           i == l[k].item
           t == Without(s, {i})
           Named(n) == {j \in Items : \E m \in 1..n :
                          LastUpTo(l, n, j, m) /\ l[m].type = "enqueued" /\ l[m].lane = q}
<1>0. /\ k \in Nat /\ k \in 1..k /\ e \in Entry /\ i \in Items
      /\ \A m \in 1..(k - 1) : m \in 1..k
  BY EntryFields
<1>1. /\ s \in Seq(Items) /\ NoDup(s) /\ In(s) = Named(k - 1)
      /\ \A u, v \in 1..Len(s), m, n \in 1..(k - 1) :
           u < v /\ LastUpTo(l, k - 1, s[u], m) /\ LastUpTo(l, k - 1, s[v], n) => m < n
  BY DEF LaneAfter
<1>2. CASE e.type = "message"
  <2>1. \A j : \A m \in 1..k : LastUpTo(l, k, j, m) <=> m \in 1..(k - 1) /\ LastUpTo(l, k - 1, j, m)
    BY <1>2, LastMoves
  <2>2. Named(k) = Named(k - 1)
    BY <1>0, <2>1
  <2>3. LaneAfter(l, k, q, s)
    BY <1>1, <2>1, <2>2 DEF LaneAfter
  <2> QED
    BY <1>2, <2>3 DEF NextLane
<1>3. CASE e.type # "message"
  <2>1. \A j : j # i => \A m \in 1..k : LastUpTo(l, k, j, m) <=> m \in 1..(k - 1) /\ LastUpTo(l, k - 1, j, m)
    BY LastMoves
  <2>2. \A m \in 1..k : LastUpTo(l, k, i, m) <=> m = k
    BY <1>3, LastMoves
  <2>3. Named(k) = (Named(k - 1) \ {i}) \cup (IF e.type = "enqueued" /\ e.lane = q THEN {i} ELSE {})
    <3>1. ASSUME NEW j \in Items, j # i PROVE j \in Named(k) <=> j \in Named(k - 1)
      BY <1>0, <2>1, <3>1
    <3>2. i \in Named(k) <=> e.type = "enqueued" /\ e.lane = q
      BY <1>0, <2>2
    <3> HIDE DEF i, e
    <3>3. Named(k) \subseteq Items /\ Named(k - 1) \subseteq Items /\ i \in Items
      BY <1>0
    <3> HIDE DEF Named
    <3> QED
      BY <3>1, <3>2, <3>3
  <2>4. t \in Seq(Items) /\ NoDup(t) /\ In(t) = In(s) \ {i} /\ Part(t, s)
    <3> HIDE DEF i
    <3> QED
      BY <1>1, WithoutHolds
  <2> HIDE DEF t
  <2>5. \A u \in 1..Len(t) : t[u] \in In(t) /\ t[u] # i
    BY <2>4 DEF In
  <2>6. ASSUME NEW u \in 1..Len(t), NEW v \in 1..Len(t), NEW m \in 1..k, NEW n \in 1..k,
               u < v, LastUpTo(l, k, t[u], m), LastUpTo(l, k, t[v], n)
        PROVE  m < n
    <3>1. PICK x, y \in 1..Len(s) : x < y /\ s[x] = t[u] /\ s[y] = t[v]
      BY <2>4, <2>6 DEF Part
    <3>2. /\ m \in 1..(k - 1) /\ LastUpTo(l, k - 1, s[x], m)
          /\ n \in 1..(k - 1) /\ LastUpTo(l, k - 1, s[y], n)
      BY <2>1, <2>5, <2>6, <3>1
    <3> QED
      BY <1>1, <3>1, <3>2
  <2>7. CASE ~(e.type = "enqueued" /\ e.lane = q)
    <3>1. In(t) = Named(k)
      BY <1>1, <2>3, <2>4, <2>7
    <3>2. LaneAfter(l, k, q, t)
      BY <2>4, <2>6, <3>1 DEF LaneAfter
    <3>3. NextLane(s, e, q) = t
      BY <1>3, <2>7 DEF NextLane, t
    <3> QED
      BY <3>2, <3>3
  <2>8. CASE e.type = "enqueued" /\ e.lane = q
    <3> DEFINE a == Append(t, i)
    <3>1. a \in Seq(Items) /\ NoDup(a) /\ In(a) = In(t) \cup {i}
      BY <1>0, <2>4, InAppend
    <3>2. /\ Len(t) \in Nat /\ Len(a) = Len(t) + 1 /\ a[Len(t) + 1] = i
          /\ \A u \in 1..Len(t) : a[u] = t[u]
      BY <1>0, <2>4
    <3> HIDE DEF a
    <3>3. In(a) = Named(k)
      BY <1>1, <2>3, <2>4, <2>8, <3>1
    <3>4. ASSUME NEW u \in 1..Len(a), NEW v \in 1..Len(a), NEW m \in 1..k, NEW n \in 1..k,
                 u < v, LastUpTo(l, k, a[u], m), LastUpTo(l, k, a[v], n)
          PROVE  m < n
      <4>1. u \in 1..Len(t) /\ a[u] = t[u] /\ a[u] # i
        BY <2>5, <3>2, <3>4
      <4>2. m \in 1..(k - 1)
        BY <2>1, <3>4, <4>1
      <4>3. CASE v = Len(t) + 1
        <5>1. n = k
          BY <2>2, <3>2, <3>4, <4>3
        <5> QED
          BY <1>0, <4>2, <5>1
      <4>4. CASE v # Len(t) + 1
        <5>1. v \in 1..Len(t) /\ a[v] = t[v]
          BY <3>2, <4>4
        <5> QED
          BY <2>6, <3>4, <4>1, <5>1
      <4> QED
        BY <4>3, <4>4
    <3>5. LaneAfter(l, k, q, a)
      BY <3>1, <3>3, <3>4 DEF LaneAfter
    <3>6. NextLane(s, e, q) = a
      BY <2>8 DEF NextLane, t, a
    <3> QED
      BY <3>5, <3>6
  <2> QED
    BY <2>7, <2>8
<1> QED
  BY <1>2, <1>3
\* f is the list of queues of from_records after each of the first n records.
IsReplay(l, f, n) ==
    f = [k \in 0..n |-> IF k = 0 THEN [steering |-> <<>>, followUp |-> <<>>]
                        ELSE ReplayRecord(f[k - 1], l[k])]

\* The recursion of from_records has a solution for every log.
LEMMA ReplayExists ==
    ASSUME NEW l, NEW n \in Nat
    PROVE  \E f : IsReplay(l, f, n)
<1> DEFINE T == {k \in Nat : ~ \E f : IsReplay(l, f, k)}
           none == [steering |-> <<>>, followUp |-> <<>>]
<1> SUFFICES ASSUME T # {} PROVE FALSE
  OBVIOUS
<1>1. PICK k \in T : \A j \in T : k <= j
  <2>1. T \in SUBSET Nat
    OBVIOUS
  <2> HIDE DEF T
  <2> QED
    BY <2>1, Least
<1> HIDE DEF none
<1>2. CASE k = 0
  <2> DEFINE f == [i \in 0..0 |-> none]
  <2>1. IsReplay(l, f, 0)
    BY DEF IsReplay, none
  <2> QED
    BY <2>1, <1>1, <1>2
<1>3. CASE k # 0
  <2>1. k - 1 \in Nat /\ k - 1 \notin T /\ k \in Nat
    BY <1>1, <1>3
  <2>2. PICK f : IsReplay(l, f, k - 1)
    BY <2>1
  <2> DEFINE g == [i \in 0..k |-> IF i = k THEN ReplayRecord(f[k - 1], l[k]) ELSE f[i]]
  <2>3. \A i \in 0..(k - 1) : g[i] = f[i]
    BY <2>1
  <2>4. g[k] = ReplayRecord(f[k - 1], l[k])
    BY <2>1
  <2>5. \A i \in 0..k : i # 0 => i - 1 \in 0..(k - 1)
    BY <2>1
  <2>6. \A i \in 0..k : i # k => i \in 0..(k - 1)
    BY <2>1
  <2>7. \A i \in 0..(k - 1) : f[i] = IF i = 0 THEN none ELSE ReplayRecord(f[i - 1], l[i])
    BY <2>2 DEF IsReplay, none
  <2>8. \A i \in 0..k : g[i] = IF i = 0 THEN none ELSE ReplayRecord(g[i - 1], l[i])
    <3> SUFFICES ASSUME NEW i \in 0..k
                 PROVE  g[i] = IF i = 0 THEN none ELSE ReplayRecord(g[i - 1], l[i])
      OBVIOUS
    <3>1. CASE i = k
      <4>1. i # 0 /\ g[i - 1] = f[i - 1] /\ g[i] = ReplayRecord(f[i - 1], l[i])
        BY <3>1, <1>3, <2>3, <2>4, <2>5
      <4> HIDE DEF g
      <4> QED
        BY <4>1
    <3>2. CASE i # k
      <4>1. g[i] = f[i] /\ (i # 0 => g[i - 1] = f[i - 1])
        BY <3>2, <2>3, <2>5, <2>6
      <4>2. i \in 0..(k - 1)
        BY <3>2, <2>6
      <4> HIDE DEF g
      <4> QED
        BY <4>1, <4>2, <2>7
    <3> QED
      BY <3>1, <3>2
  <2>9. IsReplay(l, g, k)
    <3>1. g = [i \in 0..k |-> g[i]]
      OBVIOUS
    <3> HIDE DEF g
    <3> QED
      BY <3>1, <2>8 DEF IsReplay, none
  <2> QED
    BY <2>9, <1>1
<1> QED
  BY <1>2, <1>3

\* What from_records and restore give, by the list of queues in between.
LEMMA FromRecordsByReplay ==
    ASSUME NEW l \in Seq(Entry)
    PROVE  \E f : /\ IsReplay(l, f, Len(l))
                  /\ FromRecords(l).steering = Without(f[Len(l)].steering, MessagesOf(l))
                  /\ FromRecords(l).followUp = Without(f[Len(l)].followUp, MessagesOf(l))
<1>1. Len(l) \in Nat
  OBVIOUS
<1> DEFINE g == CHOOSE f : IsReplay(l, f, Len(l))
<1>2. IsReplay(l, g, Len(l))
  BY <1>1, ReplayExists, Zenon
<1>3. FromRecords(l) = [steering |-> Without(g[Len(l)].steering, MessagesOf(l)),
                        followUp |-> Without(g[Len(l)].followUp, MessagesOf(l))]
  BY DEF FromRecords, IsReplay
<1> HIDE DEF g
<1> QED
  BY <1>2, <1>3

\* After every record the lanes are what the records so far say.
LEMMA ReplayIsLane ==
    ASSUME NEW l \in Seq(Entry), NEW f, IsReplay(l, f, Len(l))
    PROVE  /\ LaneAfter(l, Len(l), "steering", f[Len(l)].steering)
           /\ LaneAfter(l, Len(l), "followUp", f[Len(l)].followUp)
<1> DEFINE Right(k) == /\ LaneAfter(l, k, "steering", f[k].steering)
                       /\ LaneAfter(l, k, "followUp", f[k].followUp)
           T == {k \in 0..Len(l) : ~ Right(k)}
<1>0. Len(l) \in Nat /\ Len(l) \in 0..Len(l)
  OBVIOUS
<1> SUFFICES ASSUME T # {} PROVE FALSE
  BY <1>0
<1>1. PICK k \in T : \A j \in T : k <= j
  <2>1. T \in SUBSET Nat
    BY <1>0
  <2> HIDE DEF T
  <2> QED
    BY <2>1, Least
<1>2. \A i \in 0..Len(l) : f[i] = IF i = 0 THEN [steering |-> <<>>, followUp |-> <<>>]
                                  ELSE ReplayRecord(f[i - 1], l[i])
  BY DEF IsReplay
<1>3. CASE k = 0
  <2>1. f[k].steering = <<>> /\ f[k].followUp = <<>>
    BY <1>0, <1>2, <1>3
  <2>2. \A q : LaneAfter(l, 0, q, <<>>)
    BY DEF LaneAfter, In, NoDup
  <2> QED
    BY <1>1, <1>3, <2>1, <2>2
<1>4. CASE k # 0
  <2>1. k \in 1..Len(l) /\ k - 1 \in 0..Len(l) /\ k - 1 < k
    BY <1>0, <1>1, <1>4
  <2>2. Right(k - 1)
    BY <1>0, <1>1, <2>1
  <2>3. f[k] = ReplayRecord(f[k - 1], l[k]) /\ l[k] \in Entry
    BY <1>2, <1>4, <2>1
  <2>4. /\ f[k].steering = NextLane(f[k - 1].steering, l[k], "steering")
        /\ f[k].followUp = NextLane(f[k - 1].followUp, l[k], "followUp")
    BY <2>3, RecordByLane
  <2>5. "steering" \in Lanes /\ "followUp" \in Lanes
    BY DEF Lanes
  <2>6. /\ LaneAfter(l, k, "steering", NextLane(f[k - 1].steering, l[k], "steering"))
        /\ LaneAfter(l, k, "followUp", NextLane(f[k - 1].followUp, l[k], "followUp"))
    BY <2>1, <2>2, <2>5, LaneReplayed
  <2> QED
    BY <1>1, <2>4, <2>6
<1> QED
  BY <1>3, <1>4
\* The loop of from_records with the entry check of restore computes the lanes
\* that the last records of a log describe, whatever the log.
LEMMA FromRecordsRestores ==
    ASSUME NEW l \in Seq(Entry)
    PROVE  /\ FromRecords(l).steering \in RestoredLane(l, "steering")
           /\ FromRecords(l).followUp \in RestoredLane(l, "followUp")
<1>0. Len(l) \in Nat
  OBVIOUS
<1>1. ASSUME NEW q \in Lanes, NEW s, LaneAfter(l, Len(l), q, s)
      PROVE  Without(s, MessagesOf(l)) \in RestoredLane(l, q)
  <2> DEFINE t == Without(s, MessagesOf(l))
             S == {i \in Live(l) : LaneIn(l, i) = q}
             pos == [i \in Live(l) |-> PlaceIn(l, i)]
  <2>1. \A i, m : LastUpTo(l, Len(l), i, m) <=> LastQueueRecord(l, i, m)
    BY DEF LastUpTo, LastQueueRecord
  <2>2. \A i : \A m, n \in 1..Len(l) : LastQueueRecord(l, i, m) /\ LastQueueRecord(l, i, n) => m = n
    BY <1>0 DEF LastQueueRecord
  <2>3. /\ s \in Seq(Items) /\ NoDup(s)
        /\ In(s) = {i \in Items : \E m \in 1..Len(l) :
                      LastUpTo(l, Len(l), i, m) /\ l[m].type = "enqueued" /\ l[m].lane = q}
        /\ \A u, v \in 1..Len(s), m, n \in 1..Len(l) :
             u < v /\ LastUpTo(l, Len(l), s[u], m) /\ LastUpTo(l, Len(l), s[v], n) => m < n
    BY <1>1 DEF LaneAfter
  <2>4. /\ t \in Seq(Items) /\ NoDup(t) /\ In(t) = In(s) \ MessagesOf(l) /\ Part(t, s)
    BY <2>3, WithoutHolds
  <2>5. \A i \in Live(l) : /\ i \in Items /\ i \notin MessagesOf(l) /\ PlaceIn(l, i) \in 1..Len(l)
                           /\ LastQueueRecord(l, i, PlaceIn(l, i))
                           /\ l[PlaceIn(l, i)].type = "enqueued"
    BY LiveRecords DEF Live
  <2>6. \A i \in Items : \A m \in 1..Len(l) :
            LastQueueRecord(l, i, m) /\ l[m].type = "enqueued" /\ i \notin MessagesOf(l)
            => i \in Live(l) /\ PlaceIn(l, i) = m
    <3> SUFFICES ASSUME NEW i \in Items, NEW m \in 1..Len(l), LastQueueRecord(l, i, m),
                        l[m].type = "enqueued", i \notin MessagesOf(l)
                 PROVE  i \in Live(l) /\ PlaceIn(l, i) = m
      OBVIOUS
    <3>1. i \in Live(l)
      BY DEF Live
    <3> QED
      BY <2>2, <2>5, <3>1
  <2> HIDE DEF t
  <2>7. In(t) = S
    <3>1. ASSUME NEW i \in In(t) PROVE i \in S
      <4>1. i \in Items /\ i \notin MessagesOf(l)
        BY <2>3, <2>4
      <4>2. PICK m \in 1..Len(l) : LastQueueRecord(l, i, m) /\ l[m].type = "enqueued" /\ l[m].lane = q
        BY <2>1, <2>3, <2>4
      <4>3. i \in Live(l) /\ PlaceIn(l, i) = m
        BY <2>6, <4>1, <4>2
      <4> QED
        BY <4>2, <4>3 DEF LaneIn
    <3>2. ASSUME NEW i \in S PROVE i \in In(t)
      <4>1. /\ i \in Items /\ i \notin MessagesOf(l) /\ PlaceIn(l, i) \in 1..Len(l)
            /\ LastQueueRecord(l, i, PlaceIn(l, i)) /\ l[PlaceIn(l, i)].type = "enqueued"
            /\ l[PlaceIn(l, i)].lane = q
        BY <2>5 DEF LaneIn
      <4> QED
        BY <2>1, <2>3, <2>4, <4>1
    <3> HIDE DEF S
    <3> QED
      BY <3>1, <3>2
  <2>8. ASSUME NEW u \in 1..Len(t), NEW v \in 1..Len(t), u < v
        PROVE  pos[t[u]] < pos[t[v]]
    <3>1. t[u] \in S /\ t[v] \in S
      <4>1. t[u] \in In(t) /\ t[v] \in In(t)
        BY DEF In
      <4> QED
        BY <2>7, <4>1
    <3>2. PICK x, y \in 1..Len(s) : x < y /\ s[x] = t[u] /\ s[y] = t[v]
      BY <2>4, <2>8 DEF Part
    <3>3. /\ t[u] \in Live(l) /\ t[v] \in Live(l)
          /\ pos[t[u]] = PlaceIn(l, t[u]) /\ pos[t[v]] = PlaceIn(l, t[v])
      BY <3>1
    <3>4. /\ PlaceIn(l, t[u]) \in 1..Len(l) /\ LastUpTo(l, Len(l), s[x], PlaceIn(l, t[u]))
          /\ PlaceIn(l, t[v]) \in 1..Len(l) /\ LastUpTo(l, Len(l), s[y], PlaceIn(l, t[v]))
      BY <2>1, <2>5, <3>2, <3>3
    <3> QED
      BY <2>3, <3>2, <3>3, <3>4
  <2>9. t \in Ordered(In(t), pos)
    <3> HIDE DEF pos
    <3> QED
      BY <2>4, <2>8, InOrdered
  <2> QED
    BY <2>7, <2>9 DEF RestoredLane, t
<1>2. PICK f : /\ IsReplay(l, f, Len(l))
               /\ FromRecords(l).steering = Without(f[Len(l)].steering, MessagesOf(l))
               /\ FromRecords(l).followUp = Without(f[Len(l)].followUp, MessagesOf(l))
  BY FromRecordsByReplay
<1>3. /\ LaneAfter(l, Len(l), "steering", f[Len(l)].steering)
      /\ LaneAfter(l, Len(l), "followUp", f[Len(l)].followUp)
  BY <1>2, ReplayIsLane
<1>4. "steering" \in Lanes /\ "followUp" \in Lanes
  BY DEF Lanes
<1> QED
  BY <1>1, <1>2, <1>3, <1>4

\* As long as every write succeeded, whatever is pending has an open record of
\* its lane.
Backed ==
    ~writeFailed => \A i \in Pending : \E k \in 1..Len(log) :
                       OpenAt(log, k) /\ log[k].item = i /\ log[k].lane = lane[i]

\* Records of other items leave an open record open, and a new one is open.
LEMMA BackedGrows ==
    ASSUME TypeOK, Backed, ~writeFailed' => ~writeFailed, NEW r \in Seq(Entry), log' = log \o r,
           \A i \in Pending' :
              \/ i \in Pending /\ lane'[i] = lane[i] /\ \A k \in 1..Len(r) : r[k].item # i
              \/ \E k \in 1..Len(r) : /\ r[k] = Enqueued(i, lane'[i])
                                      /\ \A j \in 1..Len(r) : j > k => r[j].item # i
    PROVE  Backed'
<1> SUFFICES ASSUME ~writeFailed', NEW i \in Pending'
             PROVE  \E k \in 1..Len(log') :
                       OpenAt(log', k) /\ log'[k].item = i /\ log'[k].lane = lane'[i]
  BY DEF Backed, OpenAt
<1>1. log \in Seq(Entry) /\ Len(log) \in Nat /\ Len(r) \in Nat
  BY DEF TypeOK
<1>2. /\ Len(log') = Len(log) + Len(r)
      /\ \A k \in 1..Len(log) : log'[k] = log[k]
      /\ \A k \in 1..Len(r) : log'[Len(log) + k] = r[k]
  <2>1. ASSUME NEW l \in Seq(Entry), NEW e \in Seq(Entry)
        PROVE  /\ Len(l) \in Nat /\ Len(l \o e) = Len(l) + Len(e)
               /\ \A k \in 1..Len(l) : (l \o e)[k] = l[k]
               /\ \A k \in 1..Len(e) : (l \o e)[Len(l) + k] = e[k]
    OBVIOUS
  <2> QED
    BY <1>1, <2>1
<1>3. \A k \in 1..Len(log') : \/ k \in 1..Len(log)
                              \/ k - Len(log) \in 1..Len(r) /\ log'[k] = r[k - Len(log)]
  BY <1>1, <1>2
<1>4. CASE i \in Pending /\ lane'[i] = lane[i] /\ \A k \in 1..Len(r) : r[k].item # i
  <2>1. PICK k \in 1..Len(log) : OpenAt(log, k) /\ log[k].item = i /\ log[k].lane = lane[i]
    BY <1>4 DEF Backed
  <2>2. k \in 1..Len(log') /\ log'[k] = log[k]
    BY <1>1, <1>2
  <2>3. OpenAt(log', k)
    BY <1>2, <1>3, <1>4, <2>1, <2>2 DEF OpenAt
  <2> QED
    BY <1>4, <2>1, <2>2, <2>3
<1>5. ASSUME NEW k \in 1..Len(r), r[k] = Enqueued(i, lane'[i]),
             \A j \in 1..Len(r) : j > k => r[j].item # i
      PROVE  \E m \in 1..Len(log') :
                OpenAt(log', m) /\ log'[m].item = i /\ log'[m].lane = lane'[i]
  <2>1. /\ Len(log) + k \in 1..Len(log') /\ log'[Len(log) + k] = r[k]
        /\ r[k].type = "enqueued" /\ r[k].item = i /\ r[k].lane = lane'[i]
    BY <1>1, <1>2, <1>5 DEF Enqueued
  <2>2. \A m \in 1..Len(log') : m > Len(log) + k => log'[m].item # i
    <3> SUFFICES ASSUME NEW m \in 1..Len(log'), m > Len(log) + k PROVE log'[m].item # i
      OBVIOUS
    <3>1. m - Len(log) \in 1..Len(r) /\ m - Len(log) > k /\ log'[m] = r[m - Len(log)]
      BY <1>1, <1>3
    <3> QED
      BY <1>5, <3>1
  <2>3. OpenAt(log', Len(log) + k)
    BY <2>1, <2>2 DEF OpenAt
  <2>4. log'[Len(log) + k].item = i /\ log'[Len(log) + k].lane = lane'[i]
    BY <2>1
  <2> QED
    BY <2>1, <2>3, <2>4
<1> QED
  BY <1>4, <1>5

\* A step that writes nothing and queues nothing.
LEMMA BackedSame ==
    ASSUME TypeOK, Backed, ~writeFailed' => ~writeFailed, log' = log, Pending' \subseteq Pending,
           \A i \in Pending : lane'[i] = lane[i]
    PROVE  Backed'
<1>1. log \in Seq(Entry)
  BY DEF TypeOK
<1> QED
  BY <1>1 DEF Backed, OpenAt

\* The place of a live item is an open record.
LEMMA LiveIsOpen ==
    ASSUME NEW l \in Seq(Entry), NEW i \in Live(l)
    PROVE  /\ PlaceIn(l, i) \in 1..Len(l) /\ OpenAt(l, PlaceIn(l, i))
           /\ l[PlaceIn(l, i)].item = i
<1>1. i \notin MessagesOf(l)
  BY DEF Live
<1>2. PICK k \in 1..Len(l) : k = PlaceIn(l, i)
  BY LiveRecords
<1>3. LastQueueRecord(l, i, k) /\ l[k].type = "enqueued"
  BY <1>2, LiveRecords
<1>4. \A m \in 1..Len(l) : l[m].item = i => l[m].type # "message"
  BY <1>1 DEF MessagesOf
<1>5. OpenAt(l, k) /\ l[k].item = i
  BY <1>3, <1>4 DEF LastQueueRecord, OpenAt
<1> QED
  BY <1>2, <1>5

\* Whatever was restored has an open record.
LEMMA BackedReopens ==
    ASSUME QueueInv, TypeOK', Reopen
    PROVE  Backed'
<1>1. /\ log' \in Seq(Entry) /\ Len(log') \in Nat /\ claimed' = None
      /\ steering' \in RestoredLane(log', "steering") /\ followUp' \in RestoredLane(log', "followUp")
      /\ "steering" \in Lanes /\ "followUp" \in Lanes
      /\ lane' = [i \in Items |-> IF i \in Live(log') THEN LaneIn(log', i) ELSE lane[i]]
  BY DEF Reopen, Lanes, TypeOK
<1>2. In(steering') \subseteq Live(log') /\ In(followUp') \subseteq Live(log')
  BY <1>1, RestoredLaneHolds
<1>3. Pending' \subseteq Live(log')
  BY <1>1, <1>2 DEF Pending, Waiting
<1>4. ASSUME NEW i \in Pending'
      PROVE  \E k \in 1..Len(log') : OpenAt(log', k) /\ log'[k].item = i /\ log'[k].lane = lane'[i]
  <2>1. i \in Live(log') /\ i \in Items /\ i \notin MessagesOf(log') /\ lane'[i] = LaneIn(log', i)
    BY <1>1, <1>3 DEF Live
  <2>2. /\ PlaceIn(log', i) \in 1..Len(log') /\ OpenAt(log', PlaceIn(log', i))
        /\ log'[PlaceIn(log', i)].item = i
    BY <1>1, <2>1, LiveIsOpen
  <2> QED
    BY <2>1, <2>2 DEF LaneIn
<1> QED
  BY <1>4 DEF Backed, OpenAt
\* Joining a lane, for the first time or by promotion.
LEMMA BackedJoins ==
    ASSUME QueueInv, Backed, NEW i \in Items, Promote(i) \/ \E q \in Lanes : Enqueue(i, q)
    PROVE  Backed'
<1>0. /\ TypeOK /\ steering \in Seq(Items) /\ followUp \in Seq(Items) /\ lane \in [Items -> Lanes]
      /\ Pending \subseteq Items
  BY PendingFacts DEF QueueInv, TypeOK
<1>1. ASSUME NEW q \in Lanes, CommitOk(<<Enqueued(i, q)>>), lane' = [lane EXCEPT ![i] = q],
             Pending' \subseteq Pending \cup {i}
      PROVE  Backed'
  <2> DEFINE r == <<Enqueued(i, q)>>
  <2>1. r \in Seq(Entry) /\ Len(r) = 1 /\ r[1] = Enqueued(i, q) /\ r[1].item = i
    BY EntryFields DEF Enqueued
  <2>2. log' = log \o r /\ writeFailed' = writeFailed
    BY <1>1 DEF CommitOk
  <2> HIDE DEF r
  <2>3. ASSUME NEW j \in Pending'
        PROVE  \/ j \in Pending /\ lane'[j] = lane[j] /\ \A k \in 1..Len(r) : r[k].item # j
               \/ \E k \in 1..Len(r) : /\ r[k] = Enqueued(j, lane'[j])
                                       /\ \A m \in 1..Len(r) : m > k => r[m].item # j
    <3>1. CASE j = i
      <4>1. lane'[j] = q
        BY <1>0, <1>1, <3>1
      <4>2. 1 \in 1..Len(r) /\ r[1] = Enqueued(j, lane'[j]) /\ \A m \in 1..Len(r) : ~(m > 1)
        BY <2>1, <3>1, <4>1
      <4> QED
        BY <4>2
    <3>2. CASE j # i
      <4>1. j \in Pending /\ lane'[j] = lane[j]
        BY <1>0, <1>1, <3>2
      <4>2. \A k \in 1..Len(r) : r[k].item # j
        BY <2>1, <3>2
      <4> QED
        BY <4>1, <4>2
    <3> QED
      BY <3>1, <3>2
  <2> QED
    BY <1>0, <2>1, <2>2, <2>3, BackedGrows
<1>2. ASSUME NEW q \in Lanes, Enqueue(i, q) PROVE Backed'
  <2>1. /\ CommitOk(<<Enqueued(i, q)>>) /\ lane' = [lane EXCEPT ![i] = q] /\ claimed' = claimed
        /\ steering' = IF q = "steering" THEN Append(steering, i) ELSE steering
        /\ followUp' = IF q = "followUp" THEN Append(followUp, i) ELSE followUp
    BY <1>2 DEF Enqueue
  <2>2. In(steering') \subseteq In(steering) \cup {i} /\ In(followUp') \subseteq In(followUp) \cup {i}
    BY <1>0, <2>1, InAppend
  <2>3. Pending' \subseteq Pending \cup {i}
    BY <2>1, <2>2 DEF Pending, Waiting
  <2> QED
    BY <1>1, <2>1, <2>3
<1>3. ASSUME Promote(i) PROVE Backed'
  <2>1. /\ CommitOk(<<Enqueued(i, "steering")>>) /\ lane' = [lane EXCEPT ![i] = "steering"]
        /\ claimed' = claimed /\ steering' = Append(steering, i) /\ followUp' \in Keep(followUp, {i})
        /\ "steering" \in Lanes
    BY <1>3 DEF Promote, Lanes
  <2>2. In(steering') \subseteq In(steering) \cup {i} /\ In(followUp') \subseteq In(followUp)
    BY <1>0, <2>1, InAppend, KeepRest
  <2>3. Pending' \subseteq Pending \cup {i}
    BY <2>1, <2>2 DEF Pending, Waiting
  <2> QED
    BY <1>1, <2>1, <2>3
<1> QED
  BY <1>2, <1>3

\* Cancellations that are written take their items out of the lanes.
LEMMA BackedCancelled ==
    ASSUME QueueInv, Backed, NEW w \in Seq(Items), In(w) \subseteq Waiting,
           CommitOk([k \in 1..Len(w) |-> Cancelled(w[k])]), UNCHANGED <<lane, claimed>>,
           In(steering') = In(steering) \ In(w), In(followUp') = In(followUp) \ In(w)
    PROVE  Backed'
<1> DEFINE r == [k \in 1..Len(w) |-> Cancelled(w[k])]
<1>1. r \in Seq(Entry) /\ Len(r) = Len(w) /\ \A k \in 1..Len(r) : r[k].item = w[k]
  BY CancelRecords DEF Cancelled
<1>2. TypeOK /\ log' = log \o r /\ writeFailed' = writeFailed
  BY DEF CommitOk, QueueInv
<1> HIDE DEF r
<1>3. Pending' \subseteq Pending \ In(w)
  BY DEF Pending, Waiting, QueueInv, LanesApart
<1>4. \A k \in 1..Len(r) : r[k].item \in In(w)
  BY <1>1 DEF In
<1>5. \A i \in Pending' : i \in Pending /\ lane'[i] = lane[i] /\ \A k \in 1..Len(r) : r[k].item # i
  BY <1>3, <1>4
<1> QED
  BY <1>1, <1>2, <1>5, BackedGrows

\* Removal, clearing and withdrawal.
LEMMA BackedLeaves ==
    ASSUME QueueInv, Backed,
           \/ \E i \in Items : Remove(i)
           \/ Clear
           \/ WithdrawOk
    PROVE  Backed'
<1>0. /\ TypeOK /\ steering \in Seq(Items) /\ followUp \in Seq(Items)
  BY DEF QueueInv, TypeOK
<1>1. ASSUME NEW R, NEW s \in Keep(steering, R), NEW f \in Keep(followUp, R)
      PROVE  /\ In(s) = In(steering) \ R
             /\ In(f) = In(followUp) \ R
  BY <1>0, <1>1, KeepRest
<1>2. ASSUME NEW i \in Items, Remove(i) PROVE Backed'
  <2> DEFINE w == <<i>>
  <2>1. w \in Seq(Items) /\ Len(w) = 1 /\ w[1] = i
    OBVIOUS
  <2>2. In(w) = {i} /\ i \in Waiting
    BY <1>2, <2>1 DEF In, Remove
  <2>3. [k \in 1..Len(w) |-> Cancelled(w[k])] = <<Cancelled(i)>>
    BY <2>1
  <2> HIDE DEF w
  <2>4. /\ CommitOk(<<Cancelled(i)>>) /\ UNCHANGED <<lane, claimed>>
        /\ steering' \in Keep(steering, In(w)) /\ followUp' \in Keep(followUp, In(w))
    BY <1>2, <2>2 DEF Remove
  <2>5. CommitOk([k \in 1..Len(w) |-> Cancelled(w[k])])
    BY <2>3, <2>4
  <2> QED
    BY <1>1, <2>1, <2>2, <2>4, <2>5, BackedCancelled
<1>3. ASSUME Clear PROVE Backed'
  <2> DEFINE w == steering \o followUp
  <2>1. w \in Seq(Items) /\ In(w) = Waiting
    BY <1>0, InConcat DEF Waiting
  <2>2. CommitOk([k \in 1..Len(w) |-> Cancelled(w[k])])
    BY <1>3 DEF Clear, ClearRecords
  <2>3. UNCHANGED <<lane, claimed>> /\ steering' = <<>> /\ followUp' = <<>>
    BY <1>3 DEF Clear
  <2>4. In(<<>>) = {}
    BY DEF In
  <2>5. /\ In(steering') = In(steering) \ In(w) /\ In(followUp') = In(followUp) \ In(w)
    BY <2>1, <2>3, <2>4 DEF Waiting
  <2> HIDE DEF w
  <2> QED
    BY <2>1, <2>2, <2>3, <2>5, BackedCancelled
<1>4. ASSUME WithdrawOk PROVE Backed'
  <2>1. PICK w \in Keep(steering \o followUp, Waiting \ Withdrawable) :
          IF w = <<>> THEN UNCHANGED <<logVars, budget>>
          ELSE CommitOk([k \in 1..Len(w) |-> Cancelled(w[k])])
    BY <1>4 DEF WithdrawOk
  <2>2. w \in Seq(Items) /\ In(w) = Withdrawable /\ Withdrawable \subseteq Waiting
    BY <1>0, <2>1, WithdrawnList DEF Withdrawable
  <2>3. /\ UNCHANGED <<lane, claimed>>
        /\ steering' \in Keep(steering, Withdrawable) /\ followUp' \in Keep(followUp, Withdrawable)
    BY <1>4 DEF WithdrawOk
  <2>4. In(steering') = In(steering) \ In(w) /\ In(followUp') = In(followUp) \ In(w)
    BY <1>1, <2>2, <2>3
  <2>5. CASE w # <<>>
    BY <2>1, <2>2, <2>3, <2>4, <2>5, BackedCancelled
  <2>6. CASE w = <<>>
    <3>1. UNCHANGED <<log, writeFailed>>
      BY <2>1, <2>6 DEF logVars
    <3>2. Pending' \subseteq Pending
      BY <2>3, <2>4 DEF Pending, Waiting
    <3> QED
      BY <1>0, <2>3, <3>1, <3>2, BackedSame
  <2> QED
    BY <2>5, <2>6
<1> QED
  BY <1>2, <1>3, <1>4

\* What a Run does: it claims and puts back, and its messages are of inputs that
\* are pending no longer.
LEMMA BackedRuns ==
    ASSUME QueueInv, RunPhases, Backed,
           \/ ReturnClaim /\ UNCHANGED <<lane, log, writeFailed>>
           \/ \E tools \in BOOLEAN : NextTurn(tools)
           \/ InsertInitial \/ Settle \/ SettleFails
           \/ ConsumeClaimed
    PROVE  Backed'
<1>0. /\ TypeOK /\ steering \in Seq(Items) /\ followUp \in Seq(Items) /\ lane \in [Items -> Lanes]
      /\ claimed = None \/ claimed \in Items
      /\ log \in Seq(Entry)
  BY DEF QueueInv, TypeOK
<1>1. ASSUME ReturnClaim, UNCHANGED <<lane, log, writeFailed>> PROVE Backed'
  <2>1. steering' = PutBack(steering, "steering") /\ followUp' = PutBack(followUp, "followUp")
        /\ claimed' = None
    BY <1>1 DEF ReturnClaim, PutBack
  <2>2. /\ In(steering') \subseteq Pending
        /\ In(followUp') \subseteq Pending
    <3>1. /\ In(steering') = In(steering) \cup {c \in {claimed} : c # None /\ lane[c] = "steering"}
          /\ In(followUp') = In(followUp) \cup {c \in {claimed} : c # None /\ lane[c] = "followUp"}
      BY <1>0, <2>1, PutBackHolds, Parts
    <3> QED
      BY <3>1 DEF Pending, Waiting
  <2>3. Pending' \subseteq Pending
    BY <2>1, <2>2 DEF Pending, Waiting
  <2> QED
    BY <1>0, <1>1, <2>3, BackedSame
<1>2. ASSUME NEW tools \in BOOLEAN, NextTurn(tools) PROVE Backed'
  <2>1. UNCHANGED <<lane, log, writeFailed>> /\ ClaimNextOrClose(~tools)
    BY <1>2 DEF NextTurn, RecordTurn
  <2>2. ASSUME NEW s \in Seq(Items), s # <<>> PROVE Head(s) \in In(s) /\ In(Tail(s)) \subseteq In(s)
    BY <2>2, InTail
  <2>3. /\ In(steering') \subseteq In(steering) /\ In(followUp') \subseteq In(followUp)
        /\ claimed' = None \/ claimed' \in Waiting
    BY <1>0, <2>1, <2>2 DEF ClaimNextOrClose, Waiting
  <2>4. Pending' \subseteq Pending
    BY <2>3 DEF Pending, Waiting
  <2> QED
    BY <1>0, <2>1, <2>4, BackedSame
<1>3. ASSUME InsertInitial \/ Settle \/ SettleFails PROVE Backed'
  <2>1. UNCHANGED <<steering, followUp, lane, claimed, writeFailed>>
    BY <1>3 DEF InsertInitial, Settle, SettleFails, queueVars
  <2>2. log' = log \/ log' = Append(log, Message(initial))
    BY <1>3 DEF InsertInitial, Settle, SettleFails
  <2>3. Pending' = Pending
    BY <2>1 DEF Pending, Waiting
  <2>4. CASE log' = log
    BY <1>0, <2>1, <2>3, <2>4, BackedSame
  <2>5. CASE log' = Append(log, Message(initial)) /\ initial \in Items
    <3> DEFINE r == <<Message(initial)>>
    <3>1. r \in Seq(Entry) /\ Len(r) = 1 /\ r[1].item = initial
      BY <2>5, EntryFields DEF Message
    <3>2. initial \notin Pending
      <4>1. initial \in Unqueued
        BY <2>5, ItemsAssumption DEF QueueInv, RunInput, Unqueued
      <4> QED
        BY <4>1 DEF QueueInv, UnqueuedIsNew
    <3>3. log' = log \o r
      <4>1. Message(initial) \in Entry
        BY <2>5, EntryFields
      <4>2. \A e \in Entry : Append(log, e) = log \o <<e>>
        BY <1>0
      <4> QED
        BY <2>5, <4>1, <4>2
    <3> HIDE DEF r
    <3>4. \A i \in Pending' : i \in Pending /\ lane'[i] = lane[i] /\ \A k \in 1..Len(r) : r[k].item # i
      BY <2>1, <2>3, <3>1, <3>2
    <3> QED
      BY <1>0, <2>1, <3>1, <3>3, <3>4, BackedGrows
  <2>6. initial # None
    BY <1>3 DEF InsertInitial, Settle, SettleFails, QueueInv, RunHasInput
  <2> QED
    BY <2>2, <2>4, <2>5, <2>6 DEF QueueInv, TypeOK
<1>4. ASSUME ConsumeClaimed PROVE Backed'
  <2> DEFINE r == <<Message(claimed), Consumed(claimed)>>
  <2>1. claimed \in Items /\ claimed # None
    BY <1>0, <1>4 DEF ConsumeClaimed
  <2>2. r \in Seq(Entry) /\ Len(r) = 2 /\ r[1].item = claimed /\ r[2].item = claimed
    BY <2>1, EntryFields DEF Message, Consumed
  <2>3. /\ log' = log \o r /\ claimed' = None
        /\ UNCHANGED <<steering, followUp, lane, writeFailed>>
    BY <1>4 DEF ConsumeClaimed
  <2> HIDE DEF r
  <2>4. Pending' \subseteq Pending \ {claimed}
    BY <2>3 DEF Pending, Waiting, QueueInv, LanesApart
  <2>5. \A k \in 1..Len(r) : r[k].item = claimed
    BY <2>2
  <2>6. \A i \in Pending' : i \in Pending /\ lane'[i] = lane[i] /\ \A k \in 1..Len(r) : r[k].item # i
    BY <2>3, <2>4, <2>5
  <2> QED
    BY <1>0, <2>2, <2>3, <2>6, BackedGrows
<1> QED
  BY <1>1, <1>2, <1>3, <1>4

\* Every step keeps a record behind whatever is pending.
LEMMA BackedStep ==
    ASSUME QueueInv, RunPhases, Backed, [Next]_vars
    PROVE  Backed'
<1>0. TypeOK /\ TypeOK' /\ RunHasInput
  BY TypeStep DEF QueueInv
<1>1. ASSUME UNCHANGED <<steering, followUp, lane, claimed, log, writeFailed>> PROVE Backed'
  <2>1. Pending' = Pending
    BY <1>1 DEF Pending, Waiting
  <2> QED
    BY <1>0, <1>1, <2>1, BackedSame
<1>2. ASSUME \/ \E i \in Items, q \in Lanes : EnqueueFails(i, q)
             \/ MutationFails \/ WithdrawFails \/ ConsumeFails
      PROVE  Backed'
  <2>1. writeFailed' = TRUE
    BY <1>0, <1>2 DEF EnqueueFails, MutationFails, WithdrawFails, ConsumeFails, CommitFails, TypeOK
  <2> QED
    BY <2>1 DEF Backed
<1>3. ASSUME NEW i \in Items, ItemStep(i) \/ Remove(i) \/ Promote(i) PROVE Backed'
  <2>1. CASE Arrive(i) \/ RejectUncertain(i) \/ EnqueueClosed(i) \/ StartRun(i)
    <3>1. UNCHANGED <<steering, followUp, lane, claimed, log, writeFailed>>
      BY <2>1 DEF Arrive, RejectUncertain, EnqueueClosed, StartRun, queueVars, logVars
    <3> QED
      BY <1>1, <3>1
  <2>2. CASE \E q \in Lanes : EnqueueFails(i, q)
    BY <1>2, <2>2
  <2>3. CASE Promote(i) \/ \E q \in Lanes : Enqueue(i, q)
    BY <2>3, BackedJoins
  <2>4. CASE Remove(i)
    BY <2>4, BackedLeaves
  <2> QED
    BY <1>3, <2>1, <2>2, <2>3, <2>4 DEF ItemStep
<1>4. ASSUME \/ \E p \in Prompts : RejectStale(p) \/ ClientLeaves(p)
             \/ \E s \in Submissions : RejectOrphan(s) \/ SubmitReturns(s)
             \/ \E x \in Stoppers : CancelTokens(x) \/ CancelCloses(x)
             \/ ParentCancelsRun
             \/ UNCHANGED vars
      PROVE  Backed'
  <2>1. UNCHANGED <<steering, followUp, lane, claimed, log, writeFailed>>
    BY <1>4 DEF RejectStale, ClientLeaves, RejectOrphan, SubmitReturns, CancelTokens,
                CancelCloses, ParentCancelsRun, queueVars, logVars, vars
  <2> QED
    BY <1>1, <2>1
<1>5. ASSUME WithdrawOk \/ WithdrawFails \/ Clear \/ MutationFails PROVE Backed'
  BY <1>2, <1>5, BackedLeaves
<1>6. ASSUME RunStep PROVE Backed'
  <2>1. ASSUME \/ StartFails \/ OpenQueue \/ ContinueTurn \/ ModelErrs \/ RetryTurn
               \/ \E o \in {"cancelled", "failed"} : EndTurn(o)
               \/ CloseQueue \/ FinishRun
        PROVE  Backed'
    <3>1. UNCHANGED <<steering, followUp, lane, claimed, log, writeFailed>>
      BY <2>1 DEF StartFails, OpenQueue, ContinueTurn, ModelErrs, RetryTurn, EndTurn,
                  CloseQueue, FinishRun, queueVars, logVars
    <3> QED
      BY <1>1, <3>1
  <2>2. ASSUME TurnFails \/ TurnCancelled PROVE Backed'
    <3>1. ReturnClaim /\ UNCHANGED <<lane, log, writeFailed>>
      BY <2>2 DEF TurnFails, TurnCancelled, logVars
    <3> QED
      BY <3>1, BackedRuns
  <2>3. ASSUME \/ \E tools \in BOOLEAN : NextTurn(tools)
               \/ InsertInitial \/ Settle \/ SettleFails \/ ConsumeClaimed
        PROVE  Backed'
    BY <2>3, BackedRuns
  <2>4. ASSUME RunWithdraws PROVE Backed'
    BY <1>5, <2>4 DEF RunWithdraws
  <2> QED
    BY <1>2, <1>6, <2>1, <2>2, <2>3, <2>4 DEF RunStep
<1>7. ASSUME NEW x \in Stoppers, CancelWithdraws(x) PROVE Backed'
  BY <1>5, <1>7 DEF CancelWithdraws
<1>8. ASSUME DropRun PROVE Backed'
  <2>1. ReturnClaim /\ UNCHANGED <<lane, log, writeFailed>>
    BY <1>8 DEF DropRun, logVars
  <2> QED
    BY <2>1, BackedRuns
<1>9. ASSUME Reopen PROVE Backed'
  BY <1>0, <1>9, BackedReopens
<1> QED
  BY <1>3, <1>4, <1>5, <1>6, <1>7, <1>8, <1>9 DEF Next, StopStep

\* A lane whose items all have open records, in line with them, is the lane a
\* replay restores.
LEMMA LaneIsRestored ==
    ASSUME QueueInv, OrderInv, Backed, ~writeFailed, NEW q \in Lanes,
           NEW s \in Seq(Items), NoDup(s), In(s) \subseteq Waiting, \A i \in In(s) : lane[i] = q,
           InLine(log, q, PutBack(s, q))
    PROVE  PutBack(s, q) \in RestoredLane(log, q)
<1> DEFINE t == PutBack(s, q)
           S == {i \in Live(log) : LaneIn(log, i) = q}
           pos == [i \in Live(log) |-> PlaceIn(log, i)]
<1>0. /\ TypeOK /\ log \in Seq(Entry) /\ QueuedBefore(log) /\ InLine(log, q, t)
  BY DEF QueueInv, TypeOK, OrderInv
<1>1. t \in Seq(Items) /\ NoDup(t) /\ \A i \in In(t) : i \in Pending /\ lane[i] = q
  <2>1. CASE claimed # None /\ lane[claimed] = q
    <3>1. claimed \in Items /\ claimed \notin In(s) /\ t = <<claimed>> \o s
      BY <2>1, <1>0 DEF TypeOK, QueueInv, LanesApart, PutBack
    <3>2. t \in Seq(Items) /\ NoDup(t) /\ In(t) = In(s) \cup {claimed}
      BY <3>1, InPrepend
    <3> QED
      BY <2>1, <3>2 DEF Pending
  <2>2. CASE ~(claimed # None /\ lane[claimed] = q)
    <3>1. t = s
      BY <2>2 DEF PutBack
    <3> QED
      BY <3>1 DEF Pending
  <2> QED
    BY <2>1, <2>2
<1> HIDE DEF t
<1>2. ASSUME NEW i \in In(t)
      PROVE  \E k \in 1..Len(log) : /\ OpenAt(log, k) /\ log[k].item = i
                                    /\ i \in Live(log) /\ PlaceIn(log, i) = k /\ LaneIn(log, i) = q
  <2>1. PICK k \in 1..Len(log) : OpenAt(log, k) /\ log[k].item = i /\ log[k].lane = q
    BY <1>1 DEF Backed
  <2>2. i \in Live(log) /\ PlaceIn(log, i) = k
    BY <1>0, <2>1, OpenIsLive
  <2> QED
    BY <2>1, <2>2 DEF LaneIn
<1>3. In(t) = S
  <2>1. In(t) \subseteq S
    BY <1>2
  <2>2. ASSUME NEW i \in S PROVE i \in In(t)
    <3>1. /\ PlaceIn(log, i) \in 1..Len(log) /\ OpenAt(log, PlaceIn(log, i))
          /\ log[PlaceIn(log, i)].item = i /\ log[PlaceIn(log, i)].lane = q
      BY <1>0, LiveIsOpen DEF LaneIn
    <3> QED
      BY <1>0, <3>1 DEF InLine
  <2> HIDE DEF S
  <2> QED
    BY <2>1, <2>2
<1>4. ASSUME NEW u \in 1..Len(t), NEW v \in 1..Len(t), u < v
      PROVE  pos[t[u]] < pos[t[v]]
  <2>1. t[u] \in In(t) /\ t[v] \in In(t)
    BY DEF In
  <2>2. PICK j \in 1..Len(log) : /\ OpenAt(log, j) /\ log[j].item = t[u]
                                 /\ t[u] \in Live(log) /\ PlaceIn(log, t[u]) = j
    BY <1>2, <2>1
  <2>3. PICK k \in 1..Len(log) : /\ OpenAt(log, k) /\ log[k].item = t[v]
                                 /\ t[v] \in Live(log) /\ PlaceIn(log, t[v]) = k
    BY <1>2, <2>1
  <2>4. j < k
    BY <1>0, <1>4, <2>2, <2>3 DEF InLine
  <2> QED
    BY <2>2, <2>3, <2>4
<1>5. t \in Ordered(In(t), pos)
  <2> HIDE DEF pos
  <2> QED
    BY <1>1, <1>4, InOrdered
<1> QED
  BY <1>3, <1>5 DEF RestoredLane, t

\* There is one lane a log can restore.
LEMMA RestoredOnce ==
    ASSUME NEW l \in Seq(Entry), NEW q, NEW s \in RestoredLane(l, q), NEW t \in RestoredLane(l, q)
    PROVE  s = t
<1> DEFINE S == {i \in Live(l) : LaneIn(l, i) = q}
           pos == [i \in Live(l) |-> PlaceIn(l, i)]
<1>1. IsFiniteSet(S)
  BY LiveRecords, FS_Subset
<1>2. \A i \in S : pos[i] \in Nat
  BY LiveRecords
<1>3. s \in Ordered(S, pos) /\ t \in Ordered(S, pos)
  BY DEF RestoredLane
<1> HIDE DEF S, pos
<1> QED
  BY <1>1, <1>2, <1>3, OrderedOnce

\* As long as every write succeeded, the replay loop of from_records and restore
\* gives exactly the queue in memory, a claim back at the front of its lane; and for
\* every log the Session writes it computes the lanes that a restart installs.
THEOREM ReplayGivesTheQueue == Spec => []MemoryMatchesLog
<1>1. Init => RunPhases /\ OrderInv /\ Backed
  <2> SUFFICES ASSUME Init PROVE RunPhases /\ OrderInv /\ Backed
    OBVIOUS
  <2>1. steering = <<>> /\ followUp = <<>> /\ claimed = None /\ log = <<>>
    BY DEF Init
  <2>2. RunPhases
    BY DEF Init, RunPhases
  <2>3. OrderInv
    BY <2>1 DEF OrderInv, InLine, InOrder, QueuedBefore, PutBack, In
  <2>4. Pending = {}
    BY <2>1 DEF Pending, Waiting, In
  <2> QED
    BY <2>2, <2>3, <2>4 DEF Backed
<1>2. QueueInv /\ RunPhases /\ OrderInv /\ Backed /\ [Next]_vars
        => (RunPhases /\ OrderInv /\ Backed)'
  <2>1. QueueInv => TypeOK
    BY DEF QueueInv
  <2> QED
    BY <2>1, RunPhasesStep, OrderStep, BackedStep
<1>3. QueueInv /\ OrderInv /\ Backed => MemoryMatchesLog
  <2> SUFFICES ASSUME QueueInv, OrderInv, Backed PROVE MemoryMatchesLog
    OBVIOUS
  <2>1. /\ log \in Seq(Entry) /\ steering \in Seq(Items) /\ followUp \in Seq(Items)
        /\ "steering" \in Lanes /\ "followUp" \in Lanes
    BY DEF QueueInv, TypeOK, Lanes
  <2>2. /\ FromRecords(log).steering \in RestoredLane(log, "steering")
        /\ FromRecords(log).followUp \in RestoredLane(log, "followUp")
    BY <2>1, FromRecordsRestores
  <2>3. ASSUME ~writeFailed
        PROVE  /\ PutBack(steering, "steering") = FromRecords(log).steering
               /\ PutBack(followUp, "followUp") = FromRecords(log).followUp
    <3>1. /\ NoDup(steering) /\ In(steering) \subseteq Waiting
          /\ NoDup(followUp) /\ In(followUp) \subseteq Waiting
      BY DEF QueueInv, LanesApart, Waiting
    <3>2. /\ \A i \in In(steering) : lane[i] = "steering"
          /\ \A i \in In(followUp) : lane[i] = "followUp"
          /\ InLine(log, "steering", PutBack(steering, "steering"))
          /\ InLine(log, "followUp", PutBack(followUp, "followUp"))
      BY <2>3 DEF OrderInv
    <3>3. /\ PutBack(steering, "steering") \in RestoredLane(log, "steering")
          /\ PutBack(followUp, "followUp") \in RestoredLane(log, "followUp")
      BY <2>1, <2>3, <3>1, <3>2, LaneIsRestored
    <3> QED
      BY <2>1, <2>2, <3>3, RestoredOnce
  <2> QED
    BY <2>2, <2>3 DEF MemoryMatchesLog
<1> QED
  BY <1>1, <1>2, <1>3, QueueInvariant, PTL DEF Spec
=============================================================================
