--------------------------- MODULE RunQueue_proofs ---------------------------
(***************************************************************************)
(* Proofs about RunQueue for any set of inputs and any bounds.             *)
(***************************************************************************)
EXTENDS RunQueue, FiniteSetTheorems, WellFoundedInduction, TLAPS

(***************************************************************************)
(* Lemmas about OrderedLists: what pushing, popping, putting back and      *)
(* removing do to the elements of a lane.                                  *)
(***************************************************************************)

\* A set of numbers has a least one, and a bounded one a greatest.  The least
\* counterexample is how the proofs do without an induction scheme.
LEMMA Least ==
    ASSUME NEW T \in SUBSET Nat, T # {}
    PROVE  \E x \in T : \A y \in T : x <= y
<1>1. \E x \in T : \A y \in T : ~ (<<y, x>> \in OpToRel(<, Nat))
  BY NatLessThanWellFounded, WFMin, Zenon
<1>2. \E x \in T : \A y \in T : ~ (y < x)
  BY <1>1 DEF OpToRel
<1> QED
  BY <1>2

LEMMA Greatest ==
    ASSUME NEW n \in Nat, NEW T \in SUBSET (1..n), T # {}
    PROVE  \E x \in T : \A y \in T : y <= x
<1> DEFINE U == {n - x : x \in T}
<1>1. PICK t \in T : TRUE
  OBVIOUS
<1>2. U \in SUBSET Nat /\ n - t \in U
  BY <1>1
<1>3. PICK u \in U : \A v \in U : u <= v
  <2> HIDE DEF U
  <2> QED
    BY <1>2, Least
<1>4. PICK x \in T : u = n - x
  OBVIOUS
<1>5. \A y \in T : n - x <= n - y
  BY <1>3, <1>4
<1> QED
  BY <1>5

\* The elements of a sequence form a finite set.
LEMMA InFinite ==
    ASSUME NEW S, NEW s \in Seq(S)
    PROVE  IsFiniteSet(In(s)) /\ In(s) \subseteq S
<1>1. Len(s) \in Nat
  OBVIOUS
<1>2. IsFiniteSet(1..Len(s))
  BY <1>1, FS_Interval
<1> DEFINE f == [k \in 1..Len(s) |-> s[k]]
<1>3. f \in Surjection(1..Len(s), In(s))
  BY DEF In, Surjection
<1>4. IsFiniteSet(In(s))
  <2> HIDE DEF f
  <2> QED
    BY <1>2, <1>3, FS_Surjection
<1>5. In(s) \subseteq S
  BY DEF In
<1> QED
  BY <1>4, <1>5

\* Appending at the back, as PendingQueue::push does.
LEMMA InAppend ==
    ASSUME NEW S, NEW s \in Seq(S), NEW x \in S
    PROVE  /\ Append(s, x) \in Seq(S)
           /\ In(Append(s, x)) = In(s) \cup {x}
           /\ NoDup(s) /\ x \notin In(s) => NoDup(Append(s, x))
<1>1. Append(s, x) \in Seq(S) /\ Len(Append(s, x)) = Len(s) + 1
  OBVIOUS
<1>2. \A k \in 1..Len(s) : Append(s, x)[k] = s[k]
  OBVIOUS
<1>3. Append(s, x)[Len(s) + 1] = x
  OBVIOUS
<1>4. In(Append(s, x)) = In(s) \cup {x}
  BY <1>1, <1>2, <1>3 DEF In
<1>5. ASSUME NoDup(s), x \notin In(s) PROVE NoDup(Append(s, x))
  BY <1>1, <1>2, <1>3, <1>5 DEF In, NoDup
<1> QED
  BY <1>1, <1>4, <1>5

\* Putting a claim back at the front, as ClaimedItem::drop does.
LEMMA InPrepend ==
    ASSUME NEW S, NEW s \in Seq(S), NEW x \in S
    PROVE  /\ <<x>> \o s \in Seq(S)
           /\ In(<<x>> \o s) = In(s) \cup {x}
           /\ NoDup(s) /\ x \notin In(s) => NoDup(<<x>> \o s)
<1> DEFINE t == <<x>> \o s
<1>1. t \in Seq(S) /\ Len(t) = Len(s) + 1
  OBVIOUS
<1>2. \A k \in 1..Len(s) : t[k + 1] = s[k]
  OBVIOUS
<1>3. t[1] = x
  OBVIOUS
<1>6. \A k \in 1..Len(t) : k = 1 \/ (k - 1 \in 1..Len(s) /\ t[k] = s[k - 1])
  BY <1>1, <1>2
<1>7. Len(s) \in Nat /\ \A k \in 1..Len(s) : k + 1 \in 1..Len(t)
  BY <1>1
<1> HIDE DEF t
<1>4. In(t) = In(s) \cup {x}
  <2>1. In(t) \subseteq In(s) \cup {x}
    BY <1>3, <1>6 DEF In
  <2>2. In(s) \cup {x} \subseteq In(t)
    BY <1>1, <1>2, <1>3, <1>7 DEF In
  <2> QED
    BY <2>1, <2>2
<1>5. ASSUME NoDup(s), x \notin In(s) PROVE NoDup(t)
  <2> SUFFICES ASSUME NEW j \in 1..Len(t), NEW k \in 1..Len(t), t[j] = t[k]
               PROVE  j = k
    BY DEF NoDup
  <2>1. CASE j = 1
    BY <2>1, <1>3, <1>5, <1>6 DEF In
  <2>2. CASE k = 1
    BY <2>2, <1>3, <1>5, <1>6 DEF In
  <2>3. CASE j # 1 /\ k # 1
    <3>1. s[j - 1] = s[k - 1] /\ j - 1 \in 1..Len(s) /\ k - 1 \in 1..Len(s)
      BY <2>3, <1>6
    <3> QED
      BY <3>1, <1>5, <1>7 DEF NoDup
  <2> QED
    BY <2>1, <2>2, <2>3
<1> QED
  BY <1>1, <1>4, <1>5 DEF t

\* Taking the front item, as claim_next_or_close does.
LEMMA InTail ==
    ASSUME NEW S, NEW s \in Seq(S), s # <<>>
    PROVE  /\ Tail(s) \in Seq(S)
           /\ Head(s) \in S
           /\ In(s) = In(Tail(s)) \cup {Head(s)}
           /\ NoDup(s) => NoDup(Tail(s)) /\ Head(s) \notin In(Tail(s))
<1>1. Tail(s) \in Seq(S) /\ Len(Tail(s)) = Len(s) - 1 /\ Len(s) \in Nat \ {0}
  OBVIOUS
<1>2. \A k \in 1..Len(Tail(s)) : Tail(s)[k] = s[k + 1]
  OBVIOUS
<1>3. Head(s) = s[1] /\ Head(s) \in S
  OBVIOUS
<1>4. In(s) = In(Tail(s)) \cup {Head(s)}
  <2>1. \A k \in 1..Len(s) : k = 1 \/ (k - 1 \in 1..Len(Tail(s)) /\ Tail(s)[k - 1] = s[k])
    BY <1>1, <1>2
  <2> QED
    BY <2>1, <1>1, <1>2, <1>3 DEF In
<1>5. NoDup(s) => NoDup(Tail(s)) /\ Head(s) \notin In(Tail(s))
  BY <1>1, <1>2, <1>3 DEF In, NoDup
<1> QED
  BY <1>1, <1>3, <1>4, <1>5

\* A list of the elements of S, by position, holds exactly S, each once.
LEMMA OrderedHolds ==
    ASSUME NEW S, IsFiniteSet(S), NEW pos, NEW s \in Ordered(S, pos),
           \A i \in S : pos[i] \in Nat
    PROVE  /\ s \in Seq(S)
           /\ In(s) = S
           /\ NoDup(s)
<1>1. Cardinality(S) \in Nat
  BY FS_CardinalityType
<1>2. s \in [1..Cardinality(S) -> S]
  BY DEF Ordered
<1>3. s \in Seq(S) /\ Len(s) = Cardinality(S)
  BY <1>1, <1>2
<1>4. In(s) = S
  BY <1>2, <1>3 DEF In, Ordered
<1>5. NoDup(s)
  <2> SUFFICES ASSUME NEW j \in 1..Len(s), NEW k \in 1..Len(s), s[j] = s[k], j # k
               PROVE  FALSE
    BY DEF NoDup
  <2>1. j < k \/ k < j
    BY <1>3
  <2>2. pos[s[j]] < pos[s[k]] \/ pos[s[k]] < pos[s[j]]
    BY <2>1, <1>3 DEF Ordered
  <2>3. pos[s[j]] \in Nat /\ pos[s[j]] = pos[s[k]]
    BY <1>2, <1>3
  <2> QED
    BY <2>2, <2>3
<1> QED
  BY <1>3, <1>4, <1>5

\* Removing the items of R from a lane leaves the others, each once.
LEMMA KeepRest ==
    ASSUME NEW S, NEW s \in Seq(S), NEW R, NEW t \in Keep(s, R)
    PROVE  /\ t \in Seq(S)
           /\ In(t) = In(s) \ R
           /\ NoDup(t)
<1> DEFINE pos == [i \in In(s) |-> CHOOSE k \in 1..Len(s) : s[k] = i]
<1>1. IsFiniteSet(In(s) \ R)
  BY InFinite, FS_Subset
<1>2. \A i \in In(s) \ R : pos[i] \in Nat
  <2> TAKE i \in In(s) \ R
  <2>1. \E k \in 1..Len(s) : s[k] = i
    BY DEF In
  <2>2. (CHOOSE k \in 1..Len(s) : s[k] = i) \in 1..Len(s)
    BY <2>1
  <2> QED
    BY <2>2
<1>3. t \in Ordered(In(s) \ R, pos)
  BY DEF Keep
<1> HIDE DEF pos
<1>4. t \in Seq(In(s) \ R) /\ In(t) = In(s) \ R /\ NoDup(t)
  BY <1>1, <1>2, <1>3, OrderedHolds
<1>5. t \in Seq(S)
  BY <1>4, InFinite
<1> QED
  BY <1>4, <1>5

\* Joining two lists.
LEMMA InConcat ==
    ASSUME NEW S, NEW s \in Seq(S), NEW t \in Seq(S)
    PROVE  /\ s \o t \in Seq(S)
           /\ In(s \o t) = In(s) \cup In(t)
<1>1. s \o t \in Seq(S) /\ Len(s \o t) = Len(s) + Len(t)
  OBVIOUS
<1>2. \A k \in 1..Len(s) : (s \o t)[k] = s[k]
  OBVIOUS
<1>3. \A k \in 1..Len(t) : (s \o t)[Len(s) + k] = t[k]
  OBVIOUS
<1>4. \A k \in 1..Len(s \o t) : k \in 1..Len(s) \/ (k - Len(s) \in 1..Len(t) /\ (s \o t)[k] = t[k - Len(s)])
  BY <1>1, <1>3
<1>5. \A k \in 1..Len(s) : k \in 1..Len(s \o t)
  BY <1>1
<1>6. \A k \in 1..Len(t) : Len(s) + k \in 1..Len(s \o t)
  BY <1>1
<1>7. In(s \o t) \subseteq In(s) \cup In(t)
  BY <1>2, <1>4 DEF In
<1>8. In(s) \subseteq In(s \o t)
  BY <1>2, <1>5 DEF In
<1>9. In(t) \subseteq In(s \o t)
  BY <1>3, <1>6 DEF In
<1> QED
  BY <1>1, <1>7, <1>8, <1>9

(***************************************************************************)
(* Types of the operators the actions are built from.                      *)
(***************************************************************************)

\* The three kinds of log entries, and that the kind determines the fields.
LEMMA EntryFields ==
    /\ \A i \in Items, q \in Lanes : Enqueued(i, q) \in Entry
    /\ \A i \in Items : Cancelled(i) \in Entry /\ Consumed(i) \in Entry /\ Message(i) \in Entry
    /\ \A e \in Entry : /\ e.item \in Items
                        /\ e.type \in {"enqueued", "cancelled", "consumed", "message"}
                        /\ e.type = "enqueued" => e.lane \in Lanes
BY DEF Entry, Enqueued, Cancelled, Consumed, Message

\* A cancellation record for every item of a list, as withdraw_pending and
\* clear_pending_messages write them.
LEMMA CancelRecords ==
    ASSUME NEW w \in Seq(Items)
    PROVE  /\ [k \in 1..Len(w) |-> Cancelled(w[k])] \in Seq(Entry)
           /\ Len([k \in 1..Len(w) |-> Cancelled(w[k])]) = Len(w)
<1>1. \A k \in 1..Len(w) : Cancelled(w[k]) \in Entry
  BY EntryFields
<1>2. Len(w) \in Nat
  OBVIOUS
<1> DEFINE C(k) == Cancelled(w[k])
<1> HIDE DEF C
<1>3. [k \in 1..Len(w) |-> C(k)] \in Seq(Entry) /\ Len([k \in 1..Len(w) |-> C(k)]) = Len(w)
  BY <1>1, <1>2 DEF C
<1> QED
  BY <1>3 DEF C

\* Settling waiters keeps the table of outcomes well typed.
LEMMA TellType ==
    ASSUME TypeOK, NEW S, NEW what \in Tellings
    PROVE  Tell(S, what) \in [Items -> Tellings]
BY DEF Tell, TypeOK

\* Spending a bound.
LEMMA SpendType ==
    ASSUME TypeOK, NEW b \in Bounds, Spend(b)
    PROVE  budget' \in [Bounds -> Nat]
BY DEF Spend, TypeOK

\* A successful commit.
LEMMA CommitOkType ==
    ASSUME TypeOK, NEW r \in Seq(Entry), CommitOk(r)
    PROVE  /\ log' \in Seq(Entry)
           /\ synced' = Len(log') /\ synced' \in 0..Len(log')
           /\ writeFailed' \in BOOLEAN
           /\ budget' \in [Bounds -> Nat]
<1>1. log \o r \in Seq(Entry) /\ Len(log \o r) = Len(log) + Len(r)
  BY DEF TypeOK
<1>2. Len(log) \in Nat /\ Len(r) \in Nat
  BY DEF TypeOK
<1> QED
  BY <1>1, <1>2 DEF CommitOk, TypeOK

\* A failed commit leaves a prefix of its records behind.
LEMMA CommitFailsType ==
    ASSUME TypeOK, NEW r \in Seq(Entry), CommitFails(r)
    PROVE  /\ log' \in Seq(Entry)
           /\ synced' \in 0..Len(log')
           /\ writeFailed' \in BOOLEAN
           /\ budget' \in [Bounds -> Nat]
<1>1. CASE writeFailed /\ UNCHANGED <<log, synced, writeFailed, budget>>
  BY <1>1 DEF TypeOK
<1>2. CASE /\ ~writeFailed
           /\ Spend("faults")
           /\ \E n \in 0..Len(r) : log' = log \o SubSeq(r, 1, n)
           /\ writeFailed' = TRUE
           /\ UNCHANGED synced
  <2>1. PICK n \in 0..Len(r) : log' = log \o SubSeq(r, 1, n)
    BY <1>2
  <2>2. SubSeq(r, 1, n) \in Seq(Entry) /\ Len(SubSeq(r, 1, n)) \in Nat
    OBVIOUS
  <2>3. log' \in Seq(Entry) /\ Len(log') = Len(log) + Len(SubSeq(r, 1, n))
    BY <2>1, <2>2 DEF TypeOK
  <2>4. synced' \in 0..Len(log')
    BY <1>2, <2>2, <2>3 DEF TypeOK
  <2>5. budget' \in [Bounds -> Nat]
    BY <1>2, SpendType DEF Bounds
  <2> QED
    BY <1>2, <2>3, <2>4, <2>5
<1> QED
  BY <1>1, <1>2 DEF CommitFails

\* A returned claim is put in front of a lane of items.
LEMMA ReturnClaimType ==
    ASSUME TypeOK, ReturnClaim
    PROVE  steering' \in Seq(Items) /\ followUp' \in Seq(Items) /\ claimed' = None
<1>1. claimed # None => claimed \in Items
  BY DEF TypeOK
<1> QED
  BY <1>1, InPrepend DEF ReturnClaim, TypeOK

\* The list withdraw_pending records.
LEMMA WithdrawnList ==
    ASSUME TypeOK, NEW w \in Keep(steering \o followUp, Waiting \ Withdrawable)
    PROVE  /\ w \in Seq(Items)
           /\ In(w) = Withdrawable
           /\ NoDup(w)
<1> DEFINE all == steering \o followUp
           R == Waiting \ Withdrawable
<1>1. all \in Seq(Items) /\ In(all) = Waiting
  BY InConcat DEF TypeOK, Waiting
<1>2. w \in Seq(Items) /\ In(w) = In(all) \ R /\ NoDup(w)
  <2>1. w \in Keep(all, R)
    OBVIOUS
  <2> HIDE DEF all, R
  <2> QED
    BY <1>1, <2>1, KeepRest
<1>3. Withdrawable \subseteq Waiting
  BY DEF Withdrawable
<1> QED
  BY <1>1, <1>2, <1>3

\* The withdrawal of a queue, durable.
LEMMA WithdrawOkType ==
    ASSUME TypeOK, WithdrawOk
    PROVE  /\ open' \in BOOLEAN
           /\ steering' \in Seq(Items) /\ followUp' \in Seq(Items)
           /\ lane' \in [Items -> Lanes] /\ claimed' \in Items \cup {None}
           /\ told' \in [Items -> Tellings]
           /\ log' \in Seq(Entry) /\ synced' \in 0..Len(log')
           /\ writeFailed' \in BOOLEAN /\ budget' \in [Bounds -> Nat]
<1>1. steering' \in Seq(Items) /\ followUp' \in Seq(Items)
  BY KeepRest DEF WithdrawOk, TypeOK
<1>2. told' \in [Items -> Tellings]
  BY TellType DEF WithdrawOk, Tellings
<1>3. PICK w \in Keep(steering \o followUp, Waiting \ Withdrawable) :
          IF w = <<>> THEN UNCHANGED <<logVars, budget>>
          ELSE CommitOk([k \in 1..Len(w) |-> Cancelled(w[k])])
  BY DEF WithdrawOk
<1>4. CASE w = <<>>
  BY <1>1, <1>2, <1>3, <1>4 DEF WithdrawOk, TypeOK, logVars
<1>5. CASE w # <<>>
  <2>1. [k \in 1..Len(w) |-> Cancelled(w[k])] \in Seq(Entry)
    BY WithdrawnList, CancelRecords
  <2>2. CommitOk([k \in 1..Len(w) |-> Cancelled(w[k])])
    BY <1>3, <1>5
  <2> QED
    BY <1>1, <1>2, <2>1, <2>2, CommitOkType DEF WithdrawOk, TypeOK
<1> QED
  BY <1>4, <1>5

\* The withdrawal of a queue whose commit failed.
LEMMA WithdrawFailsType ==
    ASSUME TypeOK, WithdrawFails
    PROVE  /\ open' \in BOOLEAN
           /\ steering' \in Seq(Items) /\ followUp' \in Seq(Items)
           /\ lane' \in [Items -> Lanes] /\ claimed' \in Items \cup {None}
           /\ told' \in [Items -> Tellings]
           /\ log' \in Seq(Entry) /\ synced' \in 0..Len(log')
           /\ writeFailed' \in BOOLEAN /\ budget' \in [Bounds -> Nat]
<1>1. told' \in [Items -> Tellings]
  BY TellType DEF WithdrawFails, Tellings
<1>2. PICK w \in Keep(steering \o followUp, Waiting \ Withdrawable) :
          CommitFails([k \in 1..Len(w) |-> Cancelled(w[k])])
  BY DEF WithdrawFails
<1>3. [k \in 1..Len(w) |-> Cancelled(w[k])] \in Seq(Entry)
  BY WithdrawnList, CancelRecords
<1> QED
  BY <1>1, <1>2, <1>3, CommitFailsType DEF WithdrawFails, TypeOK

\* Replay keeps only items that some record names, and the last queue record of
\* an item is unique.
LEMMA LiveRecords ==
    ASSUME NEW l \in Seq(Entry)
    PROVE  /\ IsFiniteSet(Live(l))
           /\ \A i \in Live(l) :
                 /\ PlaceIn(l, i) \in 1..Len(l)
                 /\ LastQueueRecord(l, i, PlaceIn(l, i))
                 /\ l[PlaceIn(l, i)].type = "enqueued"
                 /\ LaneIn(l, i) \in Lanes
<1> DEFINE items == [k \in 1..Len(l) |-> l[k].item]
<1>1. Len(l) \in Nat /\ \A k \in 1..Len(l) : l[k] \in Entry /\ l[k].item \in Items
  BY EntryFields
<1>2. items \in Seq(Items) /\ Len(items) = Len(l)
  BY <1>1
<1>3. Live(l) \subseteq In(items)
  BY <1>2 DEF Live, In, LastQueueRecord
<1>4. IsFiniteSet(Live(l))
  <2> HIDE DEF items
  <2> QED
    BY <1>2, <1>3, InFinite, FS_Subset
<1>5. ASSUME NEW i \in Live(l)
      PROVE  /\ PlaceIn(l, i) \in 1..Len(l)
             /\ LastQueueRecord(l, i, PlaceIn(l, i))
             /\ l[PlaceIn(l, i)].type = "enqueued"
             /\ LaneIn(l, i) \in Lanes
  <2>1. PICK k \in 1..Len(l) : LastQueueRecord(l, i, k) /\ l[k].type = "enqueued"
    BY DEF Live
  <2>2. PlaceIn(l, i) \in 1..Len(l) /\ LastQueueRecord(l, i, PlaceIn(l, i))
    BY <2>1 DEF PlaceIn
  <2>3. PlaceIn(l, i) = k
    <3> DEFINE m == PlaceIn(l, i)
    <3>1. m \in 1..Len(l) /\ LastQueueRecord(l, i, m)
      BY <2>2
    <3> HIDE DEF m
    <3>2. ~(m > k) /\ ~(k > m)
      BY <2>1, <3>1 DEF LastQueueRecord
    <3>3. m = k
      BY <3>1, <3>2, <1>1
    <3> QED
      BY <3>3 DEF m
  <2> QED
    BY <2>1, <2>2, <2>3, <1>1, EntryFields DEF LaneIn
<1> QED
  BY <1>4, <1>5

\* A restored lane holds the live items whose last record names it, each once.
LEMMA RestoredLaneHolds ==
    ASSUME NEW l \in Seq(Entry), NEW q \in Lanes, NEW s \in RestoredLane(l, q)
    PROVE  /\ s \in Seq(Items)
           /\ In(s) = {i \in Live(l) : LaneIn(l, i) = q}
           /\ NoDup(s)
<1> DEFINE S == {i \in Live(l) : LaneIn(l, i) = q}
           pos == [i \in Live(l) |-> PlaceIn(l, i)]
<1>1. IsFiniteSet(S) /\ S \subseteq Items
  BY LiveRecords, FS_Subset DEF Live
<1>2. \A i \in S : pos[i] \in Nat
  <2> TAKE i \in S
  <2>1. PlaceIn(l, i) \in 1..Len(l)
    BY LiveRecords
  <2> QED
    BY <2>1
<1>3. s \in Ordered(S, pos)
  BY DEF RestoredLane
<1>4. s \in Seq(S) /\ In(s) = S /\ NoDup(s)
  <2> HIDE DEF S, pos
  <2> QED
    BY <1>1, <1>2, <1>3, OrderedHolds
<1>5. s \in Seq(Items)
  BY <1>1, <1>4
<1> QED
  BY <1>4, <1>5

\* The lease's release leaves an idle, well-typed Run.
LEMMA ReleaseRunType ==
    ASSUME TypeOK, NEW result \in Tellings, ReleaseRun(result)
    PROVE  /\ open' \in BOOLEAN /\ told' \in [Items -> Tellings]
           /\ submissions' \in SUBSET Submissions
           /\ stage' \in [Items -> Stages]
           /\ initial' \in Items \cup {None} /\ inserted' \in BOOLEAN
           /\ turns' \in Nat /\ phase' \in Phases
           /\ outcome' \in {"none", "succeeded", "cancelled", "failed"}
           /\ failedBy' \in {"none", "cancelled", "other"}
<1>1. told' \in [Items -> Tellings]
  <2>1. \A i \in Items : Tell({i}, result)[i] \in Tellings
    BY TellType
  <2>2. \A i \in Items : Tell(submissions, "answered")[i] \in Tellings
    BY TellType DEF Tellings
  <2> QED
    BY <2>1, <2>2 DEF ReleaseRun
<1>2. stage' \in [Items -> Stages]
  BY DEF ReleaseRun, TypeOK, Stages
<1> QED
  BY <1>1, <1>2 DEF ReleaseRun, Phases

(***************************************************************************)
(* Type correctness.                                                       *)
(***************************************************************************)

\* A Run is active exactly while it has the input it was started for: a message
\* entry is only ever written for an input.
RunHasInput == phase = "idle" <=> initial = None

\* Every step of a Session keeps the state well typed.
LEMMA TypeStep ==
    ASSUME TypeOK, RunHasInput, [Next]_vars
    PROVE  TypeOK' /\ RunHasInput'
<1>1. ASSUME StartFails PROVE TypeOK' /\ RunHasInput'
  <2>1. UNCHANGED <<open, steering, followUp, lane, claimed, cancelled,
                    stale, stop, turns, outcome, initial, inserted,
                    submissions, stage, told, log, synced, writeFailed,
                    dropped, budget>>
    BY <1>1 DEF StartFails, queueVars, logVars
  <2>2. phase' \in Phases
    BY <1>1 DEF StartFails, TypeOK, Phases
  <2>3. failedBy' \in {"none", "cancelled", "other"}
    BY <1>1 DEF StartFails, TypeOK
  <2>4. RunHasInput'
    BY <1>1, ItemsAssumption DEF StartFails, RunHasInput, queueVars, logVars
  <2> QED
    BY <2>1, <2>2, <2>3, <2>4 DEF TypeOK, RunHasInput
<1>2. ASSUME OpenQueue PROVE TypeOK' /\ RunHasInput'
  BY <1>2
  DEF OpenQueue, TypeOK, RunHasInput, logVars, Phases
<1>3. ASSUME TurnFails PROVE TypeOK' /\ RunHasInput'
  <2>1. steering' \in Seq(Items) /\ followUp' \in Seq(Items) /\ claimed' = None
    BY <1>3, ReturnClaimType DEF TurnFails
  <2>2. UNCHANGED <<open, lane, cancelled, stale, stop, turns, initial,
                    inserted, submissions, stage, told, log, synced,
                    writeFailed, dropped, budget>>
    BY <1>3 DEF TurnFails, logVars
  <2>3. phase' \in Phases
    BY <1>3 DEF TurnFails, TypeOK, Phases
  <2>4. outcome' \in {"none", "succeeded", "cancelled", "failed"}
    BY <1>3 DEF TurnFails, TypeOK
  <2>5. failedBy' \in {"none", "cancelled", "other"}
    BY <1>3 DEF TurnFails, TypeOK
  <2>6. RunHasInput'
    BY <1>3, ItemsAssumption DEF TurnFails, RunHasInput, logVars
  <2> QED
    BY <2>1, <2>2, <2>3, <2>4, <2>5, <2>6 DEF TypeOK, RunHasInput
<1>4. ASSUME TurnCancelled PROVE TypeOK' /\ RunHasInput'
  <2>1. steering' \in Seq(Items) /\ followUp' \in Seq(Items) /\ claimed' = None
    BY <1>4, ReturnClaimType DEF TurnCancelled
  <2>2. UNCHANGED <<open, lane, cancelled, stale, stop, turns, initial,
                    inserted, submissions, stage, told, log, synced,
                    writeFailed, dropped, budget>>
    BY <1>4 DEF TurnCancelled, logVars
  <2>3. phase' \in Phases
    BY <1>4 DEF TurnCancelled, TypeOK, Phases
  <2>4. outcome' \in {"none", "succeeded", "cancelled", "failed"}
    BY <1>4 DEF TurnCancelled, TypeOK
  <2>5. failedBy' \in {"none", "cancelled", "other"}
    BY <1>4 DEF TurnCancelled, TypeOK
  <2>6. RunHasInput'
    BY <1>4, ItemsAssumption DEF TurnCancelled, RunHasInput, logVars
  <2> QED
    BY <2>1, <2>2, <2>3, <2>4, <2>5, <2>6 DEF TypeOK, RunHasInput
<1>5. ASSUME InsertInitial PROVE TypeOK' /\ RunHasInput'
  <2>1. initial \in Items /\ Message(initial) \in Entry
    BY <1>5, EntryFields DEF InsertInitial, TypeOK, RunHasInput
  <2>2. log' \in Seq(Entry) /\ synced' \in 0..Len(log')
    BY <1>5, <2>1 DEF InsertInitial, TypeOK
  <2>3. told' \in [Items -> Tellings]
    BY <1>5, TellType DEF InsertInitial, TypeOK, Tellings
  <2>4. UNCHANGED <<open, steering, followUp, lane, claimed, cancelled,
                    stale, stop, turns, outcome, failedBy, initial,
                    submissions, stage, synced, writeFailed, dropped,
                    budget>>
    BY <1>5 DEF InsertInitial, queueVars
  <2>5. phase' \in Phases
    BY <1>5 DEF InsertInitial, TypeOK, Phases
  <2>6. inserted' \in BOOLEAN
    BY <1>5 DEF InsertInitial, TypeOK
  <2>7. RunHasInput'
    BY <1>5, ItemsAssumption DEF InsertInitial, RunHasInput, queueVars
  <2> QED
    BY <2>2, <2>3, <2>4, <2>5, <2>6, <2>7 DEF TypeOK, RunHasInput
<1>6. ASSUME ConsumeClaimed PROVE TypeOK' /\ RunHasInput'
  <2>1. claimed \in Items /\ <<Message(claimed), Consumed(claimed)>> \in Seq(Entry)
    BY <1>6, EntryFields DEF ConsumeClaimed, TypeOK
  <2>2. log' \in Seq(Entry) /\ synced' \in 0..Len(log')
    BY <1>6, <2>1 DEF ConsumeClaimed, TypeOK
  <2>3. told' \in [Items -> Tellings]
    BY <1>6, TellType DEF ConsumeClaimed, TypeOK, Tellings
  <2>4. UNCHANGED <<open, steering, followUp, lane, cancelled, stale,
                    stop, turns, outcome, failedBy, initial, inserted,
                    stage, synced, writeFailed, dropped, budget>>
    BY <1>6 DEF ConsumeClaimed
  <2>5. claimed' \in Items \cup {None}
    BY <1>6 DEF ConsumeClaimed, TypeOK
  <2>6. phase' \in Phases
    BY <1>6 DEF ConsumeClaimed, TypeOK, Phases
  <2>7. submissions' \in SUBSET Submissions
    BY <1>6 DEF ConsumeClaimed, TypeOK
  <2>8. RunHasInput'
    BY <1>6, ItemsAssumption DEF ConsumeClaimed, RunHasInput
  <2> QED
    BY <2>2, <2>3, <2>4, <2>5, <2>6, <2>7, <2>8 DEF TypeOK, RunHasInput
<1>7. ASSUME ConsumeFails PROVE TypeOK' /\ RunHasInput'
  <2>1. claimed \in Items /\ <<Message(claimed), Consumed(claimed)>> \in Seq(Entry)
    BY <1>7, EntryFields DEF ConsumeFails, TypeOK
  <2>2. /\ log' \in Seq(Entry) /\ synced' \in 0..Len(log')
        /\ writeFailed' \in BOOLEAN /\ budget' \in [Bounds -> Nat]
    BY <1>7, <2>1, CommitFailsType DEF ConsumeFails
  <2>3. told' \in [Items -> Tellings]
    BY <1>7, TellType DEF ConsumeFails, Tellings
  <2>4. UNCHANGED <<open, steering, followUp, lane, cancelled, stale,
                    stop, turns, initial, inserted, submissions, stage,
                    dropped>>
    BY <1>7 DEF ConsumeFails
  <2>5. claimed' \in Items \cup {None}
    BY <1>7 DEF ConsumeFails, TypeOK
  <2>6. phase' \in Phases
    BY <1>7 DEF ConsumeFails, TypeOK, Phases
  <2>7. outcome' \in {"none", "succeeded", "cancelled", "failed"}
    BY <1>7 DEF ConsumeFails, TypeOK
  <2>8. failedBy' \in {"none", "cancelled", "other"}
    BY <1>7 DEF ConsumeFails, TypeOK
  <2>9. RunHasInput'
    BY <1>7, ItemsAssumption DEF ConsumeFails, RunHasInput
  <2> QED
    BY <2>2, <2>3, <2>4, <2>5, <2>6, <2>7, <2>8, <2>9 DEF TypeOK, RunHasInput
<1>8. ASSUME ContinueTurn PROVE TypeOK' /\ RunHasInput'
  BY <1>8
  DEF ContinueTurn, TypeOK, RunHasInput, queueVars, logVars, Phases
<1>9. ASSUME ModelErrs PROVE TypeOK' /\ RunHasInput'
  BY <1>9
  DEF ModelErrs, TypeOK, RunHasInput, queueVars, logVars, Phases
<1>10. ASSUME NEW o \in {"cancelled", "failed"}, EndTurn(o) PROVE TypeOK' /\ RunHasInput'
  <2>1. turns' \in Nat /\ synced' \in 0..Len(log)
    BY <1>10 DEF EndTurn, RecordTurn, TypeOK
  <2>2. UNCHANGED <<open, steering, followUp, lane, claimed, cancelled,
                    stale, stop, failedBy, initial, inserted, submissions,
                    stage, told, log, writeFailed, dropped, budget>>
    BY <1>10 DEF EndTurn, queueVars
  <2>3. phase' \in Phases
    BY <1>10 DEF EndTurn, TypeOK, Phases
  <2>4. outcome' \in {"none", "succeeded", "cancelled", "failed"}
    BY <1>10 DEF EndTurn, TypeOK
  <2>5. RunHasInput'
    BY <1>10, ItemsAssumption DEF EndTurn, RunHasInput, queueVars, RecordTurn
  <2> QED
    BY <2>1, <2>2, <2>3, <2>4, <2>5 DEF TypeOK, RunHasInput
<1>11. ASSUME RetryTurn PROVE TypeOK' /\ RunHasInput'
  <2>1. turns' \in Nat /\ synced' \in 0..Len(log)
    BY <1>11 DEF RetryTurn, RecordTurn, TypeOK
  <2>2. UNCHANGED <<open, steering, followUp, lane, claimed, cancelled,
                    stale, stop, outcome, failedBy, initial, inserted,
                    submissions, stage, told, log, writeFailed, dropped,
                    budget>>
    BY <1>11 DEF RetryTurn, queueVars
  <2>3. phase' \in Phases
    BY <1>11 DEF RetryTurn, TypeOK, Phases
  <2>4. RunHasInput'
    BY <1>11, ItemsAssumption DEF RetryTurn, RunHasInput, queueVars, RecordTurn
  <2> QED
    BY <2>1, <2>2, <2>3, <2>4 DEF TypeOK, RunHasInput
<1>12. ASSUME NEW tools \in BOOLEAN, NextTurn(tools) PROVE TypeOK' /\ RunHasInput'
  <2>1. turns' \in Nat /\ synced' \in 0..Len(log)
    BY <1>12 DEF NextTurn, RecordTurn, TypeOK
  <2>2. steering' \in Seq(Items) /\ followUp' \in Seq(Items) /\ claimed' \in Items \cup {None}
    BY <1>12, InTail DEF NextTurn, ClaimNextOrClose, TypeOK
  <2>3. open' \in BOOLEAN
    BY <1>12 DEF NextTurn, ClaimNextOrClose, TypeOK
  <2>4. phase' \in {"turn", "finishing"} /\ outcome' \in {outcome, "succeeded"}
    BY <1>12 DEF NextTurn
  <2>5. UNCHANGED <<lane, cancelled, stale, stop, failedBy, initial,
                    inserted, submissions, stage, told, log, writeFailed,
                    dropped, budget>>
    BY <1>12 DEF NextTurn
  <2>6. RunHasInput'
    BY <1>12, ItemsAssumption DEF NextTurn, RunHasInput, RecordTurn
  <2> QED
    BY <2>1, <2>2, <2>3, <2>4, <2>5, <2>6 DEF TypeOK, RunHasInput, Phases
<1>13. ASSUME CloseQueue PROVE TypeOK' /\ RunHasInput'
  <2>1. UNCHANGED <<steering, followUp, lane, claimed, cancelled, stale,
                    stop, turns, outcome, failedBy, initial, inserted,
                    submissions, stage, told, log, synced, writeFailed,
                    dropped, budget>>
    BY <1>13 DEF CloseQueue, logVars
  <2>2. open' \in BOOLEAN
    BY <1>13 DEF CloseQueue, TypeOK
  <2>3. phase' \in Phases
    BY <1>13 DEF CloseQueue, TypeOK, Phases
  <2>4. RunHasInput'
    BY <1>13, ItemsAssumption DEF CloseQueue, RunHasInput, logVars
  <2> QED
    BY <2>1, <2>2, <2>3, <2>4 DEF TypeOK, RunHasInput
<1>14. ASSUME RunWithdraws PROVE TypeOK' /\ RunHasInput'
  <2>1. /\ open' \in BOOLEAN
        /\ steering' \in Seq(Items) /\ followUp' \in Seq(Items)
        /\ lane' \in [Items -> Lanes] /\ claimed' \in Items \cup {None}
        /\ told' \in [Items -> Tellings]
        /\ log' \in Seq(Entry) /\ synced' \in 0..Len(log')
        /\ writeFailed' \in BOOLEAN /\ budget' \in [Bounds -> Nat]
    BY <1>14, WithdrawOkType, WithdrawFailsType DEF RunWithdraws
  <2>2. phase' \in {"settling", "ending"} /\ failedBy' \in {failedBy, "other"}
    BY <1>14 DEF RunWithdraws
  <2>3. UNCHANGED <<cancelled, stale, stop, turns, outcome, initial,
                    inserted, submissions, stage, dropped>>
    BY <1>14 DEF RunWithdraws
  <2>4. RunHasInput'
    BY <1>14, ItemsAssumption DEF RunWithdraws, RunHasInput
  <2> QED
    BY <2>1, <2>2, <2>3, <2>4 DEF TypeOK, RunHasInput, Phases
<1>15. ASSUME Settle PROVE TypeOK' /\ RunHasInput'
  <2>1. initial \in Items /\ Message(initial) \in Entry
    BY <1>15, EntryFields DEF Settle, TypeOK, RunHasInput
  <2>2. log' \in Seq(Entry) /\ synced' \in 0..Len(log')
    BY <1>15, <2>1 DEF Settle, TypeOK
  <2>3. told' \in [Items -> Tellings]
    BY <1>15, TellType DEF Settle, Tellings
  <2>4. inserted' \in BOOLEAN
    BY <1>15 DEF Settle, TypeOK
  <2>5. UNCHANGED <<open, steering, followUp, lane, claimed, cancelled,
                    stale, stop, turns, outcome, initial, stage,
                    writeFailed, dropped, budget>>
    BY <1>15 DEF Settle, queueVars
  <2>6. phase' \in Phases
    BY <1>15 DEF Settle, TypeOK, Phases
  <2>7. failedBy' \in {"none", "cancelled", "other"}
    BY <1>15 DEF Settle, TypeOK
  <2>8. submissions' \in SUBSET Submissions
    BY <1>15 DEF Settle, TypeOK
  <2>9. RunHasInput'
    BY <1>15, ItemsAssumption DEF Settle, RunHasInput, queueVars
  <2> QED
    BY <2>2, <2>3, <2>4, <2>5, <2>6, <2>7, <2>8, <2>9 DEF TypeOK, RunHasInput
<1>16. ASSUME SettleFails PROVE TypeOK' /\ RunHasInput'
  <2>1. initial \in Items /\ Message(initial) \in Entry
    BY <1>16, EntryFields DEF SettleFails, TypeOK, RunHasInput
  <2>2. log' = log \/ log' = Append(log, Message(initial))
    BY <1>16 DEF SettleFails
  <2>3. synced' = synced
    BY <1>16 DEF SettleFails
  <2>4. /\ Append(log, Message(initial)) \in Seq(Entry)
        /\ Len(Append(log, Message(initial))) = Len(log) + 1
    BY <2>1 DEF TypeOK
  <2>5. log \in Seq(Entry) /\ Len(log) \in Nat /\ synced \in 0..Len(log)
    BY DEF TypeOK
  <2>6. log' \in Seq(Entry) /\ (Len(log') = Len(log) \/ Len(log') = Len(log) + 1)
    BY <2>2, <2>4, <2>5
  <2>7. synced' \in 0..Len(log')
    BY <2>3, <2>5, <2>6
  <2>8. inserted' \in BOOLEAN
    BY <1>16 DEF SettleFails, TypeOK
  <2>9. UNCHANGED <<open, steering, followUp, lane, claimed, cancelled,
                    stale, stop, turns, outcome, initial, submissions,
                    stage, told, synced, writeFailed, dropped, budget>>
    BY <1>16 DEF SettleFails, queueVars
  <2>10. phase' \in Phases
    BY <1>16 DEF SettleFails, TypeOK, Phases
  <2>11. failedBy' \in {"none", "cancelled", "other"}
    BY <1>16 DEF SettleFails, TypeOK
  <2>12. RunHasInput'
    BY <1>16, ItemsAssumption DEF SettleFails, RunHasInput, queueVars
  <2> QED
    BY <2>2, <2>3, <2>6, <2>7, <2>8, <2>9, <2>10, <2>11, <2>12 DEF
       TypeOK, RunHasInput
<1>17. ASSUME FinishRun PROVE TypeOK' /\ RunHasInput'
  <2>1. RunResult \in Tellings
    BY DEF RunResult, TypeOK, Tellings
  <2>2. /\ open' \in BOOLEAN /\ told' \in [Items -> Tellings]
        /\ submissions' \in SUBSET Submissions
        /\ stage' \in [Items -> Stages]
        /\ initial' \in Items \cup {None} /\ inserted' \in BOOLEAN
        /\ turns' \in Nat /\ phase' \in Phases
        /\ outcome' \in {"none", "succeeded", "cancelled", "failed"}
        /\ failedBy' \in {"none", "cancelled", "other"}
    BY <1>17, <2>1, ReleaseRunType DEF FinishRun
  <2>3. phase' = "idle" /\ initial' = None
    BY <1>17 DEF FinishRun, ReleaseRun
  <2>4. UNCHANGED <<steering, followUp, lane, claimed, cancelled, stale,
                    stop, log, synced, writeFailed, dropped, budget>>
    BY <1>17 DEF FinishRun, logVars
  <2> QED
    BY <2>2, <2>3, <2>4 DEF TypeOK, RunHasInput
<1>18. ASSUME NEW i \in Items, Arrive(i) PROVE TypeOK' /\ RunHasInput'
  BY <1>18
  DEF Arrive, TypeOK, RunHasInput, queueVars, runVars, logVars, Stages
<1>19. ASSUME NEW i \in Items, RejectUncertain(i) PROVE TypeOK' /\ RunHasInput'
  <2>1. told' \in [Items -> Tellings]
    BY <1>19, TellType DEF RejectUncertain, Tellings
  <2>2. UNCHANGED <<open, steering, followUp, lane, claimed, cancelled,
                    stale, stop, phase, turns, outcome, failedBy, initial,
                    inserted, submissions, log, synced, writeFailed,
                    dropped, budget>>
    BY <1>19 DEF RejectUncertain, queueVars, runVars, logVars
  <2>3. stage' \in [Items -> Stages]
    BY <1>19 DEF RejectUncertain, TypeOK, Stages
  <2> QED
    BY <2>1, <2>2, <2>3 DEF TypeOK, RunHasInput
<1>20. ASSUME NEW i \in Items, EnqueueClosed(i) PROVE TypeOK' /\ RunHasInput'
  BY <1>20
  DEF EnqueueClosed, TypeOK, RunHasInput, queueVars, runVars, logVars, Stages
<1>21. ASSUME NEW i \in Items, StartRun(i) PROVE TypeOK' /\ RunHasInput'
  <2>1. stage' \in [Items -> Stages]
    BY <1>21 DEF StartRun, TypeOK, Stages
  <2>2. budget' \in [Bounds -> Nat]
    BY <1>21, SpendType DEF StartRun, Bounds
  <2>3. phase' = "starting" /\ initial' = i /\ initial' # None
    BY <1>21, ItemsAssumption DEF StartRun
  <2>4. UNCHANGED <<open, steering, followUp, lane, claimed, stale, stop,
                    submissions, told, log, synced, writeFailed, dropped>>
    BY <1>21 DEF StartRun, queueVars, logVars
  <2>5. cancelled' \in BOOLEAN
    BY <1>21 DEF StartRun, TypeOK
  <2>6. turns' \in Nat
    BY <1>21 DEF StartRun, TypeOK
  <2>7. outcome' \in {"none", "succeeded", "cancelled", "failed"}
    BY <1>21 DEF StartRun, TypeOK
  <2>8. failedBy' \in {"none", "cancelled", "other"}
    BY <1>21 DEF StartRun, TypeOK
  <2>9. inserted' \in BOOLEAN
    BY <1>21 DEF StartRun, TypeOK
  <2>10. RunHasInput'
    BY <1>21, ItemsAssumption DEF StartRun, RunHasInput, queueVars, logVars
  <2> QED
    BY <2>1, <2>2, <2>3, <2>4, <2>5, <2>6, <2>7, <2>8, <2>9, <2>10 DEF
       TypeOK, RunHasInput, Phases
<1>22. ASSUME NEW i \in Items, NEW q \in Lanes, Enqueue(i, q) PROVE TypeOK' /\ RunHasInput'
  <2>1. <<Enqueued(i, q)>> \in Seq(Entry)
    BY EntryFields
  <2>2. /\ log' \in Seq(Entry) /\ synced' \in 0..Len(log')
        /\ writeFailed' \in BOOLEAN /\ budget' \in [Bounds -> Nat]
    BY <1>22, <2>1, CommitOkType DEF Enqueue
  <2>3. steering' \in Seq(Items) /\ followUp' \in Seq(Items)
    BY <1>22, InAppend DEF Enqueue, TypeOK
  <2>4. lane' \in [Items -> Lanes]
    BY <1>22 DEF Enqueue, TypeOK
  <2>5. stage' \in [Items -> Stages]
    BY <1>22 DEF Enqueue, TypeOK, Stages
  <2>6. UNCHANGED <<open, claimed, cancelled, stale, stop, phase, turns,
                    outcome, failedBy, initial, inserted, submissions,
                    told, dropped>>
    BY <1>22 DEF Enqueue, runVars
  <2> QED
    BY <2>2, <2>3, <2>4, <2>5, <2>6 DEF TypeOK, RunHasInput
<1>23. ASSUME NEW i \in Items, NEW q \in Lanes, EnqueueFails(i, q) PROVE TypeOK' /\ RunHasInput'
  <2>1. <<Enqueued(i, q)>> \in Seq(Entry)
    BY EntryFields
  <2>2. /\ log' \in Seq(Entry) /\ synced' \in 0..Len(log')
        /\ writeFailed' \in BOOLEAN /\ budget' \in [Bounds -> Nat]
    BY <1>23, <2>1, CommitFailsType DEF EnqueueFails
  <2>3. told' \in [Items -> Tellings]
    BY <1>23, TellType DEF EnqueueFails, Tellings
  <2>4. stage' \in [Items -> Stages]
    BY <1>23 DEF EnqueueFails, TypeOK, Stages
  <2>5. UNCHANGED <<open, steering, followUp, lane, claimed, cancelled,
                    stale, stop, phase, turns, outcome, failedBy, initial,
                    inserted, submissions, dropped>>
    BY <1>23 DEF EnqueueFails, queueVars, runVars
  <2> QED
    BY <2>2, <2>3, <2>4, <2>5 DEF TypeOK, RunHasInput
<1>24. ASSUME NEW i \in Items, Remove(i) PROVE TypeOK' /\ RunHasInput'
  <2>1. <<Cancelled(i)>> \in Seq(Entry)
    BY EntryFields
  <2>2. /\ log' \in Seq(Entry) /\ synced' \in 0..Len(log')
        /\ writeFailed' \in BOOLEAN /\ budget' \in [Bounds -> Nat]
    BY <1>24, <2>1, CommitOkType DEF Remove
  <2>3. steering' \in Seq(Items) /\ followUp' \in Seq(Items)
    BY <1>24, KeepRest DEF Remove, TypeOK
  <2>4. told' \in [Items -> Tellings]
    BY <1>24, TellType DEF Remove, Tellings
  <2>5. UNCHANGED <<open, lane, claimed, cancelled, stale, stop, phase,
                    turns, outcome, failedBy, initial, inserted,
                    submissions, stage, dropped>>
    BY <1>24 DEF Remove, runVars
  <2> QED
    BY <2>2, <2>3, <2>4, <2>5 DEF TypeOK, RunHasInput
<1>25. ASSUME NEW i \in Items, Promote(i) PROVE TypeOK' /\ RunHasInput'
  <2>1. <<Enqueued(i, "steering")>> \in Seq(Entry)
    BY EntryFields DEF Lanes
  <2>2. /\ log' \in Seq(Entry) /\ synced' \in 0..Len(log')
        /\ writeFailed' \in BOOLEAN /\ budget' \in [Bounds -> Nat]
    BY <1>25, <2>1, CommitOkType DEF Promote
  <2>3. steering' \in Seq(Items) /\ followUp' \in Seq(Items)
    BY <1>25, KeepRest, InAppend DEF Promote, TypeOK
  <2>4. lane' \in [Items -> Lanes]
    BY <1>25 DEF Promote, TypeOK, Lanes
  <2>5. UNCHANGED <<open, claimed, cancelled, stale, stop, phase, turns,
                    outcome, failedBy, initial, inserted, submissions,
                    stage, told, dropped>>
    BY <1>25 DEF Promote, runVars
  <2> QED
    BY <2>2, <2>3, <2>4, <2>5 DEF TypeOK, RunHasInput
<1>26. ASSUME NEW p \in Prompts, RejectStale(p) PROVE TypeOK' /\ RunHasInput'
  <2>1. told' \in [Items -> Tellings]
    BY <1>26, TellType DEF RejectStale, Tellings
  <2>2. stage' \in [Items -> Stages]
    BY <1>26 DEF RejectStale, TypeOK, Stages
  <2>3. UNCHANGED <<open, steering, followUp, lane, claimed, cancelled,
                    stale, stop, phase, turns, outcome, failedBy, initial,
                    inserted, submissions, log, synced, writeFailed,
                    dropped, budget>>
    BY <1>26 DEF RejectStale, queueVars, runVars, logVars
  <2> QED
    BY <2>1, <2>2, <2>3 DEF TypeOK, RunHasInput
<1>27. ASSUME NEW p \in Prompts, ClientLeaves(p) PROVE TypeOK' /\ RunHasInput'
  <2>1. told' \in [Items -> Tellings]
    BY <1>27, TellType DEF ClientLeaves, Tellings
  <2>2. UNCHANGED <<open, steering, followUp, lane, claimed, cancelled,
                    stale, stop, phase, turns, outcome, failedBy, initial,
                    inserted, submissions, stage, log, synced,
                    writeFailed, dropped, budget>>
    BY <1>27 DEF ClientLeaves, queueVars, runVars, logVars
  <2> QED
    BY <2>1, <2>2 DEF TypeOK, RunHasInput
<1>28. ASSUME NEW s \in Submissions, RejectOrphan(s) PROVE TypeOK' /\ RunHasInput'
  <2>1. told' \in [Items -> Tellings]
    BY <1>28, TellType DEF RejectOrphan, Tellings
  <2>2. stage' \in [Items -> Stages]
    BY <1>28 DEF RejectOrphan, TypeOK, Stages
  <2>3. budget' \in [Bounds -> Nat]
    BY <1>28, SpendType DEF RejectOrphan, Bounds
  <2>4. UNCHANGED <<open, steering, followUp, lane, claimed, cancelled,
                    stale, stop, phase, turns, outcome, failedBy, initial,
                    inserted, submissions, log, synced, writeFailed,
                    dropped>>
    BY <1>28 DEF RejectOrphan, queueVars, runVars, logVars
  <2> QED
    BY <2>1, <2>2, <2>3, <2>4 DEF TypeOK, RunHasInput
<1>29. ASSUME NEW s \in Submissions, SubmitReturns(s) PROVE TypeOK' /\ RunHasInput'
  <2>1. told' \in [Items -> Tellings]
    BY <1>29, TellType DEF SubmitReturns, Tellings
  <2>2. UNCHANGED <<open, steering, followUp, lane, claimed, cancelled,
                    stale, phase, turns, outcome, failedBy, initial,
                    inserted, submissions, stage, log, synced,
                    writeFailed, dropped, budget>>
    BY <1>29 DEF SubmitReturns, queueVars, runVars, logVars
  <2>3. stop' \in [Stoppers -> {"none", "locked", "closed", "waitIdle"}]
    BY <1>29 DEF SubmitReturns, TypeOK
  <2> QED
    BY <2>1, <2>2, <2>3 DEF TypeOK, RunHasInput
<1>30. ASSUME NEW x \in Stoppers, CancelTokens(x) PROVE TypeOK' /\ RunHasInput'
  <2>1. budget' \in [Bounds -> Nat]
    BY <1>30, SpendType DEF CancelTokens, Bounds
  <2>2. UNCHANGED <<open, steering, followUp, lane, claimed, phase, turns,
                    outcome, failedBy, initial, inserted, submissions,
                    stage, told, log, synced, writeFailed, dropped>>
    BY <1>30 DEF CancelTokens, queueVars, runVars, logVars
  <2>3. cancelled' \in BOOLEAN
    BY <1>30 DEF CancelTokens, TypeOK
  <2>4. stale' \in SUBSET Prompts
    BY <1>30 DEF CancelTokens, TypeOK
  <2>5. stop' \in [Stoppers -> {"none", "locked", "closed", "waitIdle"}]
    BY <1>30 DEF CancelTokens, TypeOK
  <2> QED
    BY <2>1, <2>2, <2>3, <2>4, <2>5 DEF TypeOK, RunHasInput
<1>31. ASSUME NEW x \in Stoppers, CancelCloses(x) PROVE TypeOK' /\ RunHasInput'
  <2>1. stop' \in [Stoppers -> {"none", "locked", "closed", "waitIdle"}]
    BY <1>31 DEF CancelCloses, TypeOK
  <2>2. UNCHANGED <<steering, followUp, lane, claimed, cancelled, stale,
                    phase, turns, outcome, failedBy, initial, inserted,
                    submissions, stage, told, log, synced, writeFailed,
                    dropped, budget>>
    BY <1>31 DEF CancelCloses, runVars, logVars
  <2>3. open' \in BOOLEAN
    BY <1>31 DEF CancelCloses, TypeOK
  <2> QED
    BY <2>1, <2>2, <2>3 DEF TypeOK, RunHasInput
<1>32. ASSUME NEW x \in Stoppers, CancelWithdraws(x) PROVE TypeOK' /\ RunHasInput'
  <2>1. /\ open' \in BOOLEAN
        /\ steering' \in Seq(Items) /\ followUp' \in Seq(Items)
        /\ lane' \in [Items -> Lanes] /\ claimed' \in Items \cup {None}
        /\ told' \in [Items -> Tellings]
        /\ log' \in Seq(Entry) /\ synced' \in 0..Len(log')
        /\ writeFailed' \in BOOLEAN /\ budget' \in [Bounds -> Nat]
    BY <1>32, WithdrawOkType, WithdrawFailsType DEF CancelWithdraws
  <2>2. stop' \in [Stoppers -> {"none", "locked", "closed", "waitIdle"}]
    BY <1>32 DEF CancelWithdraws, TypeOK
  <2>3. UNCHANGED <<cancelled, stale, phase, turns, outcome, failedBy,
                    initial, inserted, submissions, stage, dropped>>
    BY <1>32 DEF CancelWithdraws, runVars
  <2> QED
    BY <2>1, <2>2, <2>3 DEF TypeOK, RunHasInput
<1>33. ASSUME Clear PROVE TypeOK' /\ RunHasInput'
  <2>1. steering \o followUp \in Seq(Items)
    BY DEF TypeOK
  <2>2. ClearRecords \in Seq(Entry)
    BY <2>1, CancelRecords DEF ClearRecords
  <2>3. /\ log' \in Seq(Entry) /\ synced' \in 0..Len(log')
        /\ writeFailed' \in BOOLEAN /\ budget' \in [Bounds -> Nat]
    BY <1>33, <2>2, CommitOkType DEF Clear
  <2>4. told' \in [Items -> Tellings]
    BY <1>33, TellType DEF Clear, Tellings
  <2>5. steering' \in Seq(Items) /\ followUp' \in Seq(Items)
    BY <1>33 DEF Clear
  <2>6. UNCHANGED <<open, lane, claimed, cancelled, stale, stop, phase,
                    turns, outcome, failedBy, initial, inserted,
                    submissions, stage, dropped>>
    BY <1>33 DEF Clear, runVars
  <2> QED
    BY <2>3, <2>4, <2>5, <2>6 DEF TypeOK, RunHasInput
<1>34. ASSUME MutationFails PROVE TypeOK' /\ RunHasInput'
  <2>1. steering \o followUp \in Seq(Items)
    BY DEF TypeOK
  <2>2. ClearRecords \in Seq(Entry)
    BY <2>1, CancelRecords DEF ClearRecords
  <2>3. Waiting \subseteq Items /\ In(followUp) \subseteq Items
    BY InFinite DEF Waiting, TypeOK
  <2>4. /\ \A i \in Waiting : <<Cancelled(i)>> \in Seq(Entry)
        /\ \A i \in In(followUp) : <<Enqueued(i, "steering")>> \in Seq(Entry)
    BY <2>3, EntryFields DEF Lanes
  <2>5. /\ log' \in Seq(Entry) /\ synced' \in 0..Len(log')
        /\ writeFailed' \in BOOLEAN /\ budget' \in [Bounds -> Nat]
    BY <1>34, <2>2, <2>4, CommitFailsType DEF MutationFails
  <2>6. UNCHANGED <<open, steering, followUp, lane, claimed, cancelled,
                    stale, stop, phase, turns, outcome, failedBy, initial,
                    inserted, submissions, stage, told, dropped>>
    BY <1>34 DEF MutationFails, queueVars, runVars
  <2> QED
    BY <2>5, <2>6 DEF TypeOK, RunHasInput
<1>35. ASSUME ParentCancelsRun PROVE TypeOK' /\ RunHasInput'
  BY <1>35, SpendType
  DEF ParentCancelsRun, TypeOK, RunHasInput, queueVars, runVars, logVars,
     Bounds
<1>36. ASSUME DropRun PROVE TypeOK' /\ RunHasInput'
  <2>1. "lost" \in Tellings
    BY DEF Tellings
  <2>2. /\ open' \in BOOLEAN /\ told' \in [Items -> Tellings]
        /\ submissions' \in SUBSET Submissions
        /\ stage' \in [Items -> Stages]
        /\ initial' \in Items \cup {None} /\ inserted' \in BOOLEAN
        /\ turns' \in Nat /\ phase' \in Phases
        /\ outcome' \in {"none", "succeeded", "cancelled", "failed"}
        /\ failedBy' \in {"none", "cancelled", "other"}
    BY <1>36, <2>1, ReleaseRunType DEF DropRun
  <2>3. phase' = "idle" /\ initial' = None
    BY <1>36 DEF DropRun, ReleaseRun
  <2>4. steering' \in Seq(Items) /\ followUp' \in Seq(Items) /\ claimed' = None
    BY <1>36, ReturnClaimType DEF DropRun
  <2>5. budget' \in [Bounds -> Nat]
    BY <1>36, SpendType DEF DropRun, Bounds
  <2>6. UNCHANGED <<lane, cancelled, stale, stop, log, synced,
                    writeFailed>>
    BY <1>36 DEF DropRun, logVars
  <2>7. dropped' \in BOOLEAN
    BY <1>36 DEF DropRun, TypeOK
  <2> QED
    BY <2>2, <2>3, <2>4, <2>5, <2>6, <2>7 DEF TypeOK, RunHasInput
<1>37. ASSUME Reopen PROVE TypeOK' /\ RunHasInput'
  <2>1. log' \in Seq(Entry) /\ synced' \in 0..Len(log')
    BY <1>37 DEF Reopen, TypeOK
  <2>2. steering' \in Seq(Items) /\ followUp' \in Seq(Items)
    BY <1>37, <2>1, RestoredLaneHolds DEF Reopen, Lanes
  <2>3. lane' \in [Items -> Lanes]
    BY <1>37, <2>1, LiveRecords DEF Reopen, TypeOK
  <2>4. told' \in [Items -> Tellings]
    BY <1>37, TellType DEF Reopen, Tellings
  <2>5. stage' \in [Items -> Stages]
    BY <1>37 DEF Reopen, TypeOK, Stages
  <2>6. budget' \in [Bounds -> Nat]
    BY <1>37, SpendType DEF Reopen, Bounds
  <2>7. phase' = "idle" /\ initial' = None
    BY <1>37 DEF Reopen
  <2>8. UNCHANGED <<dropped>>
    BY <1>37 DEF Reopen
  <2>9. open' \in BOOLEAN
    BY <1>37 DEF Reopen, TypeOK
  <2>10. claimed' \in Items \cup {None}
    BY <1>37 DEF Reopen, TypeOK
  <2>11. cancelled' \in BOOLEAN
    BY <1>37 DEF Reopen, TypeOK
  <2>12. stale' \in SUBSET Prompts
    BY <1>37 DEF Reopen, TypeOK
  <2>13. stop' \in [Stoppers -> {"none", "locked", "closed", "waitIdle"}]
    BY <1>37 DEF Reopen, TypeOK
  <2>14. turns' \in Nat
    BY <1>37 DEF Reopen, TypeOK
  <2>15. outcome' \in {"none", "succeeded", "cancelled", "failed"}
    BY <1>37 DEF Reopen, TypeOK
  <2>16. failedBy' \in {"none", "cancelled", "other"}
    BY <1>37 DEF Reopen, TypeOK
  <2>17. inserted' \in BOOLEAN
    BY <1>37 DEF Reopen, TypeOK
  <2>18. submissions' \in SUBSET Submissions
    BY <1>37 DEF Reopen, TypeOK
  <2>19. writeFailed' \in BOOLEAN
    BY <1>37 DEF Reopen, TypeOK
  <2> QED
    BY <2>1, <2>2, <2>3, <2>4, <2>5, <2>6, <2>7, <2>8, <2>9, <2>10,
       <2>11, <2>12, <2>13, <2>14, <2>15, <2>16, <2>17, <2>18, <2>19
       DEF TypeOK, RunHasInput, Phases
<1>38. CASE UNCHANGED vars
  BY <1>38 DEF vars, TypeOK, RunHasInput
<1> QED
  BY <1>1, <1>2, <1>3, <1>4, <1>5, <1>6, <1>7, <1>8, <1>9, <1>10, <1>11,
     <1>12, <1>13, <1>14, <1>15, <1>16, <1>17, <1>18, <1>19, <1>20,
     <1>21, <1>22, <1>23, <1>24, <1>25, <1>26, <1>27, <1>28, <1>29,
     <1>30, <1>31, <1>32, <1>33, <1>34, <1>35, <1>36, <1>37, <1>38
  DEF Next, RunStep, ItemStep, StopStep

\* A Session starts well typed, with no Run.
LEMMA InitTypes ==
    ASSUME Init
    PROVE  TypeOK /\ RunHasInput
<1>1. budget \in [Bounds -> Nat]
  BY BoundsAssumption DEF Init, Bounds
<1>2. log \in Seq(Entry) /\ synced \in 0..Len(log)
  BY DEF Init
<1>3. steering \in Seq(Items) /\ followUp \in Seq(Items)
  BY DEF Init
<1>4. lane \in [Items -> Lanes] /\ stage \in [Items -> Stages]
  BY DEF Init, Lanes, Stages
<1>5. told \in [Items -> Tellings]
  BY DEF Init, Tellings
<1>6. stop \in [Stoppers -> {"none", "locked", "closed", "waitIdle"}]
  BY DEF Init
<1>7. phase \in Phases /\ RunHasInput /\ turns \in Nat
  BY DEF Init, Phases, RunHasInput
<1>8. open \in BOOLEAN /\ cancelled \in BOOLEAN /\ inserted \in BOOLEAN
      /\ writeFailed \in BOOLEAN /\ dropped \in BOOLEAN
  BY DEF Init
<1>9. /\ claimed \in Items \cup {None} /\ initial \in Items \cup {None}
      /\ stale \in SUBSET Prompts /\ submissions \in SUBSET Submissions
      /\ outcome \in {"none", "succeeded", "cancelled", "failed"}
      /\ failedBy \in {"none", "cancelled", "other"}
  BY DEF Init
<1> QED
  BY <1>1, <1>2, <1>3, <1>4, <1>5, <1>6, <1>7, <1>8, <1>9 DEF TypeOK

\* Every reachable state of a Session is well typed, whatever the inputs and the
\* bounds: in particular no claim, lane or history entry is ever the empty item
\* None, and what is known to be on disk is a prefix of the log.
THEOREM TypeCorrect == Spec => []TypeOK
<1>1. Init => TypeOK /\ RunHasInput
  BY InitTypes
<1>2. TypeOK /\ RunHasInput /\ [Next]_vars => TypeOK' /\ RunHasInput'
  BY TypeStep
<1> QED
  BY <1>1, <1>2, PTL DEF Spec
=============================================================================
