------------------------ MODULE SessionStore_proofs ------------------------
(***************************************************************************)
(* The context follows the Store: the model context that the transcript    *)
(* keeps up to date is always the one a rebuild from the Store gives       *)
(* (HistoryMatchesStore), and what a navigation tells its caller is true   *)
(* (NavigationOutcomeIsTrue).                                              *)
(*                                                                         *)
(* The branch of an entry, the history along a branch and the replay of a  *)
(* file are recursive functions.  That they exist, are unique and grow by  *)
(* one step with one entry or one line is shown by least counterexamples;  *)
(* from there on the proofs go action by action.                           *)
(*                                                                         *)
(* The second half is about recovery: as long as ordinary appends succeed, *)
(* what failed commits, failed syncs and crashes leave is a log that opens *)
(* again, with the state in memory (ReopeningRestores), and the store      *)
(* implements DurableLog.                                                  *)
(***************************************************************************)
EXTENDS SessionStore, SequenceTheorems, WellFoundedInduction, TLAPS

\* A set of numbers has a least one.
LEMMA Least ==
    ASSUME NEW T \in SUBSET Nat, T # {}
    PROVE  \E x \in T : \A y \in T : x <= y
<1>1. \E x \in T : \A y \in T : ~ (<<y, x>> \in OpToRel(<, Nat))
  BY NatLessThanWellFounded, WFMin, Zenon
<1>2. \E x \in T : \A y \in T : ~ (y < x)
  BY <1>1 DEF OpToRel
<1> QED
  BY <1>2

(***************************************************************************)
(* Branches and histories, as functions of the entries and the leaf alone. *)
(***************************************************************************)
IsBranch(n, B) ==
    B = [e \in DOMAIN n \cup {None} |->
           IF e = None THEN << >> ELSE Append(B[n[e].parent], e)]

BranchOf(n, leaf) == (CHOOSE B : IsBranch(n, B))[leaf]

NextHistory(n, h, e) ==
    CASE n[e].type \in {"user", "reply"} -> Append(h, e)
      [] n[e].type = "compaction" -> <<e>> \o n[e].kept
      [] OTHER -> h

IsHistory(n, b, H) ==
    H = [k \in 0..Len(b) |-> IF k = 0 THEN << >> ELSE NextHistory(n, H[k - 1], b[k])]

HistoryAlong(n, b) == (CHOOSE H : IsHistory(n, b, H))[Len(b)]

HistoryFrom(n, leaf) == HistoryAlong(n, BranchOf(n, leaf))

\* history_from_store looks at nothing else.
LEMMA HistoryByEntries ==
    ASSUME NEW st
    PROVE  HistoryOf(st) = HistoryFrom(st.entries, st.leaf)
<1>1. Branch(st, st.leaf) = BranchOf(st.entries, st.leaf)
  BY DEF Branch, BranchOf, IsBranch, Stored
<1>2. HistoryOf(st) = HistoryAlong(st.entries, Branch(st, st.leaf))
  BY DEF HistoryOf, HistoryAlong, IsHistory, NextHistory
<1> QED
  BY <1>1, <1>2 DEF HistoryFrom

\* The entries form a tree: parents are stored, and the branch of an entry, which
\* is defined by recursion, exists and is unique.
Tree(n) ==
    /\ None \notin DOMAIN n
    /\ \A e \in DOMAIN n : n[e].parent \in DOMAIN n \cup {None}
    /\ \E B \in [DOMAIN n \cup {None} -> Seq(DOMAIN n)] :
          IsBranch(n, B) /\ \A C : IsBranch(n, C) => C = B

\* n and one entry more, below leaf.
Grown(n, m, leaf, e) ==
    /\ leaf \in DOMAIN n \cup {None}
    /\ e \notin DOMAIN n /\ e # None
    /\ DOMAIN m = DOMAIN n \cup {e}
    /\ m[e].parent = leaf
    /\ \A x \in DOMAIN n : m[x] = n[x]

\* A tree stays one when an entry is added below a leaf, and its branch is the
\* leaf's and then the entry.
LEMMA TreeGrows ==
    ASSUME NEW n, NEW m, NEW leaf, NEW e, Tree(n), Grown(n, m, leaf, e)
    PROVE  /\ Tree(m)
           /\ BranchOf(n, leaf) \in Seq(DOMAIN n)
           /\ BranchOf(m, e) = Append(BranchOf(n, leaf), e)
<1>1. PICK B \in [DOMAIN n \cup {None} -> Seq(DOMAIN n)] :
           IsBranch(n, B) /\ \A C : IsBranch(n, C) => C = B
  BY DEF Tree
<1>2. /\ None \notin DOMAIN n /\ leaf \in DOMAIN n \cup {None}
      /\ e \notin DOMAIN n /\ e # None
      /\ DOMAIN m = DOMAIN n \cup {e}
      /\ m[e].parent = leaf
      /\ \A x \in DOMAIN n : m[x] = n[x] /\ n[x].parent \in DOMAIN n \cup {None}
  BY DEF Tree, Grown
<1>3. BranchOf(n, leaf) = B[leaf]
  <2>1. (CHOOSE C : IsBranch(n, C)) = B
    <3> DEFINE D == CHOOSE C : IsBranch(n, C)
    <3>1. IsBranch(n, D)
      BY <1>1, Zenon
    <3> QED
      BY <1>1, <3>1, Zenon
  <2> QED
    BY <2>1 DEF BranchOf
<1>4. \A x \in DOMAIN n \cup {None} : B[x] = IF x = None THEN << >> ELSE Append(B[n[x].parent], x)
  BY <1>1 DEF IsBranch
<1> DEFINE G == [x \in DOMAIN m \cup {None} |-> IF x = e THEN Append(B[leaf], e) ELSE B[x]]
<1>5. /\ \A x \in DOMAIN n \cup {None} : G[x] = B[x]
      /\ G[e] = Append(B[leaf], e)
      /\ G = [x \in DOMAIN m \cup {None} |-> G[x]]
  BY <1>2
<1>6. \A x \in DOMAIN n \cup {None} : B[x] \in Seq(DOMAIN m)
  <2> SUFFICES ASSUME NEW x \in DOMAIN n \cup {None} PROVE B[x] \in Seq(DOMAIN m)
    OBVIOUS
  <2>1. B[x] \in Seq(DOMAIN n) /\ DOMAIN n \subseteq DOMAIN m
    BY <1>1, <1>2
  <2> QED
    BY <2>1
<1>7. G \in [DOMAIN m \cup {None} -> Seq(DOMAIN m)]
  <2>1. Append(B[leaf], e) \in Seq(DOMAIN m)
    BY <1>2, <1>6
  <2> QED
    BY <1>2, <1>6, <2>1
<1> HIDE DEF G
<1>8. IsBranch(m, G)
  <2>1. \A x \in DOMAIN m \cup {None} : G[x] = IF x = None THEN << >> ELSE Append(G[m[x].parent], x)
    <3> SUFFICES ASSUME NEW x \in DOMAIN m \cup {None}
                 PROVE  G[x] = IF x = None THEN << >> ELSE Append(G[m[x].parent], x)
      OBVIOUS
    <3>1. CASE x = e
      <4>1. m[x].parent = leaf /\ G[leaf] = B[leaf] /\ x # None
        BY <1>2, <1>5, <3>1
      <4>2. G[x] = Append(B[leaf], x)
        BY <1>5, <3>1
      <4>3. G[x] = Append(G[m[x].parent], x)
        BY <4>1, <4>2
      <4> QED
        BY <4>1, <4>3
    <3>2. CASE x # e
      <4>1. x \in DOMAIN n \cup {None} /\ G[x] = B[x]
        BY <1>2, <1>5, <3>2
      <4>2. CASE x = None
        BY <1>4, <4>1, <4>2
      <4>3. CASE x # None
        <5>1. m[x].parent \in DOMAIN n \cup {None} /\ m[x].parent = n[x].parent
          BY <1>2, <4>1, <4>3
        <5>2. G[m[x].parent] = B[n[x].parent]
          <6>1. \A y \in DOMAIN n \cup {None} : G[y] = B[y]
            BY <1>5
          <6> QED
            BY <5>1, <6>1
        <5>3. B[x] = Append(B[n[x].parent], x)
          BY <1>4, <4>1, <4>3
        <5> QED
          BY <4>1, <4>3, <5>2, <5>3
      <4> QED
        BY <4>2, <4>3
    <3> QED
      BY <3>1, <3>2
  <2> QED
    BY <1>5, <2>1 DEF IsBranch
<1>9. ASSUME NEW C, IsBranch(m, C) PROVE C = G
  <2>1. \A x \in DOMAIN m \cup {None} : C[x] = IF x = None THEN << >> ELSE Append(C[m[x].parent], x)
    BY <1>9 DEF IsBranch
  <2> DEFINE R == [x \in DOMAIN n \cup {None} |-> C[x]]
  <2>2. \A x \in DOMAIN n \cup {None} : R[x] = C[x] /\ x \in DOMAIN m \cup {None}
    BY <1>2
  <2>3. R = [x \in DOMAIN n \cup {None} |-> R[x]]
    OBVIOUS
  <2> HIDE DEF R
  <2>4. \A x \in DOMAIN n \cup {None} : R[x] = IF x = None THEN << >> ELSE Append(R[n[x].parent], x)
    <3> SUFFICES ASSUME NEW x \in DOMAIN n \cup {None}
                 PROVE  R[x] = IF x = None THEN << >> ELSE Append(R[n[x].parent], x)
      OBVIOUS
    <3>1. CASE x = None
      BY <2>1, <2>2, <3>1
    <3>2. CASE x # None
      <4>1. m[x].parent = n[x].parent /\ n[x].parent \in DOMAIN n \cup {None}
        BY <1>2, <3>2
      <4>2. R[n[x].parent] = C[m[x].parent]
        BY <2>2, <4>1
      <4> QED
        BY <2>1, <2>2, <3>2, <4>2
    <3> QED
      BY <3>1, <3>2
  <2>5. IsBranch(n, R)
    BY <2>3, <2>4 DEF IsBranch
  <2>6. R = B
    BY <1>1, <2>5
  <2>7. \A x \in DOMAIN n \cup {None} : C[x] = G[x]
    BY <1>5, <2>2, <2>6
  <2>8. C[e] = G[e]
    <3>1. C[e] = Append(C[leaf], e)
      BY <1>2, <2>1
    <3> QED
      BY <1>2, <1>5, <2>7, <3>1
  <2>9. \A x \in DOMAIN m \cup {None} : C[x] = G[x]
    BY <1>2, <2>7, <2>8
  <2>10. C = [x \in DOMAIN m \cup {None} |-> C[x]]
    <3>1. \E D : C = [x \in DOMAIN m \cup {None} |-> D[x]]
      <4> DEFINE D == [x \in DOMAIN m \cup {None} |->
                         IF x = None THEN << >> ELSE Append(C[m[x].parent], x)]
      <4>1. C = D
        BY <1>9 DEF IsBranch
      <4>2. D = [x \in DOMAIN m \cup {None} |-> D[x]]
        OBVIOUS
      <4> HIDE DEF D
      <4> QED
        BY <4>1, <4>2
    <3> QED
      BY <3>1
  <2> QED
    BY <1>5, <2>9, <2>10
<1>10. BranchOf(m, e) = G[e]
  <2>1. (CHOOSE C : IsBranch(m, C)) = G
    <3> DEFINE D == CHOOSE C : IsBranch(m, C)
    <3>1. IsBranch(m, D)
      BY <1>8, Zenon
    <3> QED
      BY <1>9, <3>1, Zenon
  <2> QED
    BY <2>1 DEF BranchOf
<1>11. Tree(m)
  <2>1. None \notin DOMAIN m /\ \A x \in DOMAIN m : m[x].parent \in DOMAIN m \cup {None}
    BY <1>2
  <2>2. \A C : IsBranch(m, C) => C = G
    BY <1>9
  <2> QED
    BY <1>7, <1>8, <2>1, <2>2 DEF Tree
<1> QED
  BY <1>1, <1>2, <1>3, <1>5, <1>10, <1>11

\* The empty tree.
LEMMA TreeEmpty ==
    ASSUME NEW n, DOMAIN n = {}
    PROVE  Tree(n) /\ BranchOf(n, None) = << >>
<1> DEFINE G == [x \in {None} |-> << >>]
<1>1. DOMAIN n \cup {None} = {None} /\ << >> \in Seq(DOMAIN n)
  OBVIOUS
<1>2. G \in [DOMAIN n \cup {None} -> Seq(DOMAIN n)] /\ IsBranch(n, G)
  BY <1>1 DEF IsBranch
<1>3. ASSUME NEW C, IsBranch(n, C) PROVE C = G
  BY <1>1, <1>3 DEF IsBranch
<1>4. (CHOOSE C : IsBranch(n, C)) = G
  <2> DEFINE D == CHOOSE C : IsBranch(n, C)
  <2>1. IsBranch(n, D)
    BY <1>2, Zenon
  <2> QED
    BY <1>3, <2>1, Zenon
<1>5. BranchOf(n, None) = << >>
  BY <1>4 DEF BranchOf
<1> QED
  BY <1>2, <1>3, <1>5 DEF Tree

\* The branch of any stored leaf, and of the root.
LEMMA TreeBranch ==
    ASSUME NEW n, Tree(n), NEW leaf \in DOMAIN n \cup {None}
    PROVE  BranchOf(n, leaf) \in Seq(DOMAIN n) /\ BranchOf(n, None) = << >>
<1>1. PICK B \in [DOMAIN n \cup {None} -> Seq(DOMAIN n)] :
           IsBranch(n, B) /\ \A C : IsBranch(n, C) => C = B
  BY DEF Tree
<1>2. (CHOOSE C : IsBranch(n, C)) = B
  <2> DEFINE D == CHOOSE C : IsBranch(n, C)
  <2>1. IsBranch(n, D)
    BY <1>1, Zenon
  <2> QED
    BY <1>1, <2>1, Zenon
<1>3. B[None] = << >>
  BY <1>1 DEF IsBranch
<1> QED
  BY <1>1, <1>2, <1>3 DEF BranchOf

(***************************************************************************)
(* Histories along a branch.                                               *)
(***************************************************************************)

\* The recursion over a branch has a solution, of any length.
LEMMA HistoryExists ==
    ASSUME NEW n, NEW b, Len(b) \in Nat
    PROVE  \E H : IsHistory(n, b, H)
<1> DEFINE Upto(H, k) == H = [i \in 0..k |-> IF i = 0 THEN << >> ELSE NextHistory(n, H[i - 1], b[i])]
           T == {k \in Nat : ~ \E H : Upto(H, k)}
<1> SUFFICES ASSUME T # {} PROVE FALSE
  <2>1. \E H : Upto(H, Len(b))
    OBVIOUS
  <2> QED
    BY <2>1 DEF IsHistory
<1>1. PICK k \in T : \A j \in T : k <= j
  <2>1. T \in SUBSET Nat
    OBVIOUS
  <2> HIDE DEF T
  <2> QED
    BY <2>1, Least
<1>2. CASE k = 0
  <2> DEFINE f == [i \in 0..0 |-> << >>]
  <2>1. Upto(f, 0)
    OBVIOUS
  <2> QED
    BY <2>1, <1>1, <1>2
<1>3. CASE k # 0
  <2>1. k - 1 \in Nat /\ k - 1 \notin T /\ k \in Nat
    <3>1. T \subseteq Nat
      OBVIOUS
    <3> HIDE DEF T
    <3> QED
      BY <1>1, <1>3, <3>1
  <2>2. PICK f : Upto(f, k - 1)
    BY <2>1
  <2> DEFINE g == [i \in 0..k |-> IF i = k THEN NextHistory(n, f[k - 1], b[k]) ELSE f[i]]
  <2>3. \A i \in 0..(k - 1) : g[i] = f[i]
    BY <2>1
  <2>4. g[k] = NextHistory(n, f[k - 1], b[k])
    BY <2>1
  <2>5. \A i \in 0..k : i # 0 => i - 1 \in 0..(k - 1)
    BY <2>1
  <2>6. \A i \in 0..k : i # k => i \in 0..(k - 1)
    BY <2>1
  <2>7. \A i \in 0..(k - 1) : f[i] = IF i = 0 THEN << >> ELSE NextHistory(n, f[i - 1], b[i])
    BY <2>2
  <2>8. \A i \in 0..k : g[i] = IF i = 0 THEN << >> ELSE NextHistory(n, g[i - 1], b[i])
    <3> SUFFICES ASSUME NEW i \in 0..k
                 PROVE  g[i] = IF i = 0 THEN << >> ELSE NextHistory(n, g[i - 1], b[i])
      OBVIOUS
    <3>1. CASE i = k
      <4>1. i # 0 /\ g[i - 1] = f[i - 1] /\ g[i] = NextHistory(n, f[i - 1], b[i])
        BY <3>1, <1>3, <2>3, <2>4, <2>5
      <4> HIDE DEF g
      <4> QED
        BY <4>1
    <3>2. CASE i # k
      <4>1. g[i] = f[i] /\ (i # 0 => g[i - 1] = f[i - 1])
        BY <3>2, <2>3, <2>5, <2>6
      <4>2. i \in 0..(k - 1)
        BY <3>2, <2>6
      <4> HIDE DEF g
      <4> QED
        BY <4>1, <4>2, <2>7
    <3> QED
      BY <3>1, <3>2
  <2>9. Upto(g, k)
    <3>1. g = [i \in 0..k |-> g[i]]
      OBVIOUS
    <3> HIDE DEF g
    <3> QED
      BY <3>1, <2>8
  <2> QED
    BY <2>9, <1>1
<1> QED
  BY <1>2, <1>3

\* b is the beginning of c, and its entries are the same.
Begins(n, b, m, c) ==
    Len(b) <= Len(c) /\ \A k \in 1..Len(b) : c[k] = b[k] /\ m[b[k]] = n[b[k]]

\* Along a common beginning of two branches, whose entries are the same, the
\* histories are the same.
LEMMA HistoryAgrees ==
    ASSUME NEW n, NEW m, NEW b, NEW c, Len(b) \in Nat, Len(c) \in Nat, Begins(n, b, m, c),
           NEW F, IsHistory(n, b, F), NEW G, IsHistory(m, c, G)
    PROVE  \A k \in 0..Len(b) : G[k] = F[k]
<1> DEFINE T == {k \in 0..Len(b) : G[k] # F[k]}
<1> SUFFICES ASSUME T # {} PROVE FALSE
  OBVIOUS
<1>1. PICK k \in T : \A j \in T : k <= j
  <2>1. T \in SUBSET Nat
    OBVIOUS
  <2> HIDE DEF T
  <2> QED
    BY <2>1, Least
<1>2. \A i \in 0..Len(b) : F[i] = IF i = 0 THEN << >> ELSE NextHistory(n, F[i - 1], b[i])
  BY DEF IsHistory
<1>3. \A i \in 0..Len(c) : G[i] = IF i = 0 THEN << >> ELSE NextHistory(m, G[i - 1], c[i])
  BY DEF IsHistory
<1>4. k \in 0..Len(b) /\ k \in 0..Len(c) /\ G[k] # F[k]
  BY <1>1 DEF Begins
<1>5. k # 0
  BY <1>2, <1>3, <1>4
<1>6. k \in 1..Len(b) /\ k - 1 \in 0..Len(b) /\ k - 1 < k
  BY <1>4, <1>5
<1>7. G[k - 1] = F[k - 1]
  BY <1>1, <1>6
<1>8. c[k] = b[k] /\ m[b[k]] = n[b[k]]
  BY <1>6 DEF Begins
<1>9. NextHistory(m, G[k - 1], c[k]) = NextHistory(n, F[k - 1], b[k])
  BY <1>7, <1>8 DEF NextHistory
<1>10. F[k] = NextHistory(n, F[k - 1], b[k]) /\ G[k] = NextHistory(m, G[k - 1], c[k])
  BY <1>2, <1>3, <1>4, <1>5
<1> QED
  BY <1>4, <1>9, <1>10

\* The history of a branch is that of a solution.
LEMMA HistoryAlongIs ==
    ASSUME NEW n, NEW b, Len(b) \in Nat
    PROVE  \E H : IsHistory(n, b, H) /\ HistoryAlong(n, b) = H[Len(b)]
<1> DEFINE D == CHOOSE H : IsHistory(n, b, H)
<1>1. IsHistory(n, b, D)
  BY HistoryExists, Zenon
<1> QED
  BY <1>1 DEF HistoryAlong

\* A new entry below the leaf is one step more of the history.
LEMMA HistoryGrows ==
    ASSUME NEW n, NEW m, NEW leaf, NEW e, Tree(n), Grown(n, m, leaf, e)
    PROVE  HistoryFrom(m, e) = NextHistory(m, HistoryFrom(n, leaf), e)
<1> DEFINE b == BranchOf(n, leaf)
           c == BranchOf(m, e)
<1>1. b \in Seq(DOMAIN n) /\ c = Append(b, e)
  BY TreeGrows
<1> HIDE DEF b, c
<1>2. /\ Len(b) \in Nat /\ Len(c) = Len(b) + 1 /\ c[Len(b) + 1] = e
      /\ \A k \in 1..Len(b) : c[k] = b[k] /\ b[k] \in DOMAIN n
  BY <1>1
<1>3. Begins(n, b, m, c)
  BY <1>2 DEF Grown, Begins
<1>4. PICK F : IsHistory(n, b, F) /\ HistoryAlong(n, b) = F[Len(b)]
  BY <1>2, HistoryAlongIs
<1>5. PICK G : IsHistory(m, c, G) /\ HistoryAlong(m, c) = G[Len(c)]
  BY <1>2, HistoryAlongIs
<1>6. G[Len(b)] = F[Len(b)]
  <2>1. Len(b) \in Nat /\ Len(c) \in Nat /\ Len(b) \in 0..Len(b)
    BY <1>2
  <2>2. \A k \in 0..Len(b) : G[k] = F[k]
    BY <1>3, <1>4, <1>5, <2>1, HistoryAgrees
  <2> QED
    BY <2>1, <2>2
<1>7. G[Len(c)] = NextHistory(m, G[Len(c) - 1], c[Len(c)])
  BY <1>2, <1>5 DEF IsHistory
<1>8. Len(c) - 1 = Len(b) /\ c[Len(c)] = e
  BY <1>2
<1>9. HistoryAlong(m, c) = NextHistory(m, HistoryAlong(n, b), e)
  BY <1>4, <1>5, <1>6, <1>7, <1>8
<1> QED
  BY <1>9 DEF HistoryFrom, b, c

\* At the root nothing is in the context.
LEMMA HistoryAtRoot ==
    ASSUME NEW n, Tree(n)
    PROVE  HistoryFrom(n, None) = << >>
<1>1. BranchOf(n, None) = << >> /\ Len(<< >>) = 0
  BY TreeBranch
<1>2. PICK H : IsHistory(n, << >>, H) /\ HistoryAlong(n, << >>) = H[Len(<< >>)]
  BY <1>1, HistoryAlongIs
<1>3. H[0] = << >>
  BY <1>1, <1>2 DEF IsHistory
<1> QED
  BY <1>1, <1>2, <1>3 DEF HistoryFrom

(***************************************************************************)
(* States and lines.                                                       *)
(***************************************************************************)
Node  == [type : Types, parent : Entries \cup {None}, kept : Seq(Entries)]
Nodes == UNION {[S -> Node] : S \in SUBSET Entries}

State ==
    [seq : Nat, entries : Nodes, leaf : Entries \cup {None}, name : Names,
     labels : SUBSET Entries, records : Nat]

EntryLines == [kind : {"entry"}, seq : Nat, id : Entries, type : Types,
               parent : Entries \cup {None}, kept : Seq(Entries)]
OtherLines == [kind : {"lane"}, seq : Nat, leaf : Entries \cup {None}]
                \cup [kind : {"record"}, seq : Nat]
                \cup [kind : {"name"}, seq : Nat, name : Names]
                \cup [kind : {"label"}, seq : Nat, id : Entries, set : BOOLEAN]
Mutations  == EntryLines \cup OtherLines
Lines      == Mutations \cup {Garbage, Mangled, Torn, Split}

\* What a Session's state always is: its leaf is stored, its entries are a tree.
Sound(st) ==
    /\ st \in State
    /\ st.leaf \in Stored(st) \cup {None}
    /\ Tree(st.entries)

\* A Session without mutations.
LEMMA EmptySound == Sound(EmptyState)
<1> DEFINE n == << >>
<1>1. DOMAIN n = {} /\ n \in [{} -> Node] /\ {} \in SUBSET Entries
  OBVIOUS
<1>2. n \in Nodes
  BY <1>1 DEF Nodes
<1>3. EmptyState \in State /\ EmptyState.entries = n /\ EmptyState.leaf = None
  BY <1>2 DEF EmptyState, State, Names
<1> HIDE DEF n
<1> QED
  BY <1>1, <1>3, TreeEmpty DEF Sound

\* A line that appends an entry.
LEMMA CommitEntry ==
    ASSUME NEW st, Sound(st), NEW line \in EntryLines, Validate(st, line)
    PROVE  LET c == Commit(st, line) IN
           /\ c \in State /\ c.seq = line.seq /\ c.leaf = line.id /\ c.labels = st.labels
           /\ Stored(c) = Stored(st) \cup {line.id}
           /\ c.entries[line.id] = [type |-> line.type, parent |-> line.parent, kept |-> line.kept]
           /\ Grown(st.entries, c.entries, st.leaf, line.id)
<1> DEFINE S == Stored(st)
           node == [type |-> line.type, parent |-> line.parent, kept |-> line.kept]
           m == [e \in S \cup {line.id} |-> IF e = line.id THEN node ELSE st.entries[e]]
           c == Commit(st, line)
<1>1. /\ line.kind = "entry" /\ line.seq \in Nat /\ line.id \in Entries /\ line.type \in Types
      /\ line.parent \in Entries \cup {None} /\ line.kept \in Seq(Entries)
  BY DEF EntryLines
<1>2. st \in State /\ st.leaf \in S \cup {None} /\ line.id \notin S /\ line.parent = st.leaf
  BY <1>1 DEF Sound, Validate
<1>3. node \in Node
  BY <1>1 DEF Node
<1>4. S \subseteq Entries /\ \A e \in S : st.entries[e] \in Node
  <2>1. st.entries \in Nodes
    BY <1>2 DEF State
  <2>2. PICK X \in SUBSET Entries : st.entries \in [X -> Node]
    BY <2>1 DEF Nodes
  <2> QED
    BY <2>2 DEF Stored
<1>5. /\ DOMAIN m = S \cup {line.id} /\ m[line.id] = node
      /\ \A e \in S : m[e] = st.entries[e]
  BY <1>2
<1>6. m \in Nodes
  <2>1. m \in [S \cup {line.id} -> Node]
    BY <1>3, <1>4
  <2>2. S \cup {line.id} \in SUBSET Entries
    BY <1>1, <1>4
  <2> HIDE DEF m, S
  <2> QED
    BY <2>1, <2>2 DEF Nodes
<1>7. c = [[st EXCEPT !.seq = line.seq] EXCEPT !.leaf = line.id, !.entries = m]
  BY <1>1 DEF Commit
<1> HIDE DEF m, node
<1>8. /\ c \in State /\ c.seq = line.seq /\ c.leaf = line.id /\ c.labels = st.labels
      /\ c.entries = m
  BY <1>1, <1>2, <1>6, <1>7 DEF State
<1> HIDE DEF c
<1>9. line.id # None
  BY <1>1, StoreAssumption
<1>10. Grown(st.entries, c.entries, st.leaf, line.id)
  <2>1. m[line.id].parent = st.leaf
    BY <1>2, <1>5 DEF node
  <2> QED
    BY <1>2, <1>5, <1>8, <1>9, <2>1 DEF Grown, Stored
<1>11. Stored(c) = S \cup {line.id} /\ c.entries[line.id] = node
  BY <1>5, <1>8 DEF Stored
<1> QED
  BY <1>8, <1>10, <1>11 DEF c, node

\* A line that moves the lane, or only counts, names or labels.
LEMMA CommitOther ==
    ASSUME NEW st \in State, NEW line \in OtherLines
    PROVE  LET c == Commit(st, line) IN
           /\ c \in State /\ c.seq = line.seq /\ c.entries = st.entries
           /\ c.leaf = IF line.kind = "lane" THEN line.leaf ELSE st.leaf
           /\ c.labels = IF line.kind # "label" THEN st.labels
                         ELSE IF line.set THEN st.labels \cup {line.id}
                         ELSE st.labels \ {line.id}
<1>1. CASE line \in [kind : {"lane"}, seq : Nat, leaf : Entries \cup {None}]
  BY <1>1 DEF Commit, State
<1>2. CASE line \in [kind : {"record"}, seq : Nat]
  <2> DEFINE next == [st EXCEPT !.seq = line.seq]
             c == Commit(st, line)
  <2>1. line.kind = "record" /\ line.seq \in Nat /\ st.records + 1 \in Nat
    BY <1>2 DEF State
  <2>2. /\ next \in State /\ next.seq = line.seq /\ next.entries = st.entries
        /\ next.leaf = st.leaf /\ next.labels = st.labels
    BY <2>1 DEF State
  <2>3. c = [next EXCEPT !.records = @ + 1]
    BY <2>1 DEF Commit
  <2>4. next.records + 1 \in Nat
    BY <2>2 DEF State
  <2> HIDE DEF next, c
  <2>5. /\ c \in State /\ c.seq = next.seq /\ c.entries = next.entries
        /\ c.leaf = next.leaf /\ c.labels = next.labels
    BY <2>2, <2>3, <2>4 DEF State
  <2> QED
    BY <2>1, <2>2, <2>5 DEF c
<1>3. CASE line \in [kind : {"name"}, seq : Nat, name : Names]
  BY <1>3 DEF Commit, State
<1>4. CASE line \in [kind : {"label"}, seq : Nat, id : Entries, set : BOOLEAN]
  BY <1>4 DEF Commit, State
<1> QED
  BY <1>1, <1>2, <1>3, <1>4 DEF OtherLines

\* Valid lines keep a state sound.
LEMMA CommitSound ==
    ASSUME NEW st, Sound(st), NEW line \in Mutations, Validate(st, line)
    PROVE  Sound(Commit(st, line))
<1> DEFINE c == Commit(st, line)
<1>1. CASE line \in EntryLines
  <2>1. /\ c \in State /\ c.leaf = line.id /\ Stored(c) = Stored(st) \cup {line.id}
        /\ Grown(st.entries, c.entries, st.leaf, line.id)
    BY <1>1, CommitEntry
  <2>2. Tree(c.entries)
    BY <2>1, TreeGrows DEF Sound
  <2> QED
    BY <2>1, <2>2 DEF Sound
<1>2. CASE line \in OtherLines
  <2>1. /\ c \in State /\ c.entries = st.entries
        /\ c.leaf = IF line.kind = "lane" THEN line.leaf ELSE st.leaf
    BY <1>2, CommitOther DEF Sound
  <2> QED
    BY <2>1 DEF Sound, Stored, Validate
<1> QED
  BY <1>1, <1>2 DEF Mutations

(***************************************************************************)
(* The loop of JsonlStoreFactory::open.                                    *)
(***************************************************************************)
NextReplay(before, line) ==
    IF before.ok /\ Validate(before.state, line)
    THEN [ok |-> TRUE, state |-> Commit(before.state, line)]
    ELSE [ok |-> FALSE, state |-> EmptyState]

IsReplay(l, R, n) ==
    R = [k \in 0..n |-> IF k = 0 THEN [ok |-> TRUE, state |-> EmptyState]
                        ELSE NextReplay(R[k - 1], l[k])]

\* The loop has a result, whatever the lines.
LEMMA ReplayExists ==
    ASSUME NEW l, NEW n \in Nat
    PROVE  \E f : IsReplay(l, f, n)
<1> DEFINE T == {k \in Nat : ~ \E f : IsReplay(l, f, k)}
           start == [ok |-> TRUE, state |-> EmptyState]
<1> SUFFICES ASSUME T # {} PROVE FALSE
  OBVIOUS
<1>1. PICK k \in T : \A j \in T : k <= j
  <2>1. T \in SUBSET Nat
    OBVIOUS
  <2> HIDE DEF T
  <2> QED
    BY <2>1, Least
<1> HIDE DEF start
<1>2. CASE k = 0
  <2> DEFINE f == [i \in 0..0 |-> start]
  <2>1. IsReplay(l, f, 0)
    BY DEF IsReplay, start
  <2> QED
    BY <2>1, <1>1, <1>2
<1>3. CASE k # 0
  <2>1. k - 1 \in Nat /\ k - 1 \notin T /\ k \in Nat
    BY <1>1, <1>3
  <2>2. PICK f : IsReplay(l, f, k - 1)
    BY <2>1
  <2> DEFINE g == [i \in 0..k |-> IF i = k THEN NextReplay(f[k - 1], l[k]) ELSE f[i]]
  <2>3. \A i \in 0..(k - 1) : g[i] = f[i]
    BY <2>1
  <2>4. g[k] = NextReplay(f[k - 1], l[k])
    BY <2>1
  <2>5. \A i \in 0..k : i # 0 => i - 1 \in 0..(k - 1)
    BY <2>1
  <2>6. \A i \in 0..k : i # k => i \in 0..(k - 1)
    BY <2>1
  <2>7. \A i \in 0..(k - 1) : f[i] = IF i = 0 THEN start ELSE NextReplay(f[i - 1], l[i])
    BY <2>2 DEF IsReplay, start
  <2>8. \A i \in 0..k : g[i] = IF i = 0 THEN start ELSE NextReplay(g[i - 1], l[i])
    <3> SUFFICES ASSUME NEW i \in 0..k
                 PROVE  g[i] = IF i = 0 THEN start ELSE NextReplay(g[i - 1], l[i])
      OBVIOUS
    <3>1. CASE i = k
      <4>1. i # 0 /\ g[i - 1] = f[i - 1] /\ g[i] = NextReplay(f[i - 1], l[i])
        BY <3>1, <1>3, <2>3, <2>4, <2>5
      <4> HIDE DEF g
      <4> QED
        BY <4>1
    <3>2. CASE i # k
      <4>1. g[i] = f[i] /\ (i # 0 => g[i - 1] = f[i - 1])
        BY <3>2, <2>3, <2>5, <2>6
      <4>2. i \in 0..(k - 1)
        BY <3>2, <2>6
      <4> HIDE DEF g
      <4> QED
        BY <4>1, <4>2, <2>7
    <3> QED
      BY <3>1, <3>2
  <2>9. IsReplay(l, g, k)
    <3>1. g = [i \in 0..k |-> g[i]]
      OBVIOUS
    <3> HIDE DEF g
    <3> QED
      BY <3>1, <2>8 DEF IsReplay, start
  <2> QED
    BY <2>9, <1>1
<1> QED
  BY <1>2, <1>3

\* What the loop returns, by the list of its intermediate results.
LEMMA ReplayIs ==
    ASSUME NEW l, Len(l) \in Nat
    PROVE  \E f : IsReplay(l, f, Len(l)) /\ Replay(l) = f[Len(l)]
<1> DEFINE g == CHOOSE f : IsReplay(l, f, Len(l))
<1>1. IsReplay(l, g, Len(l))
  BY ReplayExists, Zenon
<1>2. Replay(l) = g[Len(l)]
  BY DEF Replay, IsReplay, NextReplay
<1> HIDE DEF g
<1> QED
  BY <1>1, <1>2

\* Every intermediate result is the replay of the lines so far.
LEMMA ReplayOfPrefix ==
    ASSUME NEW l, Len(l) \in Nat, NEW f, IsReplay(l, f, Len(l)),
           NEW p, Len(p) \in Nat, Len(p) <= Len(l), \A k \in 1..Len(p) : p[k] = l[k]
    PROVE  Replay(p) = f[Len(p)]
<1>1. PICK g : IsReplay(p, g, Len(p)) /\ Replay(p) = g[Len(p)]
  BY ReplayIs
<1> DEFINE T == {k \in 0..Len(p) : g[k] # f[k]}
<1>2. SUFFICES ASSUME T # {} PROVE FALSE
  <2>1. Len(p) \in 0..Len(p)
    OBVIOUS
  <2> QED
    BY <1>1, <2>1
<1>3. PICK k \in T : \A j \in T : k <= j
  <2>1. T \in SUBSET Nat
    OBVIOUS
  <2> HIDE DEF T
  <2> QED
    BY <1>2, <2>1, Least
<1>4. \A i \in 0..Len(l) : f[i] = IF i = 0 THEN [ok |-> TRUE, state |-> EmptyState]
                                  ELSE NextReplay(f[i - 1], l[i])
  BY DEF IsReplay
<1>5. \A i \in 0..Len(p) : g[i] = IF i = 0 THEN [ok |-> TRUE, state |-> EmptyState]
                                  ELSE NextReplay(g[i - 1], p[i])
  BY <1>1 DEF IsReplay
<1>6. k \in 0..Len(p) /\ k \in 0..Len(l) /\ g[k] # f[k]
  BY <1>3
<1>7. k # 0
  BY <1>4, <1>5, <1>6
<1>8. k \in 1..Len(p) /\ k - 1 \in 0..Len(p) /\ k - 1 < k
  BY <1>6, <1>7
<1>9. g[k - 1] = f[k - 1] /\ p[k] = l[k]
  BY <1>3, <1>8
<1>10. f[k] = NextReplay(f[k - 1], l[k]) /\ g[k] = NextReplay(g[k - 1], p[k])
  BY <1>4, <1>5, <1>6, <1>7
<1> QED
  BY <1>6, <1>9, <1>10

\* No lines, and one line more.
LEMMA ReplaySteps ==
    ASSUME NEW S, NEW l \in Seq(S), NEW x \in S
    PROVE  /\ Replay(<< >>) = [ok |-> TRUE, state |-> EmptyState]
           /\ Replay(Append(l, x)) = NextReplay(Replay(l), x)
<1>1. Replay(<< >>) = [ok |-> TRUE, state |-> EmptyState]
  <2>1. Len(<< >>) = 0
    OBVIOUS
  <2>2. PICK f : IsReplay(<< >>, f, Len(<< >>)) /\ Replay(<< >>) = f[Len(<< >>)]
    BY <2>1, ReplayIs
  <2> QED
    BY <2>1, <2>2 DEF IsReplay
<1> DEFINE a == Append(l, x)
<1>2. /\ Len(l) \in Nat /\ Len(a) = Len(l) + 1 /\ a[Len(a)] = x
      /\ \A k \in 1..Len(l) : l[k] = a[k]
  OBVIOUS
<1> HIDE DEF a
<1>3. Len(a) \in Nat /\ Len(l) <= Len(a) /\ Len(a) - 1 = Len(l) /\ Len(a) \in 0..Len(a) /\ Len(a) # 0
  BY <1>2
<1>4. PICK f : IsReplay(a, f, Len(a)) /\ Replay(a) = f[Len(a)]
  BY <1>3, ReplayIs
<1>5. Replay(l) = f[Len(l)]
  BY <1>2, <1>3, <1>4, ReplayOfPrefix
<1>6. f[Len(a)] = NextReplay(f[Len(a) - 1], a[Len(a)])
  BY <1>3, <1>4 DEF IsReplay
<1> QED
  BY <1>1, <1>2, <1>3, <1>4, <1>5, <1>6 DEF a

\* Whatever the file holds, replaying it gives a sound state, and one line is one
\* sequence number.
LEMMA ReplaySound ==
    ASSUME NEW l \in Seq(Lines)
    PROVE  /\ Replay(l).ok \in BOOLEAN /\ Sound(Replay(l).state)
           /\ Replay(l).ok => Replay(l).state.seq = Len(l)
<1>0. Len(l) \in Nat /\ Len(l) \in 0..Len(l)
  OBVIOUS
<1>1. PICK f : IsReplay(l, f, Len(l)) /\ Replay(l) = f[Len(l)]
  BY <1>0, ReplayIs
<1> DEFINE Right(r, k) == r.ok \in BOOLEAN /\ Sound(r.state) /\ (r.ok => r.state.seq = k)
           T == {k \in 0..Len(l) : ~ Right(f[k], k)}
<1> SUFFICES ASSUME T # {} PROVE FALSE
  BY <1>0, <1>1
<1>2. PICK k \in T : \A j \in T : k <= j
  <2>1. T \in SUBSET Nat
    BY <1>0
  <2> HIDE DEF T
  <2> QED
    BY <2>1, Least
<1>3. \A i \in 0..Len(l) : f[i] = IF i = 0 THEN [ok |-> TRUE, state |-> EmptyState]
                                  ELSE NextReplay(f[i - 1], l[i])
  BY <1>1 DEF IsReplay
<1>4. CASE k = 0
  <2>1. f[0] = [ok |-> TRUE, state |-> EmptyState]
    <3>1. 0 \in 0..Len(l)
      BY <1>0
    <3> QED
      BY <1>1, <3>1 DEF IsReplay
  <2>2. Right(f[0], 0)
    BY <2>1, EmptySound DEF EmptyState
  <2> QED
    BY <1>2, <1>4, <2>2
<1>5. CASE k # 0
  <2>1. k \in 0..Len(l) /\ k \in 1..Len(l) /\ k - 1 \in 0..Len(l) /\ k - 1 < k /\ k \in Nat
    BY <1>0, <1>2, <1>5
  <2> DEFINE b == f[k - 1]
             x == l[k]
  <2>2. Right(b, k - 1)
    BY <1>0, <1>2, <2>1
  <2>3. f[k] = NextReplay(b, x) /\ x \in Lines
    BY <1>3, <1>5, <2>1
  <2> HIDE DEF b, x
  <2>4. CASE b.ok /\ Validate(b.state, x)
    <3>1. x \in Mutations /\ x.seq = b.state.seq + 1
      BY <2>3, <2>4 DEF Lines, Validate, Garbage, Torn, Mangled, Split
    <3>2. Sound(Commit(b.state, x))
      BY <2>2, <2>4, <3>1, CommitSound
    <3>3. Commit(b.state, x).seq = x.seq
      <4>1. CASE x \in EntryLines
        BY <2>2, <2>4, <4>1, CommitEntry
      <4>2. CASE x \in OtherLines
        BY <2>2, <4>2, CommitOther DEF Sound
      <4> QED
        BY <3>1, <4>1, <4>2 DEF Mutations
    <3>4. f[k] = [ok |-> TRUE, state |-> Commit(b.state, x)]
      BY <2>3, <2>4 DEF NextReplay
    <3>5. x.seq = k
      BY <2>1, <2>2, <2>4, <3>1
    <3>6. Right(f[k], k)
      BY <3>2, <3>3, <3>4, <3>5
    <3> QED
      BY <1>2, <3>6
  <2>5. CASE ~(b.ok /\ Validate(b.state, x))
    <3>1. f[k] = [ok |-> FALSE, state |-> EmptyState]
      BY <2>3, <2>5 DEF NextReplay
    <3>2. Right(f[k], k)
      BY <3>1, EmptySound
    <3> QED
      BY <1>2, <3>2
  <2> QED
    BY <2>4, <2>5
<1> QED
  BY <1>4, <1>5

(***************************************************************************)
(* What a mutation does to the history.                                    *)
(***************************************************************************)

\* The history depends on the entries and the leaf.
LEMMA HistorySame ==
    ASSUME NEW a, NEW b, a.entries = b.entries, a.leaf = b.leaf
    PROVE  HistoryOf(a) = HistoryOf(b)
BY HistoryByEntries

\* An entry appended below the leaf.
LEMMA HistoryOfEntry ==
    ASSUME NEW st, Sound(st), NEW line \in EntryLines, Validate(st, line)
    PROVE  LET h == HistoryOf(Commit(st, line)) IN
           /\ line.type \in {"user", "reply"} => h = Append(HistoryOf(st), line.id)
           /\ line.type = "compaction" => h = <<line.id>> \o line.kept
           /\ line.type \notin {"user", "reply", "compaction"} => h = HistoryOf(st)
<1> DEFINE c == Commit(st, line)
<1>1. /\ c.leaf = line.id /\ Grown(st.entries, c.entries, st.leaf, line.id)
      /\ c.entries[line.id] = [type |-> line.type, parent |-> line.parent, kept |-> line.kept]
  BY CommitEntry
<1> HIDE DEF c
<1>2. HistoryFrom(c.entries, line.id) = NextHistory(c.entries, HistoryFrom(st.entries, st.leaf), line.id)
  BY <1>1, HistoryGrows DEF Sound
<1>3. HistoryOf(c) = NextHistory(c.entries, HistoryOf(st), line.id)
  BY <1>1, <1>2, HistoryByEntries
<1>4. c.entries[line.id].type = line.type /\ c.entries[line.id].kept = line.kept
  BY <1>1
<1> QED
  BY <1>3, <1>4 DEF NextHistory, c

\* The context consists of entries.
LEMMA HistoryTyped ==
    ASSUME NEW st, Sound(st)
    PROVE  HistoryOf(st) \in Seq(Entries)
<1> DEFINE n == st.entries
           b == BranchOf(n, st.leaf)
<1>1. /\ st.leaf \in DOMAIN n \cup {None} /\ Tree(n) /\ DOMAIN n \subseteq Entries
      /\ \A e \in DOMAIN n : n[e] \in Node
  <2>1. n \in Nodes
    BY DEF Sound, State
  <2>2. PICK X \in SUBSET Entries : n \in [X -> Node]
    BY <2>1 DEF Nodes
  <2> QED
    BY <2>2 DEF Sound, Stored
<1>2. b \in Seq(DOMAIN n)
  BY <1>1, TreeBranch
<1>3. HistoryOf(st) = HistoryAlong(n, b)
  BY HistoryByEntries DEF HistoryFrom
<1> HIDE DEF n, b
<1>4. Len(b) \in Nat /\ Len(b) \in 0..Len(b) /\ \A k \in 1..Len(b) : b[k] \in DOMAIN n
  BY <1>2
<1>5. PICK H : IsHistory(n, b, H) /\ HistoryAlong(n, b) = H[Len(b)]
  BY <1>4, HistoryAlongIs
<1> DEFINE T == {k \in 0..Len(b) : H[k] \notin Seq(Entries)}
<1> SUFFICES ASSUME T # {} PROVE FALSE
  BY <1>3, <1>4, <1>5
<1>6. PICK k \in T : \A j \in T : k <= j
  <2>1. T \in SUBSET Nat
    BY <1>4
  <2> HIDE DEF T
  <2> QED
    BY <2>1, Least
<1>7. \A i \in 0..Len(b) : H[i] = IF i = 0 THEN << >> ELSE NextHistory(n, H[i - 1], b[i])
  BY <1>5 DEF IsHistory
<1>8. k \in 0..Len(b) /\ H[k] \notin Seq(Entries)
  BY <1>6
<1>9. k # 0
  <2>1. H[0] = << >> /\ << >> \in Seq(Entries)
    <3>1. 0 \in 0..Len(b)
      BY <1>4
    <3> QED
      BY <1>7, <3>1
  <2> QED
    BY <1>8, <2>1
<1>10. k \in 1..Len(b) /\ k - 1 \in 0..Len(b) /\ k - 1 < k
  BY <1>4, <1>8, <1>9
<1>11. H[k - 1] \in Seq(Entries)
  BY <1>4, <1>6, <1>10
<1>12. b[k] \in Entries /\ n[b[k]] \in Node
  BY <1>1, <1>4, <1>10
<1>13. NextHistory(n, H[k - 1], b[k]) \in Seq(Entries)
  <2> DEFINE h == H[k - 1]
             e == b[k]
             x == n[b[k]]
  <2>1. x.kept \in Seq(Entries)
    BY <1>12 DEF Node
  <2> HIDE DEF h, e, x
  <2>2. Append(h, e) \in Seq(Entries) /\ <<e>> \o x.kept \in Seq(Entries)
    BY <1>11, <1>12, <2>1 DEF h, e
  <2> QED
    BY <1>11, <2>2 DEF NextHistory, h, e, x
<1> QED
  BY <1>7, <1>8, <1>9, <1>13

(***************************************************************************)
(* The file and the writer.                                                *)
(***************************************************************************)
Disk == [file : Seq(Lines), pending : Seq(Lines), tail : Parts, durable : Nat,
         mem : State, faults : Nat]

\* Only of a line that is still pending a part is in the file.
Held(d) == d \in Disk /\ (d.tail # "none" => d.pending # << >>)

Good(d) == Held(d) /\ Sound(d.mem)

\* Bytes that are no line, and beginnings of one, are lines of no other kind.
LEMMA OddLines ==
    /\ Begun \subseteq Lines /\ {Garbage, Mangled} \subseteq Lines
    /\ Torn \in Begun /\ Split \in Begun /\ Garbage \notin Begun /\ Mangled \notin Begun
    /\ \A x \in Begun : x.kind \in {"torn", "split"} /\ x.kind \in Parts
    /\ \A line \in Mutations : /\ line \in Lines /\ line \notin Begun
                               /\ line # Garbage /\ line # Mangled
                               /\ line.kind \notin {"garbage", "torn", "split", "mangled"}
                               /\ line.seq \in Nat
BY DEF Garbage, Torn, Mangled, Split, Begun, Parts, Lines, Mutations, EntryLines, OtherLines

\* A piece of a list.
LEMMA Cut ==
    ASSUME NEW S, NEW p \in Seq(S), NEW m \in Nat \ {0}, NEW n \in Nat, n <= Len(p)
    PROVE  /\ SubSeq(p, m, n) \in Seq(S)
           /\ Len(SubSeq(p, m, n)) = IF m <= n THEN n - m + 1 ELSE 0
           /\ \A i \in 1..(n - m + 1) : SubSeq(p, m, n)[i] = p[m + i - 1]
<1>1. \A i \in m..n : p[i] \in S
  OBVIOUS
<1>2. m \in Int /\ n \in Int
  OBVIOUS
<1> QED
  BY <1>1, <1>2, SubSeqProperties

\* What is handed to the writer.
LEMMA AddHolds ==
    ASSUME NEW p \in Seq(Lines), NEW line \in Lines
    PROVE  /\ Add(p, line) \in Seq(Lines) /\ Len(Add(p, line)) \in Nat /\ Len(Add(p, line)) >= 1
           /\ line \notin Begun => Add(p, line)[Len(Add(p, line))] \notin Begun
           /\ p = << >> => Add(p, line) = <<line>>
<1>1. Len(p) \in Nat
  OBVIOUS
<1>2. CASE p # << >> /\ p[Len(p)] \in Begun
  <2>0. PICK run \in Lines :
           /\ Add(p, line) = Append(SubSeq(p, 1, Len(p) - 1), run)
           /\ line \notin Begun => run \notin Begun
    BY <1>2, OddLines DEF Add
  <2> DEFINE q == SubSeq(p, 1, Len(p) - 1)
             a == Append(q, run)
  <2>1. Len(p) \in Nat \ {0} /\ Len(p) - 1 \in Nat /\ Len(p) - 1 <= Len(p)
    BY <1>2
  <2>2. q \in Seq(Lines) /\ Len(q) = Len(p) - 1
    <3>1. PICK k : k = Len(p) - 1 /\ k \in Nat /\ k <= Len(p)
      BY <2>1
    <3>2. SubSeq(p, 1, k) \in Seq(Lines) /\ Len(SubSeq(p, 1, k)) = IF 1 <= k THEN k - 1 + 1 ELSE 0
      BY <3>1, Cut
    <3>3. Len(SubSeq(p, 1, k)) = k
      BY <3>1, <3>2
    <3> QED
      BY <3>1, <3>2, <3>3
  <2>5. Add(p, line) = a
    BY <2>0
  <2> HIDE DEF q
  <2>3. a \in Seq(Lines) /\ Len(a) = Len(q) + 1 /\ a[Len(q) + 1] = run
    BY <2>2
  <2> HIDE DEF a
  <2>4. Len(a) = Len(p) /\ a[Len(a)] = run
    BY <2>1, <2>2, <2>3
  <2> QED
    BY <1>2, <2>0, <2>1, <2>3, <2>4, <2>5
<1>3. CASE ~(p # << >> /\ p[Len(p)] \in Begun)
  <2> DEFINE a == Append(p, line)
  <2>1. Add(p, line) = a
    BY <1>3 DEF Add
  <2>2. a \in Seq(Lines) /\ Len(a) = Len(p) + 1 /\ a[Len(p) + 1] = line
    OBVIOUS
  <2>3. p = << >> => a = <<line>>
    OBVIOUS
  <2> HIDE DEF a
  <2> QED
    BY <1>1, <2>1, <2>2, <2>3
<1> QED
  BY <1>2, <1>3

\* What is written of it.
LEMMA WrittenHolds ==
    ASSUME NEW d \in Disk, NEW p \in Seq(Lines), NEW n \in 0..Len(p), NEW t \in Parts
    PROVE  LET w == Written(d, p, n, t) IN
           /\ w \in Disk /\ w.mem = d.mem /\ w.durable = d.durable /\ w.faults = d.faults
           /\ w.tail = t /\ w.file = d.file \o SubSeq(p, 1, n)
           /\ w.pending = SubSeq(p, n + 1, Len(p))
           /\ n < Len(p) => w.pending # << >>
<1>1. Len(p) \in Nat /\ n \in Nat
  OBVIOUS
<1>2. SubSeq(p, 1, n) \in Seq(Lines) /\ SubSeq(p, n + 1, Len(p)) \in Seq(Lines)
  BY <1>1, SubSeqProperties
<1>3. n < Len(p) => SubSeq(p, n + 1, Len(p)) # << >>
  <2> SUFFICES ASSUME n < Len(p) PROVE SubSeq(p, n + 1, Len(p)) # << >>
    OBVIOUS
  <2>1. n + 1 \in Nat \ {0} /\ n + 1 <= Len(p)
    BY <1>1
  <2>2. Len(SubSeq(p, n + 1, Len(p))) = Len(p) - (n + 1) + 1
    BY <1>1, <2>1, Cut
  <2>3. Len(SubSeq(p, n + 1, Len(p))) # 0
    BY <1>1, <2>2
  <2> QED
    BY <2>3
<1>4. d.file \o SubSeq(p, 1, n) \in Seq(Lines)
  BY <1>2 DEF Disk
<1> QED
  BY <1>2, <1>3, <1>4 DEF Written, Disk

\* Nothing is left of a list when all of it is taken, and all when nothing is.
LEMMA Pieces ==
    ASSUME NEW p \in Seq(Lines)
    PROVE  /\ SubSeq(p, 1, Len(p)) = p
           /\ SubSeq(p, Len(p) + 1, Len(p)) = << >>
<1>1. Len(p) \in Nat
  OBVIOUS
<1>2. SubSeq(p, 1, Len(p)) = p
  <2> DEFINE q == SubSeq(p, 1, Len(p))
  <2>1. q \in Seq(Lines) /\ Len(q) = Len(p) /\ \A k \in 1..Len(p) : q[k] = p[k]
    BY <1>1, SubSeqProperties
  <2> HIDE DEF q
  <2>2. q = p
    BY <2>1, SeqEqual
  <2> QED
    BY <2>2 DEF q
<1>3. SubSeq(p, Len(p) + 1, Len(p)) = << >>
  <2> DEFINE q == SubSeq(p, Len(p) + 1, Len(p))
  <2>1. q \in Seq(Lines) /\ Len(q) = 0
    BY <1>1, SubSeqProperties
  <2> HIDE DEF q
  <2>2. q = << >>
    BY <2>1
  <2> QED
    BY <2>2 DEF q
<1> QED
  BY <1>2, <1>3

\* A flush.
LEMMA FlushedHolds ==
    ASSUME NEW d \in Disk, NEW p \in Seq(Lines)
    PROVE  LET f == Flushed(d, p) IN
           /\ Held(f) /\ f.mem = d.mem /\ f.durable = d.durable /\ f.faults = d.faults
           /\ p = << >> \/ p[Len(p)] \notin Begun =>
                f.file = d.file \o p /\ f.pending = << >> /\ f.tail = "none"
<1>1. Len(p) \in Nat /\ "none" \in Parts
  BY DEF Parts
<1>2. CASE p # << >> /\ p[Len(p)] \in Begun
  <2>1. Len(p) - 1 \in 0..Len(p) /\ Len(p) - 1 < Len(p)
    BY <1>2
  <2>0. PICK t \in Parts : t = p[Len(p)].kind
    BY <1>2, OddLines
  <2> DEFINE w == Written(d, p, Len(p) - 1, t)
  <2>2. Flushed(d, p) = w
    BY <1>2, <2>0 DEF Flushed
  <2>3. /\ w \in Disk /\ w.mem = d.mem /\ w.durable = d.durable /\ w.faults = d.faults
        /\ w.pending # << >>
    BY <1>1, <2>1, WrittenHolds, ZenonT(30)
  <2> HIDE DEF w
  <2> QED
    BY <1>2, <2>2, <2>3 DEF Held
<1>3. CASE ~(p # << >> /\ p[Len(p)] \in Begun)
  <2>1. Len(p) \in 0..Len(p)
    BY <1>1
  <2> DEFINE w == Written(d, p, Len(p), "none")
  <2>2. Flushed(d, p) = w
    BY <1>3 DEF Flushed
  <2>3. /\ w \in Disk /\ w.mem = d.mem /\ w.durable = d.durable /\ w.faults = d.faults
        /\ w.tail = "none" /\ w.file = d.file \o SubSeq(p, 1, Len(p))
        /\ w.pending = SubSeq(p, Len(p) + 1, Len(p))
    BY <1>1, <2>1, WrittenHolds, ZenonT(30)
  <2> HIDE DEF w
  <2>4. w.file = d.file \o p /\ w.pending = << >>
    BY <2>3, Pieces
  <2> QED
    BY <2>2, <2>3, <2>4 DEF Held
<1> QED
  BY <1>2, <1>3

\* A write error.
LEMMA StuckHolds ==
    ASSUME NEW d \in Disk, d.faults > 0, NEW p \in Seq(Lines), NEW s \in Stuck(d, p)
    PROVE  /\ Held(s) /\ s.mem = d.mem /\ s.durable = d.durable /\ s.faults = d.faults - 1
           /\ p # << >>
<1>1. PICK x \in (0..(Len(p) - 1)) \X Parts :
             s = Written([d EXCEPT !.faults = @ - 1], p, x[1], x[2])
  BY DEF Stuck
<1>2. x[1] \in 0..(Len(p) - 1) /\ x[2] \in Parts
  BY <1>1
<1>3. PICK n, t : n = x[1] /\ t = x[2]
  OBVIOUS
<1>4. Len(p) \in Nat /\ n \in 0..(Len(p) - 1) /\ t \in Parts
  BY <1>2, <1>3
<1>5. n \in 0..Len(p) /\ n < Len(p) /\ p # << >>
  BY <1>4
<1> DEFINE c == [d EXCEPT !.faults = @ - 1]
           w == Written(c, p, n, t)
<1>6. c \in Disk /\ c.mem = d.mem /\ c.durable = d.durable /\ c.faults = d.faults - 1
  BY SMTT(30) DEF Disk
<1>7. s = w
  BY <1>1, <1>3
<1> HIDE DEF c
<1>8. /\ w \in Disk /\ w.mem = c.mem /\ w.durable = c.durable /\ w.faults = c.faults
      /\ w.pending # << >>
  BY <1>4, <1>5, <1>6, WrittenHolds, ZenonT(30)
<1> HIDE DEF w
<1> QED
  BY <1>5, <1>6, <1>7, <1>8 DEF Held

\* What an append leaves behind: the line's effect, or nothing but a fault less.
Appended(d, line, r) ==
    /\ r.ok \in BOOLEAN /\ Good(r.d)
    /\ r.ok => /\ r.d.mem = Commit(d.mem, line) /\ r.d.faults = d.faults
               /\ r.d.pending = << >>
    /\ ~r.ok => r.d.mem = d.mem /\ r.d.faults = d.faults - 1

\* What a sync leaves behind: the state is the one before.
Synced(d, r) ==
    /\ r.ok \in BOOLEAN /\ Good(r.d) /\ r.d.mem = d.mem
    /\ d.pending = << >> => r.d.pending = << >>
    /\ r.ok => r.d.durable = Len(r.d.file) /\ r.d.faults = d.faults
    /\ ~r.ok => r.d.faults = d.faults - 1

\* JsonlSessionStore::persist.
LEMMA PersistHolds ==
    ASSUME NEW d, Good(d), NEW line \in Mutations, Validate(d.mem, line), NEW class,
           NEW r \in Persist(d, line, class)
    PROVE  Appended(d, line, r)
<1>1. d \in Disk /\ d.pending \in Seq(Lines) /\ Sound(d.mem) /\ d.faults \in Nat
  BY DEF Good, Held, Disk
<1>2. line \in Lines /\ line \notin Begun /\ Torn \in Lines /\ Split \in Lines
  BY OddLines
<1> DEFINE p == Add(d.pending, line)
           q == Add(d.pending, Torn)
           u == Add(d.pending, Split)
           c == [d EXCEPT !.faults = @ - 1]
           f == Flushed(d, p)
           g == [f EXCEPT !.mem = Commit(@, line)]
<1>3. p \in Seq(Lines) /\ p[Len(p)] \notin Begun /\ q \in Seq(Lines) /\ u \in Seq(Lines)
  BY <1>1, <1>2, AddHolds
<1>4. \/ r = [ok |-> TRUE, d |-> g]
      \/ /\ d.faults > 0
         /\ \E s \in Stuck(d, p) \cup Stuck(d, q) \cup {Flushed(c, u)} : r = [ok |-> FALSE, d |-> s]
  BY DEF Persist, Failed
<1> HIDE DEF p, q, u
<1>5. CASE r = [ok |-> TRUE, d |-> g]
  <2>1. /\ Held(f) /\ f.mem = d.mem /\ f.faults = d.faults
        /\ f.pending = << >> /\ f.tail = "none"
    BY <1>1, <1>3, FlushedHolds
  <2> HIDE DEF f
  <2>2. Sound(Commit(d.mem, line))
    BY <1>1, CommitSound
  <2>3. Commit(d.mem, line) \in State
    BY <2>2 DEF Sound
  <2>4. /\ g \in Disk /\ g.mem = Commit(d.mem, line) /\ g.faults = d.faults
        /\ g.pending = << >> /\ g.tail = "none"
    BY <2>1, <2>3 DEF Held, Disk
  <2> HIDE DEF g
  <2>5. r.ok = TRUE /\ r.d = g
    BY <1>5
  <2> QED
    BY <2>2, <2>4, <2>5 DEF Appended, Good, Held
<1>6. CASE /\ d.faults > 0
           /\ \E s \in Stuck(d, p) \cup Stuck(d, q) \cup {Flushed(c, u)} : r = [ok |-> FALSE, d |-> s]
  <2>1. PICK s \in Stuck(d, p) \cup Stuck(d, q) \cup {Flushed(c, u)} : r = [ok |-> FALSE, d |-> s]
    BY <1>6
  <2>2. Held(s) /\ s.mem = d.mem /\ s.faults = d.faults - 1
    <3>1. CASE s \in Stuck(d, p) \cup Stuck(d, q)
      BY <1>1, <1>3, <1>6, <3>1, StuckHolds
    <3>2. CASE s = Flushed(c, u)
      <4>1. c \in Disk /\ c.mem = d.mem /\ c.faults = d.faults - 1
        BY <1>1, <1>6, SMTT(30) DEF Disk
      <4> HIDE DEF c
      <4> QED
        BY <1>3, <3>2, <4>1, FlushedHolds
    <3> QED
      BY <2>1, <3>1, <3>2
  <2>3. r.ok = FALSE /\ r.d = s
    BY <2>1
  <2> QED
    BY <1>1, <2>2, <2>3 DEF Appended, Good
<1> QED
  BY <1>4, <1>5, <1>6

\* JsonlSessionStore::sync.
LEMMA SyncHolds ==
    ASSUME NEW d, Good(d), NEW r \in Sync(d)
    PROVE  Synced(d, r)
<1>1. d \in Disk /\ d.pending \in Seq(Lines) /\ Sound(d.mem) /\ d.faults \in Nat
  BY DEF Good, Held, Disk
<1> DEFINE f == Flushed(d, d.pending)
           g == [f EXCEPT !.durable = Len(f.file)]
           h == [f EXCEPT !.faults = @ - 1]
<1>2. \/ r = [ok |-> TRUE, d |-> g]
      \/ d.faults > 0 /\ r = [ok |-> FALSE, d |-> h]
      \/ d.faults > 0 /\ \E s \in Stuck(d, d.pending) : r = [ok |-> FALSE, d |-> s]
  BY DEF Sync
<1>3. /\ Held(f) /\ f.mem = d.mem /\ f.faults = d.faults
      /\ d.pending = << >> => f.pending = << >>
  BY <1>1, FlushedHolds
<1> HIDE DEF f
<1>4. CASE r = [ok |-> TRUE, d |-> g]
  <2>1. Len(f.file) \in Nat
    BY <1>3 DEF Held, Disk
  <2>2. /\ g \in Disk /\ g.mem = d.mem /\ g.faults = d.faults /\ g.durable = Len(g.file)
        /\ g.pending = f.pending /\ g.tail = f.tail
    BY <1>3, <2>1 DEF Held, Disk
  <2> HIDE DEF g
  <2>3. r.ok = TRUE /\ r.d = g
    BY <1>4
  <2>4. Good(g)
    BY <1>1, <1>3, <2>2 DEF Good, Held
  <2> QED
    BY <1>3, <2>2, <2>3, <2>4 DEF Synced
<1>5. CASE d.faults > 0 /\ r = [ok |-> FALSE, d |-> h]
  <2>1. /\ h \in Disk /\ h.mem = d.mem /\ h.faults = d.faults - 1
        /\ h.pending = f.pending /\ h.tail = f.tail
    <3>1. f \in Disk /\ f.faults = d.faults /\ f.faults - 1 \in Nat
      BY <1>1, <1>3, <1>5 DEF Held
    <3>2. h.faults = f.faults - 1 /\ h \in Disk
      BY <3>1 DEF Disk
    <3>3. h.mem = f.mem /\ h.pending = f.pending /\ h.tail = f.tail
      BY <3>1 DEF Disk
    <3> QED
      BY <1>3, <3>1, <3>2, <3>3
  <2> HIDE DEF h
  <2>2. r.ok = FALSE /\ r.d = h
    BY <1>5
  <2>3. Good(h)
    BY <1>1, <1>3, <2>1 DEF Good, Held
  <2> QED
    BY <1>3, <2>1, <2>2, <2>3 DEF Synced
<1>6. CASE d.faults > 0 /\ \E s \in Stuck(d, d.pending) : r = [ok |-> FALSE, d |-> s]
  <2>1. PICK s \in Stuck(d, d.pending) : r = [ok |-> FALSE, d |-> s]
    BY <1>6
  <2>2. Held(s) /\ s.mem = d.mem /\ s.faults = d.faults - 1 /\ d.pending # << >>
    BY <1>1, <1>6, <2>1, StuckHolds
  <2>3. r.ok = FALSE /\ r.d = s
    BY <2>1
  <2> QED
    BY <1>1, <2>2, <2>3 DEF Synced, Good
<1> QED
  BY <1>2, <1>4, <1>5, <1>6

\* Both: the line is in the state unless the append failed.
LEMMA PersistAndSyncHolds ==
    ASSUME NEW d, Good(d), NEW line \in Mutations, Validate(d.mem, line), NEW class,
           NEW r \in PersistAndSync(d, line, class)
    PROVE  /\ r.ok \in BOOLEAN /\ Good(r.d)
           /\ r.d.mem = Commit(d.mem, line) \/ (r.d.mem = d.mem /\ ~r.ok)
<1>1. PICK q \in Persist(d, line, class) : r \in IF q.ok THEN Sync(q.d) ELSE {q}
  BY DEF PersistAndSync
<1>2. Appended(d, line, q)
  BY PersistHolds
<1>3. CASE q.ok
  <2>1. r \in Sync(q.d) /\ Good(q.d) /\ q.d.mem = Commit(d.mem, line)
    BY <1>1, <1>2, <1>3 DEF Appended
  <2>2. Synced(q.d, r)
    BY <2>1, SyncHolds
  <2>3. r.ok \in BOOLEAN /\ Good(r.d) /\ r.d.mem = q.d.mem
    BY <2>2, Zenon DEF Synced
  <2>4. r.d.mem = Commit(d.mem, line)
    BY <2>1, <2>3
  <2> QED
    BY <2>3, <2>4, Zenon
<1>4. CASE ~q.ok
  <2>1. r = q
    BY <1>1, <1>4
  <2> QED
    BY <1>2, <1>4, <2>1 DEF Appended
<1> QED
  BY <1>3, <1>4

(***************************************************************************)
(* The lines the transcript writes.                                        *)
(***************************************************************************)
\* A new entry is valid below the leaf,
LEMMA EntryValid ==
    ASSUME NEW d, Good(d), NEW e \in Entries, e \notin Stored(d.mem), NEW t \in Types,
           NEW kept \in Seq(Entries)
    PROVE  LET line == NewEntry(d, e, t, kept) IN
           /\ line \in EntryLines /\ line \in Mutations /\ Validate(d.mem, line)
           /\ line.id = e /\ line.type = t /\ line.kept = kept /\ line.kind = "entry"
<1> DEFINE line == NewEntry(d, e, t, kept)
<1>1. d.mem.seq \in Nat /\ d.mem.leaf \in Entries \cup {None}
  BY DEF Good, Held, Disk, State
<1>2. /\ line.kind = "entry" /\ line.seq = d.mem.seq + 1 /\ line.id = e /\ line.type = t
      /\ line.parent = d.mem.leaf /\ line.kept = kept /\ line \in EntryLines
  BY <1>1 DEF NewEntry, NextSeq, EntryLine, EntryLines
<1> HIDE DEF line
<1>3. line \in Mutations /\ Validate(d.mem, line)
  BY <1>2 DEF Mutations, Validate
<1> QED
  BY <1>2, <1>3 DEF line

\* with nothing kept in particular;
LEMMA PlainEntryValid ==
    ASSUME NEW d, Good(d), NEW e \in Entries, e \notin Stored(d.mem), NEW t \in Types
    PROVE  LET line == NewEntry(d, e, t, << >>) IN
           /\ line \in EntryLines /\ line \in Mutations /\ Validate(d.mem, line)
           /\ line.id = e /\ line.type = t
<1>1. PICK kept \in Seq(Entries) : kept = << >>
  <2>1. << >> \in Seq(Entries)
    OBVIOUS
  <2> QED
    BY <2>1
<1>2. LET line == NewEntry(d, e, t, kept) IN
      /\ line \in EntryLines /\ line \in Mutations /\ Validate(d.mem, line)
      /\ line.id = e /\ line.type = t
  BY EntryValid
<1> QED
  BY <1>1, <1>2

\* so is a move of the lane to a stored entry or to the root,
LEMMA LaneValid ==
    ASSUME NEW d, Good(d), NEW e \in Stored(d.mem) \cup {None}
    PROVE  LET line == LaneLine(NextSeq(d), e) IN
           /\ line \in OtherLines /\ line \in Mutations /\ Validate(d.mem, line)
           /\ line.kind = "lane" /\ line.leaf = e
<1> DEFINE line == LaneLine(NextSeq(d), e)
<1>1. d.mem.seq \in Nat /\ e \in Entries \cup {None}
  <2>1. d.mem \in State
    BY DEF Good, Held, Disk
  <2>2. PICK X \in SUBSET Entries : d.mem.entries \in [X -> Node]
    BY <2>1 DEF State, Nodes
  <2> QED
    BY <2>1, <2>2 DEF State, Stored
<1>2. /\ line.kind = "lane" /\ line.seq = d.mem.seq + 1 /\ line.leaf = e /\ line \in OtherLines
  BY <1>1 DEF NextSeq, LaneLine, OtherLines
<1> HIDE DEF line
<1>3. line \in Mutations /\ Validate(d.mem, line)
  BY <1>2 DEF Mutations, Validate
<1> QED
  BY <1>2, <1>3 DEF line

\* a label of a stored entry,
LEMMA LabelValid ==
    ASSUME NEW d, Good(d), NEW e \in Entries, e \in Stored(d.mem), NEW b \in BOOLEAN
    PROVE  LET line == LabelLine(NextSeq(d), e, b) IN
           /\ line \in OtherLines /\ line \in Mutations /\ Validate(d.mem, line)
           /\ line.kind = "label" /\ line.id = e /\ line.set = b
<1> DEFINE line == LabelLine(NextSeq(d), e, b)
<1>1. d.mem.seq \in Nat
  BY DEF Good, Held, Disk, State
<1>2. /\ line.kind = "label" /\ line.seq = d.mem.seq + 1 /\ line.id = e /\ line.set = b
      /\ line \in OtherLines
  BY <1>1 DEF NextSeq, LabelLine, OtherLines
<1> HIDE DEF line
<1>3. line \in Mutations /\ Validate(d.mem, line)
  BY <1>2 DEF Mutations, Validate
<1> QED
  BY <1>2, <1>3 DEF line

\* and a record or a name.
LEMMA FactValid ==
    ASSUME NEW d, Good(d), NEW line,
           \/ line = RecordLine(NextSeq(d))
           \/ \E n \in Names : line = NameLine(NextSeq(d), n)
    PROVE  /\ line \in OtherLines /\ line \in Mutations /\ Validate(d.mem, line)
           /\ line.kind \in {"record", "name"}
<1>1. d.mem.seq \in Nat
  BY DEF Good, Held, Disk, State
<1>2. /\ line.kind \in {"record", "name"} /\ line.seq = d.mem.seq + 1 /\ line \in OtherLines
  BY <1>1 DEF NextSeq, RecordLine, NameLine, OtherLines
<1>3. line \in Mutations /\ Validate(d.mem, line)
  BY <1>2 DEF Mutations, Validate
<1> QED
  BY <1>2, <1>3

\* Lines that are no entry and move no lane leave the context alone.
LEMMA HistoryOfOther ==
    ASSUME NEW st, Sound(st), NEW line \in OtherLines, line.kind # "lane"
    PROVE  HistoryOf(Commit(st, line)) = HistoryOf(st)
<1> DEFINE c == Commit(st, line)
<1>1. c.entries = st.entries /\ c.leaf = st.leaf
  BY CommitOther DEF Sound
<1> HIDE DEF c
<1>2. HistoryOf(c) = HistoryOf(st)
  BY <1>1, HistorySame
<1> QED
  BY <1>2 DEF c

(***************************************************************************)
(* The invariant.                                                          *)
(***************************************************************************)

\* The Store is sound, the context is what a rebuild gives, and a Session that
\* nobody holds has no navigation to answer for.
ContextInv ==
    /\ Good(store)
    /\ HistoryMatchesStore
    /\ ~live => reply = "none"

\* A store with the same context.
SameContext(d, s) == Good(s) /\ HistoryOf(s.mem) = HistoryOf(d.mem)

\* A step that writes no message.
LEMMA ContextStays ==
    ASSUME ContextInv, live, SameContext(store, store'), history' = history, live' = live
    PROVE  ContextInv'
BY DEF ContextInv, SameContext, HistoryMatchesStore

\* Facts and labels, with or without a sync.
LEMMA FactsKeepContext ==
    ASSUME NEW d, Good(d), NEW line \in OtherLines, line.kind # "lane", Validate(d.mem, line),
           NEW class
    PROVE  /\ \A r \in Persist(d, line, class) : SameContext(d, r.d)
           /\ \A r \in PersistAndSync(d, line, class) : SameContext(d, r.d)
<1>1. line \in Mutations /\ Sound(d.mem)
  BY DEF Mutations, Good
<1>2. HistoryOf(Commit(d.mem, line)) = HistoryOf(d.mem)
  BY <1>1, HistoryOfOther
<1>3. ASSUME NEW r \in Persist(d, line, class) PROVE SameContext(d, r.d)
  <2>1. Appended(d, line, r)
    BY <1>1, PersistHolds
  <2>2. Good(r.d) /\ (r.d.mem = Commit(d.mem, line) \/ r.d.mem = d.mem)
    BY <2>1 DEF Appended
  <2> QED
    BY <1>2, <2>2 DEF SameContext
<1>4. ASSUME NEW r \in PersistAndSync(d, line, class) PROVE SameContext(d, r.d)
  <2>1. Good(r.d) /\ (r.d.mem = Commit(d.mem, line) \/ r.d.mem = d.mem)
    BY <1>1, PersistAndSyncHolds
  <2> QED
    BY <1>2, <2>1 DEF SameContext
<1> QED
  BY <1>3, <1>4

\* Entries that are no messages.
LEMMA CustomKeepsContext ==
    ASSUME NEW d, Good(d), NEW e \in Entries, e \notin Stored(d.mem), NEW class
    PROVE  LET line == NewEntry(d, e, "custom", << >>) IN
           /\ \A r \in Persist(d, line, class) : SameContext(d, r.d)
           /\ \A r \in PersistAndSync(d, line, class) : SameContext(d, r.d)
<1> DEFINE line == NewEntry(d, e, "custom", << >>)
<1>1. /\ line \in EntryLines /\ line \in Mutations /\ Validate(d.mem, line)
      /\ line.type = "custom"
  <2>1. "custom" \in Types
    BY DEF Types
  <2> QED
    BY <2>1, PlainEntryValid
<1>0. Sound(d.mem)
  BY DEF Good
<1> HIDE DEF line
<1>2. HistoryOf(Commit(d.mem, line)) = HistoryOf(d.mem)
  BY <1>0, <1>1, HistoryOfEntry
<1>3. ASSUME NEW r \in Persist(d, line, class) PROVE SameContext(d, r.d)
  <2>1. Appended(d, line, r)
    BY <1>1, PersistHolds
  <2>2. Good(r.d) /\ (r.d.mem = Commit(d.mem, line) \/ r.d.mem = d.mem)
    BY <2>1 DEF Appended
  <2> QED
    BY <1>2, <2>2 DEF SameContext
<1>4. ASSUME NEW r \in PersistAndSync(d, line, class) PROVE SameContext(d, r.d)
  <2>1. Good(r.d) /\ (r.d.mem = Commit(d.mem, line) \/ r.d.mem = d.mem)
    BY <1>1, PersistAndSyncHolds
  <2> QED
    BY <1>2, <2>1 DEF SameContext
<1> QED
  BY <1>3, <1>4 DEF line

\* append_record.
LEMMA AppendRecordKeeps ==
    ASSUME ContextInv, AppendRecord PROVE ContextInv'
<1> DEFINE line == RecordLine(NextSeq(store))
<1>1. live /\ live' = live /\ history' = history /\ Good(store)
  BY DEF AppendRecord, Writable, ContextInv
<1>2. PICK r \in Persist(store, line, "plain") : store' = r.d
  BY DEF AppendRecord
<1>3. line \in OtherLines /\ Validate(store.mem, line) /\ line.kind # "lane"
  BY <1>1, FactValid
<1> HIDE DEF line
<1>4. SameContext(store, r.d)
  BY <1>1, <1>3, FactsKeepContext
<1> QED
  BY <1>1, <1>2, <1>4, ContextStays

\* set_label.
LEMMA SetLabelKeeps ==
    ASSUME ContextInv, NEW e \in Entries, NEW b \in BOOLEAN, SetLabel(e, b) PROVE ContextInv'
<1> DEFINE line == LabelLine(NextSeq(store), e, b)
<1>1. live /\ live' = live /\ history' = history /\ Good(store) /\ e \in Stored(store.mem)
  BY DEF SetLabel, Writable, ContextInv, Fresh
<1>2. PICK r \in Persist(store, line, "plain") : store' = r.d
  BY DEF SetLabel
<1>3. line \in OtherLines /\ Validate(store.mem, line) /\ line.kind # "lane"
  BY <1>1, LabelValid
<1> HIDE DEF line
<1>4. SameContext(store, r.d)
  BY <1>1, <1>3, FactsKeepContext
<1> QED
  BY <1>1, <1>2, <1>4, ContextStays

\* SessionRename::apply.
LEMMA RenameKeeps ==
    ASSUME ContextInv, NEW n \in Names, Rename(n) PROVE ContextInv'
<1> DEFINE line == NameLine(NextSeq(store), n)
<1>1. live /\ live' = live /\ history' = history /\ Good(store)
  BY DEF Rename, Writable, ContextInv
<1>2. PICK r \in PersistAndSync(store, line, "plain") : store' = r.d
  BY DEF Rename
<1>3. line \in OtherLines /\ Validate(store.mem, line) /\ line.kind # "lane"
  BY <1>1, FactValid
<1> HIDE DEF line
<1>4. SameContext(store, r.d)
  BY <1>1, <1>2, <1>3, FactsKeepContext
<1> QED
  BY <1>1, <1>2, <1>4, ContextStays

\* append_store_only_entry.
LEMMA AppendStoreOnlyEntryKeeps ==
    ASSUME ContextInv, NEW e \in Entries, AppendStoreOnlyEntry(e) PROVE ContextInv'
<1>1. live /\ live' = live /\ history' = history /\ Good(store) /\ e \notin Stored(store.mem)
  BY DEF AppendStoreOnlyEntry, Writable, ContextInv, Fresh
<1>2. PICK r \in Persist(store, NewEntry(store, e, "custom", << >>), "plain") : store' = r.d
  BY DEF AppendStoreOnlyEntry
<1>3. SameContext(store, r.d)
  BY <1>1, CustomKeepsContext
<1> QED
  BY <1>1, <1>2, <1>3, ContextStays

\* commit_setting.
LEMMA CommitSettingKeeps ==
    ASSUME ContextInv, NEW e \in Entries, CommitSetting(e) PROVE ContextInv'
<1>1. live /\ live' = live /\ history' = history /\ Good(store) /\ e \notin Stored(store.mem)
  BY DEF CommitSetting, Writable, ContextInv, Fresh
<1>2. PICK r \in PersistAndSync(store, NewEntry(store, e, "custom", << >>), "commit") :
            store' = r.d
  BY DEF CommitSetting
<1>3. SameContext(store, r.d)
  BY <1>1, CustomKeepsContext
<1> QED
  BY <1>1, <1>2, <1>3, ContextStays

\* sync.
LEMMA SyncTranscriptKeeps ==
    ASSUME ContextInv, SyncTranscript PROVE ContextInv'
<1>1. live /\ live' = live /\ history' = history /\ Good(store)
  BY DEF SyncTranscript, ContextInv
<1>2. PICK r \in Sync(store) : store' = r.d
  BY DEF SyncTranscript
<1>3. Synced(store, r)
  BY <1>1, SyncHolds
<1>4. SameContext(store, r.d)
  BY <1>3 DEF Synced, SameContext
<1> QED
  BY <1>1, <1>2, <1>4, ContextStays

\* commit_records: the second record is written on what the first one left.
LEMMA CommitRecordsKeeps ==
    ASSUME ContextInv, NEW n \in 1..2, CommitRecords(n) PROVE ContextInv'
<1> DEFINE line == RecordLine(NextSeq(store))
<1>1. live /\ live' = live /\ history' = history /\ Good(store)
  BY DEF CommitRecords, Writable, ContextInv
<1>2. PICK r \in Persist(store, line, "commit") :
         \E q \in IF ~r.ok THEN {r}
                  ELSE IF n = 1 THEN Sync(r.d)
                  ELSE PersistAndSync(r.d, RecordLine(NextSeq(r.d)), "commit") : store' = q.d
  BY DEF CommitRecords
<1>3. PICK q \in IF ~r.ok THEN {r}
                  ELSE IF n = 1 THEN Sync(r.d)
                  ELSE PersistAndSync(r.d, RecordLine(NextSeq(r.d)), "commit") : store' = q.d
  BY <1>2
<1>4. line \in OtherLines /\ Validate(store.mem, line) /\ line.kind # "lane"
  BY <1>1, FactValid
<1> HIDE DEF line
<1>5. SameContext(store, r.d)
  BY <1>1, <1>4, FactsKeepContext
<1>6. CASE ~r.ok
  BY <1>1, <1>3, <1>5, <1>6, ContextStays
<1>7. CASE r.ok /\ n = 1
  <2>1. Synced(r.d, q)
    BY <1>3, <1>5, <1>7, SyncHolds DEF SameContext
  <2>2. SameContext(store, q.d)
    BY <1>5, <2>1 DEF Synced, SameContext
  <2> QED
    BY <1>1, <1>3, <2>2, ContextStays
<1>8. CASE r.ok /\ n # 1
  <2> DEFINE second == RecordLine(NextSeq(r.d))
  <2>1. q \in PersistAndSync(r.d, second, "commit") /\ Good(r.d)
    BY <1>3, <1>5, <1>8 DEF SameContext
  <2>2. second \in OtherLines /\ Validate(r.d.mem, second) /\ second.kind # "lane"
    BY <2>1, FactValid
  <2> HIDE DEF second
  <2>3. SameContext(r.d, q.d)
    BY <2>1, <2>2, FactsKeepContext
  <2>4. SameContext(store, q.d)
    BY <1>5, <2>3 DEF SameContext
  <2> QED
    BY <1>1, <1>3, <2>4, ContextStays
<1> QED
  BY <1>6, <1>7, <1>8

\* A message appended: the context grows by it when the append worked.
LEMMA MessageAppends ==
    ASSUME NEW d, Good(d), NEW e \in Entries, e \notin Stored(d.mem),
           NEW t \in {"user", "reply"}, NEW class,
           NEW r \in Persist(d, NewEntry(d, e, t, << >>), class)
    PROVE  /\ Good(r.d)
           /\ HistoryOf(r.d.mem) = IF r.ok THEN Append(HistoryOf(d.mem), e)
                                   ELSE HistoryOf(d.mem)
<1> DEFINE line == NewEntry(d, e, t, << >>)
<1>1. t \in Types /\ Sound(d.mem)
  BY DEF Types, Good
<1>2. /\ line \in EntryLines /\ line \in Mutations /\ Validate(d.mem, line)
      /\ line.id = e /\ line.type = t
  BY <1>1, PlainEntryValid
<1> HIDE DEF line
<1>3. HistoryOf(Commit(d.mem, line)) = Append(HistoryOf(d.mem), e)
  BY <1>1, <1>2, HistoryOfEntry
<1>4. Appended(d, line, r)
  BY <1>2, PersistHolds DEF line
<1>5. CASE r.ok
  <2>1. Good(r.d) /\ r.d.mem = Commit(d.mem, line)
    BY <1>4, <1>5 DEF Appended
  <2> QED
    BY <1>3, <1>5, <2>1
<1>6. CASE ~r.ok
  <2>1. Good(r.d) /\ r.d.mem = d.mem
    BY <1>4, <1>6 DEF Appended
  <2> QED
    BY <1>6, <2>1
<1> QED
  BY <1>5, <1>6

\* append_context_message.
LEMMA AppendContextMessageKeeps ==
    ASSUME ContextInv, NEW e \in Entries, NEW t \in {"user", "reply"},
           AppendContextMessage(e, t)
    PROVE  ContextInv'
<1>1. live /\ live' = live /\ Good(store) /\ e \notin Stored(store.mem)
  BY DEF AppendContextMessage, Writable, ContextInv, Fresh
<1>2. PICK r \in Persist(store, NewEntry(store, e, t, << >>), "plain") :
            store' = r.d /\ history' = IF r.ok THEN Append(history, e) ELSE history
  BY DEF AppendContextMessage
<1>3. /\ Good(r.d)
      /\ HistoryOf(r.d.mem) = IF r.ok THEN Append(HistoryOf(store.mem), e)
                              ELSE HistoryOf(store.mem)
  BY <1>1, MessageAppends
<1>4. history = HistoryOf(store.mem)
  BY <1>1 DEF ContextInv, HistoryMatchesStore
<1> QED
  BY <1>1, <1>2, <1>3, <1>4 DEF ContextInv, HistoryMatchesStore

\* commit_consumed: the context holds the entry even when the record failed.
LEMMA CommitConsumedKeeps ==
    ASSUME ContextInv, NEW e \in Entries, CommitConsumed(e)
    PROVE  ContextInv'
<1>1. live /\ live' = live /\ Good(store) /\ e \notin Stored(store.mem)
  BY DEF CommitConsumed, Writable, ContextInv, Fresh
<1>2. PICK r \in Persist(store, NewEntry(store, e, "user", << >>), "commit") :
        /\ history' = IF r.ok THEN Append(history, e) ELSE history
        /\ \E q \in IF r.ok THEN Persist(r.d, RecordLine(NextSeq(r.d)), "commit") ELSE {r} :
              store' = q.d
  BY DEF CommitConsumed
<1>3. PICK q \in IF r.ok THEN Persist(r.d, RecordLine(NextSeq(r.d)), "commit") ELSE {r} :
              store' = q.d
  BY <1>2
<1>4. /\ Good(r.d)
      /\ HistoryOf(r.d.mem) = IF r.ok THEN Append(HistoryOf(store.mem), e)
                              ELSE HistoryOf(store.mem)
  <2>1. "user" \in {"user", "reply"}
    OBVIOUS
  <2> QED
    BY <1>1, <2>1, MessageAppends
<1>5. history = HistoryOf(store.mem)
  BY <1>1 DEF ContextInv, HistoryMatchesStore
<1>6. history' = HistoryOf(r.d.mem)
  BY <1>2, <1>4, <1>5
<1>7. SameContext(r.d, q.d)
  <2>1. CASE ~r.ok
    BY <1>3, <1>4, <2>1 DEF SameContext
  <2>2. CASE r.ok
    <3> DEFINE line == RecordLine(NextSeq(r.d))
    <3>1. line \in OtherLines /\ Validate(r.d.mem, line) /\ line.kind # "lane"
      BY <1>4, FactValid
    <3>2. q \in Persist(r.d, line, "commit")
      BY <1>3, <2>2
    <3> HIDE DEF line
    <3> QED
      BY <1>4, <3>1, <3>2, FactsKeepContext
  <2> QED
    BY <2>1, <2>2
<1>8. Good(store') /\ history' = HistoryOf(store'.mem)
  BY <1>3, <1>6, <1>7 DEF SameContext
<1> QED
  BY <1>1, <1>8 DEF ContextInv, HistoryMatchesStore

\* commit_compaction: what is kept is cut from a context of entries.
LEMMA CommitCompactionKeeps ==
    ASSUME ContextInv, NEW e \in Entries, CommitCompaction(e)
    PROVE  ContextInv'
<1>1. live /\ live' = live /\ Good(store) /\ e \notin Stored(store.mem) /\ Sound(store.mem)
  BY DEF CommitCompaction, Writable, ContextInv, Fresh, Good
<1>2. history = HistoryOf(store.mem) /\ history \in Seq(Entries)
  BY <1>1, HistoryTyped DEF ContextInv, HistoryMatchesStore
<1>3. PICK from \in 1..(Len(history) + 1), to \in 0..Len(history) :
         \E r \in Persist(store, NewEntry(store, e, "compaction", SubSeq(history, from, to)), "plain") :
            /\ store' = r.d
            /\ history' = IF r.ok THEN <<e>> \o SubSeq(history, from, to) ELSE history
  BY DEF CommitCompaction
<1> DEFINE kept == SubSeq(history, from, to)
           line == NewEntry(store, e, "compaction", kept)
<1>4. PICK r \in Persist(store, line, "plain") :
            store' = r.d /\ history' = IF r.ok THEN <<e>> \o kept ELSE history
  BY <1>3
<1>5. kept \in Seq(Entries)
  <2>1. Len(history) \in Nat
    BY <1>2
  <2>2. from \in Nat \ {0} /\ to \in Nat /\ to <= Len(history)
    BY <2>1
  <2> QED
    BY <1>2, <2>2, Cut
<1> HIDE DEF kept
<1>6. /\ line \in EntryLines /\ line \in Mutations /\ Validate(store.mem, line)
      /\ line.id = e /\ line.type = "compaction" /\ line.kept = kept
  <2>1. "compaction" \in Types
    BY DEF Types
  <2> QED
    BY <1>1, <1>5, <2>1, EntryValid
<1> HIDE DEF line
<1>7. HistoryOf(Commit(store.mem, line)) = <<e>> \o kept
  BY <1>1, <1>6, HistoryOfEntry
<1>8. Appended(store, line, r)
  BY <1>1, <1>4, <1>6, PersistHolds
<1>9. CASE r.ok
  <2>1. Good(r.d) /\ r.d.mem = Commit(store.mem, line)
    BY <1>8, <1>9 DEF Appended
  <2> QED
    BY <1>1, <1>4, <1>7, <1>9, <2>1 DEF ContextInv, HistoryMatchesStore
<1>10. CASE ~r.ok
  <2>1. Good(r.d) /\ r.d.mem = store.mem
    BY <1>8, <1>10 DEF Appended
  <2> QED
    BY <1>1, <1>2, <1>4, <1>10, <2>1 DEF ContextInv, HistoryMatchesStore
<1> QED
  BY <1>9, <1>10

(***************************************************************************)
(* Closing, crashing, opening.                                             *)
(***************************************************************************)

\* What nobody holds is sound.
LEMMA AbandonedHolds ==
    ASSUME NEW d, Held(d)
    PROVE  Good(Abandoned(d))
<1>1. d \in Disk /\ d.pending \in Seq(Lines) /\ EmptyState \in State
  BY EmptySound DEF Held, Disk, Sound
<1> DEFINE left == IF d.tail = "none" THEN << >> ELSE SubSeq(d.pending, 1, 1)
<1>2. left \in Seq(Lines) /\ (d.tail # "none" => left # << >>)
  <2>1. CASE d.tail = "none"
    BY <2>1
  <2>2. CASE d.tail # "none"
    <3>1. Len(d.pending) \in Nat /\ 1 <= Len(d.pending)
      BY <1>1, <2>2 DEF Held
    <3>2. PICK k \in Nat \ {0} : k = 1
      OBVIOUS
    <3>3. SubSeq(d.pending, k, k) \in Seq(Lines) /\ Len(SubSeq(d.pending, k, k)) = k - k + 1
      BY <1>1, <3>1, <3>2, Cut
    <3>4. left = SubSeq(d.pending, k, k)
      BY <2>2, <3>2
    <3>5. left \in Seq(Lines) /\ Len(left) = 1
      BY <3>2, <3>3, <3>4
    <3> HIDE DEF left
    <3>6. left # << >>
      BY <3>5
    <3> QED
      BY <3>5, <3>6
  <2> QED
    BY <2>1, <2>2
<1> DEFINE a == Abandoned(d)
<1>3. a = [d EXCEPT !.pending = left, !.mem = EmptyState]
  BY DEF Abandoned
<1> HIDE DEF left, a
<1>4. a \in Disk /\ a.tail = d.tail /\ a.pending = left /\ a.mem = EmptyState
  BY <1>1, <1>2, <1>3 DEF Disk
<1>5. Good(a)
  BY <1>2, <1>4, EmptySound DEF Good, Held
<1> QED
  BY <1>5 DEF a

\* close_session.
LEMMA CloseKeeps ==
    ASSUME ContextInv, Close PROVE ContextInv'
<1>1. Good(store) /\ live' = FALSE /\ reply' = "none"
  BY DEF ContextInv, Close, Released
<1>2. PICK r \in Sync(store) : \E f \in {r.d, Flushed(r.d, r.d.pending)} : store' = Abandoned(f)
  BY DEF Close
<1>3. PICK f \in {r.d, Flushed(r.d, r.d.pending)} : store' = Abandoned(f)
  BY <1>2
<1>4. Held(r.d) /\ r.d \in Disk /\ r.d.pending \in Seq(Lines)
  <2>1. Synced(store, r)
    BY <1>1, SyncHolds
  <2> QED
    BY <2>1 DEF Synced, Good, Held, Disk
<1>5. Held(f)
  BY <1>3, <1>4, FlushedHolds
<1>6. Good(store')
  BY <1>3, <1>5, AbandonedHolds
<1> QED
  BY <1>1, <1>6 DEF ContextInv, HistoryMatchesStore

\* A crash.
LEMMA CrashKeeps ==
    ASSUME ContextInv, Crash PROVE ContextInv'
<1>0. PICK all : all = store.file \o store.pending
  OBVIOUS
<1>1. Good(store) /\ live' = FALSE /\ reply' = "none"
  BY DEF ContextInv, Crash, Released
<1>2. PICK n, t :
             /\ n \in store.durable..Len(store.file) /\ t \in Parts
             /\ n = Len(store.file) => t \in IF store.tail = "none" THEN {"none"}
                                             ELSE {"none", "torn", "split", store.tail}
             /\ store' = Abandoned([store EXCEPT
                            !.file = SubSeq(all, 1, n), !.tail = t,
                            !.pending = SubSeq(all, n + 1, Len(all))])
  BY <1>0 DEF Crash
<1>3. /\ store \in Disk /\ store.file \in Seq(Lines) /\ store.pending \in Seq(Lines)
      /\ store.durable \in Nat /\ (store.tail # "none" => store.pending # << >>)
  BY <1>1 DEF Good, Held, Disk
<1>4. all \in Seq(Lines)
  BY <1>0, <1>3, ConcatProperties
<1>5. PICK nf \in Nat, np \in Nat, nd \in Nat, nl \in Nat :
        /\ nf = Len(store.file) /\ np = Len(store.pending) /\ nd = store.durable
        /\ nl = Len(all)
  BY <1>3, <1>4
<1>6. /\ n \in Nat /\ n <= nf /\ n <= nl /\ n + 1 \in Nat \ {0}
      /\ (n < nf \/ np >= 1 => n < nl)
  <2>1. Len(all) = Len(store.file) + Len(store.pending)
    BY <1>0, <1>3, ConcatProperties
  <2>2. nl = nf + np
    BY <1>5, <2>1
  <2>3. n \in nd..nf
    BY <1>2, <1>5
  <2> QED
    BY <2>2, <2>3
<1> DEFINE begun == SubSeq(all, 1, n)
           rest == SubSeq(all, n + 1, Len(all))
           d == [store EXCEPT !.file = begun, !.tail = t, !.pending = rest]
<1>7. begun \in Seq(Lines)
  BY <1>4, <1>5, <1>6, Cut
<1>8. rest \in Seq(Lines) /\ Len(rest) = IF n + 1 <= nl THEN nl - (n + 1) + 1 ELSE 0
  <2>1. SubSeq(all, n + 1, nl) \in Seq(Lines)
        /\ Len(SubSeq(all, n + 1, nl)) = IF n + 1 <= nl THEN nl - (n + 1) + 1 ELSE 0
    BY <1>4, <1>5, <1>6, Cut
  <2> QED
    BY <1>5, <2>1
<1>9. t # "none" => rest # << >>
  <2> SUFFICES ASSUME t # "none" PROVE rest # << >>
    OBVIOUS
  <2>1. n < nf \/ np >= 1
    <3>1. CASE n = nf
      <4>1. store.pending # << >>
        BY <1>2, <1>3, <1>5, <3>1
      <4> QED
        BY <1>3, <1>5, <4>1
    <3> QED
      BY <1>6, <3>1
  <2>2. Len(rest) # 0
    BY <1>6, <1>8, <2>1
  <2> HIDE DEF rest
  <2> QED
    BY <2>2
<1>10. store' = Abandoned(d)
  BY <1>2
<1> HIDE DEF begun, rest
<1>11. d \in Disk /\ d.tail = t /\ d.pending = rest
  BY <1>2, <1>3, <1>7, <1>8 DEF Disk
<1>12. Held(d)
  BY <1>9, <1>11 DEF Held
<1> HIDE DEF d
<1>13. Good(store')
  BY <1>10, <1>12, AbandonedHolds
<1> QED
  BY <1>1, <1>13 DEF ContextInv, HistoryMatchesStore

\* What open reads is lines.
LEMMA ReadableLines ==
    ASSUME NEW d, Held(d)
    PROVE  Readable(d) \in Seq(Lines)
<1>1. d.file \in Seq(Lines) /\ d.pending \in Seq(Lines)
  BY DEF Held, Disk
<1> DEFINE lines == IF d.tail = "whole" THEN Append(d.file, d.pending[1]) ELSE d.file
<1>2. lines \in Seq(Lines)
  <2>1. CASE d.tail = "whole"
    <3>1. d.pending # << >>
      BY <2>1 DEF Held
    <3>2. d.pending[1] \in Lines
      BY <1>1, <3>1
    <3> QED
      BY <1>1, <2>1, <3>2
  <2>2. CASE d.tail # "whole"
    BY <1>1, <2>2
  <2> QED
    BY <2>1, <2>2
<1>3. Readable(d) = IF /\ d.tail \in {"none", "whole"}
                       /\ lines # << >> /\ lines[Len(lines)] = Garbage
                    THEN SubSeq(lines, 1, Len(lines) - 1) ELSE lines
  BY DEF Readable
<1> HIDE DEF lines
<1>4. lines # << >> => SubSeq(lines, 1, Len(lines) - 1) \in Seq(Lines)
  <2> SUFFICES ASSUME lines # << >> PROVE SubSeq(lines, 1, Len(lines) - 1) \in Seq(Lines)
    OBVIOUS
  <2>1. PICK k \in Nat : k = Len(lines) - 1 /\ k <= Len(lines)
    BY <1>2, SMTT(30)
  <2>2. SubSeq(lines, 1, k) \in Seq(Lines)
    BY <1>2, <2>1, Cut
  <2> QED
    BY <2>1, <2>2
<1> QED
  BY <1>2, <1>3, <1>4

\* JsonlStoreFactory::open.
LEMMA OpenedHolds ==
    ASSUME NEW d, Held(d)
    PROVE  Good(Opened(d))
<1> DEFINE l == Readable(d)
           o == Opened(d)
<1>1. l \in Seq(Lines) /\ Len(l) \in Nat /\ d \in Disk /\ d.durable \in Nat
  BY ReadableLines DEF Held, Disk
<1>2. Sound(Replay(l).state)
  BY <1>1, ReplaySound
<1>3. Replay(l).state \in State
  BY <1>2 DEF Sound
<1>4. o = [d EXCEPT !.file = l, !.pending = << >>, !.tail = "none",
                    !.durable = IF @ > Len(l) THEN Len(l) ELSE @,
                    !.mem = Replay(l).state]
  BY DEF Opened
<1>5. << >> \in Seq(Lines) /\ "none" \in Parts
  BY DEF Parts
<1> HIDE DEF l, o
<1>6. o \in Disk /\ o.tail = "none" /\ o.mem = Replay(l).state
  BY <1>1, <1>3, <1>4, <1>5 DEF Disk
<1>7. Good(o)
  BY <1>2, <1>6 DEF Good, Held
<1> QED
  BY <1>7 DEF o

\* resume_session.
LEMMA OpenKeeps ==
    ASSUME ContextInv, Open PROVE ContextInv'
<1>1. /\ Held(store) /\ store' = Opened(store) /\ history' = HistoryOf(Opened(store).mem)
      /\ live' = TRUE
  BY DEF ContextInv, Open, Good
<1>2. Good(Opened(store))
  BY <1>1, OpenedHolds
<1> QED
  BY <1>1, <1>2 DEF ContextInv, HistoryMatchesStore

\* JsonlStoreFactory::set_name_at.
LEMMA SetNameAtKeeps ==
    ASSUME ContextInv, SetNameAt PROVE ContextInv'
<1> DEFINE last == store.file[Len(store.file)]
           direct == store.tail = "none" /\ store.file # << >> /\ last \notin {Garbage, Mangled}
           d == IF direct THEN [store EXCEPT !.mem.seq = last.seq] ELSE Opened(store)
           line == NameLine(NextSeq(d), "title")
<1>1. Good(store) /\ Held(store) /\ store \in Disk /\ ~live' /\ reply' = reply /\ reply = "none"
  BY DEF ContextInv, SetNameAt, Good, Held
<1>2. PICK r \in PersistAndSync(d, line, "plain") :
         \E f \in IF direct THEN {r.d} ELSE {r.d, Flushed(r.d, r.d.pending)} : store' = Abandoned(f)
  BY DEF SetNameAt
<1>3. PICK f \in {r.d, Flushed(r.d, r.d.pending)} : store' = Abandoned(f)
  BY <1>2
<1>4. Good(d)
  <2>1. CASE direct
    <3> DEFINE c == [store EXCEPT !.mem.seq = last.seq]
    <3>1. last \in Lines
      BY <1>1, <2>1 DEF Disk
    <3>2. last.seq \in Nat
      BY <3>1, OddLines DEF Lines, Begun, Garbage, Mangled, Torn, Split
    <3> HIDE DEF last
    <3>3. store.mem \in State
      BY <1>1 DEF Disk
    <3>4. [store.mem EXCEPT !.seq = last.seq] \in State
      BY <3>2, <3>3 DEF State
    <3>5. /\ c.mem = [store.mem EXCEPT !.seq = last.seq]
          /\ c.tail = store.tail /\ c.pending = store.pending
      BY <1>1 DEF Disk
    <3>6. c \in Disk
      BY <1>1, <3>4, <3>5 DEF Disk
    <3>7. c.mem.entries = store.mem.entries /\ c.mem.leaf = store.mem.leaf /\ c.mem \in State
      BY <3>3, <3>4, <3>5 DEF State
    <3> HIDE DEF c
    <3>8. Good(c)
      BY <1>1, <3>5, <3>6, <3>7 DEF Good, Held, Sound, Stored
    <3> QED
      BY <2>1, <3>8 DEF c
  <2>2. CASE ~direct
    BY <1>1, <2>2, OpenedHolds
  <2> QED
    BY <2>1, <2>2
<1> HIDE DEF d, direct
<1>5. line \in Mutations /\ Validate(d.mem, line)
  <2>1. \E n \in Names : line = NameLine(NextSeq(d), n)
    BY DEF Names
  <2> HIDE DEF line
  <2> QED
    BY <1>4, <2>1, FactValid
<1> HIDE DEF line
<1>6. Good(r.d)
  BY <1>2, <1>4, <1>5, PersistAndSyncHolds
<1>7. Held(r.d) /\ r.d \in Disk /\ r.d.pending \in Seq(Lines)
  BY <1>6 DEF Good, Held, Disk
<1>8. Held(f)
  BY <1>3, <1>7, FlushedHolds
<1>9. Good(store')
  BY <1>3, <1>8, AbandonedHolds
<1> QED
  BY <1>1, <1>9 DEF ContextInv, HistoryMatchesStore

(***************************************************************************)
(* Tree navigation.                                                        *)
(***************************************************************************)

\* The action of NavigationOutcomeIsTrue.
Outcome ==
    /\ reply' = "moved" => store'.durable = Len(store'.file) /\ store'.pending = << >>
    /\ reply' = "failed" /\ store'.faults >= store.faults - 1 =>
         \/ /\ store'.mem.leaf = store.mem.leaf
            /\ store'.mem.labels = store.mem.labels
         \/ \E e \in Stored(store'.mem) \ Stored(store.mem) : store'.mem.leaf = e

\* What a failed navigation leaves when it is undone from the store d: it counts
\* one fault at least, and no fault more only if lane and labels are back.
Undone(d) ==
    /\ Good(store') /\ history' = HistoryOf(store'.mem) /\ reply' = "failed"
    /\ store'.faults <= d.faults
    /\ store'.faults < d.faults \/ (/\ store'.mem.leaf = store.mem.leaf
                                    /\ store'.mem.labels = store.mem.labels)

Restored(d) ==
    /\ Good(store') /\ history' = HistoryOf(store'.mem) /\ reply' = "failed"
    /\ store'.faults <= d.faults /\ store'.mem.labels = d.mem.labels
    /\ store'.faults < d.faults \/ store'.mem.leaf = store.mem.leaf

\* A lane line: the leaf moves, everything else stays.
LEMMA LaneMoves ==
    ASSUME NEW d, Good(d), NEW e \in Stored(d.mem) \cup {None}, NEW r \in MoveLane(d, e)
    PROVE  /\ r.ok \in BOOLEAN /\ Good(r.d)
           /\ r.d.mem.entries = d.mem.entries /\ r.d.mem.labels = d.mem.labels
           /\ r.ok => r.d.mem.leaf = e /\ r.d.faults = d.faults /\ r.d.pending = << >>
           /\ ~r.ok => r.d.mem = d.mem /\ r.d.faults = d.faults - 1
<1> DEFINE line == LaneLine(NextSeq(d), e)
           c == Commit(d.mem, line)
<1>1. /\ line \in OtherLines /\ line \in Mutations /\ Validate(d.mem, line)
      /\ line.kind = "lane" /\ line.leaf = e
  BY LaneValid
<1>2. r \in Persist(d, line, "plain")
  BY DEF MoveLane
<1>3. d.mem \in State
  BY DEF Good, Sound
<1> HIDE DEF line
<1>4. c.entries = d.mem.entries /\ c.labels = d.mem.labels /\ c.leaf = e
  BY <1>1, <1>3, CommitOther
<1>5. Appended(d, line, r)
  BY <1>1, <1>2, PersistHolds
<1> HIDE DEF c
<1>6. CASE r.ok
  <2>1. Good(r.d) /\ r.d.mem = c /\ r.d.faults = d.faults /\ r.d.pending = << >>
    BY <1>5, <1>6 DEF Appended, c
  <2> QED
    BY <1>4, <1>6, <2>1
<1>7. CASE ~r.ok
  <2>1. r.ok \in BOOLEAN
    BY <1>5 DEF Appended
  <2>2. Good(r.d) /\ r.d.mem = d.mem /\ r.d.faults = d.faults - 1
    BY <1>5, <1>7 DEF Appended
  <2> QED
    BY <1>7, <2>1, <2>2
<1> QED
  BY <1>6, <1>7

\* A label line.
LEMMA LabelSets ==
    ASSUME NEW d, Good(d), NEW e \in Entries, e \in Stored(d.mem), NEW b \in BOOLEAN,
           NEW r \in Persist(d, LabelLine(NextSeq(d), e, b), "plain")
    PROVE  /\ r.ok \in BOOLEAN /\ Good(r.d)
           /\ r.d.mem.entries = d.mem.entries /\ r.d.mem.leaf = d.mem.leaf
           /\ r.ok => /\ r.d.mem.labels = IF b THEN d.mem.labels \cup {e} ELSE d.mem.labels \ {e}
                      /\ r.d.faults = d.faults /\ r.d.pending = << >>
           /\ ~r.ok => r.d.mem = d.mem /\ r.d.faults = d.faults - 1
<1> DEFINE line == LabelLine(NextSeq(d), e, b)
           c == Commit(d.mem, line)
<1>1. /\ line \in OtherLines /\ line \in Mutations /\ Validate(d.mem, line)
      /\ line.kind = "label" /\ line.id = e /\ line.set = b
  BY LabelValid
<1>2. d.mem \in State
  BY DEF Good, Sound
<1>3. r \in Persist(d, line, "plain")
  OBVIOUS
<1> HIDE DEF line
<1>4. /\ c.entries = d.mem.entries /\ c.leaf = d.mem.leaf
      /\ c.labels = IF b THEN d.mem.labels \cup {e} ELSE d.mem.labels \ {e}
  BY <1>1, <1>2, CommitOther
<1>5. Appended(d, line, r)
  BY <1>1, <1>3, PersistHolds
<1> HIDE DEF c
<1>6. CASE r.ok
  <2>1. Good(r.d) /\ r.d.mem = c /\ r.d.faults = d.faults /\ r.d.pending = << >>
    BY <1>5, <1>6 DEF Appended, c
  <2> QED
    BY <1>4, <1>6, <2>1
<1>7. CASE ~r.ok
  <2>1. r.ok \in BOOLEAN
    BY <1>5 DEF Appended
  <2>2. Good(r.d) /\ r.d.mem = d.mem /\ r.d.faults = d.faults - 1
    BY <1>5, <1>7 DEF Appended
  <2> QED
    BY <1>7, <2>1, <2>2
<1> QED
  BY <1>6, <1>7

\* A label put on an entry.
LEMMA LabelPut ==
    ASSUME NEW d, Good(d), NEW e \in Entries, e \in Stored(d.mem),
           NEW r \in Persist(d, LabelLine(NextSeq(d), e, TRUE), "plain")
    PROVE  /\ r.ok \in BOOLEAN /\ Good(r.d)
           /\ r.d.mem.entries = d.mem.entries /\ r.d.mem.leaf = d.mem.leaf
           /\ r.ok => /\ r.d.mem.labels = d.mem.labels \cup {e}
                      /\ r.d.faults = d.faults /\ r.d.pending = << >>
           /\ ~r.ok => r.d.mem = d.mem /\ r.d.faults = d.faults - 1
<1>1. PICK b \in BOOLEAN : b = TRUE
  OBVIOUS
<1>2. r \in Persist(d, LabelLine(NextSeq(d), e, b), "plain")
  BY <1>1
<1>3. /\ r.ok \in BOOLEAN /\ Good(r.d)
      /\ r.d.mem.entries = d.mem.entries /\ r.d.mem.leaf = d.mem.leaf
      /\ r.ok => /\ r.d.mem.labels = IF b THEN d.mem.labels \cup {e} ELSE d.mem.labels \ {e}
                 /\ r.d.faults = d.faults /\ r.d.pending = << >>
      /\ ~r.ok => r.d.mem = d.mem /\ r.d.faults = d.faults - 1
  BY <1>2, LabelSets
<1> QED
  BY <1>1, <1>3

\* The faults left are a number.
LEMMA FaultsNat == ASSUME NEW d, Good(d) PROVE d.faults \in Nat
BY DEF Good, Held, Disk

\* restore_lane and what follows it.
LEMMA RestoreHolds ==
    ASSUME Good(store), history = HistoryOf(store.mem), NEW d, Good(d),
           d.mem.entries = store.mem.entries, RestoreLane(d, store.mem.leaf)
    PROVE  Restored(d)
<1>1. store.mem.leaf \in Stored(d.mem) \cup {None}
  BY DEF Good, Sound, Stored
<1>2. PICK r \in MoveLane(d, store.mem.leaf) :
         IF r.ok THEN /\ \E y \in Sync(r.d) : store' = y.d
                      /\ history' = history
         ELSE store' = r.d /\ history' = HistoryOf(r.d.mem)
  BY DEF RestoreLane
<1>3. /\ r.ok \in BOOLEAN /\ Good(r.d)
      /\ r.d.mem.entries = d.mem.entries /\ r.d.mem.labels = d.mem.labels
      /\ r.ok => r.d.mem.leaf = store.mem.leaf /\ r.d.faults = d.faults
      /\ ~r.ok => r.d.faults = d.faults - 1
  BY <1>1, <1>2, LaneMoves
<1>4. reply' = "failed" /\ d.faults \in Nat
  BY FaultsNat DEF RestoreLane
<1>5. CASE r.ok
  <2>1. PICK y \in Sync(r.d) : store' = y.d
    BY <1>2, <1>5
  <2>2. Synced(r.d, y)
    BY <1>3, SyncHolds
  <2>3. Good(y.d) /\ y.d.mem = r.d.mem
    BY <2>2 DEF Synced
  <2>4. y.d.faults <= d.faults
    BY <1>3, <1>4, <1>5, <2>2 DEF Synced
  <2>5. HistoryOf(y.d.mem) = HistoryOf(store.mem)
    BY <1>3, <1>5, <2>3, HistorySame
  <2>6. history' = HistoryOf(store'.mem)
    BY <1>2, <1>5, <2>1, <2>5
  <2> QED
    BY <1>3, <1>4, <1>5, <2>1, <2>3, <2>4, <2>6 DEF Restored
<1>6. CASE ~r.ok
  BY <1>2, <1>3, <1>4, <1>6 DEF Restored
<1> QED
  BY <1>3, <1>5, <1>6

\* The error arm before a summary: d has the entries of before, and at most the
\* label that is put back is new.
LEMMA UndoHolds ==
    ASSUME Good(store), history = HistoryOf(store.mem), NEW d, Good(d), NEW label,
           d.mem.entries = store.mem.entries,
           \/ label = None /\ d.mem.labels = store.mem.labels
           \/ /\ label \in Entries /\ label \in Stored(store.mem)
              /\ d.mem.labels \in {store.mem.labels, store.mem.labels \cup {label}},
           UndoNavigation(d, label)
    PROVE  Undone(d)
<1>1. d.faults \in Nat
  BY FaultsNat
<1>2. CASE label = None /\ d.mem.labels = store.mem.labels
  <2>1. RestoreLane(d, store.mem.leaf)
    BY <1>2 DEF UndoNavigation, Done
  <2>2. Restored(d)
    BY <2>1, RestoreHolds
  <2> QED
    BY <1>2, <2>2 DEF Restored, Undone
<1>3. CASE /\ label \in Entries /\ label \in Stored(store.mem)
           /\ d.mem.labels \in {store.mem.labels, store.mem.labels \cup {label}}
  <2>1. label # None /\ label \in Stored(d.mem)
    BY <1>3, StoreAssumption DEF Stored
  <2>2. PICK b \in BOOLEAN : b <=> label \in store.mem.labels
    <3>1. (label \in store.mem.labels) \in BOOLEAN
      OBVIOUS
    <3> QED
      BY <3>1
  <2>3. PICK l \in Persist(d, LabelLine(NextSeq(d), label, label \in store.mem.labels), "plain") :
              RestoreLane(l.d, store.mem.leaf)
    BY <2>1 DEF UndoNavigation
  <2>4. (label \in store.mem.labels) = b
    BY <2>2
  <2>5. l \in Persist(d, LabelLine(NextSeq(d), label, b), "plain")
    BY <2>3, <2>4
  <2>6. /\ l.ok \in BOOLEAN /\ Good(l.d)
        /\ l.d.mem.entries = d.mem.entries
        /\ l.ok => /\ l.d.mem.labels = IF b THEN d.mem.labels \cup {label}
                                       ELSE d.mem.labels \ {label}
                   /\ l.d.faults = d.faults
        /\ ~l.ok => l.d.faults = d.faults - 1
    BY <1>3, <2>1, <2>5, LabelSets, ZenonT(30)
  <2>7. Restored(l.d)
    BY <2>3, <2>6, RestoreHolds
  <2>8. CASE l.ok
    <3>1. l.d.mem.labels = store.mem.labels
      BY <1>3, <2>2, <2>6, <2>8
    <3>2. l.d.faults = d.faults
      BY <2>6, <2>8
    <3> QED
      BY <2>7, <3>1, <3>2 DEF Undone, Restored
  <2>9. CASE ~l.ok
    <3>1. l.d.faults = d.faults - 1
      BY <2>6, <2>9
    <3>2. store'.faults \in Nat /\ store'.faults <= l.d.faults
      BY <2>7, FaultsNat DEF Restored
    <3>3. store'.faults < d.faults
      BY <1>1, <3>1, <3>2
    <3> QED
      BY <1>1, <2>7, <3>2, <3>3 DEF Undone, Restored
  <2> QED
    BY <2>6, <2>8, <2>9
<1> QED
  BY <1>2, <1>3

\* The error arm after a summary.
LEMMA KeepSummaryHolds ==
    ASSUME NEW d, Good(d), NEW b \in BOOLEAN, KeepSummary(d, b)
    PROVE  /\ Good(store') /\ history' = HistoryOf(store'.mem) /\ store'.mem = d.mem
           /\ reply' \in {"moved", "failed"}
           /\ reply' = "moved" => /\ b /\ store'.durable = Len(store'.file)
                                  /\ d.pending = << >> => store'.pending = << >>
<1>1. PICK y \in Sync(d) :
         store' = y.d /\ reply' = IF b /\ y.ok THEN "moved" ELSE "failed"
  BY DEF KeepSummary
<1>2. Synced(d, y)
  BY SyncHolds
<1>3. Good(y.d) /\ y.d.mem = d.mem /\ (d.pending = << >> => y.d.pending = << >>)
  BY <1>2 DEF Synced
<1>4. history' = HistoryOf(d.mem)
  BY DEF KeepSummary
<1>5. CASE b /\ y.ok
  <2>1. y.d.durable = Len(y.d.file)
    BY <1>2, <1>5 DEF Synced
  <2> QED
    BY <1>1, <1>3, <1>4, <1>5, <2>1
<1>6. CASE ~(b /\ y.ok)
  BY <1>1, <1>3, <1>4, <1>6
<1> QED
  BY <1>5, <1>6

\* The entry of a summary.
LEMMA SummaryAppends ==
    ASSUME NEW d, Good(d), NEW e \in Entries, e \notin Stored(d.mem),
           NEW r \in Persist(d, NewEntry(d, e, "summary", << >>), "plain")
    PROVE  /\ r.ok \in BOOLEAN /\ Good(r.d) /\ r.d.mem.labels = d.mem.labels
           /\ r.ok => /\ Stored(r.d.mem) = Stored(d.mem) \cup {e} /\ r.d.mem.leaf = e
                      /\ r.d.faults = d.faults /\ r.d.pending = << >>
           /\ ~r.ok => r.d.mem = d.mem /\ r.d.faults = d.faults - 1
<1> DEFINE line == NewEntry(d, e, "summary", << >>)
           c == Commit(d.mem, line)
<1>1. Sound(d.mem) /\ "summary" \in Types
  BY DEF Good, Types
<1>2. /\ line \in EntryLines /\ line \in Mutations /\ Validate(d.mem, line) /\ line.id = e
  BY <1>1, PlainEntryValid
<1>3. r \in Persist(d, line, "plain")
  OBVIOUS
<1> HIDE DEF line
<1>4. c.leaf = e /\ c.labels = d.mem.labels /\ Stored(c) = Stored(d.mem) \cup {e}
  BY <1>1, <1>2, CommitEntry
<1>5. Appended(d, line, r)
  BY <1>2, <1>3, PersistHolds
<1> HIDE DEF c
<1>6. CASE r.ok
  <2>1. Good(r.d) /\ r.d.mem = c /\ r.d.faults = d.faults /\ r.d.pending = << >>
    BY <1>5, <1>6 DEF Appended, c
  <2> QED
    BY <1>4, <1>6, <2>1
<1>7. CASE ~r.ok
  <2>1. r.ok \in BOOLEAN
    BY <1>5 DEF Appended
  <2>2. Good(r.d) /\ r.d.mem = d.mem /\ r.d.faults = d.faults - 1
    BY <1>5, <1>7 DEF Appended
  <2> QED
    BY <1>7, <2>1, <2>2
<1> QED
  BY <1>6, <1>7

\* A navigation ended, one way or the other.
Ended == Good(store') /\ history' = HistoryOf(store'.mem) /\ Outcome

\* Undone after one fault.
LEMMA UndoneEnds ==
    ASSUME Good(store), NEW d, Good(d), d.faults = store.faults - 1, Undone(d)
    PROVE  Ended
<1>1. store.faults \in Nat /\ d.faults \in Nat /\ store'.faults \in Nat
  BY FaultsNat DEF Undone
<1>2. ASSUME store'.faults >= store.faults - 1
      PROVE  store'.mem.leaf = store.mem.leaf /\ store'.mem.labels = store.mem.labels
  BY <1>1, <1>2 DEF Undone
<1>3. reply' = "failed" /\ Good(store') /\ history' = HistoryOf(store'.mem)
  BY DEF Undone
<1> QED
  BY <1>2, <1>3 DEF Ended, Outcome

\* The end of commit_navigation: everything is written, and synced or not.
LEMMA LastSyncEnds ==
    ASSUME Good(store), history = HistoryOf(store.mem), NEW d, Good(d),
           d.pending = << >>, d.faults = store.faults,
           NEW summary, NEW label,
           IF summary = None
           THEN /\ d.mem.entries = store.mem.entries
                /\ \/ label = None /\ d.mem.labels = store.mem.labels
                   \/ /\ label \in Entries /\ label \in Stored(store.mem)
                      /\ d.mem.labels \in {store.mem.labels, store.mem.labels \cup {label}}
           ELSE d.mem.leaf = summary /\ summary \in Stored(d.mem) \ Stored(store.mem),
           NEW y \in Sync(d),
           IF y.ok THEN store' = y.d /\ history' = HistoryOf(y.d.mem) /\ reply' = "moved"
           ELSE IF summary # None THEN KeepSummary(y.d, TRUE)
           ELSE UndoNavigation(y.d, label)
    PROVE  Ended
<1>1. Synced(d, y)
  BY SyncHolds
<1>2. Good(y.d) /\ y.d.mem = d.mem /\ y.d.pending = << >>
  BY <1>1 DEF Synced
<1>3. CASE y.ok
  <2>1. y.d.durable = Len(y.d.file)
    BY <1>1, <1>3 DEF Synced
  <2>2. store' = y.d /\ history' = HistoryOf(y.d.mem) /\ reply' = "moved"
    BY <1>3
  <2> QED
    BY <1>2, <2>1, <2>2 DEF Ended, Outcome
<1>4. CASE ~y.ok /\ summary # None
  <2>1. KeepSummary(y.d, TRUE) /\ TRUE \in BOOLEAN
    BY <1>4
  <2>2. /\ Good(store') /\ history' = HistoryOf(store'.mem) /\ store'.mem = d.mem
        /\ reply' \in {"moved", "failed"}
        /\ reply' = "moved" => store'.durable = Len(store'.file) /\ store'.pending = << >>
    BY <1>2, <2>1, KeepSummaryHolds
  <2>3. store'.mem.leaf = summary /\ summary \in Stored(store'.mem) \ Stored(store.mem)
    BY <1>4, <2>2
  <2> QED
    BY <2>2, <2>3 DEF Ended, Outcome
<1>5. CASE ~y.ok /\ summary = None
  <2>1. UndoNavigation(y.d, label) /\ y.d.mem.entries = store.mem.entries
    BY <1>2, <1>5
  <2>2. \/ label = None /\ y.d.mem.labels = store.mem.labels
        \/ /\ label \in Entries /\ label \in Stored(store.mem)
           /\ y.d.mem.labels \in {store.mem.labels, store.mem.labels \cup {label}}
    BY <1>2, <1>5
  <2>3. Undone(y.d)
    BY <1>2, <2>1, <2>2, UndoHolds
  <2>4. y.d.faults = store.faults - 1
    BY <1>1, <1>5 DEF Synced
  <2> QED
    BY <1>2, <2>3, <2>4, UndoneEnds
<1> QED
  BY <1>3, <1>4, <1>5

\* The label of a navigation whose lane was moved and whose summary, if any, was
\* appended.
LEMMA LabelStepEnds ==
    ASSUME Good(store), history = HistoryOf(store.mem), NEW d, Good(d),
           d.pending = << >>, d.faults = store.faults, d.mem.labels = store.mem.labels,
           NEW target \in Entries, target \in Stored(store.mem),
           NEW summary \in Entries \cup {None}, NEW label \in BOOLEAN,
           IF summary = None THEN d.mem.entries = store.mem.entries
           ELSE d.mem.leaf = summary /\ summary \in Stored(d.mem) \ Stored(store.mem),
           LET labelled == IF summary = None THEN target ELSE summary IN
           \E l \in IF ~label THEN Done(d)
                    ELSE Persist(d, LabelLine(NextSeq(d), labelled, TRUE), "plain") :
              IF ~l.ok
              THEN IF summary # None THEN KeepSummary(l.d, FALSE)
                   ELSE UndoNavigation(l.d, labelled)
              ELSE \E y \in Sync(l.d) :
                IF y.ok THEN /\ store' = y.d
                             /\ history' = HistoryOf(y.d.mem)
                             /\ reply' = "moved"
                ELSE IF summary # None THEN KeepSummary(y.d, TRUE)
                ELSE UndoNavigation(y.d, IF label THEN labelled ELSE None)
    PROVE  Ended
<1> DEFINE labelled == IF summary = None THEN target ELSE summary
<1>1. PICK l \in IF ~label THEN Done(d)
                 ELSE Persist(d, LabelLine(NextSeq(d), labelled, TRUE), "plain") :
              IF ~l.ok
              THEN IF summary # None THEN KeepSummary(l.d, FALSE)
                   ELSE UndoNavigation(l.d, labelled)
              ELSE \E y \in Sync(l.d) :
                IF y.ok THEN /\ store' = y.d
                             /\ history' = HistoryOf(y.d.mem)
                             /\ reply' = "moved"
                ELSE IF summary # None THEN KeepSummary(y.d, TRUE)
                ELSE UndoNavigation(y.d, IF label THEN labelled ELSE None)
  OBVIOUS
<1>2. labelled \in Entries /\ labelled \in Stored(d.mem)
  BY DEF Stored
<1>3. summary = None => labelled = target
  OBVIOUS
<1> HIDE DEF labelled
<1>4. CASE ~label
  <2>1. l = [ok |-> TRUE, d |-> d]
    BY <1>1, <1>4 DEF Done
  <2>2. l.ok = TRUE /\ l.d = d
    BY <2>1
  <2>3. PICK y \in Sync(d) :
          IF y.ok THEN store' = y.d /\ history' = HistoryOf(y.d.mem) /\ reply' = "moved"
          ELSE IF summary # None THEN KeepSummary(y.d, TRUE)
          ELSE UndoNavigation(y.d, None)
    BY <1>1, <1>4, <2>2
  <2>4. IF summary = None
        THEN /\ d.mem.entries = store.mem.entries
             /\ \/ None = None /\ d.mem.labels = store.mem.labels
                \/ /\ None \in Entries /\ None \in Stored(store.mem)
                   /\ d.mem.labels \in {store.mem.labels, store.mem.labels \cup {None}}
        ELSE d.mem.leaf = summary /\ summary \in Stored(d.mem) \ Stored(store.mem)
    OBVIOUS
  <2> QED
    BY <2>3, <2>4, LastSyncEnds
<1>5. CASE label
  <2>1. /\ l.ok \in BOOLEAN /\ Good(l.d)
        /\ l.d.mem.entries = d.mem.entries /\ l.d.mem.leaf = d.mem.leaf
        /\ l.ok => /\ l.d.mem.labels = d.mem.labels \cup {labelled}
                   /\ l.d.faults = d.faults /\ l.d.pending = << >>
        /\ ~l.ok => l.d.mem = d.mem /\ l.d.faults = d.faults - 1
    <3>1. l \in Persist(d, LabelLine(NextSeq(d), labelled, TRUE), "plain")
      BY <1>1, <1>5
    <3> QED
      BY <1>2, <3>1, LabelPut
  <2>2. CASE l.ok
    <3>1. PICK y \in Sync(l.d) :
            IF y.ok THEN store' = y.d /\ history' = HistoryOf(y.d.mem) /\ reply' = "moved"
            ELSE IF summary # None THEN KeepSummary(y.d, TRUE)
            ELSE UndoNavigation(y.d, labelled)
      BY <1>1, <1>5, <2>2
    <3>2. IF summary = None
          THEN /\ l.d.mem.entries = store.mem.entries
               /\ \/ labelled = None /\ l.d.mem.labels = store.mem.labels
                  \/ /\ labelled \in Entries /\ labelled \in Stored(store.mem)
                     /\ l.d.mem.labels \in {store.mem.labels, store.mem.labels \cup {labelled}}
          ELSE l.d.mem.leaf = summary /\ summary \in Stored(l.d.mem) \ Stored(store.mem)
      <4>1. CASE summary = None
        BY <1>2, <1>3, <2>1, <2>2, <4>1
      <4>2. CASE summary # None
        BY <2>1, <4>2 DEF Stored
      <4> QED
        BY <4>1, <4>2
    <3>3. Good(l.d) /\ l.d.pending = << >> /\ l.d.faults = store.faults
      BY <2>1, <2>2
    <3> QED
      BY <3>1, <3>2, <3>3, LastSyncEnds
  <2>3. CASE ~l.ok /\ summary # None
    <3>1. KeepSummary(l.d, FALSE) /\ FALSE \in BOOLEAN
      BY <1>1, <2>3
    <3>2. /\ Good(store') /\ history' = HistoryOf(store'.mem) /\ store'.mem = l.d.mem
          /\ reply' # "moved"
      BY <2>1, <3>1, KeepSummaryHolds
    <3>3. store'.mem.leaf = summary /\ summary \in Stored(store'.mem) \ Stored(store.mem)
      BY <2>1, <2>3, <3>2
    <3> QED
      BY <3>2, <3>3 DEF Ended, Outcome
  <2>4. CASE ~l.ok /\ summary = None
    <3>1. /\ UndoNavigation(l.d, labelled) /\ labelled = target
          /\ l.d.mem.entries = store.mem.entries /\ l.d.mem.labels = store.mem.labels
          /\ l.d.faults = store.faults - 1
      BY <1>1, <1>3, <2>1, <2>4
    <3>2. Undone(l.d)
      <4>1. /\ labelled \in Entries /\ labelled \in Stored(store.mem)
            /\ l.d.mem.labels \in {store.mem.labels, store.mem.labels \cup {labelled}}
        BY <3>1
      <4> QED
        BY <2>1, <3>1, <4>1, UndoHolds
    <3> QED
      BY <2>1, <3>1, <3>2, UndoneEnds
  <2> QED
    BY <2>1, <2>2, <2>3, <2>4
<1> QED
  BY <1>4, <1>5

\* commit_navigation.
LEMMA CommitNavigationEnds ==
    ASSUME Good(store), history = HistoryOf(store.mem),
           NEW target \in Entries, target \in Stored(store.mem),
           NEW summary \in Entries \cup {None}, summary \notin Stored(store.mem),
           NEW label \in BOOLEAN, CommitNavigation(target, summary, label)
    PROVE  Ended
<1> DEFINE new == IF store.mem.entries[target].type = "user"
                  THEN store.mem.entries[target].parent ELSE target
           labelled == IF summary = None THEN target ELSE summary
           Remaining(d) == \E l \in IF ~label THEN Done(d)
                    ELSE Persist(d, LabelLine(NextSeq(d), labelled, TRUE), "plain") :
              IF ~l.ok
              THEN IF summary # None THEN KeepSummary(l.d, FALSE)
                   ELSE UndoNavigation(l.d, labelled)
              ELSE \E y \in Sync(l.d) :
                IF y.ok THEN /\ store' = y.d
                             /\ history' = HistoryOf(y.d.mem)
                             /\ reply' = "moved"
                ELSE IF summary # None THEN KeepSummary(y.d, TRUE)
                ELSE UndoNavigation(y.d, IF label THEN labelled ELSE None)
<1>1. new \in Stored(store.mem) \cup {None}
  BY DEF Good, Sound, Tree, Stored
<1>2. PICK m \in MoveLane(store, new) :
          IF ~m.ok THEN UndoNavigation(m.d, None)
          ELSE \E s \in IF summary = None THEN Done(m.d)
                        ELSE Persist(m.d, NewEntry(m.d, summary, "summary", << >>), "plain") :
            IF ~s.ok THEN UndoNavigation(s.d, None) ELSE Remaining(s.d)
  BY DEF CommitNavigation
<1> HIDE DEF new
<1>3. /\ m.ok \in BOOLEAN /\ Good(m.d)
      /\ m.d.mem.entries = store.mem.entries /\ m.d.mem.labels = store.mem.labels
      /\ m.ok => m.d.faults = store.faults /\ m.d.pending = << >>
      /\ ~m.ok => m.d.faults = store.faults - 1
  BY <1>1, LaneMoves
<1>4. ASSUME NEW d, Good(d), d.mem.entries = store.mem.entries, d.mem.labels = store.mem.labels,
             d.faults = store.faults - 1, UndoNavigation(d, None)
      PROVE  Ended
  <2>1. Undone(d)
    BY <1>4, UndoHolds
  <2> QED
    BY <1>4, <2>1, UndoneEnds
<1>5. CASE ~m.ok
  BY <1>2, <1>3, <1>4, <1>5
<1>6. CASE m.ok
  <2>1. PICK s \in IF summary = None THEN Done(m.d)
                   ELSE Persist(m.d, NewEntry(m.d, summary, "summary", << >>), "plain") :
            IF ~s.ok THEN UndoNavigation(s.d, None) ELSE Remaining(s.d)
    BY <1>2, <1>6
  <2>2. CASE summary = None
    <3>1. s.ok = TRUE /\ s.d = m.d
      BY <2>1, <2>2 DEF Done
    <3>2. Remaining(m.d)
      BY <2>1, <3>1
    <3>3. m.d.pending = << >> /\ m.d.faults = store.faults
      BY <1>3, <1>6
    <3> QED
      BY <1>3, <2>2, <3>2, <3>3, LabelStepEnds
  <2>3. CASE summary # None
    <3>1. /\ s.ok \in BOOLEAN /\ Good(s.d) /\ s.d.mem.labels = m.d.mem.labels
          /\ s.ok => /\ Stored(s.d.mem) = Stored(m.d.mem) \cup {summary}
                     /\ s.d.mem.leaf = summary
                     /\ s.d.faults = m.d.faults /\ s.d.pending = << >>
          /\ ~s.ok => s.d.mem = m.d.mem /\ s.d.faults = m.d.faults - 1
      <4>1. summary \in Entries /\ summary \notin Stored(m.d.mem)
        BY <1>3, <2>3 DEF Stored
      <4>2. s \in Persist(m.d, NewEntry(m.d, summary, "summary", << >>), "plain")
        BY <2>1, <2>3
      <4> QED
        BY <1>3, <4>1, <4>2, SummaryAppends
    <3>2. CASE s.ok
      <4>1. Remaining(s.d)
        BY <2>1, <3>2
      <4>2. /\ s.d.pending = << >> /\ s.d.faults = store.faults
            /\ s.d.mem.labels = store.mem.labels
        BY <1>3, <1>6, <3>1, <3>2
      <4>3. s.d.mem.leaf = summary /\ summary \in Stored(s.d.mem) \ Stored(store.mem)
        BY <3>1, <3>2
      <4>4. IF summary = None THEN s.d.mem.entries = store.mem.entries
            ELSE s.d.mem.leaf = summary /\ summary \in Stored(s.d.mem) \ Stored(store.mem)
        BY <2>3, <4>3
      <4>5. Good(s.d)
        BY <3>1
      <4> HIDE DEF labelled
      <4> QED
        BY <4>1, <4>2, <4>4, <4>5, LabelStepEnds DEF labelled
    <3>3. CASE ~s.ok
      <4>1. UndoNavigation(s.d, None)
        BY <2>1, <3>3
      <4>2. /\ s.d.mem.entries = store.mem.entries /\ s.d.mem.labels = store.mem.labels
            /\ s.d.faults = store.faults - 1
        BY <1>3, <1>6, <3>1, <3>3
      <4> QED
        BY <1>4, <3>1, <4>1, <4>2
    <3> QED
      BY <3>1, <3>2, <3>3
  <2> QED
    BY <2>2, <2>3
<1> QED
  BY <1>3, <1>5, <1>6

\* navigate_session_with_summary.
LEMMA NavigateKeeps ==
    ASSUME ContextInv, NEW target \in Entries, NEW summary \in Entries \cup {None},
           NEW label \in BOOLEAN, Navigate(target, summary, label)
    PROVE  ContextInv' /\ Outcome
<1>1. /\ live /\ live' = live /\ Good(store) /\ target \in Stored(store.mem)
      /\ (summary # None => summary \notin Stored(store.mem))
      /\ CommitNavigation(target, summary, label)
  BY DEF Navigate, Writable, ContextInv, Fresh
<1>2. history = HistoryOf(store.mem)
  BY <1>1 DEF ContextInv, HistoryMatchesStore
<1>3. summary \notin Stored(store.mem)
  <2>1. None \notin Stored(store.mem)
    BY <1>1 DEF Good, Sound, Tree, Stored
  <2> QED
    BY <1>1, <2>1
<1>4. Ended
  BY <1>1, <1>2, <1>3, CommitNavigationEnds
<1> QED
  BY <1>1, <1>4 DEF Ended, ContextInv, HistoryMatchesStore

\* clear_navigation.
LEMMA ClearNavigationKeeps ==
    ASSUME ContextInv, ClearNavigation
    PROVE  ContextInv' /\ Outcome
<1>1. live /\ live' = live /\ Good(store)
  BY DEF ClearNavigation, Writable, ContextInv
<1>2. history = HistoryOf(store.mem)
  BY <1>1 DEF ContextInv, HistoryMatchesStore
<1>3. PICK m \in MoveLane(store, None) :
         IF ~m.ok THEN store' = m.d /\ reply' = "failed" /\ history' = history
         ELSE \E y \in Sync(m.d) :
                IF y.ok THEN store' = y.d /\ history' = << >> /\ reply' = "moved"
                ELSE RestoreLane(y.d, store.mem.leaf)
  BY DEF ClearNavigation
<1>4. /\ m.ok \in BOOLEAN /\ Good(m.d)
      /\ m.d.mem.entries = store.mem.entries /\ m.d.mem.labels = store.mem.labels
      /\ m.ok => m.d.mem.leaf = None /\ m.d.faults = store.faults /\ m.d.pending = << >>
      /\ ~m.ok => m.d.mem = store.mem /\ m.d.faults = store.faults - 1
  BY <1>1, LaneMoves
<1>5. Ended
  <2>1. CASE ~m.ok
    BY <1>2, <1>3, <1>4, <2>1 DEF Ended, Outcome
  <2>2. CASE m.ok
    <3>1. PICK y \in Sync(m.d) :
                IF y.ok THEN store' = y.d /\ history' = << >> /\ reply' = "moved"
                ELSE RestoreLane(y.d, store.mem.leaf)
      BY <1>3, <2>2
    <3>2. Synced(m.d, y)
      BY <1>4, SyncHolds
    <3>3. Good(y.d) /\ y.d.mem = m.d.mem /\ y.d.pending = << >>
      BY <1>4, <2>2, <3>2 DEF Synced
    <3>4. CASE y.ok
      <4>1. y.d.durable = Len(y.d.file)
        BY <3>2, <3>4 DEF Synced
      <4>2. HistoryOf(y.d.mem) = << >>
        <5>1. Tree(y.d.mem.entries) /\ y.d.mem.leaf = None
          BY <1>4, <2>2, <3>3 DEF Good, Sound
        <5> QED
          BY <5>1, HistoryByEntries, HistoryAtRoot
      <4> QED
        BY <3>1, <3>3, <3>4, <4>1, <4>2 DEF Ended, Outcome
    <3>5. CASE ~y.ok
      <4>1. /\ RestoreLane(y.d, store.mem.leaf) /\ y.d.mem.entries = store.mem.entries
            /\ y.d.mem.labels = store.mem.labels
        BY <1>4, <3>1, <3>3, <3>5
      <4>2. Restored(y.d)
        BY <1>1, <1>2, <3>3, <4>1, RestoreHolds
      <4>3. Undone(y.d)
        BY <4>1, <4>2 DEF Restored, Undone
      <4>4. y.d.faults = store.faults - 1
        BY <1>4, <2>2, <3>2, <3>5 DEF Synced
      <4> QED
        BY <1>1, <3>3, <4>3, <4>4, UndoneEnds
    <3> QED
      BY <3>4, <3>5
  <2> QED
    BY <1>4, <2>1, <2>2
<1> QED
  BY <1>1, <1>5 DEF Ended, ContextInv, HistoryMatchesStore

(***************************************************************************)
(* The theorems.                                                           *)
(***************************************************************************)
\* A new Session.
LEMMA InitContext == Init => ContextInv
<1> SUFFICES ASSUME Init PROVE ContextInv
  OBVIOUS
<1>1. store \in Disk /\ store.tail = "none" /\ store.mem = EmptyState
  <2>1. << >> \in Seq(Lines) /\ EmptyState \in State /\ "none" \in Parts /\ MaxFaults \in Nat
    BY EmptySound, StoreAssumption DEF Sound, Parts
  <2> QED
    BY <2>1 DEF Init, Disk
<1>2. Good(store)
  BY <1>1, EmptySound DEF Good, Held
<1>3. HistoryOf(store.mem) = << >>
  <2>1. Tree(store.mem.entries) /\ store.mem.leaf = None
    BY <1>1, EmptySound DEF Sound, EmptyState
  <2> QED
    BY <2>1, HistoryByEntries, HistoryAtRoot
<1> QED
  BY <1>2, <1>3 DEF Init, ContextInv, HistoryMatchesStore

\* Every step keeps the invariant, and answers a navigation truly.
LEMMA NextContext ==
    ContextInv /\ [Next]_vars => ContextInv' /\ [Outcome]_vars
<1> SUFFICES ASSUME ContextInv, [Next]_vars PROVE ContextInv' /\ [Outcome]_vars
  OBVIOUS
<1>1. ASSUME ContextInv', reply' = "none" PROVE ContextInv' /\ [Outcome]_vars
  BY <1>1 DEF Outcome
<1>2. CASE UNCHANGED vars
  BY <1>2 DEF vars, ContextInv, HistoryMatchesStore
<1>3. ASSUME AppendRecord PROVE ContextInv' /\ [Outcome]_vars
  BY <1>1, <1>3, AppendRecordKeeps DEF AppendRecord
<1>4. ASSUME NEW e \in Entries, NEW t \in {"user", "reply"}, AppendContextMessage(e, t)
      PROVE  ContextInv' /\ [Outcome]_vars
  BY <1>1, <1>4, AppendContextMessageKeeps DEF AppendContextMessage
<1>5. ASSUME NEW e \in Entries, CommitCompaction(e) PROVE ContextInv' /\ [Outcome]_vars
  BY <1>1, <1>5, CommitCompactionKeeps DEF CommitCompaction
<1>6. ASSUME NEW n \in 1..2, CommitRecords(n) PROVE ContextInv' /\ [Outcome]_vars
  BY <1>1, <1>6, CommitRecordsKeeps DEF CommitRecords
<1>7. ASSUME NEW e \in Entries, CommitConsumed(e) PROVE ContextInv' /\ [Outcome]_vars
  BY <1>1, <1>7, CommitConsumedKeeps DEF CommitConsumed
<1>8. ASSUME NEW e \in Entries, CommitSetting(e) PROVE ContextInv' /\ [Outcome]_vars
  BY <1>1, <1>8, CommitSettingKeeps DEF CommitSetting
<1>9. ASSUME NEW n \in Names \ {"never"}, Rename(n) PROVE ContextInv' /\ [Outcome]_vars
  BY <1>1, <1>9, RenameKeeps DEF Rename
<1>10. ASSUME SetNameAt PROVE ContextInv' /\ [Outcome]_vars
  <2>1. reply' = "none"
    BY <1>10 DEF SetNameAt, ContextInv
  <2> QED
    BY <1>1, <1>10, <2>1, SetNameAtKeeps
<1>11. ASSUME ClearNavigation PROVE ContextInv' /\ [Outcome]_vars
  BY <1>11, ClearNavigationKeeps
<1>12. ASSUME NEW e \in Entries, NEW s \in Entries \cup {None}, NEW b \in BOOLEAN,
              Navigate(e, s, b)
       PROVE  ContextInv' /\ [Outcome]_vars
  BY <1>12, NavigateKeeps
<1>13. ASSUME NEW e \in Entries, AppendStoreOnlyEntry(e) PROVE ContextInv' /\ [Outcome]_vars
  BY <1>1, <1>13, AppendStoreOnlyEntryKeeps DEF AppendStoreOnlyEntry
<1>14. ASSUME NEW e \in Entries, NEW b \in BOOLEAN, SetLabel(e, b)
       PROVE  ContextInv' /\ [Outcome]_vars
  BY <1>1, <1>14, SetLabelKeeps DEF SetLabel
<1>15. CASE Write
  BY <1>15, <1>3, <1>4, <1>5, <1>6, <1>7, <1>8, <1>9, <1>10, <1>11, <1>12, <1>13, <1>14, Zenon
     DEF Write
<1>16. CASE SyncTranscript
  BY <1>1, <1>16, SyncTranscriptKeeps DEF SyncTranscript
<1>17. CASE Close
  BY <1>1, <1>17, CloseKeeps DEF Close, Released
<1>18. CASE Crash
  BY <1>1, <1>18, CrashKeeps DEF Crash, Released
<1>19. CASE Open
  BY <1>1, <1>19, OpenKeeps DEF Open
<1> QED
  BY <1>2, <1>15, <1>16, <1>17, <1>18, <1>19 DEF Next

\* For any entries, callers, bounds and failing writes: the model context that
\* SessionTranscript keeps step by step is the one history_from_store rebuilds, after
\* every failed, undone or torn write, crash and reopening.
THEOREM ContextMatchesStore == Spec => []HistoryMatchesStore
<1>1. ContextInv => HistoryMatchesStore
  BY DEF ContextInv
<1>2. ContextInv /\ [Next]_vars => ContextInv'
  BY NextContext
<1> QED
  BY <1>1, <1>2, InitContext, PTL DEF Spec

\* For any constants: what commit_navigation and clear_navigation tell their caller is
\* true, whichever of their writes and syncs fail.
THEOREM NavigationIsHonest == Spec => NavigationOutcomeIsTrue
<1>1. ContextInv /\ [Next]_vars => ContextInv'
  BY NextContext
<1>2. ContextInv /\ [Next]_vars => [Outcome]_vars
  BY NextContext
<1> QED
  BY <1>1, <1>2, InitContext, PTL DEF Spec, NavigationOutcomeIsTrue, Outcome

(***************************************************************************)
(* Logs that open again.                                                   *)
(***************************************************************************)

\* Lines that open reads without an error.
Valid(l) == l \in Seq(Mutations) /\ Replay(l).ok

\* Mutations are lines.
LEMMA MutationsAreLines ==
    ASSUME NEW l \in Seq(Mutations)
    PROVE  l \in Seq(Lines) /\ Len(l) \in Nat
<1>1. Mutations \subseteq Lines
  BY DEF Lines
<1> QED
  BY <1>1

\* A valid line more.
LEMMA ValidGrows ==
    ASSUME NEW l, Valid(l), NEW x \in Mutations, Validate(Replay(l).state, x)
    PROVE  /\ Valid(Append(l, x))
           /\ Replay(Append(l, x)).state = Commit(Replay(l).state, x)
<1>1. l \in Seq(Mutations) /\ Append(l, x) \in Seq(Mutations)
  BY DEF Valid
<1>2. Replay(Append(l, x)) = NextReplay(Replay(l), x)
  BY <1>1, ReplaySteps
<1>3. Replay(Append(l, x)) = [ok |-> TRUE, state |-> Commit(Replay(l).state, x)]
  BY <1>2 DEF Valid, NextReplay
<1> QED
  BY <1>1, <1>3 DEF Valid

\* One line is one sequence number.
LEMMA ValidSeq ==
    ASSUME NEW l, Valid(l)
    PROVE  Len(l) \in Nat /\ Replay(l).state.seq = Len(l) /\ Sound(Replay(l).state)
<1>1. l \in Seq(Lines) /\ Len(l) \in Nat
  BY MutationsAreLines DEF Valid
<1> QED
  BY <1>1, ReplaySound DEF Valid

\* What is left of a valid log when it is cut is valid, and so is the line after
\* the cut.
LEMMA ValidCut ==
    ASSUME NEW l, Valid(l), NEW k \in 0..Len(l)
    PROVE  /\ Valid(SubSeq(l, 1, k)) /\ Len(SubSeq(l, 1, k)) = k
           /\ k < Len(l) => /\ l[k + 1] \in Mutations
                            /\ Validate(Replay(SubSeq(l, 1, k)).state, l[k + 1])
<1> DEFINE p == SubSeq(l, 1, k)
<1>1. l \in Seq(Mutations) /\ Len(l) \in Nat /\ Replay(l).ok
  BY DEF Valid
<1>2. PICK n \in Nat : n = Len(l)
  BY <1>1
<1>3. k \in Nat /\ k <= n
  BY <1>2
<1>4. p \in Seq(Mutations) /\ Len(p) = k /\ \A i \in 1..k : p[i] = l[i]
  <2>1. /\ p \in Seq(Mutations) /\ Len(p) = (IF 1 <= k THEN k - 1 + 1 ELSE 0)
        /\ \A i \in 1..(k - 1 + 1) : p[i] = l[1 + i - 1]
    BY <1>1, <1>2, <1>3, Cut
  <2> HIDE DEF p
  <2> QED
    BY <1>3, <2>1
<1> HIDE DEF p
<1>5. PICK f : IsReplay(l, f, Len(l)) /\ Replay(l) = f[Len(l)]
  BY <1>1, ReplayIs
<1>6. Replay(p) = f[k]
  <2>1. Len(p) \in Nat /\ Len(p) <= Len(l) /\ \A i \in 1..Len(p) : p[i] = l[i]
    BY <1>2, <1>3, <1>4
  <2>2. Replay(p) = f[Len(p)]
    BY <1>1, <1>5, <2>1, ReplayOfPrefix
  <2> QED
    BY <1>4, <2>2
<1>7. \A i \in 1..n : f[i] = NextReplay(f[i - 1], l[i])
  <2> SUFFICES ASSUME NEW i \in 1..n PROVE f[i] = NextReplay(f[i - 1], l[i])
    OBVIOUS
  <2>1. i \in 0..Len(l) /\ i # 0
    BY <1>2
  <2> QED
    BY <1>5, <2>1 DEF IsReplay
<1>8. \A i \in 1..n : f[i].ok => f[i - 1].ok /\ Validate(f[i - 1].state, l[i])
  <2> SUFFICES ASSUME NEW i \in 1..n, f[i].ok,
                      ~ (f[i - 1].ok /\ Validate(f[i - 1].state, l[i]))
               PROVE  FALSE
    OBVIOUS
  <2>1. f[i] = [ok |-> FALSE, state |-> EmptyState]
    BY <1>7 DEF NextReplay
  <2> QED
    BY <2>1
<1> DEFINE T == {j \in 0..n : ~ f[n - j].ok}
<1>9. T = {}
  <2> SUFFICES ASSUME T # {} PROVE FALSE
    OBVIOUS
  <2>1. PICK j \in T : \A i \in T : j <= i
    <3>1. T \in SUBSET Nat
      OBVIOUS
    <3> HIDE DEF T
    <3> QED
      BY <3>1, Least
  <2>2. j \in 0..n /\ ~ f[n - j].ok
    BY <2>1
  <2>3. j # 0
    <3>1. n - 0 = n /\ f[n].ok
      BY <1>1, <1>2, <1>5
    <3> QED
      BY <2>2, <3>1
  <2>4. j - 1 \in 0..n /\ j - 1 < j /\ n - (j - 1) \in 1..n /\ n - (j - 1) - 1 = n - j
    BY <2>2, <2>3
  <2>5. f[n - (j - 1)].ok
    BY <2>1, <2>4
  <2> QED
    BY <1>8, <2>2, <2>4, <2>5
<1>10. \A i \in 0..n : f[i].ok
  <2> SUFFICES ASSUME NEW i \in 0..n PROVE f[i].ok
    OBVIOUS
  <2>1. n - i \in 0..n /\ n - (n - i) = i
    OBVIOUS
  <2> QED
    BY <1>9, <2>1
<1>11. Valid(p)
  BY <1>3, <1>4, <1>6, <1>10 DEF Valid
<1>12. ASSUME k < Len(l) PROVE l[k + 1] \in Mutations /\ Validate(Replay(p).state, l[k + 1])
  <2>1. k + 1 \in 1..n /\ k + 1 \in 0..n /\ (k + 1) - 1 = k
    BY <1>2, <1>3, <1>12
  <2>2. Validate(f[(k + 1) - 1].state, l[k + 1])
    BY <1>8, <1>10, <2>1
  <2>3. l[k + 1] \in Mutations
    BY <1>1, <1>2, <2>1
  <2> QED
    BY <1>6, <2>1, <2>2, <2>3
<1> QED
  BY <1>4, <1>11, <1>12 DEF p

\* The line at a place has that sequence number.
LEMMA ValidNumbers ==
    ASSUME NEW l, Valid(l), NEW k \in 1..Len(l)
    PROVE  l[k] \in Mutations /\ l[k].seq = k
<1>1. Len(l) \in Nat
  BY ValidSeq
<1>2. PICK n \in Nat : n = Len(l)
  BY <1>1
<1>3. k \in 1..n
  BY <1>2
<1>4. PICK j : j = k - 1
  OBVIOUS
<1>5. j \in 0..n /\ j < n /\ j + 1 = k
  BY <1>3, <1>4
<1>6. j \in 0..Len(l) /\ j < Len(l)
  BY <1>2, <1>5
<1> DEFINE p == SubSeq(l, 1, j)
<1>7. Valid(p) /\ Len(p) = j /\ l[j + 1] \in Mutations /\ Validate(Replay(p).state, l[j + 1])
  BY <1>6, ValidCut
<1> HIDE DEF p
<1>8. Replay(p).state.seq = j
  BY <1>7, ValidSeq
<1>9. l[j + 1].seq = j + 1
  BY <1>7, <1>8 DEF Validate
<1> QED
  BY <1>5, <1>7, <1>9

\* What of a log a failed write may leave behind: complete lines, and at most one
\* that is not complete.
Orderly(d) ==
    /\ Valid(d.file) /\ d.durable <= Len(d.file)
    /\ \/ d.pending = << >> /\ d.tail = "none"
       \/ \E x \in Begun : d.pending = <<x>> /\ d.tail # "whole"
       \/ /\ d.pending = <<d.pending[1]>> /\ d.pending[1] \in Mutations
          /\ Validate(Replay(d.file).state, d.pending[1])

\* The writer is empty, and the state is what the file replays to.
Quiet(d) == Good(d) /\ Orderly(d) /\ d.pending = << >>
Clean(d) == Quiet(d) /\ d.mem = Replay(d.file).state

\* Writing one line, or part of it.
LEMMA OneLineFlushed ==
    ASSUME NEW d \in Disk, NEW x \in Lines, x \notin Begun
    PROVE  LET f == Flushed(d, <<x>>) IN
           /\ f.file = Append(d.file, x) /\ f.pending = << >> /\ f.tail = "none"
           /\ f.durable = d.durable /\ f.mem = d.mem /\ f.faults = d.faults
<1> DEFINE f == Flushed(d, <<x>>)
<1>1. PICK p \in Seq(Lines) : p = <<x>>
  <2>1. <<x>> \in Seq(Lines)
    OBVIOUS
  <2> QED
    BY <2>1
<1>2. p[Len(p)] \notin Begun
  BY <1>1
<1>3. LET g == Flushed(d, p) IN
      /\ g.mem = d.mem /\ g.durable = d.durable /\ g.faults = d.faults
      /\ g.file = d.file \o p /\ g.pending = << >> /\ g.tail = "none"
  BY <1>2, FlushedHolds
<1>4. d.file \o <<x>> = Append(d.file, x)
  <2>1. d.file \in Seq(Lines)
    BY DEF Disk
  <2> QED
    BY <2>1, AppendIsConcat
<1> QED
  BY <1>1, <1>3, <1>4

\* A failed write of one line leaves it in the writer; more of it than before may be in
\* the file.
LEMMA OneLineStuck ==
    ASSUME NEW d \in Disk, d.faults > 0, NEW x \in Lines, NEW s \in Stuck(d, <<x>>)
    PROVE  /\ s.file = d.file /\ s.pending = <<x>> /\ s.durable = d.durable /\ s.mem = d.mem
           /\ s.tail \in Parts
           /\ x \in Begun => s.tail # "whole"
           /\ d.tail = "whole" => s.tail = "whole"
<1>1. PICK y \in (0..(Len(<<x>>) - 1)) \X Parts :
             /\ s = Written([d EXCEPT !.faults = @ - 1], <<x>>, y[1], y[2])
             /\ y[2] = "whole" => <<x>>[y[1] + 1] \notin Begun
             /\ y[1] = 0 /\ d.tail # "none" => y[2] # "none"
             /\ y[1] = 0 /\ d.tail = "whole" => y[2] = "whole"
  BY DEF Stuck
<1>2. PICK n, t : n = y[1] /\ t = y[2]
  OBVIOUS
<1>3. n = 0 /\ t \in Parts
  <2>1. y[1] \in 0..(Len(<<x>>) - 1) /\ y[2] \in Parts
    BY <1>1
  <2>2. Len(<<x>>) - 1 = 0
    OBVIOUS
  <2>3. y[1] \in 0..0
    BY <2>1, <2>2
  <2> QED
    BY <1>2, <2>1, <2>3
<1>4. (t = "whole" => x \notin Begun) /\ (d.tail = "whole" => t = "whole")
  BY <1>1, <1>2, <1>3
<1> DEFINE c == [d EXCEPT !.faults = @ - 1]
<1>5. c \in Disk /\ c.file = d.file /\ c.mem = d.mem /\ c.durable = d.durable
  BY DEF Disk
<1>6. s = Written(c, <<x>>, 0, t)
  BY <1>1, <1>2, <1>3
<1> HIDE DEF c
<1>7. PICK p \in Seq(Lines) : p = <<x>>
  <2>1. <<x>> \in Seq(Lines)
    OBVIOUS
  <2> QED
    BY <2>1
<1>8. 0 \in 0..Len(p)
  BY <1>7
<1>9. LET w == Written(c, p, 0, t) IN
      /\ w.mem = c.mem /\ w.durable = c.durable
      /\ w.tail = t /\ w.file = c.file \o SubSeq(p, 1, 0)
      /\ w.pending = SubSeq(p, 0 + 1, Len(p))
  BY <1>3, <1>5, <1>8, WrittenHolds, ZenonT(30)
<1>10. SubSeq(p, 1, 0) = << >>
  BY SubSeqEmpty
<1>11. SubSeq(p, 0 + 1, Len(p)) = p
  <2>1. SubSeq(p, 1, Len(p)) = p
    BY Pieces
  <2> QED
    BY <2>1
<1>12. c.file \o << >> = d.file
  <2>1. c.file \in Seq(Lines)
    BY <1>5 DEF Disk
  <2> QED
    BY <1>5, <2>1, ConcatEmptySeq
<1> QED
  BY <1>3, <1>4, <1>5, <1>6, <1>7, <1>9, <1>10, <1>11, <1>12

\* An append to a quiet log: a line more, or a line of which part is written.
LEMMA QuietPersist ==
    ASSUME NEW d, Quiet(d), NEW line \in Mutations, Validate(d.mem, line),
           Validate(Replay(d.file).state, line), NEW class, NEW r \in Persist(d, line, class)
    PROVE  /\ r.ok \in BOOLEAN /\ Good(r.d) /\ r.d.durable = d.durable
           /\ r.ok => /\ Quiet(r.d) /\ r.d.file = Append(d.file, line)
                      /\ r.d.mem = Commit(d.mem, line)
           /\ ~r.ok => /\ class \in Failing /\ Orderly(r.d) /\ r.d.file = d.file
                       /\ r.d.mem = d.mem /\ Len(r.d.pending) = 1
<1>1. /\ Good(d) /\ d \in Disk /\ d.pending = << >> /\ Valid(d.file) /\ d.durable <= Len(d.file)
      /\ d.file \in Seq(Mutations) /\ d.durable \in Nat /\ << >> \in Seq(Lines)
  BY DEF Quiet, Orderly, Good, Held, Valid, Disk
<1>2. line \in Lines /\ line \notin Begun /\ Torn \in Lines /\ Split \in Lines
  BY OddLines
<1>3. /\ Add(d.pending, line) = <<line>> /\ Add(d.pending, Torn) = <<Torn>>
      /\ Add(d.pending, Split) = <<Split>>
  BY <1>1, <1>2, AddHolds
<1>0. d.faults > 0 => Flushed([d EXCEPT !.faults = @ - 1], <<Split>>) \in Stuck(d, <<Split>>)
  <2>1. d.tail = "none"
    <3>1. \A x : << >> # <<x>>
      OBVIOUS
    <3> QED
      BY <1>1, <3>1 DEF Quiet, Orderly
  <2>2. Flushed([d EXCEPT !.faults = @ - 1], <<Split>>)
          = Written([d EXCEPT !.faults = @ - 1], <<Split>>, 0, "split")
    <3>1. <<Split>> # << >> /\ Len(<<Split>>) = 1 /\ <<Split>>[1] = Split /\ 1 - 1 = 0
      OBVIOUS
    <3>2. Split \in Begun /\ Split.kind = "split"
      BY DEF Begun, Split
    <3> QED
      BY <3>1, <3>2 DEF Flushed
  <2>3. <<0, "split">> \in {x \in (0..(Len(<<Split>>) - 1)) \X Parts :
                 /\ x[2] = "whole" => <<Split>>[x[1] + 1] \notin Begun
                 /\ x[2] = "torn" => <<Split>>[x[1] + 1] \notin {Split, Mangled}
                 /\ x[1] = 0 /\ d.tail # "none" => x[2] # "none"
                 /\ x[1] = 0 /\ d.tail = "whole" => x[2] = "whole"}
    BY <2>1 DEF Parts
  <2> QED
    BY <2>2, <2>3 DEF Stuck
<1>4. Appended(d, line, r)
  BY <1>1, PersistHolds
<1>5. r.ok \in BOOLEAN /\ Good(r.d)
  BY <1>4 DEF Appended
<1> DEFINE f == Flushed(d, <<line>>)
           g == [f EXCEPT !.mem = Commit(@, line)]
<1>6. \/ r = [ok |-> TRUE, d |-> g]
      \/ /\ class \in Failing /\ d.faults > 0
         /\ \E x \in {line, Torn, Split} : \E s \in Stuck(d, <<x>>) : r = [ok |-> FALSE, d |-> s]
  BY <1>0, <1>3 DEF Persist, Failed
<1>7. CASE r = [ok |-> TRUE, d |-> g]
  <2>1. /\ f.file = Append(d.file, line) /\ f.pending = << >> /\ f.tail = "none"
        /\ f.durable = d.durable
    BY <1>1, <1>2, OneLineFlushed
  <2>2. f \in Disk
    <3>1. PICK p \in Seq(Lines) : p = <<line>>
      <4>1. <<line>> \in Seq(Lines)
        BY <1>2
      <4> QED
        BY <4>1
    <3>2. Held(Flushed(d, p))
      BY <1>1, FlushedHolds
    <3> QED
      BY <3>1, <3>2 DEF Held
  <2> HIDE DEF f
  <2>3. /\ g.file = f.file /\ g.pending = f.pending /\ g.tail = f.tail /\ g.durable = f.durable
    BY <2>2 DEF Disk
  <2> HIDE DEF g
  <2>4. r.ok = TRUE /\ r.d = g
    BY <1>7
  <2>5. Valid(r.d.file)
    BY <1>1, <2>1, <2>3, <2>4, ValidGrows
  <2>6. r.d.durable <= Len(r.d.file)
    <3>1. Len(Append(d.file, line)) = Len(d.file) + 1 /\ Len(d.file) \in Nat
      BY <1>1
    <3> QED
      BY <1>1, <2>1, <2>3, <2>4, <3>1
  <2>7. Quiet(r.d)
    BY <1>5, <2>1, <2>3, <2>4, <2>5, <2>6 DEF Quiet, Orderly
  <2>8. r.d.mem = Commit(d.mem, line)
    BY <1>4, <2>4 DEF Appended
  <2> QED
    BY <1>5, <2>1, <2>3, <2>4, <2>7, <2>8
<1>8. CASE /\ class \in Failing /\ d.faults > 0
           /\ \E x \in {line, Torn, Split} : \E s \in Stuck(d, <<x>>) : r = [ok |-> FALSE, d |-> s]
  <2>1. PICK x \in {line, Torn, Split} : \E s \in Stuck(d, <<x>>) : r = [ok |-> FALSE, d |-> s]
    BY <1>8
  <2>2. PICK s \in Stuck(d, <<x>>) : r = [ok |-> FALSE, d |-> s]
    BY <2>1
  <2>3. r.ok = FALSE /\ r.d = s
    BY <2>2
  <2>4. /\ s.file = d.file /\ s.pending = <<x>> /\ s.durable = d.durable /\ s.mem = d.mem
        /\ x \in Begun => s.tail # "whole"
    BY <1>1, <1>2, <1>8, <2>1, OneLineStuck
  <2>5. s.pending[1] = x /\ Len(s.pending) = 1
    BY <2>4
  <2>6. Orderly(s)
    BY <1>1, <2>1, <2>4, <2>5, OddLines DEF Orderly
  <2> QED
    BY <1>5, <1>8, <2>3, <2>4, <2>5, <2>6
<1> QED
  BY <1>6, <1>7, <1>8

\* A sync of a quiet log.
LEMMA QuietSync ==
    ASSUME NEW d, Quiet(d), NEW r \in Sync(d)
    PROVE  /\ Quiet(r.d) /\ r.d.file = d.file /\ r.d.mem = d.mem
           /\ d.durable <= r.d.durable
<1>1. /\ Good(d) /\ d \in Disk /\ d.pending = << >> /\ Valid(d.file) /\ d.durable <= Len(d.file)
      /\ d.file \in Seq(Lines) /\ d.durable \in Nat /\ << >> \in Seq(Lines) /\ Len(d.file) \in Nat
  BY DEF Quiet, Orderly, Good, Held, Disk
<1>2. Synced(d, r)
  BY <1>1, SyncHolds
<1>3. Good(r.d) /\ r.d.mem = d.mem /\ r.d.pending = << >>
  BY <1>1, <1>2 DEF Synced
<1> DEFINE f == Flushed(d, d.pending)
           g == [f EXCEPT !.durable = Len(f.file)]
           h == [f EXCEPT !.faults = @ - 1]
<1>4. \/ r = [ok |-> TRUE, d |-> g]
      \/ r = [ok |-> FALSE, d |-> h]
      \/ d.faults > 0 /\ \E s \in Stuck(d, d.pending) : r = [ok |-> FALSE, d |-> s]
  BY DEF Sync
<1>5. /\ f \in Disk /\ f.durable = d.durable /\ f.tail = "none" /\ f.file = d.file \o << >>
  BY <1>1, FlushedHolds, ZenonT(30) DEF Held
<1>6. f.file = d.file
  BY <1>1, <1>5, ConcatEmptySeq
<1> HIDE DEF f
<1>7. /\ g.file = d.file /\ g.tail = "none" /\ g.durable = Len(d.file)
      /\ h.file = d.file /\ h.tail = "none" /\ h.durable = d.durable
  BY <1>5, <1>6 DEF Disk
<1>8. \/ r.d = g \/ r.d = h
  <2>1. ~ \E s \in Stuck(d, d.pending) : d.faults > 0
    BY <1>1, StuckHolds
  <2> QED
    BY <1>4, <2>1
<1> HIDE DEF g, h
<1>9. /\ r.d.file = d.file /\ r.d.tail = "none" /\ d.durable <= r.d.durable
      /\ r.d.durable <= Len(d.file)
  BY <1>1, <1>7, <1>8
<1>10. Orderly(r.d)
  BY <1>1, <1>3, <1>9 DEF Orderly
<1> QED
  BY <1>3, <1>9, <1>10 DEF Quiet

\* One list continues another.
Extends(a, b) == Len(a) <= Len(b) /\ \A k \in 1..Len(a) : b[k] = a[k]

\* At most n lines more, nothing lost, nothing less on disk.
Grew(d, s, n) ==
    /\ Clean(s) /\ Extends(d.file, s.file) /\ Len(s.file) <= Len(d.file) + n
    /\ d.durable <= s.durable

\* A clean log has as many lines as its state counts.
LEMMA CleanSize ==
    ASSUME NEW d, Clean(d)
    PROVE  /\ Good(d) /\ d.mem.seq = Len(d.file) /\ Len(d.file) \in Nat /\ d.durable \in Nat
           /\ d.durable <= Len(d.file) /\ Grew(d, d, 0)
<1>1. Good(d) /\ Valid(d.file) /\ d.mem = Replay(d.file).state /\ d.durable <= Len(d.file)
  BY DEF Clean, Quiet, Orderly
<1>2. Len(d.file) \in Nat /\ d.mem.seq = Len(d.file)
  BY <1>1, ValidSeq
<1>3. d.durable \in Nat
  BY <1>1 DEF Good, Held, Disk
<1> QED
  BY <1>1, <1>2, <1>3 DEF Grew, Extends

\* Growing is transitive.
LEMMA GrewTwice ==
    ASSUME NEW a, Clean(a), NEW m \in Nat, NEW b, Grew(a, b, m), NEW n \in Nat, NEW c, Grew(b, c, n)
    PROVE  Grew(a, c, m + n)
<1>1. /\ Len(a.file) \in Nat /\ Len(b.file) \in Nat /\ Len(c.file) \in Nat
      /\ a.durable \in Nat /\ b.durable \in Nat /\ c.durable \in Nat
  BY CleanSize DEF Grew
<1>2. Extends(a.file, c.file)
  <2>1. Len(a.file) <= Len(b.file) /\ Len(b.file) <= Len(c.file)
    BY DEF Grew, Extends
  <2>2. ASSUME NEW k \in 1..Len(a.file) PROVE c.file[k] = a.file[k]
    <3>1. k \in 1..Len(b.file)
      BY <1>1, <2>1
    <3> QED
      BY <3>1 DEF Grew, Extends
  <2> QED
    BY <1>1, <2>1, <2>2 DEF Extends
<1>3. Len(c.file) <= Len(a.file) + (m + n) /\ a.durable <= c.durable
  <2>1. /\ Len(b.file) <= Len(a.file) + m /\ Len(c.file) <= Len(b.file) + n
        /\ a.durable <= b.durable /\ b.durable <= c.durable
    BY DEF Grew
  <2>2. PICK x \in Nat, y \in Nat, z \in Nat :
          x = Len(a.file) /\ y = Len(b.file) /\ z = Len(c.file)
    BY <1>1
  <2>3. y <= x + m /\ z <= y + n
    BY <2>1, <2>2
  <2>4. z <= x + (m + n)
    BY <2>3
  <2>5. a.durable <= c.durable
    BY <1>1, <2>1
  <2> QED
    BY <2>2, <2>4, <2>5
<1> QED
  BY <1>2, <1>3 DEF Grew

\* An append and a sync of a clean log.
LEMMA CleanPersist ==
    ASSUME NEW d, Clean(d), NEW line \in Mutations, Validate(d.mem, line), NEW class,
           NEW r \in Persist(d, line, class)
    PROVE  /\ r.ok \in BOOLEAN /\ Good(r.d)
           /\ r.ok => Grew(d, r.d, 1) /\ r.d.mem = Commit(d.mem, line)
           /\ ~r.ok => /\ class \in Failing /\ Orderly(r.d) /\ r.d.file = d.file
                       /\ r.d.mem = d.mem /\ Len(r.d.pending) = 1 /\ r.d.durable = d.durable
<1>1. Quiet(d) /\ Valid(d.file) /\ Validate(Replay(d.file).state, line) /\ d.mem = Replay(d.file).state
  BY DEF Clean, Quiet, Orderly
<1>2. /\ r.ok \in BOOLEAN /\ Good(r.d) /\ r.d.durable = d.durable
      /\ r.ok => /\ Quiet(r.d) /\ r.d.file = Append(d.file, line)
                 /\ r.d.mem = Commit(d.mem, line)
      /\ ~r.ok => /\ class \in Failing /\ Orderly(r.d) /\ r.d.file = d.file
                  /\ r.d.mem = d.mem /\ Len(r.d.pending) = 1
  BY <1>1, QuietPersist
<1>3. ASSUME r.ok PROVE Grew(d, r.d, 1)
  <2>1. Quiet(r.d) /\ r.d.file = Append(d.file, line) /\ r.d.mem = Commit(d.mem, line)
    BY <1>2, <1>3
  <2>2. r.d.mem = Replay(r.d.file).state
    BY <1>1, <2>1, ValidGrows
  <2>3. d.file \in Seq(Mutations) /\ d.durable \in Nat
    BY <1>1, CleanSize DEF Valid
  <2>4. /\ Len(r.d.file) = Len(d.file) + 1 /\ Len(d.file) \in Nat
        /\ \A k \in 1..Len(d.file) : r.d.file[k] = d.file[k]
    BY <2>1, <2>3, AppendProperties
  <2> QED
    BY <1>2, <2>1, <2>2, <2>3, <2>4 DEF Grew, Extends, Clean
<1> QED
  BY <1>2, <1>3

\* A sync of a clean log adds nothing.
LEMMA CleanSync ==
    ASSUME NEW d, Clean(d), NEW r \in Sync(d)
    PROVE  Grew(d, r.d, 0) /\ r.d.mem = d.mem
<1>1. Quiet(d) /\ d.mem = Replay(d.file).state /\ Len(d.file) \in Nat
  BY CleanSize DEF Clean
<1>2. Quiet(r.d) /\ r.d.file = d.file /\ r.d.mem = d.mem /\ d.durable <= r.d.durable
  BY <1>1, QuietSync
<1> QED
  BY <1>1, <1>2 DEF Grew, Extends, Clean

\* With ordinary writes that do not fail.
LEMMA PlainPersist ==
    ASSUME "plain" \notin Failing, NEW d, Clean(d), NEW line \in Mutations, Validate(d.mem, line),
           NEW r \in Persist(d, line, "plain")
    PROVE  r.ok = TRUE /\ Grew(d, r.d, 1) /\ r.d.mem = Commit(d.mem, line)
<1>1. /\ r.ok \in BOOLEAN
      /\ r.ok => Grew(d, r.d, 1) /\ r.d.mem = Commit(d.mem, line)
      /\ ~r.ok => "plain" \in Failing
  BY CleanPersist
<1> QED
  BY <1>1

\* What open reads of an orderly log.
LEMMA ReadableIs ==
    ASSUME NEW d, Orderly(d)
    PROVE  /\ Valid(Readable(d)) /\ Extends(d.file, Readable(d))
           /\ d.tail # "whole" => Readable(d) = d.file
           /\ d.tail = "whole" =>
                /\ Readable(d) = Append(d.file, d.pending[1]) /\ d.pending = <<d.pending[1]>>
                /\ d.pending[1] \in Mutations /\ Validate(Replay(d.file).state, d.pending[1])
<1> DEFINE lines == IF d.tail = "whole" THEN Append(d.file, d.pending[1]) ELSE d.file
<1>1. Valid(d.file) /\ d.file \in Seq(Mutations) /\ Len(d.file) \in Nat
  BY DEF Orderly, Valid
<1>2. d.tail = "whole" => /\ d.pending = <<d.pending[1]>> /\ d.pending[1] \in Mutations
                          /\ Validate(Replay(d.file).state, d.pending[1])
  BY DEF Orderly
<1>3. Valid(lines)
  BY <1>1, <1>2, ValidGrows
<1>4. Extends(d.file, lines)
  <2>1. CASE d.tail = "whole"
    <3>1. PICK x \in Mutations : x = d.pending[1]
      BY <1>2, <2>1
    <3>2. /\ Len(Append(d.file, x)) = Len(d.file) + 1
          /\ \A k \in 1..Len(d.file) : Append(d.file, x)[k] = d.file[k]
      BY <1>1, AppendProperties
    <3>3. lines = Append(d.file, x)
      BY <2>1, <3>1
    <3> HIDE DEF lines
    <3> QED
      BY <1>1, <3>2, <3>3 DEF Extends
  <2>2. CASE d.tail # "whole"
    BY <1>1, <2>2 DEF Extends
  <2> QED
    BY <2>1, <2>2
<1>5. lines # << >> => lines[Len(lines)] # Garbage
  <2> HIDE DEF lines
  <2> SUFFICES ASSUME lines # << >> PROVE lines[Len(lines)] # Garbage
    OBVIOUS
  <2>1. lines \in Seq(Mutations)
    BY <1>3 DEF Valid
  <2>2. lines[Len(lines)] \in Mutations
    BY <2>1
  <2> QED
    BY <2>2, OddLines
<1>6. Readable(d) = lines
  BY <1>5 DEF Readable
<1> QED
  BY <1>2, <1>3, <1>4, <1>6

\* Only the end of an orderly log may keep it from being read.
LEMMA OrderlyIsLegible ==
    ASSUME NEW d, Orderly(d)
    PROVE  Legible(d) <=> d.tail # "split"
<1>1. d.file \in Seq(Mutations)
  BY DEF Orderly, Valid
<1>2. \A k \in 1..Len(d.file) : d.file[k] # Mangled
  BY <1>1, OddLines
<1>3. d.tail = "whole" => d.pending[1] # Mangled
  BY ReadableIs, OddLines
<1> QED
  BY <1>2, <1>3 DEF Legible

\* What the log's reader sees of a step that appends, and of one that loses.
Appends(d, s) ==
    /\ Extends(Readable(d), Readable(s)) /\ d.durable <= s.durable
    /\ s.durable <= Len(Readable(s))
Loses(d, s) ==
    /\ Extends(Readable(s), Readable(d)) /\ d.durable <= s.durable
    /\ s.durable <= Len(Readable(s))

\* An extension, in the words of DurableLog.
LEMMA ExtendsIsPrefix ==
    ASSUME NEW a \in Seq(Mutations), NEW b \in Seq(Mutations), Extends(a, b)
    PROVE  Len(a) <= Len(b) /\ SubSeq(b, 1, Len(a)) = a
<1>1. PICK n \in Nat : n = Len(a)
  OBVIOUS
<1>2. n <= Len(b) /\ \A k \in 1..n : b[k] = a[k]
  BY <1>1 DEF Extends
<1> DEFINE p == SubSeq(b, 1, n)
<1>3. /\ p \in Seq(Mutations) /\ Len(p) = (IF 1 <= n THEN n - 1 + 1 ELSE 0)
      /\ \A i \in 1..(n - 1 + 1) : p[i] = b[1 + i - 1]
  BY <1>2, Cut
<1> HIDE DEF p
<1>4. Len(p) = n /\ \A i \in 1..n : p[i] = a[i]
  BY <1>2, <1>3
<1>5. p = a
  BY <1>1, <1>3, <1>4, SeqEqual
<1> QED
  BY <1>1, <1>2, <1>5 DEF p

\* A step in the words of DurableLog.
LEMMA StepOfLog ==
    ASSUME Orderly(store), Orderly(store'), store.durable \in Nat, store'.durable \in Nat
    PROVE  /\ Appends(store, store') => /\ Log!Prefix(Readable(store), Readable(store'))
                                        /\ store'.durable \in store.durable..Len(Readable(store'))
           /\ Loses(store, store') => /\ Log!Prefix(Readable(store'), Readable(store))
                                      /\ store'.durable \in store.durable..Len(Readable(store'))
<1>1. Readable(store) \in Seq(Mutations) /\ Readable(store') \in Seq(Mutations)
  BY ReadableIs DEF Valid
<1>2. Len(Readable(store')) \in Nat
  BY <1>1
<1>3. Appends(store, store') \/ Loses(store, store')
        => store'.durable \in store.durable..Len(Readable(store'))
  <2> SUFFICES ASSUME Appends(store, store') \/ Loses(store, store')
               PROVE  store'.durable \in store.durable..Len(Readable(store'))
    OBVIOUS
  <2>1. store.durable <= store'.durable /\ store'.durable <= Len(Readable(store'))
    BY DEF Appends, Loses
  <2> QED
    BY <1>2, <2>1
<1>4. Appends(store, store') => Log!Prefix(Readable(store), Readable(store'))
  BY <1>1, ExtendsIsPrefix DEF Appends, Log!Prefix
<1>5. Loses(store, store') => Log!Prefix(Readable(store'), Readable(store))
  BY <1>1, ExtendsIsPrefix DEF Loses, Log!Prefix
<1> QED
  BY <1>3, <1>4, <1>5

\* At most n lines more, of which the last need not be complete.
Advanced(d, s, n) ==
    /\ Good(s) /\ Orderly(s) /\ s.mem = Replay(s.file).state
    /\ Extends(d.file, s.file) /\ Len(s.file) + Len(s.pending) <= Len(d.file) + n
    /\ d.durable <= s.durable

\* Complete lines are a special case.
LEMMA GrewAdvanced ==
    ASSUME NEW d, Clean(d), NEW n \in Nat, NEW s, Grew(d, s, n)
    PROVE  Advanced(d, s, n)
<1>1. Good(s) /\ Orderly(s) /\ s.mem = Replay(s.file).state /\ s.pending = << >>
  BY DEF Grew, Clean, Quiet
<1>2. Len(s.file) \in Nat /\ Len(s.pending) = 0
  BY <1>1, CleanSize DEF Grew
<1>3. Len(s.file) + Len(s.pending) = Len(s.file)
  BY <1>2
<1> QED
  BY <1>1, <1>3 DEF Advanced, Grew

\* Complete lines, then an append that may fail.
LEMMA AdvancedAfter ==
    ASSUME NEW a, Clean(a), NEW m \in Nat, NEW b, Grew(a, b, m), NEW n \in Nat, NEW c,
           Advanced(b, c, n)
    PROVE  Advanced(a, c, m + n)
<1>1. /\ Len(a.file) \in Nat /\ Len(b.file) \in Nat /\ a.durable \in Nat /\ b.durable \in Nat
      /\ Len(c.file) \in Nat /\ Len(c.pending) \in Nat /\ c.durable \in Nat
  <2>1. Len(a.file) \in Nat /\ Len(b.file) \in Nat /\ a.durable \in Nat /\ b.durable \in Nat
    BY CleanSize DEF Grew
  <2>2. c \in Disk
    BY DEF Advanced, Good, Held
  <2> QED
    BY <2>1, <2>2 DEF Disk
<1>2. Extends(a.file, c.file)
  <2>1. Len(a.file) <= Len(b.file) /\ Len(b.file) <= Len(c.file)
    BY DEF Grew, Extends, Advanced
  <2>2. ASSUME NEW k \in 1..Len(a.file) PROVE c.file[k] = a.file[k]
    <3>1. k \in 1..Len(b.file)
      BY <1>1, <2>1
    <3> QED
      BY <3>1 DEF Grew, Extends, Advanced
  <2> QED
    BY <1>1, <2>1, <2>2 DEF Extends
<1>3. Len(c.file) + Len(c.pending) <= Len(a.file) + (m + n) /\ a.durable <= c.durable
  <2>1. /\ Len(b.file) <= Len(a.file) + m /\ Len(c.file) + Len(c.pending) <= Len(b.file) + n
        /\ a.durable <= b.durable /\ b.durable <= c.durable
    BY DEF Grew, Advanced
  <2>2. PICK x \in Nat, y \in Nat, z \in Nat, p \in Nat :
          x = Len(a.file) /\ y = Len(b.file) /\ z = Len(c.file) /\ p = Len(c.pending)
    BY <1>1
  <2>3. y <= x + m /\ z + p <= y + n
    BY <2>1, <2>2
  <2>4. z + p <= x + (m + n)
    BY <2>3
  <2>5. a.durable <= c.durable
    BY <1>1, <2>1
  <2> QED
    BY <2>2, <2>4, <2>5
<1> QED
  BY <1>2, <1>3 DEF Advanced

\* A failed append to a clean log.
LEMMA FailedAdvanced ==
    ASSUME NEW d, Clean(d), NEW line \in Mutations, Validate(d.mem, line), NEW class,
           NEW r \in Persist(d, line, class)
    PROVE  r.ok \in BOOLEAN /\ Advanced(d, r.d, 1) /\ (r.ok => Clean(r.d))
<1>1. /\ r.ok \in BOOLEAN /\ Good(r.d)
      /\ r.ok => Grew(d, r.d, 1)
      /\ ~r.ok => /\ Orderly(r.d) /\ r.d.file = d.file
                  /\ r.d.mem = d.mem /\ Len(r.d.pending) = 1 /\ r.d.durable = d.durable
  BY CleanPersist
<1>2. CASE r.ok
  <2>1. Grew(d, r.d, 1)
    BY <1>1, <1>2
  <2>2. Advanced(d, r.d, 1)
    BY <2>1, GrewAdvanced
  <2> QED
    BY <1>1, <2>1, <2>2 DEF Grew
<1>3. CASE ~r.ok
  <2>1. /\ Len(d.file) \in Nat /\ d.durable \in Nat /\ d.mem = Replay(d.file).state
    BY CleanSize DEF Clean
  <2>2. /\ Orderly(r.d) /\ r.d.file = d.file
        /\ r.d.mem = d.mem /\ Len(r.d.pending) = 1 /\ r.d.durable = d.durable
    BY <1>1, <1>3
  <2>3. Advanced(d, r.d, 1)
    BY <1>1, <2>1, <2>2 DEF Advanced, Extends
  <2> QED
    BY <1>1, <1>3, <2>3
<1> QED
  BY <1>1, <1>2, <1>3

\* A commit: append and sync.
LEMMA CommitAdvanced ==
    ASSUME NEW d, Clean(d), NEW line \in Mutations, Validate(d.mem, line), NEW class,
           NEW r \in PersistAndSync(d, line, class)
    PROVE  Advanced(d, r.d, 1) /\ (r.ok => Clean(r.d)) /\ r.ok \in BOOLEAN
<1>1. PICK q \in Persist(d, line, class) : r \in IF q.ok THEN Sync(q.d) ELSE {q}
  BY DEF PersistAndSync
<1>2. q.ok \in BOOLEAN /\ Advanced(d, q.d, 1) /\ (q.ok => Clean(q.d))
  BY FailedAdvanced
<1>3. CASE q.ok
  <2>1. Grew(d, q.d, 1) /\ Clean(q.d) /\ r \in Sync(q.d)
    BY <1>1, <1>3, CleanPersist DEF Grew
  <2>2. Grew(q.d, r.d, 0)
    BY <2>1, CleanSync
  <2>3. PICK m \in Nat, n \in Nat : m = 1 /\ n = 0 /\ m + n = 1
    OBVIOUS
  <2>4. Grew(d, r.d, m + n)
    BY <2>1, <2>2, <2>3, GrewTwice
  <2>5. Grew(d, r.d, 1)
    BY <2>3, <2>4
  <2>6. r.ok \in BOOLEAN
    <3>1. Good(q.d)
      BY <2>1, CleanSize
    <3>2. Synced(q.d, r)
      BY <2>1, <3>1, SyncHolds
    <3> QED
      BY <3>2, Zenon DEF Synced
  <2>7. Advanced(d, r.d, 1) /\ Clean(r.d)
    BY <2>5, GrewAdvanced DEF Grew
  <2> QED
    BY <2>6, <2>7
<1>4. CASE ~q.ok
  <2>1. r = q
    BY <1>1, <1>4
  <2> QED
    BY <1>2, <2>1
<1> QED
  BY <1>2, <1>3, <1>4

(***************************************************************************)
(* The recovery invariant.                                                 *)
(***************************************************************************)
\* The log is orderly and within its bounds.  Whoever may write has a clean one; after
\* a failed commit the state is what the complete lines say, or a sync has completed
\* the line that failed; nobody holds what a crash or a close left.
RecoveryInv ==
    /\ Orderly(store) /\ Len(store.file) + Len(store.pending) <= MaxSeq + 2
    /\ writeFailed \in BOOLEAN /\ live \in BOOLEAN /\ crashes \in 0..MaxCrashes
    /\ reply \in {"none", "moved", "failed"}
    /\ live /\ ~writeFailed => Clean(store)
    /\ live /\ writeFailed =>
         \/ store.mem = Replay(store.file).state
         \/ store.pending = << >> /\ Replay(store.file).state.seq = store.mem.seq + 1
    /\ ~live => /\ ~writeFailed /\ history = << >> /\ store.mem = EmptyState
                /\ store.tail = "none" => store.pending = << >>

\* A step that keeps this and is a step of the log its readers see.
Recovers == RecoveryInv' /\ (Appends(store, store') \/ (Crash /\ Loses(store, store')))

\* Nothing that was read is lost when lines are appended to a clean log.
LEMMA AdvancedReads ==
    ASSUME NEW d, Clean(d), NEW n \in Nat, NEW s, Advanced(d, s, n)
    PROVE  Appends(d, s)
<1>1. Orderly(d) /\ Orderly(s) /\ d.tail = "none" /\ Extends(d.file, s.file)
  <2>1. Orderly(d) /\ d.pending = << >>
    BY DEF Clean, Quiet
  <2>2. d.tail = "none"
    <3>1. \A x : << >> # <<x>>
      OBVIOUS
    <3> QED
      BY <2>1, <3>1 DEF Orderly
  <2> QED
    BY <2>1, <2>2 DEF Advanced
<1>2. Readable(d) = d.file /\ Extends(s.file, Readable(s)) /\ Valid(Readable(s))
  BY <1>1, ReadableIs
<1>3. Len(d.file) \in Nat /\ Len(s.file) \in Nat /\ Len(Readable(s)) \in Nat
  BY <1>1, <1>2, ValidSeq DEF Orderly
<1>4. Extends(d.file, Readable(s))
  <2>1. Len(d.file) <= Len(s.file) /\ Len(s.file) <= Len(Readable(s))
    BY <1>1, <1>2 DEF Extends
  <2>2. ASSUME NEW k \in 1..Len(d.file) PROVE Readable(s)[k] = d.file[k]
    <3>1. k \in 1..Len(s.file)
      BY <1>3, <2>1
    <3> QED
      BY <1>1, <1>2, <3>1 DEF Extends
  <2> QED
    BY <1>3, <2>1, <2>2 DEF Extends
<1>5. s.durable <= Len(Readable(s))
  <2>1. s.durable \in Nat /\ s.durable <= Len(s.file) /\ Len(s.file) <= Len(Readable(s))
    BY <1>1, <1>2 DEF Advanced, Good, Held, Disk, Orderly, Extends
  <2> QED
    BY <1>3, <2>1
<1> QED
  BY <1>2, <1>4, <1>5 DEF Appends, Advanced

\* A step of a transcript that is not uncertain.
LEMMA WriteRecovers ==
    ASSUME RecoveryInv, live, ~writeFailed, NEW n \in Nat, Room(n), NEW k \in Nat, k <= n + 2,
           Advanced(store, store', k), writeFailed' \in BOOLEAN,
           ~writeFailed' => Clean(store'), live' = live, crashes' = crashes,
           reply' \in {"none", "moved", "failed"}
    PROVE  Recovers
<1>1. Clean(store)
  BY DEF RecoveryInv
<1>2. store.mem.seq = Len(store.file) /\ Len(store.file) \in Nat
  BY <1>1, CleanSize
<1>3. Appends(store, store')
  BY <1>1, AdvancedReads
<1>4. Len(store'.file) + Len(store'.pending) <= MaxSeq + 2
  <2>1. /\ Len(store'.file) + Len(store'.pending) <= Len(store.file) + k
        /\ Len(store.file) + n <= MaxSeq /\ store' \in Disk
    BY <1>2 DEF Advanced, Room, Good, Held
  <2>2. Len(store'.file) \in Nat /\ Len(store'.pending) \in Nat
    BY <2>1 DEF Disk
  <2>3. PICK x \in Nat, y \in Nat, z \in Nat :
           x = Len(store.file) /\ y = Len(store'.file) /\ z = Len(store'.pending)
    BY <1>2, <2>2
  <2>4. y + z <= x + k /\ x + n <= MaxSeq /\ MaxSeq \in Nat
    BY <2>1, <2>3, StoreAssumption
  <2>5. y + z <= MaxSeq + 2
    BY <2>4
  <2> QED
    BY <2>3, <2>5
<1>5. Orderly(store') /\ store'.mem = Replay(store'.file).state
  BY DEF Advanced
<1> QED
  BY <1>3, <1>4, <1>5 DEF Recovers, RecoveryInv

\* Who may write has a clean log.
LEMMA WritableIsClean ==
    ASSUME RecoveryInv, Writable
    PROVE  live /\ ~writeFailed /\ writeFailed = FALSE /\ Clean(store) /\ Good(store)
<1>1. live /\ ~writeFailed /\ writeFailed \in BOOLEAN /\ Clean(store)
  BY DEF Writable, RecoveryInv
<1> QED
  BY <1>1, CleanSize

\* One ordinary line.
LEMMA PlainLineRecovers ==
    ASSUME RecoveryInv, Writable, Room(1), "plain" \notin Failing,
           NEW line \in Mutations, Validate(store.mem, line),
           NEW r, r \in Persist(store, line, "plain") \cup PersistAndSync(store, line, "plain"),
           store' = r.d, reply' = "none", UNCHANGED <<writeFailed, live, crashes>>
    PROVE  Recovers
<1>1. live /\ ~writeFailed /\ writeFailed = FALSE /\ Clean(store)
  BY WritableIsClean
<1>2. Advanced(store, r.d, 1) /\ Clean(r.d)
  <2>1. CASE r \in Persist(store, line, "plain")
    <3>1. Grew(store, r.d, 1)
      BY <1>1, <2>1, PlainPersist
    <3> QED
      BY <1>1, <3>1, GrewAdvanced DEF Grew
  <2>2. CASE r \in PersistAndSync(store, line, "plain")
    <3>1. PICK q \in Persist(store, line, "plain") : r \in IF q.ok THEN Sync(q.d) ELSE {q}
      BY <2>2 DEF PersistAndSync
    <3>2. q.ok = TRUE /\ Grew(store, q.d, 1)
      BY <1>1, <3>1, PlainPersist
    <3>3. r \in Sync(q.d) /\ Clean(q.d)
      BY <3>1, <3>2 DEF Grew
    <3>4. Clean(r.d)
      BY <3>3, CleanSync DEF Grew
    <3>5. Advanced(store, r.d, 1)
      BY <1>1, <2>2, CommitAdvanced
    <3> QED
      BY <3>4, <3>5
  <2> QED
    BY <2>1, <2>2
<1>3. PICK n \in Nat : n = 1 /\ n <= n + 2
  OBVIOUS
<1> QED
  BY <1>1, <1>2, <1>3, WriteRecovers

\* append_record.
LEMMA AppendRecordRecovers ==
    ASSUME RecoveryInv, "plain" \notin Failing, AppendRecord PROVE Recovers
<1> DEFINE line == RecordLine(NextSeq(store))
<1>1. Writable /\ Room(1) /\ reply' = "none" /\ UNCHANGED <<writeFailed, live, crashes>>
  BY DEF AppendRecord
<1>2. PICK r \in Persist(store, line, "plain") : store' = r.d
  BY DEF AppendRecord
<1>3. line \in Mutations /\ Validate(store.mem, line)
  BY <1>1, WritableIsClean, FactValid
<1> HIDE DEF line
<1> QED
  BY <1>1, <1>2, <1>3, PlainLineRecovers

\* set_label.
LEMMA SetLabelRecovers ==
    ASSUME RecoveryInv, "plain" \notin Failing, NEW e \in Entries, NEW b \in BOOLEAN, SetLabel(e, b)
    PROVE  Recovers
<1> DEFINE line == LabelLine(NextSeq(store), e, b)
<1>1. Writable /\ Room(1) /\ reply' = "none" /\ UNCHANGED <<writeFailed, live, crashes>>
  BY DEF SetLabel
<1>2. PICK r \in Persist(store, line, "plain") : store' = r.d
  BY DEF SetLabel
<1>3. e \in Stored(store.mem) /\ Good(store)
  BY <1>1, WritableIsClean DEF SetLabel, Fresh
<1>4. line \in Mutations /\ Validate(store.mem, line)
  BY <1>3, LabelValid
<1> HIDE DEF line
<1> QED
  BY <1>1, <1>2, <1>4, PlainLineRecovers

\* SessionRename::apply.
LEMMA RenameRecovers ==
    ASSUME RecoveryInv, "plain" \notin Failing, NEW n \in Names, Rename(n) PROVE Recovers
<1> DEFINE line == NameLine(NextSeq(store), n)
<1>1. Writable /\ Room(1) /\ reply' = "none" /\ UNCHANGED <<writeFailed, live, crashes>>
  BY DEF Rename
<1>2. PICK r \in PersistAndSync(store, line, "plain") : store' = r.d
  BY DEF Rename
<1>3. line \in Mutations /\ Validate(store.mem, line)
  BY <1>1, WritableIsClean, FactValid
<1> HIDE DEF line
<1> QED
  BY <1>1, <1>2, <1>3, PlainLineRecovers

\* append_store_only_entry and append_extension_entry.
LEMMA AppendStoreOnlyEntryRecovers ==
    ASSUME RecoveryInv, "plain" \notin Failing, NEW e \in Entries, AppendStoreOnlyEntry(e)
    PROVE  Recovers
<1> DEFINE line == NewEntry(store, e, "custom", << >>)
<1>1. Writable /\ Room(1) /\ reply' = "none" /\ UNCHANGED <<writeFailed, live, crashes>>
  BY DEF AppendStoreOnlyEntry
<1>2. PICK r \in Persist(store, line, "plain") : store' = r.d
  BY DEF AppendStoreOnlyEntry
<1>3. e \notin Stored(store.mem) /\ Good(store) /\ "custom" \in Types
  BY <1>1, WritableIsClean DEF AppendStoreOnlyEntry, Fresh, Types
<1>4. line \in Mutations /\ Validate(store.mem, line)
  BY <1>3, PlainEntryValid
<1> HIDE DEF line
<1> QED
  BY <1>1, <1>2, <1>4, PlainLineRecovers

\* append_context_message.
LEMMA AppendContextMessageRecovers ==
    ASSUME RecoveryInv, "plain" \notin Failing, NEW e \in Entries, NEW t \in {"user", "reply"},
           AppendContextMessage(e, t)
    PROVE  Recovers
<1> DEFINE line == NewEntry(store, e, t, << >>)
<1>1. Writable /\ Room(1) /\ reply' = "none" /\ UNCHANGED <<writeFailed, live, crashes>>
  BY DEF AppendContextMessage
<1>2. PICK r \in Persist(store, line, "plain") : store' = r.d
  BY DEF AppendContextMessage
<1>3. e \notin Stored(store.mem) /\ Good(store) /\ t \in Types
  BY <1>1, WritableIsClean DEF AppendContextMessage, Fresh, Types
<1>4. line \in Mutations /\ Validate(store.mem, line)
  BY <1>3, PlainEntryValid
<1> HIDE DEF line
<1> QED
  BY <1>1, <1>2, <1>4, PlainLineRecovers

\* commit_compaction.
LEMMA CommitCompactionRecovers ==
    ASSUME ContextInv, RecoveryInv, "plain" \notin Failing, NEW e \in Entries, CommitCompaction(e)
    PROVE  Recovers
<1>1. Writable /\ Room(1) /\ reply' = "none" /\ UNCHANGED <<writeFailed, live, crashes>>
  BY DEF CommitCompaction
<1>2. e \notin Stored(store.mem) /\ Good(store) /\ "compaction" \in Types /\ live
  BY <1>1, WritableIsClean DEF CommitCompaction, Fresh, Types
<1>3. history \in Seq(Entries)
  BY <1>2, HistoryTyped DEF ContextInv, HistoryMatchesStore, Good
<1>4. PICK from \in 1..(Len(history) + 1), to \in 0..Len(history) :
         \E r \in Persist(store, NewEntry(store, e, "compaction", SubSeq(history, from, to)), "plain") :
            store' = r.d
  BY DEF CommitCompaction
<1> DEFINE kept == SubSeq(history, from, to)
           line == NewEntry(store, e, "compaction", kept)
<1>5. PICK r \in Persist(store, line, "plain") : store' = r.d
  BY <1>4
<1>6. kept \in Seq(Entries)
  <2>1. Len(history) \in Nat
    BY <1>3
  <2>2. from \in Nat \ {0} /\ to \in Nat /\ to <= Len(history)
    BY <2>1
  <2> QED
    BY <1>3, <2>2, Cut
<1> HIDE DEF kept
<1>7. line \in Mutations /\ Validate(store.mem, line)
  BY <1>2, <1>6, EntryValid
<1> HIDE DEF line
<1> QED
  BY <1>1, <1>5, <1>7, PlainLineRecovers

\* A setting: an append and a sync after whose failure nothing more is written.
LEMMA CommitSettingRecovers ==
    ASSUME RecoveryInv, NEW e \in Entries, CommitSetting(e)
    PROVE  Recovers
<1> DEFINE line == NewEntry(store, e, "custom", << >>)
<1>1. Writable /\ Room(1) /\ reply' = "none" /\ UNCHANGED <<live, crashes>>
  BY DEF CommitSetting
<1>2. PICK r \in PersistAndSync(store, line, "commit") : store' = r.d /\ writeFailed' = ~r.ok
  BY DEF CommitSetting
<1>3. /\ e \notin Stored(store.mem) /\ Good(store) /\ "custom" \in Types
      /\ live /\ ~writeFailed /\ Clean(store)
  BY <1>1, WritableIsClean DEF CommitSetting, Fresh, Types
<1>4. line \in Mutations /\ Validate(store.mem, line)
  BY <1>3, PlainEntryValid
<1> HIDE DEF line
<1>5. Advanced(store, r.d, 1) /\ (r.ok => Clean(r.d)) /\ r.ok \in BOOLEAN
  BY <1>2, <1>3, <1>4, CommitAdvanced
<1>6. PICK n \in Nat : n = 1 /\ n <= n + 2
  OBVIOUS
<1>7. writeFailed' \in BOOLEAN /\ (~writeFailed' => Clean(store'))
  BY <1>2, <1>5
<1> QED
  BY <1>1, <1>2, <1>3, <1>5, <1>6, <1>7, WriteRecovers

\* commit_records.
LEMMA CommitRecordsRecovers ==
    ASSUME RecoveryInv, NEW n \in 1..2, CommitRecords(n)
    PROVE  Recovers
<1> DEFINE line == RecordLine(NextSeq(store))
<1>1. Writable /\ Room(n) /\ reply' = "none" /\ UNCHANGED <<live, crashes>>
  BY DEF CommitRecords
<1>2. live /\ ~writeFailed /\ Clean(store) /\ Good(store)
  BY <1>1, WritableIsClean
<1>3. PICK r \in Persist(store, line, "commit") :
         \E q \in IF ~r.ok THEN {r}
                  ELSE IF n = 1 THEN Sync(r.d)
                  ELSE PersistAndSync(r.d, RecordLine(NextSeq(r.d)), "commit") :
            store' = q.d /\ writeFailed' = ~q.ok
  BY DEF CommitRecords
<1>4. PICK q \in IF ~r.ok THEN {r}
                  ELSE IF n = 1 THEN Sync(r.d)
                  ELSE PersistAndSync(r.d, RecordLine(NextSeq(r.d)), "commit") :
            store' = q.d /\ writeFailed' = ~q.ok
  BY <1>3
<1>5. line \in Mutations /\ Validate(store.mem, line)
  BY <1>2, FactValid
<1> HIDE DEF line
<1>6. r.ok \in BOOLEAN /\ Advanced(store, r.d, 1) /\ (r.ok => Clean(r.d))
  BY <1>2, <1>5, FailedAdvanced
<1>7. r.ok => Grew(store, r.d, 1)
  BY <1>2, <1>5, CleanPersist
<1>8. PICK one \in Nat, none \in Nat, two \in Nat :
        /\ one = 1 /\ none = 0 /\ two = 2 /\ one + none = one /\ one + one = two
        /\ n \in Nat /\ one <= n + 2 /\ two <= n + 2
  OBVIOUS
<1>9. \E k \in Nat : /\ k <= n + 2 /\ Advanced(store, q.d, k)
                     /\ q.ok \in BOOLEAN /\ (q.ok => Clean(q.d))
  <2>1. CASE ~r.ok
    BY <1>4, <1>6, <1>8, <2>1
  <2>2. CASE r.ok /\ n = 1
    <3>1. q \in Sync(r.d) /\ Clean(r.d) /\ Good(r.d) /\ Grew(store, r.d, one)
      BY <1>4, <1>6, <1>7, <1>8, <2>2, CleanSize
    <3>2. Grew(r.d, q.d, none)
      BY <1>8, <3>1, CleanSync
    <3>3. Grew(store, q.d, one + none)
      BY <1>2, <3>1, <3>2, GrewTwice
    <3>4. Advanced(store, q.d, one) /\ Clean(q.d)
      BY <1>2, <1>8, <3>3, GrewAdvanced DEF Grew
    <3>5. q.ok \in BOOLEAN
      <4>1. Synced(r.d, q)
        BY <3>1, SyncHolds
      <4> QED
        BY <4>1, Zenon DEF Synced
    <3> QED
      BY <1>8, <3>4, <3>5
  <2>3. CASE r.ok /\ n # 1
    <3> DEFINE second == RecordLine(NextSeq(r.d))
    <3>1. /\ q \in PersistAndSync(r.d, second, "commit") /\ Clean(r.d) /\ Good(r.d)
          /\ Grew(store, r.d, one)
      BY <1>4, <1>6, <1>7, <1>8, <2>3, CleanSize
    <3>2. second \in Mutations /\ Validate(r.d.mem, second)
      BY <3>1, FactValid
    <3> HIDE DEF second
    <3>3. Advanced(r.d, q.d, one) /\ (q.ok => Clean(q.d)) /\ q.ok \in BOOLEAN
      BY <1>8, <3>1, <3>2, CommitAdvanced
    <3>4. Advanced(store, q.d, one + one)
      BY <1>2, <3>1, <3>3, AdvancedAfter
    <3> QED
      BY <1>8, <3>3, <3>4
  <2> QED
    BY <1>6, <2>1, <2>2, <2>3
<1>10. PICK k \in Nat : /\ k <= n + 2 /\ Advanced(store, q.d, k)
                        /\ q.ok \in BOOLEAN /\ (q.ok => Clean(q.d))
  BY <1>9
<1>11. writeFailed' \in BOOLEAN /\ (~writeFailed' => Clean(store'))
  BY <1>4, <1>10
<1> QED
  BY <1>1, <1>2, <1>4, <1>8, <1>10, <1>11, WriteRecovers

\* commit_consumed.
LEMMA CommitConsumedRecovers ==
    ASSUME RecoveryInv, NEW e \in Entries, CommitConsumed(e)
    PROVE  Recovers
<1> DEFINE line == NewEntry(store, e, "user", << >>)
<1>1. Writable /\ Room(2) /\ reply' = "none" /\ UNCHANGED <<live, crashes>>
  BY DEF CommitConsumed
<1>2. /\ live /\ ~writeFailed /\ Clean(store) /\ Good(store)
      /\ e \notin Stored(store.mem) /\ "user" \in Types
  BY <1>1, WritableIsClean DEF CommitConsumed, Fresh, Types
<1>3. PICK r \in Persist(store, line, "commit") :
         \E q \in IF r.ok THEN Persist(r.d, RecordLine(NextSeq(r.d)), "commit") ELSE {r} :
            store' = q.d /\ writeFailed' = ~q.ok
  BY DEF CommitConsumed
<1>4. PICK q \in IF r.ok THEN Persist(r.d, RecordLine(NextSeq(r.d)), "commit") ELSE {r} :
            store' = q.d /\ writeFailed' = ~q.ok
  BY <1>3
<1>5. line \in Mutations /\ Validate(store.mem, line)
  BY <1>2, PlainEntryValid
<1> HIDE DEF line
<1>6. r.ok \in BOOLEAN /\ Advanced(store, r.d, 1) /\ (r.ok => Clean(r.d))
  BY <1>2, <1>5, FailedAdvanced
<1>7. r.ok => Grew(store, r.d, 1)
  BY <1>2, <1>5, CleanPersist
<1>8. PICK one \in Nat, two \in Nat :
        one = 1 /\ two = 2 /\ one + one = two /\ one <= two + 2 /\ two <= two + 2
  OBVIOUS
<1>9. \E k \in Nat : /\ k <= two + 2 /\ Advanced(store, q.d, k)
                     /\ q.ok \in BOOLEAN /\ (q.ok => Clean(q.d))
  <2>1. CASE ~r.ok
    BY <1>4, <1>6, <1>8, <2>1
  <2>2. CASE r.ok
    <3> DEFINE second == RecordLine(NextSeq(r.d))
    <3>1. /\ q \in Persist(r.d, second, "commit") /\ Clean(r.d) /\ Good(r.d)
          /\ Grew(store, r.d, one)
      BY <1>4, <1>6, <1>7, <1>8, <2>2, CleanSize
    <3>2. second \in Mutations /\ Validate(r.d.mem, second)
      BY <3>1, FactValid
    <3> HIDE DEF second
    <3>3. Advanced(r.d, q.d, one) /\ (q.ok => Clean(q.d)) /\ q.ok \in BOOLEAN
      BY <1>8, <3>1, <3>2, FailedAdvanced
    <3>4. Advanced(store, q.d, one + one)
      BY <1>2, <3>1, <3>3, AdvancedAfter
    <3> QED
      BY <1>8, <3>3, <3>4
  <2> QED
    BY <1>6, <2>1, <2>2
<1>10. PICK k \in Nat : /\ k <= two + 2 /\ Advanced(store, q.d, k)
                        /\ q.ok \in BOOLEAN /\ (q.ok => Clean(q.d))
  BY <1>9
<1>11. writeFailed' \in BOOLEAN /\ (~writeFailed' => Clean(store'))
  BY <1>4, <1>10
<1> QED
  BY <1>1, <1>2, <1>4, <1>8, <1>10, <1>11, WriteRecovers

(***************************************************************************)
(* Bytes on their way to the file.                                         *)
(***************************************************************************)

\* Extensions compose; a line more is one.
LEMMA ExtendsMore ==
    ASSUME NEW l \in Seq(Mutations)
    PROVE  Extends(l, l) /\ \A x \in Mutations : Extends(l, Append(l, x))
<1>1. Extends(l, l)
  BY DEF Extends
<1>2. ASSUME NEW x \in Mutations PROVE Extends(l, Append(l, x))
  <2>1. /\ Len(Append(l, x)) = Len(l) + 1 /\ Len(l) \in Nat
        /\ \A k \in 1..Len(l) : Append(l, x)[k] = l[k]
    BY AppendProperties
  <2> QED
    BY <2>1 DEF Extends
<1> QED
  BY <1>1, <1>2

\* Extensions compose.
LEMMA ExtendsOn ==
    ASSUME NEW a, NEW b, NEW c, Len(a) \in Nat, Len(b) \in Nat, Len(c) \in Nat,
           Extends(a, b), Extends(b, c)
    PROVE  Extends(a, c)
<1>1. PICK x \in Nat, y \in Nat, z \in Nat : x = Len(a) /\ y = Len(b) /\ z = Len(c)
  OBVIOUS
<1>2. x <= y /\ y <= z
  BY <1>1 DEF Extends
<1>3. ASSUME NEW k \in 1..x PROVE c[k] = a[k]
  <2>1. k \in 1..y
    BY <1>2
  <2> QED
    BY <1>1, <2>1 DEF Extends
<1>4. x <= z
  BY <1>2
<1> QED
  BY <1>1, <1>3, <1>4 DEF Extends

\* An empty writer has left no part of a line.
LEMMA EmptyTail ==
    ASSUME NEW d, Orderly(d), d.pending = << >>
    PROVE  d.tail = "none" /\ Readable(d) = d.file
<1>1. \A x : << >> # <<x>>
  OBVIOUS
<1>2. d.tail = "none"
  BY <1>1 DEF Orderly
<1> QED
  BY <1>2, ReadableIs

\* Of the line in the writer as much is in the file as before, or more, or all of it.
Settled(d, s) ==
    /\ Held(s) /\ Orderly(s) /\ s.mem = d.mem /\ d.durable <= s.durable
    /\ \/ s.file = d.file /\ s.pending = d.pending /\ (d.tail = "whole" => s.tail = "whole")
       \/ /\ d.pending = <<d.pending[1]>> /\ d.pending[1] \in Mutations
          /\ Validate(Replay(d.file).state, d.pending[1])
          /\ s.file = Append(d.file, d.pending[1]) /\ s.pending = << >>

\* A flush of what is in the writer.
LEMMA FlushSettles ==
    ASSUME NEW d, Held(d), Orderly(d)
    PROVE  /\ Settled(d, Flushed(d, d.pending)) /\ Flushed(d, d.pending) \in Disk
           /\ Flushed(d, d.pending).durable = d.durable
<1> DEFINE f == Flushed(d, d.pending)
<1>1. d \in Disk /\ d.file \in Seq(Lines) /\ d.pending \in Seq(Lines) /\ d.durable \in Nat
  BY DEF Held, Disk
<1>2. Held(f) /\ f.mem = d.mem /\ f.durable = d.durable /\ f \in Disk
  BY <1>1, FlushedHolds DEF Held
<1>3. Valid(d.file) /\ d.durable <= Len(d.file) /\ d.file \in Seq(Mutations) /\ Len(d.file) \in Nat
  BY DEF Orderly, Valid
<1>4. CASE d.pending = << >>
  <2>1. f.file = d.file \o << >> /\ f.pending = << >> /\ f.tail = "none"
    BY <1>1, <1>4, FlushedHolds
  <2>2. f.file = d.file
    BY <1>1, <2>1, ConcatEmptySeq
  <2> HIDE DEF f
  <2>3. Orderly(f)
    BY <1>2, <1>3, <2>1, <2>2 DEF Orderly
  <2>4. d.tail = "none"
    BY <1>4, EmptyTail
  <2>5. Settled(d, f)
    BY <1>1, <1>2, <1>4, <2>1, <2>2, <2>3, <2>4 DEF Settled
  <2> QED
    BY <1>2, <2>5 DEF f
<1>5. CASE \E x \in Begun : d.pending = <<x>> /\ d.tail # "whole"
  <2>1. PICK p \in Seq(Lines) : p = d.pending
    BY <1>1
  <2>2. p # << >> /\ p[Len(p)] \in Begun /\ Len(p) = 1
    BY <1>5, <2>1
  <2>3. PICK n \in 0..Len(p), t \in Parts :
          n = 0 /\ t = p[Len(p)].kind /\ t \in {"torn", "split"}
    BY <2>2, OddLines
  <2>4. f = Written(d, p, n, t)
    BY <2>1, <2>2, <2>3 DEF Flushed
  <2> HIDE DEF f
  <2>5. f.tail = t /\ f.file = d.file \o SubSeq(p, 1, n) /\ f.pending = SubSeq(p, n + 1, Len(p))
    BY <1>1, <2>4, WrittenHolds
  <2>6. SubSeq(p, 1, n) = << >>
    BY <2>3, SubSeqEmpty
  <2>7. SubSeq(p, n + 1, Len(p)) = p
    <3>1. SubSeq(p, 1, Len(p)) = p
      BY Pieces
    <3> QED
      BY <2>3, <3>1
  <2>8. f.file = d.file /\ f.pending = d.pending /\ f.tail \in {"torn", "split"}
    BY <1>1, <2>1, <2>3, <2>5, <2>6, <2>7, ConcatEmptySeq
  <2>9. Orderly(f)
    BY <1>2, <1>3, <1>5, <2>8 DEF Orderly
  <2>10. Settled(d, f)
    BY <1>1, <1>2, <1>5, <2>8, <2>9 DEF Settled
  <2> QED
    BY <1>2, <2>10 DEF f
<1>6. CASE /\ d.pending = <<d.pending[1]>> /\ d.pending[1] \in Mutations
           /\ Validate(Replay(d.file).state, d.pending[1])
  <2>1. PICK x \in Mutations : x = d.pending[1]
    BY <1>6
  <2>2. d.pending = <<x>> /\ x \in Lines /\ x \notin Begun
    BY <1>6, <2>1, OddLines
  <2>3. f.file = Append(d.file, x) /\ f.pending = << >> /\ f.tail = "none"
    BY <1>1, <2>2, OneLineFlushed
  <2> HIDE DEF f
  <2>4. Valid(Append(d.file, x))
    BY <1>3, <1>6, <2>1, ValidGrows
  <2>5. Len(Append(d.file, x)) = Len(d.file) + 1
    BY <1>3
  <2>6. Orderly(f)
    BY <1>1, <1>2, <1>3, <2>3, <2>4, <2>5 DEF Orderly
  <2>7. Settled(d, f)
    BY <1>1, <1>2, <1>6, <2>1, <2>3, <2>6 DEF Settled
  <2> QED
    BY <1>2, <2>7 DEF f
<1> QED
  BY <1>4, <1>5, <1>6 DEF Orderly

\* A sync, whether it succeeds or fails.
LEMMA SyncSettles ==
    ASSUME NEW d, Good(d), Orderly(d), NEW r \in Sync(d)
    PROVE  Settled(d, r.d)
<1> DEFINE f == Flushed(d, d.pending)
           g == [f EXCEPT !.durable = Len(f.file)]
           h == [f EXCEPT !.faults = @ - 1]
<1>1. Held(d) /\ d \in Disk /\ d.durable \in Nat
  BY DEF Good, Held, Disk
<1>2. Settled(d, f) /\ f \in Disk /\ f.durable = d.durable
  BY <1>1, FlushSettles
<1>3. Good(r.d)
  <2>1. Synced(d, r)
    BY SyncHolds
  <2> QED
    BY <2>1 DEF Synced
<1>4. \/ r = [ok |-> TRUE, d |-> g]
      \/ r = [ok |-> FALSE, d |-> h]
      \/ d.faults > 0 /\ \E s \in Stuck(d, d.pending) : r = [ok |-> FALSE, d |-> s]
  BY DEF Sync
<1>5. Held(r.d)
  BY <1>3 DEF Good
<1> HIDE DEF f
<1>6. /\ g.file = f.file /\ g.pending = f.pending /\ g.tail = f.tail /\ g.mem = f.mem
      /\ g.durable = Len(f.file)
      /\ h.file = f.file /\ h.pending = f.pending /\ h.tail = f.tail /\ h.mem = f.mem
      /\ h.durable = f.durable
  BY <1>2 DEF Disk
<1> HIDE DEF g, h
<1>7. Orderly(f) /\ f.durable <= Len(f.file) /\ Len(f.file) \in Nat
  BY <1>2 DEF Settled, Orderly, Valid
<1>8. CASE r.d = g
  <2>1. Orderly(r.d)
    BY <1>6, <1>7, <1>8 DEF Orderly
  <2>2. d.durable <= r.d.durable
    BY <1>1, <1>2, <1>6, <1>7, <1>8
  <2> QED
    BY <1>2, <1>5, <1>6, <1>8, <2>1, <2>2 DEF Settled
<1>9. CASE r.d = h
  <2>1. Orderly(r.d)
    BY <1>6, <1>7, <1>9 DEF Orderly
  <2>2. d.durable <= r.d.durable
    BY <1>1, <1>2, <1>6, <1>9
  <2> QED
    BY <1>2, <1>5, <1>6, <1>9, <2>1, <2>2 DEF Settled
<1>10. CASE d.faults > 0 /\ \E s \in Stuck(d, d.pending) : r = [ok |-> FALSE, d |-> s]
  <2>1. PICK s \in Stuck(d, d.pending) : r.d = s
    BY <1>10
  <2>2. d.pending # << >>
    BY <1>1, <1>10, <2>1, StuckHolds DEF Disk
  <2>3. PICK x \in Lines :
           /\ d.pending = <<x>>
           /\ \/ x \in Begun
              \/ x \in Mutations /\ Validate(Replay(d.file).state, x)
    BY <2>2, OddLines DEF Orderly
  <2>4. s \in Stuck(d, <<x>>)
    BY <2>1, <2>3
  <2>5. /\ s.file = d.file /\ s.pending = <<x>> /\ s.durable = d.durable /\ s.mem = d.mem
        /\ x \in Begun => s.tail # "whole"
        /\ d.tail = "whole" => s.tail = "whole"
    BY <1>1, <1>10, <2>4, OneLineStuck
  <2>6. s.pending[1] = x
    BY <2>5
  <2>7. Orderly(s)
    BY <2>3, <2>5, <2>6 DEF Orderly
  <2> QED
    BY <1>1, <1>5, <2>1, <2>3, <2>5, <2>7 DEF Settled
<1> QED
  BY <1>4, <1>8, <1>9, <1>10

\* Nothing that was read is lost, and no line is added.
Settles(d, s) ==
    /\ Held(s) /\ Orderly(s) /\ Extends(Readable(d), Readable(s)) /\ d.durable <= s.durable
    /\ Len(s.file) + Len(s.pending) <= Len(d.file) + Len(d.pending)

\* What a reader sees of a settled line.
LEMMA SettledReads ==
    ASSUME NEW d, Held(d), Orderly(d), NEW s, Settled(d, s)
    PROVE  Settles(d, s)
<1>1. /\ d.file \in Seq(Mutations) /\ Len(d.file) \in Nat /\ Len(d.pending) \in Nat
      /\ Held(s) /\ Orderly(s) /\ d.durable <= s.durable /\ s.file \in Seq(Mutations)
  BY DEF Held, Disk, Orderly, Valid, Settled
<1>2. /\ Readable(d) \in Seq(Mutations) /\ Readable(s) \in Seq(Mutations)
      /\ Extends(s.file, Readable(s))
  BY <1>1, ReadableIs DEF Valid
<1>3. CASE s.file = d.file /\ s.pending = d.pending /\ (d.tail = "whole" => s.tail = "whole")
  <2>1. CASE d.tail = "whole"
    <3>1. Readable(s) = Readable(d)
      BY <1>1, <1>3, <2>1, ReadableIs
    <3> QED
      BY <1>1, <1>2, <1>3, <3>1, ExtendsMore DEF Settles
  <2>2. CASE d.tail # "whole"
    <3>1. Readable(d) = s.file
      BY <1>3, <2>2, ReadableIs
    <3> QED
      BY <1>1, <1>2, <1>3, <3>1 DEF Settles
  <2> QED
    BY <2>1, <2>2
<1>4. CASE /\ d.pending = <<d.pending[1]>> /\ d.pending[1] \in Mutations
           /\ s.file = Append(d.file, d.pending[1]) /\ s.pending = << >>
  <2>1. PICK x \in Mutations : x = d.pending[1] /\ d.pending = <<x>> /\ s.file = Append(d.file, x)
    BY <1>4
  <2>2. Readable(s) = Append(d.file, x)
    BY <1>1, <1>4, <2>1, EmptyTail
  <2>3. Readable(d) = Append(d.file, x) \/ Readable(d) = d.file
    BY <2>1, ReadableIs
  <2>4. Extends(Readable(d), Readable(s))
    BY <1>1, <1>2, <2>2, <2>3, ExtendsMore
  <2>5. Len(s.file) + Len(s.pending) <= Len(d.file) + Len(d.pending)
    <3>1. Len(s.file) = Len(d.file) + 1 /\ Len(s.pending) = 0 /\ Len(d.pending) = 1
      BY <1>1, <1>4, <2>1
    <3> QED
      BY <1>1, <3>1
  <2> QED
    BY <1>1, <2>4, <2>5 DEF Settles
<1> QED
  BY <1>3, <1>4 DEF Settled

\* Settling twice.
LEMMA SettlesOn ==
    ASSUME NEW a, Held(a), Orderly(a), NEW b, Settles(a, b), NEW c, Settles(b, c)
    PROVE  Settles(a, c)
<1>1. /\ Len(Readable(a)) \in Nat /\ Len(Readable(b)) \in Nat /\ Len(Readable(c)) \in Nat
  BY ReadableIs, ValidSeq DEF Settles
<1>2. Extends(Readable(a), Readable(c))
  BY <1>1, ExtendsOn DEF Settles
<1>3. /\ a \in Disk /\ b \in Disk /\ c \in Disk
  BY DEF Settles, Held
<1>4. a.durable <= c.durable
  <2>1. a.durable <= b.durable /\ b.durable <= c.durable
    BY DEF Settles
  <2>2. a.durable \in Nat /\ b.durable \in Nat /\ c.durable \in Nat
    BY <1>3 DEF Disk
  <2> QED
    BY <2>1, <2>2
<1>5. Len(c.file) + Len(c.pending) <= Len(a.file) + Len(a.pending)
  <2>1. /\ Len(a.file) \in Nat /\ Len(a.pending) \in Nat /\ Len(b.file) \in Nat
        /\ Len(b.pending) \in Nat /\ Len(c.file) \in Nat /\ Len(c.pending) \in Nat
    BY <1>3 DEF Disk
  <2>2. PICK x \in Nat, u \in Nat, y \in Nat, v \in Nat, z \in Nat, w \in Nat :
           /\ x = Len(a.file) /\ u = Len(a.pending) /\ y = Len(b.file)
           /\ v = Len(b.pending) /\ z = Len(c.file) /\ w = Len(c.pending)
    BY <2>1
  <2>3. y + v <= x + u /\ z + w <= y + v
    BY <2>2 DEF Settles
  <2>4. z + w <= x + u
    BY <2>3
  <2> QED
    BY <2>2, <2>4
<1> QED
  BY <1>2, <1>4, <1>5 DEF Settles

\* What is left when nobody holds the store.
LEMMA AbandonedReads ==
    ASSUME NEW d, Held(d), Orderly(d)
    PROVE  LET a == Abandoned(d) IN
           /\ Settles(d, a) /\ a.mem = EmptyState
           /\ a.tail = "none" => a.pending = << >>
<1> DEFINE a == Abandoned(d)
<1>1. /\ d \in Disk /\ d.file \in Seq(Mutations) /\ d.pending \in Seq(Lines)
      /\ d.durable \in Nat /\ Len(d.file) \in Nat /\ Len(d.pending) \in Nat
      /\ d.durable <= Len(d.file)
  BY DEF Held, Disk, Orderly, Valid
<1>2. Held(a)
  BY AbandonedHolds DEF Good
<1>3. a = [d EXCEPT !.pending = IF d.tail = "none" THEN << >> ELSE SubSeq(d.pending, 1, 1),
                    !.mem = EmptyState]
  BY DEF Abandoned
<1>4. d.tail # "none" => SubSeq(d.pending, 1, 1) = d.pending
  <2> SUFFICES ASSUME d.tail # "none" PROVE SubSeq(d.pending, 1, 1) = d.pending
    OBVIOUS
  <2>1. Len(d.pending) = 1
    <3>1. \E x : d.pending = <<x>>
      BY DEF Orderly
    <3>2. \A x : Len(<<x>>) = 1
      OBVIOUS
    <3> QED
      BY <3>1, <3>2
  <2>2. SubSeq(d.pending, 1, Len(d.pending)) = d.pending
    BY <1>1, Pieces
  <2> QED
    BY <2>1, <2>2
<1>5. /\ a.file = d.file /\ a.tail = d.tail /\ a.durable = d.durable /\ a.mem = EmptyState
      /\ a.pending = IF d.tail = "none" THEN << >> ELSE d.pending
  BY <1>1, <1>3, <1>4 DEF Disk
<1> HIDE DEF a
<1>6. Orderly(a)
  BY <1>5 DEF Orderly
<1>7. Readable(a) = Readable(d)
  BY <1>5, <1>6, ReadableIs
<1>8. Extends(Readable(d), Readable(a))
  BY <1>7, ReadableIs, ExtendsMore DEF Valid
<1>9. Len(a.file) + Len(a.pending) <= Len(d.file) + Len(d.pending)
  <2>1. Len(a.pending) = 0 \/ Len(a.pending) = Len(d.pending)
    BY <1>5
  <2> QED
    BY <1>1, <1>5, <2>1
<1>10. Settles(d, a)
  BY <1>1, <1>2, <1>5, <1>6, <1>8, <1>9 DEF Settles
<1> QED
  BY <1>5, <1>10 DEF a

\* The log as its reader sees it.
LEMMA SettlesAppends ==
    ASSUME NEW d, NEW s, Settles(d, s)
    PROVE  Appends(d, s)
<1>1. /\ s.durable \in Nat /\ s.durable <= Len(s.file) /\ Len(s.file) \in Nat
  BY DEF Settles, Orderly, Held, Disk, Valid
<1>2. Len(s.file) <= Len(Readable(s)) /\ Len(Readable(s)) \in Nat
  BY ReadableIs, ValidSeq DEF Settles, Extends
<1> QED
  BY <1>1, <1>2 DEF Appends, Settles

\* A sync of the transcript, also of an uncertain one.
LEMMA SyncTranscriptRecovers ==
    ASSUME ContextInv, RecoveryInv, SyncTranscript
    PROVE  Recovers
<1>1. /\ live /\ reply' = "none" /\ writeFailed' = writeFailed /\ live' = live
      /\ crashes' = crashes
  BY DEF SyncTranscript
<1>2. PICK r \in Sync(store) : store' = r.d
  BY DEF SyncTranscript
<1>3. Good(store) /\ Held(store) /\ Orderly(store)
  BY DEF ContextInv, RecoveryInv, Good
<1>4. Settled(store, store')
  BY <1>2, <1>3, SyncSettles
<1>5. Settles(store, store')
  BY <1>3, <1>4, SettledReads
<1>6. Appends(store, store') /\ Orderly(store')
  BY <1>5, SettlesAppends DEF Settles
<1>7. Len(store'.file) + Len(store'.pending) <= MaxSeq + 2
  <2>1. /\ Len(store.file) \in Nat /\ Len(store.pending) \in Nat
        /\ Len(store'.file) \in Nat /\ Len(store'.pending) \in Nat /\ MaxSeq \in Nat
    BY <1>3, <1>5, StoreAssumption DEF Settles, Held, Disk
  <2>2. PICK x \in Nat, u \in Nat, y \in Nat, v \in Nat :
           /\ x = Len(store.file) /\ u = Len(store.pending) /\ y = Len(store'.file)
           /\ v = Len(store'.pending)
    BY <2>1
  <2>3. y + v <= x + u /\ x + u <= MaxSeq + 2
    BY <1>5, <2>2 DEF Settles, RecoveryInv
  <2>4. y + v <= MaxSeq + 2
    BY <2>1, <2>3
  <2> QED
    BY <2>2, <2>4
<1>8. ~writeFailed' => Clean(store')
  <2> SUFFICES ASSUME ~writeFailed' PROVE Clean(store')
    OBVIOUS
  <2>1. Clean(store)
    BY <1>1 DEF RecoveryInv
  <2> QED
    BY <1>2, <2>1, CleanSync DEF Grew
<1>9. writeFailed' => \/ store'.mem = Replay(store'.file).state
                      \/ store'.pending = << >> /\ Replay(store'.file).state.seq = store'.mem.seq + 1
  <2> SUFFICES ASSUME writeFailed'
               PROVE  \/ store'.mem = Replay(store'.file).state
                      \/ store'.pending = << >> /\ Replay(store'.file).state.seq = store'.mem.seq + 1
    OBVIOUS
  <2>1. /\ store'.mem = store.mem
        /\ \/ store'.file = store.file /\ store'.pending = store.pending
           \/ /\ store.pending = <<store.pending[1]>> /\ store.pending[1] \in Mutations
              /\ Validate(Replay(store.file).state, store.pending[1])
              /\ store'.file = Append(store.file, store.pending[1]) /\ store'.pending = << >>
    BY <1>4 DEF Settled
  <2>2. \/ store.mem = Replay(store.file).state
        \/ store.pending = << >> /\ Replay(store.file).state.seq = store.mem.seq + 1
    BY <1>1 DEF RecoveryInv
  <2>3. CASE store'.file = store.file /\ store'.pending = store.pending
    BY <2>1, <2>2, <2>3
  <2>4. CASE /\ store.pending = <<store.pending[1]>> /\ store.pending[1] \in Mutations
             /\ Validate(Replay(store.file).state, store.pending[1])
             /\ store'.file = Append(store.file, store.pending[1]) /\ store'.pending = << >>
    <3>1. PICK x \in Mutations : x = store.pending[1] /\ store.pending = <<x>>
      BY <2>4
    <3>2. store.pending # << >>
      BY <3>1
    <3>3. store.mem = Replay(store.file).state /\ Valid(store.file)
      BY <1>3, <2>2, <3>2 DEF Orderly
    <3>4. Len(store.file) \in Nat /\ store.mem.seq = Len(store.file)
      BY <3>3, ValidSeq
    <3>5. Valid(store'.file)
      BY <2>4, <3>1, <3>3, ValidGrows
    <3>6. Replay(store'.file).state.seq = Len(store'.file)
      BY <3>5, ValidSeq
    <3>7. Len(store'.file) = Len(store.file) + 1
      <4>1. store.file \in Seq(Mutations) /\ store'.file = Append(store.file, x)
        BY <2>4, <3>1, <3>3 DEF Valid
      <4> QED
        BY <4>1
    <3> QED
      BY <2>1, <2>4, <3>4, <3>6, <3>7
  <2> QED
    BY <2>1, <2>3, <2>4
<1> QED
  BY <1>1, <1>6, <1>7, <1>8, <1>9 DEF Recovers, RecoveryInv

\* A Session that was left by somebody who held the store d.
LEMMA LeftRecovers ==
    ASSUME RecoveryInv, NEW d, Held(d), Orderly(d), Len(d.file) + Len(d.pending) <= MaxSeq + 2,
           Appends(store, d), store' = Abandoned(d), ~writeFailed', writeFailed' \in BOOLEAN,
           live' = FALSE, history' = << >>,
           reply' \in {"none", "moved", "failed"}, crashes' = crashes, store.durable \in Nat
    PROVE  Recovers
<1>1. /\ Settles(d, store') /\ store'.mem = EmptyState
      /\ store'.tail = "none" => store'.pending = << >>
  BY AbandonedReads
<1>2. Appends(d, store') /\ Orderly(store')
  BY <1>1, SettlesAppends DEF Settles
<1>3. Appends(store, store')
  <2>1. /\ Len(Readable(store)) \in Nat /\ Len(Readable(d)) \in Nat
        /\ Len(Readable(store')) \in Nat
    BY <1>2, ReadableIs, ValidSeq DEF RecoveryInv
  <2>2. Extends(Readable(store), Readable(store'))
    BY <1>2, <2>1, ExtendsOn DEF Appends
  <2>3. /\ d.durable \in Nat /\ store'.durable \in Nat
    BY <1>1 DEF Settles, Held, Disk
  <2>4. store.durable <= d.durable /\ d.durable <= store'.durable
    BY <1>2 DEF Appends
  <2>5. store.durable <= store'.durable
    BY <2>3, <2>4
  <2> QED
    BY <1>2, <2>2, <2>5 DEF Appends
<1>4. Len(store'.file) + Len(store'.pending) <= MaxSeq + 2
  <2>1. /\ Len(d.file) \in Nat /\ Len(d.pending) \in Nat
        /\ Len(store'.file) \in Nat /\ Len(store'.pending) \in Nat /\ MaxSeq \in Nat
    BY <1>1, StoreAssumption DEF Settles, Held, Disk
  <2>2. PICK x \in Nat, u \in Nat, y \in Nat, v \in Nat :
           /\ x = Len(d.file) /\ u = Len(d.pending) /\ y = Len(store'.file)
           /\ v = Len(store'.pending)
    BY <2>1
  <2>3. y + v <= x + u /\ x + u <= MaxSeq + 2
    BY <1>1, <2>2 DEF Settles
  <2>4. y + v <= MaxSeq + 2
    BY <2>1, <2>3
  <2> QED
    BY <2>2, <2>4
<1> QED
  BY <1>1, <1>2, <1>3, <1>4 DEF Recovers, RecoveryInv

\* close_session: a sync, perhaps a last flush.
LEMMA CloseRecovers ==
    ASSUME ContextInv, RecoveryInv, Close
    PROVE  Recovers
<1>1. PICK r \in Sync(store) : \E f \in {r.d, Flushed(r.d, r.d.pending)} : store' = Abandoned(f)
  BY DEF Close
<1>2. PICK f \in {r.d, Flushed(r.d, r.d.pending)} : store' = Abandoned(f)
  BY <1>1
<1>3. Good(store) /\ Held(store) /\ Orderly(store)
  BY DEF ContextInv, RecoveryInv, Good
<1>4. Settles(store, r.d)
  BY <1>3, SyncSettles, SettledReads
<1>5. Held(r.d) /\ Orderly(r.d)
  BY <1>4 DEF Settles
<1>6. Settles(store, f)
  <2>1. CASE f = r.d
    BY <1>4, <2>1
  <2>2. CASE f = Flushed(r.d, r.d.pending)
    <3>1. Settled(r.d, f)
      BY <1>5, <2>2, FlushSettles
    <3>2. Settles(r.d, f)
      BY <1>5, <3>1, SettledReads
    <3> QED
      BY <1>3, <1>4, <3>2, SettlesOn
  <2> QED
    BY <2>1, <2>2
<1>7. Len(f.file) + Len(f.pending) <= MaxSeq + 2
  <2>1. /\ Len(store.file) \in Nat /\ Len(store.pending) \in Nat
        /\ Len(f.file) \in Nat /\ Len(f.pending) \in Nat /\ MaxSeq \in Nat
    BY <1>3, <1>6, StoreAssumption DEF Settles, Held, Disk
  <2>2. PICK x \in Nat, u \in Nat, y \in Nat, v \in Nat :
           /\ x = Len(store.file) /\ u = Len(store.pending) /\ y = Len(f.file)
           /\ v = Len(f.pending)
    BY <2>1
  <2>3. y + v <= x + u /\ x + u <= MaxSeq + 2
    BY <1>6, <2>2 DEF Settles, RecoveryInv
  <2>4. y + v <= MaxSeq + 2
    BY <2>1, <2>3
  <2> QED
    BY <2>2, <2>4
<1>8. /\ writeFailed' = FALSE /\ live' = FALSE /\ history' = << >> /\ reply' = "none"
      /\ crashes' = crashes /\ store.durable \in Nat
  BY <1>3 DEF Close, Released, Held, Disk
<1>9. Held(f) /\ Orderly(f) /\ Appends(store, f)
  BY <1>6, SettlesAppends DEF Settles
<1> QED
  BY <1>2, <1>7, <1>8, <1>9, LeftRecovers

\* What open makes of an orderly log.
LEMMA OpenedReads ==
    ASSUME NEW d, Held(d), Orderly(d)
    PROVE  LET o == Opened(d) IN
           /\ Clean(o) /\ o.file = Readable(d) /\ Readable(o) = Readable(d)
           /\ o.durable = d.durable /\ Len(Readable(d)) \in Nat
           /\ Len(Readable(d)) <= Len(d.file) + Len(d.pending)
<1> DEFINE l == Readable(d)
           o == Opened(d)
<1>1. Good(o) /\ d \in Disk /\ d.durable \in Nat
  BY OpenedHolds DEF Held, Disk
<1>2. Valid(l) /\ Extends(d.file, l) /\ Len(l) \in Nat /\ d.durable <= Len(d.file)
      /\ Len(d.file) \in Nat /\ Len(d.pending) \in Nat /\ d.file \in Seq(Mutations)
  BY ReadableIs, ValidSeq DEF Orderly, Held, Disk, Valid
<1>3. o = [d EXCEPT !.file = l, !.pending = << >>, !.tail = "none",
                    !.durable = IF @ > Len(l) THEN Len(l) ELSE @,
                    !.mem = Replay(l).state]
  BY DEF Opened
<1>4. Len(l) <= Len(d.file) + Len(d.pending)
  <2>1. CASE d.tail # "whole"
    <3>1. l = d.file
      BY <2>1, ReadableIs
    <3> HIDE DEF l
    <3>2. PICK x \in Nat, u \in Nat : x = Len(d.file) /\ u = Len(d.pending)
      BY <1>2
    <3>3. x <= x + u
      OBVIOUS
    <3> QED
      BY <3>1, <3>2, <3>3
  <2>2. CASE d.tail = "whole"
    <3>0. /\ l = Append(d.file, d.pending[1]) /\ d.pending = <<d.pending[1]>>
          /\ d.pending[1] \in Mutations
      BY <2>2, ReadableIs
    <3> HIDE DEF l
    <3>1. PICK x \in Mutations : d.pending = <<x>> /\ l = Append(d.file, x)
      BY <3>0
    <3>2. Len(l) = Len(d.file) + 1 /\ Len(d.pending) = 1
      BY <1>2, <3>1
    <3> QED
      BY <1>2, <3>2
  <2> QED
    BY <2>1, <2>2
<1>5. d.durable <= Len(l)
  <2>1. Len(d.file) <= Len(l)
    BY <1>2 DEF Extends
  <2> HIDE DEF l
  <2> QED
    BY <1>1, <1>2, <2>1
<1> HIDE DEF l, o
<1>6. ~ (d.durable > Len(l))
  BY <1>1, <1>2, <1>5
<1>7. /\ o.file = l /\ o.pending = << >> /\ o.tail = "none" /\ o.durable = d.durable
      /\ o.mem = Replay(l).state
  BY <1>1, <1>3, <1>6 DEF Disk
<1>8. Orderly(o)
  BY <1>2, <1>5, <1>7 DEF Orderly
<1>9. Readable(o) = l
  BY <1>7, <1>8, EmptyTail
<1>10. Clean(o)
  BY <1>1, <1>7, <1>8 DEF Clean, Quiet
<1> QED
  BY <1>2, <1>4, <1>7, <1>9, <1>10 DEF l, o

\* resume_session.
LEMMA OpenRecovers ==
    ASSUME ContextInv, RecoveryInv, Open
    PROVE  Recovers
<1>1. /\ store' = Opened(store) /\ writeFailed' = FALSE /\ live' = TRUE /\ reply' = "none"
      /\ crashes' = crashes
  BY DEF Open
<1>2. Held(store) /\ Orderly(store)
  BY DEF ContextInv, RecoveryInv, Good
<1>3. /\ Clean(store') /\ store'.file = Readable(store) /\ Readable(store') = Readable(store)
      /\ store'.durable = store.durable /\ Len(Readable(store)) \in Nat
      /\ Len(Readable(store)) <= Len(store.file) + Len(store.pending)
  BY <1>1, <1>2, OpenedReads
<1>4. /\ Orderly(store') /\ store'.pending = << >> /\ Good(store') /\ store'.durable <= Len(store'.file)
      /\ store'.durable \in Nat
  BY <1>3 DEF Clean, Quiet, Orderly, Good, Held, Disk
<1>5. Appends(store, store')
  <2>1. Extends(Readable(store), Readable(store'))
    BY <1>3 DEF Extends
  <2> QED
    BY <1>3, <1>4, <2>1 DEF Appends
<1>6. Len(store'.file) + Len(store'.pending) <= MaxSeq + 2
  <2>1. /\ Len(store.file) \in Nat /\ Len(store.pending) \in Nat /\ MaxSeq \in Nat
    BY <1>2, StoreAssumption DEF Held, Disk
  <2>2. PICK x \in Nat, u \in Nat, y \in Nat :
           /\ x = Len(store.file) /\ u = Len(store.pending) /\ y = Len(store'.file)
    BY <1>3, <2>1
  <2>3. y <= x + u /\ x + u <= MaxSeq + 2
    BY <1>3, <2>2 DEF RecoveryInv
  <2>4. y + 0 <= MaxSeq + 2
    BY <2>1, <2>3
  <2>5. Len(store'.pending) = 0
    BY <1>4
  <2> QED
    BY <2>2, <2>4, <2>5
<1> QED
  BY <1>1, <1>3, <1>4, <1>5, <1>6 DEF Recovers, RecoveryInv

\* JsonlStoreFactory::set_name_at, from the last line or from a replay.
LEMMA SetNameAtRecovers ==
    ASSUME ContextInv, RecoveryInv, "plain" \notin Failing, SetNameAt
    PROVE  Recovers
<1> DEFINE last == store.file[Len(store.file)]
           direct == store.tail = "none" /\ store.file # << >> /\ last \notin {Garbage, Mangled}
           d == IF direct THEN [store EXCEPT !.mem.seq = last.seq] ELSE Opened(store)
           line == NameLine(NextSeq(d), "title")
<1>1. /\ Good(store) /\ Held(store) /\ store \in Disk /\ Orderly(store) /\ store.durable \in Nat
      /\ Valid(store.file) /\ store.file \in Seq(Mutations) /\ Len(store.file) \in Nat
  BY DEF ContextInv, RecoveryInv, Good, Held, Disk, Orderly, Valid
<1>2. /\ live = FALSE /\ live' = live /\ history' = history /\ writeFailed' = writeFailed
      /\ reply' = reply /\ crashes' = crashes /\ Len(Readable(store)) < MaxSeq
  BY DEF SetNameAt, RecoveryInv
<1>3. PICK r \in PersistAndSync(d, line, "plain") :
         \E f \in IF direct THEN {r.d} ELSE {r.d, Flushed(r.d, r.d.pending)} : store' = Abandoned(f)
  BY DEF SetNameAt
<1>4. PICK f \in {r.d, Flushed(r.d, r.d.pending)} : store' = Abandoned(f)
  BY <1>3
<1>5. /\ Quiet(d) /\ d.file = Readable(store) /\ d.durable = store.durable
      /\ d.mem.seq = Len(d.file)
  <2>1. CASE direct
    <3> DEFINE c == [store EXCEPT !.mem.seq = last.seq]
    <3>0. PICK n \in Nat : n = Len(store.file)
      BY <1>1
    <3>1. n \in 1..Len(store.file)
      BY <1>1, <2>1, <3>0
    <3>2. last.seq = n
      BY <1>1, <3>0, <3>1, ValidNumbers
    <3> HIDE DEF last
    <3>3. store.mem \in State
      BY <1>1 DEF Disk
    <3>4. [store.mem EXCEPT !.seq = last.seq] \in State
      BY <3>0, <3>2, <3>3 DEF State
    <3>5. /\ c.mem = [store.mem EXCEPT !.seq = last.seq]
          /\ c.tail = store.tail /\ c.pending = store.pending /\ c.file = store.file
          /\ c.durable = store.durable
      BY <1>1 DEF Disk
    <3>6. c \in Disk
      BY <1>1, <3>4, <3>5 DEF Disk
    <3>7. /\ c.mem.entries = store.mem.entries /\ c.mem.leaf = store.mem.leaf /\ c.mem \in State
          /\ c.mem.seq = n
      BY <3>2, <3>3, <3>4, <3>5 DEF State
    <3> HIDE DEF c
    <3>8. Good(c)
      BY <1>1, <3>5, <3>6, <3>7 DEF Good, Held, Sound, Stored
    <3>9. store.pending = << >>
      BY <1>2, <2>1 DEF RecoveryInv
    <3>10. Orderly(c)
      BY <1>1, <3>5 DEF Orderly
    <3>11. Readable(store) = store.file
      BY <1>1, <3>9, EmptyTail
    <3>12. Quiet(c) /\ c.file = Readable(store) /\ c.mem.seq = Len(c.file)
      BY <3>0, <3>5, <3>7, <3>8, <3>9, <3>10, <3>11 DEF Quiet
    <3>13. d = c
      BY <2>1 DEF c
    <3> HIDE DEF d
    <3> QED
      BY <3>5, <3>12, <3>13
  <2>2. CASE ~direct
    <3>1. d = Opened(store)
      BY <2>2
    <3> HIDE DEF d
    <3>2. Clean(d) /\ d.file = Readable(store) /\ d.durable = store.durable
      BY <1>1, <3>1, OpenedReads
    <3> QED
      BY <3>2, CleanSize DEF Clean
  <2> QED
    BY <2>1, <2>2
<1> HIDE DEF d, direct
<1>6. Good(d) /\ Valid(d.file) /\ d.file \in Seq(Mutations) /\ Len(d.file) \in Nat /\ d.durable \in Nat
  BY <1>5 DEF Quiet, Orderly, Valid, Good, Held, Disk
<1>7. line \in Mutations /\ Validate(d.mem, line)
  <2>1. \E n \in Names : line = NameLine(NextSeq(d), n)
    BY DEF Names
  <2> HIDE DEF line
  <2> QED
    BY <1>6, <2>1, FactValid
<1>8. Validate(Replay(d.file).state, line)
  <2>1. Replay(d.file).state.seq = Len(d.file)
    BY <1>6, ValidSeq
  <2>2. line.kind = "name" /\ line.seq = d.mem.seq + 1
    BY DEF NameLine, NextSeq
  <2> HIDE DEF line
  <2> QED
    BY <1>5, <2>1, <2>2 DEF Validate
<1> HIDE DEF line
<1>9. PICK q \in Persist(d, line, "plain") : r \in IF q.ok THEN Sync(q.d) ELSE {q}
  BY <1>3 DEF PersistAndSync
<1>10. /\ Quiet(q.d) /\ q.d.file = Append(d.file, line) /\ q.d.durable = d.durable
       /\ r \in Sync(q.d)
  BY <1>5, <1>7, <1>8, <1>9, QuietPersist
<1>11. Quiet(r.d) /\ r.d.file = Append(d.file, line) /\ d.durable <= r.d.durable
  BY <1>10, QuietSync
<1>12. Held(r.d) /\ Orderly(r.d) /\ r.d.pending = << >>
  BY <1>11 DEF Quiet, Good
<1>13. /\ Readable(r.d) = Append(Readable(store), line) /\ Readable(store) \in Seq(Mutations)
       /\ Len(Readable(r.d)) = Len(Readable(store)) + 1
       /\ Len(r.d.file) = Len(Readable(store)) + 1
       /\ Extends(Readable(store), Readable(r.d)) /\ Len(Readable(store)) \in Nat
  <2>1. Readable(r.d) = Append(Readable(store), line)
    BY <1>5, <1>11, <1>12, EmptyTail
  <2>2. Readable(store) \in Seq(Mutations)
    BY <1>5, <1>6
  <2>3. Extends(Readable(store), Append(Readable(store), line))
    BY <1>7, <2>2, ExtendsMore
  <2>4. Len(Append(Readable(store), line)) = Len(Readable(store)) + 1
    BY <1>7, <2>2
  <2> QED
    BY <1>5, <1>11, <2>1, <2>2, <2>3, <2>4
<1>14. Settles(r.d, f)
  <2>1. CASE f = r.d
    <3>1. Extends(Readable(r.d), Readable(r.d))
      BY <1>12, ReadableIs, ExtendsMore DEF Valid
    <3>2. r.d.durable \in Nat /\ Len(r.d.file) \in Nat /\ Len(r.d.pending) \in Nat
      BY <1>12 DEF Held, Disk
    <3> QED
      BY <1>12, <2>1, <3>1, <3>2 DEF Settles
  <2>2. CASE f = Flushed(r.d, r.d.pending)
    <3>1. Settled(r.d, f)
      BY <1>12, <2>2, FlushSettles
    <3> QED
      BY <1>12, <3>1, SettledReads
  <2> QED
    BY <2>1, <2>2
<1>15. Held(f) /\ Orderly(f) /\ Appends(r.d, f)
  BY <1>14, SettlesAppends DEF Settles
<1>16. Appends(store, f)
  <2>1. Len(Readable(f)) \in Nat /\ Len(Readable(r.d)) \in Nat
    BY <1>12, <1>15, ReadableIs, ValidSeq
  <2>2. Extends(Readable(store), Readable(f))
    BY <1>13, <1>15, <2>1, ExtendsOn DEF Appends
  <2>3. r.d.durable \in Nat /\ f.durable \in Nat
    BY <1>12, <1>15 DEF Held, Disk
  <2>4. store.durable <= r.d.durable /\ r.d.durable <= f.durable
    BY <1>5, <1>11, <1>15 DEF Appends
  <2>5. store.durable <= f.durable
    BY <1>1, <2>3, <2>4
  <2> QED
    BY <1>15, <2>2, <2>5 DEF Appends
<1>17. Len(f.file) + Len(f.pending) <= MaxSeq + 2
  <2>1. /\ Len(f.file) \in Nat /\ Len(f.pending) \in Nat /\ MaxSeq \in Nat
    BY <1>15, StoreAssumption DEF Held, Disk
  <2>2. PICK x \in Nat, y \in Nat, v \in Nat :
           /\ x = Len(Readable(store)) /\ y = Len(f.file) /\ v = Len(f.pending)
    BY <1>13, <2>1
  <2>3. Len(r.d.pending) = 0
    BY <1>12
  <2>4. y + v <= (x + 1) + 0 /\ x < MaxSeq
    BY <1>2, <1>13, <1>14, <2>2, <2>3 DEF Settles
  <2>5. y + v <= MaxSeq + 2
    BY <2>1, <2>4
  <2> QED
    BY <2>2, <2>5
<1>18. /\ ~writeFailed' /\ writeFailed' \in BOOLEAN /\ live' = FALSE /\ history' = << >>
       /\ reply' \in {"none", "moved", "failed"}
  BY <1>2 DEF RecoveryInv
<1> QED
  BY <1>1, <1>2, <1>4, <1>15, <1>16, <1>17, <1>18, LeftRecovers

\* A crash cuts the log behind what was synced.
LEMMA CrashRecovers ==
    ASSUME ContextInv, RecoveryInv, Crash
    PROVE  Recovers
<1>0. PICK all : all = store.file \o store.pending
  OBVIOUS
<1>1. /\ Good(store) /\ live' = FALSE /\ reply' = "none" /\ writeFailed' = FALSE
      /\ history' = << >> /\ crashes' = crashes - 1 /\ crashes > 0
  BY DEF ContextInv, Crash, Released
<1>2. PICK n, t :
             /\ n \in store.durable..Len(store.file) /\ t \in Parts
             /\ n = Len(store.file) => t \in IF store.tail = "none" THEN {"none"}
                                             ELSE {"none", "torn", "split", store.tail}
             /\ store' = Abandoned([store EXCEPT
                            !.file = SubSeq(all, 1, n), !.tail = t,
                            !.pending = SubSeq(all, n + 1, Len(all))])
  BY <1>0 DEF Crash
<1>3. /\ store \in Disk /\ store.file \in Seq(Lines) /\ store.pending \in Seq(Lines)
      /\ store.durable \in Nat /\ (store.tail # "none" => store.pending # << >>)
      /\ Orderly(store) /\ Valid(store.file) /\ store.file \in Seq(Mutations)
  BY <1>1 DEF Good, Held, Disk, RecoveryInv, Orderly, Valid
<1>4. all \in Seq(Lines)
  BY <1>0, <1>3, ConcatProperties
<1>5. PICK nf \in Nat, np \in Nat, nd \in Nat, nl \in Nat :
        /\ nf = Len(store.file) /\ np = Len(store.pending) /\ nd = store.durable
        /\ nl = Len(all)
  BY <1>3, <1>4
<1>6. n \in Nat /\ n <= nf /\ nd <= n /\ nl = nf + np /\ n \in 0..nf /\ n <= nl
  <2>1. Len(all) = Len(store.file) + Len(store.pending)
    BY <1>0, <1>3, ConcatProperties
  <2>2. n \in nd..nf
    BY <1>2, <1>5
  <2>3. nl = nf + np
    BY <1>5, <2>1
  <2> QED
    BY <2>2, <2>3
<1>7. /\ \A i \in 1..nf : all[i] = store.file[i]
      /\ np >= 1 => all[nf + 1] = store.pending[1]
  <2>1. \A i \in 1..nl : all[i] = IF i <= nf THEN store.file[i] ELSE store.pending[i - nf]
    BY <1>0, <1>3, <1>5, <1>6, ConcatProperties
  <2>2. \A i \in 1..nf : i \in 1..nl /\ i <= nf
    BY <1>6
  <2>3. np >= 1 => nf + 1 \in 1..nl /\ ~ (nf + 1 <= nf) /\ (nf + 1) - nf = 1
    BY <1>6
  <2> QED
    BY <2>1, <2>2, <2>3
<1> DEFINE kept == SubSeq(store.file, 1, n)
<1>8. /\ Valid(kept) /\ Len(kept) = n
      /\ n < nf => /\ store.file[n + 1] \in Mutations
                   /\ Validate(Replay(kept).state, store.file[n + 1])
  <2>1. n \in 0..Len(store.file)
    BY <1>5, <1>6
  <2> QED
    BY <1>3, <1>5, <2>1, ValidCut
<1>9. \A i \in 1..n : kept[i] = store.file[i]
  <2>1. n <= Len(store.file)
    BY <1>5, <1>6
  <2>2. PICK one \in Nat \ {0} : one = 1
    OBVIOUS
  <2>3. \A i \in 1..(n - one + 1) : SubSeq(store.file, one, n)[i] = store.file[one + i - 1]
    BY <1>3, <1>6, <2>1, Cut
  <2>4. \A i \in 1..n : i \in 1..(n - one + 1) /\ one + i - 1 = i
    BY <1>6, <2>2
  <2>5. kept = SubSeq(store.file, one, n)
    BY <2>2
  <2> HIDE DEF kept
  <2> QED
    BY <2>3, <2>4, <2>5
<1>10. SubSeq(all, 1, n) = kept
  <2> DEFINE begun == SubSeq(all, 1, n)
  <2>1. PICK one \in Nat \ {0} : one = 1
    OBVIOUS
  <2>2. n <= Len(all)
    BY <1>5, <1>6
  <2>3. /\ SubSeq(all, one, n) \in Seq(Lines)
        /\ Len(SubSeq(all, one, n)) = IF one <= n THEN n - one + 1 ELSE 0
        /\ \A i \in 1..(n - one + 1) : SubSeq(all, one, n)[i] = all[one + i - 1]
    BY <1>4, <1>6, <2>2, Cut
  <2>4. begun = SubSeq(all, one, n)
    BY <2>1
  <2>5. begun \in Seq(Lines) /\ Len(begun) = n
    <3> HIDE DEF begun
    <3> QED
      BY <1>6, <2>1, <2>3, <2>4
  <2>6. \A i \in 1..n : i \in 1..(n - one + 1) /\ one + i - 1 = i /\ i \in 1..nf
    BY <1>6, <2>1
  <2>7. \A i \in 1..n : begun[i] = store.file[i]
    <3> HIDE DEF begun
    <3> QED
      BY <1>7, <2>3, <2>4, <2>6
  <2>8. kept \in Seq(Lines)
    BY <1>8, MutationsAreLines DEF Valid
  <2> HIDE DEF begun, kept
  <2>9. \A i \in 1..n : begun[i] = kept[i]
    BY <1>9, <2>7
  <2>10. begun = kept
    BY <1>8, <2>5, <2>8, <2>9, SeqEqual
  <2> QED
    BY <2>10 DEF begun
<1> DEFINE rest == SubSeq(all, n + 1, Len(all))
           d == [store EXCEPT !.file = kept, !.tail = t, !.pending = rest]
           a == Abandoned(d)
<1>11. rest \in Seq(Lines) /\ (n < nl => Len(rest) >= 1 /\ rest[1] = all[n + 1])
  <2>1. PICK m \in Nat \ {0} : m = n + 1
    BY <1>6
  <2>2. /\ SubSeq(all, m, nl) \in Seq(Lines)
        /\ Len(SubSeq(all, m, nl)) = IF m <= nl THEN nl - m + 1 ELSE 0
        /\ \A i \in 1..(nl - m + 1) : SubSeq(all, m, nl)[i] = all[m + i - 1]
    BY <1>4, <1>5, Cut
  <2>3. rest = SubSeq(all, m, nl)
    BY <1>5, <2>1
  <2> HIDE DEF rest
  <2>4. n < nl => m <= nl /\ 1 \in 1..(nl - m + 1) /\ m + 1 - 1 = n + 1 /\ nl - m + 1 >= 1
    BY <1>6, <2>1
  <2> QED
    BY <2>2, <2>3, <2>4
<1>12. store' = a
  BY <1>2, <1>10
<1> HIDE DEF kept, rest
<1>13. kept \in Seq(Lines)
  BY <1>8, MutationsAreLines DEF Valid
<1>14. /\ d.tail = t /\ d.pending = rest /\ d.file = kept /\ d.durable = store.durable
       /\ d \in Disk
  BY <1>2, <1>3, <1>11, <1>13 DEF Disk
<1> HIDE DEF d
<1>15. a = [d EXCEPT !.pending = IF d.tail = "none" THEN << >> ELSE SubSeq(rest, 1, 1),
                     !.mem = EmptyState]
  BY <1>14 DEF Abandoned
<1> HIDE DEF a
<1>16. /\ a.file = kept /\ a.tail = t /\ a.durable = store.durable /\ a.mem = EmptyState
       /\ a.pending = IF t = "none" THEN << >> ELSE SubSeq(rest, 1, 1)
  BY <1>14, <1>15 DEF Disk
<1>17. ASSUME t # "none"
       PROVE  /\ n < nl /\ a.pending = <<all[n + 1]>> /\ all[n + 1] \in Lines
              /\ \/ all[n + 1] \in Begun /\ t # "whole"
                 \/ /\ all[n + 1] \in Mutations
                    /\ Validate(Replay(kept).state, all[n + 1])
  <2>1. n = nf => /\ store.tail # "none" /\ np >= 1 /\ (t = "whole" => store.tail = "whole")
                  /\ kept = store.file
    <3> SUFFICES ASSUME n = nf
                 PROVE  /\ store.tail # "none" /\ np >= 1 /\ (t = "whole" => store.tail = "whole")
                        /\ kept = store.file
      OBVIOUS
    <3>1. t \in IF store.tail = "none" THEN {"none"} ELSE {"none", "torn", "split", store.tail}
      BY <1>2, <1>5
    <3>2. store.tail # "none" /\ (t = "whole" => store.tail = "whole")
      BY <1>17, <3>1
    <3>3. np >= 1
      BY <1>3, <1>5, <3>2
    <3>4. SubSeq(store.file, 1, Len(store.file)) = store.file
      BY <1>3, Pieces
    <3> QED
      BY <1>5, <3>2, <3>3, <3>4 DEF kept
  <2>2. n < nl
    BY <1>6, <2>1
  <2>3. SubSeq(rest, 1, 1) = <<all[n + 1]>>
    <3>1. PICK one \in Nat \ {0} : one = 1
      OBVIOUS
    <3>2. one <= Len(rest) /\ rest[one] = all[n + 1] /\ Len(rest) \in Nat
      BY <1>11, <2>2, <3>1
    <3>3. /\ SubSeq(rest, one, one) \in Seq(Lines)
          /\ Len(SubSeq(rest, one, one)) = IF one <= one THEN one - one + 1 ELSE 0
          /\ \A i \in 1..(one - one + 1) : SubSeq(rest, one, one)[i] = rest[one + i - 1]
      BY <1>11, <3>2, Cut
    <3>4. PICK c \in Seq(Lines) : c = SubSeq(rest, one, one)
      BY <3>3
    <3>5. Len(c) = 1 /\ c[1] = all[n + 1]
      BY <3>1, <3>2, <3>3, <3>4
    <3>6. c = <<all[n + 1]>>
      BY <3>5
    <3> QED
      BY <3>1, <3>4, <3>6
  <2>4. n + 1 \in 1..nl
    BY <1>6, <2>2
  <2>5. all[n + 1] \in Lines
    BY <1>4, <1>5, <2>4
  <2>6. CASE n < nf
    <3>1. n + 1 \in 1..nf
      BY <1>6, <2>6
    <3>2. all[n + 1] = store.file[n + 1]
      BY <1>7, <3>1
    <3> QED
      BY <1>8, <1>16, <1>17, <2>2, <2>3, <2>5, <2>6, <3>2
  <2>7. CASE n = nf
    <3>1. all[n + 1] = store.pending[1] /\ store.pending # << >>
      BY <1>3, <1>7, <2>1, <2>7
    <3>2. \/ store.pending[1] \in Begun /\ store.tail # "whole"
          \/ /\ store.pending[1] \in Mutations
             /\ Validate(Replay(store.file).state, store.pending[1])
      BY <1>3, <3>1 DEF Orderly
    <3> QED
      BY <1>16, <1>17, <2>1, <2>2, <2>3, <2>5, <2>7, <3>1, <3>2
  <2> QED
    BY <1>6, <2>6, <2>7
<1>18. Orderly(a)
  <2>1. a.durable <= Len(a.file) /\ Valid(a.file)
    BY <1>5, <1>6, <1>8, <1>16
  <2>2. CASE t = "none"
    BY <1>16, <2>1, <2>2 DEF Orderly
  <2>3. CASE t # "none"
    <3>1. PICK x : x = all[n + 1]
      OBVIOUS
    <3>2. a.pending = <<x>> /\ (\/ x \in Begun /\ t # "whole"
                                \/ x \in Mutations /\ Validate(Replay(kept).state, x))
      BY <1>17, <2>3, <3>1
    <3>3. a.pending[1] = x
      BY <3>2
    <3> QED
      BY <1>16, <2>1, <3>2, <3>3 DEF Orderly
  <2> QED
    BY <2>2, <2>3
<1>19. Extends(a.file, Readable(store)) /\ Len(Readable(store)) \in Nat
  <2>1. Extends(store.file, Readable(store)) /\ Len(Readable(store)) \in Nat
    BY <1>3, ReadableIs, ValidSeq
  <2>2. Extends(kept, store.file)
    BY <1>5, <1>6, <1>8, <1>9 DEF Extends
  <2>3. Len(kept) \in Nat /\ Len(store.file) \in Nat
    BY <1>5, <1>6, <1>8
  <2> QED
    BY <1>16, <2>1, <2>2, <2>3, ExtendsOn
<1>20. Extends(Readable(a), Readable(store)) /\ n <= Len(Readable(a)) /\ Len(Readable(a)) \in Nat
  <2>1. Extends(a.file, Readable(a)) /\ Len(Readable(a)) \in Nat
    BY <1>18, ReadableIs, ValidSeq
  <2>2. n <= Len(Readable(a))
    BY <1>8, <1>16, <2>1 DEF Extends
  <2>3. CASE t # "whole"
    <3>1. Readable(a) = a.file
      BY <1>16, <1>18, <2>3, ReadableIs
    <3> QED
      BY <1>19, <2>1, <2>2, <3>1
  <2>4. CASE t = "whole"
    <3>0. PICK x : x = all[n + 1]
      OBVIOUS
    <3>1. n < nl /\ a.pending = <<x>>
      BY <1>17, <2>4, <3>0
    <3>2. a.pending[1] = x
      BY <3>1
    <3>3. Readable(a) = Append(kept, x) /\ x \in Mutations
      BY <1>16, <1>18, <2>4, <3>2, ReadableIs
    <3>4. kept \in Seq(Mutations)
      BY <1>8 DEF Valid
    <3>5. /\ Len(Readable(a)) = n + 1 /\ Readable(a)[n + 1] = x
          /\ \A i \in 1..n : Readable(a)[i] = kept[i]
      <4>1. PICK g \in Seq(Mutations) : g = kept
        BY <3>4
      <4>2. /\ Len(Append(g, x)) = Len(g) + 1 /\ Append(g, x)[Len(g) + 1] = x
            /\ \A i \in 1..Len(g) : Append(g, x)[i] = g[i]
        BY <3>3, <4>1, AppendProperties
      <4> QED
        BY <1>8, <3>3, <4>1, <4>2
    <3>6. \A i \in 1..n : Readable(store)[i] = kept[i]
      BY <1>8, <1>16, <1>19 DEF Extends
    <3>7. n + 1 <= Len(Readable(store)) /\ Readable(store)[n + 1] = x
      <4>1. CASE n < nf
        <5>1. Extends(store.file, Readable(store))
          BY <1>3, ReadableIs
        <5>2. n + 1 \in 1..nf
          BY <1>6, <4>1
        <5>3. nf <= Len(Readable(store)) /\ Readable(store)[n + 1] = store.file[n + 1]
          BY <1>5, <5>1, <5>2 DEF Extends
        <5>4. all[n + 1] = store.file[n + 1]
          BY <1>7, <5>2
        <5> QED
          BY <1>6, <1>19, <3>0, <4>1, <5>3, <5>4
      <4>2. CASE n = nf
        <5>1. t \in IF store.tail = "none" THEN {"none"} ELSE {"none", "torn", "split", store.tail}
          BY <1>2, <1>5, <4>2
        <5>2. store.tail = "whole"
          BY <2>4, <5>1
        <5>3. np >= 1
          BY <1>3, <1>5, <5>2
        <5>4. store.pending[1] = x
          BY <1>7, <3>0, <4>2, <5>3
        <5>5. Readable(store) = Append(store.file, x) /\ x \in Mutations
          BY <1>3, <5>2, <5>4, ReadableIs
        <5>6. PICK g \in Seq(Mutations) : g = store.file
          BY <1>3
        <5>7. Len(Append(g, x)) = Len(g) + 1 /\ Append(g, x)[Len(g) + 1] = x
          BY <5>5, <5>6, AppendProperties
        <5> QED
          BY <1>5, <1>6, <4>2, <5>5, <5>6, <5>7
      <4> QED
        BY <1>6, <4>1, <4>2
    <3>8. Extends(Readable(a), Readable(store))
      <4>1. ASSUME NEW i \in 1..(n + 1) PROVE Readable(store)[i] = Readable(a)[i]
        <5>1. CASE i = n + 1
          BY <3>5, <3>7, <5>1
        <5>2. CASE i # n + 1
          <6>1. i \in 1..n
            BY <1>6, <5>2
          <6> QED
            BY <3>5, <3>6, <6>1
        <5> QED
          BY <5>1, <5>2
      <4> QED
        BY <3>5, <3>7, <4>1 DEF Extends
    <3> QED
      BY <2>1, <2>2, <3>8
  <2> QED
    BY <2>3, <2>4
<1>21. Loses(store, a)
  <2>1. a.durable = nd /\ store.durable = nd
    BY <1>5, <1>16
  <2>2. nd <= Len(Readable(a))
    BY <1>6, <1>20
  <2> QED
    BY <1>20, <2>1, <2>2 DEF Loses
<1>22. Len(a.file) + Len(a.pending) <= MaxSeq + 2
  <2>1. nf + np <= MaxSeq + 2 /\ MaxSeq \in Nat
    BY <1>5, StoreAssumption DEF RecoveryInv
  <2>2. CASE t = "none"
    <3>1. Len(a.file) = n /\ Len(a.pending) = 0
      BY <1>8, <1>16, <2>2
    <3> QED
      BY <1>6, <2>1, <3>1
  <2>3. CASE t # "none"
    <3>1. n < nl /\ a.pending = <<all[n + 1]>>
      BY <1>17, <2>3
    <3>2. Len(a.pending) = 1 /\ Len(a.file) = n
      BY <1>8, <1>16, <3>1
    <3> QED
      BY <1>6, <2>1, <3>1, <3>2
  <2> QED
    BY <2>2, <2>3
<1>23. crashes' \in 0..MaxCrashes
  BY <1>1, StoreAssumption DEF RecoveryInv
<1> QED
  BY <1>1, <1>12, <1>16, <1>18, <1>21, <1>22, <1>23 DEF Recovers, RecoveryInv

(***************************************************************************)
(* Navigation, when ordinary writes do not fail.                           *)
(***************************************************************************)

\* Growing by less is growing by more.
LEMMA GrewMore ==
    ASSUME NEW a, Clean(a), NEW m \in Nat, NEW b, Grew(a, b, m), NEW n \in Nat, m <= n
    PROVE  Grew(a, b, n)
<1>1. Len(a.file) \in Nat /\ Len(b.file) \in Nat
  BY CleanSize DEF Grew
<1>2. PICK x \in Nat, y \in Nat : x = Len(a.file) /\ y = Len(b.file)
  BY <1>1
<1>3. y <= x + m
  BY <1>2 DEF Grew
<1>4. y <= x + n
  BY <1>3
<1> QED
  BY <1>2, <1>4 DEF Grew

\* A lane line.
LEMMA LaneGrows ==
    ASSUME "plain" \notin Failing, NEW d, Clean(d), NEW e \in Stored(d.mem) \cup {None},
           NEW r \in MoveLane(d, e)
    PROVE  /\ r.ok = TRUE /\ Clean(r.d) /\ r.d.mem.entries = d.mem.entries
           /\ \A k \in Nat : k = 1 => Grew(d, r.d, k)
<1>1. Good(d)
  BY CleanSize
<1> DEFINE line == LaneLine(NextSeq(d), e)
<1>2. line \in Mutations /\ Validate(d.mem, line)
  BY <1>1, LaneValid
<1>3. r \in Persist(d, line, "plain")
  BY DEF MoveLane
<1> HIDE DEF line
<1>4. r.ok = TRUE /\ Grew(d, r.d, 1)
  BY <1>2, <1>3, PlainPersist
<1>5. r.d.mem.entries = d.mem.entries
  BY <1>1, LaneMoves
<1> QED
  BY <1>4, <1>5 DEF Grew

\* The line that labels e, or takes its label away.
Labelling(d, e, line) == \E b \in BOOLEAN : line = LabelLine(NextSeq(d), e, b)

\* A label line.
LEMMA LabelGrows ==
    ASSUME "plain" \notin Failing, NEW d, Clean(d), NEW e \in Entries, e \in Stored(d.mem),
           NEW line, Labelling(d, e, line), NEW r \in Persist(d, line, "plain")
    PROVE  /\ r.ok = TRUE /\ Clean(r.d) /\ r.d.mem.entries = d.mem.entries
           /\ \A k \in Nat : k = 1 => Grew(d, r.d, k)
<1>1. Good(d)
  BY CleanSize
<1>2. PICK b \in BOOLEAN : line = LabelLine(NextSeq(d), e, b)
  BY DEF Labelling
<1>3. line \in Mutations /\ Validate(d.mem, line)
  BY <1>1, <1>2, LabelValid
<1>4. r.ok = TRUE /\ Grew(d, r.d, 1)
  BY <1>3, PlainPersist
<1>5. r.d.mem.entries = d.mem.entries
  BY <1>1, <1>2, LabelSets
<1> QED
  BY <1>4, <1>5 DEF Grew

\* Putting the lane back.
LEMMA RestoreGrows ==
    ASSUME "plain" \notin Failing, Good(store), NEW d, Clean(d),
           d.mem.entries = store.mem.entries, RestoreLane(d, store.mem.leaf),
           NEW k \in Nat, k = 1
    PROVE  Grew(d, store', k) /\ reply' = "failed"
<1>1. reply' = "failed"
  BY DEF RestoreLane
<1>2. PICK r \in MoveLane(d, store.mem.leaf) :
         IF r.ok THEN \E y \in Sync(r.d) : store' = y.d ELSE store' = r.d
  BY DEF RestoreLane
<1>3. store.mem.leaf \in Stored(d.mem) \cup {None}
  BY DEF Good, Sound, Stored
<1>4. r.ok = TRUE /\ Clean(r.d) /\ Grew(d, r.d, k)
  BY <1>2, <1>3, LaneGrows
<1>5. PICK y \in Sync(r.d) : store' = y.d
  BY <1>2, <1>4
<1>6. PICK none \in Nat : none = 0 /\ k + none = k
  OBVIOUS
<1>7. Grew(r.d, store', none)
  BY <1>4, <1>5, <1>6, CleanSync
<1>8. Grew(d, store', k + none)
  BY <1>4, <1>7, GrewTwice
<1> QED
  BY <1>1, <1>6, <1>8

\* Undoing a navigation: at most the label and the lane.
LEMMA UndoGrows ==
    ASSUME "plain" \notin Failing, Good(store), NEW d, Clean(d), NEW label,
           d.mem.entries = store.mem.entries,
           label = None \/ (label \in Entries /\ label \in Stored(store.mem)),
           UndoNavigation(d, label), NEW k \in Nat, k = 2
    PROVE  Grew(d, store', k) /\ reply' = "failed"
<1>1. PICK one \in Nat : one = 1 /\ one <= k /\ one + one = k
  OBVIOUS
<1>2. CASE label = None
  <2>1. RestoreLane(d, store.mem.leaf)
    BY <1>2 DEF UndoNavigation, Done
  <2>2. Grew(d, store', one) /\ reply' = "failed"
    BY <1>1, <2>1, RestoreGrows
  <2> QED
    BY <1>1, <2>2, GrewMore
<1>3. CASE label # None
  <2>0. PICK line : /\ Labelling(d, label, line)
                    /\ \E l \in Persist(d, line, "plain") : RestoreLane(l.d, store.mem.leaf)
    <3>1. (label \in store.mem.labels) \in BOOLEAN
      OBVIOUS
    <3>2. \E l \in Persist(d, LabelLine(NextSeq(d), label, label \in store.mem.labels), "plain") :
             RestoreLane(l.d, store.mem.leaf)
      BY <1>3 DEF UndoNavigation
    <3> QED
      BY <3>1, <3>2, Zenon DEF Labelling
  <2>1. PICK l \in Persist(d, line, "plain") : RestoreLane(l.d, store.mem.leaf)
    BY <2>0
  <2>2. label \in Entries /\ label \in Stored(d.mem)
    BY <1>3 DEF Stored
  <2>3. Clean(l.d) /\ l.d.mem.entries = store.mem.entries /\ Grew(d, l.d, one)
    <3>1. Labelling(d, label, line)
      BY <2>0
    <3>2. /\ Clean(l.d) /\ l.d.mem.entries = d.mem.entries
          /\ \A i \in Nat : i = 1 => Grew(d, l.d, i)
      BY <2>1, <2>2, <3>1, LabelGrows
    <3> QED
      BY <1>1, <3>2
  <2>4. Grew(l.d, store', one) /\ reply' = "failed"
    BY <1>1, <2>1, <2>3, RestoreGrows
  <2>5. Grew(d, store', one + one)
    BY <2>3, <2>4, GrewTwice
  <2> QED
    BY <1>1, <2>4, <2>5
<1> QED
  BY <1>2, <1>3

\* clear_navigation.
LEMMA ClearNavigationRecovers ==
    ASSUME RecoveryInv, "plain" \notin Failing, ClearNavigation
    PROVE  Recovers
<1>1. Writable /\ Room(1) /\ UNCHANGED <<writeFailed, live, crashes>>
  BY DEF ClearNavigation
<1>2. live /\ ~writeFailed /\ writeFailed = FALSE /\ Clean(store) /\ Good(store)
  BY <1>1, WritableIsClean
<1>3. PICK m \in MoveLane(store, None) :
         IF ~m.ok THEN store' = m.d /\ reply' = "failed"
         ELSE \E y \in Sync(m.d) :
                IF y.ok THEN store' = y.d /\ reply' = "moved"
                ELSE RestoreLane(y.d, store.mem.leaf)
  BY DEF ClearNavigation
<1>4. PICK none \in Nat, one \in Nat, two \in Nat :
        /\ none = 0 /\ one = 1 /\ two = 2 /\ one + none = one /\ one + one = two
        /\ one <= one + 2 /\ two <= one + 2
  OBVIOUS
<1>5. /\ m.ok = TRUE /\ Clean(m.d) /\ m.d.mem.entries = store.mem.entries
      /\ Grew(store, m.d, one)
  BY <1>2, <1>3, <1>4, LaneGrows
<1>6. PICK y \in Sync(m.d) : IF y.ok THEN store' = y.d /\ reply' = "moved"
                             ELSE RestoreLane(y.d, store.mem.leaf)
  BY <1>3, <1>5
<1>7. Grew(m.d, y.d, none) /\ y.d.mem = m.d.mem /\ Clean(y.d)
  BY <1>4, <1>5, <1>6, CleanSync DEF Grew
<1>8. Grew(store, y.d, one)
  BY <1>2, <1>4, <1>5, <1>7, GrewTwice
<1>9. \E k \in Nat : /\ k <= one + 2 /\ Grew(store, store', k)
                     /\ reply' \in {"none", "moved", "failed"}
  <2>1. CASE y.ok
    BY <1>4, <1>6, <1>8, <2>1
  <2>2. CASE ~y.ok
    <3>1. RestoreLane(y.d, store.mem.leaf)
      BY <1>6, <2>2
    <3>2. Grew(y.d, store', one) /\ reply' = "failed"
      BY <1>2, <1>4, <1>5, <1>7, <3>1, RestoreGrows
    <3>3. Grew(store, store', one + one)
      BY <1>2, <1>8, <3>2, GrewTwice
    <3> QED
      BY <1>4, <3>2, <3>3
  <2> QED
    BY <2>1, <2>2
<1>10. PICK k \in Nat : /\ k <= one + 2 /\ Grew(store, store', k)
                        /\ reply' \in {"none", "moved", "failed"}
  BY <1>9
<1>11. Advanced(store, store', k) /\ Clean(store')
  BY <1>2, <1>10, GrewAdvanced DEF Grew
<1>12. Room(one)
  BY <1>1, <1>4
<1> QED
  BY <1>1, <1>2, <1>10, <1>11, <1>12, WriteRecovers

\* The sync at the end of a navigation and what follows when it fails.
LEMMA LastSyncGrows ==
    ASSUME "plain" \notin Failing, Good(store), NEW d, Clean(d), NEW summary, NEW label,
           summary = None => /\ d.mem.entries = store.mem.entries
                             /\ label = None \/ (label \in Entries /\ label \in Stored(store.mem)),
           NEW y \in Sync(d),
           IF y.ok THEN store' = y.d /\ reply' = "moved"
           ELSE IF summary # None THEN KeepSummary(y.d, TRUE)
           ELSE UndoNavigation(y.d, label),
           NEW k \in Nat, k = 2
    PROVE  Grew(d, store', k) /\ reply' \in {"moved", "failed"}
<1>1. PICK none \in Nat : none = 0 /\ none + none = none /\ none + k = k /\ none <= k
  OBVIOUS
<1>2. Grew(d, y.d, none) /\ y.d.mem = d.mem /\ Clean(y.d)
  BY <1>1, CleanSync DEF Grew
<1>3. CASE y.ok
  BY <1>1, <1>2, <1>3, GrewMore
<1>4. CASE ~y.ok /\ summary # None
  <2>1. KeepSummary(y.d, TRUE)
    BY <1>4
  <2>2. PICK z \in Sync(y.d) : store' = z.d
    BY <2>1 DEF KeepSummary
  <2>3. reply' \in {"moved", "failed"}
    BY <2>1 DEF KeepSummary
  <2>4. Grew(y.d, store', none)
    BY <1>1, <1>2, <2>2, CleanSync
  <2>5. Grew(d, store', none)
    BY <1>1, <1>2, <2>4, GrewTwice
  <2> QED
    BY <1>1, <2>3, <2>5, GrewMore
<1>5. CASE ~y.ok /\ summary = None
  <2>1. UndoNavigation(y.d, label)
    BY <1>5
  <2>2. /\ y.d.mem.entries = store.mem.entries
        /\ label = None \/ (label \in Entries /\ label \in Stored(store.mem))
    BY <1>2, <1>5
  <2>3. Grew(y.d, store', k) /\ reply' = "failed"
    BY <1>2, <2>1, <2>2, UndoGrows
  <2>4. Grew(d, store', none + k)
    BY <1>1, <1>2, <2>3, GrewTwice
  <2> QED
    BY <1>1, <2>3, <2>4
<1> QED
  BY <1>3, <1>4, <1>5

\* commit_navigation: the lane, perhaps a summary and a label, and at most two
\* lines that undo it.
LEMMA CommitNavigationGrows ==
    ASSUME "plain" \notin Failing, Clean(store), Good(store),
           NEW target \in Entries, target \in Stored(store.mem),
           NEW summary \in Entries \cup {None}, summary \notin Stored(store.mem),
           NEW label \in BOOLEAN, CommitNavigation(target, summary, label),
           NEW a \in Nat, a = (IF summary = None THEN 0 ELSE 1),
           NEW b \in Nat, b = (IF label THEN 1 ELSE 0)
    PROVE  Grew(store, store', ((1 + a) + b) + 2) /\ reply' \in {"moved", "failed"}
<1> DEFINE new == IF store.mem.entries[target].type = "user"
                  THEN store.mem.entries[target].parent ELSE target
           labelled == IF summary = None THEN target ELSE summary
<1>1. new \in Stored(store.mem) \cup {None}
  BY DEF Good, Sound, Stored, Tree
<1> HIDE DEF new
<1>2. PICK m \in MoveLane(store, new) :
          IF ~m.ok THEN UndoNavigation(m.d, None)
          ELSE \E s \in IF summary = None THEN Done(m.d)
                        ELSE Persist(m.d, NewEntry(m.d, summary, "summary", << >>),
                                     "plain") :
            IF ~s.ok THEN UndoNavigation(s.d, None)
            ELSE \E l \in IF ~label THEN Done(s.d)
                          ELSE Persist(s.d, LabelLine(NextSeq(s.d), labelled, TRUE),
                                       "plain") :
              IF ~l.ok
              THEN IF summary # None THEN KeepSummary(l.d, FALSE)
                   ELSE UndoNavigation(l.d, labelled)
              ELSE \E y \in Sync(l.d) :
                IF y.ok THEN /\ store' = y.d
                             /\ history' = HistoryOf(y.d.mem)
                             /\ reply' = "moved"
                ELSE IF summary # None THEN KeepSummary(y.d, TRUE)
                ELSE UndoNavigation(y.d, IF label THEN labelled ELSE None)
  BY DEF CommitNavigation, new
<1>3. PICK none \in Nat, one \in Nat, two \in Nat : none = 0 /\ one = 1 /\ two = 2
  OBVIOUS
<1>4. /\ m.ok = TRUE /\ Clean(m.d) /\ m.d.mem.entries = store.mem.entries
      /\ Grew(store, m.d, one)
  BY <1>1, <1>2, <1>3, LaneGrows
<1>5. PICK s \in IF summary = None THEN Done(m.d)
                 ELSE Persist(m.d, NewEntry(m.d, summary, "summary", << >>), "plain") :
            IF ~s.ok THEN UndoNavigation(s.d, None)
            ELSE \E l \in IF ~label THEN Done(s.d)
                          ELSE Persist(s.d, LabelLine(NextSeq(s.d), labelled, TRUE),
                                       "plain") :
              IF ~l.ok
              THEN IF summary # None THEN KeepSummary(l.d, FALSE)
                   ELSE UndoNavigation(l.d, labelled)
              ELSE \E y \in Sync(l.d) :
                IF y.ok THEN /\ store' = y.d
                             /\ history' = HistoryOf(y.d.mem)
                             /\ reply' = "moved"
                ELSE IF summary # None THEN KeepSummary(y.d, TRUE)
                ELSE UndoNavigation(y.d, IF label THEN labelled ELSE None)
  BY <1>2, <1>4
<1>6. /\ s.ok = TRUE /\ Clean(s.d) /\ Grew(m.d, s.d, a)
      /\ labelled \in Entries /\ labelled \in Stored(s.d.mem)
      /\ summary = None => s.d.mem.entries = store.mem.entries
  <2>1. CASE summary = None
    <3>1. s.ok = TRUE /\ s.d = m.d
      BY <1>5, <2>1 DEF Done
    <3>2. Grew(m.d, m.d, 0)
      BY <1>4, CleanSize
    <3> QED
      BY <1>4, <2>1, <3>1, <3>2 DEF Stored
  <2>2. CASE summary # None
    <3> DEFINE line == NewEntry(m.d, summary, "summary", << >>)
    <3>1. s \in Persist(m.d, line, "plain")
      BY <1>5, <2>2
    <3>2. Good(m.d) /\ summary \in Entries /\ summary \notin Stored(m.d.mem) /\ "summary" \in Types
      BY <1>4, <2>2, CleanSize DEF Stored, Types
    <3>3. line \in Mutations /\ Validate(m.d.mem, line)
      BY <3>2, PlainEntryValid
    <3>4. s.ok => Stored(s.d.mem) = Stored(m.d.mem) \cup {summary}
      BY <3>1, <3>2, SummaryAppends
    <3> HIDE DEF line
    <3>5. s.ok = TRUE /\ Grew(m.d, s.d, 1)
      BY <1>4, <3>1, <3>3, PlainPersist
    <3> QED
      BY <2>2, <3>2, <3>4, <3>5 DEF Grew
  <2> QED
    BY <2>1, <2>2
<1>7. PICK l \in IF ~label THEN Done(s.d)
                 ELSE Persist(s.d, LabelLine(NextSeq(s.d), labelled, TRUE), "plain") :
              IF ~l.ok
              THEN IF summary # None THEN KeepSummary(l.d, FALSE)
                   ELSE UndoNavigation(l.d, labelled)
              ELSE \E y \in Sync(l.d) :
                IF y.ok THEN /\ store' = y.d
                             /\ history' = HistoryOf(y.d.mem)
                             /\ reply' = "moved"
                ELSE IF summary # None THEN KeepSummary(y.d, TRUE)
                ELSE UndoNavigation(y.d, IF label THEN labelled ELSE None)
  BY <1>5, <1>6
<1>8. /\ labelled \in Entries /\ summary = None => labelled = target
  BY <1>6
<1> HIDE DEF labelled
<1>9. /\ l.ok = TRUE /\ Clean(l.d) /\ Grew(s.d, l.d, b) /\ l.d.mem.entries = s.d.mem.entries
  <2>1. CASE ~label
    <3>1. l.ok = TRUE /\ l.d = s.d
      BY <1>7, <2>1 DEF Done
    <3>2. Grew(s.d, s.d, 0)
      BY <1>6, CleanSize
    <3> QED
      BY <1>6, <2>1, <3>1, <3>2
  <2>2. CASE label
    <3>1. PICK line : line = LabelLine(NextSeq(s.d), labelled, TRUE)
      OBVIOUS
    <3>2. /\ l \in Persist(s.d, line, "plain")
          /\ Labelling(s.d, labelled, line)
      BY <1>7, <2>2, <3>1 DEF Labelling
    <3>3. /\ l.ok = TRUE /\ Clean(l.d) /\ l.d.mem.entries = s.d.mem.entries
          /\ Grew(s.d, l.d, one)
      BY <1>3, <1>6, <3>2, LabelGrows
    <3> QED
      BY <1>3, <2>2, <3>3
  <2> QED
    BY <2>1, <2>2
<1>10. PICK y \in Sync(l.d) :
                IF y.ok THEN /\ store' = y.d
                             /\ history' = HistoryOf(y.d.mem)
                             /\ reply' = "moved"
                ELSE IF summary # None THEN KeepSummary(y.d, TRUE)
                ELSE UndoNavigation(y.d, IF label THEN labelled ELSE None)
  BY <1>7, <1>9
<1>11. PICK g : g = IF label THEN labelled ELSE None
  OBVIOUS
<1>12. /\ IF y.ok THEN store' = y.d /\ reply' = "moved"
          ELSE IF summary # None THEN KeepSummary(y.d, TRUE)
          ELSE UndoNavigation(y.d, g)
       /\ summary = None => /\ l.d.mem.entries = store.mem.entries
                            /\ g = None \/ (g \in Entries /\ g \in Stored(store.mem))
  BY <1>6, <1>8, <1>9, <1>10, <1>11
<1>13. Grew(l.d, store', two) /\ reply' \in {"moved", "failed"}
  BY <1>3, <1>9, <1>12, LastSyncGrows
<1>14. Grew(store, s.d, one + a)
  BY <1>4, <1>6, GrewTwice
<1>15. PICK p \in Nat, q \in Nat : p = one + a /\ q = p + b
  OBVIOUS
<1>16. Grew(store, l.d, p + b)
  BY <1>9, <1>14, <1>15, GrewTwice
<1>17. Grew(store, store', q + two)
  BY <1>13, <1>15, <1>16, GrewTwice
<1> QED
  BY <1>3, <1>13, <1>15, <1>17

\* navigate_session_with_summary.
LEMMA NavigateRecovers ==
    ASSUME RecoveryInv, "plain" \notin Failing, NEW target \in Entries,
           NEW summary \in Entries \cup {None}, NEW label \in BOOLEAN,
           Navigate(target, summary, label)
    PROVE  Recovers
<1>1. /\ Writable /\ UNCHANGED <<writeFailed, live, crashes>>
      /\ Room(1 + (IF summary = None THEN 0 ELSE 1) + (IF label THEN 1 ELSE 0))
      /\ CommitNavigation(target, summary, label)
  BY DEF Navigate
<1>2. live /\ ~writeFailed /\ writeFailed = FALSE /\ Clean(store) /\ Good(store)
  BY <1>1, WritableIsClean
<1>3. target \in Stored(store.mem) /\ summary \notin Stored(store.mem)
  <2>1. Stored(store.mem) \subseteq Entries
    BY <1>2 DEF Good, Sound, State, Nodes, Stored
  <2> QED
    BY <2>1, StoreAssumption DEF Navigate, Fresh
<1>4. PICK a \in Nat, b \in Nat :
         a = (IF summary = None THEN 0 ELSE 1) /\ b = (IF label THEN 1 ELSE 0)
  OBVIOUS
<1>5. PICK n \in Nat : n = (1 + a) + b
  OBVIOUS
<1>6. Grew(store, store', ((1 + a) + b) + 2) /\ reply' \in {"moved", "failed"}
  BY <1>1, <1>2, <1>3, <1>4, CommitNavigationGrows
<1>7. PICK k \in Nat : k = n + 2 /\ k <= n + 2
  OBVIOUS
<1>8. Grew(store, store', k)
  BY <1>5, <1>6, <1>7
<1>9. Advanced(store, store', k) /\ Clean(store')
  BY <1>2, <1>8, GrewAdvanced DEF Grew
<1>10. Room(n)
  BY <1>1, <1>4, <1>5
<1> QED
  BY <1>1, <1>2, <1>6, <1>7, <1>9, <1>10, WriteRecovers

(***************************************************************************)
(* The theorems about recovery.                                            *)
(***************************************************************************)

\* Initially the log is empty.
LEMMA InitRecovery ==
    ASSUME Init
    PROVE  RecoveryInv /\ Readable(store) = << >> /\ store.durable = 0
<1>1. /\ store.file = << >> /\ store.pending = << >> /\ store.tail = "none"
      /\ store.durable = 0 /\ store.mem = EmptyState
      /\ live = TRUE /\ writeFailed = FALSE /\ reply = "none" /\ crashes = MaxCrashes
  BY DEF Init
<1>2. << >> \in Seq(Mutations) /\ Len(<< >>) = 0
  OBVIOUS
<1>3. Replay(<< >>) = [ok |-> TRUE, state |-> EmptyState]
  <2>1. PICK x \in Lines : TRUE
    BY OddLines
  <2>2. << >> \in Seq(Lines)
    OBVIOUS
  <2> QED
    BY <2>1, <2>2, ReplaySteps
<1>4. Valid(store.file) /\ store.mem = Replay(store.file).state
  BY <1>1, <1>2, <1>3 DEF Valid
<1>5. Orderly(store)
  BY <1>1, <1>2, <1>4 DEF Orderly
<1>6. Good(store)
  BY InitContext DEF ContextInv
<1>7. Clean(store)
  BY <1>1, <1>4, <1>5, <1>6 DEF Clean, Quiet
<1>8. Readable(store) = << >>
  BY <1>1, <1>5, EmptyTail
<1>9. Len(store.file) + Len(store.pending) <= MaxSeq + 2 /\ crashes \in 0..MaxCrashes
  BY <1>1, <1>2, StoreAssumption
<1> QED
  BY <1>1, <1>5, <1>7, <1>8, <1>9 DEF RecoveryInv

\* Every step keeps the invariant and is a step of the log, or none.
LEMMA NextRecovery ==
    ASSUME "plain" \notin Failing, ContextInv, RecoveryInv, [Next]_vars
    PROVE  RecoveryInv' /\ (Recovers \/ UNCHANGED vars)
<1>1. CASE UNCHANGED vars
  <2>1. RecoveryInv'
    BY <1>1 DEF RecoveryInv, vars
  <2> QED
    BY <1>1, <2>1
<1>2. CASE Write
  <2>1. CASE AppendRecord
    BY <2>1, AppendRecordRecovers DEF Recovers
  <2>2. ASSUME NEW e \in Entries, NEW t \in {"user", "reply"}, AppendContextMessage(e, t)
        PROVE  RecoveryInv' /\ Recovers
    BY <2>2, AppendContextMessageRecovers DEF Recovers
  <2>3. ASSUME NEW e \in Entries, CommitCompaction(e) PROVE RecoveryInv' /\ Recovers
    BY <2>3, CommitCompactionRecovers DEF Recovers
  <2>4. ASSUME NEW n \in 1..2, CommitRecords(n) PROVE RecoveryInv' /\ Recovers
    BY <2>4, CommitRecordsRecovers DEF Recovers
  <2>5. ASSUME NEW e \in Entries, CommitConsumed(e) PROVE RecoveryInv' /\ Recovers
    BY <2>5, CommitConsumedRecovers DEF Recovers
  <2>6. ASSUME NEW e \in Entries, CommitSetting(e) PROVE RecoveryInv' /\ Recovers
    BY <2>6, CommitSettingRecovers DEF Recovers
  <2>7. ASSUME NEW n \in Names, Rename(n) PROVE RecoveryInv' /\ Recovers
    BY <2>7, RenameRecovers DEF Recovers
  <2>8. CASE SetNameAt
    BY <2>8, SetNameAtRecovers DEF Recovers
  <2>9. CASE ClearNavigation
    BY <2>9, ClearNavigationRecovers DEF Recovers
  <2>10. ASSUME NEW e \in Entries, NEW s \in Entries \cup {None}, NEW b \in BOOLEAN,
                Navigate(e, s, b)
         PROVE  RecoveryInv' /\ Recovers
    BY <2>10, NavigateRecovers DEF Recovers
  <2>11. ASSUME NEW e \in Entries, AppendStoreOnlyEntry(e) PROVE RecoveryInv' /\ Recovers
    BY <2>11, AppendStoreOnlyEntryRecovers DEF Recovers
  <2>12. ASSUME NEW e \in Entries, NEW b \in BOOLEAN, SetLabel(e, b)
         PROVE  RecoveryInv' /\ Recovers
    BY <2>12, SetLabelRecovers DEF Recovers
  <2> QED
    BY <1>2, <2>1, <2>2, <2>3, <2>4, <2>5, <2>6, <2>7, <2>8, <2>9, <2>10, <2>11, <2>12 DEF Write
<1>3. CASE SyncTranscript
  BY <1>3, SyncTranscriptRecovers DEF Recovers
<1>4. CASE Close
  BY <1>4, CloseRecovers DEF Recovers
<1>5. CASE Crash
  BY <1>5, CrashRecovers DEF Recovers
<1>6. CASE Open
  BY <1>6, OpenRecovers DEF Recovers
<1> QED
  BY <1>1, <1>2, <1>3, <1>4, <1>5, <1>6 DEF Next

\* A mutation with a number within the bounds is a line of the type invariant.
LEMMA MutationIsLine ==
    ASSUME NEW x \in Mutations, x.seq \in 1..(MaxSeq + 2)
    PROVE  x \in Line
<1>1. CASE x \in EntryLines
  BY <1>1 DEF EntryLines, Line
<1>2. CASE x \in OtherLines
  BY <1>2 DEF OtherLines, Line
<1> QED
  BY <1>1, <1>2 DEF Mutations

\* What the invariants say of the types.
LEMMA RecoveryTypes ==
    ASSUME ContextInv, RecoveryInv
    PROVE  StoreTypeOK
<1>1. /\ Good(store) /\ Held(store) /\ store \in Disk /\ Orderly(store) /\ Valid(store.file)
      /\ store.file \in Seq(Mutations) /\ store.durable \in Nat
      /\ store.durable <= Len(store.file) /\ MaxSeq \in Nat
  BY StoreAssumption DEF ContextInv, RecoveryInv, Good, Held, Disk, Orderly, Valid
<1>2. PICK nf \in Nat, np \in Nat : nf = Len(store.file) /\ np = Len(store.pending)
  BY <1>1 DEF Disk
<1>3. nf + np <= MaxSeq + 2
  BY <1>2 DEF RecoveryInv
<1>4. store.file \in Seq(Line \cup {Garbage, Mangled})
  <2>1. ASSUME NEW k \in 1..nf PROVE store.file[k] \in Line \cup {Garbage, Mangled}
    <3>1. k \in 1..Len(store.file)
      BY <1>2
    <3>2. store.file[k] \in Mutations /\ store.file[k].seq = k
      BY <1>1, <3>1, ValidNumbers
    <3>3. k \in 1..(MaxSeq + 2)
      BY <1>1, <1>3
    <3>4. store.file[k].seq \in 1..(MaxSeq + 2)
      BY <3>2, <3>3
    <3> QED
      BY <3>2, <3>4, MutationIsLine
  <2> QED
    BY <1>1, <1>2, <2>1
<1>5. store.pending \in Seq(Line \cup Begun \cup {Garbage, Mangled})
  <2>1. CASE store.pending = << >>
    BY <2>1
  <2>2. CASE \E x \in Begun : store.pending = <<x>>
    BY <2>2
  <2>3. CASE /\ store.pending = <<store.pending[1]>> /\ store.pending[1] \in Mutations
             /\ Validate(Replay(store.file).state, store.pending[1])
    <3>1. PICK x \in Mutations : /\ x = store.pending[1] /\ store.pending = <<x>>
                                 /\ Validate(Replay(store.file).state, x)
      BY <2>3
    <3>2. x.seq = nf + 1
      BY <1>1, <1>2, <3>1, ValidSeq DEF Validate
    <3>3. np = 1
      BY <1>2, <3>1
    <3>4. x.seq \in 1..(MaxSeq + 2)
      BY <1>1, <1>3, <3>2, <3>3
    <3>5. x \in Line
      BY <3>4, MutationIsLine
    <3> QED
      BY <3>1, <3>5
  <2> QED
    BY <1>1, <2>1, <2>2, <2>3 DEF Orderly
<1>6. store.mem.seq \in 0..(MaxSeq + 2)
  <2>1. Replay(store.file).state.seq = nf
    BY <1>1, <1>2, ValidSeq
  <2>2. store.mem.seq \in Nat
    BY <1>1 DEF Disk, State
  <2>3. CASE ~live
    <3>1. store.mem.seq = 0
      BY <2>3 DEF RecoveryInv, EmptyState
    <3> QED
      BY <1>1, <3>1
  <2>4. CASE live
    <3>1. \/ store.mem = Replay(store.file).state
          \/ Replay(store.file).state.seq = store.mem.seq + 1
      BY <2>4 DEF RecoveryInv, Clean
    <3>2. store.mem.seq = nf \/ store.mem.seq + 1 = nf
      BY <2>1, <3>1
    <3> QED
      BY <1>1, <1>3, <2>2, <3>2
  <2> QED
    BY <2>3, <2>4
<1>7. history \in Seq(Entries)
  <2>1. CASE live
    <3>1. Sound(store.mem) /\ history = HistoryOf(store.mem)
      BY <1>1, <2>1 DEF Good, ContextInv, HistoryMatchesStore
    <3> QED
      BY <3>1, HistoryTyped
  <2>2. CASE ~live
    BY <2>2 DEF RecoveryInv
  <2> QED
    BY <2>1, <2>2
<1>8. /\ store.tail \in Parts /\ (store.tail # "none" => store.pending # << >>)
      /\ store.durable \in 0..Len(store.file)
  BY <1>1, <1>2 DEF Held, Disk
<1> QED
  BY <1>4, <1>5, <1>6, <1>7, <1>8 DEF StoreTypeOK, RecoveryInv

\* What the invariants say of a reopening.
LEMMA RecoveryRestores ==
    ASSUME ContextInv, RecoveryInv
    PROVE  ReopeningRestores
<1> DEFINE read == Replay(Readable(store))
<1>1. Orderly(store) /\ Valid(store.file) /\ Valid(Readable(store)) /\ read.ok
  BY ReadableIs DEF RecoveryInv, Orderly, Valid
<1>2. ASSUME live
      PROVE  \/ read.state = store.mem
             \/ writeFailed /\ read.state.seq = store.mem.seq + 1
  <2>1. CASE ~writeFailed
    <3>1. Clean(store)
      BY <1>2, <2>1 DEF RecoveryInv
    <3>2. store.pending = << >> /\ store.mem = Replay(store.file).state
      BY <3>1 DEF Clean, Quiet
    <3>3. Readable(store) = store.file
      BY <1>1, <3>2, EmptyTail
    <3> QED
      BY <3>2, <3>3
  <2>2. CASE writeFailed /\ store.mem = Replay(store.file).state
    <3>1. CASE store.tail # "whole"
      <4>1. Readable(store) = store.file
        BY <1>1, <3>1, ReadableIs
      <4> QED
        BY <2>2, <4>1
    <3>2. CASE store.tail = "whole"
      <4>1. PICK x \in Mutations : Readable(store) = Append(store.file, x)
        BY <1>1, <3>2, ReadableIs
      <4>2. store.file \in Seq(Mutations)
        BY <1>1 DEF Valid
      <4>3. Len(Readable(store)) = Len(store.file) + 1
        BY <4>1, <4>2
      <4>4. read.state.seq = Len(Readable(store)) /\ store.mem.seq = Len(store.file)
        BY <1>1, <2>2, ValidSeq
      <4> QED
        BY <2>2, <4>3, <4>4
    <3> QED
      BY <3>1, <3>2
  <2>3. CASE /\ writeFailed /\ store.pending = << >>
             /\ Replay(store.file).state.seq = store.mem.seq + 1
    <3>1. Readable(store) = store.file
      BY <1>1, <2>3, EmptyTail
    <3> QED
      BY <2>3, <3>1
  <2> QED
    BY <1>2, <2>1, <2>2, <2>3 DEF RecoveryInv
<1>3. StoreTypeOK
  BY RecoveryTypes
<1>4. ~Legible(store) => store.tail = "split"
  BY <1>1, OrderlyIsLegible
<1> QED
  BY <1>1, <1>2, <1>3, <1>4 DEF ReopeningRestores

\* Whatever failed commits, failed syncs and crashes leave behind, the log can be
\* opened again and gives back the state in memory, except that the mutation of a
\* failed commit may turn up (JsonlStoreFactory::open over what persist and sync
\* leave behind); only a last line that stops inside a character makes the file
\* unreadable.  Ordinary appends have to succeed: the transcript goes on after one
\* that failed, and then what it left in the writer is in the way.
THEOREM ReopeningIsFaithful ==
    ASSUME "plain" \notin Failing
    PROVE  Spec => []ReopeningRestores
<1>1. Init => ContextInv /\ RecoveryInv
  BY InitContext, InitRecovery
<1>2. (ContextInv /\ RecoveryInv) /\ [Next]_vars => (ContextInv /\ RecoveryInv)'
  BY NextContext, NextRecovery
<1>3. ContextInv /\ RecoveryInv => ReopeningRestores
  BY RecoveryRestores
<1> QED
  BY <1>1, <1>2, <1>3, PTL DEF Spec

\* Of a log at rest nothing is lost when it is closed or the machine goes down.
LEMMA RestStays ==
    ASSUME ContextInv, RecoveryInv, Close \/ Crash, store.pending = << >>,
           store.durable = Len(store.file)
    PROVE  store'.file = store.file /\ store'.pending = << >> /\ store'.tail = "none"
<1>1. /\ Good(store) /\ Held(store) /\ store \in Disk /\ Orderly(store) /\ store.tail = "none"
      /\ store.file \in Seq(Lines) /\ Len(store.file) \in Nat /\ << >> \in Seq(Lines)
  BY EmptyTail DEF ContextInv, RecoveryInv, Good, Held, Disk
<1>2. ASSUME NEW d \in Disk, d.tail = "none"
      PROVE  Abandoned(d).file = d.file /\ Abandoned(d).pending = << >> /\ Abandoned(d).tail = "none"
  BY <1>2 DEF Abandoned, Disk
<1>3. CASE Close
  <2>1. PICK r \in Sync(store) : \E f \in {r.d, Flushed(r.d, r.d.pending)} : store' = Abandoned(f)
    BY <1>3 DEF Close
  <2>2. PICK f \in {r.d, Flushed(r.d, r.d.pending)} : store' = Abandoned(f)
    BY <2>1
  <2>3. ASSUME NEW d, NEW s, Held(d), Orderly(d), d.pending = << >>, Settled(d, s)
        PROVE  /\ Held(s) /\ Orderly(s) /\ s.file = d.file /\ s.pending = << >>
               /\ s.tail = "none" /\ s \in Disk
    <3>1. \A x : << >> # <<x>>
      OBVIOUS
    <3>2. Held(s) /\ Orderly(s) /\ s.file = d.file /\ s.pending = << >>
      BY <2>3, <3>1 DEF Settled
    <3> QED
      BY <3>2, EmptyTail DEF Held
  <2>4. Settled(store, r.d)
    BY <1>1, <2>1, SyncSettles
  <2>5. /\ Held(r.d) /\ Orderly(r.d) /\ r.d.file = store.file /\ r.d.pending = << >>
        /\ r.d.tail = "none" /\ r.d \in Disk
    BY <1>1, <2>3, <2>4
  <2>6. f \in Disk /\ f.file = store.file /\ f.tail = "none"
    <3>1. CASE f = r.d
      BY <2>5, <3>1
    <3>2. CASE f = Flushed(r.d, r.d.pending)
      <4>1. Settled(r.d, f)
        BY <2>5, <3>2, FlushSettles
      <4> QED
        BY <2>3, <2>5, <4>1
    <3> QED
      BY <2>2, <3>1, <3>2
  <2> QED
    BY <1>2, <2>2, <2>6
<1>4. CASE Crash
  <2>0. PICK all : all = store.file \o store.pending
    OBVIOUS
  <2>1. PICK n, t :
             /\ n \in store.durable..Len(store.file) /\ t \in Parts
             /\ n = Len(store.file) => t \in IF store.tail = "none" THEN {"none"}
                                             ELSE {"none", "torn", "split", store.tail}
             /\ store' = Abandoned([store EXCEPT
                            !.file = SubSeq(all, 1, n), !.tail = t,
                            !.pending = SubSeq(all, n + 1, Len(all))])
    BY <1>4, <2>0 DEF Crash
  <2>2. n = Len(store.file)
    BY <1>1, <2>1
  <2>3. t = "none" /\ all = store.file
    <3>1. store.file \o << >> = store.file
      BY <1>1, ConcatEmptySeq
    <3> QED
      BY <1>1, <2>0, <2>1, <2>2, <3>1
  <2>4. SubSeq(all, 1, n) = store.file /\ SubSeq(all, n + 1, Len(all)) = << >>
    BY <1>1, <2>2, <2>3, Pieces
  <2> DEFINE d == [store EXCEPT !.file = store.file, !.tail = "none", !.pending = << >>]
  <2>5. store' = Abandoned(d)
    BY <2>1, <2>3, <2>4
  <2>6. d \in Disk /\ d.tail = "none" /\ d.file = store.file
    BY <1>1 DEF Disk, Parts
  <2> HIDE DEF d
  <2> QED
    BY <1>2, <2>5, <2>6
<1> QED
  BY <1>3, <1>4

\* Who changes whether the log is held.
LEMMA HolderSteps ==
    ASSUME RecoveryInv, Next
    PROVE  \/ live' = live /\ (live \/ SetNameAt) /\ ~Crash
           \/ (Close \/ Crash) /\ live' = FALSE
           \/ Open
<1>1. CASE SyncTranscript /\ ~Crash
  BY <1>1 DEF SyncTranscript
<1>2. CASE Close
  BY <1>2 DEF Close, Released
<1>3. CASE Crash
  BY <1>3 DEF Crash, Released
<1>4. CASE Write /\ ~Crash
  <2>1. CASE SetNameAt
    BY <1>4, <2>1 DEF SetNameAt
  <2>2. ASSUME Writable, live' = live
        PROVE  live' = live /\ (live \/ SetNameAt) /\ ~Crash
    BY <1>4, <2>2 DEF Writable
  <2> QED
    BY <1>4, <2>1, <2>2 DEF Write, AppendRecord, AppendContextMessage, CommitCompaction,
       CommitRecords, CommitConsumed, CommitSetting, Rename, ClearNavigation, Navigate,
       AppendStoreOnlyEntry, SetLabel
<1> QED
  BY <1>1, <1>2, <1>3, <1>4 DEF Next

\* Under the same hypothesis the store implements DurableLog: a transcript only
\* appends to the lines, a crash or a close takes away at most a suffix that was
\* never synced and nothing of a log at rest, and opening gives back every line,
\* unless the bytes behind the last one stop inside a character.
THEOREM StoreImplementsLog ==
    ASSUME "plain" \notin Failing
    PROVE  Spec => ImplementsDurableLog
<1>1. Init => ContextInv /\ RecoveryInv /\ Log!Init
  <2> SUFFICES ASSUME Init PROVE ContextInv /\ RecoveryInv /\ Log!Init
    OBVIOUS
  <2>1. ContextInv /\ RecoveryInv /\ Readable(store) = << >> /\ store.durable = 0
    BY InitContext, InitRecovery
  <2>2. live = TRUE /\ store.pending = << >> /\ store.tail = "none" /\ Orderly(store)
    BY <2>1 DEF Init, RecoveryInv
  <2>3. Legible(store)
    BY <2>2, OrderlyIsLegible
  <2>4. Rest = "none"
    BY <2>2, <2>3 DEF Rest
  <2> QED
    BY <2>1, <2>2, <2>4 DEF Log!Init
<1>2. ContextInv /\ RecoveryInv /\ [Next]_vars
        => (ContextInv /\ RecoveryInv)' /\ [Log!Next]_(Log!logVars)
  <2> SUFFICES ASSUME ContextInv, RecoveryInv, [Next]_vars
               PROVE  (ContextInv /\ RecoveryInv)' /\ [Log!Next]_(Log!logVars)
    OBVIOUS
  <2>1. ContextInv' /\ RecoveryInv' /\ (Recovers \/ UNCHANGED vars)
    BY NextContext, NextRecovery
  <2>2. CASE UNCHANGED vars
    <3>1. store' = store /\ live' = live
      BY <2>2 DEF vars
    <3>2. UNCHANGED Log!logVars
      BY <3>1 DEF Log!logVars, Readable, Rest, Legible
    <3> QED
      BY <2>1, <3>2
  <2>3. CASE Recovers /\ Next
    <3>1. /\ Orderly(store) /\ Orderly(store') /\ store.durable \in Nat /\ store'.durable \in Nat
          /\ Held(store)
      BY <2>1 DEF RecoveryInv, ContextInv, Good, Held, Disk
    <3>2. /\ Appends(store, store') \/ (Crash /\ Loses(store, store'))
          /\ Appends(store, store') => /\ Log!Prefix(Readable(store), Readable(store'))
                                       /\ store'.durable \in store.durable..Len(Readable(store'))
          /\ Loses(store, store') => /\ Log!Prefix(Readable(store'), Readable(store))
                                     /\ store'.durable \in store.durable..Len(Readable(store'))
      BY <2>3, <3>1, StepOfLog DEF Recovers
    <3>3. CASE live' = live /\ (live \/ SetNameAt) /\ ~Crash
      <4>1. live \/ Rest # "unreadable"
        <5>1. SetNameAt => Legible(store)
          <6> SUFFICES ASSUME SetNameAt PROVE Legible(store)
            OBVIOUS
          <6>1. store.tail = "none" \/ Legible(store)
            BY DEF SetNameAt
          <6> QED
            BY <3>1, <6>1, OrderlyIsLegible
        <5> QED
          BY <3>3, <5>1 DEF Rest
      <4>2. Log!Extend
        BY <3>2, <3>3, <4>1 DEF Log!Extend
      <4> QED
        BY <2>1, <4>2 DEF Log!Next
    <3>4. CASE (Close \/ Crash) /\ live' = FALSE
      <4>1. Rest = "none" /\ store.durable = Len(Readable(store))
              => Readable(store') = Readable(store) /\ Rest' = "none"
        <5> SUFFICES ASSUME Rest = "none", store.durable = Len(Readable(store))
                     PROVE  Readable(store') = Readable(store) /\ Rest' = "none"
          OBVIOUS
        <5>1. store.pending = << >>
          BY DEF Rest
        <5>2. Readable(store) = store.file
          BY <3>1, <5>1, EmptyTail
        <5>3. store'.file = store.file /\ store'.pending = << >> /\ store'.tail = "none"
          BY <3>4, <5>1, <5>2, RestStays
        <5>4. Readable(store') = store'.file /\ Legible(store')
          BY <3>1, <5>3, EmptyTail, OrderlyIsLegible
        <5> QED
          BY <5>2, <5>3, <5>4 DEF Rest
      <4>2. Log!Stop
        BY <3>2, <3>4, <4>1 DEF Log!Stop, Log!AtRest
      <4> QED
        BY <2>1, <4>2 DEF Log!Next
    <3>5. CASE Open
      <4>1. live = FALSE /\ live' = TRUE /\ Legible(store) /\ store' = Opened(store)
        BY <3>5 DEF Open, RecoveryInv
      <4>2. /\ Clean(store') /\ Readable(store') = Readable(store)
            /\ store'.durable = store.durable
        BY <3>1, <4>1, OpenedReads
      <4>3. store'.pending = << >> /\ store'.tail = "none"
        BY <3>1, <4>2, EmptyTail DEF Clean, Quiet
      <4>4. Legible(store')
        BY <3>1, <4>3, OrderlyIsLegible
      <4>5. Rest # "unreadable" /\ Rest' = "none"
        BY <4>1, <4>3, <4>4 DEF Rest
      <4>6. Log!Reopen
        BY <4>1, <4>2, <4>5 DEF Log!Reopen
      <4> QED
        BY <2>1, <4>6 DEF Log!Next
    <3> QED
      BY <2>3, <3>3, <3>4, <3>5, HolderSteps
  <2> QED
    BY <2>1, <2>2, <2>3
<1> QED
  BY <1>1, <1>2, PTL DEF Spec, ImplementsDurableLog, Log!Spec

\* Under the same hypothesis the line at a place has the sequence number of that
\* place, which last_sequence and set_name_at rely on.
THEOREM SequencesAreConsecutive ==
    ASSUME "plain" \notin Failing
    PROVE  Spec => []ConsecutiveSequences
<1>1. Init => ContextInv /\ RecoveryInv
  BY InitContext, InitRecovery
<1>2. (ContextInv /\ RecoveryInv) /\ [Next]_vars => (ContextInv /\ RecoveryInv)'
  BY NextContext, NextRecovery
<1>3. ContextInv /\ RecoveryInv => ConsecutiveSequences
  BY ValidNumbers DEF RecoveryInv, Orderly, ConsecutiveSequences
<1> QED
  BY <1>1, <1>2, <1>3, PTL DEF Spec
=============================================================================
