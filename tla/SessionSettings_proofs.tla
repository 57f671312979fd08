----------------------- MODULE SessionSettings_proofs -----------------------
(***************************************************************************)
(* That reopening a Session keeps its choices, for any tools, models, old  *)
(* logs and bounds.                                                        *)
(***************************************************************************)
EXTENDS SessionSettings, WellFoundedInduction, TLAPS

Setters  == [kind : {"model"}, value : Models, raced : BOOLEAN]
              \cup [kind : {"level"}, value : Levels, raced : BOOLEAN]
              \cup [kind : {"mode"}, value : Modes, raced : BOOLEAN]
Requests == [observed : SUBSET Names, names : SUBSET Names]

Apart(s) == s.loaded \cap s.disabled = {}

\* A set of numbers has a least one.
LEMMA LeastNumber ==
    ASSUME NEW T, T \subseteq Nat, T # {}
    PROVE  \E x \in T : \A y \in T : x <= y
<1>1. \E x \in T : \A y \in T : ~(<<y, x>> \in OpToRel(<, Nat))
  BY NatLessThanWellFounded, WFMin, Zenon
<1>2. \A x, y \in T : ~(<<y, x>> \in OpToRel(<, Nat)) => ~(y < x)
  BY Zenon DEF OpToRel
<1>3. \E x \in T : \A y \in T : ~(y < x)
  BY <1>1, <1>2, Zenon
<1> QED
  BY <1>3

\* A set of places has a greatest one.
LEMMA LastPlace ==
    ASSUME NEW n \in Nat, NEW T, T \subseteq 1..n, T # {}
    PROVE  \E m \in T : \A j \in T : j <= m
<1> DEFINE U == {n - i : i \in T}
<1>1. U \subseteq Nat /\ U # {}
  <2>1. \A i \in T : n - i \in Nat
    OBVIOUS
  <2> QED
    BY <2>1, Zenon
<1>2. PICK x \in U : \A y \in U : x <= y
  <2> HIDE DEF U
  <2> QED
    BY <1>1, LeastNumber
<1>3. PICK m \in T : x = n - m
  OBVIOUS
<1>4. ASSUME NEW j \in T PROVE j <= m
  <2>1. n - j \in U /\ j \in 1..n /\ m \in 1..n
    OBVIOUS
  <2>2. n - m <= n - j
    BY <1>2, <1>3, <2>1
  <2> QED
    BY <2>1, <2>2
<1> QED
  BY <1>4

\* Latest is the last entry of the branch that settles k, or 0.
LEMMA LatestPlace ==
    ASSUME NEW b \in Branches, NEW k, NEW models
    PROVE  /\ Latest(b, k, models) \in 0..Len(b)
           /\ Latest(b, k, models) > 0 =>
                 Settles(b[Latest(b, k, models)], k, models)
           /\ \A j \in (Latest(b, k, models) + 1)..Len(b) :
                 ~Settles(b[j], k, models)
<1> DEFINE T == {i \in 1..Len(b) : Settles(b[i], k, models)}
           P(i) == /\ i > 0 => Settles(b[i], k, models)
                   /\ \A j \in (i + 1)..Len(b) : ~Settles(b[j], k, models)
<1>0. Len(b) \in Nat
  BY DEF Branches
<1>1. \E i \in 0..Len(b) : P(i)
  <2>1. CASE T = {}
    <3>1. \A j \in 1..Len(b) : ~Settles(b[j], k, models)
      BY <2>1
    <3> HIDE DEF T
    <3> QED
      BY <1>0, <3>1
  <2>2. CASE T # {}
    <3>1. PICK m \in T : \A j \in T : j <= m
      BY <1>0, <2>2, LastPlace
    <3>2. \A j \in (m + 1)..Len(b) : j \notin T
      BY <1>0, <3>1
    <3> QED
      BY <1>0, <3>1, <3>2
  <2> QED
    BY <2>1, <2>2
<1>2. Latest(b, k, models) = CHOOSE i \in 0..Len(b) : P(i)
  BY DEF Latest
<1> HIDE DEF P
<1>3. Latest(b, k, models) \in 0..Len(b) /\ P(Latest(b, k, models))
  BY <1>1, <1>2
<1> QED
  BY <1>3 DEF P

\* What an entry does to what a branch says: it decides what it settles.
LEMMA SavedAppend ==
    ASSUME NEW b \in Branches, NEW e \in Entries, NEW k, NEW models
    PROVE  /\ Append(b, e) \in Branches
           /\ Saved(Append(b, e), k, models) =
                 IF Settles(e, k, models) THEN e.value ELSE Saved(b, k, models)
<1> DEFINE c == Append(b, e)
           i == Latest(b, k, models)
           j == Latest(c, k, models)
<1>1. /\ c \in Branches /\ Len(c) = Len(b) + 1 /\ Len(b) \in Nat
      /\ c[Len(b) + 1] = e
      /\ \A m \in 1..Len(b) : c[m] = b[m]
  BY DEF Branches
<1>2. /\ i \in 0..Len(b) /\ (i > 0 => Settles(b[i], k, models))
      /\ \A m \in (i + 1)..Len(b) : ~Settles(b[m], k, models)
  BY LatestPlace
<1>3. /\ j \in 0..Len(c) /\ (j > 0 => Settles(c[j], k, models))
      /\ \A m \in (j + 1)..Len(c) : ~Settles(c[m], k, models)
  BY <1>1, LatestPlace
<1> HIDE DEF c, i, j
<1>4. CASE Settles(e, k, models)
  <2>1. j = Len(b) + 1
    BY <1>1, <1>3, <1>4
  <2> QED
    BY <1>1, <1>4, <2>1 DEF Saved, c, j
<1>5. CASE ~Settles(e, k, models)
  <2>1. j \in 0..Len(b)
    BY <1>1, <1>3, <1>5
  <2>2. j = i
    <3>1. ~(j < i)
      <4> SUFFICES ASSUME j < i PROVE FALSE
        OBVIOUS
      <4>1. i \in (j + 1)..Len(c) /\ i \in 1..Len(b) /\ i > 0
        BY <1>1, <1>2, <2>1
      <4> QED
        BY <1>1, <1>2, <1>3, <4>1
    <3>2. ~(i < j)
      <4> SUFFICES ASSUME i < j PROVE FALSE
        OBVIOUS
      <4>1. j \in (i + 1)..Len(b) /\ j \in 1..Len(b) /\ j > 0
        BY <1>1, <1>2, <2>1
      <4> QED
        BY <1>1, <1>2, <1>3, <4>1
    <3> QED
      BY <1>2, <2>1, <3>1, <3>2
  <2> QED
    BY <1>1, <1>2, <1>5, <2>2 DEF Saved, c, i, j
<1> QED
  BY <1>1, <1>4, <1>5 DEF c

\* The same for the entry of a change.
LEMMA SavedEntry ==
    ASSUME NEW b \in Branches, NEW kind \in Kinds, NEW value, NEW k \in Kinds, NEW models,
           Entry(kind, value) \in Entries
    PROVE  /\ Append(b, Entry(kind, value)) \in Branches
           /\ kind # k => Saved(Append(b, Entry(kind, value)), k, models) = Saved(b, k, models)
           /\ kind = k /\ (k = "model" => value \in models) =>
                 Saved(Append(b, Entry(kind, value)), k, models) = value
<1> DEFINE e == Entry(kind, value)
<1>1. e.kind = kind /\ e.value = value
  BY DEF Entry
<1>2. kind # k => ~Settles(e, k, models)
  BY <1>1 DEF Settles, Kinds
<1>3. kind = k /\ (k = "model" => value \in models) => Settles(e, k, models)
  BY <1>1 DEF Settles, Kinds
<1> HIDE DEF e
<1>4. e \in Entries
  BY DEF e
<1>5. /\ Append(b, e) \in Branches
      /\ Saved(Append(b, e), k, models) =
            IF Settles(e, k, models) THEN e.value ELSE Saved(b, k, models)
  BY <1>4, SavedAppend
<1>6. /\ Append(b, e) \in Branches
      /\ kind # k => Saved(Append(b, e), k, models) = Saved(b, k, models)
      /\ kind = k /\ (k = "model" => value \in models) =>
            Saved(Append(b, e), k, models) = value
  BY <1>1, <1>2, <1>3, <1>5
<1> QED
  BY <1>6 DEF e

\* Renaming gives choices that do not overlap.
LEMMA MigrateType ==
    ASSUME NEW c \in [extensions : Registries, mcp : Catalogs], NEW s \in Selections
    PROVE  MigrateSelection(c, s) \in Selections /\ Apart(MigrateSelection(c, s))
<1>1. DOMAIN c.mcp \subseteq Names
  BY SettingsAssumption DEF Registries
<1>2. ASSUME NEW n \in Names PROVE Renamed(c, n) \in Names
  <2> DEFINE alias == {x \in DOMAIN c.mcp : OldName[x] = n}
  <2>1. CASE n \notin DOMAIN Available(c) /\ \E x \in alias : alias = {x}
    <3>1. Renamed(c, n) = CHOOSE x \in alias : TRUE
      BY <2>1 DEF Renamed
    <3>2. (CHOOSE x \in alias : TRUE) \in alias
      BY <2>1
    <3> QED
      BY <1>1, <3>1, <3>2
  <2>2. CASE ~(n \notin DOMAIN Available(c) /\ \E x \in alias : alias = {x})
    BY <2>2 DEF Renamed
  <2> QED
    BY <2>1, <2>2
<1>3. s.loaded \subseteq Names /\ s.disabled \subseteq Names
  BY DEF Selections
<1> QED
  BY <1>2, <1>3 DEF MigrateSelection, Selections, Apart

\* A branch gives every setting a value of its kind.
LEMMA SavedType ==
    ASSUME NEW b \in Branches, NEW models \in Configurations
    PROVE  /\ Saved(b, "model", models) \in Models
           /\ Saved(b, "level", models) \in Levels
           /\ Saved(b, "mode", models) \in Modes
           /\ Saved(b, "tools", models) \in Selections
<1>1. ASSUME NEW k \in Kinds
      PROVE  \/ Saved(b, k, models) = Default[k]
             \/ \E e \in Entries : Saved(b, k, models) = e.value /\ Settles(e, k, models)
  <2> DEFINE i == Latest(b, k, models)
  <2>1. i \in 0..Len(b) /\ (i > 0 => Settles(b[i], k, models))
    BY LatestPlace
  <2>2. CASE i = 0
    BY <2>2 DEF Saved
  <2>3. CASE i # 0
    <3>1. i \in 1..Len(b) /\ b[i] \in Entries
      BY <2>1, <2>3 DEF Branches
    <3> QED
      BY <2>1, <2>3, <3>1 DEF Saved
  <2> QED
    BY <2>2, <2>3
<1>2. Saved(b, "model", models) \in Models
  BY <1>1, SettingsAssumption DEF Kinds, Default, Settles, Entries
<1>3. Saved(b, "level", models) \in Levels
  BY <1>1, SettingsAssumption DEF Kinds, Default, Settles, Entries
<1>4. Saved(b, "mode", models) \in Modes
  BY <1>1 DEF Kinds, Default, Settles, Entries, Modes
<1>5. Saved(b, "tools", models) \in Selections
  <2>1. Default["tools"] \in Selections
    BY DEF Default, NoChoice, Selections
  <2> QED
    BY <1>1, <2>1 DEF Kinds, Settles, Entries
<1> QED
  BY <1>2, <1>3, <1>4, <1>5

\* Only the entries of a model depend on what is configured.
LEMMA SavedSame ==
    ASSUME NEW b \in Branches, NEW k \in Kinds \ {"model"}, NEW m1, NEW m2
    PROVE  Saved(b, k, m1) = Saved(b, k, m2)
<1>1. ASSUME NEW i \in 1..Len(b) PROVE Settles(b[i], k, m1) <=> Settles(b[i], k, m2)
  <2>1. b[i] \in Entries
    BY DEF Branches
  <2> QED
    BY <2>1 DEF Settles, Kinds, Entries
<1> DEFINE i == Latest(b, k, m1)
           j == Latest(b, k, m2)
<1>2. /\ i \in 0..Len(b) /\ (i > 0 => Settles(b[i], k, m1))
      /\ \A m \in (i + 1)..Len(b) : ~Settles(b[m], k, m1)
  BY LatestPlace
<1>3. /\ j \in 0..Len(b) /\ (j > 0 => Settles(b[j], k, m2))
      /\ \A m \in (j + 1)..Len(b) : ~Settles(b[m], k, m2)
  BY LatestPlace
<1>4. Len(b) \in Nat
  BY DEF Branches
<1> HIDE DEF i, j
<1>5. i = j
  BY <1>1, <1>2, <1>3, <1>4
<1> QED
  BY <1>5 DEF Saved, i, j

\* What is restored are choices.
LEMMA RestoreType ==
    ASSUME NEW b \in Branches, NEW c \in [extensions : Registries, mcp : Catalogs]
    PROVE  Restore(b, c) \in Selections /\ Apart(Restore(b, c))
<1>1. Models \in Configurations
  BY SettingsAssumption DEF Configurations
<1>2. Chosen(b) \in Selections
  BY <1>1, SavedType DEF Chosen
<1> DEFINE named == MigrateSelection(c, Chosen(b))
           off   == Selectable(c) \ named.loaded
<1>3. named \in Selections /\ Apart(named)
  BY <1>2, MigrateType
<1>4. Selectable(c) \subseteq Names
  <2>1. DOMAIN c.mcp \subseteq Names /\ DOMAIN c.extensions \subseteq Names
        /\ DOMAIN Builtins \subseteq Names
    BY SettingsAssumption DEF Registries
  <2> QED
    BY <2>1 DEF Selectable, Available
<1>5. [named EXCEPT !.disabled = off] \in Selections
  BY <1>3, <1>4 DEF Selections
<1>6. /\ MigrateSelection(c, [named EXCEPT !.disabled = off]) \in Selections
      /\ Apart(MigrateSelection(c, [named EXCEPT !.disabled = off]))
  BY <1>5, MigrateType
<1> QED
  BY <1>3, <1>6 DEF Restore

LEMMA OpenedType ==
    ASSUME NEW b \in Branches, NEW c \in [extensions : Registries, mcp : Catalogs],
           NEW models \in Configurations
    PROVE  Opened(b, c, models) \in Choices /\ Apart(Opened(b, c, models).tools)
<1>1. Restore(b, c) \in Selections /\ Apart(Restore(b, c))
  BY RestoreType
<1> QED
  BY <1>1, SavedType DEF Opened, Choices

\* An entry whose choices do not overlap can be read back.
LEMMA RestorableAppend ==
    ASSUME NEW b \in Branches, NEW e \in Entries, Restorable(b),
           e.kind = "tools" => Apart(e.value)
    PROVE  Restorable(Append(b, e))
<1>1. /\ Len(Append(b, e)) = Len(b) + 1 /\ Len(b) \in Nat
      /\ Append(b, e)[Len(b) + 1] = e
      /\ \A m \in 1..Len(b) : Append(b, e)[m] = b[m]
  BY DEF Branches
<1> QED
  BY <1>1 DEF Restorable, Apart

(***************************************************************************)
(* The inductive invariant: types, choices that do not overlap, and that a *)
(* change that was not overtaken is still what its branch says.            *)
(***************************************************************************)
SettingsTypes ==
    /\ catalog \in [extensions : Registries, mcp : Catalogs]
    /\ live \in Choices
    /\ configured \in Configurations
    /\ nodes \subseteq Branches /\ left \subseteq Branches
    /\ leaf \in Branches
    /\ log \in {"clean", "jammed", "spoiled"}
    /\ setter \in Setters \cup {None}
    /\ request \in Requests \cup {None}
    /\ search \in Seq(Names)
    /\ astray \subseteq Kinds

SettingsInv ==
    /\ SettingsTypes
    /\ Apart(live.tools)
    /\ request # None => request.names \subseteq request.observed
    /\ setter # None /\ ~setter.raced =>
          Saved(leaf, setter.kind, configured) = setter.value
    /\ ReopeningKeepsChoices

LEMMA InitSettings == Init => SettingsInv
<1> SUFFICES ASSUME Init PROVE SettingsInv
  OBVIOUS
<1>1. /\ catalog \in [extensions : Registries, mcp : Catalogs]
      /\ configured \in Configurations
  BY SettingsAssumption DEF Init
<1>2. ASSUME leaf \in {<< >>} \cup OldLogs, live = Opened(leaf, catalog, configured),
             astray = Differs(leaf, catalog)
      PROVE  /\ leaf \in Branches /\ Restorable(leaf)
             /\ live \in Choices /\ Apart(live.tools) /\ astray \subseteq Kinds
             /\ \A k \in Kinds \ astray : Saved(leaf, k, configured) = live[k]
  <2>1. leaf \in Branches /\ Restorable(leaf)
    <3>1. << >> \in Branches /\ Restorable(<< >>)
      BY DEF Branches, Restorable
    <3> QED
      BY <1>2, <3>1, SettingsAssumption
  <2>2. live \in Choices /\ Apart(live.tools)
    BY <1>1, <1>2, <2>1, OpenedType
  <2>3. astray \subseteq Kinds
    BY <1>2 DEF Differs, Kinds
  <2>4. "tools" \notin astray => Saved(leaf, "tools", configured) = live["tools"]
    <3>1. Saved(leaf, "tools", configured) = Chosen(leaf)
      BY <2>1, SavedSame DEF Chosen, Kinds
    <3> QED
      BY <1>2, <3>1 DEF Differs, Opened
  <2>5. /\ live["model"] = Saved(leaf, "model", configured)
        /\ live["level"] = Saved(leaf, "level", configured)
        /\ live["mode"] = Saved(leaf, "mode", configured)
    BY <1>2 DEF Opened
  <2> QED
    BY <2>1, <2>2, <2>3, <2>4, <2>5 DEF Kinds
<1>3. ASSUME NEW owner \in Owners, owner.model \in configured, leaf = Inherited(owner),
             live = [owner EXCEPT !.tools = Delegated(@)], astray = {}
      PROVE  /\ leaf \in Branches /\ Restorable(leaf)
             /\ live \in Choices /\ Apart(live.tools) /\ astray \subseteq Kinds
             /\ \A k \in Kinds \ astray : Saved(leaf, k, configured) = live[k]
  <2>1. /\ owner \in Choices /\ Apart(owner.tools) /\ owner.tools \in Selections
    BY SettingsAssumption DEF Apart, Choices
  <2>2. Delegated(owner.tools) \in Selections /\ Apart(Delegated(owner.tools))
    BY <2>1, SettingsAssumption DEF Delegated, Selections, Apart
  <2>3. live \in Choices /\ Apart(live.tools) /\ live.tools = Delegated(owner.tools)
        /\ live.model = owner.model /\ live.level = owner.level /\ live.mode = owner.mode
    BY <1>3, <2>1, <2>2 DEF Choices
  <2> DEFINE e1 == Entry("model", owner.model)
             e2 == Entry("level", owner.level)
             e3 == Entry("mode", "plan")
             e4 == Entry("tools", Delegated(owner.tools))
             b0 == << >>
             b1 == Append(b0, e1)
             b2 == Append(b1, e2)
             b3 == IF owner.mode = "plan" THEN Append(b2, e3) ELSE b2
             b4 == Append(b3, e4)
  <2>4. e1 \in Entries /\ e2 \in Entries /\ e3 \in Entries /\ e4 \in Entries
    BY <2>1, <2>2 DEF Entry, Entries, Choices, Modes
  <2>5. leaf = b4
    BY <1>3 DEF Inherited
  <2>6. b0 \in Branches /\ Restorable(b0)
    BY DEF Branches, Restorable
  <2> HIDE DEF b0, b1, b2, b3, b4
  <2>7. b1 \in Branches /\ Restorable(b1)
    BY <2>4, <2>6, SavedAppend, RestorableAppend DEF b1, Entry
  <2>8. b2 \in Branches /\ Restorable(b2)
    BY <2>4, <2>7, SavedAppend, RestorableAppend DEF b2, Entry
  <2>9. b3 \in Branches /\ Restorable(b3)
    BY <2>4, <2>8, SavedAppend, RestorableAppend DEF b3, Entry
  <2>10. b4 \in Branches /\ Restorable(b4)
    BY <2>2, <2>4, <2>9, SavedAppend, RestorableAppend DEF b4, Entry
  <2>11. Saved(b4, "tools", configured) = live["tools"]
    BY <2>3, <2>4, <2>9, SavedEntry DEF b4, Kinds
  <2>12. \A k \in {"model", "level", "mode"} :
            Saved(b4, k, configured) = Saved(b3, k, configured)
    BY <2>4, <2>9, SavedEntry DEF b4, Kinds
  <2>13. \A k \in {"model", "level"} :
            Saved(b3, k, configured) = Saved(b2, k, configured)
    BY <2>4, <2>8, SavedEntry DEF b3, Kinds
  <2>14. /\ Saved(b2, "level", configured) = live["level"]
         /\ Saved(b2, "model", configured) = Saved(b1, "model", configured)
         /\ Saved(b2, "mode", configured) = Saved(b1, "mode", configured)
    BY <2>3, <2>4, <2>7, SavedEntry DEF b2, Kinds
  <2>15. /\ Saved(b1, "model", configured) = live["model"]
         /\ Saved(b1, "mode", configured) = Saved(b0, "mode", configured)
    BY <1>3, <2>3, <2>4, <2>6, SavedEntry DEF b1, Kinds
  <2>16. Saved(b0, "mode", configured) = "default"
    <3>1. Len(b0) = 0
      BY DEF b0
    <3>2. Latest(b0, "mode", configured) = 0
      BY <2>6, <3>1, LatestPlace
    <3> QED
      BY <3>2 DEF Saved, Default
  <2>17. Saved(b3, "mode", configured) = live["mode"]
    <3>1. CASE owner.mode = "plan"
      BY <2>3, <2>4, <2>8, <3>1, SavedEntry DEF b3, Kinds
    <3>2. CASE owner.mode # "plan"
      BY <2>1, <2>3, <2>14, <2>15, <2>16, <3>2 DEF b3, Choices, Modes
    <3> QED
      BY <3>1, <3>2
  <2>18. \A k \in Kinds : Saved(b4, k, configured) = live[k]
    BY <2>11, <2>12, <2>13, <2>14, <2>15, <2>17 DEF Kinds
  <2> QED
    BY <1>3, <2>3, <2>5, <2>10, <2>18
<1>4. /\ leaf \in Branches /\ Restorable(leaf)
      /\ live \in Choices /\ Apart(live.tools) /\ astray \subseteq Kinds
      /\ \A k \in Kinds \ astray : Saved(leaf, k, configured) = live[k]
  BY <1>2, <1>3 DEF Init
<1>5. << >> \in Branches /\ Restorable(<< >>)
  BY DEF Branches, Restorable
<1>6. /\ nodes = {<< >>, leaf} /\ left = {leaf} /\ log = "clean" /\ setter = None
      /\ request = None /\ search = << >>
  BY DEF Init
<1>7. SettingsTypes
  BY <1>1, <1>4, <1>5, <1>6 DEF SettingsTypes
<1>8. ReopeningKeepsChoices
  BY <1>4, <1>5, <1>6 DEF ReopeningKeepsChoices, InFlight
<1> QED
  BY <1>4, <1>6, <1>7, <1>8 DEF SettingsInv

\* The branch with one more entry: it can be read back, the entry decides its own
\* setting and no other one.
LEMMA AppendKeeps ==
    ASSUME SettingsInv, NEW kind \in Kinds, NEW value,
           Entry(kind, value) \in Entries, kind = "tools" => Apart(value)
    PROVE  /\ Append(leaf, Entry(kind, value)) \in Branches
           /\ Restorable(Append(leaf, Entry(kind, value)))
           /\ \A k \in Kinds \ {kind} :
                 Saved(Append(leaf, Entry(kind, value)), k, configured)
                   = Saved(leaf, k, configured)
           /\ (kind = "model" => value \in configured) =>
                 Saved(Append(leaf, Entry(kind, value)), kind, configured) = value
<1>1. leaf \in Branches /\ Restorable(leaf)
  BY DEF SettingsInv, SettingsTypes, ReopeningKeepsChoices
<1>2. Entry(kind, value).kind = kind /\ Entry(kind, value).value = value
  BY DEF Entry
<1>3. Restorable(Append(leaf, Entry(kind, value)))
  BY <1>1, <1>2, RestorableAppend
<1> QED
  BY <1>1, <1>3, SavedEntry

\* Where the lane is what memory says of the settings that are not exempted.
LEMMA LeafAgrees ==
    ASSUME SettingsInv
    PROVE  /\ leaf \in Branches /\ Restorable(leaf)
           /\ \A k \in Kinds \ (astray \cup InFlight) : Saved(leaf, k, configured) = live[k]
BY DEF SettingsInv, SettingsTypes, ReopeningKeepsChoices

LEMMA BeginChangeKeeps ==
    ASSUME SettingsInv, NEW k \in Kinds \ {"tools"}, NEW v \in Values(k), BeginChange(k, v)
    PROVE  SettingsInv'
<1> DEFINE c == Append(leaf, Entry(k, v))
<1>1. Entry(k, v) \in Entries /\ (k = "model" => v \in configured)
  BY DEF Entry, Entries, Values, Kinds, SettingsInv, SettingsTypes, Configurations
<1>2. /\ c \in Branches /\ Restorable(c)
      /\ \A x \in Kinds \ {k} : Saved(c, x, configured) = Saved(leaf, x, configured)
      /\ Saved(c, k, configured) = v
  BY <1>1, AppendKeeps
<1> HIDE DEF c
<1>3. /\ leaf' = c /\ nodes' = nodes \cup {c} /\ left' \subseteq left \cup {c}
      /\ log' \in {"clean", "jammed", "spoiled"} /\ (log' # "spoiled" => c \in left')
      /\ setter = None /\ setter' = [kind |-> k, value |-> v, raced |-> FALSE]
      /\ UNCHANGED <<catalog, live, configured, broken, request, search, astray>>
  BY DEF BeginChange, Written, Extended, NextLine, c
<1>4. setter' \in Setters /\ setter'.kind = k /\ setter'.value = v
  BY <1>3 DEF Setters, Values, Kinds, SettingsInv, SettingsTypes, Configurations
<1>5. SettingsTypes'
  BY <1>2, <1>3, <1>4 DEF SettingsInv, SettingsTypes
<1>6. setter' # None
  BY <1>4, SettingsAssumption DEF Setters
<1>7. InFlight = {} /\ InFlight' = {k}
  BY <1>3, <1>4, <1>6 DEF InFlight
<1>8. ASSUME NEW b \in left' \cup {leaf'}, NEW x \in Kinds \ (astray' \cup InFlight')
      PROVE  Saved(b, x, configured') = live'[x]
  <2>1. x \in Kinds \ (astray \cup InFlight) /\ x \in Kinds \ {k}
    BY <1>3, <1>7
  <2>2. CASE b = c
    BY <1>2, <1>3, <2>1, <2>2, LeafAgrees
  <2>3. CASE b \in left \cup {leaf}
    BY <1>3, <2>1, <2>3 DEF SettingsInv, ReopeningKeepsChoices
  <2> QED
    BY <1>3, <2>2, <2>3
<1>9. ReopeningKeepsChoices'
  BY <1>2, <1>3, <1>8 DEF SettingsInv, ReopeningKeepsChoices
<1> QED
  BY <1>2, <1>3, <1>4, <1>5, <1>9 DEF SettingsInv

LEMMA BeginChangeFailsKeeps ==
    ASSUME SettingsInv, NEW k \in Kinds \ {"tools"}, NEW v \in Values(k),
           BeginChangeFails(k, v)
    PROVE  SettingsInv'
<1> DEFINE c == Append(leaf, Entry(k, v))
<1>1. Entry(k, v) \in Entries /\ (k = "model" => v \in configured)
  BY DEF Entry, Entries, Values, Kinds, SettingsInv, SettingsTypes, Configurations
<1>2. /\ c \in Branches /\ Restorable(c)
      /\ \A x \in Kinds \ {k} : Saved(c, x, configured) = Saved(leaf, x, configured)
  BY <1>1, AppendKeeps
<1> HIDE DEF c
<1>3. /\ leaf' = leaf /\ nodes' = nodes \cup {leaf} /\ left' \subseteq left \cup {c}
      /\ log' \in {"clean", "jammed", "spoiled"} /\ (log' # "spoiled" => leaf \in left')
      /\ astray' = astray \cup {k}
      /\ UNCHANGED <<catalog, live, configured, broken, setter, request, search>>
  BY DEF BeginChangeFails, Uncertain, Extended, c, SettingsInv, ReopeningKeepsChoices
<1>4. SettingsTypes'
  BY <1>2, <1>3 DEF SettingsInv, SettingsTypes
<1>5. InFlight' = InFlight
  BY <1>3 DEF InFlight
<1>6. ASSUME NEW b \in left' \cup {leaf'}, NEW x \in Kinds \ (astray' \cup InFlight')
      PROVE  Saved(b, x, configured') = live'[x]
  <2>1. x \in Kinds \ (astray \cup InFlight) /\ x \in Kinds \ {k}
    BY <1>3, <1>5
  <2>2. CASE b = c
    BY <1>2, <1>3, <2>1, <2>2, LeafAgrees
  <2>3. CASE b \in left \cup {leaf}
    BY <1>3, <2>1, <2>3 DEF SettingsInv, ReopeningKeepsChoices
  <2> QED
    BY <1>3, <2>2, <2>3
<1>7. ReopeningKeepsChoices'
  BY <1>2, <1>3, <1>6, LeafAgrees DEF SettingsInv, ReopeningKeepsChoices
<1> QED
  BY <1>3, <1>4, <1>7 DEF SettingsInv

LEMMA FinishChangeKeeps == SettingsInv /\ FinishChange => SettingsInv'
<1> SUFFICES ASSUME SettingsInv, FinishChange PROVE SettingsInv'
  OBVIOUS
<1>1. /\ setter # None /\ setter' = None /\ left' \subseteq {leaf} /\ leaf' = leaf
      /\ log' = log /\ (log # "spoiled" => leaf \in left')
      /\ live' = [live EXCEPT ![setter.kind] = setter.value]
      /\ astray' = IF setter.raced THEN astray \cup {setter.kind}
                   ELSE astray \ {setter.kind}
      /\ UNCHANGED <<catalog, configured, nodes, request, search>>
  BY DEF FinishChange
<1>2. /\ setter \in Setters /\ live \in Choices /\ setter.kind \in Kinds \ {"tools"}
  BY <1>1 DEF SettingsInv, SettingsTypes, Setters, Kinds
<1>3. /\ live' \in Choices /\ live'.tools = live.tools
      /\ live'[setter.kind] = setter.value
      /\ \A x \in Kinds \ {setter.kind} : live'[x] = live[x]
  BY <1>1, <1>2 DEF Setters, Choices, Kinds
<1>4. SettingsTypes'
  BY <1>1, <1>2, <1>3 DEF SettingsInv, SettingsTypes
<1>5. InFlight = {setter.kind} /\ InFlight' = {}
  BY <1>1 DEF InFlight
<1>6. ASSUME NEW x \in Kinds \ astray' PROVE Saved(leaf, x, configured') = live'[x]
  <2>1. CASE x = setter.kind
    BY <1>1, <1>3, <2>1 DEF SettingsInv
  <2>2. CASE x # setter.kind
    BY <1>1, <1>3, <1>5, <2>2, LeafAgrees
  <2> QED
    BY <2>1, <2>2
<1>7. ReopeningKeepsChoices'
  BY <1>1, <1>5, <1>6, LeafAgrees DEF SettingsInv, ReopeningKeepsChoices
<1> QED
  BY <1>1, <1>3, <1>4, <1>7 DEF SettingsInv

LEMMA FinishChangeFailsKeeps == SettingsInv /\ FinishChangeFails => SettingsInv'
<1> SUFFICES ASSUME SettingsInv, FinishChangeFails PROVE SettingsInv'
  OBVIOUS
<1>1. /\ setter # None /\ setter' = None /\ astray' = astray \cup {setter.kind}
      /\ UNCHANGED <<catalog, live, configured, nodes, leaf, left, log, request, search>>
  BY DEF FinishChangeFails
<1>2. setter.kind \in Kinds
  BY <1>1 DEF SettingsInv, SettingsTypes, Setters, Kinds
<1>3. SettingsTypes'
  BY <1>1, <1>2 DEF SettingsInv, SettingsTypes
<1>4. InFlight = {setter.kind} /\ InFlight' = {}
  BY <1>1 DEF InFlight
<1>5. ReopeningKeepsChoices'
  BY <1>1, <1>4 DEF SettingsInv, ReopeningKeepsChoices
<1> QED
  BY <1>1, <1>3, <1>5 DEF SettingsInv

\* What no action below touches but the ones that name it.
LEMMA NothingWrittenKeeps ==
    ASSUME SettingsInv, NothingWritten, UNCHANGED <<configured, setter>>,
           catalog' \in [extensions : Registries, mcp : Catalogs],
           request' \in Requests \cup {None},
           request' # None => request'.names \subseteq request'.observed,
           search' \in Seq(Names)
    PROVE  SettingsInv'
<1>1. UNCHANGED <<live, nodes, leaf, left, log, astray, configured, setter>>
  BY DEF NothingWritten
<1>2. SettingsTypes'
  BY <1>1 DEF SettingsInv, SettingsTypes
<1>3. ReopeningKeepsChoices'
  BY <1>1 DEF SettingsInv, ReopeningKeepsChoices, InFlight
<1> QED
  BY <1>1, <1>2, <1>3 DEF SettingsInv

LEMMA CommitSelectionKeeps ==
    ASSUME SettingsInv, NEW s \in Selections, Apart(s), CommitSelection(s),
           UNCHANGED <<catalog, configured, setter>>,
           request' \in Requests \cup {None},
           request' # None => request'.names \subseteq request'.observed,
           search' \in Seq(Names)
    PROVE  SettingsInv'
<1> DEFINE c == Append(leaf, Entry("tools", s))
<1>1. Entry("tools", s) \in Entries /\ "tools" \in Kinds
  BY DEF Entry, Entries, Kinds
<1>2. /\ c \in Branches /\ Restorable(c)
      /\ \A x \in Kinds \ {"tools"} : Saved(c, x, configured) = Saved(leaf, x, configured)
      /\ Saved(c, "tools", configured) = s
  BY <1>1, AppendKeeps
<1>3. \/ /\ leaf' = c /\ nodes' = nodes \cup {c} /\ left' \subseteq {c}
         /\ live' = [live EXCEPT !.tools = s] /\ astray' = astray \ {"tools"}
      \/ /\ leaf' \in {leaf, c} /\ nodes' = nodes \cup {leaf'} /\ left' \subseteq left \cup {c}
         /\ live' = live /\ astray' = astray \cup {"tools"}
  BY DEF CommitSelection, Committed, Uncertain, Extended, Settled
<1>11. log' \in {"clean", "jammed", "spoiled"} /\ (log' # "spoiled" => leaf' \in left')
  BY DEF CommitSelection, Committed, Uncertain, Extended, Settled, NextLine, c,
         SettingsInv, ReopeningKeepsChoices
<1> HIDE DEF c
<1>4. live \in Choices
  BY DEF SettingsInv, SettingsTypes
<1>5. live' \in Choices /\ Apart(live'.tools)
      /\ \A x \in Kinds \ {"tools"} : live'[x] = live[x]
  BY <1>3, <1>4 DEF Choices, SettingsInv, Kinds
<1>6. SettingsTypes'
  BY <1>1, <1>2, <1>3, <1>5, <1>11 DEF SettingsInv, SettingsTypes
<1>7. InFlight' = InFlight /\ "tools" \notin InFlight
  BY DEF InFlight, SettingsInv, SettingsTypes, Setters
<1>8. setter' # None /\ ~setter'.raced =>
          Saved(leaf', setter'.kind, configured') = setter'.value
  <2> SUFFICES ASSUME setter # None, ~setter.raced
               PROVE  Saved(leaf', setter.kind, configured) = setter.value
    OBVIOUS
  <2>1. setter.kind \in Kinds \ {"tools"}
    BY DEF SettingsInv, SettingsTypes, Setters, Kinds
  <2>2. Saved(leaf, setter.kind, configured) = setter.value
    BY DEF SettingsInv
  <2> QED
    BY <1>2, <1>3, <2>1, <2>2
<1>9. ASSUME NEW b \in left' \cup {leaf'}, NEW x \in Kinds \ (astray' \cup InFlight')
      PROVE  Saved(b, x, configured') = live'[x]
  <2>1. CASE x = "tools"
    BY <1>2, <1>3, <1>4, <2>1 DEF Choices
  <2>2. CASE x # "tools"
    <3>1. x \in Kinds \ (astray \cup InFlight)
      BY <1>3, <1>7, <2>2
    <3>2. CASE b = c
      BY <1>2, <1>5, <2>2, <3>1, <3>2, LeafAgrees
    <3>3. CASE b \in left \cup {leaf}
      BY <1>5, <2>2, <3>1, <3>3 DEF SettingsInv, ReopeningKeepsChoices
    <3> QED
      BY <1>3, <3>2, <3>3
  <2> QED
    BY <2>1, <2>2
<1>10. ReopeningKeepsChoices'
  BY <1>2, <1>3, <1>9, <1>11, LeafAgrees DEF SettingsInv, ReopeningKeepsChoices
<1> QED
  BY <1>5, <1>6, <1>8, <1>10 DEF SettingsInv

\* The names of a catalog are names of tools.
LEMMA SelectableNames ==
    ASSUME NEW c \in [extensions : Registries, mcp : Catalogs]
    PROVE  Selectable(c) \subseteq Names /\ Indexed(c) \subseteq Names
<1>1. /\ DOMAIN c.mcp \subseteq Names /\ DOMAIN c.extensions \subseteq Names
      /\ DOMAIN Builtins \subseteq Names
  BY SettingsAssumption DEF Registries
<1> QED
  BY <1>1 DEF Selectable, Indexed, Available

LEMMA ObserveKeeps ==
    ASSUME SettingsInv, NEW names \in Lists, Observe(names)
    PROVE  SettingsInv'
<1>1. catalog \in [extensions : Registries, mcp : Catalogs] /\ search \in Seq(Names)
  BY DEF SettingsInv, SettingsTypes
<1>2. /\ request' = [observed |-> Selectable(catalog), names |-> names]
      /\ names \subseteq Selectable(catalog)
      /\ NothingWritten /\ UNCHANGED <<catalog, configured, setter, search>>
  BY DEF Observe, NothingWritten
<1>3. request' \in Requests /\ request'.names \subseteq request'.observed
  BY <1>1, <1>2, SelectableNames DEF Requests
<1> QED
  BY <1>1, <1>2, <1>3, NothingWrittenKeeps

LEMMA ReplaceSelectionKeeps == SettingsInv /\ ReplaceSelection => SettingsInv'
<1> SUFFICES ASSUME SettingsInv, ReplaceSelection PROVE SettingsInv'
  OBVIOUS
<1> DEFINE s == Replaced(live.tools, request)
<1>1. /\ request # None /\ request' = None
      /\ UNCHANGED <<catalog, configured, setter, search>>
      /\ NothingWritten \/ CommitSelection(s)
  BY DEF ReplaceSelection
<1>2. /\ catalog \in [extensions : Registries, mcp : Catalogs] /\ search \in Seq(Names)
      /\ live.tools \in Selections /\ Apart(live.tools)
      /\ request \in Requests /\ request.names \subseteq request.observed
  BY <1>1 DEF SettingsInv, SettingsTypes, Choices
<1>3. s \in Selections /\ Apart(s)
  BY <1>2 DEF Replaced, Selections, Requests, Apart
<1> HIDE DEF s
<1>4. CASE NothingWritten
  BY <1>1, <1>2, <1>4, NothingWrittenKeeps
<1>5. CASE CommitSelection(s)
  BY <1>1, <1>2, <1>3, <1>5, CommitSelectionKeeps
<1> QED
  BY <1>1, <1>4, <1>5

LEMMA RankKeeps ==
    ASSUME SettingsInv, NEW names \in Rankings, Rank(names)
    PROVE  SettingsInv'
<1>1. /\ catalog \in [extensions : Registries, mcp : Catalogs]
      /\ request \in Requests \cup {None}
      /\ request # None => request.names \subseteq request.observed
  BY DEF SettingsInv, SettingsTypes
<1>2. /\ search' = names /\ NothingWritten
      /\ UNCHANGED <<catalog, configured, setter, request>>
  BY DEF Rank, NothingWritten
<1>3. names \in Seq(Names)
  BY SettingsAssumption
<1> QED
  BY <1>1, <1>2, <1>3, NothingWrittenKeeps

\* What a search loads was not turned off.
LEMMA AcceptedLoadable ==
    ASSUME NEW c, NEW s, NEW names
    PROVE  \A n \in Accepted(c, s, names) : n \in Indexed(c) /\ n \notin s.disabled
BY DEF Accepted, Loadable

LEMMA LoadKeeps == SettingsInv /\ Load => SettingsInv'
<1> SUFFICES ASSUME SettingsInv, Load PROVE SettingsInv'
  OBVIOUS
<1> DEFINE accepted == Accepted(catalog, live.tools, search)
           s == [live.tools EXCEPT !.loaded = @ \cup accepted]
<1>1. /\ search' = << >> /\ UNCHANGED <<catalog, configured, setter, request>>
      /\ NothingWritten \/ CommitSelection(s)
  BY DEF Load
<1>2. /\ catalog \in [extensions : Registries, mcp : Catalogs]
      /\ request \in Requests \cup {None}
      /\ request # None => request.names \subseteq request.observed
      /\ live.tools \in Selections /\ Apart(live.tools)
  BY DEF SettingsInv, SettingsTypes, Choices
<1>3. accepted \subseteq Names /\ accepted \cap live.tools.disabled = {}
  <2>1. \A n \in accepted : n \in Indexed(catalog) /\ n \notin live.tools.disabled
    BY AcceptedLoadable
  <2> HIDE DEF accepted
  <2> QED
    BY <1>2, <2>1, SelectableNames
<1> HIDE DEF accepted
<1>4. s \in Selections /\ Apart(s)
  BY <1>2, <1>3 DEF Selections, Apart
<1>5. search' \in Seq(Names)
  BY <1>1
<1> HIDE DEF s
<1>6. CASE NothingWritten
  BY <1>1, <1>2, <1>5, <1>6, NothingWrittenKeeps
<1>7. CASE CommitSelection(s)
  BY <1>1, <1>2, <1>4, <1>5, <1>7, CommitSelectionKeeps
<1> QED
  BY <1>1, <1>6, <1>7

\* An extension's tool is a tool of the catalog.
LEMMA RegisterKeeps ==
    ASSUME SettingsInv, NEW offer \in Offers, Register(offer[1], offer[2])
    PROVE  SettingsInv'
<1> DEFINE n == offer[1]
           x == offer[2]
           r == [m \in DOMAIN catalog.extensions \cup {n} |->
                    IF m = n THEN x ELSE catalog.extensions[m]]
<1>1. n \in Names /\ x \in Exposures
  BY SettingsAssumption
<1>2. /\ catalog \in [extensions : Registries, mcp : Catalogs]
      /\ request \in Requests \cup {None} /\ search \in Seq(Names)
      /\ request # None => request.names \subseteq request.observed
  BY DEF SettingsInv, SettingsTypes
<1>3. catalog' = [catalog EXCEPT !.extensions = r]
  BY DEF Register
<1>4. r \in Registries
  <2>1. PICK S \in SUBSET Names : catalog.extensions \in [S -> Exposures]
    BY <1>2 DEF Registries
  <2>2. S \cup {n} \in SUBSET Names /\ r \in [S \cup {n} -> Exposures]
    BY <1>1, <2>1
  <2> HIDE DEF r
  <2> QED
    BY <2>2 DEF Registries
<1> HIDE DEF r
<1>5. catalog' \in [extensions : Registries, mcp : Catalogs]
  BY <1>2, <1>3, <1>4
<1>6. UNCHANGED <<live, configured, nodes, leaf, left, log, setter, request, search, astray>>
  BY DEF Register
<1>7. SettingsTypes'
  BY <1>5, <1>6 DEF SettingsInv, SettingsTypes
<1>8. ReopeningKeepsChoices'
  BY <1>6 DEF SettingsInv, ReopeningKeepsChoices, InFlight
<1> QED
  BY <1>6, <1>7, <1>8 DEF SettingsInv

LEMMA ReplaceMcpPartitionKeeps ==
    ASSUME SettingsInv, NEW registry \in Catalogs, ReplaceMcpPartition(registry)
    PROVE  SettingsInv'
<1>1. /\ catalog \in [extensions : Registries, mcp : Catalogs]
      /\ live \in Choices /\ live.tools \in Selections
  BY DEF SettingsInv, SettingsTypes, Choices
<1>2. /\ catalog' = [catalog EXCEPT !.mcp = registry]
      /\ live' = [live EXCEPT !.tools = MigrateSelection(catalog', live.tools)]
      /\ astray' = IF live' = live THEN astray ELSE astray \cup {"tools"}
      /\ UNCHANGED <<configured, nodes, leaf, left, log, setter, request, search>>
  BY DEF ReplaceMcpPartition
<1>3. catalog' \in [extensions : Registries, mcp : Catalogs]
  BY <1>1, <1>2
<1>4. /\ MigrateSelection(catalog', live.tools) \in Selections
      /\ Apart(MigrateSelection(catalog', live.tools))
  BY <1>1, <1>3, MigrateType
<1>5. /\ live' \in Choices /\ Apart(live'.tools)
      /\ \A k \in Kinds \ {"tools"} : live'[k] = live[k]
  BY <1>1, <1>2, <1>4 DEF Choices, Kinds
<1>6. SettingsTypes'
  BY <1>2, <1>3, <1>5 DEF SettingsInv, SettingsTypes, Kinds
<1>7. InFlight' = InFlight
  BY <1>2 DEF InFlight
<1>8. ASSUME NEW b \in left' \cup {leaf'}, NEW k \in Kinds \ (astray' \cup InFlight')
      PROVE  Saved(b, k, configured') = live'[k]
  <2>1. b \in left \cup {leaf} /\ k \in Kinds \ (astray \cup InFlight)
    BY <1>2, <1>7
  <2>2. Saved(b, k, configured) = live[k]
    BY <2>1 DEF SettingsInv, ReopeningKeepsChoices
  <2> QED
    BY <1>2, <1>5, <2>2
<1>9. ReopeningKeepsChoices'
  BY <1>2, <1>8 DEF SettingsInv, ReopeningKeepsChoices
<1> QED
  BY <1>2, <1>5, <1>6, <1>9 DEF SettingsInv

\* A navigation leaves the change under way, marked as overtaken.
LEMMA OvertakenSetter ==
    ASSUME SettingsInv, setter' = Overtaken
    PROVE  /\ setter' \in Setters \cup {None}
           /\ setter' # None => setter'.raced
           /\ InFlight' = InFlight
<1>1. CASE setter = None
  BY <1>1 DEF Overtaken, InFlight
<1>2. CASE setter # None
  <2>1. setter \in Setters
    BY <1>2 DEF SettingsInv, SettingsTypes
  <2>2. /\ setter' \in Setters /\ setter'.raced = TRUE
        /\ setter'.kind = setter.kind
    BY <1>2, <2>1 DEF Overtaken, Setters
  <2>3. setter' # None
    BY <2>2, SettingsAssumption DEF Setters
  <2> QED
    BY <1>2, <2>2, <2>3 DEF InFlight
<1> QED
  BY <1>1, <1>2

LEMMA NavigateKeeps ==
    ASSUME SettingsInv, NEW b \in nodes, Navigate(b)
    PROVE  SettingsInv'
<1>1. /\ leaf' = b /\ left' \subseteq {b} /\ Restorable(b) /\ setter' = Overtaken
      /\ log' \in {"clean", "jammed", "spoiled"} /\ (log' # "spoiled" => b \in left')
      /\ live' = [live EXCEPT !.tools = Restore(b, catalog),
                              !.mode = Saved(b, "mode", Models)]
      /\ astray' = {"model", "level"} \cup Differs(b, catalog)
      /\ UNCHANGED <<catalog, configured, nodes, request, search>>
  BY DEF Navigate, Settled, NextLine
<1>2. /\ b \in Branches /\ live \in Choices /\ configured \in Configurations
      /\ catalog \in [extensions : Registries, mcp : Catalogs]
  BY DEF SettingsInv, SettingsTypes
<1>3. Restore(b, catalog) \in Selections /\ Apart(Restore(b, catalog))
  BY <1>2, RestoreType
<1>4. /\ Saved(b, "mode", Models) = Saved(b, "mode", configured)
      /\ Chosen(b) = Saved(b, "tools", configured)
      /\ Saved(b, "mode", configured) \in Modes
  BY <1>2, SavedSame, SavedType DEF Chosen, Kinds
<1>5. /\ live' \in Choices /\ live'.tools = Restore(b, catalog)
      /\ live'.mode = Saved(b, "mode", configured)
  BY <1>1, <1>2, <1>3, <1>4 DEF Choices
<1>6. /\ setter' \in Setters \cup {None} /\ (setter' # None => setter'.raced)
  BY <1>1, OvertakenSetter
<1>7. astray' \subseteq Kinds
  BY <1>1 DEF Differs, Kinds
<1>8. SettingsTypes'
  BY <1>1, <1>2, <1>5, <1>6, <1>7 DEF SettingsInv, SettingsTypes
<1>9. ASSUME NEW k \in Kinds \ astray' PROVE Saved(b, k, configured') = live'[k]
  <2>1. k = "mode" \/ (k = "tools" /\ Restore(b, catalog) = Chosen(b))
    BY <1>1 DEF Differs, Kinds
  <2> QED
    BY <1>1, <1>4, <1>5, <2>1
<1>10. ReopeningKeepsChoices'
  BY <1>1, <1>9 DEF SettingsInv, ReopeningKeepsChoices
<1> QED
  BY <1>1, <1>3, <1>5, <1>6, <1>8, <1>10 DEF SettingsInv

LEMMA NavigateFailsKeeps ==
    ASSUME SettingsInv, NEW b \in nodes, NavigateFails(b)
    PROVE  SettingsInv'
<1>1. /\ leaf' \in {leaf, b} /\ left' \subseteq left \cup {b} /\ setter' = Overtaken
      /\ log' \in {"clean", "jammed", "spoiled"} /\ (log' # "spoiled" => leaf' \in left')
      /\ astray' = Kinds
      /\ UNCHANGED <<catalog, live, configured, nodes, request, search>>
  BY DEF NavigateFails, Extended, SettingsInv, ReopeningKeepsChoices
<1>2. setter' \in Setters \cup {None} /\ (setter' # None => setter'.raced)
  BY <1>1, OvertakenSetter
<1>3. SettingsTypes'
  BY <1>1, <1>2 DEF SettingsInv, SettingsTypes
<1>4. ReopeningKeepsChoices'
  BY <1>1 DEF SettingsInv, ReopeningKeepsChoices
<1> QED
  BY <1>1, <1>2, <1>3, <1>4 DEF SettingsInv

LEMMA ReopenKeeps == SettingsInv /\ Reopen => SettingsInv'
<1> SUFFICES ASSUME SettingsInv, NEW b \in left, NEW models \in Configurations,
                    NEW registry \in Catalogs, Restart(b, models, registry)
             PROVE  SettingsInv'
  BY DEF Reopen
<1>1. /\ Restorable(b) /\ configured' = models /\ leaf' = b /\ left' = {b}
      /\ log' = "clean"
      /\ catalog' = [extensions |-> KernelTools, mcp |-> registry]
      /\ live' = Opened(b, catalog', models) /\ astray' = Differs(b, catalog')
      /\ setter' = None /\ request' = None /\ search' = << >> /\ nodes' = nodes
  BY DEF Restart
<1>2. b \in Branches /\ catalog' \in [extensions : Registries, mcp : Catalogs]
  BY <1>1, SettingsAssumption DEF SettingsInv, SettingsTypes
<1>3. live' \in Choices /\ Apart(live'.tools)
  BY <1>1, <1>2, OpenedType
<1>4. astray' \subseteq Kinds
  BY <1>1 DEF Differs, Kinds
<1>5. SettingsTypes'
  BY <1>1, <1>2, <1>3, <1>4 DEF SettingsInv, SettingsTypes
<1>6. ASSUME NEW k \in Kinds \ astray' PROVE Saved(b, k, models) = live'[k]
  <2>1. Chosen(b) = Saved(b, "tools", models)
    BY <1>2, SavedSame DEF Chosen, Kinds
  <2>2. k = "tools" => Restore(b, catalog') = Chosen(b)
    BY <1>1 DEF Differs
  <2> QED
    BY <1>1, <2>1, <2>2 DEF Opened, Kinds
<1>7. ReopeningKeepsChoices'
  BY <1>1, <1>6 DEF SettingsInv, ReopeningKeepsChoices, InFlight
<1> QED
  BY <1>1, <1>3, <1>5, <1>7 DEF SettingsInv

\* Entries that settle nothing leave the branches alone.
LEMMA WriteOtherKeeps == SettingsInv /\ WriteOther => SettingsInv'
<1> SUFFICES ASSUME SettingsInv, WriteOther PROVE SettingsInv'
  OBVIOUS
<1>1. /\ UNCHANGED <<catalog, live, configured, nodes, leaf, setter, request, search,
                     astray>>
      /\ left' \subseteq left /\ log' \in {"clean", "jammed", "spoiled"}
      /\ log' # "spoiled" => log # "spoiled" /\ left' = left
  BY DEF WriteOther, OtherWriteFails, OtherWrite
<1>2. SettingsTypes'
  BY <1>1 DEF SettingsInv, SettingsTypes
<1>3. ReopeningKeepsChoices'
  BY <1>1 DEF SettingsInv, ReopeningKeepsChoices, InFlight
<1> QED
  BY <1>1, <1>2, <1>3 DEF SettingsInv

LEMMA SettingsStep == SettingsInv /\ [Next]_vars => SettingsInv'
<1> SUFFICES ASSUME SettingsInv, [Next]_vars PROVE SettingsInv'
  OBVIOUS
<1>1. CASE ChangeSetting
  BY <1>1, BeginChangeKeeps, BeginChangeFailsKeeps, FinishChangeKeeps,
     FinishChangeFailsKeeps DEF ChangeSetting
<1>2. CASE ChangeTools
  BY <1>2, ObserveKeeps, ReplaceSelectionKeeps, RankKeeps, LoadKeeps DEF ChangeTools
<1>3. CASE ChangeCatalog
  BY <1>3, RegisterKeeps, ReplaceMcpPartitionKeeps DEF ChangeCatalog
<1>4. CASE ChangeBranch
  BY <1>4, NavigateKeeps, NavigateFailsKeeps, ReopenKeeps DEF ChangeBranch
<1>5. CASE UNCHANGED vars
  <2>1. UNCHANGED <<catalog, live, configured, nodes, leaf, left, log, setter, request,
                    search, astray>>
    BY <1>5 DEF vars
  <2>2. SettingsTypes'
    BY <2>1 DEF SettingsInv, SettingsTypes
  <2>3. ReopeningKeepsChoices'
    BY <2>1 DEF SettingsInv, ReopeningKeepsChoices, InFlight
  <2> QED
    BY <2>1, <2>2, <2>3 DEF SettingsInv
<1>6. CASE WriteOther
  BY <1>6, WriteOtherKeeps
<1> QED
  BY <1>1, <1>2, <1>3, <1>4, <1>5, <1>6 DEF Next

\* Whatever tools, models, old logs and catalogs there are, and however many changes
\* are made: every branch on which the Session may be opened after a crash, and the
\* lane's own, can be read and gives back the choices in memory; there is one unless
\* something was written after a write that failed.
THEOREM ChoicesAreKept == Spec => []ReopeningKeepsChoices
<1>1. SettingsInv => ReopeningKeepsChoices
  BY DEF SettingsInv
<1> QED
  BY InitSettings, SettingsStep, <1>1, PTL DEF Spec

(***************************************************************************)
(* A tool that was turned off stays off.                                   *)
(***************************************************************************)

\* A step gives a tool that was turned off back.
Returned(n) ==
    /\ Renamed(catalog, n) = n
    /\ Renamed(catalog', n) \in Declared(catalog', live'.tools)

\* Steps that leave the catalog and what is turned off alone return nothing.
LEMMA SameReturnsNothing ==
    ASSUME NEW n \in live.tools.disabled, catalog' = catalog,
           live'.tools.disabled = live.tools.disabled
    PROVE  ~Returned(n)
BY DEF Returned, Declared

\* A registration cannot make an old name out of a name that was none.
LEMMA RegisterReturnsNothing ==
    ASSUME SettingsInv, NEW offer \in Offers, Register(offer[1], offer[2]),
           NEW n \in live.tools.disabled
    PROVE  ~Returned(n)
<1> SUFFICES ASSUME Renamed(catalog, n) = n
             PROVE  Renamed(catalog', n) \notin Declared(catalog', live'.tools)
  BY DEF Returned
<1> DEFINE alias == {x \in DOMAIN catalog.mcp : OldName[x] = n}
           r == [m \in DOMAIN catalog.extensions \cup {offer[1]} |->
                    IF m = offer[1] THEN offer[2] ELSE catalog.extensions[m]]
<1>1. catalog \in [extensions : Registries, mcp : Catalogs]
  BY DEF SettingsInv, SettingsTypes
<1>2. catalog' = [catalog EXCEPT !.extensions = r] /\ live' = live
  BY DEF Register
<1>3. catalog'.mcp = catalog.mcp /\ catalog'.extensions = r
  BY <1>1, <1>2
<1>4. DOMAIN Available(catalog) \subseteq DOMAIN Available(catalog')
  BY <1>3 DEF Available
<1>5. Renamed(catalog', n) = n
  <2> SUFFICES ASSUME n \notin DOMAIN Available(catalog'), \E x \in alias : alias = {x}
               PROVE  FALSE
    BY <1>3 DEF Renamed
  <2>1. n \notin DOMAIN Available(catalog)
    BY <1>4
  <2>2. Renamed(catalog, n) = CHOOSE x \in alias : TRUE
    BY <2>1 DEF Renamed
  <2>3. n \in alias
    BY <2>2
  <2> QED
    BY <2>1, <2>3 DEF Available
<1> QED
  BY <1>2, <1>5 DEF Declared

\* Where the choices are renamed, what is turned off is renamed with them.
LEMMA MigrationReturnsNothing ==
    ASSUME SettingsInv, NEW registry \in Catalogs, ReplaceMcpPartition(registry),
           NEW n \in live.tools.disabled
    PROVE  ~Returned(n)
<1>1. live \in Choices
  BY DEF SettingsInv, SettingsTypes
<1>2. live' = [live EXCEPT !.tools = MigrateSelection(catalog', live.tools)]
  BY DEF ReplaceMcpPartition
<1>3. live'.tools = MigrateSelection(catalog', live.tools)
  BY <1>1, <1>2 DEF Choices
<1>4. Renamed(catalog', n) \in live'.tools.disabled
  BY <1>3 DEF MigrateSelection
<1> QED
  BY <1>4 DEF Returned, Declared

\* set_active_tools returns only what it names, and a search nothing.
LEMMA ToolsReturnNamed ==
    ASSUME SettingsInv, ChangeTools, NEW n \in live.tools.disabled, Returned(n)
    PROVE  request # None /\ Renamed(catalog', n) \in request.names
<1>1. catalog' = catalog /\ live \in Choices
  BY DEF ChangeTools, Observe, ReplaceSelection, Rank, Load, SettingsInv, SettingsTypes
<1>2. CASE \/ \E names \in Lists : Observe(names)
           \/ \E names \in Rankings : Rank(names)
  BY <1>1, <1>2, SameReturnsNothing DEF Observe, Rank, NothingWritten
<1>3. CASE Load
  <2> DEFINE s == [live.tools EXCEPT !.loaded =
                      @ \cup Accepted(catalog, live.tools, search)]
  <2>1. NothingWritten \/ CommitSelection(s)
    BY <1>3 DEF Load
  <2>2. s.disabled = live.tools.disabled
    BY <1>1 DEF Choices, Selections
  <2> HIDE DEF s
  <2>3. live' = live \/ live' = [live EXCEPT !.tools = s]
    BY <2>1 DEF NothingWritten, CommitSelection
  <2>4. live'.tools.disabled = live.tools.disabled
    BY <1>1, <2>2, <2>3 DEF Choices
  <2> QED
    BY <1>1, <2>4, SameReturnsNothing
<1>4. CASE ReplaceSelection
  <2> DEFINE s == Replaced(live.tools, request)
  <2>1. request # None /\ (NothingWritten \/ CommitSelection(s))
    BY <1>4 DEF ReplaceSelection
  <2>2. live' = live \/ live' = [live EXCEPT !.tools = s]
    BY <2>1 DEF NothingWritten, CommitSelection
  <2>3. CASE live' = live
    BY <1>1, <2>3, SameReturnsNothing
  <2>4. CASE live' = [live EXCEPT !.tools = s]
    <3>1. live'.tools = s
      BY <1>1, <2>4 DEF Choices
    <3>2. /\ Renamed(catalog', n) = n
          /\ n \notin s.disabled
      BY <1>1, <3>1 DEF Returned, Declared
    <3>3. n \in request.names
      BY <3>2 DEF Replaced
    <3> QED
      BY <2>1, <3>2, <3>3
  <2> QED
    BY <2>2, <2>3, <2>4
<1> QED
  BY <1>2, <1>3, <1>4 DEF ChangeTools

\* For any catalogs, old names and bounds: a tool that was turned off is declared to
\* the model again only by a choice that names it, on another branch or by opening.
THEOREM OffIsFinal == Spec => OffStaysOff
<1>1. ASSUME SettingsInv, [Next]_vars
      PROVE  [\A n \in live.tools.disabled :
                LET x == Renamed(catalog', n) IN
                Renamed(catalog, n) = n /\ x \in Declared(catalog', live'.tools) =>
                   \/ request # None /\ x \in request.names
                   \/ Navigate(leaf')
                   \/ Reopen]_vars
  <2> SUFFICES ASSUME Next, NEW n \in live.tools.disabled, Returned(n)
               PROVE  \/ request # None /\ Renamed(catalog', n) \in request.names
                      \/ Navigate(leaf')
                      \/ Reopen
    BY <1>1 DEF Returned
  <2>1. CASE ChangeSetting
    <3>1. live \in Choices /\ (setter # None => setter.kind \in Kinds \ {"tools"})
      BY <1>1 DEF SettingsInv, SettingsTypes, Setters, Kinds
    <3>2. /\ catalog' = catalog
          /\ \/ live' = live
             \/ setter # None /\ live' = [live EXCEPT ![setter.kind] = setter.value]
      BY <2>1 DEF ChangeSetting, BeginChange, BeginChangeFails, FinishChange,
                  FinishChangeFails
    <3>3. live'.tools = live.tools
      BY <3>1, <3>2 DEF Choices, Kinds
    <3> QED
      BY <3>2, <3>3, SameReturnsNothing
  <2>2. CASE ChangeTools
    BY <1>1, <2>2, ToolsReturnNamed
  <2>3. CASE ChangeCatalog
    BY <1>1, <2>3, RegisterReturnsNothing, MigrationReturnsNothing DEF ChangeCatalog
  <2>4. CASE \E b \in nodes : Navigate(b)
    <3>1. PICK b \in nodes : Navigate(b)
      BY <2>4
    <3>2. leaf' = b
      BY <3>1 DEF Navigate
    <3> QED
      BY <3>1, <3>2
  <2>5. CASE \E b \in nodes : NavigateFails(b)
    <3>1. catalog' = catalog /\ live' = live
      BY <2>5 DEF NavigateFails
    <3> QED
      BY <3>1, SameReturnsNothing
  <2>6. CASE WriteOther
    <3>1. catalog' = catalog /\ live' = live
      BY <2>6 DEF WriteOther, OtherWriteFails, OtherWrite
    <3> QED
      BY <3>1, SameReturnsNothing
  <2> QED
    BY <2>1, <2>2, <2>3, <2>4, <2>5, <2>6 DEF Next, ChangeBranch
<1> QED
  BY InitSettings, SettingsStep, <1>1, PTL DEF Spec, OffStaysOff
=============================================================================
