--------------------------- MODULE ServicesProofs ---------------------------
(***************************************************************************)
(* What holds of the services beside the pipeline for every value of the   *)
(* constants: of Startup, that a process that serves has its sandbox, its  *)
(* registries and its tools; of Agents, that a report rests on sources the *)
(* policy allows; of Recall, that what is told to be new is, and that a    *)
(* search shows what is near.  Each has its invariant: StartInv, AgentsInv *)
(* and RecallInv.                                                          *)
(***************************************************************************)
EXTENDS Recall, Startup, Agents, FiniteSetTheorems, TLAPS

-----------------------------------------------------------------------------
(* Numbers.                                                                 *)

\* Induction over numbers: a set of them has a least one.
LEMMA LeastNatural ==
  ASSUME NEW S \in SUBSET Nat, S # {}
  PROVE  \E n \in S : \A m \in S : n <= m
<1>1. \E n \in S : \A m \in S : ~(<<m, n>> \in OpToRel(<, Nat))
  BY NatLessThanWellFounded, WFMin
<1>2. PICK n \in S : \A m \in S : ~(<<m, n>> \in OpToRel(<, Nat))
  BY <1>1
<1>3. \A m \in S : ~(m < n)
  BY <1>2 DEF OpToRel
<1> QED
  BY <1>3

\* A set of numbers, finite and not empty, has a greatest one: take a least
\* set that has none, and take a number out of it.
LEMMA GreatestNatural ==
  ASSUME NEW S \in SUBSET Nat, IsFiniteSet(S), S # {}
  PROVE  \E n \in S : \A m \in S : m <= n
<1> DEFINE Bare(T) == IsFiniteSet(T) /\ T # {} /\ ~(\E n \in T : \A m \in T : m <= n)
           Sizes == {n \in Nat : \E T \in SUBSET Nat : Bare(T) /\ Cardinality(T) = n}
<1> SUFFICES ASSUME Bare(S) PROVE FALSE
  OBVIOUS
<1>1. Sizes # {}
  BY FS_CardinalityType
<1>2. PICK n \in Sizes : \A m \in Sizes : n <= m
  BY <1>1, LeastNatural
<1>3. PICK T \in SUBSET Nat : Bare(T) /\ Cardinality(T) = n
  BY <1>2
<1>4. PICK x \in T : TRUE
  BY <1>3
<1>5. IsFiniteSet(T \ {x}) /\ Cardinality(T \ {x}) = n - 1 /\ Cardinality(T \ {x}) \in Nat
  BY <1>3, <1>4, FS_RemoveElement, FS_CardinalityType
<1>6. ~Bare(T \ {x})
  <2> SUFFICES ASSUME Bare(T \ {x}) PROVE FALSE
    OBVIOUS
  <2>1. n - 1 \in Sizes
    BY <1>5
  <2> QED BY <2>1, <1>2, <1>5
<1>7. CASE T \ {x} = {}
  BY <1>7, <1>3, <1>4
<1>8. CASE T \ {x} # {}
  <2>1. PICK y \in T \ {x} : \A m \in T \ {x} : m <= y
    BY <1>5, <1>6, <1>8
  <2>2. \A m \in T : m = x \/ m <= y
    BY <2>1
  <2>3. x \in Nat /\ y \in Nat /\ T \subseteq Nat
    BY <1>3, <1>4, <2>1
  <2>4. CASE y <= x
    BY <2>2, <2>3, <2>4, <1>3, <1>4
  <2>5. CASE x <= y
    BY <2>1, <2>2, <2>3, <2>5, <1>3
  <2> QED BY <2>3, <2>4, <2>5
<1> QED BY <1>7, <1>8

-----------------------------------------------------------------------------
(* The newest card.                                                         *)

\* What Chosen chooses is there, and is the newest card of the agent: of the
\* cards of the highest version, one has the first name.
LEMMA ChosenIsNewest ==
  ASSUME NEW table, NEW t, IsFiniteSet(Listed(table)),
         {k \in Listed(table) : table[k].agent = t} # {}
  PROVE  /\ Chosen(table, t) \in Listed(table)
         /\ table[Chosen(table, t)].agent = t
         /\ \A l \in Listed(table) : table[l].agent = t => l[2] <= Chosen(table, t)[2]
<1> DEFINE its == {k \in Listed(table) : table[k].agent = t}
           best == {k \in its : \A l \in its : l[2] <= k[2]}
           versions == {k[2] : k \in its}
           names == {k[1] : k \in best}
<1>1. its \subseteq Keys /\ \A k \in Keys : k[1] \in Nat /\ k[2] \in Nat /\ k = <<k[1], k[2]>>
  <2>1. its \subseteq Keys
    BY DEF Listed
  <2>2. \A k \in Keys : k = <<k[1], k[2]>> /\ k[1] \in Tools /\ k[2] \in CardVersions
    BY DEF Keys
  <2>3. Tools \subseteq Nat /\ CardVersions \subseteq Nat
    BY StartupAssumption DEF Tools
  <2> QED BY <2>1, <2>2, <2>3
<1>2. IsFiniteSet(versions)
  <2>1. IsFiniteSet(its)
    BY FS_Subset
  <2>2. \A S : IsFiniteSet(S) => IsFiniteSet({k[2] : k \in S})
    <3> SUFFICES ASSUME NEW S, IsFiniteSet(S) PROVE IsFiniteSet({k[2] : k \in S})
      OBVIOUS
    <3> DEFINE f == [k \in S |-> k[2]]
               R == {k[2] : k \in S}
    <3>1. f \in Surjection(S, R)
      BY DEF Surjection
    <3> HIDE DEF f, R
    <3>2. IsFiniteSet(R)
      BY <3>1, FS_Surjection
    <3> QED BY <3>2 DEF R
  <2> QED BY <2>1, <2>2
<1>3. PICK v \in versions : \A w \in versions : w <= v
  <2>1. versions \in SUBSET Nat /\ versions # {}
    BY <1>1
  <2> HIDE DEF versions
  <2> QED BY <2>1, <1>2, GreatestNatural
<1>4. best # {} /\ \A k \in best : k[2] = v
  <2>1. PICK k \in its : k[2] = v
    BY <1>3
  <2>2. k \in best
    BY <2>1, <1>3
  <2>3. \A l \in best : l[2] = v
    <3> SUFFICES ASSUME NEW l \in best PROVE l[2] = v
      OBVIOUS
    <3>1. l[2] <= v /\ v <= l[2]
      BY <2>1, <1>3
    <3> QED BY <3>1, <2>1, <1>1
  <2> QED BY <2>2, <2>3
<1>5. PICK a \in names : \A b \in names : a <= b
  <2>1. names \in SUBSET Nat /\ names # {}
    BY <1>1, <1>4
  <2> HIDE DEF names
  <2> QED BY <2>1, LeastNatural
<1>6. PICK k \in best : k[1] = a
  BY <1>5
<1>7. \A l \in best \ {k} : ListedBefore(k, l)
  <2> SUFFICES ASSUME NEW l \in best \ {k} PROVE ListedBefore(k, l)
    OBVIOUS
  <2>1. l[2] = k[2] /\ k[1] <= l[1]
    BY <1>4, <1>5, <1>6
  <2>2. k[1] # l[1]
    BY <1>1, <2>1
  <2> QED BY <1>1, <2>1, <2>2 DEF ListedBefore
<1>8. Chosen(table, t) \in best
  <2>1. Chosen(table, t) = CHOOSE x \in best : \A l \in best \ {x} : ListedBefore(x, l)
    BY DEF Chosen
  <2> HIDE DEF best
  <2> QED BY <1>7, <2>1
<1> HIDE DEF best
<1>9. Chosen(table, t) \in its /\ \A l \in its : l[2] <= Chosen(table, t)[2]
  BY <1>8 DEF best
<1> QED BY <1>9

-----------------------------------------------------------------------------
(* The sandbox.                                                             *)

LEMMA GreaterOfTwo ==
  ASSUME NEW a \in Int, NEW b \in Int
  PROVE  Max({a, b}) \in {a, b} /\ Max({a, b}) >= a /\ Max({a, b}) >= b
<1>1. \E x \in {a, b} : \A y \in {a, b} : x >= y
  <2>1. CASE a >= b
    BY <2>1
  <2>2. CASE b >= a
    BY <2>2
  <2> QED BY <2>1, <2>2
<1> QED BY <1>1 DEF Max

\* The defaults make a policy of a policy, and a policy without a limit of
\* its memory one whose limit is the memory.
LEMMA DefaultsType ==
  ASSUME NEW p \in SecurityPolicy
  PROVE  /\ WithDefaults(p) \in SecurityPolicy
         /\ WithDefaults(p).max_memory.unit = "unset" => WithDefaults(p).max_memory = WithDefaults(p).memory
<1> DEFINE cpu == IF p.cpu <= 0 THEN Defaults.cpu ELSE p.cpu
           most == IF p.max_cpu <= 0 THEN Defaults.cpu ELSE p.max_cpu
           memory == IF p.memory.unit = "unset" THEN Defaults.memory ELSE p.memory
           timeout == IF p.timeout = Unset /\ Defaults.timeout > 0 THEN Defaults.timeout ELSE p.timeout
           max_memory == IF p.max_memory.unit = "unset" THEN memory ELSE p.max_memory
           max_timeout == IF p.max_timeout = Unset THEN timeout ELSE p.max_timeout
           d == WithDefaults(p)
<1>1. /\ p.image \in {"none", "listed", "unlisted"} /\ p.cpu \in Int /\ p.max_cpu \in Int
      /\ p.memory \in MemoryText /\ p.max_memory \in MemoryText
      /\ p.timeout \in Duration /\ p.max_timeout \in Duration
  BY DEF SecurityPolicy
<1>2. Defaults.cpu \in Int /\ Defaults.memory \in MemoryText /\ Defaults.timeout \in Int
  BY PoliciesAssumption
<1>3. cpu \in Int /\ most \in Int /\ memory \in MemoryText /\ timeout \in Duration
  BY <1>1, <1>2 DEF Duration
<1>4. Max({most, cpu}) \in Int
  <2> HIDE DEF most, cpu
  <2> QED BY <1>3, GreaterOfTwo
<1>5. d = [image |-> p.image, cpu |-> cpu, max_cpu |-> Max({most, cpu}), memory |-> memory,
           max_memory |-> max_memory, timeout |-> timeout, max_timeout |-> max_timeout]
  BY DEF WithDefaults
<1>6. max_memory \in MemoryText /\ max_timeout \in Duration
  BY <1>1, <1>3
<1>7. max_memory.unit = "unset" => max_memory = memory
  OBVIOUS
<1> HIDE DEF d, cpu, most, memory, timeout, max_memory, max_timeout
<1>8. d \in SecurityPolicy
  BY <1>1, <1>3, <1>4, <1>5, <1>6 DEF SecurityPolicy
<1>9. d.memory = memory /\ d.max_memory = max_memory
  BY <1>5
<1> QED BY <1>7, <1>8, <1>9 DEF d

\* The limits of a policy that passes.
LimitsUnder(p) == [cpu |-> p.cpu, memory |-> p.memory, timeout |-> ParsedDuration(p.timeout), under |-> p]

Holds(g) ==
  /\ g.cpu > 0 /\ g.cpu <= g.under.max_cpu
  /\ g.under.max_memory.amount > 0 => g.memory.amount <= g.under.max_memory.amount
  /\ ParsedDuration(g.under.max_timeout) > 0 => g.timeout <= ParsedDuration(g.under.max_timeout)

\* One of the ways to read a text is that which is meant, the other is none.
LEMMA LimitsHold ==
  ASSUME NEW p \in SecurityPolicy, ValidPolicy(WithDefaults(p)), Within(WithDefaults(p))
  PROVE  /\ LimitsUnder(WithDefaults(p)) \in GrantedLimits
         /\ LimitsUnder(WithDefaults(p)) # Nil
         /\ Holds(LimitsUnder(WithDefaults(p)))
<1> DEFINE d == WithDefaults(p)
<1>1. d \in SecurityPolicy /\ (d.max_memory.unit = "unset" => d.max_memory = d.memory)
  BY DefaultsType
<1>2. ValidPolicy(d) /\ Within(d)
  OBVIOUS
<1> HIDE DEF d
<1>3. /\ d.cpu \in Int /\ d.max_cpu \in Int /\ d.memory \in MemoryText /\ d.max_memory \in MemoryText
      /\ d.timeout \in Duration /\ d.max_timeout \in Duration
  BY <1>1 DEF SecurityPolicy
<1>4. ParsedDuration(d.timeout) \in Nat
  BY <1>3 DEF ParsedDuration, Duration, Unset
<1>5. d.cpu > 0 /\ d.cpu <= d.max_cpu
  BY <1>2, <1>3 DEF ValidPolicy
<1>6. d.max_memory.amount > 0 => d.memory.amount <= d.max_memory.amount
  <2>1. d.memory.amount \in Nat /\ d.max_memory.amount \in Nat
    BY <1>3 DEF MemoryText
  <2>2. CASE d.max_memory.unit = "unset"
    BY <2>1, <2>2, <1>1
  <2>3. CASE d.max_memory.unit # "unset"
    <3>1. \A m : ParsedMemory(m) \ {Malformed} \subseteq {m.amount}
      BY DEF ParsedMemory
    <3>2. \E asked \in {d.memory.amount}, most \in {d.max_memory.amount} : most > 0 => asked <= most
      BY <2>3, <3>1, <1>2 DEF Within
    <3> QED BY <3>2
  <2> QED BY <2>2, <2>3
<1>7. ParsedDuration(d.max_timeout) > 0 => ParsedDuration(d.timeout) <= ParsedDuration(d.max_timeout)
  BY <1>2 DEF Within
<1>8. LimitsUnder(d) \in GrantedLimits
  BY <1>1, <1>3, <1>4 DEF LimitsUnder, GrantedLimits
<1>9. Holds(LimitsUnder(d))
  BY <1>5, <1>6, <1>7 DEF LimitsUnder, Holds
<1> QED BY <1>8, <1>9, PoliciesAssumption DEF d

-----------------------------------------------------------------------------
(* How far a process is.                                                    *)

\* What it does once its sandbox is checked, and once it has read the schemas.
Bounded(s) == IF s \in Servers THEN {"cards", "seed", "relist", "up"} ELSE {"schemas", "load", "up"}
Taught(s) == IF s \in Servers THEN {"sandbox", "cards", "seed", "relist", "up"} ELSE {"up"}

\* A server that is up, and what its registry was made of.
Equipped(s) ==
  /\ IsFiniteSet(Listed(tools[s].among))
  /\ Buildable(tools[s].among, own[s])
  /\ tools[s].chosen = [t \in Tools |-> Chosen(tools[s].among, t)]

\* What a process has behind it at every part of its start.
Staged(s) ==
  /\ at[s] \in {"cards", "seed", "relist"} => s \in Servers
  /\ at[s] \in Bounded(s) => granted[s] # Nil
  /\ at[s] \in Taught(s) => \A e \in Events : loaded[s][e] # "none"
  /\ at[s] = "schemas" => nth[s] \in Events /\ \A e \in Events : e < nth[s] => schemas[e] # "none"
  /\ at[s] = "load" => \A e \in Events : schemas[e] # "none"
  /\ at[s] = "seed" => nth[s] \in Tools
  /\ at[s] = "up" /\ s \in Servers => Equipped(s)

\* What is seeded while nothing has gone wrong and no user has published: the
\* cards there are, and those that a process that seeds is past.
Clean == mishaps = 0 /\ published = 0

DefaultCard(t) == [agent |-> t, sound |-> TRUE, secret |-> secret]

AllListed == \A t \in Tools : <<t, 1>> \in Listed(cards)

SeededSoFar ==
  /\ \A s \in Processes : at[s] # "down" => own[s] = secret
  /\ \A k \in Listed(cards) : k[2] = 1 /\ cards[k] = DefaultCard(k[1])
  /\ \A s \in Processes : at[s] = "seed" => \A t \in Tools : t < nth[s] => <<t, 1>> \in Listed(cards)
  /\ \A s \in Processes : at[s] = "relist" => AllListed
  /\ Listed(cards) = {} \/ AllListed \/ \E s \in Processes : at[s] = "seed"

Seeding == Clean => SeededSoFar

StartInv ==
  /\ StartupTypeOK
  /\ IsFiniteSet(Listed(cards))
  /\ \A s \in Processes : granted[s] # Nil => Holds(granted[s])
  /\ \A s \in Processes : Staged(s)
  /\ Seeding

LEMMA StartupStart == StartupInit => StartInv
<1> SUFFICES ASSUME StartupInit PROVE StartInv
  OBVIOUS
<1> USE DEF StartupInit
<1>1. Listed(cards) = {}
  BY DEF Listed
<1>2. StartupTypeOK
  <2>1. NoTools \in [chosen : [Tools -> Keys \cup {Nil}], among : [Keys -> Card \cup {Nil}]]
    BY DEF NoTools
  <2>2. published \in 0..MaxPublished /\ policy \in SecurityPolicy
    BY StartupAssumption, PoliciesAssumption
  <2> QED BY <2>1, <2>2 DEF StartupTypeOK
<1>3. \A s \in Processes : Staged(s)
  BY DEF Staged, Bounded, Taught
<1>4. Seeding
  BY <1>1 DEF Seeding, SeededSoFar
<1> QED BY <1>1, <1>2, <1>3, <1>4, FS_EmptySet DEF StartInv

\* A process that a step leaves alone keeps its place: a schema there is stays.
LEMMA OthersStaged ==
  ASSUME NEW s \in Processes, Staged(s),
         at'[s] = at[s], nth'[s] = nth[s], own'[s] = own[s],
         granted'[s] = granted[s], loaded'[s] = loaded[s], tools'[s] = tools[s],
         \A e \in Events : schemas[e] # "none" => schemas'[e] # "none"
  PROVE  Staged(s)'
<1>1. Equipped(s) => Equipped(s)'
  BY DEF Equipped, Buildable, Listed, Chosen, ListedBefore
<1> QED BY <1>1 DEF Staged, Bounded, Taught

-----------------------------------------------------------------------------
(* The steps.                                                               *)

LEMMA Moved ==
  ASSUME StartupTypeOK, NEW s \in Processes, NEW stage, To(s, stage)
  PROVE  /\ at' \in [Processes -> {"down", "sandbox", "schemas", "load", "cards", "seed", "relist", "up", stage}]
         /\ nth' \in [Processes -> Nat]
         /\ at'[s] = stage /\ nth'[s] = 1
         /\ \A r \in Processes : r # s => at'[r] = at[r] /\ nth'[r] = nth[r]
  BY DEF StartupTypeOK, To

LEMMA EndedMoves ==
  ASSUME StartupTypeOK, NEW s \in Processes, Ended(s)
  PROVE  /\ at' \in [Processes -> {"down", "sandbox", "schemas", "load", "cards", "seed", "relist", "up"}]
         /\ nth' \in [Processes -> Nat]
         /\ granted' \in [Processes -> GrantedLimits \cup {Nil}]
         /\ loaded' \in [Processes -> [Events -> {"none", "base", "other"}] \cup {Nil}]
         /\ tools' \in [Processes -> [chosen : [Tools -> Keys \cup {Nil}], among : [Keys -> Card \cup {Nil}]]]
         /\ at'[s] = "down" /\ granted'[s] = Nil
         /\ \A r \in Processes : r # s =>
              /\ at'[r] = at[r] /\ nth'[r] = nth[r]
              /\ granted'[r] = granted[r] /\ loaded'[r] = loaded[r] /\ tools'[r] = tools[r]
<1>1. NoTools \in [chosen : [Tools -> Keys \cup {Nil}], among : [Keys -> Card \cup {Nil}]]
  BY DEF NoTools
<1>2. To(s, "down")
  BY DEF Ended
<1> QED BY <1>1, <1>2, Moved DEF Ended, StartupTypeOK

LEMMA CallsEnd ==
  ASSUME StartupTypeOK, NEW o \in Ending, Ends(o)
  PROVE  mishaps' \in Nat /\ (mishaps' = 0 => o = "ok" /\ mishaps = 0)
  BY DEF StartupTypeOK, Ends

\* What is seeded is left alone by a step of a process that seeds none.
LEMMA NothingSeeded ==
  ASSUME StartInv, NEW s \in Processes, cards' = cards, secret' = secret, Clean' => Clean,
         \A r \in Processes : r # s => at'[r] = at[r] /\ nth'[r] = nth[r] /\ own'[r] = own[r],
         at[s] # "seed", at'[s] # "relist", at'[s] = "seed" => nth'[s] = 1,
         at'[s] = "down" \/ own'[s] = secret \/ (at[s] # "down" /\ own'[s] = own[s])
  PROVE  Seeding'
<1> SUFFICES ASSUME Clean' PROVE SeededSoFar'
  BY DEF Seeding
<1>1. SeededSoFar
  BY DEF StartInv, Seeding
<1>2. Listed(cards)' = Listed(cards) /\ (AllListed <=> AllListed')
  BY DEF Listed, AllListed
<1>3. \A r \in Processes : at'[r] # "down" => own'[r] = secret'
  BY <1>1 DEF SeededSoFar
<1>4. \A k \in Listed(cards)' : k[2] = 1 /\ cards'[k] = DefaultCard(k[1])'
  BY <1>1, <1>2 DEF SeededSoFar, DefaultCard
<1>5. \A r \in Processes : at'[r] = "seed" => \A t \in Tools : t < nth'[r] => <<t, 1>> \in Listed(cards)'
  <2>1. \A t \in Tools : ~(t < 1)
    BY StartupAssumption DEF Tools
  <2> QED BY <1>1, <1>2, <2>1 DEF SeededSoFar
<1>6. \A r \in Processes : at'[r] = "relist" => AllListed'
  BY <1>1, <1>2 DEF SeededSoFar
<1>7. Listed(cards)' = {} \/ AllListed' \/ \E r \in Processes : at'[r] = "seed"
  BY <1>1, <1>2 DEF SeededSoFar
<1> QED BY <1>3, <1>4, <1>5, <1>6, <1>7 DEF SeededSoFar

LEMMA StartKeeps == ASSUME StartInv, NEW s \in Processes, Start(s) PROVE StartInv'
<1> DEFINE first == After(s, "down")
<1>1. StartupTypeOK /\ at[s] = "down" /\ To(s, first)
  BY DEF StartInv, Start
<1>2. first \in {"schemas", "sandbox"} /\ (first = "sandbox" <=> s \notin Servers)
  BY DEF After
<1> HIDE DEF first
<1>3. own' \in [Processes -> Secrets] /\ own'[s] = secret /\ \A r \in Processes : r # s => own'[r] = own[r]
  BY <1>1 DEF StartupTypeOK, Start
<1>4. StartupTypeOK'
  BY <1>1, <1>2, <1>3, Moved DEF StartupTypeOK, Start
<1>5. \A r \in Processes : Staged(r)'
  <2>1. ASSUME NEW r \in Processes, r # s PROVE Staged(r)'
    BY <1>1, <1>3, <2>1, Moved, OthersStaged DEF StartInv, Start
  <2>2. Staged(s)'
    <3>1. at'[s] = first /\ nth'[s] = 1
      BY <1>1, Moved
    <3>2. 1 \in Events /\ \A e \in Events : ~(e < 1)
      BY StartupAssumption DEF Events
    <3> QED BY <1>2, <3>1, <3>2 DEF Staged, Bounded, Taught
  <2> QED BY <2>1, <2>2
<1>6. Seeding'
  <2>1. cards' = cards /\ secret' = secret /\ (Clean' => Clean)
    BY DEF Start, Clean
  <2> QED BY <1>1, <1>2, <1>3, <2>1, Moved, NothingSeeded
<1> QED BY <1>4, <1>5, <1>6 DEF StartInv, Start, Listed, Holds

\* A process that ends, from any part but that of seeding unless by a mishap.
LEMMA EndKeepsPlaces ==
  ASSUME StartInv, NEW s \in Processes, Ended(s),
         UNCHANGED <<policy, secret, own>>, mishaps' \in Nat, published' \in 0..MaxPublished,
         schemas' \in [Events -> {"none", "base", "other"}], cards' \in [Keys -> Card \cup {Nil}],
         \A e \in Events : schemas[e] # "none" => schemas'[e] # "none"
  PROVE  /\ StartupTypeOK'
         /\ \A r \in Processes : Staged(r)'
         /\ \A r \in Processes : granted'[r] # Nil => Holds(granted'[r])
<1>1. StartupTypeOK
  BY DEF StartInv
<1>2. StartupTypeOK'
  BY <1>1, EndedMoves DEF StartupTypeOK
<1>3. \A r \in Processes : Staged(r)'
  <2>1. ASSUME NEW r \in Processes, r # s PROVE Staged(r)'
    BY <1>1, <2>1, EndedMoves, OthersStaged DEF StartInv
  <2>2. Staged(s)'
    BY <1>1, EndedMoves DEF Staged, Bounded, Taught
  <2> QED BY <2>1, <2>2
<1>4. \A r \in Processes : granted'[r] # Nil => Holds(granted'[r])
  BY <1>1, EndedMoves DEF StartInv
<1> QED BY <1>2, <1>3, <1>4

LEMMA EndKeeps ==
  ASSUME StartInv, NEW s \in Processes, Ended(s),
         UNCHANGED <<policy, secret, cards, own>>, mishaps' \in Nat, published' \in 0..MaxPublished,
         schemas' \in [Events -> {"none", "base", "other"}],
         \A e \in Events : schemas[e] # "none" => schemas'[e] # "none",
         Clean' => Clean /\ at[s] # "seed"
  PROVE  StartInv'
<1>1. StartupTypeOK
  BY DEF StartInv
<1>2. cards' \in [Keys -> Card \cup {Nil}]
  BY <1>1 DEF StartupTypeOK
<1>3. Seeding'
  <2>1. CASE at[s] # "seed"
    <3>1. at'[s] = "down" /\ \A r \in Processes : r # s => at'[r] = at[r] /\ nth'[r] = nth[r] /\ own'[r] = own[r]
      BY <1>1, EndedMoves
    <3> QED BY <2>1, <3>1, NothingSeeded
  <2>2. CASE at[s] = "seed"
    BY <2>2 DEF Seeding
  <2> QED BY <2>1, <2>2
<1> QED BY <1>2, <1>3, EndKeepsPlaces DEF StartInv, Listed, Holds

LEMMA RotateKeeps == ASSUME StartInv, Rotate PROVE StartInv'
<1>1. StartupTypeOK /\ mishaps' \in Nat /\ mishaps' # 0
  BY CallsEnd DEF StartInv, Rotate, Ending
<1>2. StartupTypeOK'
  BY <1>1 DEF StartupTypeOK, Rotate
<1>3. \A r \in Processes : Staged(r)'
  BY OthersStaged DEF StartInv, Rotate
<1>4. Seeding'
  BY <1>1 DEF Seeding, Clean
<1> QED BY <1>2, <1>3, <1>4 DEF StartInv, Rotate, Listed, Holds

LEMMA EnsureSandboxKeeps == ASSUME StartInv, NEW s \in Processes, EnsureSandbox(s) PROVE StartInv'
<1> DEFINE p == WithDefaults(policy)
           next == After(s, "sandbox")
<1>1. StartupTypeOK /\ at[s] = "sandbox"
  BY DEF StartInv, EnsureSandbox
<1>2. CASE Ended(s)
  <2>1. UNCHANGED <<policy, secret, schemas, cards, published, own, mishaps>>
    BY DEF EnsureSandbox
  <2>2. Clean' => Clean
    BY <2>1 DEF Clean
  <2>3. mishaps' \in Nat /\ published' \in 0..MaxPublished /\ schemas' \in [Events -> {"none", "base", "other"}]
    BY <1>1, <2>1 DEF StartupTypeOK
  <2> QED BY <1>1, <1>2, <2>1, <2>2, <2>3, EndKeeps
<1>3. CASE /\ ValidPolicy(p) /\ Within(p) /\ To(s, next)
           /\ granted' = [granted EXCEPT ![s] = LimitsUnder(p)]
           /\ UNCHANGED <<loaded, tools>>
  <2>1. LimitsUnder(p) \in GrantedLimits /\ LimitsUnder(p) # Nil /\ Holds(LimitsUnder(p))
    BY <1>1, <1>3, LimitsHold DEF StartupTypeOK
  <2>2. next \in {"schemas", "cards"} /\ (next = "cards" <=> s \in Servers)
    BY DEF After
  <2>3. UNCHANGED <<policy, secret, schemas, cards, published, own, mishaps, loaded, tools>>
    BY <1>3 DEF EnsureSandbox
  <2> HIDE DEF p, next
  <2>4. /\ granted' \in [Processes -> GrantedLimits \cup {Nil}]
        /\ granted'[s] = LimitsUnder(p) /\ \A r \in Processes : r # s => granted'[r] = granted[r]
    BY <1>1, <1>3, <2>1 DEF StartupTypeOK
  <2>5. StartupTypeOK'
    BY <1>1, <1>3, <2>2, <2>3, <2>4, Moved DEF StartupTypeOK
  <2>6. \A r \in Processes : Staged(r)'
    <3>1. ASSUME NEW r \in Processes, r # s PROVE Staged(r)'
      BY <1>1, <1>3, <2>3, <2>4, <3>1, Moved, OthersStaged DEF StartInv
    <3>2. Staged(s)'
      <4>1. at'[s] = next /\ nth'[s] = 1
        BY <1>1, <1>3, Moved
      <4>2. 1 \in Events /\ \A e \in Events : ~(e < 1)
        BY StartupAssumption DEF Events
      <4>3. s \in Servers => \A e \in Events : loaded[s][e] # "none"
        BY <1>1 DEF StartInv, Staged, Taught
      <4> QED BY <2>1, <2>2, <2>3, <2>4, <4>1, <4>2, <4>3 DEF Staged, Bounded, Taught
    <3> QED BY <3>1, <3>2
  <2>7. Seeding'
    <3>1. Clean' => Clean
      BY <2>3 DEF Clean
    <3> QED BY <1>1, <1>3, <2>2, <2>3, <3>1, Moved, NothingSeeded
  <2>8. \A r \in Processes : granted'[r] # Nil => Holds(granted'[r])
    BY <2>1, <2>4 DEF StartInv
  <2> QED BY <2>3, <2>5, <2>6, <2>7, <2>8 DEF StartInv, Listed, Holds
<1> QED BY <1>2, <1>3 DEF EnsureSandbox, LimitsUnder

LEMMA SeedSchemaKeeps == ASSUME StartInv, NEW s \in Processes, NEW o \in Ending, SeedSchema(s, o) PROVE StartInv'
<1>1. /\ StartupTypeOK /\ at[s] = "schemas" /\ nth[s] \in Events
      /\ \A e \in Events : e < nth[s] => schemas[e] # "none"
  BY DEF StartInv, Staged, SeedSchema
<1>2. /\ UNCHANGED <<policy, secret, cards, published, own>>
      /\ mishaps' \in Nat /\ published' \in 0..MaxPublished
      /\ Clean' => Clean
      /\ schemas' = IF o \in Took THEN [schemas EXCEPT ![nth[s]] = "base"] ELSE schemas
  BY <1>1, CallsEnd DEF SeedSchema, Clean, StartupTypeOK
<1>3. /\ schemas' \in [Events -> {"none", "base", "other"}]
      /\ \A e \in Events : schemas[e] # "none" => schemas'[e] # "none"
      /\ o = "ok" => schemas'[nth[s]] = "base"
  BY <1>1, <1>2 DEF StartupTypeOK, Took
<1>4. CASE o # "ok"
  <2>1. Ended(s)
    BY <1>4 DEF SeedSchema
  <2> QED BY <1>1, <1>2, <1>3, <2>1, EndKeeps
<1>5. CASE o = "ok"
  <2>1. /\ UNCHANGED <<granted, loaded, tools>>
        /\ IF nth[s] < EventCount
           THEN nth' = [nth EXCEPT ![s] = @ + 1] /\ UNCHANGED at
           ELSE To(s, "load")
    BY <1>5 DEF SeedSchema
  <2>2. /\ at' \in [Processes -> {"down", "sandbox", "schemas", "load", "cards", "seed", "relist", "up"}]
        /\ nth' \in [Processes -> Nat]
        /\ \A r \in Processes : r # s => at'[r] = at[r] /\ nth'[r] = nth[r]
    BY <1>1, <2>1, Moved DEF StartupTypeOK
  <2>3. \/ at'[s] = "schemas" /\ nth'[s] = nth[s] + 1 /\ nth[s] < EventCount
        \/ at'[s] = "load" /\ nth[s] >= EventCount
    BY <1>1, <2>1, Moved, StartupAssumption DEF StartupTypeOK, Events
  <2>4. StartupTypeOK'
    BY <1>1, <1>2, <1>3, <2>1, <2>2 DEF StartupTypeOK
  <2>5. \A r \in Processes : Staged(r)'
    <3>1. ASSUME NEW r \in Processes, r # s PROVE Staged(r)'
      BY <1>1, <1>2, <1>3, <2>1, <2>2, <3>1, OthersStaged DEF StartInv
    <3>2. granted[s] # Nil \/ s \in Servers
      BY <1>1 DEF StartInv, Staged, Bounded
    <3>3. at'[s] = "schemas" => nth'[s] \in Events /\ \A e \in Events : e < nth'[s] => schemas'[e] # "none"
      BY <1>1, <1>3, <1>5, <2>3, StartupAssumption DEF Events
    <3>4. at'[s] = "load" => \A e \in Events : schemas'[e] # "none"
      BY <1>1, <1>3, <1>5, <2>3, StartupAssumption DEF Events
    <3>5. Staged(s)'
      BY <2>1, <2>3, <3>2, <3>3, <3>4 DEF Staged, Bounded, Taught
    <3> QED BY <3>1, <3>5
  <2>6. Seeding'
    BY <1>1, <1>2, <2>2, <2>3, NothingSeeded
  <2> QED BY <1>2, <2>1, <2>4, <2>5, <2>6 DEF StartInv, Listed, Holds
<1> QED BY <1>4, <1>5

LEMMA LoadSchemasKeeps == ASSUME StartInv, NEW s \in Processes, NEW o \in Ending, LoadSchemas(s, o) PROVE StartInv'
<1> DEFINE next == After(s, "load")
<1>1. StartupTypeOK /\ at[s] = "load" /\ \A e \in Events : schemas[e] # "none"
  BY DEF StartInv, Staged, LoadSchemas
<1>2. /\ UNCHANGED <<policy, secret, schemas, cards, published, own>>
      /\ mishaps' \in Nat /\ published' \in 0..MaxPublished /\ schemas' \in [Events -> {"none", "base", "other"}]
      /\ Clean' => Clean
  BY <1>1, CallsEnd DEF LoadSchemas, Clean, StartupTypeOK
<1>3. CASE o # "ok"
  <2>1. Ended(s)
    BY <1>3 DEF LoadSchemas
  <2> QED BY <1>1, <1>2, <2>1, EndKeeps
<1>4. CASE o = "ok"
  <2>1. UNCHANGED <<granted, tools>> /\ loaded' = [loaded EXCEPT ![s] = schemas] /\ To(s, next)
    BY <1>4 DEF LoadSchemas
  <2>2. next \in {"sandbox", "up"} /\ (next = "sandbox" <=> s \in Servers)
    BY DEF After
  <2> HIDE DEF next
  <2>3. /\ loaded' \in [Processes -> [Events -> {"none", "base", "other"}] \cup {Nil}]
        /\ loaded'[s] = schemas /\ \A r \in Processes : r # s => loaded'[r] = loaded[r]
    BY <1>1, <2>1 DEF StartupTypeOK
  <2>4. StartupTypeOK'
    BY <1>1, <1>2, <2>1, <2>2, <2>3, Moved DEF StartupTypeOK
  <2>5. \A r \in Processes : Staged(r)'
    <3>1. ASSUME NEW r \in Processes, r # s PROVE Staged(r)'
      BY <1>1, <1>2, <2>1, <2>3, <3>1, Moved, OthersStaged DEF StartInv
    <3>2. Staged(s)'
      <4>1. granted[s] # Nil \/ s \in Servers
        BY <1>1 DEF StartInv, Staged, Bounded
      <4>2. at'[s] = next
        BY <1>1, <2>1, Moved
      <4> QED BY <1>1, <2>1, <2>2, <2>3, <4>1, <4>2 DEF Staged, Bounded, Taught
    <3> QED BY <3>1, <3>2
  <2>6. Seeding'
    BY <1>1, <1>2, <2>1, <2>2, Moved, NothingSeeded
  <2> QED BY <1>2, <2>1, <2>4, <2>5, <2>6 DEF StartInv, Listed, Holds
<1> QED BY <1>3, <1>4

LEMMA PublishSchemaKeeps ==
  ASSUME StartInv, NEW e \in Events, NEW o \in Ending, PublishSchema(e, o) PROVE StartInv'
<1>1. StartupTypeOK
  BY DEF StartInv
<1>2. /\ UNCHANGED <<policy, secret, cards, at, nth, own, granted, loaded, tools>>
      /\ mishaps' \in Nat /\ published' \in 0..MaxPublished /\ published' # 0
      /\ schemas' = IF o \in Took THEN [schemas EXCEPT ![e] = "other"] ELSE schemas
  BY <1>1, CallsEnd, StartupAssumption DEF PublishSchema, StartupTypeOK
<1>3. /\ schemas' \in [Events -> {"none", "base", "other"}]
      /\ \A f \in Events : schemas[f] # "none" => schemas'[f] # "none"
  BY <1>1, <1>2 DEF StartupTypeOK
<1>4. StartupTypeOK'
  BY <1>1, <1>2, <1>3 DEF StartupTypeOK
<1>5. \A r \in Processes : Staged(r)'
  BY <1>2, <1>3, OthersStaged DEF StartInv
<1>6. Seeding'
  BY <1>2 DEF Seeding, Clean
<1> QED BY <1>2, <1>4, <1>5, <1>6 DEF StartInv, Listed, Holds

\* A registry is built, or the process ends.
LEMMA BuiltKeeps ==
  ASSUME StartInv, NEW s \in Processes, at[s] \in {"cards", "relist"}, Built(s),
         UNCHANGED <<policy, secret, schemas, cards, published, own>>, mishaps' \in Nat, Clean' => Clean
  PROVE  StartInv'
<1>1. /\ StartupTypeOK /\ s \in Servers /\ granted[s] # Nil
      /\ \A e \in Events : loaded[s][e] # "none"
      /\ IsFiniteSet(Listed(cards))
  BY DEF StartInv, Staged, Bounded, Taught
<1>2. CASE ~Buildable(cards, own[s])
  <2>1. Ended(s)
    BY <1>2 DEF Built
  <2>2. published' \in 0..MaxPublished /\ schemas' \in [Events -> {"none", "base", "other"}]
    BY <1>1 DEF StartupTypeOK
  <2> QED BY <2>1, <2>2, EndKeeps
<1>3. CASE Buildable(cards, own[s])
  <2> DEFINE kit == [chosen |-> [t \in Tools |-> Chosen(cards, t)], among |-> cards]
  <2>1. tools' = [tools EXCEPT ![s] = kit] /\ To(s, "up") /\ UNCHANGED <<granted, loaded>>
    BY <1>3 DEF Built
  <2>2. kit \in [chosen : [Tools -> Keys \cup {Nil}], among : [Keys -> Card \cup {Nil}]]
    <3>1. \A t \in Tools : Chosen(cards, t) \in Keys \cup {Nil}
      <4> SUFFICES ASSUME NEW t \in Tools, Chosen(cards, t) # Nil PROVE Chosen(cards, t) \in Keys
        OBVIOUS
      <4>1. {k \in Listed(cards) : cards[k].agent = t} # {}
        BY DEF Chosen
      <4>2. Chosen(cards, t) \in Listed(cards)
        BY <1>1, <4>1, ChosenIsNewest
      <4> QED BY <4>2 DEF Listed
    <3> QED BY <1>1, <3>1 DEF StartupTypeOK
  <2>3. kit.among = cards /\ kit.chosen = [t \in Tools |-> Chosen(cards, t)]
    OBVIOUS
  <2> HIDE DEF kit
  <2>4. /\ tools' \in [Processes -> [chosen : [Tools -> Keys \cup {Nil}], among : [Keys -> Card \cup {Nil}]]]
        /\ tools'[s] = kit /\ \A r \in Processes : r # s => tools'[r] = tools[r]
    BY <1>1, <2>1, <2>2 DEF StartupTypeOK
  <2>5. StartupTypeOK'
    BY <1>1, <2>1, <2>4, Moved DEF StartupTypeOK
  <2>6. \A r \in Processes : Staged(r)'
    <3>1. ASSUME NEW r \in Processes, r # s PROVE Staged(r)'
      BY <1>1, <2>1, <2>4, <3>1, Moved, OthersStaged DEF StartInv
    <3>2. Equipped(s)'
      <4>1. tools'[s].among = cards /\ tools'[s].chosen = [t \in Tools |-> Chosen(cards, t)] /\ own'[s] = own[s]
        BY <2>3, <2>4
      <4>2. /\ IsFiniteSet(Listed(tools'[s].among)) /\ Buildable(tools'[s].among, own'[s])
            /\ tools'[s].chosen = [t \in Tools |-> Chosen(tools'[s].among, t)]
        BY <1>1, <1>3, <4>1
      <4> QED BY <4>2 DEF Equipped, Listed, Buildable, Chosen, ListedBefore
    <3>3. Staged(s)'
      <4>1. at'[s] = "up"
        BY <1>1, <2>1, Moved
      <4> QED BY <1>1, <2>1, <3>2, <4>1 DEF Staged, Bounded, Taught
    <3> QED BY <3>1, <3>3
  <2>7. Seeding'
    <3>1. at'[s] = "up" /\ \A r \in Processes : r # s => at'[r] = at[r] /\ nth'[r] = nth[r] /\ own'[r] = own[r]
      BY <1>1, <2>1, Moved
    <3> QED BY <3>1, NothingSeeded
  <2> QED BY <2>1, <2>5, <2>6, <2>7 DEF StartInv, Listed, Holds
<1> QED BY <1>2, <1>3

LEMMA ListCardsKeeps == ASSUME StartInv, NEW s \in Processes, NEW o \in Ending, ListCards(s, o) PROVE StartInv'
<1>1. StartupTypeOK /\ at[s] = "cards" /\ s \in Servers /\ Staged(s)
  BY DEF StartInv, Staged, ListCards
<1>2. /\ UNCHANGED <<policy, secret, schemas, cards, published, own>>
      /\ mishaps' \in Nat /\ published' \in 0..MaxPublished /\ schemas' \in [Events -> {"none", "base", "other"}]
      /\ Clean' => Clean
  BY <1>1, CallsEnd DEF ListCards, Clean, StartupTypeOK
<1>3. CASE Ended(s)
  BY <1>1, <1>2, <1>3, EndKeeps
<1>4. CASE Built(s)
  BY <1>1, <1>2, <1>4, BuiltKeeps
<1>5. CASE To(s, "seed") /\ UNCHANGED <<granted, loaded, tools>>
  <2>1. /\ at' \in [Processes -> {"down", "sandbox", "schemas", "load", "cards", "seed", "relist", "up"}]
        /\ nth' \in [Processes -> Nat] /\ at'[s] = "seed" /\ nth'[s] = 1
        /\ \A r \in Processes : r # s => at'[r] = at[r] /\ nth'[r] = nth[r] /\ own'[r] = own[r]
    BY <1>1, <1>2, <1>5, Moved
  <2>2. StartupTypeOK'
    BY <1>1, <1>2, <1>5, <2>1 DEF StartupTypeOK
  <2>3. \A r \in Processes : Staged(r)'
    <3>1. ASSUME NEW r \in Processes, r # s PROVE Staged(r)'
      BY <1>2, <1>5, <2>1, <3>1, OthersStaged DEF StartInv
    <3>2. Staged(s)'
      BY <1>1, <1>5, <2>1, StartupAssumption DEF Staged, Bounded, Taught, Tools
    <3> QED BY <3>1, <3>2
  <2>4. Seeding'
    BY <1>1, <1>2, <2>1, NothingSeeded
  <2> QED BY <1>2, <1>5, <2>2, <2>3, <2>4 DEF StartInv, Listed, Holds
<1> QED BY <1>3, <1>4, <1>5 DEF ListCards

LEMMA RelistCardsKeeps == ASSUME StartInv, NEW s \in Processes, NEW o \in Ending, RelistCards(s, o) PROVE StartInv'
<1>1. StartupTypeOK /\ at[s] = "relist"
  BY DEF StartInv, RelistCards
<1>2. /\ UNCHANGED <<policy, secret, schemas, cards, published, own>>
      /\ mishaps' \in Nat /\ published' \in 0..MaxPublished /\ schemas' \in [Events -> {"none", "base", "other"}]
      /\ Clean' => Clean
  BY <1>1, CallsEnd DEF RelistCards, Clean, StartupTypeOK
<1>3. CASE Ended(s)
  BY <1>1, <1>2, <1>3, EndKeeps
<1>4. CASE Built(s)
  BY <1>1, <1>2, <1>4, BuiltKeeps
<1> QED BY <1>3, <1>4 DEF RelistCards

\* A card is written: no more than one is listed anew.
LEMMA CardWritten ==
  ASSUME StartInv, NEW k \in Keys, NEW card \in Card, cards' = [cards EXCEPT ![k] = card]
  PROVE  /\ cards' \in [Keys -> Card \cup {Nil}]
         /\ Listed(cards)' = Listed(cards) \cup {k}
         /\ IsFiniteSet(Listed(cards)')
<1>1. StartupTypeOK /\ IsFiniteSet(Listed(cards))
  BY DEF StartInv
<1>2. cards' \in [Keys -> Card \cup {Nil}] /\ cards'[k] # Nil
  BY <1>1, PoliciesAssumption DEF StartupTypeOK
<1>3. Listed(cards)' = Listed(cards) \cup {k}
  BY <1>1, <1>2 DEF Listed, StartupTypeOK
<1>4. IsFiniteSet(Listed(cards) \cup {k})
  BY <1>1, FS_AddElement
<1> QED BY <1>2, <1>3, <1>4

LEMMA PublishCardKeeps ==
  ASSUME StartInv, NEW s \in Processes, NEW k \in Keys, NEW agent \in Tools, NEW sound \in BOOLEAN,
         NEW o \in Ending, PublishCard(s, k, agent, sound, o)
  PROVE  StartInv'
<1> DEFINE card == [agent |-> agent, sound |-> sound, secret |-> own[s]]
<1>1. StartupTypeOK /\ card \in Card
  BY DEF StartInv, StartupTypeOK, Card
<1>2. /\ UNCHANGED <<policy, secret, schemas, at, nth, own, granted, loaded, tools>>
      /\ mishaps' \in Nat /\ published' \in 0..MaxPublished /\ published' # 0
      /\ cards' = cards \/ cards' = [cards EXCEPT ![k] = card]
  BY <1>1, CallsEnd, StartupAssumption DEF PublishCard, StartupTypeOK
<1> HIDE DEF card
<1>3. cards' \in [Keys -> Card \cup {Nil}] /\ IsFiniteSet(Listed(cards)')
  <2>1. CASE cards' = cards
    BY <1>1, <2>1 DEF StartInv, StartupTypeOK, Listed
  <2>2. CASE cards' = [cards EXCEPT ![k] = card]
    BY <1>1, <2>2, CardWritten
  <2> QED BY <1>2, <2>1, <2>2
<1>4. StartupTypeOK'
  BY <1>1, <1>2, <1>3 DEF StartupTypeOK
<1>5. \A r \in Processes : Staged(r)'
  BY <1>2, OthersStaged DEF StartInv
<1>6. Seeding'
  BY <1>2 DEF Seeding, Clean
<1> QED BY <1>2, <1>3, <1>4, <1>5, <1>6 DEF StartInv, Holds

\* The next default card: all before it are there.
LEMMA SeedCardKeeps == ASSUME StartInv, NEW s \in Processes, NEW o \in Ending, SeedCard(s, o) PROVE StartInv'
<1> DEFINE k == <<nth[s], 1>>
           card == [agent |-> nth[s], sound |-> TRUE, secret |-> own[s]]
<1>1. StartupTypeOK /\ at[s] = "seed" /\ s \in Servers /\ granted[s] # Nil /\ nth[s] \in Tools
  BY DEF StartInv, Staged, Bounded, SeedCard
<1>2. /\ UNCHANGED <<policy, secret, schemas, published, own>>
      /\ mishaps' \in Nat /\ published' \in 0..MaxPublished /\ schemas' \in [Events -> {"none", "base", "other"}]
      /\ Clean' => Clean /\ o = "ok"
      /\ cards' = IF o \in Took THEN [cards EXCEPT ![k] = card] ELSE cards
  BY <1>1, CallsEnd DEF SeedCard, Clean, StartupTypeOK
<1>3. k \in Keys /\ card \in Card
  BY <1>1, StartupAssumption DEF Keys, Card, StartupTypeOK
<1>4. card = DefaultCard(k[1]) \/ own[s] # secret
  BY DEF DefaultCard
<1>5. k[1] = nth[s] /\ k[2] = 1
  OBVIOUS
<1> HIDE DEF card, k
<1>6. cards' \in [Keys -> Card \cup {Nil}] /\ IsFiniteSet(Listed(cards)')
  <2>1. CASE cards' = cards
    BY <1>1, <2>1 DEF StartInv, StartupTypeOK, Listed
  <2>2. CASE cards' = [cards EXCEPT ![k] = card]
    BY <1>3, <2>2, CardWritten
  <2> QED BY <1>2, <2>1, <2>2
<1>7. CASE o # "ok"
  <2>1. Ended(s)
    BY <1>7 DEF SeedCard
  <2>2. Seeding'
    BY <1>2, <1>7 DEF Seeding
  <2> QED BY <1>2, <1>6, <2>1, <2>2, EndKeepsPlaces DEF StartInv
<1>8. CASE o = "ok"
  <2>1. /\ UNCHANGED <<granted, loaded, tools>> /\ cards' = [cards EXCEPT ![k] = card]
        /\ IF nth[s] < ToolCount
           THEN nth' = [nth EXCEPT ![s] = @ + 1] /\ UNCHANGED at
           ELSE To(s, "relist")
    BY <1>2, <1>8 DEF SeedCard, Took
  <2>2. /\ at' \in [Processes -> {"down", "sandbox", "schemas", "load", "cards", "seed", "relist", "up"}]
        /\ nth' \in [Processes -> Nat]
        /\ \A r \in Processes : r # s => at'[r] = at[r] /\ nth'[r] = nth[r]
    BY <1>1, <2>1, Moved DEF StartupTypeOK
  <2>3. \/ at'[s] = "seed" /\ nth'[s] = nth[s] + 1 /\ nth'[s] \in Tools
        \/ at'[s] = "relist" /\ \A t \in Tools : t <= nth[s]
    BY <1>1, <2>1, Moved, StartupAssumption DEF StartupTypeOK, Tools
  <2>4. StartupTypeOK'
    BY <1>1, <1>2, <1>6, <2>1, <2>2 DEF StartupTypeOK
  <2>5. \A r \in Processes : Staged(r)'
    <3>1. ASSUME NEW r \in Processes, r # s PROVE Staged(r)'
      BY <1>2, <2>1, <2>2, <3>1, OthersStaged DEF StartInv
    <3>2. \A e \in Events : loaded[s][e] # "none"
      BY <1>1 DEF StartInv, Staged, Taught
    <3>3. Staged(s)'
      BY <1>1, <2>1, <2>3, <3>2 DEF Staged, Bounded, Taught
    <3> QED BY <3>1, <3>3
  <2>6. Listed(cards)' = Listed(cards) \cup {k}
    BY <1>3, <2>1, CardWritten
  <2>7. Seeding'
    <3> SUFFICES ASSUME Clean' PROVE SeededSoFar'
      BY DEF Seeding
    <3>1. SeededSoFar /\ own[s] = secret
      BY <1>1, <1>2 DEF StartInv, Seeding, SeededSoFar
    <3>2. \A r \in Processes : at'[r] # "down" => own'[r] = secret'
      BY <1>2, <2>2, <3>1 DEF SeededSoFar
    <3>3. \A l \in Listed(cards)' : l[2] = 1 /\ cards'[l] = DefaultCard(l[1])'
      <4> SUFFICES ASSUME NEW l \in Listed(cards) \cup {k} PROVE l[2] = 1 /\ cards'[l] = DefaultCard(l[1])'
        BY <2>6
      <4>1. CASE l = k
        BY <1>1, <1>2, <1>3, <1>4, <1>5, <2>1, <3>1, <4>1 DEF DefaultCard, StartupTypeOK
      <4>2. CASE l # k
        BY <1>1, <1>2, <1>3, <2>1, <3>1, <4>2 DEF DefaultCard, StartupTypeOK, SeededSoFar, Listed
      <4> QED BY <4>1, <4>2
    <3>4. \A t \in Tools : t <= nth[s] => <<t, 1>> \in Listed(cards)'
      <4>1. \A t \in Tools : t <= nth[s] => t < nth[s] \/ t = nth[s]
        BY <1>1 DEF Tools
      <4>2. \A t \in Tools : t < nth[s] => <<t, 1>> \in Listed(cards)
        BY <1>1, <3>1 DEF SeededSoFar
      <4> QED BY <2>6, <4>1, <4>2 DEF k
    <3>5. \A r \in Processes : at'[r] = "seed" => \A t \in Tools : t < nth'[r] => <<t, 1>> \in Listed(cards)'
      <4> SUFFICES ASSUME NEW r \in Processes, at'[r] = "seed", NEW t \in Tools, t < nth'[r]
                   PROVE  <<t, 1>> \in Listed(cards)'
        OBVIOUS
      <4>1. CASE r = s
        <5>1. t <= nth[s]
          BY <1>1, <2>3, <4>1 DEF Tools
        <5> QED BY <5>1, <3>4
      <4>2. CASE r # s
        BY <2>2, <2>6, <3>1, <4>2 DEF SeededSoFar
      <4> QED BY <4>1, <4>2
    <3>6. \A r \in Processes : at'[r] = "relist" => AllListed'
      <4> SUFFICES ASSUME NEW r \in Processes, at'[r] = "relist" PROVE AllListed'
        OBVIOUS
      <4>1. CASE r = s
        BY <2>3, <3>4, <4>1 DEF AllListed
      <4>2. CASE r # s
        BY <2>2, <2>6, <3>1, <4>2 DEF SeededSoFar, AllListed
      <4> QED BY <4>1, <4>2
    <3>7. AllListed' \/ at'[s] = "seed"
      BY <2>3, <3>4 DEF AllListed
    <3> QED BY <3>2, <3>3, <3>5, <3>6, <3>7 DEF SeededSoFar
  <2> QED BY <1>2, <1>6, <2>1, <2>4, <2>5, <2>7 DEF StartInv, Holds
<1> QED BY <1>7, <1>8

LEMMA StartupStep == StartInv /\ [StartupNext]_uvars => StartInv'
<1> SUFFICES ASSUME StartInv, [StartupNext]_uvars PROVE StartInv'
  OBVIOUS
<1>1. CASE Rotate
  BY <1>1, RotateKeeps
<1>2. ASSUME NEW s \in Processes, Start(s) PROVE StartInv'
  BY <1>2, StartKeeps
<1>3. ASSUME NEW s \in Processes, End(s) PROVE StartInv'
  <2>1. StartupTypeOK
    BY DEF StartInv
  <2>2. UNCHANGED <<policy, secret, schemas, cards, published, own>> /\ Ended(s)
    BY <1>3 DEF End
  <2>3. CASE at[s] = "up"
    <3>1. mishaps' = mishaps
      BY <1>3, <2>3 DEF End, Ends
    <3>2. Clean' => Clean
      BY <2>2, <3>1 DEF Clean
    <3>3. mishaps' \in Nat /\ published' \in 0..MaxPublished /\ schemas' \in [Events -> {"none", "base", "other"}]
      BY <2>1, <2>2, <3>1 DEF StartupTypeOK
    <3> QED BY <2>2, <2>3, <3>2, <3>3, EndKeeps
  <2>4. CASE at[s] # "up"
    <3>1. mishaps' \in Nat /\ mishaps' # 0
      BY <1>3, <2>1, <2>4 DEF End, Ends, StartupTypeOK
    <3>2. ~Clean'
      BY <3>1 DEF Clean
    <3>3. published' \in 0..MaxPublished /\ schemas' \in [Events -> {"none", "base", "other"}]
      BY <2>1, <2>2 DEF StartupTypeOK
    <3> QED BY <2>2, <3>1, <3>2, <3>3, EndKeeps
  <2> QED BY <2>3, <2>4
<1>4. ASSUME NEW s \in Processes, EnsureSandbox(s) PROVE StartInv'
  BY <1>4, EnsureSandboxKeeps
<1>5. ASSUME NEW s \in Processes, NEW o \in Ending,
             SeedSchema(s, o) \/ LoadSchemas(s, o) \/ ListCards(s, o) \/ SeedCard(s, o) \/ RelistCards(s, o)
      PROVE  StartInv'
  BY <1>5, SeedSchemaKeeps, LoadSchemasKeeps, ListCardsKeeps, SeedCardKeeps, RelistCardsKeeps
<1>6. ASSUME NEW s \in Processes, NEW o \in Ending, NEW k \in Keys, NEW agent \in Tools, NEW sound \in BOOLEAN,
             PublishCard(s, k, agent, sound, o)
      PROVE  StartInv'
  BY <1>6, PublishCardKeeps
<1>7. ASSUME NEW e \in Events, NEW o \in Ending, PublishSchema(e, o) PROVE StartInv'
  BY <1>7, PublishSchemaKeeps
<1>8. CASE UNCHANGED uvars
  <2>1. StartupTypeOK'
    BY <1>8 DEF StartInv, StartupTypeOK, uvars
  <2>2. \A s \in Processes : Staged(s)'
    BY <1>8, OthersStaged DEF StartInv, uvars
  <2>3. Seeding'
    BY <1>8 DEF StartInv, uvars, Seeding, Clean, SeededSoFar, AllListed, DefaultCard, Listed
  <2> QED BY <1>8, <2>1, <2>2, <2>3 DEF StartInv, uvars, Listed, Holds
<1> QED BY <1>1, <1>2, <1>3, <1>4, <1>5, <1>6, <1>7, <1>8 DEF StartupNext

\* Every variable of the start has its type, of any number of processes.
THEOREM StartTypes == StartupSpec => []StartupTypeOK
<1>1. StartInv => StartupTypeOK
  BY DEF StartInv
<1> QED BY <1>1, StartupStart, StartupStep, PTL DEF StartupSpec

\* A process runs within limits that are its policy's however the texts of it
\* were read, a server that is up has the newest card of every tool and reads
\* every base schema, and what servers seed side by side is whole
\* (EnsureSandbox, InitSchemaRegistry, EnsureCapabilityRegistry).
THEOREM StartIsWhole == StartupSpec => []StartedWhole
<1>1. StartInv => SandboxHolds
  BY DEF StartInv, SandboxHolds, Holds
<1>2. StartInv => RegistriesComplete
  <2> SUFFICES ASSUME StartInv, NEW s \in Processes, at[s] = "up"
               PROVE  /\ granted[s] # Nil
                      /\ \A e \in Events : loaded[s][e] # "none"
                      /\ s \in Servers => \A t \in Tools :
                           LET k == tools[s].chosen[t]
                               read == tools[s].among
                           IN k # Nil /\ read[k].agent = t /\ read[k].sound /\ read[k].secret = own[s]
                                /\ \A l \in Listed(read) : read[l].agent = t => l[2] <= k[2]
    BY DEF RegistriesComplete
  <2>1. granted[s] # Nil /\ \A e \in Events : loaded[s][e] # "none"
    BY DEF StartInv, Staged, Bounded, Taught
  <2>2. ASSUME s \in Servers, NEW t \in Tools
        PROVE  LET k == tools[s].chosen[t]
                   read == tools[s].among
               IN k # Nil /\ read[k].agent = t /\ read[k].sound /\ read[k].secret = own[s]
                    /\ \A l \in Listed(read) : read[l].agent = t => l[2] <= k[2]
    <3> DEFINE read == tools[s].among
    <3>1. IsFiniteSet(Listed(read)) /\ Buildable(read, own[s]) /\ tools[s].chosen[t] = Chosen(read, t)
      BY <2>2 DEF StartInv, Staged, Equipped
    <3>2. Chosen(read, t) # Nil
      BY <2>2, <3>1 DEF Buildable
    <3> HIDE DEF read
    <3>3. {k \in Listed(read) : read[k].agent = t} # {}
      BY <3>2 DEF Chosen
    <3>4. /\ Chosen(read, t) \in Listed(read) /\ read[Chosen(read, t)].agent = t
          /\ \A l \in Listed(read) : read[l].agent = t => l[2] <= Chosen(read, t)[2]
      BY <3>1, <3>3, ChosenIsNewest
    <3>5. read[Chosen(read, t)].sound /\ read[Chosen(read, t)].secret = own[s]
      BY <3>1, <3>4 DEF Buildable
    <3> QED BY <3>1, <3>2, <3>4, <3>5 DEF read
  <2> QED BY <2>1, <2>2
<1>3. StartInv => SeededWhole
  <2> SUFFICES ASSUME StartInv, Clean, ~ToBeSeeded(cards), \A s \in Processes : at[s] # "seed"
               PROVE  Buildable(cards, secret)
    BY DEF SeededWhole, Clean
  <2>1. SeededSoFar /\ AllListed
    BY DEF StartInv, Seeding, SeededSoFar, ToBeSeeded
  <2>2. /\ \A k \in Listed(cards) : cards[k].sound /\ cards[k].secret = secret
        /\ \A k \in Listed(cards) : cards[k].agent = k[1]
    <3>1. \A t : DefaultCard(t).agent = t /\ DefaultCard(t).sound = TRUE /\ DefaultCard(t).secret = secret
      BY DEF DefaultCard
    <3>2. \A k \in Listed(cards) : cards[k] = DefaultCard(k[1])
      BY <2>1 DEF SeededSoFar
    <3> QED BY <3>1, <3>2
  <2>3. ASSUME NEW t \in Tools PROVE Chosen(cards, t) # Nil
    <3>1. {k \in Listed(cards) : cards[k].agent = t} # {}
      <4>1. <<t, 1>> \in Listed(cards)
        BY <2>1 DEF AllListed
      <4>2. cards[<<t, 1>>].agent = t
        BY <2>2, <4>1
      <4> QED BY <4>1, <4>2
    <3>2. Chosen(cards, t) \in Keys
      BY <3>1, ChosenIsNewest DEF StartInv, Listed
    <3> QED BY <3>2, PoliciesAssumption
  <2> QED BY <2>2, <2>3 DEF Buildable
<1>4. StartInv => StartedWhole
  BY <1>1, <1>2, <1>3 DEF StartedWhole
<1> QED BY <1>4, StartupStart, StartupStep, PTL DEF StartupSpec

-----------------------------------------------------------------------------
(* What research gathers.                                                   *)

UrlsOf(by, h) == {u \in Urls : HostOf[u] = h /\ by[u] # {}}

\* No more than the preferences and the cap allow.
Allowed(by) ==
  /\ by \in [Urls -> SUBSET {6, 8}]
  /\ \A u \in Urls : by[u] # {} => Acceptable(HostOf[u])
  /\ \A h \in Hosts : IsFiniteSet(UrlsOf(by, h)) /\ Cardinality(UrlsOf(by, h)) <= DomainCap
  /\ IsFiniteSet({u \in Urls : by[u] # {}})

\* While it gathers, a host has no more URLs than are counted for it.
Counted(g) ==
  /\ Allowed(g.by)
  /\ g.perHost \in [Hosts -> 0..DomainCap] /\ g.amount \in Nat
  /\ \A h \in Hosts : Cardinality(UrlsOf(g.by, h)) <= g.perHost[h]

LEMMA WithResultCounted ==
  ASSUME NEW g, Counted(g), NEW u \in Urls, NEW c \in {6, 8}
  PROVE  Counted(WithResult(g, u, c))
<1> DEFINE h == HostOf[u]
           by == [g.by EXCEPT ![u] = @ \cup {c}]
           counts == [g.perHost EXCEPT ![h] = @ + 1]
<1>1. h \in Hosts /\ DomainCap \in Nat
  BY AgentsAssumption
<1>2. /\ g.by \in [Urls -> SUBSET {6, 8}] /\ g.perHost \in [Hosts -> 0..DomainCap]
      /\ \A v \in Urls : g.by[v] # {} => Acceptable(HostOf[v])
      /\ \A k \in Hosts : IsFiniteSet(UrlsOf(g.by, k)) /\ Cardinality(UrlsOf(g.by, k)) <= g.perHost[k]
  BY DEF Counted, Allowed
<1>3. CASE ~(Acceptable(h) /\ Uncapped(h, g.perHost[h]))
  BY <1>3 DEF WithResult
<1>4. CASE Acceptable(h) /\ Uncapped(h, g.perHost[h])
  <2>1. /\ WithResult(g, u, c).by = by /\ WithResult(g, u, c).perHost = counts
        /\ WithResult(g, u, c).amount \in Nat
    BY <1>4 DEF WithResult, Counted
  <2>2. g.perHost[h] < DomainCap
    BY <1>4 DEF Uncapped
  <2>3. /\ by \in [Urls -> SUBSET {6, 8}]
        /\ \A v \in Urls : v # u => by[v] = g.by[v]
        /\ by[u] # {}
    BY <1>2
  <2>4. /\ counts \in [Hosts -> 0..DomainCap] /\ counts[h] = g.perHost[h] + 1
        /\ \A k \in Hosts : k # h => counts[k] = g.perHost[k]
    BY <1>1, <1>2, <2>2
  <2> HIDE DEF by, counts
  <2>5. \A v \in Urls : by[v] # {} => Acceptable(HostOf[v])
    BY <1>2, <1>4, <2>3
  <2>6. ASSUME NEW k \in Hosts
        PROVE  /\ IsFiniteSet(UrlsOf(by, k)) /\ Cardinality(UrlsOf(by, k)) <= counts[k]
               /\ counts[k] <= DomainCap /\ counts[k] \in Nat
    <3>1. CASE k # h
      <4>1. UrlsOf(by, k) = UrlsOf(g.by, k)
        BY <2>3, <3>1 DEF UrlsOf
      <4> QED BY <1>1, <1>2, <2>4, <3>1, <4>1
    <3>2. CASE k = h
      <4>1. UrlsOf(by, h) = UrlsOf(g.by, h) \cup {u}
        BY <2>3 DEF UrlsOf
      <4>2. IsFiniteSet(UrlsOf(g.by, h)) /\ Cardinality(UrlsOf(g.by, h)) \in Nat
        BY <1>1, <1>2, FS_CardinalityType
      <4>3. /\ IsFiniteSet(UrlsOf(g.by, h) \cup {u})
            /\ Cardinality(UrlsOf(g.by, h) \cup {u}) <= Cardinality(UrlsOf(g.by, h)) + 1
        <5> DEFINE before == UrlsOf(g.by, h)
        <5>1. IsFiniteSet(before) /\ Cardinality(before) \in Nat
          BY <4>2
        <5> HIDE DEF before
        <5>2. /\ IsFiniteSet(before \cup {u})
              /\ Cardinality(before \cup {u}) \in {Cardinality(before), Cardinality(before) + 1}
          BY <5>1, FS_AddElement
        <5>3. Cardinality(before \cup {u}) <= Cardinality(before) + 1
          BY <5>1, <5>2
        <5> QED BY <5>2, <5>3 DEF before
      <4>4. Cardinality(UrlsOf(g.by, h) \cup {u}) \in Nat
        BY <4>3, FS_CardinalityType
      <4> QED BY <1>1, <1>2, <2>4, <3>2, <4>1, <4>2, <4>3, <4>4
    <3> QED BY <3>1, <3>2
  <2>7. \A k \in Hosts : Cardinality(UrlsOf(by, k)) \in Nat
    BY <2>6, FS_CardinalityType
  <2>8. \A k \in Hosts : Cardinality(UrlsOf(by, k)) <= DomainCap
    BY <1>1, <2>6, <2>7
  <2>9. IsFiniteSet({v \in Urls : by[v] # {}})
    <3>1. {v \in Urls : by[v] # {}} = {v \in Urls : g.by[v] # {}} \cup {u}
      BY <2>3
    <3>2. IsFiniteSet({v \in Urls : g.by[v] # {}})
      BY DEF Counted, Allowed
    <3> QED BY <3>1, <3>2, FS_AddElement
  <2> QED BY <2>1, <2>3, <2>4, <2>5, <2>6, <2>8, <2>9 DEF Counted, Allowed
<1> QED BY <1>3, <1>4

\* f is the function by which FoldLeft gathers the first n results of res.
GathersUpTo(f, res, c, n) ==
  f = [S \in SUBSET (1..n) |-> IF S = {} THEN Gathering ELSE WithResult(f[S \ {Max(S)}], res[Max(S)], c)]

LEMMA GreatestOfInterval ==
  ASSUME NEW n \in Nat, NEW S \in SUBSET (1..n), n \in S
  PROVE  Max(S) = n
<1>1. \A m \in S : n >= m
  OBVIOUS
<1>2. \A x \in S : (\A m \in S : x >= m) => x = n
  OBVIOUS
<1>3. Max(S) \in S /\ \A m \in S : Max(S) >= m
  BY <1>1 DEF Max
<1> QED
  BY <1>2, <1>3

\* There is one: take the least number of results for which there is none.
LEMMA GatheringExists ==
  ASSUME NEW res \in Seq(Urls), NEW c, NEW n \in 0..Len(res)
  PROVE  \E f : GathersUpTo(f, res, c, n)
<1> DEFINE Without == {k \in Nat : k <= Len(res) /\ ~\E f : GathersUpTo(f, res, c, k)}
<1> SUFFICES ASSUME n \in Without PROVE FALSE
  OBVIOUS
<1>1. PICK k \in Without : \A m \in Without : k <= m
  BY LeastNatural
<1>2. k \in Nat /\ k <= Len(res) /\ ~\E f : GathersUpTo(f, res, c, k)
  BY <1>1
<1>3. CASE k = 0
  <2> DEFINE f == [S \in SUBSET (1..0) |-> Gathering]
  <2>1. \A S \in SUBSET (1..0) : S = {}
    OBVIOUS
  <2>2. GathersUpTo(f, res, c, 0)
    BY <2>1 DEF GathersUpTo
  <2> QED BY <1>2, <1>3, <2>2
<1>4. CASE k > 0
  <2>1. k - 1 \in Nat /\ k - 1 \notin Without
    BY <1>1, <1>2, <1>4
  <2>2. PICK g : GathersUpTo(g, res, c, k - 1)
    BY <1>2, <2>1
  <2> DEFINE f == [S \in SUBSET (1..k) |-> IF k \in S THEN WithResult(g[S \ {k}], res[k], c) ELSE g[S]]
  <2>3. \A S \in SUBSET (1..k) : k \notin S => S \in SUBSET (1..(k - 1))
    BY <1>2
  <2>4. ASSUME NEW S \in SUBSET (1..k)
        PROVE  f[S] = IF S = {} THEN Gathering ELSE WithResult(f[S \ {Max(S)}], res[Max(S)], c)
    <3>1. CASE k \in S
      <4>1. Max(S) = k
        BY <1>2, <3>1, GreatestOfInterval
      <4>2. f[S \ {k}] = g[S \ {k}]
        OBVIOUS
      <4> QED BY <3>1, <4>1, <4>2
    <3>2. CASE k \notin S
      <4>1. S \in SUBSET (1..(k - 1)) /\ f[S] = g[S]
        BY <2>3, <3>2
      <4>2. f[S \ {Max(S)}] = g[S \ {Max(S)}]
        BY <3>2
      <4>3. g[S] = IF S = {} THEN Gathering ELSE WithResult(g[S \ {Max(S)}], res[Max(S)], c)
        BY <2>2, <4>1 DEF GathersUpTo
      <4> QED BY <4>1, <4>2, <4>3
    <3> QED BY <3>1, <3>2
  <2>5. GathersUpTo(f, res, c, k)
    <3>1. f = [S \in SUBSET (1..k) |-> f[S]]
      OBVIOUS
    <3> HIDE DEF f
    <3> QED BY <2>4, <3>1 DEF GathersUpTo
  <2> QED BY <1>2, <2>5
<1> QED BY <1>2, <1>3, <1>4

\* What is counted stays so, result by result.
LEMMA GatheredCounted ==
  ASSUME Counted(Gathering), NEW res \in Seq(Urls), NEW c \in {6, 8}
  PROVE  Counted(Gathered(res, c))
<1> DEFINE f == CHOOSE f : GathersUpTo(f, res, c, Len(res))
<1>1. DOMAIN res = 1..Len(res) /\ Len(res) \in Nat
  OBVIOUS
<1>2. GathersUpTo(f, res, c, Len(res))
  BY <1>1, GatheringExists
<1>3. Gathered(res, c) = f[1..Len(res)]
  BY <1>1 DEF Gathered, FoldLeft, MapThenFoldSet, GathersUpTo
<1> HIDE DEF f
<1> DEFINE Uncounted == {k \in 0..Len(res) : ~Counted(f[1..k])}
<1> SUFFICES ASSUME Uncounted # {} PROVE FALSE
  BY <1>1, <1>3
<1>4. PICK k \in Uncounted : \A m \in Uncounted : k <= m
  <2>1. Uncounted \in SUBSET Nat
    BY <1>1
  <2> HIDE DEF Uncounted
  <2> QED BY <2>1, LeastNatural
<1>5. f[{}] = Gathering
  <2>1. {} \in SUBSET (1..Len(res))
    OBVIOUS
  <2> QED BY <1>2, <2>1 DEF GathersUpTo
<1>6. CASE k = 0
  <2>1. 1..0 = {}
    OBVIOUS
  <2> QED BY <1>4, <1>5, <1>6, <2>1
<1>7. CASE k # 0
  <2>1. k - 1 \in 0..Len(res) /\ k \in 1..Len(res)
    BY <1>1, <1>7
  <2>2. Counted(f[1..(k - 1)])
    BY <1>1, <1>4, <2>1
  <2>3. 1..k \in SUBSET (1..Len(res)) /\ 1..k # {} /\ Max(1..k) = k /\ (1..k) \ {k} = 1..(k - 1)
    <3>1. k \in Nat /\ k >= 1 /\ k <= Len(res)
      BY <1>1, <2>1
    <3>2. 1..k \in SUBSET (1..Len(res)) /\ k \in 1..k /\ 1..k \in SUBSET (1..k)
      BY <1>1, <3>1
    <3>3. (1..k) \ {k} = 1..(k - 1)
      BY <3>1
    <3>4. Max(1..k) = k
      BY <3>1, <3>2, GreatestOfInterval
    <3>5. 1..k # {}
      BY <3>2
    <3> QED BY <3>2, <3>3, <3>4, <3>5
  <2>4. f[1..k] = WithResult(f[(1..k) \ {Max(1..k)}], res[Max(1..k)], c)
    BY <1>2, <2>3 DEF GathersUpTo
  <2>5. Counted(WithResult(f[1..(k - 1)], res[k], c))
    <3>1. res[k] \in Urls
      BY <2>1
    <3> QED BY <2>2, <3>1, WithResultCounted
  <2> QED BY <1>4, <2>3, <2>4, <2>5
<1> QED BY <1>6, <1>7

\* A URL that was found is there once, as what it was best found with.
LEMMA DeduplicatedBest ==
  ASSUME NEW by \in [Urls -> SUBSET {6, 8}]
  PROVE  /\ Deduplicated(by) \subseteq Source
         /\ \A s \in Deduplicated(by) :
              s.credibility \in by[s.url] /\ \A c \in by[s.url] : c <= s.credibility
         /\ {s.url : s \in Deduplicated(by)} = {u \in Urls : by[u] # {}}
         /\ \A s, t \in Deduplicated(by) : s.url = t.url => s.credibility = t.credibility
<1>1. ASSUME NEW u \in Urls, by[u] # {}
      PROVE  Max(by[u]) \in by[u] /\ (\A c \in by[u] : c <= Max(by[u])) /\ Max(by[u]) \in {6, 8}
  <2>1. \E x \in by[u] : \A y \in by[u] : x >= y
    <3>1. by[u] \subseteq {6, 8}
      OBVIOUS
    <3>2. CASE 8 \in by[u]
      BY <3>1, <3>2
    <3>3. CASE 8 \notin by[u]
      BY <1>1, <3>1, <3>3
    <3> QED BY <3>2, <3>3
  <2>2. Max(by[u]) \in by[u] /\ \A y \in by[u] : Max(by[u]) >= y
    BY <2>1 DEF Max
  <2> QED BY <2>2
<1>2. ASSUME NEW u \in Urls, by[u] # {} PROVE u \in {s.url : s \in Deduplicated(by)}
  <2>1. [url |-> u, credibility |-> Max(by[u])] \in Deduplicated(by)
    BY <1>1, <1>2 DEF Deduplicated, Source
  <2> QED BY <2>1
<1>3. \A s \in Deduplicated(by) : s \in Source /\ s.url \in Urls /\ by[s.url] # {} /\ s.credibility = Max(by[s.url])
  BY DEF Deduplicated, Source
<1> QED BY <1>1, <1>2, <1>3

-----------------------------------------------------------------------------
(* What fairness makes of a credibility.                                    *)

LEMMA LeastOfTwo ==
  ASSUME NEW a \in Int, NEW b \in Int
  PROVE  Min({a, b}) = IF a <= b THEN a ELSE b
<1>1. \E x \in {a, b} : \A y \in {a, b} : x <= y
  <2>1. CASE a <= b
    BY <2>1
  <2>2. CASE b <= a
    BY <2>2
  <2> QED BY <2>1, <2>2
<1>2. Min({a, b}) \in {a, b} /\ \A y \in {a, b} : Min({a, b}) <= y
  BY <1>1 DEF Min
<1> QED BY <1>2

LEMMA ClampValue ==
  ASSUME NEW n \in Int, NEW low \in Int, NEW high \in Int, low <= high
  PROVE  Clamp(n, low, high) = IF n < low THEN low ELSE IF n > high THEN high ELSE n
<1>1. Min({n, high}) = (IF n <= high THEN n ELSE high)
  BY LeastOfTwo
<1> DEFINE m == Min({n, high})
<1>2. m \in Int /\ m = (IF n <= high THEN n ELSE high)
  BY <1>1
<1>3. Clamp(n, low, high) = Max({low, m})
  BY DEF Clamp
<1> HIDE DEF m
<1>4. Max({low, m}) \in {low, m} /\ Max({low, m}) >= low /\ Max({low, m}) >= m
  BY <1>2, GreaterOfTwo
<1> QED BY <1>2, <1>3, <1>4

\* Of hosts treated alike, what is more credible stays so, and nothing is below
\* the least.
LEMMA AdjustedOrder ==
  ASSUME NEW s \in Source, NEW t \in Source, NEW bias \in Int,
         DomainBias[s.url] = DomainBias[t.url], s.credibility <= t.credibility
  PROVE  /\ Adjusted(s, bias) <= Adjusted(t, bias)
         /\ Fair => Adjusted(s, bias) >= 10 * MinFair
<1> DEFINE host == DomainBias[s.url]
           user == Clamp(bias, -BiasRange, BiasRange)
           delta == Clamp(host + user, -10, 10)
           Raised(x) == Clamp(10 * x + delta * (10 - x), 0, 100)
           FairOf(x) == Max({10 * MinFair, Raised(x)})
           c == s.credibility
           d == t.credibility
<1>1. c \in {6, 8} /\ d \in {6, 8} /\ c <= d /\ s.url \in Urls
  BY DEF Source
<1>2. host \in Int /\ BiasRange \in 0..10 /\ MinFair \in 0..10
  <2>1. DomainBias \in [Urls -> -10..10] /\ (-10..10) \subseteq Int
    BY AgentsAssumption
  <2> QED BY <1>1, <2>1, AgentsAssumption
<1>3. user \in Int
  BY <1>2, ClampValue
<1> HIDE DEF host, user
<1>4. delta \in -10..10
  BY <1>2, <1>3, ClampValue
<1>5. /\ Adjusted(s, bias) = IF Fair THEN FairOf(c) ELSE 10 * c
      /\ Adjusted(t, bias) = IF Fair THEN FairOf(d) ELSE 10 * d
  BY DEF Adjusted, host, user
<1> HIDE DEF delta, c, d
<1>6. \A x \in {6, 8} : 10 * x + delta * (10 - x) \in Int
  BY <1>4
<1>7. 10 * 6 + delta * (10 - 6) <= 10 * 8 + delta * (10 - 8)
  BY <1>4
<1>8. Raised(6) \in Int /\ Raised(8) \in Int /\ Raised(6) <= Raised(8)
  <2> DEFINE m == 10 * 6 + delta * (10 - 6)
             n == 10 * 8 + delta * (10 - 8)
  <2>1. m \in Int /\ n \in Int /\ m <= n
    BY <1>6, <1>7
  <2>2. Raised(6) = Clamp(m, 0, 100) /\ Raised(8) = Clamp(n, 0, 100)
    OBVIOUS
  <2> HIDE DEF m, n, Raised
  <2> QED BY <2>1, <2>2, ClampValue
<1>9. Raised(c) \in Int /\ Raised(d) \in Int /\ Raised(c) <= Raised(d)
  BY <1>1, <1>8
<1>10. 10 * MinFair \in Int
  BY <1>2
<1> HIDE DEF Raised
<1>11. /\ FairOf(c) \in {10 * MinFair, Raised(c)} /\ FairOf(c) >= 10 * MinFair /\ FairOf(c) >= Raised(c)
       /\ FairOf(d) \in {10 * MinFair, Raised(d)} /\ FairOf(d) >= 10 * MinFair /\ FairOf(d) >= Raised(d)
  BY <1>9, <1>10, GreaterOfTwo
<1> HIDE DEF FairOf
<1>12. CASE Fair
  BY <1>5, <1>9, <1>10, <1>11, <1>12
<1>13. CASE ~Fair
  BY <1>1, <1>5, <1>13
<1> QED BY <1>12, <1>13

-----------------------------------------------------------------------------
(* The steps of a run's agents.                                             *)

\* Nothing is found before the research returns, and nothing reported.
AgentsInv ==
  /\ Allowed(gathered)
  /\ DOMAIN results = Models
  /\ provider # "done" =>
       /\ Counted(Gathering) /\ found = {} /\ report = NoReport
       /\ \A m \in Models : results[m] = NoResult
  /\ provider = "done" => found = Deduplicated(gathered)
  /\ \A m \in Models : results[m].sources \subseteq Returned
  /\ Cardinality(DOMAIN report.claims) <= report.items
  /\ \A i \in DOMAIN report.claims : Supported(report.claims[i], Returned)

LEMMA NoClaims == DOMAIN NoReport.claims = {} /\ Cardinality(DOMAIN NoReport.claims) <= NoReport.items
<1>1. DOMAIN NoReport.claims = {} /\ NoReport.items = 0
  BY DEF NoReport
<1> QED BY <1>1, FS_EmptySet

LEMMA AgentsStart == AgentsInit => AgentsInv
<1> SUFFICES ASSUME AgentsInit PROVE AgentsInv
  OBVIOUS
<1>1. \A h \in Hosts : UrlsOf(gathered, h) = {}
  BY DEF UrlsOf, AgentsInit
<1>2. DomainCap \in Nat
  BY AgentsAssumption
<1>3. \A h \in Hosts : IsFiniteSet(UrlsOf(gathered, h)) /\ Cardinality(UrlsOf(gathered, h)) = 0
  BY <1>1, FS_EmptySet
<1>4. Allowed(gathered)
  <2>1. gathered \in [Urls -> SUBSET {6, 8}] /\ \A u \in Urls : gathered[u] = {}
    BY DEF AgentsInit
  <2>2. \A h \in Hosts : Cardinality(UrlsOf(gathered, h)) <= DomainCap
    BY <1>2, <1>3
  <2>3. IsFiniteSet({u \in Urls : gathered[u] # {}})
    <3>1. {u \in Urls : gathered[u] # {}} = {}
      BY <2>1
    <3> QED BY <3>1, FS_EmptySet
  <2> QED BY <1>3, <2>1, <2>2, <2>3 DEF Allowed
<1>5. Counted(Gathering)
  <2>1. Gathering.by = gathered /\ Gathering.perHost = perHost /\ Gathering.amount = amount
    BY DEF Gathering
  <2> QED BY <1>2, <1>3, <1>4, <2>1 DEF Counted, AgentsInit
<1>6. NoResult.sources = {}
  BY DEF NoResult
<1> QED BY <1>4, <1>5, <1>6, NoClaims DEF AgentsInv, AgentsInit

LEMMA AnswerCounted ==
  ASSUME AgentsInv, provider # "done", NEW known, NEW res \in Answers(known), NEW c \in {6, 8},
         Gather(Gathered(res, c)), provider' # "done", UNCHANGED <<found, results, report>>
  PROVE  AgentsInv'
<1> DEFINE g == Gathered(res, c)
<1>1. res \in Seq(Urls)
  <2>1. PICK n \in 0..PageSize : res \in [1..n -> Urls \ known]
    BY DEF Answers
  <2>2. n \in Nat
    BY <2>1, AgentsAssumption
  <2> QED BY <2>1, <2>2
<1>2. Counted(g)
  BY <1>1, GatheredCounted DEF AgentsInv
<1>3. gathered' = g.by /\ perHost' = g.perHost /\ amount' = g.amount
  BY DEF Gather
<1> HIDE DEF g
<1>4. Counted(Gathering)' /\ Allowed(gathered)'
  <2>1. Gathering'.by = gathered' /\ Gathering'.perHost = perHost' /\ Gathering'.amount = amount'
    BY DEF Gathering
  <2> QED BY <1>2, <1>3, <2>1 DEF Counted
<1>5. Returned' = Returned
  BY DEF Returned
<1> QED BY <1>4, <1>5 DEF AgentsInv

LEMMA ResearchStep ==
  ASSUME AgentsInv, NewsAnswers \/ BraveAnswers \/ RequestFails \/ Expire PROVE AgentsInv'
<1>1. CASE NewsAnswers
  <2>1. PICK res \in Answers(Known) : Gather(Gathered(res, Credibility.news))
    BY <1>1 DEF NewsAnswers
  <2>2. Credibility.news = 8
    BY DEF Credibility
  <2>3. provider # "done" /\ provider' # "done" /\ UNCHANGED <<found, results, report>>
    BY <1>1 DEF NewsAnswers
  <2> QED BY <2>1, <2>2, <2>3, AnswerCounted
<1>2. CASE BraveAnswers
  <2>1. PICK res \in Answers({}) : Gather(Gathered(res, Credibility.brave))
    BY <1>2 DEF BraveAnswers
  <2>2. Credibility.brave = 6
    BY DEF Credibility
  <2>3. provider # "done" /\ provider' # "done" /\ UNCHANGED <<found, results, report>>
    BY <1>2 DEF BraveAnswers
  <2> QED BY <2>1, <2>2, <2>3, AnswerCounted
<1>3. CASE RequestFails \/ Expire
  <2>1. provider # "done" /\ provider' # "done" /\ UNCHANGED <<gathered, amount, perHost, found, results, report>>
    BY <1>3 DEF RequestFails, Expire, GivesUp
  <2>2. Counted(Gathering)'
    BY <2>1 DEF AgentsInv, Gathering
  <2>3. Returned' = Returned
    BY <2>1 DEF Returned
  <2> QED BY <2>1, <2>2, <2>3 DEF AgentsInv
<1> QED BY <1>1, <1>2, <1>3

LEMMA ReturnStep == ASSUME AgentsInv, ReturnSources PROVE AgentsInv'
<1>1. /\ provider # "done" /\ provider' = "done" /\ UNCHANGED <<gathered, results, report>>
      /\ found' = Deduplicated(gathered)
  BY DEF ReturnSources
<1>2. report = NoReport /\ \A m \in Models : results[m] = NoResult
  BY <1>1 DEF AgentsInv
<1>3. NoResult.sources = {}
  BY DEF NoResult
<1> QED BY <1>1, <1>2, <1>3, NoClaims DEF AgentsInv

LEMMA AnsweredStep ==
  ASSUME AgentsInv, NEW m \in Models, NEW reply, NEW misfit, NEW sources \in {{}, Returned}, NEW size,
         Answered(m, reply, misfit, sources, size)
  PROVE  AgentsInv'
<1> DEFINE result == IF Told(reply, misfit) = "error" THEN [NoResult EXCEPT !.data = "error"]
                     ELSE [data |-> Told(reply, misfit), sources |-> sources, size |-> size]
<1>1. result.sources \in {{}, Returned}
  BY DEF NoResult
<1>2. /\ provider = "done" /\ results' = [results EXCEPT ![m] = result]
      /\ UNCHANGED <<provider, gathered, found, report>>
  BY DEF Answered
<1> HIDE DEF result
<1>3. Returned' = Returned
  BY <1>2 DEF Returned
<1>4. DOMAIN results' = Models /\ \A n \in Models : results'[n].sources \subseteq Returned
  BY <1>1, <1>2 DEF AgentsInv
<1>5. \A i \in DOMAIN report'.claims : Supported(report'.claims[i], Returned')
  BY <1>2, <1>3 DEF AgentsInv
<1> QED BY <1>2, <1>3, <1>4, <1>5 DEF AgentsInv

LEMMA CompileStep == ASSUME AgentsInv, NEW bias \in Biases, Compile(bias) PROVE AgentsInv'
<1>1. /\ UNCHANGED <<provider, gathered, found, results>>
      /\ results["synthesis"] # NoResult
  BY DEF Compile
<1>2. provider = "done" /\ found = Deduplicated(gathered) /\ gathered \in [Urls -> SUBSET {6, 8}]
  BY <1>1 DEF AgentsInv, Models, Allowed
<1>3. PICK digest \in (IF results["synthesis"].data = "error" THEN {<<>>} ELSE Digests), lookup \in Lookups :
        LET kept == {i \in DOMAIN digest : Verified(digest[i], lookup, bias) # {}}
            stated == {i \in kept : digest[i].stated}
        IN report' = [made |-> TRUE, items |-> Cardinality(kept),
                      claims |-> [i \in stated |-> Verified(digest[i], lookup, bias)]]
  BY DEF Compile
<1> DEFINE kept == {i \in DOMAIN digest : Verified(digest[i], lookup, bias) # {}}
           stated == {i \in kept : digest[i].stated}
<1>4. DOMAIN report'.claims = stated /\ report'.items = Cardinality(kept)
      /\ \A i \in stated : report'.claims[i] = Verified(digest[i], lookup, bias)
  BY <1>3
<1>5. Cardinality(stated) <= Cardinality(kept)
  <2>1. IsFiniteSet(DOMAIN digest)
    <3>1. \E n \in Nat : DOMAIN digest = 1..n
      <4>1. digest = <<>> \/ digest \in Seq([stated : BOOLEAN, cited : SUBSET Urls])
        BY AgentsAssumption
      <4> QED BY <4>1
    <3> QED BY <3>1, FS_Interval
  <2>2. IsFiniteSet(kept)
    BY <2>1, FS_Subset
  <2>3. stated \subseteq kept
    OBVIOUS
  <2> HIDE DEF stated, kept
  <2> QED BY <2>2, <2>3, FS_Subset
<1>6. Sources = Returned /\ Returned \subseteq Source
  BY <1>2, DeduplicatedBest, AgentsAssumption DEF Sources, AgentsInv, Returned, Source
<1>7. \A u \in DOMAIN lookup : lookup[u] \in Returned /\ SamePage(lookup[u].url, u)
  BY <1>6 DEF Lookups
<1>8. ASSUME NEW i \in stated PROVE Supported(Verified(digest[i], lookup, bias), Returned)
  <2> DEFINE claim == Verified(digest[i], lookup, bias)
  <2>1. claim # {}
    OBVIOUS
  <2>2. \A c \in claim :
          \E s \in Returned : SamePage(s.url, c.url) /\ c.credibility = Adjusted(s, bias)
    BY <1>7 DEF Verified
  <2> HIDE DEF claim
  <2>3. bias \in Int
    BY AgentsAssumption
  <2>4. ASSUME NEW c \in claim, Fair PROVE c.credibility >= 10 * MinFair
    <3>1. PICK s \in Returned : c.credibility = Adjusted(s, bias)
      BY <2>2
    <3>2. s \in Source /\ s.credibility <= s.credibility
      BY <1>6 DEF Source
    <3> QED BY <2>3, <2>4, <3>1, <3>2, AdjustedOrder
  <2>5. ASSUME NEW c \in claim, NEW d \in claim,
               \A s, t \in Returned :
                 SamePage(s.url, c.url) /\ SamePage(t.url, d.url) =>
                   DomainBias[s.url] = DomainBias[t.url] /\ s.credibility <= t.credibility
        PROVE  c.credibility <= d.credibility
    <3>1. PICK x \in Returned : SamePage(x.url, c.url) /\ c.credibility = Adjusted(x, bias)
      BY <2>2
    <3>2. PICK y \in Returned : SamePage(y.url, d.url) /\ d.credibility = Adjusted(y, bias)
      BY <2>2
    <3>3. DomainBias[x.url] = DomainBias[y.url] /\ x.credibility <= y.credibility
      BY <2>5, <3>1, <3>2
    <3>4. x \in Source /\ y \in Source
      BY <1>6
    <3> QED BY <2>3, <3>1, <3>2, <3>3, <3>4, AdjustedOrder
  <2>6. Supported(claim, Returned)
    BY <2>1, <2>2, <2>4, <2>5 DEF Supported
  <2> QED BY <2>6 DEF claim
<1> HIDE DEF stated, kept
<1>9. Returned' = Returned
  BY <1>1 DEF Returned
<1>10. \A i \in DOMAIN report'.claims : Supported(report'.claims[i], Returned')
  BY <1>4, <1>8, <1>9
<1> QED BY <1>1, <1>2, <1>4, <1>5, <1>9, <1>10 DEF AgentsInv

LEMMA AgentsStep == AgentsInv /\ [AgentsNext]_avars => AgentsInv'
<1> SUFFICES ASSUME AgentsInv, [AgentsNext]_avars PROVE AgentsInv'
  OBVIOUS
<1>1. CASE NewsAnswers \/ BraveAnswers \/ RequestFails \/ Expire
  BY <1>1, ResearchStep
<1>2. CASE ReturnSources
  BY <1>2, ReturnStep
<1>3. ASSUME NEW reply \in Replies,
             Analyse(reply) \/ Synthesise(reply) \/ DetectConflicts(reply)
               \/ ManageHighlights(reply) \/ BuildGraph(reply)
      PROVE  AgentsInv'
  <2>1. \E m \in Models, misfit \in {"fallback", "parsed"}, sources \in {{}, Returned} :
          \E size : Answered(m, reply, misfit, sources, size)
    BY <1>3 DEF Analyse, Synthesise, DetectConflicts, ManageHighlights, BuildGraph, Models
  <2> QED BY <2>1, AnsweredStep
<1>4. ASSUME NEW bias \in Biases, Compile(bias) PROVE AgentsInv'
  BY <1>4, CompileStep
<1>5. CASE UNCHANGED avars
  BY <1>5 DEF AgentsInv, avars, Gathering, Returned
<1> QED BY <1>1, <1>2, <1>3, <1>4, <1>5 DEF AgentsNext

\* A research returns no more than the preferences allow and no host has more
\* than the cap, over both providers and all pages, whichever requests fail;
\* what its run reports rests on pages that its researches found, whichever
\* spelling of a page the lookup of the report holds (executeResearch,
\* synthesizeResults).
THEOREM SourcesStayWithinPolicy == AgentsSpec => []SourcesWithinPolicy
<1>1. AgentsInv => SourcesWithinPolicy
  <2> SUFFICES ASSUME AgentsInv PROVE SourcesWithinPolicy
    OBVIOUS
  <2>1. gathered \in [Urls -> SUBSET {6, 8}]
    BY DEF AgentsInv, Allowed
  <2>2. \A u \in Urls : gathered[u] # {} => Acceptable(HostOf[u])
    BY DEF AgentsInv, Allowed
  <2>3. \A h \in Hosts : Cardinality({u \in Urls : HostOf[u] = h /\ gathered[u] # {}}) <= DomainCap
    BY DEF AgentsInv, Allowed, UrlsOf
  <2>4. \A s \in found : s.credibility \in gathered[s.url] /\ \A c \in gathered[s.url] : c <= s.credibility
    BY <2>1, DeduplicatedBest DEF AgentsInv
  <2>5. provider = "done" => {s.url : s \in found} = {u \in Urls : gathered[u] # {}}
    <3> SUFFICES ASSUME provider = "done" PROVE {s.url : s \in found} = {u \in Urls : gathered[u] # {}}
      OBVIOUS
    <3>1. found = Deduplicated(gathered)
      BY DEF AgentsInv
    <3>2. {s.url : s \in Deduplicated(gathered)} = {u \in Urls : gathered[u] # {}}
      BY <2>1, DeduplicatedBest
    <3> QED BY <3>1, <3>2
  <2> QED BY <2>2, <2>3, <2>4, <2>5 DEF AgentsInv, SourcesWithinPolicy
<1> QED BY <1>1, AgentsStart, AgentsStep, PTL DEF AgentsSpec

-----------------------------------------------------------------------------
(* The items of a request for news.                                         *)

Item == UNION {Range(batch) : batch \in Batches}

LEMMA ItemText == \A item \in Item : item.text \in Nat \cup {Textless, Vectorless}
  BY BatchesAssumption DEF Item

LEMMA BatchItems == ASSUME NEW batch \in Batches PROVE batch \in Seq(Item)
<1>1. batch \in Seq(Range(batch)) /\ Range(batch) \subseteq Item
  BY BatchesAssumption DEF Item
<1>2. Len(batch) \in Nat /\ DOMAIN batch = 1..Len(batch) /\ \A i \in 1..Len(batch) : batch[i] \in Range(batch)
  BY <1>1
<1>3. \A i \in 1..Len(batch) : batch[i] \in Item
  BY <1>1, <1>2
<1>4. batch = [i \in 1..Len(batch) |-> batch[i]]
  BY <1>1
<1> QED BY <1>2, <1>3, <1>4

\* No key twice.
Unlike(s) ==
  \A i, j \in DOMAIN s : i # j => ~Keyed(s[i]) \/ s[i].key # s[j].key

Apart(s, t) ==
  \A i \in DOMAIN s, j \in DOMAIN t : ~Keyed(s[i]) \/ s[i].key # t[j].key

\* What one more item does to keys that differ.
LEMMA AppendUnlike ==
  ASSUME NEW s \in Seq(Item), NEW item \in Item, Unlike(s),
         \A i \in DOMAIN s : ~Keyed(s[i]) \/ s[i].key # item.key
  PROVE  Unlike(Append(s, item))
<1>1. DOMAIN Append(s, item) = 1..(Len(s) + 1) /\ DOMAIN s = 1..Len(s) /\ Len(s) \in Nat
  OBVIOUS
<1>2. /\ Append(s, item)[Len(s) + 1] = item
      /\ \A i \in 1..Len(s) : Append(s, item)[i] = s[i]
  OBVIOUS
<1> DEFINE t == Append(s, item)
<1> SUFFICES ASSUME NEW i \in 1..(Len(s) + 1), NEW j \in 1..(Len(s) + 1), i # j, Keyed(t[i])
             PROVE  t[i].key # t[j].key
  BY <1>1 DEF Unlike
<1> HIDE DEF t
<1>3. t[Len(s) + 1] = item /\ \A k \in 1..Len(s) : t[k] = s[k]
  BY <1>2 DEF t
<1>4. CASE i = Len(s) + 1
  <2>1. j \in 1..Len(s)
    BY <1>1, <1>4
  <2>2. ~Keyed(s[j]) \/ s[j].key # item.key
    BY <1>1, <2>1
  <2> QED BY <1>3, <1>4, <2>1, <2>2 DEF Keyed
<1>5. CASE j = Len(s) + 1
  <2>1. i \in 1..Len(s)
    BY <1>1, <1>5
  <2> QED BY <1>1, <1>3, <1>5, <2>1
<1>6. CASE i # Len(s) + 1 /\ j # Len(s) + 1
  <2>1. i \in 1..Len(s) /\ j \in 1..Len(s)
    BY <1>1, <1>6
  <2> QED BY <1>1, <1>3, <2>1 DEF Unlike
<1> QED BY <1>4, <1>5, <1>6

\* What is so of a sequence and of one item more is so of both.
LEMMA AppendElements ==
  ASSUME NEW s \in Seq(Item), NEW item \in Item, NEW i \in DOMAIN Append(s, item)
  PROVE  \/ i \in DOMAIN s /\ Append(s, item)[i] = s[i]
         \/ Append(s, item)[i] = item
<1>1. DOMAIN Append(s, item) = 1..(Len(s) + 1) /\ DOMAIN s = 1..Len(s) /\ Len(s) \in Nat
  OBVIOUS
<1>2. CASE i = Len(s) + 1
  BY <1>1, <1>2
<1>3. CASE i # Len(s) + 1
  BY <1>1, <1>3
<1> QED BY <1>2, <1>3

\* k items are judged, each once.
JudgedSoFar(j, k) ==
  /\ j.novel \in Seq(Item) /\ j.left \in Seq(Item) /\ j.duplicates \in Nat
  /\ k = Len(j.novel) + Len(j.left) + j.duplicates
  /\ Unlike(j.novel) /\ Unlike(j.left) /\ Apart(j.novel, j.left)
  /\ \A i \in DOMAIN j.novel : Keyed(j.novel[i]) => j.novel[i].key \in j.seen /\ j.novel[i].text = Textless
  /\ \A i \in DOMAIN j.left : Keyed(j.left[i]) /\ j.left[i].key \in j.seen

LEMMA WithItemJudged ==
  ASSUME NEW j, NEW k \in Nat, JudgedSoFar(j, k), NEW item \in Item
  PROVE  JudgedSoFar(WithItem(j, item), k + 1)
<1> DEFINE old == Keyed(item) /\ item.key \in j.seen
           candidate == Keyed(item) /\ item.text # Textless
           w == WithItem(j, item)
<1>1. /\ w.seen = IF Keyed(item) THEN j.seen \cup {item.key} ELSE j.seen
      /\ w.novel = IF ~old /\ ~candidate THEN Append(j.novel, item) ELSE j.novel
      /\ w.left = IF ~old /\ candidate THEN Append(j.left, item) ELSE j.left
      /\ w.duplicates = IF old THEN j.duplicates + 1 ELSE j.duplicates
  BY DEF WithItem
<1>2. /\ j.novel \in Seq(Item) /\ j.left \in Seq(Item)
      /\ Len(j.novel) \in Nat /\ Len(j.left) \in Nat
  BY DEF JudgedSoFar
<1>a. PICK n \in Nat, l \in Nat, d \in Nat :
        Len(j.novel) = n /\ Len(j.left) = l /\ j.duplicates = d /\ k = n + l + d
  BY <1>2 DEF JudgedSoFar
<1>b. k + 1 = (n + 1) + l + d /\ k + 1 = n + (l + 1) + d /\ k + 1 = n + l + (d + 1)
  BY <1>a
<1>3. j.seen \subseteq w.seen /\ (Keyed(item) => item.key \in w.seen)
  BY <1>1
<1> HIDE DEF w
<1>c. /\ Unlike(j.novel) /\ Unlike(j.left) /\ Apart(j.novel, j.left)
      /\ \A i \in DOMAIN j.novel : Keyed(j.novel[i]) => j.novel[i].key \in w.seen /\ j.novel[i].text = Textless
      /\ \A i \in DOMAIN j.left : Keyed(j.left[i]) /\ j.left[i].key \in w.seen
  BY <1>3 DEF JudgedSoFar
<1>4. CASE old
  <2>1. w.novel = j.novel /\ w.left = j.left /\ w.duplicates = d + 1
    BY <1>1, <1>4, <1>a
  <2>2. /\ w.novel \in Seq(Item) /\ w.left \in Seq(Item) /\ w.duplicates \in Nat
        /\ Len(w.novel) = n /\ Len(w.left) = l
    BY <1>2, <1>a, <2>1
  <2>3. k + 1 = Len(w.novel) + Len(w.left) + w.duplicates
    BY <1>b, <2>1, <2>2
  <2> QED BY <1>c, <2>1, <2>2, <2>3 DEF JudgedSoFar, w
<1>5. \A i \in DOMAIN j.novel : ~old => ~Keyed(j.novel[i]) \/ j.novel[i].key # item.key
  BY DEF JudgedSoFar, Keyed
<1>6. \A i \in DOMAIN j.left : ~old => ~Keyed(j.left[i]) \/ j.left[i].key # item.key
  BY DEF JudgedSoFar, Keyed
<1>7. CASE ~old /\ candidate
  <2>1. w.novel = j.novel /\ w.left = Append(j.left, item) /\ w.duplicates = d
    BY <1>1, <1>7, <1>a
  <2>2. /\ w.novel \in Seq(Item) /\ w.left \in Seq(Item) /\ w.duplicates \in Nat
        /\ Len(w.novel) = n /\ Len(w.left) = l + 1
    BY <1>2, <1>a, <2>1
  <2>3. Unlike(w.left)
    BY <1>2, <1>6, <1>7, <1>c, <2>1, AppendUnlike
  <2>4. Apart(w.novel, w.left)
    BY <1>2, <1>5, <1>7, <1>c, <2>1, AppendElements DEF Apart
  <2>5. \A i \in DOMAIN w.left : Keyed(w.left[i]) /\ w.left[i].key \in w.seen
    BY <1>2, <1>3, <1>7, <1>c, <2>1, AppendElements
  <2>6. \A i \in DOMAIN w.novel : Keyed(w.novel[i]) => w.novel[i].key \in w.seen /\ w.novel[i].text = Textless
    BY <1>c, <2>1
  <2>7. k + 1 = Len(w.novel) + Len(w.left) + w.duplicates
    BY <1>b, <2>1, <2>2
  <2>8. Unlike(w.novel)
    BY <1>c, <2>1
  <2> HIDE DEF old, candidate
  <2> QED BY <2>2, <2>3, <2>4, <2>5, <2>6, <2>7, <2>8 DEF JudgedSoFar, w
<1>8. CASE ~old /\ ~candidate
  <2>1. w.novel = Append(j.novel, item) /\ w.left = j.left /\ w.duplicates = d
    BY <1>1, <1>8, <1>a
  <2>2. /\ w.novel \in Seq(Item) /\ w.left \in Seq(Item) /\ w.duplicates \in Nat
        /\ Len(w.novel) = n + 1 /\ Len(w.left) = l
    BY <1>2, <1>a, <2>1
  <2>3. Unlike(w.novel)
    BY <1>2, <1>5, <1>8, <1>c, <2>1, AppendUnlike
  <2>4. Apart(w.novel, w.left)
    <3> SUFFICES ASSUME NEW i \in DOMAIN w.novel, NEW m \in DOMAIN j.left, Keyed(w.novel[i])
                 PROVE  w.novel[i].key # j.left[m].key
      BY <2>1 DEF Apart
    <3>1. CASE i \in DOMAIN j.novel /\ w.novel[i] = j.novel[i]
      BY <1>c, <3>1 DEF Apart
    <3>2. CASE w.novel[i] = item
      BY <1>6, <1>8, <1>c, <3>2
    <3> QED BY <1>2, <2>1, <3>1, <3>2, AppendElements
  <2>5. \A i \in DOMAIN w.left : Keyed(w.left[i]) /\ w.left[i].key \in w.seen
    BY <1>c, <2>1
  <2>6. \A i \in DOMAIN w.novel : Keyed(w.novel[i]) => w.novel[i].key \in w.seen /\ w.novel[i].text = Textless
    BY <1>2, <1>3, <1>8, <1>c, <2>1, AppendElements
  <2>7. k + 1 = Len(w.novel) + Len(w.left) + w.duplicates
    BY <1>b, <2>1, <2>2
  <2>8. Unlike(w.left)
    BY <1>c, <2>1
  <2> HIDE DEF old, candidate
  <2> QED BY <2>2, <2>3, <2>4, <2>5, <2>6, <2>7, <2>8 DEF JudgedSoFar, w
<1> QED BY <1>4, <1>7, <1>8 DEF w

\* f is the function by which FoldLeft judges the first n items of a batch.
JudgesUpTo(f, batch, known, n) ==
  f = [S \in SUBSET (1..n) |->
         IF S = {} THEN Unjudged(known) ELSE WithItem(f[S \ {Max(S)}], batch[Max(S)])]

\* There is one, as there is one that gathers.
LEMMA JudgingExists ==
  ASSUME NEW batch \in Seq(Item), NEW known, NEW n \in 0..Len(batch)
  PROVE  \E f : JudgesUpTo(f, batch, known, n)
<1> DEFINE Without == {k \in Nat : k <= Len(batch) /\ ~\E f : JudgesUpTo(f, batch, known, k)}
<1> SUFFICES ASSUME n \in Without PROVE FALSE
  OBVIOUS
<1>1. PICK k \in Without : \A m \in Without : k <= m
  BY LeastNatural
<1>2. k \in Nat /\ k <= Len(batch) /\ ~\E f : JudgesUpTo(f, batch, known, k)
  BY <1>1
<1>3. CASE k = 0
  <2> DEFINE f == [S \in SUBSET (1..0) |-> Unjudged(known)]
  <2>1. \A S \in SUBSET (1..0) : S = {}
    OBVIOUS
  <2>2. JudgesUpTo(f, batch, known, 0)
    BY <2>1 DEF JudgesUpTo
  <2> QED BY <1>2, <1>3, <2>2
<1>4. CASE k > 0
  <2>1. k - 1 \in Nat /\ k - 1 \notin Without
    BY <1>1, <1>2, <1>4
  <2>2. PICK g : JudgesUpTo(g, batch, known, k - 1)
    BY <1>2, <2>1
  <2> DEFINE f == [S \in SUBSET (1..k) |-> IF k \in S THEN WithItem(g[S \ {k}], batch[k]) ELSE g[S]]
  <2>3. \A S \in SUBSET (1..k) : k \notin S => S \in SUBSET (1..(k - 1))
    BY <1>2
  <2>4. ASSUME NEW S \in SUBSET (1..k)
        PROVE  f[S] = IF S = {} THEN Unjudged(known) ELSE WithItem(f[S \ {Max(S)}], batch[Max(S)])
    <3>1. CASE k \in S
      <4>1. Max(S) = k
        BY <1>2, <3>1, GreatestOfInterval
      <4>2. f[S \ {k}] = g[S \ {k}]
        OBVIOUS
      <4> QED BY <3>1, <4>1, <4>2
    <3>2. CASE k \notin S
      <4>1. S \in SUBSET (1..(k - 1)) /\ f[S] = g[S]
        BY <2>3, <3>2
      <4>2. f[S \ {Max(S)}] = g[S \ {Max(S)}]
        BY <3>2
      <4>3. g[S] = IF S = {} THEN Unjudged(known) ELSE WithItem(g[S \ {Max(S)}], batch[Max(S)])
        BY <2>2, <4>1 DEF JudgesUpTo
      <4> QED BY <4>1, <4>2, <4>3
    <3> QED BY <3>1, <3>2
  <2>5. JudgesUpTo(f, batch, known, k)
    <3>1. f = [S \in SUBSET (1..k) |-> f[S]]
      OBVIOUS
    <3> HIDE DEF f
    <3> QED BY <2>4, <3>1 DEF JudgesUpTo
  <2> QED BY <1>2, <2>5
<1> QED BY <1>2, <1>3, <1>4

LEMMA BatchJudged ==
  ASSUME NEW batch \in Seq(Item), NEW known
  PROVE  JudgedSoFar(Judged(batch, known), Len(batch))
<1> DEFINE f == CHOOSE f : JudgesUpTo(f, batch, known, Len(batch))
<1>1. DOMAIN batch = 1..Len(batch) /\ Len(batch) \in Nat
  OBVIOUS
<1>2. JudgesUpTo(f, batch, known, Len(batch))
  <2>1. Len(batch) \in 0..Len(batch)
    BY <1>1
  <2>2. \E g : JudgesUpTo(g, batch, known, Len(batch))
    BY <2>1, JudgingExists
  <2> QED BY <2>2
<1>3. Judged(batch, known) = f[1..Len(batch)]
  BY <1>1 DEF Judged, FoldLeft, MapThenFoldSet, JudgesUpTo
<1> HIDE DEF f
<1> DEFINE Unsound == {k \in 0..Len(batch) : ~JudgedSoFar(f[1..k], k)}
<1> SUFFICES ASSUME Unsound # {} PROVE FALSE
  BY <1>1, <1>3
<1>4. PICK k \in Unsound : \A m \in Unsound : k <= m
  <2>1. Unsound \in SUBSET Nat
    BY <1>1
  <2> HIDE DEF Unsound
  <2> QED BY <2>1, LeastNatural
<1>5. f[{}] = Unjudged(known)
  <2>1. {} \in SUBSET (1..Len(batch))
    OBVIOUS
  <2> QED BY <1>2, <2>1 DEF JudgesUpTo
<1>6. CASE k = 0
  <2>1. 1..0 = {}
    OBVIOUS
  <2>2. JudgedSoFar(Unjudged(known), 0)
    BY DEF JudgedSoFar, Unjudged, Unlike, Apart
  <2> QED BY <1>4, <1>5, <1>6, <2>1, <2>2
<1>7. CASE k # 0
  <2>1. k - 1 \in 0..Len(batch) /\ k \in 1..Len(batch) /\ k - 1 \in Nat
    BY <1>1, <1>7
  <2>2. JudgedSoFar(f[1..(k - 1)], k - 1)
    BY <1>1, <1>4, <2>1
  <2>3. 1..k \in SUBSET (1..Len(batch)) /\ 1..k # {} /\ Max(1..k) = k /\ (1..k) \ {k} = 1..(k - 1)
    <3>1. k \in Nat /\ k >= 1 /\ k <= Len(batch)
      BY <1>1, <2>1
    <3>2. 1..k \in SUBSET (1..Len(batch)) /\ k \in 1..k /\ 1..k \in SUBSET (1..k)
      BY <1>1, <3>1
    <3>3. (1..k) \ {k} = 1..(k - 1)
      BY <3>1
    <3>4. Max(1..k) = k
      BY <3>1, <3>2, GreatestOfInterval
    <3>5. 1..k # {}
      BY <3>2
    <3> QED BY <3>2, <3>3, <3>4, <3>5
  <2>4. f[1..k] = WithItem(f[(1..k) \ {Max(1..k)}], batch[Max(1..k)])
    BY <1>2, <2>3 DEF JudgesUpTo
  <2>5. JudgedSoFar(WithItem(f[1..(k - 1)], batch[k]), k - 1 + 1)
    <3>1. batch[k] \in Item
      BY <2>1
    <3> QED BY <2>1, <2>2, <3>1, WithItemJudged
  <2>6. k - 1 + 1 = k
    BY <2>1
  <2> QED BY <1>4, <2>3, <2>4, <2>5, <2>6
<1> QED BY <1>6, <1>7

-----------------------------------------------------------------------------
(* Manager.Delta.                                                           *)

DeltaFields == {"at", "total", "left", "novel", "duplicates", "held", "heldSteps"}

\* Each item of the batch is counted once, and no key is in two places.
DeltaCounts(d) ==
  /\ DOMAIN d = DeltaFields
  /\ d.left \in Seq(Item) /\ d.novel \in Seq(Item) /\ d.duplicates \in Nat
  /\ d.total = Len(d.novel) + Len(d.left) + d.duplicates
  /\ Unlike(d.novel) /\ Unlike(d.left) /\ Apart(d.novel, d.left)
  /\ \A i \in DOMAIN d.left : Keyed(d.left[i])

\* InWindow, of a day that is named.
Recent(row, today) == DeltaWindow = 0 \/ row.at >= today - DeltaWindow

\* No run of the set that is recent in the table is near the text.
Far(text, table, runs, today) ==
  \A r \in runs : Recent(table[r], today) => Distance(table[r].point, text) > DeltaDistance

HasText(item) == Keyed(item) /\ item.text >= 0

\* An item is told to be new when both tables were compared with it.
DeltaFar(d, table, stepTable, today) ==
  /\ d.held \subseteq Held(table) /\ d.heldSteps \subseteq Held(stepTable)
  /\ \A i \in DOMAIN d.novel :
       HasText(d.novel[i]) =>
         /\ Far(d.novel[i].text, table, d.held, today)
         /\ DeltaWithSteps => Far(d.novel[i].text, stepTable, d.heldSteps, today)

\* Before the items have vectors none that has a text is new; the steps are
\* asked about an item that no run is near.
DeltaStaged(d, table, today) ==
  /\ d.at \in {"embed", "runs", "steps"} => d.left # <<>>
  /\ d.at = "embed" => \A i \in DOMAIN d.novel : ~HasText(d.novel[i])
  /\ d.at = "steps" => Far(d.left[1].text, table, d.held, today)

DeltaSound(d, table, stepTable, today) ==
  DeltaCounts(d) /\ DeltaFar(d, table, stepTable, today) /\ DeltaStaged(d, table, today)

SearchFields == {"at", "kind", "own", "point", "direct", "hits", "stepHits"}

\* No more than the limit, and near by the threshold of the search.
Showing(q, shown) == Cardinality(shown) <= TopK /\ \A x \in shown : Near(q, x)

\* What an attempt has found is shown in the order of its statements.
SearchSound(q) ==
  /\ DOMAIN q = SearchFields /\ q.point \in Nat
  /\ Showing(q, q.hits) /\ Showing(q, q.stepHits)
  /\ q.at \in {"embed", "runs"} => q.hits = {}
  /\ q.at \in {"embed", "runs", "steps"} => q.stepHits = {}
  /\ \A x \in q.hits : q.kind = "hits" => x.run # q.own

VectorTables == [PastRuns -> [point : Nat, at : Nat]]

RecallInv ==
  /\ day \in Nat
  /\ runVectors \in VectorTables /\ stepVectors \in VectorTables
  /\ IsFiniteSet(Held(runVectors)) /\ IsFiniteSet(Held(stepVectors))
  /\ DOMAIN deltas = Askers /\ \A c \in Askers : DeltaSound(deltas[c], runVectors, stepVectors, day)
  /\ DOMAIN searches = Searchers /\ \A s \in Searchers : SearchSound(searches[s])

\* The head of what is left goes to one of the two counts.
LEMMA HeadCounted ==
  ASSUME NEW d, DeltaCounts(d), d.left # <<>>, NEW new \in BOOLEAN,
         NEW e, e = CountedAs(d, new)
  PROVE  /\ DeltaCounts(e)
         /\ e.held = d.held /\ e.heldSteps = d.heldSteps
         /\ e.at \in {"runs", "log"} /\ (e.at = "runs" => e.left # <<>>)
         /\ \A i \in DOMAIN e.novel :
              \/ i \in DOMAIN d.novel /\ e.novel[i] = d.novel[i]
              \/ new /\ e.novel[i] = d.left[1]
<1> DEFINE head == Head(d.left)
           tail == Tail(d.left)
<1>1. /\ DOMAIN e = DeltaFields
      /\ e.held = d.held /\ e.heldSteps = d.heldSteps /\ e.total = d.total
      /\ e.left = tail
      /\ e.novel = IF new THEN Append(d.novel, head) ELSE d.novel
      /\ e.duplicates = IF new THEN d.duplicates ELSE d.duplicates + 1
      /\ e.at = IF Len(d.left) = 1 THEN "log" ELSE "runs"
  <2>1. DOMAIN d = DeltaFields
    BY DEF DeltaCounts
  <2> QED BY <2>1 DEF CountedAs, DeltaFields
<1>2. d.left \in Seq(Item) /\ d.novel \in Seq(Item) /\ d.duplicates \in Nat
  BY DEF DeltaCounts
<1>3. PICK n \in Nat, l \in Nat, c \in Nat :
        Len(d.novel) = n /\ Len(d.left) = l /\ d.duplicates = c /\ d.total = n + l + c
  <2>1. Len(d.novel) \in Nat /\ Len(d.left) \in Nat
    BY <1>2
  <2> QED BY <1>2, <2>1 DEF DeltaCounts
<1>4. l >= 1 /\ l - 1 \in Nat /\ DOMAIN d.left = 1..l
  BY <1>2, <1>3
<1>5. /\ head \in Item /\ head = d.left[1]
      /\ tail \in Seq(Item) /\ Len(tail) = l - 1 /\ DOMAIN tail = 1..(l - 1)
  BY <1>2, <1>3, <1>4
<1>6. \A i \in 1..(l - 1) : tail[i] = d.left[i + 1] /\ i + 1 \in 1..l /\ i + 1 # 1
  BY <1>2, <1>3, <1>4
<1>7. Unlike(d.novel) /\ Unlike(d.left) /\ Apart(d.novel, d.left) /\ \A i \in DOMAIN d.left : Keyed(d.left[i])
  BY DEF DeltaCounts
<1>8. 1 \in 1..l
  BY <1>4
<1> HIDE DEF head, tail
<1>9. \A i \in DOMAIN tail : Keyed(tail[i])
  BY <1>4, <1>5, <1>6, <1>7
<1>10. Unlike(tail)
  <2> SUFFICES ASSUME NEW i \in 1..(l - 1), NEW j \in 1..(l - 1), i # j
               PROVE  ~Keyed(tail[i]) \/ tail[i].key # tail[j].key
    BY <1>5 DEF Unlike
  <2>1. i + 1 # j + 1
    BY <1>4
  <2> QED BY <1>4, <1>6, <1>7, <2>1 DEF Unlike
<1>11. Apart(d.novel, tail)
  BY <1>4, <1>5, <1>6, <1>7 DEF Apart
<1>12. \A i \in DOMAIN tail : tail[i].key # head.key
  <2> SUFFICES ASSUME NEW i \in 1..(l - 1) PROVE tail[i].key # head.key
    BY <1>5
  <2>1. tail[i] = d.left[i + 1] /\ i + 1 \in 1..l /\ i + 1 # 1 /\ head = d.left[1]
    BY <1>5, <1>6
  <2>2. Keyed(d.left[1])
    BY <1>4, <1>7, <1>8
  <2> QED BY <1>4, <1>7, <1>8, <2>1, <2>2 DEF Unlike
<1>13. e.at \in {"runs", "log"} /\ (e.at = "runs" => e.left # <<>>)
  <2>1. l # 1 => Len(tail) # 0
    BY <1>4, <1>5
  <2>2. l # 1 => tail # <<>>
    BY <1>5, <2>1
  <2> QED BY <1>1, <1>3, <2>2
<1>14. CASE new
  <2>1. /\ e.novel = Append(d.novel, head) /\ e.left = tail /\ e.duplicates = c
        /\ e.total = n + l + c
    BY <1>1, <1>3, <1>14
  <2>2. /\ e.novel \in Seq(Item) /\ e.left \in Seq(Item) /\ e.duplicates \in Nat
        /\ Len(e.novel) = n + 1 /\ Len(e.left) = l - 1
    BY <1>2, <1>3, <1>5, <2>1
  <2>3. e.total = Len(e.novel) + Len(e.left) + e.duplicates
    <3>1. n + l + c = (n + 1) + (l - 1) + c
      BY <1>4
    <3> QED BY <2>1, <2>2, <3>1
  <2>4. \A i \in DOMAIN d.novel : ~Keyed(d.novel[i]) \/ d.novel[i].key # head.key
    BY <1>4, <1>5, <1>7, <1>8 DEF Apart
  <2>5. Unlike(e.novel)
    BY <1>2, <1>5, <1>7, <2>1, <2>4, AppendUnlike
  <2>6. \A i \in DOMAIN e.novel : (i \in DOMAIN d.novel /\ e.novel[i] = d.novel[i]) \/ e.novel[i] = head
    BY <1>2, <1>5, <2>1, AppendElements
  <2>7. Apart(e.novel, e.left)
    <3> SUFFICES ASSUME NEW i \in DOMAIN e.novel, NEW j \in DOMAIN tail, Keyed(e.novel[i])
                 PROVE  e.novel[i].key # tail[j].key
      BY <2>1 DEF Apart
    <3>1. CASE i \in DOMAIN d.novel /\ e.novel[i] = d.novel[i]
      BY <1>11, <3>1 DEF Apart
    <3>2. CASE e.novel[i] = head
      BY <1>12, <3>2
    <3> QED BY <2>6, <3>1, <3>2
  <2>8. DeltaCounts(e)
    <3>1. Unlike(e.left) /\ \A i \in DOMAIN e.left : Keyed(e.left[i])
      BY <1>9, <1>10, <2>1
    <3> QED BY <1>1, <2>2, <2>3, <2>5, <2>7, <3>1 DEF DeltaCounts
  <2> QED BY <1>1, <1>5, <1>13, <1>14, <2>6, <2>8
<1>15. CASE ~new
  <2>1. /\ e.novel = d.novel /\ e.left = tail /\ e.duplicates = c + 1
        /\ e.total = n + l + c
    BY <1>1, <1>3, <1>15
  <2>2. /\ e.novel \in Seq(Item) /\ e.left \in Seq(Item) /\ e.duplicates \in Nat
        /\ Len(e.novel) = n /\ Len(e.left) = l - 1
    BY <1>2, <1>3, <1>5, <2>1
  <2>3. e.total = Len(e.novel) + Len(e.left) + e.duplicates
    <3>1. n + l + c = n + (l - 1) + (c + 1)
      BY <1>4
    <3> QED BY <2>1, <2>2, <3>1
  <2>4. DeltaCounts(e)
    <3>1. /\ Unlike(e.left) /\ Unlike(e.novel) /\ Apart(e.novel, e.left)
          /\ \A i \in DOMAIN e.left : Keyed(e.left[i])
      BY <1>7, <1>9, <1>10, <1>11, <2>1
    <3> QED BY <1>1, <2>2, <2>3, <3>1 DEF DeltaCounts
  <2> QED BY <1>1, <1>13, <2>1, <2>4
<1> QED BY <1>14, <1>15

LEMMA DeltaDistanceInt == DeltaDistance \in Int
  <1>1. Thresholds["delta"] \in Int /\ Thresholds["search"] \in Int
    BY RecallAssumption
  <1> QED BY <1>1 DEF DeltaDistance

\* Where no run of the table is similar, none is near.
LEMMA NotSimilar ==
  ASSUME NEW table \in VectorTables, NEW text \in Int, ~Similar(table, text),
         NEW runs \in SUBSET Held(table)
  PROVE  Far(text, table, runs, day)
<1> SUFFICES ASSUME NEW r \in runs, Recent(table[r], day)
             PROVE  Distance(table[r].point, text) > DeltaDistance
  BY DEF Far
<1>1. r \in Held(table) /\ r \in PastRuns
  BY DEF Held
<1>2. table[r].point \in Nat
  BY <1>1 DEF VectorTables
<1>3. Distance(table[r].point, text) \in Int
  BY <1>2 DEF Distance
<1>4. ~(Distance(table[r].point, text) <= DeltaDistance)
  BY <1>1 DEF Similar, InWindow, Recent
<1> QED BY <1>3, <1>4, DeltaDistanceInt

\* An item that is counted, and what it was compared with.
LEMMA CountedSound ==
  ASSUME NEW d, NEW table, NEW stepTable, NEW today, DeltaSound(d, table, stepTable, today),
         d.left # <<>>, NEW new \in BOOLEAN, d.at # "embed",
         new /\ HasText(d.left[1]) =>
           /\ Far(d.left[1].text, table, d.held, today)
           /\ DeltaWithSteps => Far(d.left[1].text, stepTable, d.heldSteps, today)
  PROVE  DeltaSound(CountedAs(d, new), table, stepTable, today)
<1> DEFINE e == CountedAs(d, new)
<1>1. DeltaCounts(d)
  BY DEF DeltaSound
<1>2. /\ DeltaCounts(e)
      /\ e.held = d.held /\ e.heldSteps = d.heldSteps
      /\ e.at \in {"runs", "log"} /\ (e.at = "runs" => e.left # <<>>)
      /\ \A i \in DOMAIN e.novel :
           \/ i \in DOMAIN d.novel /\ e.novel[i] = d.novel[i]
           \/ new /\ e.novel[i] = d.left[1]
  BY <1>1, HeadCounted
<1> HIDE DEF e
<1>3. DeltaFar(e, table, stepTable, today)
  BY <1>2 DEF DeltaSound, DeltaFar
<1>4. DeltaStaged(e, table, today)
  BY <1>2 DEF DeltaStaged
<1> QED BY <1>2, <1>3, <1>4 DEF DeltaSound, e

-----------------------------------------------------------------------------
(* The searches.                                                            *)

LEMMA NoneShown == ASSUME NEW q PROVE Showing(q, {})
  BY FS_EmptySet, RecallAssumption DEF Showing

\* What the LIMIT left and the threshold lets pass.
LEMMA NearestShown ==
  ASSUME NEW q, NEW table, IsFiniteSet(Held(table)), NEW h \in Nearest(Rows(table, q.point)),
         NEW shown \in SUBSET h, \A x \in shown : Near(q, x)
  PROVE  Showing(q, shown)
<1> DEFINE rows == Rows(table, q.point)
<1>1. IsFiniteSet(rows)
  <2> DEFINE f == [r \in Held(table) |-> [run |-> r, distance |-> Distance(table[r].point, q.point)]]
  <2>1. f \in Surjection(Held(table), rows)
    BY DEF Rows, Surjection
  <2> QED BY <2>1, FS_Surjection
<1>2. h \subseteq rows /\ Cardinality(h) <= TopK
  BY DEF Nearest
<1>3. IsFiniteSet(h) /\ Cardinality(h) \in Nat /\ TopK \in Nat
  BY <1>1, <1>2, FS_Subset, FS_CardinalityType, RecallAssumption
<1>4. Cardinality(shown) \in Nat /\ Cardinality(shown) <= Cardinality(h)
  BY <1>3, FS_Subset, FS_CardinalityType
<1>5. Cardinality(shown) <= TopK
  BY <1>2, <1>3, <1>4
<1> QED BY <1>5 DEF Showing

\* A search whose call failed, or that showed nothing, starts again or is over.
LEMMA UnansweredSound ==
  ASSUME NEW q, DOMAIN q = SearchFields, q.point \in Nat, q.stepHits = {}
  PROVE  SearchSound(Unanswered(q))
<1> DEFINE u == Unanswered(q)
<1>1. /\ DOMAIN u = SearchFields /\ u.point \in Nat /\ u.at \in {"embed", "over"}
      /\ u.hits = {} /\ u.stepHits = {}
  BY DEF Unanswered, SearchFields
<1> HIDE DEF u
<1>2. SearchSound(u)
  BY <1>1, NoneShown DEF SearchSound
<1> QED BY <1>2 DEF u

-----------------------------------------------------------------------------
(* The invariant of both.                                                   *)

\* No request, and one that failed.
LEMMA NoDeltaSound ==
  ASSUME NEW table, NEW stepTable, NEW today
  PROVE  DeltaSound(NoDelta, table, stepTable, today)
<1> DEFINE d == NoDelta
<1>1. /\ DOMAIN d = DeltaFields /\ d.at = "rest" /\ d.total = 0 /\ d.left = <<>> /\ d.novel = <<>>
      /\ d.duplicates = 0 /\ d.held = {} /\ d.heldSteps = {}
  BY DEF NoDelta, DeltaFields
<1> HIDE DEF d
<1>2. DeltaCounts(d)
  <2>1. Len(d.novel) = 0 /\ Len(d.left) = 0 /\ DOMAIN d.novel = {} /\ DOMAIN d.left = {}
    BY <1>1
  <2>2. d.left \in Seq(Item) /\ d.novel \in Seq(Item)
    BY <1>1
  <2> QED BY <1>1, <2>1, <2>2 DEF DeltaCounts, Unlike, Apart
<1>3. DeltaFar(d, table, stepTable, today) /\ DeltaStaged(d, table, today)
  BY <1>1 DEF DeltaFar, DeltaStaged
<1> QED BY <1>2, <1>3 DEF DeltaSound, d

LEMMA RecallStart == RecallInit => RecallInv
<1> SUFFICES ASSUME RecallInit PROVE RecallInv
  OBVIOUS
<1> USE DEF RecallInit
<1>1. day \in Nat /\ runVectors \in VectorTables /\ stepVectors \in VectorTables
  BY DEF VectorTables, NoVector
<1>2. Held(runVectors) = {} /\ Held(stepVectors) = {}
  BY DEF Held
<1>3. ASSUME NEW c \in Askers PROVE DeltaSound(deltas[c], runVectors, stepVectors, day)
  BY NoDeltaSound
<1>4. ASSUME NEW s \in Searchers PROVE SearchSound(searches[s])
  BY NoneShown DEF SearchSound, NoSearch, SearchFields
<1>5. DOMAIN deltas = Askers /\ DOMAIN searches = Searchers
  OBVIOUS
<1>6. IsFiniteSet(Held(runVectors)) /\ IsFiniteSet(Held(stepVectors))
  BY <1>2, FS_EmptySet
<1> HIDE DEF RecallInit
<1> QED BY <1>1, <1>3, <1>4, <1>5, <1>6 DEF RecallInv

\* One request, or one search, moves.
LEMMA DeltaMoves ==
  ASSUME RecallInv, NEW c \in Askers, NEW e, DeltaSound(e, runVectors, stepVectors, day),
         deltas' = [deltas EXCEPT ![c] = e], UNCHANGED <<day, runVectors, stepVectors, searches>>
  PROVE  RecallInv'
<1>1. DOMAIN deltas' = Askers /\ \A b \in Askers : deltas'[b] = IF b = c THEN e ELSE deltas[b]
  BY DEF RecallInv
<1>2. \A b \in Askers : DeltaSound(deltas'[b], runVectors, stepVectors, day)
  BY <1>1 DEF RecallInv
<1> QED BY <1>1, <1>2 DEF RecallInv

LEMMA SearchMoves ==
  ASSUME RecallInv, NEW s \in Searchers, NEW q, SearchSound(q),
         searches' = [searches EXCEPT ![s] = q], UNCHANGED <<day, runVectors, stepVectors, deltas>>
  PROVE  RecallInv'
<1>1. DOMAIN searches' = Searchers /\ \A t \in Searchers : searches'[t] = IF t = s THEN q ELSE searches[t]
  BY DEF RecallInv
<1>2. \A t \in Searchers : SearchSound(searches'[t])
  BY <1>1 DEF RecallInv
<1> QED BY <1>1, <1>2 DEF RecallInv

\* A request whose batch is judged.
LEMMA AskDeltaKeeps == ASSUME RecallInv, NEW c \in Askers, AskDelta(c) PROVE RecallInv'
<1>1. PICK batch \in Batches, known \in KnownIDs :
        deltas' = [deltas EXCEPT ![c] =
          [NoDelta EXCEPT !.at = IF Judged(batch, known).left = <<>> THEN "log" ELSE "embed",
                          !.total = Len(batch), !.novel = Judged(batch, known).novel,
                          !.left = Judged(batch, known).left,
                          !.duplicates = Judged(batch, known).duplicates]]
  BY DEF AskDelta
<1> DEFINE j == Judged(batch, known)
           e == [NoDelta EXCEPT !.at = IF j.left = <<>> THEN "log" ELSE "embed", !.total = Len(batch),
                                !.novel = j.novel, !.left = j.left, !.duplicates = j.duplicates]
<1>2. JudgedSoFar(j, Len(batch))
  BY BatchItems, BatchJudged
<1>3. deltas' = [deltas EXCEPT ![c] = e]
  BY <1>1
<1> HIDE DEF j
<1>4. /\ DOMAIN e = DeltaFields /\ e.at = (IF j.left = <<>> THEN "log" ELSE "embed")
      /\ e.total = Len(batch) /\ e.novel = j.novel /\ e.left = j.left /\ e.duplicates = j.duplicates
      /\ e.held = {} /\ e.heldSteps = {}
  BY DEF NoDelta, DeltaFields
<1> HIDE DEF e
<1>5. DeltaCounts(e)
  BY <1>2, <1>4 DEF JudgedSoFar, DeltaCounts
<1>6. DeltaFar(e, runVectors, stepVectors, day)
  BY <1>4 DEF DeltaFar, Far
<1>7. DeltaStaged(e, runVectors, day)
  <2>1. \A i \in DOMAIN e.novel : ~HasText(e.novel[i])
    <3>1. \A i \in DOMAIN j.novel : Keyed(j.novel[i]) => j.novel[i].text = Textless
      BY <1>2 DEF JudgedSoFar
    <3> QED BY <1>4, <3>1 DEF HasText, Textless
  <2> QED BY <1>4, <2>1 DEF DeltaStaged
<1>8. UNCHANGED <<day, runVectors, stepVectors, searches>>
  BY DEF AskDelta
<1> QED BY <1>3, <1>5, <1>6, <1>7, <1>8, DeltaMoves DEF DeltaSound

LEMMA EmbedItemsKeeps == ASSUME RecallInv, NEW c \in Askers, EmbedItems(c) PROVE RecallInv'
<1> DEFINE d == deltas[c]
           e == [d EXCEPT !.at = "runs", !.held = Held(runVectors), !.heldSteps = Held(stepVectors)]
<1>1. DeltaSound(d, runVectors, stepVectors, day) /\ d.at = "embed"
  BY DEF RecallInv, EmbedItems
<1>2. DOMAIN d = DeltaFields
  BY <1>1 DEF DeltaSound, DeltaCounts
<1>3. UNCHANGED <<day, runVectors, stepVectors, searches>>
  BY DEF EmbedItems
<1>4. deltas' = [deltas EXCEPT ![c] = e] \/ deltas' = [deltas EXCEPT ![c] = NoDelta]
  BY DEF EmbedItems
<1> HIDE DEF d
<1>5. /\ DOMAIN e = DeltaFields /\ e.at = "runs" /\ e.held = Held(runVectors) /\ e.heldSteps = Held(stepVectors)
      /\ e.total = d.total /\ e.novel = d.novel /\ e.left = d.left /\ e.duplicates = d.duplicates
  BY <1>2 DEF DeltaFields
<1> HIDE DEF e
<1>6. DeltaCounts(e)
  BY <1>1, <1>5 DEF DeltaSound, DeltaCounts
<1>7. DeltaFar(e, runVectors, stepVectors, day)
  BY <1>1, <1>5 DEF DeltaSound, DeltaStaged, DeltaFar
<1>8. DeltaStaged(e, runVectors, day)
  BY <1>1, <1>5 DEF DeltaSound, DeltaStaged
<1>9. DeltaSound(e, runVectors, stepVectors, day)
  BY <1>6, <1>7, <1>8 DEF DeltaSound
<1> QED BY <1>3, <1>4, <1>9, DeltaMoves, NoDeltaSound

\* The head of what is left.
LEMMA HeadLeft ==
  ASSUME RecallInv, NEW c \in Askers, deltas[c].at \in {"runs", "steps"}
  PROVE  /\ DeltaSound(deltas[c], runVectors, stepVectors, day)
         /\ deltas[c].left # <<>> /\ Head(deltas[c].left) = deltas[c].left[1]
         /\ deltas[c].left[1].text \in Int
<1>1. DeltaSound(deltas[c], runVectors, stepVectors, day)
  BY DEF RecallInv
<1>2. deltas[c].left # <<>> /\ deltas[c].left \in Seq(Item)
  BY <1>1 DEF DeltaSound, DeltaCounts, DeltaStaged
<1>3. Head(deltas[c].left) = deltas[c].left[1] /\ deltas[c].left[1] \in Item
  BY <1>2
<1>4. deltas[c].left[1].text \in Int
  BY <1>3, ItemText DEF Textless, Vectorless
<1> QED BY <1>1, <1>2, <1>3, <1>4

LEMMA MatchRunsKeeps == ASSUME RecallInv, NEW c \in Askers, MatchRuns(c) PROVE RecallInv'
<1> DEFINE d == deltas[c]
           text == d.left[1].text
<1>1. d.at = "runs" /\ UNCHANGED <<day, runVectors, stepVectors, searches>>
  BY DEF MatchRuns
<1>2. /\ DeltaSound(d, runVectors, stepVectors, day)
      /\ d.left # <<>> /\ Head(d.left) = d.left[1] /\ text \in Int
  BY <1>1, HeadLeft
<1>3. \/ text = Vectorless /\ deltas' = [deltas EXCEPT ![c] = CountedAs(d, TRUE)]
      \/ deltas' = [deltas EXCEPT ![c] = NoDelta]
      \/ deltas' = [deltas EXCEPT ![c] = AfterRuns(d, Similar(runVectors, text))]
  BY <1>2 DEF MatchRuns
<1>4. runVectors \in VectorTables /\ d.held \in SUBSET Held(runVectors)
  BY <1>2 DEF RecallInv, DeltaSound, DeltaFar
<1>5. ~Similar(runVectors, text) => Far(text, runVectors, d.held, day)
  BY <1>2, <1>4, NotSimilar
<1> HIDE DEF d, text
<1>6. CASE text = Vectorless /\ deltas' = [deltas EXCEPT ![c] = CountedAs(d, TRUE)]
  <2>1. ~HasText(d.left[1])
    BY <1>6 DEF HasText, Vectorless, text
  <2>2. DeltaSound(CountedAs(d, TRUE), runVectors, stepVectors, day)
    BY <1>1, <1>2, <2>1, CountedSound
  <2> QED BY <1>1, <1>6, <2>2, DeltaMoves
<1>7. CASE deltas' = [deltas EXCEPT ![c] = NoDelta]
  BY <1>1, <1>7, DeltaMoves, NoDeltaSound
<1>8. CASE deltas' = [deltas EXCEPT ![c] = AfterRuns(d, Similar(runVectors, text))]
  <2>1. CASE ~Similar(runVectors, text) /\ DeltaWithSteps
    <3> DEFINE e == [d EXCEPT !.at = "steps"]
    <3>1. deltas' = [deltas EXCEPT ![c] = e]
      BY <1>8, <2>1 DEF AfterRuns
    <3>2. DOMAIN d = DeltaFields
      BY <1>2 DEF DeltaSound, DeltaCounts
    <3>3. /\ DOMAIN e = DeltaFields /\ e.at = "steps" /\ e.held = d.held /\ e.heldSteps = d.heldSteps
          /\ e.total = d.total /\ e.novel = d.novel /\ e.left = d.left /\ e.duplicates = d.duplicates
      BY <3>2 DEF DeltaFields
    <3> HIDE DEF e
    <3>4. DeltaCounts(e)
      BY <1>2, <3>3 DEF DeltaSound, DeltaCounts
    <3>5. DeltaFar(e, runVectors, stepVectors, day)
      BY <1>2, <3>3 DEF DeltaSound, DeltaFar
    <3>6. DeltaStaged(e, runVectors, day)
      BY <1>2, <1>5, <2>1, <3>3 DEF DeltaStaged, text
    <3>7. DeltaSound(e, runVectors, stepVectors, day)
      BY <3>4, <3>5, <3>6 DEF DeltaSound
    <3> QED BY <1>1, <3>1, <3>7, DeltaMoves
  <2>2. CASE ~(~Similar(runVectors, text) /\ DeltaWithSteps)
    <3> DEFINE new == ~Similar(runVectors, text)
    <3>1. deltas' = [deltas EXCEPT ![c] = CountedAs(d, new)]
      BY <1>8, <2>2 DEF AfterRuns
    <3>2. new \in BOOLEAN /\ (new => Far(d.left[1].text, runVectors, d.held, day) /\ ~DeltaWithSteps)
      BY <1>5, <2>2 DEF text
    <3> HIDE DEF new
    <3>3. DeltaSound(CountedAs(d, new), runVectors, stepVectors, day)
      BY <1>1, <1>2, <3>2, CountedSound
    <3> QED BY <1>1, <3>1, <3>3, DeltaMoves
  <2> QED BY <2>1, <2>2
<1> QED BY <1>3, <1>6, <1>7, <1>8

LEMMA MatchStepsKeeps == ASSUME RecallInv, NEW c \in Askers, MatchSteps(c) PROVE RecallInv'
<1> DEFINE d == deltas[c]
           text == d.left[1].text
           new == ~Similar(stepVectors, text)
<1>1. d.at = "steps" /\ UNCHANGED <<day, runVectors, stepVectors, searches>>
  BY DEF MatchSteps
<1>2. /\ DeltaSound(d, runVectors, stepVectors, day)
      /\ d.left # <<>> /\ Head(d.left) = d.left[1] /\ text \in Int
  BY <1>1, HeadLeft
<1>3. deltas' = [deltas EXCEPT ![c] = NoDelta] \/ deltas' = [deltas EXCEPT ![c] = CountedAs(d, new)]
  BY <1>2 DEF MatchSteps
<1>4. stepVectors \in VectorTables /\ d.heldSteps \in SUBSET Held(stepVectors)
  BY <1>2 DEF RecallInv, DeltaSound, DeltaFar
<1>5. new \in BOOLEAN /\ (new => Far(text, stepVectors, d.heldSteps, day))
  BY <1>2, <1>4, NotSimilar
<1>6. Far(text, runVectors, d.held, day)
  BY <1>1, <1>2 DEF DeltaSound, DeltaStaged
<1> HIDE DEF d, text, new
<1>7. DeltaSound(CountedAs(d, new), runVectors, stepVectors, day)
  BY <1>1, <1>2, <1>5, <1>6, CountedSound DEF text
<1> QED BY <1>1, <1>3, <1>7, DeltaMoves, NoDeltaSound

LEMMA LogDeltaKeeps == ASSUME RecallInv, NEW c \in Askers, LogDelta(c) PROVE RecallInv'
<1> DEFINE d == deltas[c]
           e == [d EXCEPT !.at = "over"]
<1>1. DeltaSound(d, runVectors, stepVectors, day)
  BY DEF RecallInv
<1>2. deltas' = [deltas EXCEPT ![c] = e] /\ UNCHANGED <<day, runVectors, stepVectors, searches>>
  BY DEF LogDelta
<1>3. DOMAIN d = DeltaFields
  BY <1>1 DEF DeltaSound, DeltaCounts
<1> HIDE DEF d
<1>4. /\ DOMAIN e = DeltaFields /\ e.at = "over" /\ e.held = d.held /\ e.heldSteps = d.heldSteps
      /\ e.total = d.total /\ e.novel = d.novel /\ e.left = d.left /\ e.duplicates = d.duplicates
  BY <1>3 DEF DeltaFields
<1> HIDE DEF e
<1>5. DeltaCounts(e) /\ DeltaFar(e, runVectors, stepVectors, day) /\ DeltaStaged(e, runVectors, day)
  <2>1. DeltaCounts(e)
    BY <1>1, <1>4 DEF DeltaSound, DeltaCounts
  <2>2. DeltaFar(e, runVectors, stepVectors, day)
    BY <1>1, <1>4 DEF DeltaSound, DeltaFar
  <2>3. DeltaStaged(e, runVectors, day)
    BY <1>4 DEF DeltaStaged
  <2> QED BY <2>1, <2>2, <2>3
<1> QED BY <1>2, <1>5, DeltaMoves DEF DeltaSound

LEMMA Earlier == \A embedded, today, later, width \in Nat :
                   later >= today /\ embedded >= later - width => embedded >= today - width
  OBVIOUS

\* The tables, the day and what requests hold move, the rest of a request does not.
LEMMA TablesMove ==
  ASSUME RecallInv, NEW gone \in SUBSET PastRuns, NEW goneSteps \in SUBSET PastRuns,
         day' \in Nat, day' >= day, runVectors' \in VectorTables, stepVectors' \in VectorTables,
         \A r \in PastRuns \ gone : runVectors'[r] = runVectors[r],
         \A r \in PastRuns \ goneSteps : stepVectors'[r] = stepVectors[r],
         IsFiniteSet(Held(runVectors')), IsFiniteSet(Held(stepVectors')),
         DOMAIN deltas' = Askers, searches' = searches,
         \A c \in Askers :
           /\ DOMAIN deltas'[c] = DeltaFields
           /\ deltas'[c].at = deltas[c].at /\ deltas'[c].total = deltas[c].total
           /\ deltas'[c].novel = deltas[c].novel /\ deltas'[c].left = deltas[c].left
           /\ deltas'[c].duplicates = deltas[c].duplicates
           /\ deltas'[c].held = deltas[c].held \ gone
           /\ deltas'[c].heldSteps = deltas[c].heldSteps \ goneSteps
  PROVE  RecallInv'
<1>1. \A table \in VectorTables : \A r \in PastRuns : table[r].at \in Nat
  BY DEF VectorTables
<1>2. day \in Nat /\ runVectors \in VectorTables /\ stepVectors \in VectorTables
  BY DEF RecallInv
<1>3. \A table \in VectorTables : \A r \in PastRuns : Recent(table[r], day') => Recent(table[r], day)
  <2> SUFFICES ASSUME NEW table \in VectorTables, NEW r \in PastRuns, Recent(table[r], day')
               PROVE  Recent(table[r], day)
    OBVIOUS
  <2>1. table[r].at \in Nat /\ DeltaWindow \in Nat
    BY <1>1, RecallAssumption
  <2>2. table[r].at >= day' - DeltaWindow => table[r].at >= day - DeltaWindow
    BY <1>2, <2>1, Earlier
  <2> QED BY <2>2 DEF Recent
<1>4. ASSUME NEW c \in Askers PROVE DeltaSound(deltas'[c], runVectors', stepVectors', day')
  <2> DEFINE d == deltas[c]
             e == deltas'[c]
  <2>1. DeltaCounts(d) /\ DeltaFar(d, runVectors, stepVectors, day) /\ DeltaStaged(d, runVectors, day)
    BY DEF RecallInv, DeltaSound
  <2>2. /\ DOMAIN e = DeltaFields
        /\ e.at = d.at /\ e.total = d.total /\ e.novel = d.novel /\ e.left = d.left
        /\ e.duplicates = d.duplicates
        /\ e.held = d.held \ gone /\ e.heldSteps = d.heldSteps \ goneSteps
    OBVIOUS
  <2> HIDE DEF d, e
  <2>3. d.held \subseteq Held(runVectors) /\ d.heldSteps \subseteq Held(stepVectors)
    BY <2>1 DEF DeltaFar
  <2>4. e.held \in SUBSET d.held /\ e.heldSteps \in SUBSET d.heldSteps
    BY <2>2
  <2>5. \A r \in e.held : r \in PastRuns /\ runVectors'[r] = runVectors[r]
    BY <2>2, <2>3 DEF Held
  <2>6. \A r \in e.heldSteps : r \in PastRuns /\ stepVectors'[r] = stepVectors[r]
    BY <2>2, <2>3 DEF Held
  <2>7. \A r \in e.held : Recent(runVectors[r], day') => Recent(runVectors[r], day)
    BY <1>2, <1>3, <2>5
  <2>8. \A r \in e.heldSteps : Recent(stepVectors[r], day') => Recent(stepVectors[r], day)
    BY <1>2, <1>3, <2>6
  <2>9. ASSUME NEW text, Far(text, runVectors, d.held, day)
        PROVE  Far(text, runVectors', e.held, day')
    BY <2>4, <2>5, <2>7, <2>9 DEF Far
  <2>10. ASSUME NEW text, Far(text, stepVectors, d.heldSteps, day)
         PROVE  Far(text, stepVectors', e.heldSteps, day')
    BY <2>4, <2>6, <2>8, <2>10 DEF Far
  <2>11. DeltaCounts(e)
    BY <2>1, <2>2 DEF DeltaCounts
  <2>12. e.held \subseteq Held(runVectors') /\ e.heldSteps \subseteq Held(stepVectors')
    BY <2>3, <2>4, <2>5, <2>6 DEF Held
  <2>13. DeltaFar(e, runVectors', stepVectors', day')
    BY <2>1, <2>2, <2>9, <2>10, <2>12 DEF DeltaFar
  <2>14. DeltaStaged(e, runVectors', day')
    BY <2>1, <2>2, <2>9 DEF DeltaStaged
  <2> QED BY <2>11, <2>13, <2>14 DEF DeltaSound, e
<1>5. DOMAIN searches' = Searchers /\ \A s \in Searchers : SearchSound(searches'[s])
  BY DEF RecallInv
<1> QED BY <1>4, <1>5 DEF RecallInv

LEMMA PassDayKeeps == ASSUME RecallInv, PassDay PROVE RecallInv'
<1>1. /\ day' = day + 1 /\ runVectors' = runVectors /\ stepVectors' = stepVectors
      /\ deltas' = deltas /\ searches' = searches
  BY DEF PassDay
<1>2. /\ day \in Nat /\ runVectors \in VectorTables /\ stepVectors \in VectorTables
      /\ IsFiniteSet(Held(runVectors)) /\ IsFiniteSet(Held(stepVectors)) /\ DOMAIN deltas = Askers
  BY DEF RecallInv
<1>3. \A c \in Askers : DOMAIN deltas[c] = DeltaFields
  BY DEF RecallInv, DeltaSound, DeltaCounts
<1>4. day' \in Nat /\ day' >= day
  BY <1>1, <1>2
<1>5. {} \in SUBSET PastRuns /\ \A c \in Askers : /\ deltas[c].held = deltas[c].held \ {}
                                                   /\ deltas[c].heldSteps = deltas[c].heldSteps \ {}
  OBVIOUS
<1> QED BY <1>1, <1>2, <1>3, <1>4, <1>5, TablesMove

\* One more row at most.
LEMMA HeldOneMore ==
  ASSUME NEW table, IsFiniteSet(Held(table)), NEW r \in PastRuns, NEW row
  PROVE  IsFiniteSet(Held([table EXCEPT ![r] = row]))
<1>1. IsFiniteSet(Held(table) \cup {r})
  BY FS_AddElement
<1>2. Held([table EXCEPT ![r] = row]) \subseteq Held(table) \cup {r}
  BY DEF Held
<1> QED BY <1>1, <1>2, FS_Subset

LEMMA EmbedRunKeeps == ASSUME RecallInv, NEW r \in PastRuns, EmbedRun(r) PROVE RecallInv'
<1>1. PICK p \in Points :
        /\ runVectors' = [runVectors EXCEPT ![r] = [point |-> p, at |-> day]]
        /\ deltas' = [c \in Askers |-> [deltas[c] EXCEPT !.held = @ \ {r}]]
        /\ UNCHANGED <<day, stepVectors, deltaEvents, searches, mishaps>>
  BY DEF EmbedRun
<1>2. /\ day \in Nat /\ runVectors \in VectorTables /\ stepVectors \in VectorTables
      /\ IsFiniteSet(Held(runVectors)) /\ IsFiniteSet(Held(stepVectors))
  BY DEF RecallInv
<1>3. \A c \in Askers : DOMAIN deltas[c] = DeltaFields
  BY DEF RecallInv, DeltaSound, DeltaCounts
<1>4. p \in Nat
  BY RecallAssumption
<1>5. runVectors' \in VectorTables /\ stepVectors' \in VectorTables
  BY <1>1, <1>2, <1>4 DEF VectorTables
<1>6. IsFiniteSet(Held(runVectors')) /\ IsFiniteSet(Held(stepVectors'))
  BY <1>1, <1>2, HeldOneMore
<1>7. /\ \A b \in PastRuns \ {r} : runVectors'[b] = runVectors[b]
      /\ \A b \in PastRuns \ {} : stepVectors'[b] = stepVectors[b]
  BY <1>1, <1>2 DEF VectorTables
<1>8. ASSUME NEW c \in Askers
      PROVE  /\ DOMAIN deltas'[c] = DeltaFields
             /\ deltas'[c].at = deltas[c].at /\ deltas'[c].total = deltas[c].total
             /\ deltas'[c].novel = deltas[c].novel /\ deltas'[c].left = deltas[c].left
             /\ deltas'[c].duplicates = deltas[c].duplicates
             /\ deltas'[c].held = deltas[c].held \ {r}
             /\ deltas'[c].heldSteps = deltas[c].heldSteps \ {}
  <2>1. deltas'[c] = [deltas[c] EXCEPT !.held = @ \ {r}]
    BY <1>1
  <2> QED BY <1>3, <2>1 DEF DeltaFields
<1>9. DOMAIN deltas' = Askers /\ searches' = searches /\ day' \in Nat /\ day' >= day
  BY <1>1, <1>2
<1>10. {r} \in SUBSET PastRuns /\ {} \in SUBSET PastRuns
  OBVIOUS
<1> QED BY <1>5, <1>6, <1>7, <1>8, <1>9, <1>10, TablesMove

LEMMA EmbedPlanKeeps == ASSUME RecallInv, NEW r \in PastRuns, EmbedPlan(r) PROVE RecallInv'
<1>1. PICK p \in Points :
        /\ stepVectors' = [stepVectors EXCEPT ![r] = [point |-> p, at |-> day]]
        /\ deltas' = [c \in Askers |-> [deltas[c] EXCEPT !.heldSteps = @ \ {r}]]
        /\ UNCHANGED <<day, runVectors, deltaEvents, searches, mishaps>>
  BY DEF EmbedPlan
<1>2. /\ day \in Nat /\ runVectors \in VectorTables /\ stepVectors \in VectorTables
      /\ IsFiniteSet(Held(runVectors)) /\ IsFiniteSet(Held(stepVectors))
  BY DEF RecallInv
<1>3. \A c \in Askers : DOMAIN deltas[c] = DeltaFields
  BY DEF RecallInv, DeltaSound, DeltaCounts
<1>4. p \in Nat
  BY RecallAssumption
<1>5. runVectors' \in VectorTables /\ stepVectors' \in VectorTables
  BY <1>1, <1>2, <1>4 DEF VectorTables
<1>6. IsFiniteSet(Held(runVectors')) /\ IsFiniteSet(Held(stepVectors'))
  BY <1>1, <1>2, HeldOneMore
<1>7. /\ \A b \in PastRuns \ {} : runVectors'[b] = runVectors[b]
      /\ \A b \in PastRuns \ {r} : stepVectors'[b] = stepVectors[b]
  BY <1>1, <1>2 DEF VectorTables
<1>8. ASSUME NEW c \in Askers
      PROVE  /\ DOMAIN deltas'[c] = DeltaFields
             /\ deltas'[c].at = deltas[c].at /\ deltas'[c].total = deltas[c].total
             /\ deltas'[c].novel = deltas[c].novel /\ deltas'[c].left = deltas[c].left
             /\ deltas'[c].duplicates = deltas[c].duplicates
             /\ deltas'[c].held = deltas[c].held \ {}
             /\ deltas'[c].heldSteps = deltas[c].heldSteps \ {r}
  <2>1. deltas'[c] = [deltas[c] EXCEPT !.heldSteps = @ \ {r}]
    BY <1>1
  <2> QED BY <1>3, <2>1 DEF DeltaFields
<1>9. DOMAIN deltas' = Askers /\ searches' = searches /\ day' \in Nat /\ day' >= day
  BY <1>1, <1>2
<1>10. {r} \in SUBSET PastRuns /\ {} \in SUBSET PastRuns
  OBVIOUS
<1> QED BY <1>5, <1>6, <1>7, <1>8, <1>9, <1>10, TablesMove

-----------------------------------------------------------------------------
LEMMA BeginSearchKeeps == ASSUME RecallInv, NEW s \in Searchers, BeginSearch(s) PROVE RecallInv'
<1>1. PICK kind \in {"planner", "context", "hits", "api"}, mine \in PastRuns, p \in Points :
        searches' = [searches EXCEPT ![s] =
          [NoSearch EXCEPT !.at = "embed", !.kind = kind, !.own = mine, !.point = p,
                           !.direct = (kind = "api")]]
  BY DEF BeginSearch
<1> DEFINE q == [NoSearch EXCEPT !.at = "embed", !.kind = kind, !.own = mine, !.point = p,
                                 !.direct = (kind = "api")]
<1>2. /\ DOMAIN q = SearchFields /\ q.at = "embed" /\ q.point = p
      /\ q.hits = {} /\ q.stepHits = {}
  BY DEF NoSearch, SearchFields
<1>3. searches' = [searches EXCEPT ![s] = q]
  BY <1>1
<1> HIDE DEF q
<1>4. SearchSound(q)
  BY <1>2, NoneShown, RecallAssumption DEF SearchSound
<1> QED BY <1>3, <1>4, SearchMoves DEF BeginSearch

\* A search at one of its statements.
LEMMA SearchAtWork ==
  ASSUME RecallInv, NEW s \in Searchers, searches[s].at \in {"embed", "runs", "steps"}
  PROVE  /\ SearchSound(searches[s]) /\ SearchSound(Unanswered(searches[s]))
         /\ searches[s].stepHits = {} /\ DOMAIN searches[s] = SearchFields
<1>1. SearchSound(searches[s])
  BY DEF RecallInv
<1>2. searches[s].stepHits = {} /\ DOMAIN searches[s] = SearchFields /\ searches[s].point \in Nat
  BY <1>1 DEF SearchSound
<1> QED BY <1>1, <1>2, UnansweredSound

\* The search moves on with the hits of the attempt.
LEMMA GoneOn ==
  ASSUME NEW q, NEW e, SearchSound(q), DOMAIN e = SearchFields,
         e.kind = q.kind, e.own = q.own, e.point = q.point, e.direct = q.direct,
         Showing(q, e.hits), Showing(q, e.stepHits),
         e.at \in {"embed", "runs"} => e.hits = {},
         e.at \in {"embed", "runs", "steps"} => e.stepHits = {},
         \A x \in e.hits : q.kind = "hits" => x.run # q.own
  PROVE  SearchSound(e)
<1>1. \A x : Near(e, x) <=> Near(q, x)
  BY DEF Near, Threshold
<1>2. Showing(e, e.hits) /\ Showing(e, e.stepHits)
  BY <1>1 DEF Showing
<1> QED BY <1>2 DEF SearchSound

LEMMA EmbedQueryKeeps == ASSUME RecallInv, NEW s \in Searchers, EmbedQuery(s) PROVE RecallInv'
<1> DEFINE q == searches[s]
           e == [q EXCEPT !.at = "runs"]
<1>1. UNCHANGED <<day, runVectors, stepVectors, deltas>> /\ q.at = "embed"
  BY DEF EmbedQuery
<1>2. /\ SearchSound(q) /\ SearchSound(Unanswered(q))
      /\ q.stepHits = {} /\ DOMAIN q = SearchFields
  BY <1>1, SearchAtWork
<1>3. searches' = [searches EXCEPT ![s] = e] \/ searches' = [searches EXCEPT ![s] = Unanswered(q)]
  BY DEF EmbedQuery
<1>4. SearchSound(e)
  <2>1. /\ DOMAIN e = SearchFields /\ e.at = "runs" /\ e.hits = q.hits /\ e.stepHits = q.stepHits
        /\ e.kind = q.kind /\ e.own = q.own /\ e.point = q.point /\ e.direct = q.direct
    BY <1>2 DEF SearchFields
  <2> HIDE DEF e, q
  <2> QED BY <1>1, <1>2, <2>1, GoneOn DEF SearchSound
<1> HIDE DEF e, q
<1> QED BY <1>1, <1>2, <1>3, <1>4, SearchMoves

LEMMA FindRunsKeeps == ASSUME RecallInv, NEW s \in Searchers, FindRuns(s) PROVE RecallInv'
<1> DEFINE q == searches[s]
           rows == Rows(runVectors, q.point)
<1>1. UNCHANGED <<day, runVectors, stepVectors, deltas>> /\ q.at = "runs"
  BY DEF FindRuns
<1>2. /\ SearchSound(q) /\ SearchSound(Unanswered(q))
      /\ q.stepHits = {} /\ DOMAIN q = SearchFields
  BY <1>1, SearchAtWork
<1>3. \/ \E h \in Nearest(rows), stage \in {"steps", "over"} :
           searches' = [searches EXCEPT ![s] = [q EXCEPT !.at = stage, !.hits = Shown(q, h)]]
      \/ searches' = [searches EXCEPT ![s] = Unanswered(q)]
  BY DEF FindRuns
<1>4. IsFiniteSet(Held(runVectors))
  BY DEF RecallInv
<1> HIDE DEF q
<1>5. ASSUME NEW h \in Nearest(rows), NEW stage \in {"steps", "over"}
      PROVE  SearchSound([q EXCEPT !.at = stage, !.hits = Shown(q, h)])
  <2> DEFINE e == [q EXCEPT !.at = stage, !.hits = Shown(q, h)]
  <2>1. /\ DOMAIN e = SearchFields /\ e.at = stage /\ e.hits = Shown(q, h) /\ e.stepHits = {}
        /\ e.kind = q.kind /\ e.own = q.own /\ e.point = q.point /\ e.direct = q.direct
    BY <1>2 DEF SearchFields
  <2>2. /\ Shown(q, h) \in SUBSET h /\ \A x \in Shown(q, h) : Near(q, x)
        /\ \A x \in Shown(q, h) : q.kind = "hits" => x.run # q.own
    BY DEF Shown
  <2>3. Showing(q, Shown(q, h))
    BY <1>4, <2>2, NearestShown
  <2> HIDE DEF e
  <2>4. SearchSound(e)
    BY <1>2, <2>1, <2>2, <2>3, NoneShown, GoneOn
  <2> QED BY <2>4 DEF e
<1> QED BY <1>1, <1>2, <1>3, <1>5, SearchMoves

LEMMA FindStepsKeeps == ASSUME RecallInv, NEW s \in Searchers, FindSteps(s) PROVE RecallInv'
<1> DEFINE q == searches[s]
<1>1. UNCHANGED <<day, runVectors, stepVectors, deltas>> /\ q.at = "steps"
  BY DEF FindSteps
<1>2. /\ SearchSound(q) /\ SearchSound(Unanswered(q))
      /\ q.stepHits = {} /\ DOMAIN q = SearchFields
  BY <1>1, SearchAtWork
<1>3. IsFiniteSet(Held(stepVectors)) /\ DOMAIN searches = Searchers
  BY DEF RecallInv
<1>4. \/ \E h \in Nearest(Rows(stepVectors, q.point)) :
           searches' = [searches EXCEPT ![s].at = "over", ![s].stepHits = {x \in h : Near(q, x)}]
      \/ searches' = [searches EXCEPT ![s] = [q EXCEPT !.at = "over"]]
      \/ searches' = [searches EXCEPT ![s] = Unanswered(q)]
  BY DEF FindSteps
<1>5. CASE \E h \in Nearest(Rows(stepVectors, q.point)) :
             searches' = [searches EXCEPT ![s].at = "over", ![s].stepHits = {x \in h : Near(q, x)}]
  <2>1. PICK h \in Nearest(Rows(stepVectors, q.point)) :
          searches' = [searches EXCEPT ![s].at = "over", ![s].stepHits = {x \in h : Near(q, x)}]
    BY <1>5
  <2> DEFINE matching == {x \in h : Near(q, x)}
             e == [q EXCEPT !.at = "over", !.stepHits = matching]
  <2>2. matching \in SUBSET h /\ \A x \in matching : Near(q, x)
    OBVIOUS
  <2>3. searches' = [searches EXCEPT ![s].at = "over", ![s].stepHits = matching]
    BY <2>1
  <2> HIDE DEF matching
  <2>4. searches' = [searches EXCEPT ![s] = e]
    BY <1>3, <2>3
  <2> HIDE DEF q
  <2>5. Showing(q, matching)
    BY <1>3, <2>2, NearestShown
  <2>6. /\ DOMAIN e = SearchFields /\ e.at = "over" /\ e.hits = q.hits /\ e.stepHits = matching
        /\ e.kind = q.kind /\ e.own = q.own /\ e.point = q.point /\ e.direct = q.direct
    BY <1>2 DEF SearchFields
  <2> HIDE DEF e
  <2>7. SearchSound(e)
    BY <1>2, <2>5, <2>6, GoneOn DEF SearchSound
  <2> QED BY <1>1, <2>4, <2>7, SearchMoves
<1>6. CASE searches' = [searches EXCEPT ![s] = [q EXCEPT !.at = "over"]]
  <2> DEFINE e == [q EXCEPT !.at = "over"]
  <2> HIDE DEF q
  <2>1. /\ DOMAIN e = SearchFields /\ e.at = "over" /\ e.hits = q.hits /\ e.stepHits = q.stepHits
        /\ e.kind = q.kind /\ e.own = q.own /\ e.point = q.point /\ e.direct = q.direct
    BY <1>2 DEF SearchFields
  <2>2. searches' = [searches EXCEPT ![s] = e]
    BY <1>6
  <2> HIDE DEF e
  <2>3. SearchSound(e)
    BY <1>2, <2>1, GoneOn DEF SearchSound
  <2> QED BY <1>1, <2>2, <2>3, SearchMoves
<1> HIDE DEF q
<1>7. CASE searches' = [searches EXCEPT ![s] = Unanswered(q)]
  BY <1>1, <1>2, <1>7, SearchMoves
<1> QED BY <1>4, <1>5, <1>6, <1>7

-----------------------------------------------------------------------------
LEMMA RecallStep == RecallInv /\ [RecallNext]_recallvars => RecallInv'
<1> SUFFICES ASSUME RecallInv, [RecallNext]_recallvars PROVE RecallInv'
  OBVIOUS
<1>1. CASE PassDay
  BY <1>1, PassDayKeeps
<1>2. CASE EmbedAny
  BY <1>2, EmbedRunKeeps, EmbedPlanKeeps DEF EmbedAny
<1>3. CASE \E c \in Askers : AskDelta(c) \/ EmbedItems(c) \/ MatchRuns(c) \/ MatchSteps(c) \/ LogDelta(c)
  BY <1>3, AskDeltaKeeps, EmbedItemsKeeps, MatchRunsKeeps, MatchStepsKeeps, LogDeltaKeeps
<1>4. CASE \E s \in Searchers : BeginSearch(s) \/ EmbedQuery(s) \/ FindRuns(s) \/ FindSteps(s)
  BY <1>4, BeginSearchKeeps, EmbedQueryKeeps, FindRunsKeeps, FindStepsKeeps
<1>5. CASE UNCHANGED recallvars
  BY <1>5 DEF recallvars, RecallInv
<1> QED BY <1>1, <1>2, <1>3, <1>4, <1>5 DEF RecallNext, DeltasNext, SearchesNext

\* What is told to be new is like nothing that the tables held and hold, each
\* item is counted once, and a search shows what is near.
LEMMA RecallInvSound == RecallInv => RecallSound
<1> SUFFICES ASSUME RecallInv PROVE RecallSound
  OBVIOUS
<1>1. \A c \in Askers : DeltaSound(deltas[c], runVectors, stepVectors, day)
  BY DEF RecallInv
<1>2. CountedOnce
  BY <1>1 DEF CountedOnce, DeltaSound, DeltaCounts, Unlike
<1>3. NewsIsNew
  <2> SUFFICES ASSUME NEW c \in Askers, NEW i \in DOMAIN deltas[c].novel,
                      Keyed(deltas[c].novel[i]), deltas[c].novel[i].text >= 0
               PROVE  /\ \A r \in deltas[c].held :
                           InWindow(runVectors[r]) =>
                             Distance(runVectors[r].point, deltas[c].novel[i].text) > DeltaDistance
                      /\ DeltaWithSteps =>
                           \A r \in deltas[c].heldSteps :
                             InWindow(stepVectors[r]) =>
                               Distance(stepVectors[r].point, deltas[c].novel[i].text) > DeltaDistance
    BY DEF NewsIsNew
  <2>1. /\ Far(deltas[c].novel[i].text, runVectors, deltas[c].held, day)
        /\ DeltaWithSteps => Far(deltas[c].novel[i].text, stepVectors, deltas[c].heldSteps, day)
    BY <1>1 DEF DeltaSound, DeltaFar, HasText
  <2> QED BY <2>1 DEF Far, Recent, InWindow
<1>4. SearchesSound
  <2> SUFFICES ASSUME NEW s \in Searchers
               PROVE  LET q == searches[s] IN
                      /\ q.at \in {"embed", "runs"} => q.hits = {} /\ q.stepHits = {}
                      /\ Cardinality(q.hits) <= TopK /\ Cardinality(q.stepHits) <= TopK
                      /\ \A x \in q.hits \cup q.stepHits : Near(q, x)
                      /\ \A x \in q.hits : q.kind = "hits" => x.run # q.own
    BY DEF SearchesSound
  <2>1. SearchSound(searches[s])
    BY DEF RecallInv
  <2> QED BY <2>1 DEF SearchSound, Showing
<1> QED BY <1>2, <1>3, <1>4 DEF RecallSound

\* Manager.Delta counts each item of a request once and calls new only what is
\* far from every recent run and plan it was compared with, and the searches of
\* semantic memory show what is near by the threshold of their last attempt, no
\* more than the limit and never the run that asks, whatever is embedded between
\* their statements, whatever the indexes leave out and whichever of them fail.
THEOREM RecallIsSound == RecallSpec => []RecallSound
<1>1. RecallInit => RecallInv
  BY RecallStart
<1>2. RecallInv /\ [RecallNext]_recallvars => RecallInv'
  BY RecallStep
<1>3. RecallInv => RecallSound
  BY RecallInvSound
<1> QED BY <1>1, <1>2, <1>3, PTL DEF RecallSpec
=============================================================================
