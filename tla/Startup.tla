------------------------------ MODULE Startup ------------------------------
(***************************************************************************)
(* How the services start (cmd/*/main.go): the sandbox policy is loaded    *)
(* and the service's own limits checked against it (internal/policy/       *)
(* security.go, internal/runtime/sandbox.go), the message schemas are      *)
(* seeded and read (internal/schema/registry.go), and the API server reads *)
(* the tool cards, which it seeds if there are none                        *)
(* (internal/runtime/capability.go, internal/capability/registry.go).      *)
(* What fails ends the process, and it may be started again.  Texts,       *)
(* checksums and the lists of commands, variables and mounts are left out: *)
(* every service asks for nothing, so that the defaults are what is        *)
(* checked.                                                                *)
(***************************************************************************)
EXTENDS Calls, Integers, FiniteSetsExt

CONSTANTS
  Servers, Services,       \* processes of the API, and of the others
  ToolCount, EventCount,   \* 6 default cards, in their order; base schemas
  CardVersions,            \* of a tool, as versionGreater reads them; 1 is the default
  Secrets,                 \* values of capability.signing_secret
  Policies,                \* contents of the policy file
  Defaults,                \* config.Security: cpu, memory, timeout
  MaxPublished             \* bound: cards and schemas users publish

ASSUME StartupAssumption ==
  /\ Servers \cap Services = {}
  /\ ToolCount \in Nat \ {0} /\ EventCount \in Nat \ {0}
  /\ CardVersions \subseteq Nat /\ 1 \in CardVersions
  /\ MaxPublished \in Nat

VARIABLES
  policy,      \* the policy file
  secret,      \* the secret of the configuration
  schemas,     \* message_schemas: of the base versions, by event
  cards,       \* tool_registry, by name and version
  published,   \* how many cards and schemas users have published
  at,          \* what a process does
  nth,         \* the base schema or default card it is at
  own,         \* the secret it started with
  granted,     \* the limits it runs with
  loaded,      \* its schema registry
  tools        \* its capability registry, and the cards that was made of

uvars == <<policy, secret, schemas, cards, published, at, nth, own, granted, loaded, tools, mishaps>>

-----------------------------------------------------------------------------
Processes == Servers \cup Services
Tools == 1..ToolCount
Events == 1..EventCount
Keys == Tools \X CardVersions

\* A text such as "1Gi".  The units are looked up in a map, in any order:
\* one that ends in "b" may be taken for "b" and the rest for a number.
MemoryText == [amount : Nat, unit : {"unset", "clear", "ends_in_b"}]
Malformed == -1
ParsedMemory(m) == {m.amount} \cup IF m.unit = "ends_in_b" THEN {Malformed} ELSE {}

\* A duration, or no text.
Unset == -1
Duration == Nat \cup {Unset}
ParsedDuration(d) == IF d = Unset THEN 0 ELSE d

SecurityPolicy == [image : {"none", "listed", "unlisted"}, cpu : Int, max_cpu : Int,
                   memory : MemoryText, max_memory : MemoryText, timeout : Duration, max_timeout : Duration]

GrantedLimits == [cpu : Int, memory : MemoryText, timeout : Nat, under : SecurityPolicy]

\* A card is sound if ValidateToolCard would take it.
Card == [agent : Tools, sound : BOOLEAN, secret : Secrets]

\* A file that decodes, though it may ask for anything.
ASSUME PoliciesAssumption ==
  /\ Policies \subseteq SecurityPolicy
  /\ Defaults \in [cpu : Int, memory : MemoryText, timeout : Int]
  /\ Nil \notin GrantedLimits /\ Nil \notin Card /\ Nil \notin Keys

NoTools == [chosen |-> [t \in Tools |-> Nil], among |-> [k \in Keys |-> Nil]]

StartupTypeOK ==
  /\ policy \in SecurityPolicy
  /\ secret \in Secrets
  /\ schemas \in [Events -> {"none", "base", "other"}]
  /\ cards \in [Keys -> Card \cup {Nil}]
  /\ published \in 0..MaxPublished
  /\ at \in [Processes -> {"down", "sandbox", "schemas", "load", "cards", "seed", "relist", "up"}]
  /\ nth \in [Processes -> Nat]
  /\ own \in [Processes -> Secrets]
  /\ granted \in [Processes -> GrantedLimits \cup {Nil}]
  /\ loaded \in [Processes -> [Events -> {"none", "base", "other"}] \cup {Nil}]
  /\ tools \in [Processes -> [chosen : [Tools -> Keys \cup {Nil}], among : [Keys -> Card \cup {Nil}]]]
  /\ mishaps \in Nat

StartupInit ==
  /\ policy \in Policies
  /\ secret \in Secrets
  /\ schemas = [e \in Events |-> "none"]
  /\ cards = [k \in Keys |-> Nil]
  /\ published = 0
  /\ at = [s \in Processes |-> "down"]
  /\ nth = [s \in Processes |-> 1]
  /\ own = [s \in Processes |-> secret]
  /\ granted = [s \in Processes |-> Nil]
  /\ loaded = [s \in Processes |-> Nil]
  /\ tools = [s \in Processes |-> NoTools]
  /\ mishaps = 0

-----------------------------------------------------------------------------
(* A process.                                                               *)

\* The next part of a start, the first after "down".
After(s, stage) ==
  CASE stage = "down" -> IF s \in Servers THEN "schemas" ELSE "sandbox"
    [] stage = "sandbox" -> IF s \in Servers THEN "cards" ELSE "schemas"
    [] stage = "load" -> IF s \in Servers THEN "sandbox" ELSE "up"

To(s, stage) == at' = [at EXCEPT ![s] = stage] /\ nth' = [nth EXCEPT ![s] = 1]

Start(s) ==
  /\ at[s] = "down"
  /\ To(s, After(s, "down"))
  /\ own' = [own EXCEPT ![s] = secret]
  /\ UNCHANGED <<policy, secret, schemas, cards, published, granted, loaded, tools, mishaps>>

\* What a process holds goes with it.
Ended(s) ==
  /\ To(s, "down")
  /\ granted' = [granted EXCEPT ![s] = Nil]
  /\ loaded' = [loaded EXCEPT ![s] = Nil]
  /\ tools' = [tools EXCEPT ![s] = NoTools]

\* It is stopped once it is up, or ended anywhere.
End(s) ==
  /\ at[s] # "down"
  /\ Ends(IF at[s] = "up" THEN "ok" ELSE "failed")
  /\ Ended(s)
  /\ UNCHANGED <<policy, secret, schemas, cards, published, own>>

\* The configuration gets another secret.
Rotate ==
  /\ Ends("failed")
  /\ secret' \in Secrets \ {secret}
  /\ UNCHANGED <<policy, schemas, cards, published, at, nth, own, granted, loaded, tools>>

-----------------------------------------------------------------------------
(* The sandbox.                                                             *)

WithDefaults(p) ==
  LET cpu == IF p.cpu <= 0 THEN Defaults.cpu ELSE p.cpu
      most == IF p.max_cpu <= 0 THEN Defaults.cpu ELSE p.max_cpu
      memory == IF p.memory.unit = "unset" THEN Defaults.memory ELSE p.memory
      timeout == IF p.timeout = Unset /\ Defaults.timeout > 0 THEN Defaults.timeout ELSE p.timeout
  IN [image |-> p.image, cpu |-> cpu, max_cpu |-> Max({most, cpu}), memory |-> memory,
      max_memory |-> IF p.max_memory.unit = "unset" THEN memory ELSE p.max_memory,
      timeout |-> timeout, max_timeout |-> IF p.max_timeout = Unset THEN timeout ELSE p.max_timeout]

\* The memory is parsed again to be compared; if that fails it is not.
ValidPolicy(p) ==
  /\ p.cpu > 0 /\ p.max_cpu >= p.cpu
  /\ ParsedDuration(p.max_timeout) > 0 => ParsedDuration(p.timeout) <= ParsedDuration(p.max_timeout)
  /\ \E most \in ParsedMemory(p.max_memory) \ {Malformed} : \E again \in ParsedMemory(p.memory) :
       most > 0 /\ again > 0 => again <= most

\* Mutant: the request is checked before it gets the defaults.
WithinBeforeDefaults(p) == p.image # "unlisted"

\* Validate of an empty request under a policy that is valid.
Within(p) ==
  /\ p.image # "unlisted"
  /\ p.cpu <= p.max_cpu
  /\ p.max_memory.unit # "unset" =>
       \E asked \in ParsedMemory(p.memory) \ {Malformed},
          most \in ParsedMemory(p.max_memory) \ {Malformed} : most > 0 => asked <= most
  /\ ParsedDuration(p.max_timeout) > 0 => ParsedDuration(p.timeout) <= ParsedDuration(p.max_timeout)

MayBeMalformed(p) == Malformed \in ParsedMemory(p.memory) \cup ParsedMemory(p.max_memory)

EnsureSandbox(s) ==
  LET p == WithDefaults(policy) IN
  /\ at[s] = "sandbox"
  /\ \/ /\ ValidPolicy(p) /\ Within(p)
        /\ To(s, After(s, "sandbox"))
        /\ granted' = [granted EXCEPT ![s] =
             [cpu |-> p.cpu, memory |-> p.memory, timeout |-> ParsedDuration(p.timeout), under |-> p]]
        /\ UNCHANGED <<loaded, tools>>
     \/ (ValidPolicy(p) /\ Within(p) => MayBeMalformed(p)) /\ Ended(s)
  /\ UNCHANGED <<policy, secret, schemas, cards, published, own, mishaps>>

-----------------------------------------------------------------------------
(* Message schemas.                                                         *)

\* SeedBaseSchemas: what users have published under a base version is lost.
SeedSchema(s, o) ==
  /\ at[s] = "schemas"
  /\ Ends(o)
  /\ schemas' = IF o \in Took THEN [schemas EXCEPT ![nth[s]] = "base"] ELSE schemas
  /\ IF o # "ok" THEN Ended(s)
     ELSE /\ IF nth[s] < EventCount
             THEN nth' = [nth EXCEPT ![s] = @ + 1] /\ UNCHANGED at
             ELSE To(s, "load")
          /\ UNCHANGED <<granted, loaded, tools>>
  /\ UNCHANGED <<policy, secret, cards, published, own>>

LoadSchemas(s, o) ==
  /\ at[s] = "load" /\ o # "lost"
  /\ Ends(o)
  /\ IF o # "ok" THEN Ended(s)
     ELSE /\ loaded' = [loaded EXCEPT ![s] = schemas]
          /\ To(s, After(s, "load"))
          /\ UNCHANGED <<granted, tools>>
  /\ UNCHANGED <<policy, secret, schemas, cards, published, own>>

\* schema publish: another valid schema under a version there is.
PublishSchema(e, o) ==
  /\ published < MaxPublished /\ published' = published + 1
  /\ Ends(o)
  /\ schemas' = IF o \in Took THEN [schemas EXCEPT ![e] = "other"] ELSE schemas
  /\ UNCHANGED <<policy, secret, cards, at, nth, own, granted, loaded, tools>>

-----------------------------------------------------------------------------
(* Tool cards.                                                              *)

Listed(table) == {k \in Keys : table[k] # Nil}

\* By name, then version: the order the cards are listed in.
ListedBefore(k, l) == k[1] < l[1] \/ (k[1] = l[1] /\ k[2] < l[2])

\* Of an agent: the first card of the highest version.
Chosen(table, agent) ==
  LET its == {k \in Listed(table) : table[k].agent = agent}
      best == {k \in its : \A l \in its : l[2] <= k[2]}
  IN IF its = {} THEN Nil ELSE CHOOSE k \in best : \A l \in best \ {k} : ListedBefore(k, l)

\* ToolCardsFromRecords and NewRegistry: one card that is not sound or was
\* signed with another secret fails them all, and so does a tool without a card.
Buildable(table, with) ==
  /\ \A k \in Listed(table) : table[k].sound /\ table[k].secret = with
  /\ \A t \in Tools : Chosen(table, t) # Nil

Built(s) ==
  IF Buildable(cards, own[s])
  THEN /\ tools' = [tools EXCEPT ![s] =
            [chosen |-> [t \in Tools |-> Chosen(cards, t)], among |-> cards]]
       /\ To(s, "up")
       /\ UNCHANGED <<granted, loaded>>
  ELSE Ended(s)

\* EnsureCapabilityRegistry seeds only a table without cards.
ToBeSeeded(table) == Listed(table) = {}

ListCards(s, o) ==
  /\ at[s] = "cards" /\ o # "lost"
  /\ Ends(o)
  /\ IF o # "ok" THEN Ended(s)
     ELSE IF ToBeSeeded(cards) THEN To(s, "seed") /\ UNCHANGED <<granted, loaded, tools>>
     ELSE Built(s)
  /\ UNCHANGED <<policy, secret, schemas, cards, published, own>>

SeedCard(s, o) ==
  /\ at[s] = "seed"
  /\ Ends(o)
  /\ cards' = IF o \in Took
              THEN [cards EXCEPT ![<<nth[s], 1>>] = [agent |-> nth[s], sound |-> TRUE, secret |-> own[s]]]
              ELSE cards
  /\ IF o # "ok" THEN Ended(s)
     ELSE /\ IF nth[s] < ToolCount
             THEN nth' = [nth EXCEPT ![s] = @ + 1] /\ UNCHANGED at
             ELSE To(s, "relist")
          /\ UNCHANGED <<granted, loaded, tools>>
  /\ UNCHANGED <<policy, secret, schemas, published, own>>

RelistCards(s, o) ==
  /\ at[s] = "relist" /\ o # "lost"
  /\ Ends(o)
  /\ IF o # "ok" THEN Ended(s) ELSE Built(s)
  /\ UNCHANGED <<policy, secret, schemas, cards, published, own>>

\* POST /tools of a server that is up: the card is signed, not validated, and
\* replaces one of its name and version, whatever its agent.
PublishCard(s, k, agent, sound, o) ==
  /\ s \in Servers /\ at[s] = "up"
  /\ published < MaxPublished /\ published' = published + 1
  /\ Ends(o)
  /\ cards' = IF o \in Took
              THEN [cards EXCEPT ![k] = [agent |-> agent, sound |-> sound, secret |-> own[s]]]
              ELSE cards
  /\ UNCHANGED <<policy, secret, schemas, at, nth, own, granted, loaded, tools>>

StartupNext ==
  \/ Rotate
  \/ \E s \in Processes : Start(s) \/ End(s) \/ EnsureSandbox(s)
  \/ \E s \in Processes, o \in Ending :
       \/ SeedSchema(s, o) \/ LoadSchemas(s, o) \/ ListCards(s, o) \/ SeedCard(s, o) \/ RelistCards(s, o)
       \/ \E k \in Keys, agent \in Tools, sound \in BOOLEAN : PublishCard(s, k, agent, sound, o)
  \/ \E e \in Events, o \in Ending : PublishSchema(e, o)

StartupSpec == StartupInit /\ [][StartupNext]_uvars

-----------------------------------------------------------------------------
(* Properties.                                                              *)

\* A service past its sandbox runs with limits of its policy, by the amounts
\* that are meant and however their texts were parsed: EnsureSandbox.
SandboxHolds ==
  \A s \in Processes : granted[s] # Nil =>
    LET g == granted[s] IN
    /\ g.cpu > 0 /\ g.cpu <= g.under.max_cpu
    /\ g.under.max_memory.amount > 0 => g.memory.amount <= g.under.max_memory.amount
    /\ ParsedDuration(g.under.max_timeout) > 0 => g.timeout <= ParsedDuration(g.under.max_timeout)

\* A service that is up can read every base event, and a server has for every
\* agent the newest of the cards it read, all of them signed with the secret
\* it started with: InitSchemaRegistry, EnsureCapabilityRegistry.
RegistriesComplete ==
  \A s \in Processes : at[s] = "up" =>
    /\ granted[s] # Nil
    /\ \A e \in Events : loaded[s][e] # "none"
    /\ s \in Servers => \A t \in Tools :
         LET k == tools[s].chosen[t]
             read == tools[s].among
         IN k # Nil /\ read[k].agent = t /\ read[k].sound /\ read[k].secret = own[s]
              /\ \A l \in Listed(read) : read[l].agent = t => l[2] <= k[2]

\* A table of cards nobody is seeding, that no user has published to and no
\* mishap has struck, is one a server starts from: what is seeded is whole,
\* with several servers that seed at once: EnsureCapabilityRegistry.
SeededWhole ==
  mishaps = 0 /\ published = 0 /\ ~ToBeSeeded(cards) /\ (\A s \in Processes : at[s] # "seed")
    => Buildable(cards, secret)

StartedWhole == SandboxHolds /\ RegistriesComplete /\ SeededWhole
=============================================================================
