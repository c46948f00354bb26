---------------------------- MODULE EntityIdentity ----------------------------
(***************************************************************************)
(* The entity store of the issuers of one company, which one universe       *)
(* names by its LEI and another by its CIK: capture ticks that resolve an   *)
(* id and mint an entity when it names none (resolve_coordinates.py), the   *)
(* backfill that applies the evidence (staging.entity_backfill), and the    *)
(* guards of the store that both meet.                                      *)
(*                                                                          *)
(* An id stands for the typed alias and the legacy-id alias it spells out;  *)
(* both are always written together and name one holder.  LEI and CIK never *)
(* change hands, so their claims hold for all valid dates and only the time *)
(* a claim became knowable is left.  No code writes a retraction.           *)
(***************************************************************************)
EXTENDS Integers, FiniteSets, FiniteSetsExt

CONSTANTS Lei, Cik,      \* the two ids of the company
          Ticks,         \* capture ticks in flight
          MaxTime,       \* bound: knowable times are 1..MaxTime
          MaxLaunches,   \* bound: launches of ticks
          Uses,          \* the uses of an id that may be stored: id, knowable time, source
          MaxProofs,     \* bound: rows that prove the link
          MaxRuns        \* bound: runs of the backfill

ASSUME UsesAssumption ==
    /\ Uses \subseteq [name : {Lei, Cik}, known : 1..MaxTime, source : {"observation", "head"}]
    /\ \A u, w \in Uses : u.name = w.name /\ u.known = w.known => u = w

VARIABLES
    store,       \* the committed rows of entities, aliases and merges
    mine,        \* per transaction: the rows it has inserted and not committed
    tick,        \* per tick: where resolve_coordinates is
    backfill,    \* where staging.entity_backfill is
    uses,        \* evidence: an id was observed or published, knowable at a time
    proofs,      \* evidence: knowable times of the rows that join the LEI to the CIK
    disputed,    \* evidence: other rows join them to something else
    captured,    \* history: the entity a committed capture used for an id
    launches, runs

vars == <<store, mine, tick, backfill, uses, proofs, disputed, captured, launches, runs>>

Names == {Lei, Cik}
Times == 1..MaxTime
Forever == MaxTime       \* 'infinity': nothing becomes knowable later
Job == "backfill"
Actors == Ticks \cup {Job}

ASSUME ActorsAssumption == Job \notin Ticks /\ MaxTime \in Nat \ {0}

NoEntity == [birth |-> Cik, form |-> "none", generation |-> 0]
NoRows == [entities |-> {}, aliases |-> {}, merges |-> {}]
At(at, n, k, e) == [at |-> at, name |-> n, cutoff |-> k, entity |-> e]
IdleTick == At("idle", Cik, 1, NoEntity)
NoMap == [e \in {} |-> e]
IdleJob == [at |-> "idle", linked |-> FALSE, todo |-> {}, component |-> {}, left |-> {},
            survivor |-> NoEntity, map |-> NoMap, saved |-> NoRows, savedMap |-> NoMap]

Both(r, s) == [entities |-> r.entities \cup s.entities, aliases |-> r.aliases \cup s.aliases,
               merges |-> r.merges \cup s.merges]

\* READ COMMITTED: a statement sees the committed rows and those of its transaction.
View(a) == Both(store, mine[a])

Init ==
    /\ store = NoRows
    /\ mine = [a \in Actors |-> NoRows]
    /\ tick = [t \in Ticks |-> IdleTick]
    /\ backfill = IdleJob
    /\ uses = {} /\ proofs = {} /\ disputed = FALSE /\ captured = {}
    /\ launches = 0 /\ runs = 0

-----------------------------------------------------------------------------
\* The store

\* One superseded_by edge, the latest that was knowable.
Successor(v, e, known) ==
    LET edges == {m \in v.merges : m.from = e /\ m.known <= known}
    IN  IF edges = {} THEN e
        ELSE (CHOOSE m \in edges : \A o \in edges : o.known <= m.known).to

\* entity_survivor: follow the edges; a chain visits an entity once.
Chain(v, e, known) ==
    LET walk[d \in 0..Cardinality(v.entities)] ==
            IF d = 0 THEN e ELSE Successor(v, walk[d - 1], known)
    IN  walk
Survivor(v, e, known) == Chain(v, e, known)[Cardinality(v.entities)]

\* entity_resolve: the entities an id names, as known at a time.  More than one
\* is an error.
Hits(v, n, known) ==
    {Survivor(v, r.entity, known) : r \in {a \in v.aliases : a.name = n /\ a.known <= known}}

\* Variant: as known today.
AsOf_Ever(r, s) == Forever

\* The later of two times at which claims became knowable.
AsOf(r, s) == IF r.known > s.known THEN r.known ELSE s.known

\* validate_entity_alias: no other entity holds the id, unless the two were
\* merged when the later of the claims became knowable.
AliasAllowed(v, row) ==
    \A o \in v.aliases :
        (o.name = row.name /\ o.entity # row.entity) =>
            Survivor(v, o.entity, AsOf(o, row)) = Survivor(v, row.entity, AsOf(o, row))

\* validate_entity_relation: one successor, no cycle.
MergeAllowed(v, m) ==
    /\ Survivor(v, m.from, Forever) = m.from
    /\ Survivor(v, m.to, Forever) # m.from

\* The advisory locks of a transaction, which it holds while it keeps the rows:
\* one per birth alias in entity_mint, one per alias in validate_entity_alias.
BirthLocked(a, n, form) ==
    \E b \in Actors \ {a} : \E e \in mine[b].entities : e.birth = n /\ e.form = form

\* Variant: no lock of an alias.
AliasLocked_Never(a, n) == FALSE

AliasLocked(a, n) == \E b \in Actors \ {a} : \E r \in mine[b].aliases : r.name = n

\* entity_mint: the id derived from the birth alias, in its first free generation.
Minted(v, n, form) ==
    [birth |-> n, form |-> form,
     generation |-> 1 + Cardinality({e \in v.entities : e.birth = n /\ e.form = form})]

-----------------------------------------------------------------------------
\* A capture tick: resolve_coordinates, inside the tick's transaction

\* A tick is launched for a universe, which names the company by one id.
Launch(t) ==
    /\ tick[t].at = "idle" /\ launches < MaxLaunches
    /\ \E n \in Names, k \in Times : tick' = [tick EXCEPT ![t] = At("lookup", n, k, NoEntity)]
    /\ launches' = launches + 1
    /\ UNCHANGED <<store, mine, backfill, uses, proofs, disputed, captured, runs>>

\* The tick goes on with an entity.
Goes(t, at, e) == tick' = [tick EXCEPT ![t] = At(at, tick[t].name, tick[t].cutoff, e)]

\* The transaction of the tick is rolled back.
Abandon(t) ==
    /\ tick' = [tick EXCEPT ![t] = IdleTick]
    /\ mine' = [mine EXCEPT ![t] = NoRows]

\* lookup_minted_entity: an entity was born from the id, whatever was known then.
Born(v, n) ==
    LET first(form) == [birth |-> n, form |-> form, generation |-> 1]
    IN  IF first("typed") \in v.entities THEN {first("typed")}
        ELSE {first("legacy")} \cap v.entities

\* lookup_entity: by its aliases as known at the cutoff, then by birth.
LookupEntity(v, n, known) ==
    IF Hits(v, n, known) # {} THEN Hits(v, n, known)
    ELSE {Survivor(v, e, known) : e \in Born(v, n)}

Lookup(t) ==
    LET found == LookupEntity(View(t), tick[t].name, tick[t].cutoff)
    IN  /\ tick[t].at = "lookup"
        /\ \/ Cardinality(found) > 1 /\ Abandon(t)
           \/ Cardinality(found) = 1 /\ (\E e \in found : Goes(t, "done", e)) /\ UNCHANGED mine
           \/ found = {} /\ Goes(t, "mint", NoEntity) /\ UNCHANGED mine
        /\ UNCHANGED <<store, backfill, uses, proofs, disputed, captured, launches, runs>>

\* resolve_entity: mint on a miss, behind the lock of the birth alias.
Mint(t) ==
    LET n == tick[t].name
        e == Minted(View(t), n, "typed")
    IN  /\ tick[t].at = "mint" /\ ~BirthLocked(t, n, "typed")
        /\ mine' = [mine EXCEPT ![t] = Both(@, [NoRows EXCEPT !.entities = {e}])]
        /\ Goes(t, "name", e)
        /\ UNCHANGED <<store, backfill, uses, proofs, disputed, captured, launches, runs>>

\* resolve_entity: the birth alias, knowable at the cutoff; a refusal fails the tick.
NameEntity(t) ==
    LET row == [name |-> tick[t].name, entity |-> tick[t].entity,
                known |-> tick[t].cutoff, source |-> "capture"]
    IN  /\ tick[t].at = "name" /\ ~AliasLocked(t, row.name)
        /\ \/ /\ AliasAllowed(View(t), row)
              /\ mine' = [mine EXCEPT ![t] = Both(@, [NoRows EXCEPT !.aliases = {row}])]
              /\ Goes(t, "done", row.entity)
           \/ ~AliasAllowed(View(t), row) /\ Abandon(t)
        /\ UNCHANGED <<store, backfill, uses, proofs, disputed, captured, launches, runs>>

\* The capture commits what it resolved with everything else.
CommitTick(t) ==
    /\ tick[t].at = "done"
    /\ store' = View(t)
    /\ captured' = captured \cup {<<tick[t].name, tick[t].entity>>}
    /\ Abandon(t)
    /\ UNCHANGED <<backfill, uses, proofs, disputed, launches, runs>>

\* The tick fails or dies later in its transaction.
TickFails(t) ==
    /\ tick[t].at # "idle"
    /\ Abandon(t)
    /\ UNCHANGED <<store, backfill, uses, proofs, disputed, captured, launches, runs>>

-----------------------------------------------------------------------------
\* The evidence: rows of other lanes

StoreUse ==
    /\ \E u \in Uses \ uses : uses' = uses \cup {u}
    /\ UNCHANGED <<store, mine, tick, backfill, proofs, disputed, captured, launches, runs>>

StoreProof ==
    /\ Cardinality(proofs) < MaxProofs
    /\ \E k \in Times \ proofs : proofs' = proofs \cup {k}
    /\ UNCHANGED <<store, mine, tick, backfill, uses, disputed, captured, launches, runs>>

StoreContradiction ==
    /\ proofs # {} /\ ~disputed
    /\ disputed' = TRUE
    /\ UNCHANGED <<store, mine, tick, backfill, uses, proofs, captured, launches, runs>>

-----------------------------------------------------------------------------
\* The backfill: entity_backfill_plan and entity_backfill()

Linked == proofs # {} /\ ~disputed
Used == {u.name : u \in uses}

\* The claim of a used id is that of its first use.
UseClaim(n) ==
    LET of == {u \in uses : u.name = n}
    IN  CHOOSE u \in of : \A o \in of : u.known <= o.known

CrosswalkClaims ==
    IF Linked /\ Lei \in Used
    THEN {[name |-> Cik, known |-> Min(proofs), source |-> "crosswalk"]} ELSE {}

\* The components, each the set of its claims.
Plan ==
    LET claims == {UseClaim(n) : n \in Used} \cup CrosswalkClaims
    IN  IF Linked THEN {claims} \ {{}} ELSE {{UseClaim(n)} : n \in Used}

\* The birth alias: the id that became knowable first, and of two the CIK.
BirthName(component) ==
    LET own == {c \in component : c.source # "crosswalk"}
        first == {c \in own : \A o \in own : c.known <= o.known}
    IN  IF \E c \in first : c.name = Cik THEN Cik ELSE Lei

\* The run reads the plan and the survivor of every entity once.
StartRun ==
    /\ backfill.at = "idle" /\ runs < MaxRuns
    /\ backfill' = [IdleJob EXCEPT !.at = "next", !.linked = Linked /\ Used = Names, !.todo = Plan,
                       !.map = [e \in store.entities |-> Survivor(store, e, Forever)]]
    /\ runs' = runs + 1
    /\ UNCHANGED <<store, mine, tick, uses, proofs, disputed, captured, launches>>

\* Entities that hold one of the component's ids, of those the map knows.
Existing(component) ==
    {backfill.map[r.entity] : r \in {a \in View(Job).aliases :
        a.entity \in DOMAIN backfill.map /\ \E c \in component : c.name = a.name}}

\* The order in which existing entities are preferred as the survivor.
Preferred(e, component) ==
    LET births == {r.known : r \in {a \in View(Job).aliases : a.entity = e /\ a.name = e.birth}}
    IN  (IF e.form = "legacy" /\ e.birth = BirthName(component) THEN 0 ELSE 1000)
        + (IF e.form = "legacy" THEN 0 ELSE 500)
        + 20 * Min(births) + (IF e.birth = Cik THEN 0 ELSE 10) + e.generation

\* The survivor of the component gets an edge from every other entity of it; the
\* edge is knowable when the last of the claims is.
TakeComponent ==
    /\ backfill.at = "next"
    /\ \E component \in backfill.todo :
        LET existing == Existing(component)
            rank(e) == Preferred(e, component)
            known == Max({c.known : c \in component})
            edges(survivor) == {[from |-> e, to |-> survivor, known |-> known] : e \in existing \ {survivor}}
            saved == [backfill EXCEPT !.component = component, !.left = component,
                                      !.saved = mine[Job], !.savedMap = backfill.map]
        IN  \/ /\ existing = {}
               /\ backfill' = [saved EXCEPT !.at = "mint"]
               /\ UNCHANGED mine
            \/ \E survivor \in existing :
                  /\ \A o \in existing : rank(survivor) <= rank(o)
                  /\ \/ /\ \A m \in edges(survivor) : MergeAllowed(View(Job), m)
                        /\ mine' = [mine EXCEPT ![Job].merges = @ \cup edges(survivor)]
                        /\ backfill' = [saved EXCEPT !.at = "insert", !.survivor = survivor,
                              !.map = [e \in DOMAIN @ |-> IF @[e] \in existing THEN survivor ELSE @[e]]]
                     \/ /\ \E m \in edges(survivor) : ~MergeAllowed(View(Job), m)
                        /\ backfill' = [backfill EXCEPT !.todo = @ \ {component}]
                        /\ UNCHANGED mine
    /\ UNCHANGED <<store, tick, uses, proofs, disputed, captured, launches, runs>>

MintComponent ==
    LET n == BirthName(backfill.component)
        e == Minted(View(Job), n, "legacy")
    IN  /\ backfill.at = "mint" /\ ~BirthLocked(Job, n, "legacy")
        /\ mine' = [mine EXCEPT ![Job].entities = @ \cup {e}]
        /\ backfill' = [backfill EXCEPT !.at = "insert", !.survivor = e,
              !.map = [x \in DOMAIN @ \cup {e} |-> IF x = e THEN e ELSE @[x]]]
        /\ UNCHANGED <<store, tick, uses, proofs, disputed, captured, launches, runs>>

\* The handler of the component's block: its rows and its part of the map go.
ComponentFails ==
    /\ mine' = [mine EXCEPT ![Job] = backfill.saved]
    /\ backfill' = [backfill EXCEPT !.at = "next", !.map = backfill.savedMap,
                                    !.todo = @ \ {backfill.component}]

\* A claim the survivor's group already holds from this source is skipped.
Held(claim) ==
    \E r \in View(Job).aliases :
        /\ r.name = claim.name /\ r.source = claim.source
        /\ r.entity \in DOMAIN backfill.map /\ backfill.map[r.entity] = backfill.survivor

\* The claims of the component, one by one; a refused one fails the component.
InsertClaim ==
    /\ backfill.at = "insert"
    /\ \E claim \in backfill.left :
        LET row == [name |-> claim.name, entity |-> backfill.survivor,
                    known |-> claim.known, source |-> claim.source]
            rest == backfill.left \ {claim}
            ahead == IF rest # {} THEN [backfill EXCEPT !.left = rest]
                     ELSE [backfill EXCEPT !.at = "next", !.todo = @ \ {backfill.component}]
        IN  \/ Held(claim) /\ backfill' = ahead /\ UNCHANGED mine
            \/ /\ ~Held(claim) /\ ~AliasLocked(Job, claim.name)
               /\ \/ /\ AliasAllowed(View(Job), row)
                     /\ mine' = [mine EXCEPT ![Job].aliases = @ \cup {row}]
                     /\ backfill' = ahead
                  \/ ~AliasAllowed(View(Job), row) /\ ComponentFails
    /\ UNCHANGED <<store, tick, uses, proofs, disputed, captured, launches, runs>>

CommitRun ==
    /\ backfill.at = "next" /\ backfill.todo = {}
    /\ store' = View(Job)
    /\ mine' = [mine EXCEPT ![Job] = NoRows]
    /\ backfill' = IdleJob
    /\ UNCHANGED <<tick, uses, proofs, disputed, captured, launches, runs>>

\* The op dies, and its transaction with it.
RunDies ==
    /\ backfill.at # "idle"
    /\ mine' = [mine EXCEPT ![Job] = NoRows]
    /\ backfill' = IdleJob
    /\ UNCHANGED <<store, tick, uses, proofs, disputed, captured, launches, runs>>

Next ==
    \/ \E t \in Ticks : \/ Launch(t) \/ Lookup(t) \/ Mint(t) \/ NameEntity(t)
                        \/ CommitTick(t) \/ TickFails(t)
    \/ StoreUse \/ StoreProof \/ StoreContradiction
    \/ StartRun \/ TakeComponent \/ MintComponent \/ InsertClaim
    \/ CommitRun \/ RunDies

Spec == Init /\ [][Next]_vars

-----------------------------------------------------------------------------
\* Properties

Entities == [birth : Names, form : {"none", "typed", "legacy"}, generation : 0..2]

\* What the rows of the store, the ticks and the backfill hold.
TypeOK ==
    /\ \A rows \in {store} \cup {mine[a] : a \in Actors} :
           /\ rows.entities \subseteq Entities
           /\ rows.aliases \subseteq [name : Names, entity : Entities, known : Times,
                                     source : {"capture", "observation", "head", "crosswalk"}]
           /\ rows.merges \subseteq [from : Entities, to : Entities, known : Times]
    /\ tick \in [Ticks -> [at : {"idle", "lookup", "mint", "name", "done"}, name : Names,
                           cutoff : Times, entity : Entities]]
    /\ captured \subseteq Names \X Entities
    /\ backfill.at \in {"idle", "next", "mint", "insert"} /\ backfill.survivor \in Entities
    /\ uses \subseteq Uses
    /\ proofs \subseteq Times /\ disputed \in BOOLEAN

\* entity_resolve "raises when two different entities match (the insert guard
\* prevents that)": whatever ticks and backfill write together, and however old
\* the claims are that arrive late, an id names at most one entity as known at
\* any time.
ResolvesToOne ==
    \A n \in Names, k \in Times : Cardinality(Hits(store, n, k)) <= 1

\* The entity a committed capture used for an id is, through merges, the entity
\* the id names for a reader of today: two universes, two cutoffs or a race with
\* the backfill never leave a capture under an entity that lost its id.
CapturedIdContinues ==
    \A c \in captured : Hits(store, c[1], Forever) = {Survivor(store, c[2], Forever)}

\* entity_backfill: "A component the evidence now proves to span two existing
\* entities is merged".  A run that read the proof of used ids, and met no entity
\* minted since, leaves both ids one entity.
ProofMerges ==
    [][(CommitRun /\ backfill.linked /\ store.entities \subseteq DOMAIN backfill.map)
        => Cardinality(UNION {Hits(store', n, Forever) : n \in Names}) <= 1]_vars
=============================================================================
