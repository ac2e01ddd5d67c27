--------------------------- MODULE ProcessCaches ---------------------------
(***************************************************************************)
(* The caches each app instance keeps of what the database or the key      *)
(* vault holds: provider keys, exhausted budget caps, execution policies,  *)
(* learned priors, model prices.  They differ in whether a miss is filled  *)
(* under the lock, whether one instance or all share the entry, and in     *)
(* which order a writer stores the new value and drops the entry.  One     *)
(* behaviour is about one entry of one of them.                            *)
(***************************************************************************)
EXTENDS Integers, Sequences, FiniteSets

CONSTANTS
  Instances,   \* app instances
  Lookups,     \* requests that need the value
  Writers,     \* sessions that change it
  Home,        \* Home[p]: the instance that runs request or writer p
  CacheTtl,    \* ticks an entry lives
  MaxWrites,   \* bound on new values
  MaxTroubles  \* bound on failed calls and restarts

ASSUME CacheAssumption ==
  /\ Home \in [Lookups \cup Writers -> Instances]
  /\ CacheTtl \in Nat \ {0}
  /\ MaxWrites \in Nat
  /\ MaxTroubles \in Nat

VARIABLES
  kind,      \* which cache this behaviour is about
  stored,    \* the committed value: how many changes it has seen
  writes,    \* changes so far
  held,      \* held[s]: the cached entry in slot s
  lookup,    \* lookup[t]: where a request is, and what it has read
  writer,    \* writer[w]: the steps it has left, and the value it writes
  told,      \* told[i]: the latest key whose writer on i got its answer
  troubles   \* failed calls and restarts so far

cvars == <<kind, stored, writes, held, lookup, writer, told, troubles>>

Kinds == {"vault", "localdb", "budget", "shared_budget", "policy", "prior", "price"}

Nothing == -1   \* what a failed read of the vault returns
Values == {Nothing} \cup (0..MaxWrites)
Entry == [val : Values, ttl : 0..CacheTtl]
NoEntry == [val |-> Nothing, ttl |-> 0]
Fresh(e) == e.ttl > 0

Resting == [pc |-> "idle", got |-> Nothing]
Away == [todo |-> <<>>, val |-> 0]

\* With a shared store the budget entry of all instances is one.
Slots == Instances \cup {"shared"}
Slot(p) == IF kind = "shared_budget" THEN "shared" ELSE Home[p]

\* Provider keys are fetched while the cache's lock is held; the other caches
\* release theirs before they read.
FetchesUnderLock == kind \in {"vault", "localdb"}
Locked(i) == FetchesUnderLock /\ \E t \in Lookups : Home[t] = i /\ lookup[t].pc /= "idle"

\* What a writer does, in order.  Connecting a key of the local back end
\* stores it once if a row exists, and again with the connection's status.
\* Activating a policy drops the entry inside the transaction; the drift
\* guard and pausing by hand do not drop it, and neither does a price sync.
KeyClearedFirst == {<<"clear", "store">>}   \* mutant: the entry is dropped too early
KeyPrograms == {<<"store", "clear">>}
LocalKeyPrograms == {<<"store", "clear", "store">>} \cup (IF stored = 0 THEN {<<"clear", "store">>} ELSE {})
BudgetPrograms == {<<"store", "clear">>}
PolicyPrograms == {<<"clear", "store">>, <<"store">>}
PriorPrograms == {<<"clear", "store">>}
PricePrograms == {<<"store">>}

Programs ==
  CASE kind = "vault" -> KeyPrograms
    [] kind = "localdb" -> LocalKeyPrograms
    [] kind \in {"budget", "shared_budget"} -> BudgetPrograms
    [] kind = "policy" -> PolicyPrograms
    [] kind = "prior" -> PriorPrograms
    [] kind = "price" -> PricePrograms

CacheInit ==
  /\ kind \in Kinds
  /\ stored = 0
  /\ writes = 0
  /\ held = [s \in Slots |-> NoEntry]
  /\ lookup = [t \in Lookups |-> Resting]
  /\ writer = [w \in Writers |-> Away]
  /\ told = [i \in Instances |-> 0]
  /\ troubles = 0

Trouble == troubles < MaxTroubles /\ troubles' = troubles + 1

-----------------------------------------------------------------------------
(* Requests. *)

\* Mutant: reading an entry renews it.
HitRenews(t) ==
  /\ lookup[t].pc = "idle"
  /\ ~Locked(Home[t])
  /\ Fresh(held[Slot(t)])
  /\ held' = [held EXCEPT ![Slot(t)].ttl = CacheTtl]
  /\ UNCHANGED <<kind, stored, writes, lookup, writer, told, troubles>>

\* A fresh entry is returned as it is; reading does not renew it.
Hit(t) ==
  /\ lookup[t].pc = "idle"
  /\ ~Locked(Home[t])
  /\ Fresh(held[Slot(t)])
  /\ UNCHANGED cvars

\* A miss, or a shared store that does not answer.
Miss(t) ==
  /\ lookup[t].pc = "idle"
  /\ ~Locked(Home[t])
  /\ \/ ~Fresh(held[Slot(t)]) /\ UNCHANGED troubles
     \/ kind = "shared_budget" /\ Trouble
  /\ lookup' = [lookup EXCEPT ![t].pc = "reading"]
  /\ UNCHANGED <<kind, stored, writes, held, writer, told>>

Fetch(t) ==
  /\ lookup[t].pc = "reading"
  /\ lookup' = [lookup EXCEPT ![t] = [pc |-> "filling", got |-> stored]]
  /\ UNCHANGED <<kind, stored, writes, held, writer, told, troubles>>

\* A vault that answers with an error counts as having no key, and that is
\* cached like any answer; every other failed lookup caches nothing.
FetchFails(t) ==
  /\ lookup[t].pc = "reading"
  /\ Trouble
  /\ \/ lookup' = [lookup EXCEPT ![t] = Resting]
     \/ kind = "vault" /\ lookup' = [lookup EXCEPT ![t] = [pc |-> "filling", got |-> Nothing]]
  /\ UNCHANGED <<kind, stored, writes, held, writer, told>>

Fill(t) ==
  /\ lookup[t].pc = "filling"
  /\ lookup' = [lookup EXCEPT ![t] = Resting]
  /\ \/ /\ held' = [held EXCEPT ![Slot(t)] = [val |-> lookup[t].got, ttl |-> CacheTtl]]
        /\ UNCHANGED troubles
     \/ kind = "shared_budget" /\ Trouble /\ UNCHANGED held
  /\ UNCHANGED <<kind, stored, writes, writer, told>>

-----------------------------------------------------------------------------
(* Writers. *)

Begin(w) ==
  /\ writer[w].todo = <<>>
  /\ writes + Cardinality({v \in Writers : writer[v].todo /= <<>> /\ writer[v].val = 0}) < MaxWrites
  /\ \E p \in Programs : writer' = [writer EXCEPT ![w] = [todo |-> p, val |-> 0]]
  /\ UNCHANGED <<kind, stored, writes, held, lookup, told, troubles>>

\* The step is done; after the last one the caller is told so.
Advance(w, val) ==
  LET rest == Tail(writer[w].todo) IN
    /\ writer' = [writer EXCEPT ![w] = IF rest = <<>> THEN Away ELSE [todo |-> rest, val |-> val]]
    /\ told' = IF kind = "vault" /\ rest = <<>> /\ val > told[Home[w]]
               THEN [told EXCEPT ![Home[w]] = val] ELSE told

\* A second store of the same session repeats its value.
Store(w) ==
  LET val == IF writer[w].val = 0 THEN writes + 1 ELSE writer[w].val IN
    /\ writer[w].todo /= <<>> /\ Head(writer[w].todo) = "store"
    /\ stored' = val
    /\ writes' = IF val > writes THEN val ELSE writes
    /\ Advance(w, val)
    /\ UNCHANGED <<kind, held, lookup, troubles>>

\* The call fails, before or after it took effect: the writer gives up and
\* its caller gets an error.
StoreFails(w) ==
  /\ writer[w].todo /= <<>> /\ Head(writer[w].todo) = "store"
  /\ Trouble
  /\ \/ UNCHANGED <<stored, writes>>
     \/ writer[w].val = 0 /\ stored' = writes + 1 /\ writes' = writes + 1
  /\ writer' = [writer EXCEPT ![w] = Away]
  /\ UNCHANGED <<kind, held, lookup, told>>

\* Only the writer's own instance, or the shared store, forgets the entry.
ClearEntry(w) ==
  /\ writer[w].todo /= <<>> /\ Head(writer[w].todo) = "clear"
  /\ ~Locked(Home[w])
  /\ \/ held' = [held EXCEPT ![Slot(w)] = NoEntry] /\ UNCHANGED troubles
     \/ kind = "shared_budget" /\ Trouble /\ UNCHANGED held
  /\ Advance(w, writer[w].val)
  /\ UNCHANGED <<kind, stored, writes, lookup>>

-----------------------------------------------------------------------------
(* Time and restarts. *)

CacheTick ==
  /\ held' = [s \in Slots |-> IF held[s].ttl > 1 THEN [held[s] EXCEPT !.ttl = @ - 1] ELSE NoEntry]
  /\ UNCHANGED <<kind, stored, writes, lookup, writer, told, troubles>>

Restart(i) ==
  /\ Trouble
  /\ held' = [held EXCEPT ![i] = NoEntry]
  /\ lookup' = [t \in Lookups |-> IF Home[t] = i THEN Resting ELSE lookup[t]]
  /\ writer' = [w \in Writers |-> IF Home[w] = i THEN Away ELSE writer[w]]
  /\ UNCHANGED <<kind, stored, writes, told>>

LookupStep(t) == Fetch(t) \/ FetchFails(t) \/ Fill(t)
WriterStep(w) == Store(w) \/ StoreFails(w) \/ ClearEntry(w)

CacheNext ==
  \/ \E t \in Lookups : Hit(t) \/ Miss(t) \/ LookupStep(t)
  \/ \E w \in Writers : Begin(w) \/ WriterStep(w)
  \/ CacheTick
  \/ \E i \in Instances : Restart(i)

\* Requests and sessions finish what they began, and time passes.
CacheFairness ==
  /\ \A t \in Lookups : WF_cvars(LookupStep(t))
  /\ \A w \in Writers : WF_cvars(WriterStep(w))
  /\ WF_cvars(CacheTick)

CacheSpec == CacheInit /\ [][CacheNext]_cvars /\ CacheFairness

-----------------------------------------------------------------------------
(* Properties. *)

\* Once an instance has confirmed a new or deleted provider key to the caller
\* who set it, it never again holds or hands out an older one: the vault is
\* written before the entry is dropped, and a fetch under way keeps the lock
\* until it has filled the entry (ProviderKeyCache.get, clear).
OwnKeyWriteIsSeen ==
  kind = "vault" =>
    /\ \A i \in Instances : Fresh(held[i]) => held[i].val = Nothing \/ held[i].val >= told[i]
    /\ \A t \in Lookups : lookup[t].pc = "filling" =>
         lookup[t].got = Nothing \/ lookup[t].got >= told[Home[t]]

\* Whatever races a writer loses against a slow fill, on whichever instance
\* and however often the entry is read, when values stop changing every cache
\* ends up with nothing but the stored value (TTLCache, all six users).
CacheCatchesUp == <>[](\A s \in Slots : Fresh(held[s]) => held[s].val = stored)
=============================================================================
