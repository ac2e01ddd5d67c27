------------------------ MODULE ProcessCaches_proofs ------------------------
(***************************************************************************)
(* A provider key confirmed to its caller is never followed by an older    *)
(* one on the same instance, for any number of instances, requests,        *)
(* writers and changes.                                                    *)
(*                                                                         *)
(* The argument is the order of three things.  A writer changes the vault  *)
(* before it drops the entry, so whatever is fetched after the drop is at  *)
(* least as new as the key it confirms.  A fetch keeps the cache's lock    *)
(* until it has filled the entry, and the drop takes the same lock, so no  *)
(* fetch that began before the drop fills the entry after it.  And the     *)
(* vault only ever holds the newest key: each writer stores once.          *)
(***************************************************************************)
EXTENDS ProcessCaches, TLAPS

\* Where a writer of provider keys can be.
VaultTodos == {<<>>, <<"store", "clear">>, <<"clear">>}

VaultTyped ==
  /\ writes \in Nat /\ stored \in Nat
  /\ held \in [Slots -> [val : Int, ttl : Nat]]
  /\ lookup \in [Lookups -> [pc : {"idle", "reading", "filling"}, got : Int]]
  /\ writer \in [Writers -> [todo : VaultTodos, val : Nat]]
  /\ told \in [Instances -> Nat]

\* The newest key is the stored one, and no writer has confirmed or is about
\* to confirm a newer one.
VaultIsNewest ==
  /\ stored = writes
  /\ \A w \in Writers : /\ writer[w].val <= writes
                        /\ writer[w].todo = <<"store", "clear">> => writer[w].val = 0
  /\ \A i \in Instances : told[i] <= writes

VaultInv == kind = "vault" => VaultTyped /\ VaultIsNewest /\ OwnKeyWriteIsSeen

-----------------------------------------------------------------------------

\* What is left of a writer's program after its next step.
LEMMA NextTodo ==
  ASSUME NEW todo \in VaultTodos, todo /= <<>>
  PROVE  /\ Head(todo) = "store" => todo = <<"store", "clear">> /\ Tail(todo) = <<"clear">>
         /\ Head(todo) = "clear" => todo = <<"clear">> /\ Tail(todo) = <<>>
         /\ Tail(todo) \in VaultTodos
         /\ <<"clear">> /= <<>> /\ <<"store", "clear">> /= <<>> /\ <<"clear">> /= <<"store", "clear">>
<1>1. CASE todo = <<"store", "clear">>
  BY <1>1 DEF VaultTodos
<1>2. CASE todo = <<"clear">>
  BY <1>2 DEF VaultTodos
<1> QED BY <1>1, <1>2 DEF VaultTodos

\* Nothing is cached, confirmed or under way when an instance starts.
LEMMA InitVault == CacheInit => VaultInv
<1> SUFFICES ASSUME CacheInit, kind = "vault" PROVE VaultTyped /\ VaultIsNewest /\ OwnKeyWriteIsSeen
  BY DEF VaultInv
<1>1. VaultTyped
  BY DEF CacheInit, VaultTyped, VaultTodos, NoEntry, Nothing, Resting, Away
<1>2. VaultIsNewest
  BY DEF CacheInit, VaultIsNewest, Away
<1>3. OwnKeyWriteIsSeen
  BY DEF CacheInit, OwnKeyWriteIsSeen, Fresh, NoEntry, Resting, Slots
<1> QED BY <1>1, <1>2, <1>3

\* Each step of a request, a writer, the clock or a restart keeps it so.
LEMMA NextVault == VaultInv /\ [CacheNext]_cvars => VaultInv'
<1> SUFFICES ASSUME VaultInv, [CacheNext]_cvars, kind = "vault", kind' = "vault"
             PROVE  VaultTyped' /\ VaultIsNewest' /\ OwnKeyWriteIsSeen'
  <2>1. \A t \in Lookups : Hit(t) \/ Miss(t) \/ LookupStep(t) => kind' = kind
    BY DEF cvars, Hit, Miss, LookupStep, Fetch, FetchFails, Fill
  <2>2. \A w \in Writers : Begin(w) \/ WriterStep(w) => kind' = kind
    BY DEF Begin, WriterStep, Store, StoreFails, ClearEntry
  <2>3. CacheTick \/ (\E i \in Instances : Restart(i)) \/ UNCHANGED cvars => kind' = kind
    BY DEF cvars, CacheTick, Restart
  <2>4. [CacheNext]_cvars => kind' = kind
    BY <2>1, <2>2, <2>3 DEF CacheNext
  <2> QED BY <2>4 DEF VaultInv
<1> USE CacheAssumption
<1>0. VaultTyped /\ VaultIsNewest /\ OwnKeyWriteIsSeen
  BY DEF VaultInv
<1>h. \A i \in Instances : i \in Slots
  BY DEF Slots
<1>s. \A p \in Lookups \cup Writers : Slot(p) = Home[p] /\ Home[p] \in Instances /\ Home[p] \in Slots
  BY DEF Slot, Slots
<1> DEFINE Safe == VaultTyped' /\ VaultIsNewest' /\ OwnKeyWriteIsSeen'
<1>1. ASSUME NEW t \in Lookups, Miss(t) PROVE Safe
  <2>1. VaultTyped'
    BY <1>0, <1>1 DEF Miss, VaultTyped
  <2>2. VaultIsNewest'
    BY <1>0, <1>1 DEF Miss, VaultIsNewest
  <2>3. OwnKeyWriteIsSeen'
    BY <1>0, <1>1 DEF Miss, VaultTyped, OwnKeyWriteIsSeen
  <2> QED BY <2>1, <2>2, <2>3
<1>2. ASSUME NEW t \in Lookups, Fetch(t) PROVE Safe
  <2>1. VaultTyped'
    BY <1>0, <1>2 DEF Fetch, VaultTyped
  <2>2. VaultIsNewest'
    BY <1>0, <1>2 DEF Fetch, VaultIsNewest
  <2>3. OwnKeyWriteIsSeen'
    BY <1>0, <1>2, <1>s DEF Fetch, VaultTyped, OwnKeyWriteIsSeen, VaultIsNewest
  <2> QED BY <2>1, <2>2, <2>3
<1>3. ASSUME NEW t \in Lookups, FetchFails(t) PROVE Safe
  <2>1. VaultTyped'
    BY <1>0, <1>3 DEF FetchFails, VaultTyped, Resting, Nothing
  <2>2. VaultIsNewest'
    BY <1>0, <1>3 DEF FetchFails, VaultIsNewest
  <2>3. OwnKeyWriteIsSeen'
    BY <1>0, <1>3 DEF FetchFails, VaultTyped, OwnKeyWriteIsSeen, Resting
  <2> QED BY <2>1, <2>2, <2>3
<1>4. ASSUME NEW t \in Lookups, Fill(t) PROVE Safe
  <2>1. VaultTyped'
    BY <1>0, <1>4, <1>s DEF Fill, VaultTyped, Resting, Nothing
  <2>2. VaultIsNewest'
    BY <1>0, <1>4 DEF Fill, VaultIsNewest
  <2>3. OwnKeyWriteIsSeen'
    <3>1. /\ lookup' = [lookup EXCEPT ![t] = Resting] /\ told' = told
          /\ held' = [held EXCEPT ![Home[t]] = [val |-> lookup[t].got, ttl |-> CacheTtl]]
          /\ lookup[t].got = Nothing \/ lookup[t].got >= told[Home[t]]
      BY <1>0, <1>4, <1>s DEF Fill, OwnKeyWriteIsSeen
    <3>2. \A i \in Instances : Fresh(held'[i]) => held'[i].val = Nothing \/ held'[i].val >= told'[i]
      BY <1>0, <1>s, <1>h, <3>1 DEF VaultTyped, OwnKeyWriteIsSeen
    <3>3. \A u \in Lookups : lookup'[u].pc = "filling" =>
            lookup'[u].got = Nothing \/ lookup'[u].got >= told'[Home[u]]
      BY <1>0, <3>1 DEF VaultTyped, OwnKeyWriteIsSeen, Resting
    <3> QED BY <3>2, <3>3 DEF OwnKeyWriteIsSeen, Fresh
  <2> QED BY <2>1, <2>2, <2>3
<1>5. ASSUME NEW w \in Writers, Begin(w) PROVE Safe
  <2>1. VaultTyped'
    BY <1>0, <1>5 DEF Begin, VaultTyped, Programs, KeyPrograms, VaultTodos
  <2>2. VaultIsNewest'
    BY <1>0, <1>5 DEF Begin, VaultTyped, VaultIsNewest
  <2>3. OwnKeyWriteIsSeen'
    BY <1>0, <1>5 DEF Begin, OwnKeyWriteIsSeen
  <2> QED BY <2>1, <2>2, <2>3
<1>6. ASSUME NEW w \in Writers, Store(w) PROVE Safe
  <2>0. /\ writer[w].todo = <<"store", "clear">> /\ writer[w].val = 0
        /\ Tail(writer[w].todo) = <<"clear">> /\ <<"clear">> /= <<>>
        /\ <<"clear">> /= <<"store", "clear">>
    BY <1>0, <1>6, NextTodo DEF Store, VaultTyped, VaultIsNewest
  <2>1. /\ stored' = writes + 1 /\ writes' = writes + 1
        /\ writer' = [writer EXCEPT ![w] = [todo |-> <<"clear">>, val |-> writes + 1]]
        /\ told' = told /\ held' = held /\ lookup' = lookup
    BY <1>0, <1>6, <2>0 DEF Store, Advance, VaultTyped
  <2>2. VaultTyped'
    BY <1>0, <2>1 DEF VaultTyped, VaultTodos
  <2>3. VaultIsNewest'
    BY <1>0, <2>0, <2>1 DEF VaultTyped, VaultIsNewest
  <2>4. OwnKeyWriteIsSeen'
    BY <1>0, <2>1 DEF OwnKeyWriteIsSeen
  <2> QED BY <2>2, <2>3, <2>4
<1>7. ASSUME NEW w \in Writers, StoreFails(w) PROVE Safe
  <2>1. VaultTyped'
    BY <1>0, <1>7 DEF StoreFails, VaultTyped, VaultTodos, Away
  <2>2. VaultIsNewest'
    BY <1>0, <1>7 DEF StoreFails, VaultTyped, VaultIsNewest, Away
  <2>3. OwnKeyWriteIsSeen'
    BY <1>0, <1>7 DEF StoreFails, OwnKeyWriteIsSeen
  <2> QED BY <2>1, <2>2, <2>3
<1>8. ASSUME NEW w \in Writers, ClearEntry(w) PROVE Safe
  <2>0. /\ writer[w].todo = <<"clear">> /\ Tail(writer[w].todo) = <<>>
        /\ Home[w] \in Instances /\ Home[w] \in Slots
    BY <1>0, <1>8, <1>s, NextTodo DEF ClearEntry, VaultTyped
  <2>1. /\ held' = [held EXCEPT ![Home[w]] = NoEntry]
        /\ writer' = [writer EXCEPT ![w] = Away]
        /\ told' = IF writer[w].val > told[Home[w]] THEN [told EXCEPT ![Home[w]] = writer[w].val] ELSE told
        /\ UNCHANGED <<stored, writes, lookup>>
    BY <1>8, <1>s, <2>0 DEF ClearEntry, Advance
  <2>2. \A t \in Lookups : Home[t] = Home[w] => lookup[t].pc = "idle"
    BY <1>8 DEF ClearEntry, Locked, FetchesUnderLock
  <2>3. VaultTyped'
    BY <1>0, <2>0, <2>1 DEF VaultTyped, VaultTodos, NoEntry, Nothing, Away
  <2>4. VaultIsNewest'
    BY <1>0, <2>0, <2>1 DEF VaultTyped, VaultIsNewest, Away
  <2>5. OwnKeyWriteIsSeen'
    <3>1. ASSUME NEW i \in Instances, Fresh(held'[i])
          PROVE  held'[i].val = Nothing \/ held'[i].val >= told'[i]
      <4>1. i # Home[w]
        BY <1>0, <2>0, <2>1, <3>1 DEF VaultTyped, Fresh, NoEntry
      <4> QED BY <1>0, <1>h, <2>0, <2>1, <3>1, <4>1 DEF VaultTyped, OwnKeyWriteIsSeen
    <3>2. ASSUME NEW t \in Lookups, lookup'[t].pc = "filling"
          PROVE  lookup'[t].got = Nothing \/ lookup'[t].got >= told'[Home[t]]
      <4>1. Home[t] # Home[w]
        BY <2>1, <2>2, <3>2
      <4> QED BY <1>0, <1>s, <2>0, <2>1, <3>2, <4>1 DEF VaultTyped, OwnKeyWriteIsSeen
    <3> QED BY <3>1, <3>2 DEF OwnKeyWriteIsSeen, Fresh
  <2> QED BY <2>3, <2>4, <2>5
<1>9. ASSUME CacheTick PROVE Safe
  <2>1. VaultTyped'
    BY <1>0, <1>9 DEF CacheTick, VaultTyped, NoEntry, Nothing
  <2>2. VaultIsNewest'
    BY <1>0, <1>9 DEF CacheTick, VaultIsNewest
  <2>3. OwnKeyWriteIsSeen'
    BY <1>0, <1>9, <1>h DEF CacheTick, VaultTyped, OwnKeyWriteIsSeen, Fresh, NoEntry
  <2> QED BY <2>1, <2>2, <2>3
<1>10. ASSUME NEW i \in Instances, Restart(i) PROVE Safe
  <2>1. VaultTyped'
    BY <1>0, <1>10, <1>h DEF Restart, VaultTyped, VaultTodos, NoEntry, Nothing, Resting, Away
  <2>2. VaultIsNewest'
    BY <1>0, <1>10 DEF Restart, VaultTyped, VaultIsNewest, Away
  <2>3. OwnKeyWriteIsSeen'
    BY <1>0, <1>10, <1>h DEF Restart, VaultTyped, OwnKeyWriteIsSeen, Fresh, NoEntry, Resting
  <2> QED BY <2>1, <2>2, <2>3
<1>11. ASSUME UNCHANGED cvars PROVE Safe
  BY <1>0, <1>11 DEF cvars, VaultTyped, VaultIsNewest, OwnKeyWriteIsSeen, Slots
<1>12. ASSUME NEW t \in Lookups, Hit(t) PROVE Safe
  BY <1>11, <1>12 DEF Hit
<1> QED BY <1>1, <1>2, <1>3, <1>4, <1>5, <1>6, <1>7, <1>8, <1>9, <1>10, <1>11, <1>12
        DEF CacheNext, LookupStep, WriterStep

\* Once an instance has confirmed a new or deleted provider key, it never
\* again holds or hands out an older one (ProviderKeyCache.get, clear).
THEOREM ConfirmedKeyIsSeen == CacheSpec => []OwnKeyWriteIsSeen
<1>1. VaultInv => OwnKeyWriteIsSeen
  BY DEF VaultInv, OwnKeyWriteIsSeen
<1> QED BY <1>1, InitVault, NextVault, PTL DEF CacheSpec
=============================================================================
