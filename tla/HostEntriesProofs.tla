------------------------- MODULE HostEntriesProofs --------------------------
(***************************************************************************)
(* Proofs about HostEntries, for any number of threads and lookups and for *)
(* any lists.                                                              *)
(***************************************************************************)
EXTENDS HostEntries, TLAPS

\* What a thread is still going to do to the entry of a host.
WillImport(t) == pc[t] = "import"
WillAllow(t, h) ==
    \/ pc[t] = "allowed"
    \/ pc[t] = "allow" /\ \E i \in todo[t] : h \in i.matches
WillRedirect(t, h) ==
    \/ pc[t] \in {"import", "allowed", "allow", "redirected"}
    \/ pc[t] = "redirect" /\ \E i \in todo[t] : i.host = h

\* What the loops have left is part of the lists, and of the redirections of a
\* host those of the oldest sources.
Snapshots ==
    \A t \in Thread :
        /\ pc[t] = "allow" => todo[t] \subseteq OfType(lists, "ALLOWED")
        /\ pc[t] = "redirect" =>
              /\ todo[t] \subseteq OfType(lists, "REDIRECTED")
              /\ \A i \in todo[t] : \A k \in RedirectedRows(i.host) :
                    k.source < i.source => k \in todo[t]

\* The entry of a host is right, or a thread is going to make it right.
RedirectedRight(h) ==
    RedirectedRows(h) # {} => entries[h] \in Redirections(h) \/ \E t \in Thread : WillRedirect(t, h)

OthersListed(h) ==
    RedirectedRows(h) = {} =>
        \/ entries[h] = "NONE"
        \/ entries[h] = "BLOCKED" /\ h \in BlockedHosts

AllowedRight(h) ==
    RedirectedRows(h) = {} /\ h \in AllowedHosts =>
        entries[h] = "NONE" \/ \E t \in Thread : WillAllow(t, h)

BlockedRight(h) ==
    RedirectedRows(h) = {} /\ h \in BlockedHosts \ AllowedHosts =>
        entries[h] = "BLOCKED" \/ \E t \in Thread : WillImport(t)

EntriesRight ==
    \A h \in Host :
        RedirectedRight(h) /\ OthersListed(h) /\ AllowedRight(h) /\ BlockedRight(h)

\* What is cached or about to be is in the table, or a thread is going to clear
\* the cache, or the lookup was overtaken by the last thread that did.
CacheRight ==
    \/ \E t \in Thread : pc[t] # "idle"
    \/ /\ \A h \in Host \ straddled : cache[h] \in {"NONE", entries[h]}
       /\ \A r \in Reader :
             lookup[r] = "put" /\ key[r] \notin straddled => found[r] = entries[key[r]]

Inv ==
    /\ TypeOK
    /\ undisturbed => Snapshots /\ EntriesRight /\ CacheRight
-----------------------------------------------------------------------------
\* Rows have the fields of their type.
LEMMA ItemFields ==
    ASSUME NEW i \in Item
    PROVE  /\ i.source \in Nat
           /\ i.type \in {"BLOCKED", "ALLOWED", "REDIRECTED"}
           /\ i.type = "BLOCKED" => i.host \in Host
           /\ i.type = "ALLOWED" => i.matches \subseteq Host
           /\ i.type = "REDIRECTED" => i.host \in Host /\ i.redirection \in Redirection
BY EntriesAssumption DEF BlockedItem, AllowedItem, RedirectedItem

LEMMA InitInv == Init => Inv
<1> SUFFICES ASSUME Init PROVE Inv
    OBVIOUS
<1>1. TypeOK
    BY DEF Init, TypeOK, Entry
<1>2. Snapshots /\ EntriesRight
    BY DEF Init, Snapshots, EntriesRight, RedirectedRight, OthersListed, AllowedRight,
           BlockedRight, RedirectedRows, BlockedHosts, AllowedHosts, OfType
<1>3. CacheRight
    BY DEF Init, CacheRight
<1> QED
    BY <1>1, <1>2, <1>3 DEF Inv

\* A change of the lists makes no promise.
LEMMA ListsChangeInv ==
    ASSUME Inv, NEW rows \in SUBSET Item, ListsChange(rows)
    PROVE  Inv'
BY DEF Inv, TypeOK, ListsChange, syncing, looking

\* The entries and the lists, as far as the promise about them goes.
entriesVars == <<lists, entries, pc, todo>>

LEMMA EntriesUnchanged ==
    ASSUME UNCHANGED entriesVars
    PROVE  Snapshots' = Snapshots /\ EntriesRight' = EntriesRight
BY DEF entriesVars, Snapshots, EntriesRight, RedirectedRight, OthersListed, AllowedRight,
       BlockedRight, RedirectedRows, Redirections, BlockedHosts, AllowedHosts, OfType,
       WillImport, WillAllow, WillRedirect

\* A lookup step.
LEMMA LookupInv ==
    ASSUME Inv, NEW r \in Reader,
           (\E h \in Host : Get(r, h)) \/ Create(r) \/ Put(r)
    PROVE  Inv'
<1> USE DEF Inv
<1>1. UNCHANGED entriesVars /\ undisturbed' = undisturbed /\ straddled' = straddled
    BY DEF Get, Create, Put, table, syncing, entriesVars
<1>2. TypeOK'
  <2>1. CASE \E h \in Host : Get(r, h)
      BY <2>1 DEF TypeOK, Get, table, syncing
  <2>2. CASE Create(r)
      BY <2>2 DEF TypeOK, Create, table, syncing
  <2>3. CASE Put(r)
      BY <2>3 DEF TypeOK, Put, table, syncing, Entry
  <2> QED
      BY <2>1, <2>2, <2>3
<1>3. ASSUME undisturbed PROVE CacheRight'
  <2>1. CASE \E t \in Thread : pc[t] # "idle"
      BY <1>1, <2>1 DEF CacheRight, entriesVars
  <2>2. CASE \A t \in Thread : pc[t] = "idle"
    <3>1. /\ \A h \in Host \ straddled : cache[h] \in {"NONE", entries[h]}
          /\ \A q \in Reader :
                lookup[q] = "put" /\ key[q] \notin straddled => found[q] = entries[key[q]]
        BY <1>3, <2>2 DEF CacheRight
    <3>2. CASE \E h \in Host : Get(r, h)
        BY <1>1, <3>1, <3>2 DEF CacheRight, Get, entriesVars, TypeOK
    <3>3. CASE Create(r)
        BY <1>1, <3>1, <3>3 DEF CacheRight, Create, entriesVars, TypeOK
    <3>4. CASE Put(r)
      <4>1. \A h \in Host \ straddled : cache'[h] \in {"NONE", entries[h]}
          BY <3>1, <3>4 DEF Put, TypeOK
      <4>2. \A q \in Reader : lookup'[q] = "put" => lookup[q] = "put"
          BY <3>4 DEF Put, TypeOK
      <4> QED
          BY <1>1, <3>1, <3>4, <4>1, <4>2 DEF CacheRight, Put, entriesVars
    <3> QED
        BY <3>2, <3>3, <3>4
  <2> QED
      BY <2>1, <2>2
<1> QED
    BY <1>1, <1>2, <1>3, EntriesUnchanged

LEMMA KillInv == Inv /\ Kill => Inv'
<1> SUFFICES ASSUME Inv, Kill PROVE Inv'
    OBVIOUS
<1> USE DEF Inv
<1>1. TypeOK'
    BY DEF Kill, TypeOK, Entry, table
<1>2. ASSUME undisturbed' PROVE Snapshots' /\ EntriesRight' /\ CacheRight'
  <2>1. undisturbed /\ \A t \in Thread : ~InSync(t)
      BY <1>2 DEF Kill
  <2>2. \A t \in Thread, h \in Host : ~WillImport(t) /\ ~WillAllow(t, h) /\ ~WillRedirect(t, h)
      BY <2>1 DEF InSync, WillImport, WillAllow, WillRedirect
  <2>3. EntriesRight'
      BY <2>1, <2>2 DEF Kill, table, EntriesRight, RedirectedRight, OthersListed, AllowedRight,
             BlockedRight, RedirectedRows, Redirections, BlockedHosts, AllowedHosts, OfType
  <2>4. Snapshots' /\ CacheRight'
      BY DEF Kill, Snapshots, CacheRight
  <2> QED
      BY <2>3, <2>4
<1> QED
    BY <1>1, <1>2

-----------------------------------------------------------------------------
(* The statements of sync.                                                 *)

LEMMA SyncTypes ==
    ASSUME TypeOK, NEW t \in Thread, Sync(t)
    PROVE  TypeOK'
<1>1. CASE Clear(t)
    BY <1>1 DEF Clear, TypeOK, Entry, looking
<1>2. CASE ImportBlocked(t)
    BY <1>2 DEF ImportBlocked, Advances, After, TypeOK, Entry, looking
<1>3. CASE SyncFails(t)
    BY <1>3 DEF SyncFails, TypeOK, table, looking
<1>4. CASE GetEnabledAllowedHosts(t)
    BY <1>4 DEF GetEnabledAllowedHosts, EnabledAllowedHosts, OfType, Advances, After, TypeOK, looking
<1>5. CASE AllowHost(t)
    BY <1>5 DEF AllowHost, TypeOK, Entry, looking
<1>6. CASE GetEnabledRedirectedHosts(t)
    BY <1>6 DEF GetEnabledRedirectedHosts, OfType, Advances, After, TypeOK, looking
<1>7. CASE RedirectHost(t)
  <2>1. PICK i \in todo[t] : /\ todo' = [todo EXCEPT ![t] = @ \ {i}]
                             /\ entries' = [entries EXCEPT ![i.host] = i.redirection]
      BY <1>7 DEF RedirectHost
  <2>2. i.redirection \in Entry
      BY <1>7, ItemFields DEF RedirectHost, TypeOK, Entry
  <2> QED
      BY <1>7, <2>1, <2>2 DEF RedirectHost, TypeOK, looking
<1>8. CASE EndOfLoop(t)
    BY <1>8 DEF EndOfLoop, Advances, After, TypeOK, looking
<1>9. CASE Apply(t)
    BY <1>9 DEF Apply, EvictAll, TypeOK, Entry, table, looking
<1> QED
    BY <1>1, <1>2, <1>3, <1>4, <1>5, <1>6, <1>7, <1>8, <1>9 DEF Sync

\* A thread in a sync is going to clear the cache; when it does, the lookups
\* that have read are those that straddle it.
LEMMA SyncCache ==
    ASSUME Inv, NEW t \in Thread, Sync(t), undisturbed'
    PROVE  CacheRight'
<1>1. CASE Apply(t)
    BY <1>1 DEF Apply, EvictAll, CacheRight, Inv, TypeOK, looking
<1>2. CASE ~Apply(t)
  <2>1. pc'[t] # "idle"
    <3>1. ~SyncFails(t)
        BY DEF SyncFails
    <3> QED
        BY <1>2, <3>1 DEF Sync, Clear, ImportBlocked, GetEnabledAllowedHosts, AllowHost,
               GetEnabledRedirectedHosts, RedirectHost, EndOfLoop, Advances, After, Inv, TypeOK
  <2> QED
      BY <2>1 DEF CacheRight
<1> QED
    BY <1>1, <1>2

\* The promises about entries and lists, of all hosts.
EntriesInv == Snapshots /\ EntriesRight

\* clear: this thread is going to make everything right.
LEMMA ClearInv ==
    ASSUME Inv, NEW t \in Thread, Clear(t), undisturbed'
    PROVE  EntriesInv'
<1> USE DEF Inv
<1>1. /\ pc'[t] = "import"
      /\ \A u \in Thread : u # t => pc'[u] = pc[u]
      /\ entries' = [h \in Host |-> "NONE"]
      /\ UNCHANGED <<lists, todo>>
    BY DEF Clear, TypeOK
<1>2. undisturbed \/ \A u \in Thread : ~InSync(u)
    BY DEF Clear, TypeOK
<1>3. Snapshots'
    BY <1>1, <1>2 DEF Snapshots, RedirectedRows, OfType, InSync
<1>4. WillImport(t)' /\ \A h \in Host : WillRedirect(t, h)'
    BY <1>1 DEF WillImport, WillRedirect
<1>5. EntriesRight'
    BY <1>1, <1>4 DEF EntriesRight, RedirectedRight, OthersListed, AllowedRight, BlockedRight
<1> QED
    BY <1>3, <1>5 DEF EntriesInv

\* importBlocked: the rest of this sync is going to right what it inserts.
LEMMA ImportBlockedInv ==
    ASSUME Inv, NEW t \in Thread, ImportBlocked(t), undisturbed'
    PROVE  EntriesInv'
<1> USE DEF Inv
<1>1. /\ pc[t] = "import" /\ pc'[t] = "allowed"
      /\ \A u \in Thread : u # t => pc'[u] = pc[u]
      /\ undisturbed
      /\ UNCHANGED <<lists, todo>>
    BY DEF ImportBlocked, Advances, After, TypeOK
<1>2. \A h \in Host : entries'[h] = IF h \in BlockedHosts THEN "BLOCKED" ELSE entries[h]
    BY DEF ImportBlocked
<1>3. Snapshots'
    BY <1>1 DEF Snapshots, RedirectedRows, OfType
<1>4. \A h \in Host : WillRedirect(t, h)' /\ WillAllow(t, h)'
    BY <1>1 DEF WillRedirect, WillAllow
<1>5. EntriesRight
    BY <1>1
<1>6. EntriesRight'
    BY <1>1, <1>2, <1>4, <1>5 DEF EntriesRight, RedirectedRight, OthersListed, AllowedRight,
           BlockedRight, RedirectedRows, BlockedHosts, AllowedHosts, OfType
<1> QED
    BY <1>3, <1>6 DEF EntriesInv

\* A step that reads rows, or ends a loop, changes no entry: what the thread was
\* going to do, it still is, or it has done.
LEMMA GetEnabledAllowedHostsInv ==
    ASSUME Inv, NEW t \in Thread, GetEnabledAllowedHosts(t), undisturbed'
    PROVE  EntriesInv'
<1> USE DEF Inv
<1>1. /\ pc[t] = "allowed" /\ pc'[t] = "allow" /\ todo'[t] = OfType(lists, "ALLOWED")
      /\ \A u \in Thread : u # t => pc'[u] = pc[u] /\ todo'[u] = todo[u]
      /\ undisturbed
      /\ UNCHANGED <<lists, entries>>
    BY DEF GetEnabledAllowedHosts, EnabledAllowedHosts, Advances, After, TypeOK
<1>2. Snapshots'
    BY <1>1 DEF Snapshots, RedirectedRows, OfType
<1>3. \A u \in Thread, h \in Host :
        /\ WillImport(u) => WillImport(u)'
        /\ WillRedirect(u, h) => WillRedirect(u, h)'
        /\ WillAllow(u, h) /\ h \in AllowedHosts => WillAllow(u, h)'
    BY <1>1 DEF WillImport, WillRedirect, WillAllow, AllowedHosts
<1>4. EntriesRight
    BY <1>1
<1>5. EntriesRight'
    BY <1>1, <1>3, <1>4 DEF EntriesRight, RedirectedRight, OthersListed, AllowedRight,
           BlockedRight, RedirectedRows, Redirections, BlockedHosts, AllowedHosts, OfType
<1> QED
    BY <1>2, <1>5 DEF EntriesInv

LEMMA GetEnabledRedirectedHostsInv ==
    ASSUME Inv, NEW t \in Thread, GetEnabledRedirectedHosts(t), undisturbed'
    PROVE  EntriesInv'
<1> USE DEF Inv
<1>1. /\ pc[t] = "redirected" /\ pc'[t] = "redirect" /\ todo'[t] = OfType(lists, "REDIRECTED")
      /\ \A u \in Thread : u # t => pc'[u] = pc[u] /\ todo'[u] = todo[u]
      /\ undisturbed
      /\ UNCHANGED <<lists, entries>>
    BY DEF GetEnabledRedirectedHosts, Advances, After, TypeOK
<1>2. Snapshots'
    BY <1>1 DEF Snapshots, RedirectedRows, OfType
<1>3. \A u \in Thread, h \in Host :
        /\ WillImport(u) => WillImport(u)'
        /\ WillRedirect(u, h) /\ RedirectedRows(h) # {} => WillRedirect(u, h)'
        /\ WillAllow(u, h) => WillAllow(u, h)'
    BY <1>1 DEF WillImport, WillRedirect, WillAllow, RedirectedRows
<1>4. EntriesRight
    BY <1>1
<1>5. EntriesRight'
    BY <1>1, <1>3, <1>4 DEF EntriesRight, RedirectedRight, OthersListed, AllowedRight,
           BlockedRight, RedirectedRows, Redirections, BlockedHosts, AllowedHosts, OfType
<1> QED
    BY <1>2, <1>5 DEF EntriesInv

LEMMA EndOfLoopInv ==
    ASSUME Inv, NEW t \in Thread, EndOfLoop(t), undisturbed'
    PROVE  EntriesInv'
<1> USE DEF Inv
<1>1. /\ \/ pc[t] = "allow" /\ pc'[t] = "redirected"
         \/ pc[t] = "redirect" /\ pc'[t] = "apply"
      /\ todo[t] = {}
      /\ \A u \in Thread : u # t => pc'[u] = pc[u]
      /\ undisturbed
      /\ UNCHANGED <<lists, entries, todo>>
    BY DEF EndOfLoop, Advances, After, TypeOK
<1>2. Snapshots'
    BY <1>1 DEF Snapshots, RedirectedRows, OfType
<1>3. \A u \in Thread, h \in Host :
        /\ WillImport(u) => WillImport(u)'
        /\ WillRedirect(u, h) => WillRedirect(u, h)'
        /\ WillAllow(u, h) => WillAllow(u, h)'
    BY <1>1 DEF WillImport, WillRedirect, WillAllow
<1>4. EntriesRight
    BY <1>1
<1>5. EntriesRight'
    BY <1>1, <1>3, <1>4 DEF EntriesRight, RedirectedRight, OthersListed, AllowedRight,
           BlockedRight, RedirectedRows, Redirections, BlockedHosts, AllowedHosts, OfType
<1> QED
    BY <1>2, <1>5 DEF EntriesInv

\* allowHost deletes entries of allowed hosts only; their redirections come back.
LEMMA AllowHostInv ==
    ASSUME Inv, NEW t \in Thread, AllowHost(t), undisturbed'
    PROVE  EntriesInv'
<1> USE DEF Inv
<1>1. /\ pc[t] = "allow" /\ undisturbed
      /\ UNCHANGED <<lists, pc>>
    BY DEF AllowHost
<1>2. PICK i \in todo[t] :
        /\ todo' = [todo EXCEPT ![t] = @ \ {i}]
        /\ entries' = [h \in Host |-> IF h \in i.matches THEN "NONE" ELSE entries[h]]
    BY DEF AllowHost
<1>3. /\ todo'[t] = todo[t] \ {i}
      /\ \A u \in Thread : u # t => todo'[u] = todo[u]
      /\ \A h \in i.matches : h \in AllowedHosts
    BY <1>1, <1>2 DEF TypeOK, Snapshots, AllowedHosts
<1>4. Snapshots'
    BY <1>1, <1>3 DEF Snapshots, RedirectedRows, OfType
<1>5. \A u \in Thread, h \in Host :
        /\ WillImport(u) => WillImport(u)'
        /\ WillRedirect(u, h) => WillRedirect(u, h)'
        /\ WillRedirect(t, h)'
        /\ WillAllow(u, h) => WillAllow(u, h)' \/ h \in i.matches
    BY <1>1, <1>3 DEF WillImport, WillRedirect, WillAllow
<1>6. EntriesRight
    BY <1>1
<1>7. EntriesRight'
    BY <1>1, <1>2, <1>3, <1>5, <1>6 DEF EntriesRight, RedirectedRight, OthersListed,
           AllowedRight, BlockedRight, RedirectedRows, Redirections, BlockedHosts,
           AllowedHosts, OfType
<1> QED
    BY <1>4, <1>7 DEF EntriesInv

\* redirectHost: the last redirection of a host a sync inserts is one of the
\* oldest source.
LEMMA RedirectHostInv ==
    ASSUME Inv, NEW t \in Thread, RedirectHost(t), undisturbed'
    PROVE  EntriesInv'
<1> USE DEF Inv
<1>1. /\ pc[t] = "redirect" /\ undisturbed
      /\ UNCHANGED <<lists, pc>>
    BY DEF RedirectHost
<1>2. PICK i \in todo[t] :
        /\ \A j \in todo[t] : ~Before(j, i)
        /\ todo' = [todo EXCEPT ![t] = @ \ {i}]
        /\ entries' = [entries EXCEPT ![i.host] = i.redirection]
    BY DEF RedirectHost
<1>3. /\ todo'[t] = todo[t] \ {i}
      /\ \A u \in Thread : u # t => todo'[u] = todo[u]
      /\ todo[t] \subseteq OfType(lists, "REDIRECTED")
      /\ \A j \in todo[t] : \A k \in RedirectedRows(j.host) : k.source < j.source => k \in todo[t]
      /\ lists \subseteq Item
    BY <1>1, <1>2 DEF TypeOK, Snapshots
<1>4. /\ i \in RedirectedRows(i.host) /\ i.host \in Host /\ i.source \in Nat
      /\ \A j \in todo[t] : j.source \in Nat /\ j.host \in Host
    BY <1>3, ItemFields DEF OfType, RedirectedRows
<1>5. ASSUME NEW j \in todo[t] \ {i}, NEW k \in RedirectedRows(j.host), k.source < j.source
      PROVE  k \in todo[t] \ {i}
    BY <1>2, <1>3, <1>4, <1>5 DEF Before, RedirectedRows
<1>6. Snapshots'
    BY <1>1, <1>3, <1>5 DEF Snapshots, RedirectedRows, OfType
<1>7. ASSUME ~WillRedirect(t, i.host)' PROVE i.redirection \in Redirections(i.host)
  <2>1. \A j \in todo[t] \ {i} : j.host # i.host
      BY <1>1, <1>3, <1>7 DEF WillRedirect
  <2>2. \A k \in RedirectedRows(i.host) : k.source \in Nat /\ k.host = i.host
      BY <1>3, ItemFields DEF RedirectedRows, OfType
  <2>3. \A k \in RedirectedRows(i.host) : i.source <= k.source
      BY <1>3, <1>4, <2>1, <2>2
  <2> QED
      BY <1>4, <2>3 DEF Redirections
<1>8. \A u \in Thread, h \in Host :
        /\ WillImport(u) => WillImport(u)'
        /\ WillRedirect(u, h) => WillRedirect(u, h)' \/ (u = t /\ h = i.host)
        /\ WillAllow(u, h) => WillAllow(u, h)'
    BY <1>1, <1>3 DEF WillImport, WillRedirect, WillAllow
<1>9. /\ entries'[i.host] = i.redirection
      /\ \A h \in Host : h # i.host => entries'[h] = entries[h]
    BY <1>2, <1>4 DEF TypeOK
<1>10. EntriesRight
    BY <1>1
<1>11. /\ \A h \in Host : RedirectedRows(h)' = RedirectedRows(h)
       /\ \A h \in Host : Redirections(h)' = Redirections(h)
       /\ BlockedHosts' = BlockedHosts /\ AllowedHosts' = AllowedHosts
    BY <1>1 DEF RedirectedRows, Redirections, BlockedHosts, AllowedHosts, OfType
<1>12. ASSUME NEW h \in Host PROVE RedirectedRight(h)'
  <2>1. CASE h = i.host
      BY <1>7, <1>9, <1>11, <2>1 DEF RedirectedRight
  <2>2. CASE h # i.host
      BY <1>8, <1>9, <1>10, <1>11, <2>2 DEF RedirectedRight, EntriesRight
  <2> QED
      BY <2>1, <2>2
<1>13. ASSUME NEW h \in Host PROVE OthersListed(h)' /\ AllowedRight(h)' /\ BlockedRight(h)'
  <2>1. CASE h = i.host
      BY <1>4, <1>11, <2>1 DEF OthersListed, AllowedRight, BlockedRight
  <2>2. CASE h # i.host
      BY <1>8, <1>9, <1>10, <1>11, <2>2 DEF OthersListed, AllowedRight, BlockedRight, EntriesRight
  <2> QED
      BY <2>1, <2>2
<1>14. EntriesRight'
    BY <1>12, <1>13 DEF EntriesRight
<1> QED
    BY <1>6, <1>14 DEF EntriesInv

LEMMA ApplyInv ==
    ASSUME Inv, NEW t \in Thread, Apply(t), undisturbed'
    PROVE  EntriesInv'
<1> USE DEF Inv
<1>1. /\ pc[t] \in {"apply", "idle"} /\ pc'[t] = "idle"
      /\ \A u \in Thread : u # t => pc'[u] = pc[u]
      /\ undisturbed
      /\ UNCHANGED <<lists, entries, todo>>
    BY DEF Apply, TypeOK, table
<1>2. Snapshots'
    BY <1>1 DEF Snapshots, RedirectedRows, OfType
<1>3. \A u \in Thread, h \in Host :
        /\ WillImport(u) => WillImport(u)'
        /\ WillRedirect(u, h) => WillRedirect(u, h)'
        /\ WillAllow(u, h) => WillAllow(u, h)'
    BY <1>1 DEF WillImport, WillRedirect, WillAllow
<1>4. EntriesRight
    BY <1>1
<1>5. EntriesRight'
    BY <1>1, <1>3, <1>4 DEF EntriesRight, RedirectedRight, OthersListed, AllowedRight,
           BlockedRight, RedirectedRows, Redirections, BlockedHosts, AllowedHosts, OfType
<1> QED
    BY <1>2, <1>5 DEF EntriesInv

-----------------------------------------------------------------------------
LEMMA SyncInv ==
    ASSUME Inv, NEW t \in Thread, Sync(t)
    PROVE  Inv'
<1>1. TypeOK'
    BY SyncTypes DEF Inv
<1>2. ASSUME undisturbed' PROVE EntriesInv'
  <2>1. ~SyncFails(t)
      BY <1>2 DEF SyncFails
  <2> QED
      BY <1>2, <2>1, ClearInv, ImportBlockedInv, GetEnabledAllowedHostsInv, AllowHostInv,
         GetEnabledRedirectedHostsInv, RedirectHostInv, EndOfLoopInv, ApplyInv DEF Sync
<1>3. undisturbed' => CacheRight'
    BY SyncCache
<1> QED
    BY <1>1, <1>2, <1>3 DEF Inv, EntriesInv

\* Inv is inductive.
LEMMA NextInv == Inv /\ [Next]_vars => Inv'
<1> SUFFICES ASSUME Inv, [Next]_vars PROVE Inv'
    OBVIOUS
<1>1. CASE \E i \in Item : AddItem(i) \/ RemoveItem(i)
  <2>1. PICK i \in Item : ListsChange(lists \cup {i}) \/ ListsChange(lists \ {i})
      BY <1>1 DEF AddItem, RemoveItem
  <2>2. lists \subseteq Item
      BY DEF Inv, TypeOK
  <2> QED
      BY <2>1, <2>2, ListsChangeInv
<1>2. CASE \E s \in {i.source : i \in Item}, enabled \in BOOLEAN : SetSourceItemsEnabled(s, enabled)
  <2>1. PICK s \in {i.source : i \in Item}, enabled \in BOOLEAN : SetSourceItemsEnabled(s, enabled)
      BY <1>2
  <2>2. ListsChange(lists \cup {i \in Item : i.source = s})
          \/ ListsChange(lists \ {i \in Item : i.source = s})
      BY <2>1 DEF SetSourceItemsEnabled
  <2>3. lists \subseteq Item
      BY DEF Inv, TypeOK
  <2> QED
      BY <2>2, <2>3, ListsChangeInv
<1>3. CASE \E t \in Thread : Sync(t)
    BY <1>3, SyncInv
<1>4. CASE \E r \in Reader : (\E h \in Host : Get(r, h)) \/ Create(r) \/ Put(r)
    BY <1>4, LookupInv
<1>5. CASE Kill
    BY <1>5, KillInv
<1>6. CASE UNCHANGED vars
  <2>1. UNCHANGED entriesVars
      BY <1>6 DEF vars, entriesVars, table, syncing
  <2>2. TypeOK' /\ CacheRight' = CacheRight /\ undisturbed' = undisturbed
      BY <1>6 DEF vars, table, syncing, looking, Inv, TypeOK, CacheRight
  <2> QED
      BY <2>1, <2>2, EntriesUnchanged DEF Inv
<1> QED
    BY <1>1, <1>2, <1>3, <1>4, <1>5, <1>6 DEF Next

LEMMA SpecInv == Spec => []Inv
BY InitInv, NextInv, PTL DEF Spec

-----------------------------------------------------------------------------
\* The loops of sync only see rows of their type, and the table, the cache and
\* the lookups hold what entries can be, however many threads sync and look up.
THEOREM Types == Spec => []TypeOK
<1>1. Inv => TypeOK
    BY DEF Inv
<1> QED
    BY <1>1, SpecInv, PTL

\* Overlapping syncs of any number of threads leave the table the lists describe,
\* unless the lists change or a sync is cut meanwhile.
THEOREM SyncsExactTheorem == Spec => []SyncsExact
<1>1. Inv => SyncsExact
  <2> SUFFICES ASSUME Inv, undisturbed, \A t \in Thread : ~InSync(t), NEW h \in Host
               PROVE  entries[h] \in Wanted(h)
      BY DEF SyncsExact
  <2>1. \A t \in Thread : ~WillImport(t) /\ ~WillAllow(t, h) /\ ~WillRedirect(t, h)
      BY DEF InSync, WillImport, WillAllow, WillRedirect
  <2>2. RedirectedRight(h) /\ OthersListed(h) /\ AllowedRight(h) /\ BlockedRight(h)
      BY DEF Inv, EntriesRight
  <2>3. CASE RedirectedRows(h) # {}
      BY <2>1, <2>2, <2>3 DEF RedirectedRight, Wanted
  <2>4. CASE RedirectedRows(h) = {}
    <3>1. Redirections(h) = {}
        BY <2>4 DEF Redirections
    <3> QED
        BY <2>1, <2>2, <2>4, <3>1 DEF OthersListed, AllowedRight, BlockedRight, Wanted
  <2> QED
      BY <2>3, <2>4
<1> QED
    BY <1>1, SpecInv, PTL

\* Once every sync was applied no cached entry is old, but for those a lookup
\* put that had read before the cache was cleared.
THEOREM CacheFollowsTheorem == Spec => []CacheFollows
<1>1. Inv => CacheFollows
    BY DEF Inv, CacheFollows, CacheRight
<1> QED
    BY <1>1, SpecInv, PTL
=============================================================================
