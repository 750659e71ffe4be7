---------------------------- MODULE HostEntries -----------------------------
(***************************************************************************)
(* What is blocked: the table host_entries, which HostEntryDao.sync makes  *)
(* from the rows of hosts_lists, and the cache VpnModel keeps of it.       *)
(*                                                                         *)
(* Several threads sync: a task of the disk executor (the snackbar that    *)
(* applies a configuration), up to three of the network executor (the home *)
(* screen) and a worker of WorkManager (the daily update).  Each statement *)
(* of sync is a transaction of its own, and apply follows sync.  Meanwhile *)
(* users edit lists, sources are loaded, and the VPN looks hosts up.       *)
(***************************************************************************)
EXTENDS Integers, FiniteSets

CONSTANTS
    Thread,        \* the threads that sync
    Reader,        \* the VPN workers that look hosts up
    Host,          \* host names, as numbers in their order
    Redirection,   \* the addresses hosts are redirected to
    Item,          \* the rows hosts_lists may hold
    CacheSize      \* the size of the cache

BlockedItem == [type : {"BLOCKED"}, host : Host, source : Nat]
\* The hosts that SQLite's LIKE matches with the name of an allowed item.
AllowedItem == [type : {"ALLOWED"}, matches : SUBSET Host, source : Nat]
RedirectedItem ==
    [type : {"REDIRECTED"}, host : Host, source : Nat, redirection : Redirection]

ASSUME EntriesAssumption ==
    /\ Host \subseteq Nat
    /\ Redirection \cap {"NONE", "BLOCKED"} = {}
    /\ Item \subseteq BlockedItem \cup AllowedItem \cup RedirectedItem
    /\ IsFiniteSet(Host)
    /\ CacheSize \in Nat \ {0}

VARIABLES
    lists,        \* the enabled rows of hosts_lists
    entries,      \* host_entries: what becomes of each host
    pc,           \* the next statement of each thread
    todo,         \* the rows its loop has not come to yet
    cache,        \* VpnModel.blockCache
    lookup,       \* where each lookup is: idle, create or put
    key,          \* the host it is about
    found,        \* what it read
    undisturbed,  \* since a sync began alone no row changed and no sync was cut
    straddled     \* the hosts whose lookup had read, but not put, at the last evictAll

table == <<lists, entries>>
syncing == <<pc, todo>>
looking == <<lookup, key, found>>
vars == <<table, syncing, cache, looking, undisturbed, straddled>>

\* "NONE" without a row, or null in the cache.
Entry == {"NONE", "BLOCKED"} \cup Redirection

OfType(rows, type) == {i \in rows : i.type = type}

TypeOK ==
    /\ lists \subseteq Item
    /\ entries \in [Host -> Entry]
    /\ pc \in [Thread -> {"idle", "import", "allowed", "allow", "redirected", "redirect", "apply"}]
    /\ todo \in [Thread -> SUBSET Item]
    /\ \A t \in Thread : \A i \in todo[t] :
          \/ pc[t] = "allow" /\ i.type = "ALLOWED"
          \/ pc[t] = "redirect" /\ i.type = "REDIRECTED"
    /\ cache \in [Host -> Entry]
    /\ lookup \in [Reader -> {"idle", "create", "put"}]
    /\ key \in [Reader -> Host]
    /\ found \in [Reader -> Entry]
    /\ undisturbed \in BOOLEAN
    /\ straddled \subseteq Host

\* A new installation has no row but those the user is about to add.
Init ==
    /\ lists = {}
    /\ entries = [h \in Host |-> "NONE"]
    /\ pc = [t \in Thread |-> "idle"]
    /\ todo = [t \in Thread |-> {}]
    /\ cache = [h \in Host |-> "NONE"]
    /\ lookup = [r \in Reader |-> "idle"]
    /\ key \in [Reader -> Host]
    /\ found = [r \in Reader |-> "NONE"]
    /\ undisturbed = TRUE
    /\ straddled = {}

-----------------------------------------------------------------------------
(* The lists: users, sources that are loaded, cleared, enabled or deleted. *)
(* An edited row is one removed and one added.                             *)

ListsChange(rows) ==
    /\ lists' = rows
    /\ undisturbed' = FALSE
    /\ UNCHANGED <<entries, syncing, cache, looking, straddled>>

\* An item is inserted or enabled.
AddItem(i) == i \notin lists /\ ListsChange(lists \cup {i})

\* An item is deleted or disabled.
RemoveItem(i) == i \in lists /\ ListsChange(lists \ {i})

\* setSourceItemsEnabled, and clearSourceHosts or the cascade of a deleted source.
SetSourceItemsEnabled(s, enabled) ==
    LET rows == {i \in Item : i.source = s}
    IN  IF enabled THEN ListsChange(lists \cup rows) ELSE ListsChange(lists \ rows)

-----------------------------------------------------------------------------
(* HostEntryDao.sync on thread t, then AdBlockModel.apply.                 *)

InSync(t) == pc[t] \notin {"idle", "apply"}

\* The order of the statements of sync.
After == [import |-> "allowed", allowed |-> "allow", allow |-> "redirected",
          redirected |-> "redirect", redirect |-> "apply"]

Advances(t, from) ==
    /\ pc[t] = from
    /\ pc' = [pc EXCEPT ![t] = After[from]]
    /\ UNCHANGED <<lists, cache, looking, undisturbed, straddled>>

Clear(t) ==
    /\ pc[t] = "idle"
    /\ pc' = [pc EXCEPT ![t] = "import"]
    /\ entries' = [h \in Host |-> "NONE"]
    /\ undisturbed' = (undisturbed \/ \A u \in Thread : ~InSync(u))
    /\ UNCHANGED <<lists, todo, cache, looking, straddled>>

BlockedHosts == {i.host : i \in OfType(lists, "BLOCKED")}

\* The hosts are unique in host_entries.
Conflict == \E h \in BlockedHosts : entries[h] # "NONE"

ImportBlocked(t) ==
    /\ Advances(t, "import")
    /\ ~Conflict
    /\ entries' = [h \in Host |-> IF h \in BlockedHosts THEN "BLOCKED" ELSE entries[h]]
    /\ UNCHANGED todo

\* Another sync has put a host there (SQLiteConstraintException), or the storage
\* is full.  WorkManager goes on, an executor takes the process down (Kill).
SyncFails(t) ==
    /\ InSync(t)
    /\ pc' = [pc EXCEPT ![t] = "idle"]
    /\ todo' = [todo EXCEPT ![t] = {}]
    /\ undisturbed' = FALSE
    /\ UNCHANGED <<table, cache, looking, straddled>>

EnabledAllowedHosts == OfType(lists, "ALLOWED")

GetEnabledAllowedHosts(t) ==
    /\ Advances(t, "allowed")
    /\ todo' = [todo EXCEPT ![t] = EnabledAllowedHosts]
    /\ UNCHANGED entries

\* One turn of the loop: DELETE ... LIKE.
AllowHost(t) ==
    /\ pc[t] = "allow"
    /\ \E i \in todo[t] :
          /\ todo' = [todo EXCEPT ![t] = @ \ {i}]
          /\ entries' = [h \in Host |-> IF h \in i.matches THEN "NONE" ELSE entries[h]]
    /\ UNCHANGED <<lists, pc, cache, looking, undisturbed, straddled>>

GetEnabledRedirectedHosts(t) ==
    /\ Advances(t, "redirected")
    /\ todo' = [todo EXCEPT ![t] = OfType(lists, "REDIRECTED")]
    /\ UNCHANGED entries

SourceAscending(i, j) == i.host < j.host \/ (i.host = j.host /\ i.source < j.source)
\* ORDER BY host ASC, source_id DESC.
Before(i, j) == i.host < j.host \/ (i.host = j.host /\ i.source > j.source)

\* One turn of the loop: INSERT OR REPLACE.
RedirectHost(t) ==
    /\ pc[t] = "redirect"
    /\ \E i \in todo[t] :
          /\ \A j \in todo[t] : ~Before(j, i)
          /\ todo' = [todo EXCEPT ![t] = @ \ {i}]
          /\ entries' = [entries EXCEPT ![i.host] = i.redirection]
    /\ UNCHANGED <<lists, pc, cache, looking, undisturbed, straddled>>

EndOfLoop(t) ==
    /\ todo[t] = {}
    /\ Advances(t, "allow") \/ Advances(t, "redirect")
    /\ UNCHANGED <<entries, todo>>

ForgetsToEvict ==
    /\ straddled' = {key[r] : r \in {q \in Reader : lookup[q] = "put"}}
    /\ UNCHANGED cache
EvictAll ==
    /\ straddled' = {key[r] : r \in {q \in Reader : lookup[q] = "put"}}
    /\ cache' = [h \in Host |-> "NONE"]

\* VpnModel.apply: after a sync, or when the user turns ad blocking on.
Apply(t) ==
    /\ pc[t] \in {"apply", "idle"}
    /\ EvictAll
    /\ pc' = [pc EXCEPT ![t] = "idle"]
    /\ UNCHANGED <<table, todo, looking, undisturbed>>

Sync(t) ==
    \/ Clear(t) \/ ImportBlocked(t) \/ SyncFails(t)
    \/ GetEnabledAllowedHosts(t) \/ AllowHost(t)
    \/ GetEnabledRedirectedHosts(t) \/ RedirectHost(t) \/ EndOfLoop(t)
    \/ Apply(t)

-----------------------------------------------------------------------------
(* VpnModel.getEntry: LruCache.get, of a host the cache does not hold.  A  *)
(* host it holds is answered from it.                                      *)

Get(r, h) ==
    /\ lookup[r] = "idle"
    /\ cache[h] = "NONE"
    /\ lookup' = [lookup EXCEPT ![r] = "create"]
    /\ key' = [key EXCEPT ![r] = h]
    /\ UNCHANGED <<table, syncing, cache, found, undisturbed, straddled>>

\* create runs outside the lock of the cache.
Create(r) ==
    /\ lookup[r] = "create"
    /\ found' = [found EXCEPT ![r] = entries[key[r]]]
    /\ lookup' = [lookup EXCEPT ![r] = "put"]
    /\ UNCHANGED <<table, syncing, cache, key, undisturbed, straddled>>

\* The entry is put unless it is null or another lookup was faster; trimToSize
\* drops the entry that was used least lately.
Put(r) ==
    /\ lookup[r] = "put"
    /\ IF found[r] = "NONE" \/ cache[key[r]] # "NONE"
       THEN UNCHANGED cache
       ELSE LET held == {h \in Host : cache[h] # "NONE"}
                full == [cache EXCEPT ![key[r]] = found[r]]
            IN  IF Cardinality(held) < CacheSize
                THEN cache' = full
                ELSE \E eldest \in held : cache' = [full EXCEPT ![eldest] = "NONE"]
    /\ lookup' = [lookup EXCEPT ![r] = "idle"]
    /\ UNCHANGED <<table, syncing, key, found, undisturbed, straddled>>

-----------------------------------------------------------------------------
\* The process ends: the database keeps what was committed.
Kill ==
    /\ pc' = [t \in Thread |-> "idle"]
    /\ todo' = [t \in Thread |-> {}]
    /\ cache' = [h \in Host |-> "NONE"]
    /\ lookup' = [r \in Reader |-> "idle"]
    /\ straddled' = {}
    /\ undisturbed' = (undisturbed /\ \A t \in Thread : ~InSync(t))
    /\ UNCHANGED <<table, key, found>>

Next ==
    \/ \E i \in Item : AddItem(i) \/ RemoveItem(i)
    \/ \E s \in {i.source : i \in Item}, enabled \in BOOLEAN : SetSourceItemsEnabled(s, enabled)
    \/ \E t \in Thread : Sync(t)
    \/ \E r \in Reader : (\E h \in Host : Get(r, h)) \/ Create(r) \/ Put(r)
    \/ Kill

Spec == Init /\ [][Next]_vars

-----------------------------------------------------------------------------
RedirectedRows(h) == {i \in OfType(lists, "REDIRECTED") : i.host = h}

\* The redirections of a host by the oldest source that has one.
Redirections(h) ==
    {i.redirection : i \in {j \in RedirectedRows(h) :
                               \A k \in RedirectedRows(h) : j.source <= k.source}}

AllowedHosts == UNION {i.matches : i \in OfType(lists, "ALLOWED")}

\* What the lists make of a host: a redirection goes before everything, the one
\* of the oldest source before the others, an allowed name before a blocked one.
Wanted(h) ==
    IF Redirections(h) # {} THEN Redirections(h)
    ELSE IF h \in BlockedHosts \ AllowedHosts THEN {"BLOCKED"}
    ELSE {"NONE"}

\* "Synchronize the host entries based on the current hosts lists table
\* records" (HostEntryDao.sync): however syncs overlap, and although their
\* statements delete and replace the entries of each other, the table is what the
\* lists say when they are over. Only a list that changed meanwhile, and a sync
\* that was cut, leave another one.
SyncsExact ==
    undisturbed /\ (\A t \in Thread : ~InSync(t)) =>
        \A h \in Host : entries[h] \in Wanted(h)

\* "Clear cache" (VpnModel.apply): once every sync was applied, the cache agrees
\* with the table. Only a lookup that was between its read and its put when the
\* cache was cleared brings an old entry back.
CacheFollows ==
    undisturbed /\ (\A t \in Thread : pc[t] = "idle") =>
        \A h \in Host \ straddled : cache[h] \in {"NONE", entries[h]}
=============================================================================
