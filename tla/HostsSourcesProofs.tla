------------------------- MODULE HostsSourcesProofs -------------------------
(***************************************************************************)
(* Proofs about HostsSources, for any sources, servers, threads and        *)
(* bounds: rows follow the switch of their source, what changed is synced, *)
(* the ETag names the rows, and what is newer is retrieved.                *)
(***************************************************************************)
EXTENDS HostsSources, FiniteSetTheorems, TLAPS

LEMMA FirstIn ==
    ASSUME NEW ids, ids \subseteq Source, ids # {}
    PROVE  First(ids) \in ids
<1>1. \E s \in ids : \A other \in ids : s <= other
  BY SourcesAssumption
<1>2. QED
  BY <1>1 DEF First

LEMMA CurrentIn ==
    ASSUME TypeOK, NEW t \in Thread, left[t] # {}
    PROVE  Current(t) \in left[t] /\ Current(t) \in Source
<1>1. left[t] \subseteq Source
  BY DEF TypeOK
<1>2. QED
  BY <1>1, FirstIn DEF Current

-----------------------------------------------------------------------------
(* Types.                                                                  *)

Place == {"idle", "ask", "save", "next", "clearProperties", "get", "tag", "clear", "first",
          "second", "dates"}

\* TypeOK, part by part.
Tables ==
    /\ sources \in [Source -> HostsSource]
    /\ rows \in [Source -> SUBSET Row]
    /\ \A s \in Source \ Live : rows[s] = {}

Threads ==
    /\ pc \in [Thread -> Place]
    /\ left \in [Thread -> SUBSET Source]
    /\ \A t \in Thread : pc[t] \notin {"idle", "ask", "next"} => left[t] # {}
    /\ seen \in [Thread -> [Source -> HostsSource]]
    /\ start \in [Thread -> Time]
    /\ date \in [Thread -> Date]
    /\ got \in [Thread -> Date]
    /\ \A t \in Thread : pc[t] \in {"tag", "first", "second"} => got[t] # NULL
    /\ tally \in [Thread -> SUBSET {"copied", "failed"}]

Rest ==
    /\ now \in Time
    /\ server \in Servers
    /\ file \in [Source -> Time]
    /\ toggling \in {<<>>} \cup (Source \X BOOLEAN)
    /\ jobs \in 0 .. MaxJobs /\ events \in 0 .. MaxEvents
    /\ doubtful \subseteq Source /\ switched \subseteq Source
    /\ unsynced \subseteq Source /\ cut \subseteq Source

LEMMA TypeParts == TypeOK <=> Tables /\ Threads /\ Rest
BY DEF TypeOK, Tables, Threads, Rest, Place

LEMMA TypePartsPrimed == TypeOK' <=> Tables' /\ Threads' /\ Rest'
BY DEF TypeOK, Tables, Threads, Rest, Place, Live

LEMMA InitTypes == Init => TypeOK
<1> SUFFICES ASSUME Init PROVE TypeOK
  OBVIOUS
<1>1. 0 \in Time /\ NULL \in Date /\ 0 \in 0 .. MaxJobs /\ 0 \in 0 .. MaxEvents
  BY SourcesAssumption DEF Time, Date, NULL
<1>2. NewSource \in HostsSource
  BY <1>1 DEF NewSource, HostsSource
<1>3. sources \in [Source -> HostsSource]
  <2>1. PICK installed \in SUBSET Source :
          sources = [s \in Source |->
                        [NewSource EXCEPT !.there = IF s \in installed THEN "live" ELSE "new"]]
    BY DEF Init
  <2>2. \A s \in Source :
          [NewSource EXCEPT !.there = IF s \in installed THEN "live" ELSE "new"] \in HostsSource
    BY <1>2 DEF HostsSource
  <2>3. QED
    BY <2>1, <2>2
<1>4. Tables
  BY <1>3 DEF Init, Tables
<1>5. Threads
  BY <1>1, <1>2 DEF Init, Threads, Place
<1>6. Rest
  BY <1>1 DEF Init, Rest
<1>7. QED
  BY <1>4, <1>5, <1>6, TypeParts

\* The rows of a source there is may change; so may the columns of its record.
LEMMA UpdatedTables ==
    ASSUME TypeOK, NEW s \in Source, NEW record \in HostsSource,
           s \in Live => record.there = "live",
           sources' = Updated(s, record), rows' = rows
    PROVE  Tables'
<1>1. sources' \in [Source -> HostsSource]
  BY DEF TypeOK, Updated
<1>2. Live' = Live
  BY DEF TypeOK, Updated, Live
<1>3. QED
  BY <1>1, <1>2 DEF Tables, TypeOK

LEMMA RowsTables ==
    ASSUME TypeOK, NEW s \in Source, NEW new \in SUBSET Row, s \notin Live => new = {},
           rows' = [rows EXCEPT ![s] = new], sources' = sources
    PROVE  Tables'
<1>1. rows' \in [Source -> SUBSET Row] /\ \A r \in Source : r # s => rows'[r] = rows[r]
  BY DEF TypeOK
<1>2. Live' = Live /\ rows'[s] = new
  BY DEF Live, TypeOK
<1>3. QED
  BY <1>1, <1>2 DEF Tables, TypeOK

LEMMA SameTables == TypeOK /\ UNCHANGED <<sources, rows>> => Tables'
BY DEF TypeOK, Tables, Live

LEMMA SameThreads == TypeOK /\ UNCHANGED working => Threads'
BY DEF TypeOK, Threads, Place, working

\* A thread that has a source to handle goes to another place with it.
LEMMA GoesThreads ==
    ASSUME TypeOK, NEW t \in Thread, NEW to \in Place, left[t] # {}, Goes(t, to),
           UNCHANGED <<left, seen, start>>,
           date' \in [Thread -> Date], got' \in [Thread -> Date],
           \A u \in Thread \ {t} : got'[u] = got[u],
           to \in {"tag", "first", "second"} => got'[t] # NULL,
           tally' \in [Thread -> SUBSET {"copied", "failed"}]
    PROVE  Threads'
BY DEF Goes, TypeOK, Threads, Place

LEMMA GoesOnThreads ==
    ASSUME TypeOK, NEW t \in Thread, NEW to \in {"ask", "next"}, GoesOn(t, to),
           UNCHANGED <<seen, start>>, tally' \in [Thread -> SUBSET {"copied", "failed"}]
    PROVE  Threads'
<1>1. NULL \in Date
  BY DEF Date
<1>2. QED
  BY <1>1 DEF GoesOn, Goes, TypeOK, Threads, Place

LEMMA IdlesThreads ==
    ASSUME TypeOK, NEW t \in Thread, Idles(t)
    PROVE  Threads'
<1>1. 0 \in Time /\ NULL \in Date /\ NewSource \in HostsSource
  BY SourcesAssumption DEF Time, Date, NULL, NewSource, HostsSource
<1>2. QED
  BY <1>1 DEF Idles, TypeOK, Threads, Place

LEMMA BeginsTypes ==
    ASSUME TypeOK, NEW t \in Thread, NEW to \in {"ask", "next"}, NEW ids \in SUBSET Source,
           NEW time \in Time, Begins(t, to, ids, time)
    PROVE  TypeOK'
<1>1. Tables'
  BY SameTables DEF Begins
<1>2. Threads'
  <2>1. /\ pc' = [pc EXCEPT ![t] = to] /\ left' = [left EXCEPT ![t] = ids]
        /\ seen' = [seen EXCEPT ![t] = sources] /\ start' = [start EXCEPT ![t] = time]
        /\ tally' = [tally EXCEPT ![t] = {}] /\ UNCHANGED <<date, got>>
    BY DEF Begins, Goes
  <2>2. /\ pc' \in [Thread -> Place] /\ left' \in [Thread -> SUBSET Source]
        /\ seen' \in [Thread -> [Source -> HostsSource]] /\ start' \in [Thread -> Time]
        /\ tally' \in [Thread -> SUBSET {"copied", "failed"}]
    BY <2>1 DEF TypeOK, Place
  <2>3. \A u \in Thread : u # t => pc'[u] = pc[u] /\ left'[u] = left[u]
    BY <2>1 DEF TypeOK
  <2>4. pc'[t] = to
    BY <2>1 DEF TypeOK
  <2>5. \A u \in Thread : pc'[u] \notin {"idle", "ask", "next"} => left'[u] # {}
    BY <2>3, <2>4 DEF TypeOK
  <2>6. /\ date' \in [Thread -> Date] /\ got' \in [Thread -> Date]
        /\ \A u \in Thread : pc'[u] \in {"tag", "first", "second"} => got'[u] # NULL
    <3>1. \A u \in Thread : pc[u] \in {"tag", "first", "second"} => got[u] # NULL
      BY DEF TypeOK
    <3>2. date \in [Thread -> Date] /\ got \in [Thread -> Date]
      BY DEF TypeOK
    <3>3. QED
      BY <2>1, <2>3, <2>4, <3>1, <3>2
  <2>7. QED
    BY <2>2, <2>5, <2>6 DEF Threads, Place
<1>3. Rest'
  <2>1. jobs' \in 0 .. MaxJobs
    BY SourcesAssumption DEF Begins, TypeOK
  <2>2. toggling # <<>> => toggling[1] \in Source
    BY DEF TypeOK
  <2>3. QED
    BY <2>1, <2>2 DEF Begins, TypeOK, Rest, world
<1>4. QED
  BY <1>1, <1>2, <1>3, TypePartsPrimed

LEMMA HappensTypes ==
    ASSUME TypeOK, Happens
    PROVE  jobs' \in 0 .. MaxJobs /\ events' \in 0 .. MaxEvents
BY SourcesAssumption DEF Happens, TypeOK

LEMMA RecordTypes ==
    ASSUME TypeOK, NEW s \in Source, NEW d \in Date
    PROVE  /\ [sources[s] EXCEPT !.there = "live"] \in HostsSource
           /\ [NewSource EXCEPT !.there = "gone"] \in HostsSource
           /\ \A enabled \in BOOLEAN : [sources[s] EXCEPT !.enabled = enabled] \in HostsSource
           /\ [sources[s] EXCEPT !.online = d] \in HostsSource
           /\ [sources[s] EXCEPT !.entityTag = d] \in HostsSource
           /\ \A l \in Date : [sources[s] EXCEPT !.local = l, !.online = d] \in HostsSource
           /\ Cleared(sources[s]) \in HostsSource
<1>1. sources[s] \in HostsSource /\ NULL \in Date
  BY DEF TypeOK, Date
<1>2. [sources[s] EXCEPT !.there = "live"] \in HostsSource
  BY <1>1 DEF HostsSource
<1>3. [NewSource EXCEPT !.there = "gone"] \in HostsSource
  BY <1>1 DEF HostsSource, NewSource
<1>4. \A enabled \in BOOLEAN : [sources[s] EXCEPT !.enabled = enabled] \in HostsSource
  BY <1>1 DEF HostsSource
<1>5. [sources[s] EXCEPT !.online = d] \in HostsSource
  BY <1>1 DEF HostsSource
<1>6. [sources[s] EXCEPT !.entityTag = d] \in HostsSource
  BY <1>1 DEF HostsSource
<1>7. \A l \in Date : [sources[s] EXCEPT !.local = l, !.online = d] \in HostsSource
  BY <1>1 DEF HostsSource
<1>8. Cleared(sources[s]) \in HostsSource
  BY <1>1 DEF HostsSource, Cleared
<1>9. QED
  BY <1>2, <1>3, <1>4, <1>5, <1>6, <1>7, <1>8

LEMMA LastUpdatesDates ==
    ASSUME TypeOK, NEW s \in Source, NEW r \in HostsSource
    PROVE  LastUpdates(s, r) \subseteq Date
BY DEF LastUpdates, TypeOK, HostsSource, Date

LEMMA UserTypes ==
    ASSUME TypeOK,
           \/ \E s \in Source :
                \/ FileChanges(s) \/ Insert(s) \/ Delete(s)
                \/ \E enabled \in BOOLEAN : SetSourceEnabled(s, enabled)
           \/ Tick \/ SetSourceItemsEnabled
    PROVE  TypeOK'
<1> USE DEF world, history, counted
<1>1. CASE Tick
  <2>1. now' \in Time
    BY <1>1, SourcesAssumption DEF Tick, TypeOK, Time
  <2>2. Rest'
    BY <1>1, <2>1 DEF Tick, TypeOK, Rest
  <2>3. QED
    BY <1>1, <2>2, SameTables, SameThreads, TypePartsPrimed DEF Tick
<1>2. ASSUME NEW s \in Source, FileChanges(s) PROVE TypeOK'
  <2>1. Rest'
    BY <1>2, HappensTypes DEF FileChanges, TypeOK, Rest
  <2>2. QED
    BY <1>2, <2>1, SameTables, SameThreads, TypePartsPrimed DEF FileChanges
<1>3. ASSUME NEW s \in Source, Insert(s) PROVE TypeOK'
  <2>1. Rest'
    BY <1>3, HappensTypes DEF Insert, TypeOK, Rest
  <2>2. sources' \in [Source -> HostsSource]
    <3>1. [sources[s] EXCEPT !.there = "live"] \in HostsSource
      BY RecordTypes DEF Date
    <3>2. sources' = [sources EXCEPT ![s] = [sources[s] EXCEPT !.there = "live"]]
      BY <1>3 DEF Insert, TypeOK
    <3>3. QED
      BY <3>1, <3>2 DEF TypeOK
  <2>3. Live \subseteq Live'
    BY <1>3 DEF Insert, TypeOK, Live
  <2>4. Tables'
    BY <1>3, <2>2, <2>3 DEF Insert, TypeOK, Tables
  <2>5. QED
    BY <1>3, <2>1, <2>4, SameThreads, TypePartsPrimed DEF Insert
<1>4. ASSUME NEW s \in Source, Delete(s) PROVE TypeOK'
  <2>1. Rest'
    BY <1>4, HappensTypes DEF Delete, TypeOK, Rest
  <2>2. sources' \in [Source -> HostsSource] /\ rows' \in [Source -> SUBSET Row]
    <3>1. [NewSource EXCEPT !.there = "gone"] \in HostsSource
      BY RecordTypes DEF Date
    <3>2. QED
      BY <1>4, <3>1 DEF Delete, TypeOK
  <2>3. \A r \in Source \ Live' : rows'[r] = {}
    BY <1>4 DEF Delete, TypeOK, Live
  <2>4. Tables'
    BY <2>2, <2>3 DEF Tables
  <2>5. QED
    BY <1>4, <2>1, <2>4, SameThreads, TypePartsPrimed DEF Delete
<1>5. ASSUME NEW s \in Source, NEW enabled \in BOOLEAN, SetSourceEnabled(s, enabled)
      PROVE  TypeOK'
  <2>1. Rest'
    BY <1>5, HappensTypes DEF SetSourceEnabled, TypeOK, Rest
  <2>2. sources' \in [Source -> HostsSource]
    <3>1. [sources[s] EXCEPT !.enabled = enabled] \in HostsSource
      BY RecordTypes DEF Date
    <3>2. sources' = [sources EXCEPT ![s] = [sources[s] EXCEPT !.enabled = enabled]]
      BY <1>5 DEF SetSourceEnabled, TypeOK
    <3>3. QED
      BY <3>1, <3>2 DEF TypeOK
  <2>3. Live' = Live
    BY <1>5 DEF SetSourceEnabled, TypeOK, Live
  <2>4. Tables'
    BY <1>5, <2>2, <2>3 DEF SetSourceEnabled, TypeOK, Tables
  <2>5. QED
    BY <1>5, <2>1, <2>4, SameThreads, TypePartsPrimed DEF SetSourceEnabled
<1>6. CASE SetSourceItemsEnabled
  <2>1. Rest'
    BY <1>6 DEF SetSourceItemsEnabled, TypeOK, Rest
  <2>2. toggling[1] \in Source /\ toggling[2] \in BOOLEAN
    BY <1>6 DEF SetSourceItemsEnabled, TypeOK
  <2>3. {[r EXCEPT !.enabled = toggling[2]] : r \in rows[toggling[1]]} \in SUBSET Row
    <3>1. rows[toggling[1]] \subseteq Row
      BY <2>2 DEF TypeOK
    <3>2. \A r \in Row : [r EXCEPT !.enabled = toggling[2]] \in Row
      BY <2>2 DEF Row
    <3>3. QED
      BY <3>1, <3>2
  <2>4. toggling[1] \notin Live => {[r EXCEPT !.enabled = toggling[2]] : r \in rows[toggling[1]]} = {}
    BY <2>2 DEF TypeOK
  <2>5. Tables'
    BY <1>6, <2>2, <2>3, <2>4, RowsTables DEF SetSourceItemsEnabled
  <2>6. QED
    BY <1>6, <2>1, <2>5, SameThreads, TypePartsPrimed DEF SetSourceItemsEnabled
<1>7. QED
  BY <1>1, <1>2, <1>3, <1>4, <1>5, <1>6

LEMMA CheckTypes ==
    ASSUME TypeOK, NEW t \in Thread, Check(t)
    PROVE  TypeOK'
<1> USE DEF world, history, counted
<1>1. CASE CheckForUpdate(t)
  BY <1>1, BeginsTypes, SourcesAssumption DEF CheckForUpdate, Live, Time
<1>2. CASE AskLastUpdate(t)
  <2>1. Current(t) \in Source
    BY <1>2, CurrentIn DEF AskLastUpdate
  <2>2. seen[t][Current(t)] \in HostsSource
    BY <2>1 DEF TypeOK
  <2>3. date' \in [Thread -> Date]
    BY <1>2, <2>1, <2>2, LastUpdatesDates DEF AskLastUpdate, TypeOK
  <2>4. Threads'
    BY <1>2, <2>3, GoesThreads DEF AskLastUpdate, Place, TypeOK
  <2>5. Rest'
    BY <1>2 DEF AskLastUpdate, TypeOK, Rest
  <2>6. QED
    BY <1>2, <2>4, <2>5, SameTables, TypePartsPrimed DEF AskLastUpdate
<1>3. CASE UpdateOnlineModificationDate(t)
  <2>1. Current(t) \in Source /\ date[t] \in Date
    BY <1>3, CurrentIn DEF UpdateOnlineModificationDate, TypeOK
  <2>2. [sources[Current(t)] EXCEPT !.online = date[t]] \in HostsSource
    BY <2>1, RecordTypes
  <2>3. Tables'
    BY <1>3, <2>1, <2>2, UpdatedTables DEF UpdateOnlineModificationDate, Live, TypeOK, HostsSource
  <2>4. Threads'
    BY <1>3, GoesOnThreads DEF UpdateOnlineModificationDate, TypeOK
  <2>5. Rest'
    BY <1>3 DEF UpdateOnlineModificationDate, TypeOK, Rest
  <2>6. QED
    BY <2>3, <2>4, <2>5, TypePartsPrimed
<1>4. CASE EndCheck(t)
  <2>1. Rest'
    BY <1>4 DEF EndCheck, TypeOK, Rest
  <2>2. QED
    BY <1>4, <2>1, IdlesThreads, SameTables, TypePartsPrimed DEF EndCheck
<1>5. QED
  BY <1>1, <1>2, <1>3, <1>4 DEF Check

LEMMA RetrieveTypes ==
    ASSUME TypeOK, NEW t \in Thread, Retrieve(t)
    PROVE  TypeOK'
<1> USE DEF world, history, counted
<1> DEFINE s == Current(t)
<1>1. CASE RetrieveHostsSources(t)
  BY <1>1, BeginsTypes DEF RetrieveHostsSources, Live, TypeOK
<1>2. ASSUME left[t] # {} PROVE s \in Source /\ seen[t][s] \in HostsSource
  BY <1>2, CurrentIn DEF TypeOK
<1>3. CASE ClearDisabled(t)
  <2>1. Tables'
    BY <1>2, <1>3, RowsTables DEF ClearDisabled
  <2>2. Threads'
    BY <1>3, GoesThreads DEF ClearDisabled, Place, TypeOK
  <2>3. Rest'
    BY <1>2, <1>3 DEF ClearDisabled, Meets, Changes, TypeOK, Rest
  <2>4. QED
    BY <2>1, <2>2, <2>3, TypePartsPrimed
<1>4. CASE ClearProperties(t)
  <2>1. s \in Source /\ Cleared(sources[s]) \in HostsSource
    BY <1>2, <1>4, RecordTypes DEF ClearProperties, TypeOK, Date
  <2>2. s \in Live => Cleared(sources[s]).there = "live"
    BY <2>1 DEF Cleared, Live, TypeOK, HostsSource
  <2>3. Tables'
    BY <1>4, <2>1, <2>2, UpdatedTables DEF ClearProperties
  <2>4. Threads'
    BY <1>4, GoesOnThreads DEF ClearProperties, TypeOK
  <2>5. Rest'
    BY <1>4 DEF ClearProperties, TypeOK, Rest
  <2>6. QED
    BY <2>3, <2>4, <2>5, TypePartsPrimed
<1>5. CASE AskBeforeCopy(t)
  <2>1. PICK answer \in LastUpdates(s, seen[t][s]) :
          IF Skips(seen[t][s], DateOr(answer, start[t]))
          THEN GoesOn(t, "next")
          ELSE /\ Goes(t, "get")
               /\ date' = [date EXCEPT ![t] = DateOr(answer, start[t])]
               /\ UNCHANGED <<left, got>>
    BY <1>5 DEF AskBeforeCopy
  <2>2. DateOr(answer, start[t]) \in Date
    BY <1>2, <1>5, LastUpdatesDates DEF AskBeforeCopy, DateOr, TypeOK, Date
  <2>3. Threads'
    <3>1. CASE GoesOn(t, "next")
      BY <1>5, <3>1, GoesOnThreads DEF AskBeforeCopy, TypeOK
    <3>2. CASE ~GoesOn(t, "next")
      <4>1. date' \in [Thread -> Date]
        BY <2>1, <2>2, <3>2 DEF TypeOK
      <4>2. QED
        BY <1>5, <2>1, <3>2, <4>1, GoesThreads DEF AskBeforeCopy, Place, TypeOK
    <3>3. QED
      BY <3>1, <3>2
  <2>4. Rest'
    BY <1>5 DEF AskBeforeCopy, TypeOK, Rest
  <2>5. QED
    BY <1>5, <2>3, <2>4, SameTables, TypePartsPrimed DEF AskBeforeCopy
<1>6. CASE GetFails(t)
  <2>1. Threads'
    BY <1>6, GoesOnThreads DEF GetFails, TypeOK
  <2>2. Rest'
    BY <1>6, HappensTypes DEF GetFails, TypeOK, Rest
  <2>3. QED
    BY <1>6, <2>1, <2>2, SameTables, TypePartsPrimed DEF GetFails
<1>7. CASE GetNotModified(t)
  <2>1. pc[t] = "get" /\ left[t] # {}
    BY <1>7 DEF GetNotModified, TakesNotModified, TypeOK
  <2>2. Threads'
    BY <1>7, <2>1, GoesThreads DEF GetNotModified, Place, TypeOK
  <2>3. Rest'
    BY <1>2, <1>7, <2>1 DEF GetNotModified, Meets, TypeOK, Rest
  <2>4. QED
    BY <1>7, <2>2, <2>3, SameTables, TypePartsPrimed DEF GetNotModified
<1>8. CASE Get(t)
  <2>1. pc[t] = "get" /\ left[t] # {} /\ s \in Source
    BY <1>2, <1>8 DEF Get, TypeOK
  <2>2. file[s] \in Date /\ file[s] # NULL
    <3>1. file[s] \in Time
      BY <2>1 DEF TypeOK
    <3>2. QED
      BY <3>1, SourcesAssumption DEF Time, Date, NULL
  <2>3. got' = [got EXCEPT ![t] = file[s]] /\ got' \in [Thread -> Date] /\ got'[t] # NULL
    BY <1>8, <2>2 DEF Get, TypeOK
  <2>4. Threads'
    BY <1>8, <2>1, <2>3, GoesThreads DEF Get, Place, TypeOK
  <2>5. Rest'
    BY <1>8, <2>1 DEF Get, Meets, TypeOK, Rest
  <2>6. QED
    BY <1>8, <2>4, <2>5, SameTables, TypePartsPrimed DEF Get
<1>9. CASE GetError(t)
  <2>1. pc[t] = "get" /\ left[t] # {} /\ s \in Source
    BY <1>2, <1>9 DEF GetError, TypeOK
  <2>2. Threads'
    BY <1>9, <2>1, GoesThreads DEF GetError, Place, TypeOK
  <2>3. Rest'
    BY <1>9, <2>1, HappensTypes DEF GetError, TypeOK, Rest
  <2>4. QED
    BY <1>9, <2>2, <2>3, SameTables, TypePartsPrimed DEF GetError
<1>10. CASE UpdateEntityTag(t)
  <2>1. pc[t] = "tag" /\ left[t] # {} /\ s \in Source /\ got[t] \in Date
    BY <1>2, <1>10 DEF UpdateEntityTag, TypeOK
  <2>2. [sources[s] EXCEPT !.entityTag = got[t]] \in HostsSource
    BY <2>1, RecordTypes
  <2>3. s \in Live => [sources[s] EXCEPT !.entityTag = got[t]].there = "live"
    BY <2>1 DEF Live, TypeOK, HostsSource
  <2>4. Tables'
    BY <1>10, <2>1, <2>2, <2>3, UpdatedTables DEF UpdateEntityTag
  <2>5. Threads'
    BY <1>10, <2>1, GoesThreads DEF UpdateEntityTag, Place, TypeOK
  <2>6. Rest'
    BY <1>10 DEF UpdateEntityTag, TypeOK, Rest
  <2>7. QED
    BY <2>4, <2>5, <2>6, TypePartsPrimed
<1>11. CASE ClearSourceHosts(t)
  <2>1. pc[t] = "clear" /\ left[t] # {} /\ s \in Source
    BY <1>2, <1>11 DEF ClearSourceHosts, TypeOK
  <2>2. Tables'
    BY <1>11, <2>1, RowsTables DEF ClearSourceHosts
  <2>3. Threads'
    BY <1>11, <2>1, GoesThreads DEF ClearSourceHosts, Place, TypeOK
  <2>4. Rest'
    BY <1>11, <2>1 DEF ClearSourceHosts, Changes, TypeOK, Rest
  <2>5. QED
    BY <2>2, <2>3, <2>4, TypePartsPrimed
<1>12. CASE InsertItems(t)
  <2>1. pc[t] \in Part /\ left[t] # {} /\ s \in Source /\ s \in Live
    BY <1>2, <1>12 DEF InsertItems, ForeignKey, Part, TypeOK
  <2> DEFINE row == [version |-> got[t], part |-> pc[t], by |-> t, enabled |-> TRUE]
  <2>2. got[t] \in Time
    BY <2>1 DEF TypeOK, Part, Date
  <2>3. row \in Row
    BY <2>1, <2>2 DEF Row
  <2>4. rows[s] \cup {row} \in SUBSET Row
    BY <2>1, <2>3 DEF TypeOK
  <2>5. rows' = [rows EXCEPT ![s] = rows[s] \cup {row}]
    BY <1>12 DEF InsertItems
  <2>6. Tables'
    BY <1>12, <2>1, <2>4, <2>5, RowsTables DEF InsertItems
  <2>7. After[pc[t]] \in {"second", "dates"}
    BY <2>1 DEF After, Part
  <2>8. Threads'
    BY <1>12, <2>1, <2>2, <2>7 DEF InsertItems, Goes, Part, Place, TypeOK, Threads
  <2>9. Rest'
    BY <1>12, <2>1 DEF InsertItems, Changes, TypeOK, Rest
  <2>10. QED
    BY <2>6, <2>8, <2>9, TypePartsPrimed
<1>13. CASE ParseFails(t) \/ InsertRefused(t)
  <2>1. pc[t] \in Part /\ left[t] # {} /\ s \in Source /\ Torn(t)
    BY <1>2, <1>13 DEF ParseFails, InsertRefused, Part, TypeOK
  <2>2. Threads'
    BY <2>1, GoesThreads DEF Torn, Place, TypeOK
  <2>3. jobs' \in 0 .. MaxJobs /\ events' \in 0 .. MaxEvents
    BY <1>13, HappensTypes DEF ParseFails, InsertRefused, TypeOK
  <2>4. Rest'
    BY <2>1, <2>3 DEF Torn, TypeOK, Rest
  <2>5. QED
    BY <2>1, <2>2, <2>4, SameTables, TypePartsPrimed DEF Torn
<1>14. CASE UpdateModificationDates(t)
  <2>1. pc[t] = "dates" /\ left[t] # {} /\ s \in Source /\ date[t] \in Date /\ start[t] \in Date
    BY <1>2, <1>14 DEF UpdateModificationDates, TypeOK, Date
  <2>2. Latest(date[t], TimeAtStart(t)) \in Date
    BY <2>1 DEF Latest, TimeAtStart
  <2>3. [sources[s] EXCEPT !.local = Latest(date[t], TimeAtStart(t)), !.online = date[t]] \in HostsSource
    BY <2>1, <2>2, RecordTypes
  <2>4. s \in Live =>
          [sources[s] EXCEPT !.local = Latest(date[t], TimeAtStart(t)), !.online = date[t]].there = "live"
    BY <2>1 DEF Live, TypeOK, HostsSource
  <2>5. Tables'
    BY <1>14, <2>1, <2>3, <2>4, UpdatedTables DEF UpdateModificationDates
  <2>6. Threads'
    BY <1>14, GoesOnThreads DEF UpdateModificationDates, TypeOK
  <2>7. Rest'
    BY <1>14 DEF UpdateModificationDates, TypeOK, Rest
  <2>8. QED
    BY <2>5, <2>6, <2>7, TypePartsPrimed
<1>15. CASE EndRetrieve(t)
  <2>1. Rest'
    BY <1>15 DEF EndRetrieve, TypeOK, Rest
  <2>2. QED
    BY <1>15, <2>1, IdlesThreads, SameTables, TypePartsPrimed DEF EndRetrieve
<1>16. QED
  BY <1>1, <1>3, <1>4, <1>5, <1>6, <1>7, <1>8, <1>9, <1>10, <1>11, <1>12, <1>13, <1>14, <1>15
     DEF Retrieve

LEMMA KillTypes == TypeOK /\ Kill => TypeOK'
<1> SUFFICES ASSUME TypeOK, Kill PROVE TypeOK'
  OBVIOUS
<1>1. 0 \in Time /\ NULL \in Date /\ NewSource \in HostsSource
  BY SourcesAssumption DEF Time, Date, NULL, NewSource, HostsSource
<1>2. Threads'
  BY <1>1 DEF Kill, TypeOK, Threads, Place
<1>3. Rest'
  BY HappensTypes DEF Kill, world, TypeOK, Rest
<1>4. QED
  BY <1>2, <1>3, SameTables, TypePartsPrimed DEF Kill

LEMMA NextTypes == TypeOK /\ [Next]_vars => TypeOK'
<1>1. CASE UNCHANGED vars
  BY <1>1 DEF vars, world, working, counted, history, TypeOK, Live
<1>2. CASE Next
  BY <1>2, UserTypes, CheckTypes, RetrieveTypes, KillTypes DEF Next
<1>3. QED
  BY <1>1, <1>2

\* The tables, the threads and the counters stay well formed; rows are only there for
\* sources that are there, whatever a thread that read them earlier still inserts
\* (the foreign key of HostListItem).
THEOREM Types == Spec => []TypeOK
BY InitTypes, NextTypes, PTL DEF Spec

-----------------------------------------------------------------------------
(* The switches of sources and rows.                                       *)

Toggles(s) == toggling # <<>> /\ toggling[1] = s

\* Between the statements of a toggle the source has the value its rows get.
ToggledFirst ==
    toggling # <<>> /\ sources[toggling[1]].there # "gone" =>
        sources[toggling[1]].enabled = toggling[2]

\* A thread knows the switch of the sources it has to handle, unless a user turned it.
SeenSwitch ==
    \A t \in Thread, s \in Source \ switched :
        Handles(t, s) /\ sources[s].there # "gone" =>
            seen[t][s].enabled = sources[s].enabled /\ ~Toggles(s)

Loading == {"get", "tag", "clear", "first", "second", "dates"}

\* A thread loads what it saw enabled.
LoadsEnabled == \A t \in Thread : pc[t] \in Loading => seen[t][Current(t)].enabled

RowsFollow ==
    \A s \in Live \ switched : ~Toggles(s) => \A r \in rows[s] : r.enabled = sources[s].enabled

ItemsInv == ToggledFirst /\ SeenSwitch /\ LoadsEnabled /\ RowsFollow

\* The switches of the sources, and what the user is about to switch, stay.
SwitchesStay ==
    /\ toggling' = toggling
    /\ \A s \in Source : /\ sources'[s].enabled = sources[s].enabled
                         /\ sources'[s].there = sources[s].there

\* Threads take up no source.
HandlesStay ==
    \A u \in Thread, s \in Source :
        (pc'[u] # "idle" /\ s \in left'[u]) => Handles(u, s) /\ seen'[u][s] = seen[u][s]

LEMMA SwitchesKept ==
    ASSUME TypeOK, ItemsInv, SwitchesStay, HandlesStay, switched \subseteq switched'
    PROVE  ToggledFirst' /\ SeenSwitch'
<1>1. ToggledFirst'
  BY DEF TypeOK, ItemsInv, ToggledFirst, SwitchesStay, Live
<1>2. SeenSwitch'
  BY DEF ItemsInv, SeenSwitch, SwitchesStay, HandlesStay, Handles, Toggles
<1>3. QED
  BY <1>1, <1>2

LEMMA RowsKept ==
    ASSUME TypeOK, ItemsInv, SwitchesStay, switched \subseteq switched',
           \A s \in Source : rows'[s] \subseteq rows[s]
    PROVE  RowsFollow'
BY DEF ItemsInv, RowsFollow, SwitchesStay, Toggles, Live

\* A thread loads a source it saw enabled, or goes on with the one it loads.
LEMMA LoadsKept ==
    ASSUME TypeOK, ItemsInv, NEW t \in Thread, NEW to \in Place, Goes(t, to),
           \A u \in Thread \ {t} : left'[u] = left[u], seen' = seen,
           to \in Loading =>
               /\ left'[t] = left[t]
               /\ pc[t] \in Loading \/ seen[t][Current(t)].enabled
    PROVE  LoadsEnabled'
<1> SUFFICES ASSUME NEW u \in Thread, pc'[u] \in Loading
             PROVE  seen'[u][First(left'[u])].enabled
  BY DEF LoadsEnabled, Current
<1>1. CASE u = t
  BY <1>1 DEF Goes, TypeOK, ItemsInv, LoadsEnabled, Current
<1>2. CASE u # t
  BY <1>2 DEF Goes, TypeOK, ItemsInv, LoadsEnabled, Current
<1>3. QED
  BY <1>1, <1>2

\* The columns the threads write are others.
LEMMA UpdatedStays ==
    ASSUME TypeOK, NEW s \in Source, NEW record,
           record.enabled = sources[s].enabled, record.there = sources[s].there,
           sources' = Updated(s, record), toggling' = toggling
    PROVE  SwitchesStay
BY DEF TypeOK, Updated, SwitchesStay

LEMMA SameStays == UNCHANGED <<sources, toggling>> => SwitchesStay
BY DEF SwitchesStay

LEMMA GoesHandles ==
    ASSUME TypeOK, NEW t \in Thread, NEW to \in Place, Goes(t, to), pc[t] # "idle",
           left' = left, seen' = seen
    PROVE  HandlesStay
BY DEF Goes, TypeOK, HandlesStay, Handles

LEMMA GoesOnHandles ==
    ASSUME TypeOK, NEW t \in Thread, NEW to \in Place, GoesOn(t, to), pc[t] # "idle", seen' = seen
    PROVE  HandlesStay
BY DEF GoesOn, Goes, TypeOK, HandlesStay, Handles

LEMMA GoesOnLoads ==
    ASSUME TypeOK, ItemsInv, NEW t \in Thread, NEW to \in {"ask", "next"}, GoesOn(t, to), seen' = seen
    PROVE  LoadsEnabled'
<1>1. \A u \in Thread \ {t} : left'[u] = left[u]
  BY DEF GoesOn, TypeOK
<1>2. QED
  BY <1>1, LoadsKept DEF GoesOn, Place, Loading

LEMMA IdlesItems ==
    ASSUME TypeOK, ItemsInv, NEW t \in Thread, Idles(t),
           UNCHANGED <<sources, rows, toggling, switched>>
    PROVE  ItemsInv'
<1>1. HandlesStay
  BY DEF Idles, TypeOK, HandlesStay, Handles
<1>2. LoadsEnabled'
  <2> SUFFICES ASSUME NEW u \in Thread, pc'[u] \in Loading
               PROVE  seen'[u][First(left'[u])].enabled
    BY DEF LoadsEnabled, Current
  <2>1. u # t /\ pc'[u] = pc[u] /\ seen'[u] = seen[u] /\ left'[u] = left[u]
    BY DEF Idles, TypeOK, Loading
  <2>2. QED
    BY <2>1 DEF ItemsInv, LoadsEnabled, Current
<1>3. QED
  BY <1>1, <1>2, SameStays, SwitchesKept, RowsKept DEF ItemsInv

LEMMA UserItems ==
    ASSUME TypeOK, ItemsInv, NEW s \in Source,
           \/ FileChanges(s) \/ Insert(s) \/ Delete(s)
           \/ \E enabled \in BOOLEAN : SetSourceEnabled(s, enabled)
    PROVE  ItemsInv'
<1> USE DEF world, history, counted, working
<1>1. LoadsEnabled'
  <2>1. UNCHANGED <<pc, left, seen>>
    BY DEF FileChanges, Insert, Delete, SetSourceEnabled
  <2>2. QED
    BY <2>1 DEF ItemsInv, LoadsEnabled, Current
<1>2. toggling # <<>> => toggling[1] \in Source
  BY DEF TypeOK
<1>3. CASE FileChanges(s)
  BY <1>1, <1>3 DEF FileChanges, ItemsInv, ToggledFirst, SeenSwitch, RowsFollow, Toggles, Handles, Live
<1>4. CASE Insert(s)
  <2>1. /\ \A r \in Source : sources'[r].enabled = sources[r].enabled
        /\ \A r \in Source : r # s => sources'[r] = sources[r]
        /\ sources[s].there = "new" /\ sources'[s].there = "live" /\ rows[s] = {}
    <3>1. sources[s].there = "new" /\ sources' = [sources EXCEPT ![s].there = "live"]
      BY <1>4 DEF Insert
    <3>2. rows[s] = {}
      BY <3>1 DEF TypeOK, Live
    <3>3. QED
      BY <3>1, <3>2 DEF TypeOK, HostsSource
  <2>2. UNCHANGED <<rows, pc, left, seen, toggling, switched>>
    BY <1>4 DEF Insert
  <2>3. ToggledFirst'
    BY <1>2, <2>1, <2>2 DEF ItemsInv, ToggledFirst
  <2>4. RowsFollow'
    BY <2>1, <2>2 DEF ItemsInv, RowsFollow, Toggles, Live
  <2>5. SeenSwitch'
    BY <2>1, <2>2 DEF ItemsInv, SeenSwitch, Handles, Toggles
  <2>6. QED
    BY <1>1, <2>3, <2>4, <2>5 DEF ItemsInv
<1>5. CASE Delete(s)
  <2>1. /\ \A r \in Source : r # s => sources'[r] = sources[r] /\ rows'[r] = rows[r]
        /\ sources'[s].there = "gone"
    BY <1>5 DEF Delete, TypeOK, NewSource
  <2>2. UNCHANGED <<pc, left, seen, toggling, switched>>
    BY <1>5 DEF Delete
  <2>3. ToggledFirst'
    BY <1>2, <2>1, <2>2 DEF ItemsInv, ToggledFirst
  <2>4. RowsFollow'
    BY <2>1, <2>2 DEF ItemsInv, RowsFollow, Toggles, Live
  <2>5. SeenSwitch'
    BY <2>1, <2>2 DEF ItemsInv, SeenSwitch, Handles, Toggles
  <2>6. QED
    BY <1>1, <2>3, <2>4, <2>5 DEF ItemsInv
<1>6. ASSUME NEW enabled \in BOOLEAN, SetSourceEnabled(s, enabled) PROVE ItemsInv'
  <2>1. /\ \A r \in Source : r # s => sources'[r] = sources[r]
        /\ sources'[s].enabled = enabled /\ sources'[s].there = sources[s].there
    BY <1>6 DEF SetSourceEnabled, TypeOK, HostsSource
  <2>2. /\ UNCHANGED <<rows, pc, left, seen>>
        /\ toggling = <<>> /\ toggling' = <<s, enabled>> /\ switched \subseteq switched'
        /\ s \notin switched' => \A t \in Thread : ~Handles(t, s)
    BY <1>6 DEF SetSourceEnabled
  <2>3. toggling'[1] = s /\ toggling'[2] = enabled /\ toggling' # <<>>
    BY <2>2
  <2>4. ToggledFirst'
    BY <2>1, <2>3 DEF ToggledFirst
  <2>5. RowsFollow'
    BY <2>1, <2>2, <2>3 DEF ItemsInv, RowsFollow, Toggles, Live
  <2>6. SeenSwitch'
    BY <2>1, <2>2, <2>3 DEF ItemsInv, SeenSwitch, Handles, Toggles
  <2>7. QED
    BY <1>1, <2>4, <2>5, <2>6 DEF ItemsInv
<1>7. QED
  BY <1>3, <1>4, <1>5, <1>6

LEMMA SetItemsItems ==
    ASSUME TypeOK, ItemsInv, SetSourceItemsEnabled
    PROVE  ItemsInv'
<1> DEFINE s == toggling[1]
<1>1. /\ UNCHANGED <<sources, pc, left, seen, switched>>
      /\ toggling # <<>> /\ toggling' = <<>> /\ s \in Source
  BY DEF SetSourceItemsEnabled, TypeOK, working, history
<1>2. \A r \in Source : r # s => rows'[r] = rows[r]
  BY <1>1 DEF SetSourceItemsEnabled, TypeOK
<1>3. \A r \in rows'[s] : r.enabled = toggling[2]
  <2>1. rows'[s] = {[r EXCEPT !.enabled = toggling[2]] : r \in rows[s]} /\ rows[s] \subseteq Row
    BY <1>1 DEF SetSourceItemsEnabled, TypeOK
  <2>2. \A r \in Row : [r EXCEPT !.enabled = toggling[2]].enabled = toggling[2]
    BY DEF Row
  <2>3. QED
    BY <2>1, <2>2
<1>4. RowsFollow'
  BY <1>1, <1>2, <1>3 DEF ItemsInv, RowsFollow, ToggledFirst, Toggles, Live
<1>5. ToggledFirst' /\ SeenSwitch' /\ LoadsEnabled'
  BY <1>1 DEF ItemsInv, ToggledFirst, SeenSwitch, LoadsEnabled, Handles, Toggles, Current
<1>6. QED
  BY <1>4, <1>5 DEF ItemsInv

LEMMA BeginsItems ==
    ASSUME TypeOK, ItemsInv, NEW t \in Thread, NEW to \in {"ask", "next"},
           NEW ids \in SUBSET Live, NEW time, Begins(t, to, ids, time)
    PROVE  ItemsInv'
<1>1. /\ \A u \in Thread \ {t} : pc'[u] = pc[u] /\ left'[u] = left[u] /\ seen'[u] = seen[u]
      /\ pc'[t] = to /\ seen'[t] = sources
      /\ UNCHANGED <<sources, rows, toggling>> /\ switched \subseteq switched'
      /\ toggling # <<>> => toggling[1] \in switched'
  BY DEF Begins, Goes, TypeOK
<1>2. LoadsEnabled'
  BY <1>1 DEF ItemsInv, LoadsEnabled, Loading, Current
<1>3. SeenSwitch'
  BY <1>1 DEF ItemsInv, SeenSwitch, Handles, Toggles
<1>4. ToggledFirst' /\ RowsFollow'
  BY <1>1 DEF ItemsInv, ToggledFirst, RowsFollow, Toggles, Live
<1>5. QED
  BY <1>2, <1>3, <1>4 DEF ItemsInv

LEMMA KillItems ==
    ASSUME TypeOK, ItemsInv, Kill
    PROVE  ItemsInv'
<1>1. /\ \A u \in Thread : pc'[u] = "idle"
      /\ UNCHANGED <<sources, rows>> /\ toggling' = <<>> /\ switched \subseteq switched'
      /\ toggling # <<>> => toggling[1] \in switched'
  BY DEF Kill
<1>2. ToggledFirst' /\ SeenSwitch' /\ LoadsEnabled'
  BY <1>1 DEF ToggledFirst, SeenSwitch, LoadsEnabled, Loading, Handles
<1>3. RowsFollow'
  BY <1>1 DEF ItemsInv, RowsFollow, Toggles, Live
<1>4. QED
  BY <1>2, <1>3 DEF ItemsInv

LEMMA CheckItems ==
    ASSUME TypeOK, ItemsInv, NEW t \in Thread, Check(t)
    PROVE  ItemsInv'
<1> USE DEF world, history, counted
<1> DEFINE s == Current(t)
<1>1. CASE CheckForUpdate(t)
  BY <1>1, BeginsItems DEF CheckForUpdate
<1>2. CASE AskLastUpdate(t)
  <2>1. Goes(t, "save") /\ UNCHANGED <<sources, rows, left, seen, toggling, switched>> /\ pc[t] # "idle"
    BY <1>2 DEF AskLastUpdate
  <2>2. LoadsEnabled'
    BY <2>1, LoadsKept DEF Place, Loading
  <2>3. QED
    BY <2>1, <2>2, GoesHandles, SameStays, SwitchesKept, RowsKept DEF ItemsInv, Place
<1>3. CASE UpdateOnlineModificationDate(t)
  <2>1. /\ GoesOn(t, "ask") /\ UNCHANGED <<rows, seen, toggling, switched>> /\ pc[t] # "idle"
        /\ s \in Source
    BY <1>3, CurrentIn DEF UpdateOnlineModificationDate, TypeOK
  <2>2. SwitchesStay
    <3>1. sources[s] \in HostsSource
      BY <2>1 DEF TypeOK
    <3>2. /\ [sources[s] EXCEPT !.online = date[t]].enabled = sources[s].enabled
          /\ [sources[s] EXCEPT !.online = date[t]].there = sources[s].there
      BY <3>1 DEF HostsSource
    <3>3. QED
      BY <1>3, <2>1, <3>2, UpdatedStays DEF UpdateOnlineModificationDate
  <2>3. QED
    BY <2>1, <2>2, GoesOnHandles, GoesOnLoads, SwitchesKept, RowsKept DEF ItemsInv, Place
<1>4. CASE EndCheck(t)
  BY <1>4, IdlesItems DEF EndCheck
<1>5. QED
  BY <1>1, <1>2, <1>3, <1>4 DEF Check

\* Steps of a retrieval that leave rows and switches.
LEMMA PlainItems ==
    ASSUME TypeOK, ItemsInv, NEW t \in Thread,
           \/ ClearProperties(t) \/ AskBeforeCopy(t) \/ GetFails(t) \/ GetNotModified(t)
           \/ Get(t) \/ GetError(t) \/ UpdateEntityTag(t) \/ ParseFails(t) \/ InsertRefused(t)
           \/ UpdateModificationDates(t)
    PROVE  ItemsInv'
<1> USE DEF world, history, counted
<1> DEFINE s == Current(t)
<1>1. /\ UNCHANGED <<rows, seen, toggling, switched>> /\ pc[t] # "idle"
      /\ left[t] # {} => s \in Source
  <2>1. UNCHANGED <<rows, seen, toggling, switched>>
    BY DEF ClearProperties, AskBeforeCopy, GetFails, GetNotModified, Get, GetError,
           UpdateEntityTag, ParseFails, InsertRefused, Torn, UpdateModificationDates
  <2>2. pc[t] # "idle"
    BY DEF ClearProperties, AskBeforeCopy, GetFails, GetNotModified, TakesNotModified, Get, GetError,
           UpdateEntityTag, ParseFails, InsertRefused, Part, UpdateModificationDates
  <2>3. QED
    BY <2>1, <2>2, CurrentIn
<1>2. SwitchesStay
  <2>1. CASE UNCHANGED sources
    BY <1>1, <2>1, SameStays
  <2>2. CASE ClearProperties(t) \/ UpdateEntityTag(t) \/ UpdateModificationDates(t)
    <3>1. s \in Source /\ sources[s] \in HostsSource
      BY <1>1, <2>2 DEF ClearProperties, UpdateEntityTag, UpdateModificationDates, TypeOK
    <3>2. PICK record :
            /\ sources' = Updated(s, record)
            /\ record \in { Cleared(sources[s]), [sources[s] EXCEPT !.entityTag = got[t]],
                            [sources[s] EXCEPT !.local = Latest(date[t], TimeAtStart(t)),
                                               !.online = date[t]] }
      BY <2>2 DEF ClearProperties, UpdateEntityTag, UpdateModificationDates
    <3>3. record.enabled = sources[s].enabled /\ record.there = sources[s].there
      BY <3>1, <3>2 DEF Cleared, HostsSource
    <3>4. QED
      BY <1>1, <3>1, <3>2, <3>3, UpdatedStays
  <2>3. QED
    BY <2>1, <2>2 DEF AskBeforeCopy, GetFails, GetNotModified, Get, GetError, ParseFails,
                      InsertRefused, Torn
<1>3. CASE GoesOn(t, "next")
  BY <1>1, <1>2, <1>3, GoesOnHandles, GoesOnLoads, SwitchesKept, RowsKept DEF ItemsInv, Place
<1>4. CASE ~GoesOn(t, "next")
  <2>1. /\ \E to \in Place : Goes(t, to)
        /\ UNCHANGED left
        /\ pc[t] \in Loading \/ seen[t][s].enabled
    <3>1. ASSUME AskBeforeCopy(t)
          PROVE  Goes(t, "get") /\ UNCHANGED left /\ seen[t][s].enabled
      BY <1>4, <3>1 DEF AskBeforeCopy
    <3>2. ASSUME Get(t) \/ GetError(t) \/ GetNotModified(t)
          PROVE  (\E to \in Place : Goes(t, to)) /\ UNCHANGED left /\ pc[t] \in Loading
      BY <3>2 DEF Get, GetError, GetNotModified, TakesNotModified, Place, Loading
    <3>3. ASSUME UpdateEntityTag(t) \/ ParseFails(t) \/ InsertRefused(t)
          PROVE  (\E to \in Place : Goes(t, to)) /\ UNCHANGED left /\ pc[t] \in Loading
      BY <3>3 DEF UpdateEntityTag, ParseFails, InsertRefused, Torn, Part, Place, Loading
    <3>4. QED
      BY <1>4, <3>1, <3>2, <3>3 DEF ClearProperties, GetFails, UpdateModificationDates, Place
  <2>2. PICK to \in Place : Goes(t, to)
    BY <2>1
  <2>3. LoadsEnabled'
    BY <1>1, <2>1, <2>2, LoadsKept
  <2>4. QED
    BY <1>1, <1>2, <2>1, <2>2, <2>3, GoesHandles, SwitchesKept, RowsKept DEF ItemsInv
<1>5. QED
  BY <1>3, <1>4

LEMMA ClearDisabledItems ==
    ASSUME TypeOK, ItemsInv, NEW t \in Thread, ClearDisabled(t)
    PROVE  ItemsInv'
<1>1. /\ Goes(t, "clearProperties") /\ UNCHANGED <<sources, left, seen, toggling, switched>>
      /\ pc[t] # "idle" /\ \A r \in Source : rows'[r] \subseteq rows[r]
  BY DEF ClearDisabled, TypeOK
<1>2. LoadsEnabled'
  BY <1>1, LoadsKept DEF Place, Loading
<1>3. QED
  BY <1>1, <1>2, GoesHandles, SameStays, SwitchesKept, RowsKept DEF ItemsInv, Place

\* With its rows gone, a source follows its switch again: the thread that loads it
\* saw it enabled, and it is.
LEMMA ClearSourceHostsItems ==
    ASSUME TypeOK, ItemsInv, NEW t \in Thread, ClearSourceHosts(t)
    PROVE  ItemsInv'
<1> DEFINE s == Current(t)
<1>1. /\ s \in Source /\ pc[t] = "clear" /\ UNCHANGED <<sources, left, seen, toggling>>
      /\ Goes(t, IF got[t] = NULL THEN "dates" ELSE "first")
      /\ rows'[s] = {} /\ \A r \in Source : r # s => rows'[r] = rows[r]
  BY CurrentIn DEF ClearSourceHosts, TypeOK
<1>2. /\ \A r \in Source : r # s => (r \in switched' <=> r \in switched)
      /\ s \in switched \/ s \notin switched
      /\ s \in switched /\ s \notin switched' =>
            /\ sources[s].enabled /\ toggling = <<>>
            /\ \A u \in Thread \ {t} : ~Handles(u, s)
      /\ s \notin switched => s \notin switched'
  BY DEF ClearSourceHosts
<1>3. LoadsEnabled'
  <2>1. (IF got[t] = NULL THEN "dates" ELSE "first") \in Place
    BY DEF Place
  <2>2. QED
    BY <1>1, <2>1, LoadsKept DEF Loading
<1>4. HandlesStay
  <2>1. (IF got[t] = NULL THEN "dates" ELSE "first") \in Place
    BY DEF Place
  <2>2. QED
    BY <1>1, <2>1, GoesHandles
<1>5. ToggledFirst'
  BY <1>1 DEF ItemsInv, ToggledFirst
<1>6. RowsFollow'
  BY <1>1, <1>2 DEF ItemsInv, RowsFollow, Toggles, Live
<1>7. SeenSwitch'
  <2> SUFFICES ASSUME NEW u \in Thread, NEW r \in Source, r \notin switched', Handles(u, r),
                      sources[r].there # "gone"
               PROVE  seen[u][r].enabled = sources[r].enabled /\ ~Toggles(r)
    BY <1>1, <1>4 DEF SeenSwitch, HandlesStay, Handles, Toggles
  <2>1. CASE r \notin switched
    BY <2>1 DEF ItemsInv, SeenSwitch
  <2>2. CASE r \in switched
    <3>1. r = s /\ sources[s].enabled /\ toggling = <<>> /\ u = t
      BY <1>2, <2>2
    <3>2. seen[t][s].enabled
      BY <1>1 DEF ItemsInv, LoadsEnabled, Loading
    <3>3. seen[t][s].enabled \in BOOLEAN /\ sources[s].enabled \in BOOLEAN
      BY <1>1 DEF TypeOK, HostsSource
    <3>4. QED
      BY <3>1, <3>2, <3>3 DEF Toggles
  <2>3. QED
    BY <2>1, <2>2
<1>8. QED
  BY <1>3, <1>5, <1>6, <1>7 DEF ItemsInv

LEMMA InsertItemsItems ==
    ASSUME TypeOK, ItemsInv, NEW t \in Thread, InsertItems(t)
    PROVE  ItemsInv'
<1> DEFINE s == Current(t)
<1>1. /\ s \in left[t] /\ s \in Source /\ s \in Live /\ pc[t] \in Part
      /\ UNCHANGED <<sources, left, seen, toggling, switched>> /\ Goes(t, After[pc[t]])
      /\ \A r \in Source : r # s => rows'[r] = rows[r]
      /\ \A row \in rows'[s] \ rows[s] : row.enabled = TRUE
  <2>1. pc[t] \in Part /\ left[t] # {} /\ ForeignKey(s)
    BY DEF InsertItems, Part, TypeOK
  <2>2. s \in left[t] /\ s \in Source
    BY <2>1, CurrentIn
  <2>3. rows'[s] = rows[s] \cup {[version |-> got[t], part |-> pc[t], by |-> t, enabled |-> TRUE]}
    BY <2>2 DEF InsertItems, TypeOK
  <2>4. QED
    BY <2>1, <2>2, <2>3 DEF InsertItems, ForeignKey, TypeOK, history
<1>2. After[pc[t]] \in Place /\ pc[t] # "idle" /\ pc[t] \in Loading
  BY <1>1 DEF After, Part, Place, Loading
<1>3. LoadsEnabled'
  BY <1>1, <1>2, LoadsKept
<1>4. ToggledFirst' /\ SeenSwitch'
  BY <1>1, <1>2, GoesHandles, SameStays, SwitchesKept
<1>5. s \notin switched => sources[s].enabled
  <2>1. seen[t][s].enabled
    BY <1>2 DEF ItemsInv, LoadsEnabled
  <2>2. sources[s].there # "gone" /\ Handles(t, s)
    BY <1>1, <1>2 DEF Live, Handles
  <2>3. QED
    BY <1>1, <2>1, <2>2 DEF ItemsInv, SeenSwitch
<1>6. RowsFollow'
  <2>1. sources[s].enabled \in BOOLEAN
    BY <1>1 DEF TypeOK, HostsSource
  <2>2. QED
    BY <1>1, <1>5, <2>1 DEF ItemsInv, RowsFollow, Toggles, Live
<1>7. QED
  BY <1>3, <1>4, <1>6 DEF ItemsInv

LEMMA RetrieveItems ==
    ASSUME TypeOK, ItemsInv, NEW t \in Thread, Retrieve(t)
    PROVE  ItemsInv'
<1>1. CASE RetrieveHostsSources(t)
  BY <1>1, BeginsItems DEF RetrieveHostsSources
<1>2. CASE EndRetrieve(t)
  BY <1>2, IdlesItems DEF EndRetrieve
<1>3. QED
  BY <1>1, <1>2, PlainItems, ClearDisabledItems, ClearSourceHostsItems, InsertItemsItems DEF Retrieve

LEMMA NextItems == TypeOK /\ ItemsInv /\ [Next]_vars => ItemsInv'
<1> SUFFICES ASSUME TypeOK, ItemsInv, [Next]_vars PROVE ItemsInv'
  OBVIOUS
<1>1. CASE UNCHANGED vars \/ Tick
  BY <1>1 DEF vars, Tick, world, working, counted, history, ItemsInv, ToggledFirst, SeenSwitch,
              LoadsEnabled, RowsFollow, Toggles, Handles, Live, Current
<1>2. CASE Next /\ ~Tick
  BY <1>2, UserItems, SetItemsItems, CheckItems, RetrieveItems, KillItems DEF Next
<1>3. QED
  BY <1>1, <1>2

\* A thread that inserts enabled rows found the source enabled, so that the rows of a
\* source stay as its switch is, by toggleEnabled, parse and clear, as long as no user
\* turns the switch of a source a thread has read and not yet handled.
THEOREM ItemsTheorem == Spec => []ItemsFollowSource
<1>1. Init => ItemsInv
  BY DEF Init, ItemsInv, ToggledFirst, SeenSwitch, LoadsEnabled, RowsFollow, Handles, Loading, Live
<1>2. TypeOK /\ ItemsInv => ItemsFollowSource
  BY DEF ItemsInv, RowsFollow, Toggles, ItemsFollowSource
<1>3. QED
  BY <1>1, <1>2, Types, NextItems, PTL DEF Spec

-----------------------------------------------------------------------------
(* The sync of what changed.                                               *)

Copying == {"tag", "clear", "first", "second", "dates"}

\* A thread that loads has a copy; one that checks has none.
Copies ==
    \A t \in Thread :
        /\ pc[t] \in Copying => "copied" \in tally[t]
        /\ pc[t] \in {"ask", "save"} => tally[t] = {}

\* Rows that changed are synced by a thread that has a copy, unless the process ended.
SyncPending ==
    unsynced \subseteq switched \cup cut \/ \E t \in Thread : pc[t] # "idle" /\ "copied" \in tally[t]

SyncInv == Copies /\ SyncPending

\* A thread at work goes on: what it has counted stays counted, and it changes rows
\* only with a copy, or those that do not count.
LEMMA WorkSync ==
    ASSUME TypeOK, SyncInv, NEW t \in Thread, NEW to \in Place \ {"idle"}, Goes(t, to),
           pc[t] # "idle", tally[t] \subseteq tally'[t],
           \A u \in Thread \ {t} : tally'[u] = tally[u],
           to \in Copying => "copied" \in tally'[t],
           to \in {"ask", "save"} => tally'[t] = {},
           \/ "copied" \in tally'[t]
           \/ unsynced \subseteq switched \cup cut => unsynced' \subseteq switched' \cup cut'
    PROVE  SyncInv'
<1>1. /\ pc'[t] = to /\ \A u \in Thread \ {t} : pc'[u] = pc[u]
  BY DEF Goes, TypeOK
<1>2. Copies'
  BY <1>1 DEF SyncInv, Copies
<1>3. SyncPending'
  BY <1>1 DEF SyncInv, SyncPending
<1>4. QED
  BY <1>2, <1>3 DEF SyncInv

LEMMA BeginsSync ==
    ASSUME TypeOK, SyncInv, NEW t \in Thread, NEW to \in {"ask", "next"},
           NEW ids, NEW time, Begins(t, to, ids, time)
    PROVE  SyncInv'
<1>1. /\ pc[t] = "idle" /\ pc'[t] = to /\ tally'[t] = {}
      /\ \A u \in Thread \ {t} : pc'[u] = pc[u] /\ tally'[u] = tally[u]
      /\ unsynced' = unsynced /\ switched \subseteq switched' /\ cut' = cut
  BY DEF Begins, Goes, TypeOK
<1>2. Copies'
  BY <1>1 DEF SyncInv, Copies, Copying
<1>3. SyncPending'
  BY <1>1 DEF SyncInv, SyncPending
<1>4. QED
  BY <1>2, <1>3 DEF SyncInv

LEMMA IdlesSync ==
    ASSUME TypeOK, SyncInv, NEW t \in Thread, Idles(t), switched' = switched,
           unsynced' = {} \/ ("copied" \notin tally[t] /\ UNCHANGED <<unsynced, cut>>)
    PROVE  SyncInv'
<1>1. /\ pc'[t] = "idle" /\ tally'[t] = {}
      /\ \A u \in Thread \ {t} : pc'[u] = pc[u] /\ tally'[u] = tally[u]
  BY DEF Idles, TypeOK
<1>2. Copies'
  BY <1>1 DEF SyncInv, Copies, Copying
<1>3. SyncPending'
  BY <1>1 DEF SyncInv, SyncPending
<1>4. QED
  BY <1>2, <1>3 DEF SyncInv

LEMMA UserSync ==
    ASSUME SyncInv,
           \/ \E s \in Source :
                \/ FileChanges(s) \/ Insert(s) \/ Delete(s)
                \/ \E enabled \in BOOLEAN : SetSourceEnabled(s, enabled)
           \/ Tick \/ SetSourceItemsEnabled \/ UNCHANGED vars
    PROVE  SyncInv'
<1> USE DEF vars, world, history, counted, working
<1>1. UNCHANGED <<pc, tally, unsynced, cut>>
  BY DEF FileChanges, Insert, Delete, SetSourceEnabled, Tick, SetSourceItemsEnabled
<1>2. switched \subseteq switched'
  BY DEF FileChanges, Insert, Delete, SetSourceEnabled, Tick, SetSourceItemsEnabled
<1>3. QED
  BY <1>1, <1>2 DEF SyncInv, Copies, SyncPending

LEMMA CheckSync ==
    ASSUME TypeOK, SyncInv, NEW t \in Thread, Check(t)
    PROVE  SyncInv'
<1>1. CASE CheckForUpdate(t)
  BY <1>1, BeginsSync DEF CheckForUpdate
<1>2. CASE AskLastUpdate(t)
  <2>1. /\ pc[t] = "ask" /\ Goes(t, "save") /\ UNCHANGED <<tally, unsynced, switched, cut>>
    BY <1>2 DEF AskLastUpdate, history
  <2>2. tally[t] = {}
    BY <2>1 DEF SyncInv, Copies
  <2>3. QED
    BY <2>1, <2>2, WorkSync DEF Place, Copying
<1>3. CASE UpdateOnlineModificationDate(t)
  <2>1. /\ pc[t] = "save" /\ Goes(t, "ask") /\ UNCHANGED <<tally, unsynced, switched, cut>>
    BY <1>3 DEF UpdateOnlineModificationDate, GoesOn, history
  <2>2. tally[t] = {}
    BY <2>1 DEF SyncInv, Copies
  <2>3. QED
    BY <2>1, <2>2, WorkSync DEF Place, Copying
<1>4. CASE EndCheck(t)
  <2>1. tally[t] = {}
    BY <1>4 DEF EndCheck, SyncInv, Copies
  <2>2. QED
    BY <1>4, <2>1, IdlesSync DEF EndCheck, history
<1>5. QED
  BY <1>1, <1>2, <1>3, <1>4 DEF Check

\* The rows of a disabled source do not count when nobody switched it.
LEMMA ClearDisabledSync ==
    ASSUME TypeOK, ItemsInv, SyncInv, NEW t \in Thread, ClearDisabled(t)
    PROVE  SyncInv'
<1> DEFINE s == Current(t)
<1>1. /\ pc[t] = "next" /\ Goes(t, "clearProperties") /\ UNCHANGED <<sources, tally, switched, cut>>
      /\ s \in left[t] /\ s \in Source /\ ~seen[t][s].enabled
  BY CurrentIn DEF ClearDisabled
<1>2. s \notin switched => \A r \in rows[s] : ~r.enabled
  <2> SUFFICES ASSUME s \notin switched, NEW r \in rows[s]
               PROVE  ~r.enabled
    OBVIOUS
  <2>1. s \in Live /\ sources[s].there # "gone" /\ Handles(t, s)
    BY <1>1 DEF TypeOK, Live, Handles
  <2>2. seen[t][s].enabled = sources[s].enabled /\ ~Toggles(s)
    BY <1>1, <2>1 DEF ItemsInv, SeenSwitch
  <2>3. r.enabled = sources[s].enabled
    BY <2>1, <2>2 DEF ItemsInv, RowsFollow
  <2>4. QED
    BY <1>1, <2>2, <2>3
<1>3. rows'[s] = {}
  BY <1>1 DEF ClearDisabled, TypeOK
<1>4. unsynced \subseteq switched \cup cut => unsynced' \subseteq switched' \cup cut'
  BY <1>1, <1>2, <1>3 DEF ClearDisabled, Changes
<1>5. QED
  BY <1>1, <1>4, WorkSync DEF Place, Copying

LEMMA RetrieveSync ==
    ASSUME TypeOK, ItemsInv, SyncInv, NEW t \in Thread, Retrieve(t)
    PROVE  SyncInv'
<1> USE DEF history
<1>1. CASE RetrieveHostsSources(t)
  BY <1>1, BeginsSync DEF RetrieveHostsSources
<1>2. CASE ClearProperties(t)
  <2>1. /\ pc[t] = "clearProperties" /\ Goes(t, "next") /\ UNCHANGED <<tally, unsynced, switched, cut>>
    BY <1>2 DEF ClearProperties, GoesOn
  <2>2. QED
    BY <2>1, WorkSync DEF Place, Copying
<1>3. CASE AskBeforeCopy(t)
  <2>1. /\ pc[t] = "next" /\ UNCHANGED <<tally, unsynced, switched, cut>>
        /\ Goes(t, "next") \/ Goes(t, "get")
    BY <1>3 DEF AskBeforeCopy, GoesOn
  <2>2. QED
    BY <2>1, WorkSync DEF Place, Copying
<1>4. CASE GetFails(t)
  <2>1. /\ pc[t] = "get" /\ Goes(t, "next") /\ UNCHANGED <<unsynced, switched, cut>>
        /\ tally[t] \subseteq tally'[t] /\ \A u \in Thread \ {t} : tally'[u] = tally[u]
    BY <1>4 DEF GetFails, GoesOn, TypeOK
  <2>2. QED
    BY <2>1, WorkSync DEF Place, Copying
<1>5. CASE GetNotModified(t) \/ Get(t) \/ GetError(t)
  <2>1. pc[t] = "get" /\ \E to \in {"dates", "tag", "clear"} : Goes(t, to)
    BY <1>5 DEF GetNotModified, TakesNotModified, Get, GetError
  <2>2. /\ tally[t] \subseteq tally'[t] /\ "copied" \in tally'[t]
        /\ \A u \in Thread \ {t} : tally'[u] = tally[u]
    BY <1>5 DEF GetNotModified, Get, GetError, TypeOK
  <2>3. QED
    BY <2>1, <2>2, WorkSync DEF Place
<1>6. CASE \/ UpdateEntityTag(t) \/ ClearSourceHosts(t) \/ InsertItems(t) \/ ParseFails(t)
           \/ InsertRefused(t) \/ UpdateModificationDates(t)
  <2>1. pc[t] \in Copying /\ tally' = tally
    BY <1>6 DEF UpdateEntityTag, ClearSourceHosts, InsertItems, ParseFails, InsertRefused, Torn,
                UpdateModificationDates, Part, Copying
  <2>2. "copied" \in tally[t] /\ pc[t] # "idle"
    BY <2>1 DEF SyncInv, Copies, Copying
  <2>3. \E to \in {"clear", "first", "second", "dates", "next"} : Goes(t, to)
    BY <1>6 DEF UpdateEntityTag, ClearSourceHosts, InsertItems, ParseFails, InsertRefused, Torn,
                UpdateModificationDates, GoesOn, Part, After
  <2>4. QED
    BY <2>1, <2>2, <2>3, WorkSync DEF Place
<1>7. CASE EndRetrieve(t)
  <2>1. unsynced' = {} \/ ("copied" \notin tally[t] /\ UNCHANGED <<unsynced, cut>>)
    BY <1>7 DEF EndRetrieve, AllCopiesFailed
  <2>2. QED
    BY <1>7, <2>1, IdlesSync DEF EndRetrieve
<1>8. QED
  BY <1>1, <1>2, <1>3, <1>4, <1>5, <1>6, <1>7, ClearDisabledSync DEF Retrieve

\* The process ends while a thread has a copy: what it changed is cut off. Without
\* one, the rows that changed had been switched or cut off before.
LEMMA KillSync ==
    ASSUME TypeOK, SyncInv, Kill
    PROVE  SyncInv'
<1>1. Copies'
  BY DEF Kill, TypeOK, Copies, Copying
<1>2. switched \subseteq switched' /\ unsynced' = unsynced /\ cut \subseteq cut'
  BY DEF Kill
<1>3. unsynced \subseteq switched' \cup cut'
  <2>1. CASE \E t \in Thread : "copied" \in tally[t]
    BY <2>1 DEF Kill
  <2>2. CASE ~\E t \in Thread : "copied" \in tally[t]
    BY <1>2, <2>2 DEF SyncInv, SyncPending
  <2>3. QED
    BY <2>1, <2>2
<1>4. QED
  BY <1>1, <1>2, <1>3 DEF SyncInv, SyncPending

LEMMA NextSync == TypeOK /\ ItemsInv /\ SyncInv /\ [Next]_vars => SyncInv'
BY UserSync, CheckSync, RetrieveSync, KillSync DEF Next

\* retrieveHostsSources throws before the sync when every copy failed: what it had
\* cleared by then was disabled, so that no retrieval ends with rows that count and
\* that host_entries does not know, the sources switched meanwhile aside, and those of
\* which the end of the process cut the sync off (SourceModel.retrieveHostsSources).
THEOREM SyncTheorem == Spec => []ChangesSynced
<1>1. Init => ItemsInv
  BY DEF Init, ItemsInv, ToggledFirst, SeenSwitch, LoadsEnabled, RowsFollow, Handles, Loading, Live
<1>2. Init => SyncInv
  BY DEF Init, SyncInv, Copies, SyncPending, Copying
<1>3. SyncInv => ChangesSynced
  BY DEF SyncInv, SyncPending, ChangesSynced
<1>4. QED
  BY <1>1, <1>2, <1>3, Types, NextItems, NextSync, PTL DEF Spec

-----------------------------------------------------------------------------
(* The rows and the ETag.                                                  *)

Handling == {"clearProperties"} \cup Copying

At(t, s, places) == Busy(t, s) /\ pc[t] \in places

\* The rows of one load: each part once, all of the version of the ETag.
Whole(s) ==
    /\ \A r \in rows[s] : r.version = sources[s].entityTag
    /\ \A part \in Part : \E r \in rows[s] : r.part = part
    /\ \A r, other \in rows[s] : r.part = other.part => r = other

\* Only sources there are, of servers with ETags, have one or get one.
TagsOfServers ==
    /\ \A s \in Source : sources[s].entityTag # NULL => s \in Live /\ server[s] = "etag"
    /\ \A t \in Thread : pc[t] = "tag" => server[Current(t)] = "etag"

\* Two threads that load a source at once leave doubts.
OneLoads(s) == \A t, u \in Thread : Busy(t, s) /\ Busy(u, s) => t = u

\* How far a load is: the ETag there is names what is loaded, and the rows loaded so far.
Loaded(s) ==
    sources[s].entityTag # NULL =>
        /\ \A t \in Thread :
              /\ At(t, s, {"clear", "first", "second"}) => got[t] = sources[s].entityTag
              /\ At(t, s, {"first"}) => rows[s] = {}
              /\ At(t, s, {"second"}) =>
                    \E r \in rows[s] : /\ rows[s] = {r} /\ r.part = "first"
                                       /\ r.version = sources[s].entityTag
        /\ (\A t \in Thread : Busy(t, s) => pc[t] = "dates") => Whole(s)

LoadsTold == \A s \in Source \ doubtful : OneLoads(s) /\ Loaded(s)

TagInv == TagsOfServers /\ LoadsTold

\* The threads that are busy with s, and where they are, stay the same.
SameAt(s) ==
    \A u \in Thread :
        /\ Busy(u, s)' <=> Busy(u, s)
        /\ Busy(u, s) => /\ pc'[u] = pc[u] /\ got'[u] = got[u]
                         /\ date'[u] = date[u] /\ start'[u] = start[u]

\* A thread but t goes nowhere.
OnlyMoves(t) ==
    \A u \in Thread \ {t} :
        /\ pc'[u] = pc[u] /\ left'[u] = left[u] /\ got'[u] = got[u]
        /\ date'[u] = date[u] /\ start'[u] = start[u]

LEMMA BusyAt ==
    ASSUME NEW t \in Thread, NEW s
    PROVE  Busy(t, s) <=> pc[t] \in Handling /\ Current(t) = s
BY DEF Busy, Handling, Copying

LEMMA BusyAtPrimed ==
    ASSUME NEW t \in Thread, NEW s
    PROVE  Busy(t, s)' <=> pc'[t] \in Handling /\ First(left'[t]) = s
BY DEF Busy, Handling, Copying, Current

\* A thread disturbs no source but the one it handles.
LEMMA OthersAt ==
    ASSUME NEW t \in Thread, OnlyMoves(t), left'[t] = left[t] \/ pc'[t] \notin Handling
    PROVE  \A s \in Source : s # Current(t) => SameAt(s)
<1> SUFFICES ASSUME NEW s \in Source, s # Current(t), NEW u \in Thread
             PROVE  /\ Busy(u, s)' <=> Busy(u, s)
                    /\ Busy(u, s) => /\ pc'[u] = pc[u] /\ got'[u] = got[u]
                                     /\ date'[u] = date[u] /\ start'[u] = start[u]
  BY DEF SameAt
<1>1. CASE u = t
  BY <1>1, BusyAt, BusyAtPrimed DEF Current
<1>2. CASE u # t
  BY <1>2, BusyAt, BusyAtPrimed DEF OnlyMoves, Current
<1>3. QED
  BY <1>1, <1>2

\* One that is busy with none, before and after, disturbs none.
LEMMA NoneAt ==
    ASSUME NEW t \in Thread, OnlyMoves(t), pc[t] \notin Handling, pc'[t] \notin Handling
    PROVE  \A s \in Source : SameAt(s)
<1> SUFFICES ASSUME NEW s \in Source, NEW u \in Thread
             PROVE  /\ Busy(u, s)' <=> Busy(u, s)
                    /\ Busy(u, s) => /\ pc'[u] = pc[u] /\ got'[u] = got[u]
                                     /\ date'[u] = date[u] /\ start'[u] = start[u]
  BY DEF SameAt
<1>1. CASE u = t
  BY <1>1, BusyAt, BusyAtPrimed
<1>2. CASE u # t
  BY <1>2, BusyAt, BusyAtPrimed DEF OnlyMoves, Current
<1>3. QED
  BY <1>1, <1>2

\* What is known of a load stays known.
LEMMA SameLoad ==
    ASSUME NEW s \in Source, SameAt(s), rows'[s] = rows[s],
           sources'[s].entityTag = sources[s].entityTag,
           OneLoads(s), Loaded(s)
    PROVE  OneLoads(s)' /\ Loaded(s)'
<1>1. OneLoads(s)'
  BY DEF SameAt, OneLoads
<1>2. Whole(s) => Whole(s)'
  BY DEF Whole
<1>3. Loaded(s)'
  <2> SUFFICES ASSUME sources'[s].entityTag # NULL
               PROVE  /\ \A t \in Thread :
                            /\ At(t, s, {"clear", "first", "second"})' => got'[t] = sources'[s].entityTag
                            /\ At(t, s, {"first"})' => rows'[s] = {}
                            /\ At(t, s, {"second"})' =>
                                  \E r \in rows'[s] : /\ rows'[s] = {r} /\ r.part = "first"
                                                      /\ r.version = sources'[s].entityTag
                      /\ (\A t \in Thread : Busy(t, s)' => pc'[t] = "dates") => Whole(s)'
    BY DEF Loaded
  <2>1. \A t \in Thread : Busy(t, s)' => Busy(t, s) /\ pc'[t] = pc[t] /\ got'[t] = got[t]
    BY DEF SameAt
  <2>2. (\A t \in Thread : Busy(t, s)' => pc'[t] = "dates") => Whole(s)'
    BY <1>2 DEF Loaded, SameAt
  <2>3. QED
    BY <2>1, <2>2 DEF Loaded, At
<1>4. QED
  BY <1>1, <1>3

\* A thread that handles s changes its rows and its ETag only; the load of s is told
\* apart.
LEMMA HandlesTold ==
    ASSUME LoadsTold, NEW t \in Thread, OnlyMoves(t), left'[t] = left[t] \/ pc'[t] \notin Handling,
           NEW s \in Source, s = Current(t), doubtful \ {s} \subseteq doubtful',
           \A r \in Source \ {s} :
              rows'[r] = rows[r] /\ sources'[r].entityTag = sources[r].entityTag,
           s \notin doubtful' => OneLoads(s)' /\ Loaded(s)'
    PROVE  LoadsTold'
<1> SUFFICES ASSUME NEW r \in Source, r \notin doubtful'
             PROVE  OneLoads(r)' /\ Loaded(r)'
  BY DEF LoadsTold
<1>1. CASE r = s
  BY <1>1
<1>2. CASE r # s
  BY <1>2, OthersAt, SameLoad DEF LoadsTold
<1>3. QED
  BY <1>1, <1>2

\* One that handles none changes no load.
LEMMA NoneTold ==
    ASSUME LoadsTold, \A s \in Source : SameAt(s), rows' = rows,
           \A s \in Source : sources'[s].entityTag = sources[s].entityTag,
           doubtful \subseteq doubtful'
    PROVE  LoadsTold'
BY SameLoad DEF LoadsTold

\* The only thread busy with s stays the only one.
LEMMA AloneStays ==
    ASSUME NEW t \in Thread, NEW s \in Source, Alone(t, s), OnlyMoves(t)
    PROVE  \A u \in Thread : Busy(u, s)' => u = t
<1> SUFFICES ASSUME NEW u \in Thread, u # t, Busy(u, s)'
             PROVE  FALSE
  OBVIOUS
<1>1. pc[u] \in Handling /\ Current(u) = s
  BY BusyAtPrimed DEF OnlyMoves, Current
<1>2. QED
  BY <1>1, BusyAt DEF Alone

\* A thread that is the only one busy with s, before and after: its place tells how far
\* the load is.
LEMMA LoadTold ==
    ASSUME NEW t \in Thread, NEW s \in Source, s = Current(t), Alone(t, s), OnlyMoves(t),
           left'[t] = left[t] \/ pc'[t] \notin Handling,
           sources'[s].entityTag # NULL =>
              /\ pc'[t] \in {"clear", "first", "second"} => got'[t] = sources'[s].entityTag
              /\ pc'[t] = "first" => rows'[s] = {}
              /\ pc'[t] = "second" =>
                    \E r \in rows'[s] : /\ rows'[s] = {r} /\ r.part = "first"
                                        /\ r.version = sources'[s].entityTag
              /\ pc'[t] \notin Handling \/ pc'[t] = "dates" => Whole(s)'
    PROVE  OneLoads(s)' /\ Loaded(s)'
<1>1. \A u \in Thread : Busy(u, s)' => u = t
  BY AloneStays
<1>2. pc'[t] \in Handling => Busy(t, s)'
  BY BusyAtPrimed DEF Current
<1>3. OneLoads(s)'
  BY <1>1 DEF OneLoads
<1>4. Loaded(s)'
  <2> SUFFICES ASSUME sources'[s].entityTag # NULL
               PROVE  /\ \A u \in Thread :
                            /\ At(u, s, {"clear", "first", "second"})' => got'[u] = sources'[s].entityTag
                            /\ At(u, s, {"first"})' => rows'[s] = {}
                            /\ At(u, s, {"second"})' =>
                                  \E r \in rows'[s] : /\ rows'[s] = {r} /\ r.part = "first"
                                                      /\ r.version = sources'[s].entityTag
                      /\ (\A u \in Thread : Busy(u, s)' => pc'[u] = "dates") => Whole(s)'
    BY DEF Loaded
  <2>1. (\A u \in Thread : Busy(u, s)' => pc'[u] = "dates") => Whole(s)'
    BY <1>2
  <2>2. QED
    BY <1>1, <2>1 DEF At
<1>5. QED
  BY <1>3, <1>4

\* A thread busy with a source that is not doubtful is alone.
LEMMA BusyAlone ==
    ASSUME LoadsTold, NEW t \in Thread, NEW s \in Source \ doubtful, Busy(t, s)
    PROVE  Alone(t, s)
BY DEF LoadsTold, OneLoads, Alone

\* ETags are cleared, or go with their source; no thread gets another one.
LEMMA ServersKept ==
    ASSUME TagsOfServers, server' = server,
           \A s \in Source : sources'[s].entityTag # NULL => sources[s].entityTag # NULL /\ s \in Live',
           \A u \in Thread : pc'[u] = "tag" => pc[u] = "tag" /\ left'[u] = left[u]
    PROVE  TagsOfServers'
BY DEF TagsOfServers, Current

\* UPDATE changes the record of one source, if it is there.
LEMMA UpdatedRecord ==
    ASSUME TypeOK, NEW s \in Source, NEW record \in HostsSource, record.there = sources[s].there,
           sources' = Updated(s, record)
    PROVE  /\ \A r \in Source \ {s} : sources'[r] = sources[r]
           /\ sources'[s] = IF s \in Live THEN record ELSE sources[s]
           /\ Live' = Live
BY DEF TypeOK, Updated, Live

\* The columns that the statements of HostsSourceDao set.
LEMMA OnlineColumn ==
    ASSUME NEW r \in HostsSource, NEW d \in Date
    PROVE  LET record == [r EXCEPT !.online = d] IN
           /\ record \in HostsSource /\ record.there = r.there /\ record.entityTag = r.entityTag
           /\ record.local = r.local /\ record.online = d
BY DEF HostsSource

LEMMA DatesColumns ==
    ASSUME NEW r \in HostsSource, NEW d \in Date, NEW e \in Date
    PROVE  LET record == [r EXCEPT !.local = e, !.online = d] IN
           /\ record \in HostsSource /\ record.there = r.there /\ record.entityTag = r.entityTag
           /\ record.local = e /\ record.online = d
BY DEF HostsSource

LEMMA TagColumn ==
    ASSUME NEW r \in HostsSource, NEW d \in Date
    PROVE  LET record == [r EXCEPT !.entityTag = d] IN
           /\ record \in HostsSource /\ record.there = r.there /\ record.entityTag = d
           /\ record.local = r.local /\ record.online = r.online
BY DEF HostsSource

LEMMA ClearedColumns ==
    ASSUME NEW r \in HostsSource
    PROVE  /\ Cleared(r) \in HostsSource /\ Cleared(r).there = r.there
           /\ Cleared(r).entityTag = NULL /\ Cleared(r).local = NULL /\ Cleared(r).online = NULL
BY DEF HostsSource, Cleared, Date

LEMMA RecordOf == TypeOK => \A s \in Source : sources[s] \in HostsSource
BY DEF TypeOK

LEMMA CheckTag ==
    ASSUME TypeOK, TagInv, NEW t \in Thread, Check(t)
    PROVE  TagInv'
<1>1. OnlyMoves(t) /\ pc[t] \notin Handling /\ pc'[t] \notin Handling /\ rows' = rows /\ doubtful' = doubtful
      /\ server' = server
  BY DEF Check, CheckForUpdate, Begins, AskLastUpdate, UpdateOnlineModificationDate, EndCheck, GoesOn, Goes,
         Idles, OnlyMoves, Handling, Copying, TypeOK, history, world
<1>2. /\ \A s \in Source : sources'[s].entityTag = sources[s].entityTag
      /\ Live' = Live
  <2>1. CASE UpdateOnlineModificationDate(t)
    <3> DEFINE s == Current(t)
               record == [sources[s] EXCEPT !.online = date[t]]
    <3>1. s \in Source
      BY <2>1, CurrentIn DEF UpdateOnlineModificationDate, TypeOK
    <3>2. /\ record \in HostsSource /\ record.there = sources[s].there
          /\ record.entityTag = sources[s].entityTag
      <4>1. date[t] \in Date
        BY DEF TypeOK
      <4>2. QED
        BY <3>1, <4>1, RecordOf, OnlineColumn
    <3>3. sources' = Updated(s, record)
      BY <2>1 DEF UpdateOnlineModificationDate
    <3>4. /\ \A r \in Source \ {s} : sources'[r] = sources[r]
          /\ sources'[s] = IF s \in Live THEN record ELSE sources[s]
          /\ Live' = Live
      <4> HIDE DEF record, s
      <4>1. QED
        BY <3>1, <3>2, <3>3, UpdatedRecord
    <3>5. QED
      BY <3>2, <3>4
  <2>2. CASE CheckForUpdate(t) \/ AskLastUpdate(t) \/ EndCheck(t)
    BY <2>2 DEF CheckForUpdate, Begins, AskLastUpdate, EndCheck, Live
  <2>3. QED
    BY <2>1, <2>2 DEF Check
<1>3. LoadsTold'
  BY <1>1, <1>2, NoneAt, NoneTold DEF TagInv
<1>4. TagsOfServers'
  <2>1. \A u \in Thread : pc'[u] = "tag" => pc[u] = "tag" /\ left'[u] = left[u]
    BY <1>1 DEF OnlyMoves, Handling, Copying
  <2>2. QED
    BY <1>1, <1>2, <2>1, ServersKept DEF TagInv, TagsOfServers
<1>5. QED
  BY <1>3, <1>4 DEF TagInv

LEMMA PlainTag ==
    ASSUME TypeOK, TagInv, NEW t \in Thread,
           RetrieveHostsSources(t) \/ AskBeforeCopy(t) \/ GetFails(t) \/ EndRetrieve(t)
    PROVE  TagInv'
<1>1. OnlyMoves(t) /\ pc[t] \notin Handling /\ pc'[t] \notin Handling /\ rows' = rows /\ doubtful' = doubtful
      /\ server' = server /\ sources' = sources
  <2>1. CASE RetrieveHostsSources(t) \/ EndRetrieve(t)
    BY <2>1 DEF RetrieveHostsSources, Begins, EndRetrieve, Goes, Idles, OnlyMoves, Handling, Copying,
                TypeOK, history, world
  <2>2. CASE AskBeforeCopy(t) \/ GetFails(t)
    BY <2>2 DEF AskBeforeCopy, GetFails, GoesOn, Goes, OnlyMoves, Handling, Copying, TypeOK, history, world
  <2>3. QED
    BY <2>1, <2>2
<1>2. LoadsTold'
  BY <1>1, NoneAt, NoneTold DEF TagInv
<1>3. TagsOfServers'
  <2>1. \A u \in Thread : pc'[u] = "tag" => pc[u] = "tag" /\ left'[u] = left[u]
    BY <1>1 DEF OnlyMoves, Handling, Copying
  <2>2. Live' = Live
    BY <1>1 DEF Live
  <2>3. QED
    BY <1>1, <2>1, <2>2, ServersKept DEF TagInv, TagsOfServers
<1>4. QED
  BY <1>2, <1>3 DEF TagInv

LEMMA ClearDisabledTag ==
    ASSUME TypeOK, TagInv, NEW t \in Thread,
           NEW s \in Source, s = Current(t), ClearDisabled(t)
    PROVE  TagInv'
<1>1. /\ OnlyMoves(t) /\ pc'[t] = "clearProperties" /\ left' = left
      /\ \A r \in Source \ {s} : rows'[r] = rows[r]
      /\ doubtful' = Meets(t, s) /\ sources' = sources /\ server' = server
  BY DEF ClearDisabled, OnlyMoves, Goes, TypeOK, world
<1>2. s \notin doubtful' => OneLoads(s)' /\ Loaded(s)'
  <2> SUFFICES ASSUME s \notin doubtful' PROVE OneLoads(s)' /\ Loaded(s)'
    OBVIOUS
  <2>1. Alone(t, s)
    BY <1>1 DEF Meets
  <2>2. pc'[t] \in Handling
    BY <1>1 DEF Handling
  <2>3. QED
    BY <1>1, <2>1, <2>2, LoadTold
<1>3. LoadsTold'
  <2>1. doubtful \ {s} \subseteq doubtful'
    BY <1>1 DEF Meets
  <2>2. QED
    BY <1>1, <1>2, <2>1, HandlesTold DEF TagInv
<1>4. TagsOfServers'
  <2>1. \A u \in Thread : pc'[u] = "tag" => pc[u] = "tag" /\ left'[u] = left[u]
    BY <1>1 DEF OnlyMoves
  <2>2. Live' = Live
    BY <1>1 DEF Live
  <2>3. QED
    BY <1>1, <2>1, <2>2, ServersKept DEF TagInv, TagsOfServers
<1>5. QED
  BY <1>3, <1>4 DEF TagInv

\* The answers to a request: only a load that is alone ends doubts, and 304 leaves
\* the rows there are.
LEMMA GetTag ==
    ASSUME TypeOK, TagInv, NEW t \in Thread,
           NEW s \in Source, s = Current(t), GetNotModified(t) \/ Get(t) \/ GetError(t)
    PROVE  TagInv'
<1>1. /\ OnlyMoves(t) /\ pc[t] = "get" /\ left' = left
      /\ rows' = rows /\ sources' = sources /\ server' = server
      /\ doubtful \ {s} \subseteq doubtful'
  <2>1. left[t] # {} /\ pc[t] = "get"
    BY DEF GetNotModified, TakesNotModified, Get, GetError, TypeOK
  <2>2. CASE GetNotModified(t) \/ GetError(t)
    BY <2>1, <2>2 DEF GetNotModified, GetError, OnlyMoves, Goes, TypeOK, world, Meets
  <2>3. CASE Get(t)
    BY <2>1, <2>3 DEF Get, OnlyMoves, Goes, TypeOK, world, Meets
  <2>4. QED
    BY <2>2, <2>3
<1>2. s \notin doubtful' => Alone(t, s)
  BY DEF GetNotModified, Get, GetError, Meets
<1>3. /\ GetNotModified(t) => pc'[t] = "dates"
      /\ Get(t) => pc'[t] = IF server[s] = "etag" THEN "tag" ELSE "clear"
      /\ GetError(t) => s \in doubtful' /\ pc'[t] = "clear"
  BY DEF GetNotModified, Get, GetError, Goes, TypeOK
<1>4. s \notin doubtful' /\ GetNotModified(t) /\ sources[s].entityTag # NULL => Whole(s)
  <2> SUFFICES ASSUME s \notin doubtful', GetNotModified(t), sources[s].entityTag # NULL
               PROVE  Whole(s)
    OBVIOUS
  <2>1. Alone(t, s) /\ s \notin doubtful
    BY <1>2 DEF GetNotModified, Meets
  <2>2. \A u \in Thread : ~Busy(u, s)
    BY <1>1, <2>1 DEF Alone, Busy
  <2>3. Loaded(s)
    BY <1>1, <2>1 DEF TagInv, LoadsTold
  <2>4. QED
    BY <2>2, <2>3 DEF Loaded
<1>5. s \notin doubtful' => OneLoads(s)' /\ Loaded(s)'
  <2> SUFFICES ASSUME s \notin doubtful' PROVE OneLoads(s)' /\ Loaded(s)'
    OBVIOUS
  <2>1. Alone(t, s)
    BY <1>2
  <2>2. pc'[t] \in Handling
    BY <1>3 DEF Handling, Copying
  <2>3. sources'[s].entityTag # NULL =>
              /\ pc'[t] \in {"clear", "first", "second"} => got'[t] = sources'[s].entityTag
              /\ pc'[t] # "first" /\ pc'[t] # "second"
              /\ pc'[t] = "dates" => Whole(s)'
    <3>1. sources[s].entityTag # NULL => server[s] = "etag"
      BY <1>1 DEF TagInv, TagsOfServers
    <3>2. sources[s].entityTag # NULL => pc'[t] \in {"tag", "dates"}
      BY <1>3, <3>1
    <3>3. pc'[t] = "dates" => GetNotModified(t)
      BY <1>3
    <3>4. Whole(s) => Whole(s)'
      BY <1>1 DEF Whole
    <3>5. QED
      BY <1>1, <1>4, <3>2, <3>3, <3>4
  <2>4. QED
    BY <1>1, <2>1, <2>2, <2>3, LoadTold
<1>6. LoadsTold'
  BY <1>1, <1>5, HandlesTold DEF TagInv
<1>7. TagsOfServers'
  <2>1. Live' = Live
    BY <1>1 DEF Live
  <2>2. \A u \in Thread \ {t} : pc'[u] = pc[u] /\ left'[u] = left[u]
    BY <1>1 DEF OnlyMoves
  <2>3. pc'[t] = "tag" => server[s] = "etag"
    BY <1>3
  <2>4. QED
    BY <1>1, <2>1, <2>2, <2>3 DEF TagInv, TagsOfServers, Current
<1>8. QED
  BY <1>6, <1>7 DEF TagInv

\* What changes the record of the source a thread is busy with.
LEMMA RecordTag ==
    ASSUME TypeOK, TagInv, NEW t \in Thread, NEW s \in Source, s = Current(t),
           ClearProperties(t) \/ UpdateEntityTag(t) \/ UpdateModificationDates(t)
    PROVE  /\ \A r \in Source \ {s} : sources'[r] = sources[r]
           /\ Live' = Live
           /\ s \notin Live => sources'[s] = sources[s]
           /\ ClearProperties(t) /\ s \in Live =>
                 /\ sources'[s].entityTag = NULL /\ sources'[s].local = NULL
                 /\ sources'[s].online = NULL
           /\ UpdateEntityTag(t) /\ s \in Live =>
                 /\ sources'[s].entityTag = got[t] /\ sources'[s].local = sources[s].local
                 /\ sources'[s].online = sources[s].online
           /\ UpdateModificationDates(t) /\ s \in Live =>
                 /\ sources'[s].entityTag = sources[s].entityTag
                 /\ sources'[s].local = Latest(date[t], start[t]) /\ sources'[s].online = date[t]
<1>1. sources[s] \in HostsSource /\ date[t] \in Date /\ got[t] \in Date /\ start[t] \in Time
  BY DEF TypeOK
<1>2. CASE ClearProperties(t)
  <2>1. sources' = Updated(s, Cleared(sources[s]))
    BY <1>2 DEF ClearProperties
  <2>2. QED
    BY <1>1, <1>2, <2>1, ClearedColumns, UpdatedRecord
       DEF ClearProperties, UpdateEntityTag, UpdateModificationDates
<1>3. CASE UpdateEntityTag(t)
  <2> DEFINE record == [sources[s] EXCEPT !.entityTag = got[t]]
  <2>1. sources' = Updated(s, record)
    BY <1>3 DEF UpdateEntityTag
  <2>2. /\ record \in HostsSource /\ record.there = sources[s].there /\ record.entityTag = got[t]
        /\ record.local = sources[s].local /\ record.online = sources[s].online
    BY <1>1, TagColumn
  <2> HIDE DEF record
  <2>3. /\ \A r \in Source \ {s} : sources'[r] = sources[r]
        /\ sources'[s] = IF s \in Live THEN record ELSE sources[s]
        /\ Live' = Live
    BY <2>1, <2>2, UpdatedRecord
  <2>4. ~ClearProperties(t) /\ ~UpdateModificationDates(t)
    BY <1>3 DEF ClearProperties, UpdateEntityTag, UpdateModificationDates
  <2>5. QED
    BY <2>2, <2>3, <2>4
<1>4. CASE UpdateModificationDates(t)
  <2> DEFINE record == [sources[s] EXCEPT !.local = Latest(date[t], TimeAtStart(t)), !.online = date[t]]
  <2>1. sources' = Updated(s, record)
    BY <1>4 DEF UpdateModificationDates
  <2>2. /\ record \in HostsSource /\ record.there = sources[s].there
        /\ record.entityTag = sources[s].entityTag
        /\ record.local = Latest(date[t], start[t]) /\ record.online = date[t]
    <3>1. Latest(date[t], start[t]) \in Date /\ TimeAtStart(t) = start[t]
      BY <1>1 DEF Latest, Date, TimeAtStart
    <3> DEFINE e == Latest(date[t], start[t])
    <3>2. record = [sources[s] EXCEPT !.local = e, !.online = date[t]]
      BY <3>1
    <3> HIDE DEF record, e
    <3>3. e \in Date
      BY <3>1 DEF e
    <3>4. /\ record \in HostsSource /\ record.there = sources[s].there
          /\ record.entityTag = sources[s].entityTag /\ record.local = e /\ record.online = date[t]
      BY <1>1, <3>2, <3>3 DEF HostsSource
    <3>5. QED
      BY <3>4 DEF e
  <2> HIDE DEF record
  <2>3. /\ \A r \in Source \ {s} : sources'[r] = sources[r]
        /\ sources'[s] = IF s \in Live THEN record ELSE sources[s]
        /\ Live' = Live
    BY <2>1, <2>2, UpdatedRecord
  <2>4. ~ClearProperties(t) /\ ~UpdateEntityTag(t)
    BY <1>4 DEF ClearProperties, UpdateEntityTag, UpdateModificationDates
  <2>5. QED
    BY <2>2, <2>3, <2>4
<1>5. QED
  BY <1>2, <1>3, <1>4

\* The ETag changes with the place of the thread that loads.
LEMMA RecordTold ==
    ASSUME TypeOK, TagInv, NEW t \in Thread, NEW s \in Source, s = Current(t),
           ClearProperties(t) \/ UpdateEntityTag(t) \/ UpdateModificationDates(t)
    PROVE  TagInv'
<1>1. /\ OnlyMoves(t)
      /\ left'[t] = left[t] \/ pc'[t] \notin Handling
      /\ rows' = rows /\ doubtful' = doubtful /\ server' = server
      /\ UpdateEntityTag(t) => pc[t] = "tag" /\ pc'[t] = "clear" /\ got'[t] = got[t] /\ left'[t] = left[t]
      /\ ClearProperties(t) => pc[t] = "clearProperties" /\ pc'[t] = "next"
      /\ UpdateModificationDates(t) => pc[t] = "dates" /\ pc'[t] = "next"
  <2>1. CASE ClearProperties(t)
    BY <2>1 DEF ClearProperties, UpdateEntityTag, UpdateModificationDates, GoesOn, Goes, OnlyMoves, Handling,
                Copying, TypeOK, history, world
  <2>2. CASE UpdateEntityTag(t)
    BY <2>2 DEF ClearProperties, UpdateEntityTag, UpdateModificationDates, GoesOn, Goes, OnlyMoves, Handling,
                Copying, TypeOK, history, world
  <2>3. CASE UpdateModificationDates(t)
    BY <2>3 DEF ClearProperties, UpdateEntityTag, UpdateModificationDates, GoesOn, Goes, OnlyMoves, Handling,
                Copying, TypeOK, history, world
  <2>4. QED
    BY <2>1, <2>2, <2>3
<1>2. \A r \in Source : r \notin Live => sources[r].entityTag = NULL
  BY DEF TagInv, TagsOfServers
<1>3. s \notin doubtful' => OneLoads(s)' /\ Loaded(s)'
  <2> SUFFICES ASSUME s \notin doubtful PROVE OneLoads(s)' /\ Loaded(s)'
    BY <1>1
  <2>1. Busy(t, s)
    BY <1>1, BusyAt DEF Handling, Copying
  <2>2. Alone(t, s) /\ \A u \in Thread : Busy(u, s) => u = t
    BY <2>1, BusyAlone DEF TagInv, Alone
  <2>3. Whole(s) /\ sources'[s].entityTag = sources[s].entityTag => Whole(s)'
    BY <1>1 DEF Whole
  <2>4. pc[t] = "dates" /\ sources[s].entityTag # NULL => Whole(s)
    BY <2>2 DEF TagInv, LoadsTold, Loaded
  <2>5. sources'[s].entityTag # NULL =>
           \/ pc'[t] = "clear" /\ got'[t] = sources'[s].entityTag
           \/ pc'[t] = "next" /\ Whole(s)'
    BY <1>1, <1>2, <2>3, <2>4, RecordTag
  <2>6. "clear" \in Handling
    BY DEF Handling, Copying
  <2>7. QED
    BY <1>1, <2>2, <2>5, <2>6, LoadTold
<1>4. LoadsTold'
  <2>1. \A r \in Source \ {s} : sources'[r] = sources[r]
    BY RecordTag
  <2>2. QED
    BY <1>1, <1>3, <2>1, HandlesTold DEF TagInv
<1>5. TagsOfServers'
  <2>1. \A u \in Thread : pc'[u] = "tag" => pc[u] = "tag" /\ left'[u] = left[u] /\ u # t
    BY <1>1 DEF OnlyMoves
  <2>2. UpdateEntityTag(t) => server[s] = "etag"
    BY <1>1 DEF TagInv, TagsOfServers
  <2>3. \A r \in Source : sources'[r].entityTag # NULL => r \in Live' /\ server[r] = "etag"
    BY <1>2, <2>2, RecordTag DEF TagInv, TagsOfServers
  <2>4. QED
    BY <1>1, <2>1, <2>3 DEF TagInv, TagsOfServers, Current
<1>6. QED
  BY <1>4, <1>5 DEF TagInv

LEMMA ClearRowsTag ==
    ASSUME TypeOK, TagInv, NEW t \in Thread, NEW s \in Source, s = Current(t), ClearSourceHosts(t)
    PROVE  TagInv'
<1>1. /\ OnlyMoves(t)
      /\ pc[t] = "clear" /\ pc'[t] = IF got[t] = NULL THEN "dates" ELSE "first"
      /\ left' = left /\ got' = got
      /\ \A r \in Source \ {s} : rows'[r] = rows[r]
      /\ rows'[s] = {} /\ doubtful' = doubtful /\ sources' = sources /\ server' = server
  BY DEF ClearSourceHosts, OnlyMoves, Goes, TypeOK, world
<1>2. s \notin doubtful' => OneLoads(s)' /\ Loaded(s)'
  <2> SUFFICES ASSUME s \notin doubtful PROVE OneLoads(s)' /\ Loaded(s)'
    BY <1>1
  <2>1. Busy(t, s)
    BY <1>1 DEF Busy
  <2>2. Alone(t, s)
    BY <2>1, BusyAlone DEF TagInv
  <2>3. sources[s].entityTag # NULL => got[t] = sources[s].entityTag
    BY <1>1, <2>1 DEF TagInv, LoadsTold, Loaded, At
  <2>4. pc'[t] \in Handling
    BY <1>1 DEF Handling, Copying
  <2>5. QED
    BY <1>1, <2>2, <2>3, <2>4, LoadTold
<1>3. LoadsTold'
  BY <1>1, <1>2, HandlesTold DEF TagInv
<1>4. TagsOfServers'
  <2>1. \A u \in Thread : pc'[u] = "tag" => pc[u] = "tag" /\ left'[u] = left[u]
    BY <1>1 DEF OnlyMoves
  <2>2. Live' = Live
    BY <1>1 DEF Live
  <2>3. QED
    BY <1>1, <2>1, <2>2, ServersKept DEF TagInv, TagsOfServers
<1>5. QED
  BY <1>3, <1>4 DEF TagInv

\* The second part completes what the ETag names.
LEMMA InsertTag ==
    ASSUME TypeOK, TagInv, NEW t \in Thread, NEW s \in Source, s = Current(t), InsertItems(t)
    PROVE  TagInv'
<1> DEFINE new == [version |-> got[t], part |-> pc[t], by |-> t, enabled |-> TRUE]
<1>1. /\ OnlyMoves(t)
      /\ pc[t] \in {"first", "second"}
      /\ pc[t] = "first" => pc'[t] = "second"
      /\ pc[t] = "second" => pc'[t] = "dates"
      /\ left' = left /\ got' = got
      /\ \A r \in Source \ {s} : rows'[r] = rows[r]
      /\ rows'[s] = rows[s] \cup {new} /\ doubtful' = doubtful /\ sources' = sources /\ server' = server
  BY DEF InsertItems, OnlyMoves, Goes, TypeOK, world, After, Part
<1>2. new.version = got[t] /\ new.part = pc[t]
  OBVIOUS
<1> HIDE DEF new
<1>3. s \notin doubtful' => OneLoads(s)' /\ Loaded(s)'
  <2> SUFFICES ASSUME s \notin doubtful PROVE OneLoads(s)' /\ Loaded(s)'
    BY <1>1
  <2>1. Busy(t, s)
    BY <1>1 DEF Busy
  <2>2. Alone(t, s)
    BY <2>1, BusyAlone DEF TagInv
  <2>3. sources[s].entityTag # NULL =>
           /\ got[t] = sources[s].entityTag
           /\ pc[t] = "first" => rows[s] = {}
           /\ pc[t] = "second" =>
                 \E r \in rows[s] : /\ rows[s] = {r} /\ r.part = "first"
                                    /\ r.version = sources[s].entityTag
    BY <1>1, <2>1 DEF TagInv, LoadsTold, Loaded, At
  <2>4. sources[s].entityTag # NULL /\ pc[t] = "second" => Whole(s)'
    BY <1>1, <1>2, <2>3 DEF Whole, Part
  <2>5. pc'[t] \in Handling
    BY <1>1 DEF Handling, Copying
  <2>6. sources[s].entityTag # NULL /\ pc[t] = "first" =>
           \E r \in rows'[s] : rows'[s] = {r} /\ r.part = "first" /\ r.version = sources[s].entityTag
    BY <1>1, <1>2, <2>3
  <2>7. QED
    BY <1>1, <2>2, <2>3, <2>4, <2>5, <2>6, LoadTold
<1>4. LoadsTold'
  BY <1>1, <1>3, HandlesTold DEF TagInv
<1>5. TagsOfServers'
  <2>1. \A u \in Thread : pc'[u] = "tag" => pc[u] = "tag" /\ left'[u] = left[u]
    BY <1>1 DEF OnlyMoves
  <2>2. Live' = Live
    BY <1>1 DEF Live
  <2>3. QED
    BY <1>1, <2>1, <2>2, ServersKept DEF TagInv, TagsOfServers
<1>6. QED
  BY <1>4, <1>5 DEF TagInv

\* A load that breaks off leaves doubts.
LEMMA TornTag ==
    ASSUME TypeOK, TagInv, NEW t \in Thread, NEW s \in Source, s = Current(t),
           ParseFails(t) \/ InsertRefused(t)
    PROVE  TagInv'
<1>1. /\ OnlyMoves(t)
      /\ pc'[t] = "dates" /\ left' = left /\ rows' = rows /\ sources' = sources /\ server' = server
      /\ doubtful' = doubtful \cup {s}
  BY DEF ParseFails, InsertRefused, Torn, OnlyMoves, Goes, TypeOK, world
<1>2. LoadsTold'
  BY <1>1, HandlesTold DEF TagInv
<1>3. TagsOfServers'
  <2>1. \A u \in Thread : pc'[u] = "tag" => pc[u] = "tag" /\ left'[u] = left[u]
    BY <1>1 DEF OnlyMoves
  <2>2. Live' = Live
    BY <1>1 DEF Live
  <2>3. QED
    BY <1>1, <2>1, <2>2, ServersKept DEF TagInv, TagsOfServers
<1>4. QED
  BY <1>2, <1>3 DEF TagInv

\* The rows stay those of the ETag, and the threads where they are, when the user adds,
\* deletes or switches a source and when files change.
LEMMA UserTag ==
    ASSUME TypeOK, TagInv, NEW s \in Source,
           \/ FileChanges(s) \/ Insert(s) \/ Delete(s)
           \/ \E enabled \in BOOLEAN : SetSourceEnabled(s, enabled)
    PROVE  TagInv'
<1>1. /\ UNCHANGED working /\ server' = server /\ doubtful' = doubtful
      /\ \A r \in Source \ {s} : sources'[r] = sources[r]
      /\ sources'[s].entityTag \in {sources[s].entityTag, NULL}
      /\ Live \ {s} \subseteq Live' /\ (s \in Live => s \in Live' \/ sources'[s].entityTag = NULL)
      /\ rows'[s] = rows[s] \/ sources'[s].entityTag = NULL
      /\ \A r \in Source \ {s} : rows'[r] = rows[r]
  <2>1. CASE FileChanges(s)
    BY <2>1 DEF FileChanges, Live, history
  <2>2. CASE Insert(s)
    <3>1. sources' = [sources EXCEPT ![s].there = "live"] /\ sources[s] \in HostsSource
      BY <2>2 DEF Insert, TypeOK
    <3>2. /\ \A r \in Source \ {s} : sources'[r] = sources[r]
          /\ sources'[s].entityTag = sources[s].entityTag /\ sources'[s].there = "live"
      BY <3>1 DEF TypeOK, HostsSource
    <3>3. Live \subseteq Live'
      BY <3>2 DEF Live
    <3>4. QED
      BY <2>2, <3>2, <3>3 DEF Insert, world, history
  <2>3. CASE Delete(s)
    <3>1. /\ \A r \in Source \ {s} : sources'[r] = sources[r]
          /\ sources'[s].entityTag = NULL
      BY <2>3 DEF Delete, TypeOK, NewSource
    <3>2. Live \ {s} \subseteq Live'
      BY <3>1 DEF Live
    <3>3. \A r \in Source \ {s} : rows'[r] = rows[r]
      BY <2>3 DEF Delete, TypeOK
    <3>4. QED
      BY <2>3, <3>1, <3>2, <3>3 DEF Delete, world, history
  <2>4. CASE \E enabled \in BOOLEAN : SetSourceEnabled(s, enabled)
    <3>1. PICK enabled \in BOOLEAN : SetSourceEnabled(s, enabled)
      BY <2>4
    <3>2. sources' = [sources EXCEPT ![s].enabled = enabled] /\ sources[s] \in HostsSource
      BY <3>1 DEF SetSourceEnabled, TypeOK
    <3>3. /\ \A r \in Source \ {s} : sources'[r] = sources[r]
          /\ sources'[s].entityTag = sources[s].entityTag /\ sources'[s].there = sources[s].there
      BY <3>2 DEF TypeOK, HostsSource
    <3>4. Live \subseteq Live'
      BY <3>3 DEF Live
    <3>5. QED
      BY <3>1, <3>3, <3>4 DEF SetSourceEnabled, world
  <2>5. QED
    BY <2>1, <2>2, <2>3, <2>4
<1>2. \A r \in Source : SameAt(r)
  BY <1>1 DEF SameAt, Busy, Current, working
<1>3. LoadsTold'
  <2> SUFFICES ASSUME NEW r \in Source, r \notin doubtful'
               PROVE  OneLoads(r)' /\ Loaded(r)'
    BY DEF LoadsTold
  <2>1. OneLoads(r) /\ Loaded(r)
    BY <1>1 DEF TagInv, LoadsTold
  <2>2. CASE sources'[r].entityTag = NULL
    <3>1. OneLoads(r)'
      BY <1>2, <2>1 DEF SameAt, OneLoads
    <3>2. Loaded(r)'
      BY <2>2 DEF Loaded
    <3>3. QED
      BY <3>1, <3>2
  <2>3. CASE sources'[r].entityTag # NULL
    BY <1>1, <1>2, <2>1, <2>3, SameLoad
  <2>4. QED
    BY <2>2, <2>3
<1>4. TagsOfServers'
  <2>1. \A u \in Thread : pc'[u] = "tag" => pc[u] = "tag" /\ left'[u] = left[u]
    BY <1>1 DEF working
  <2>2. \A r \in Source : sources'[r].entityTag # NULL => sources[r].entityTag # NULL /\ r \in Live'
    BY <1>1 DEF TagInv, TagsOfServers
  <2>3. QED
    BY <1>1, <2>1, <2>2, ServersKept DEF TagInv
<1>5. QED
  BY <1>3, <1>4 DEF TagInv

\* A switch of the items changes neither their parts nor their versions.
LEMMA SwitchedWhole ==
    ASSUME TypeOK, NEW s \in Source, NEW enabled,
           rows'[s] = {[r EXCEPT !.enabled = enabled] : r \in rows[s]}
    PROVE  /\ \A r \in rows[s] : \E new \in rows'[s] : new.part = r.part /\ new.version = r.version
           /\ \A new \in rows'[s] : \E r \in rows[s] :
                 new = [r EXCEPT !.enabled = enabled] /\ new.part = r.part /\ new.version = r.version
           /\ \A r \in rows[s] : rows[s] = {r} =>
                 \E new \in rows'[s] : rows'[s] = {new} /\ new.part = r.part /\ new.version = r.version
<1>1. \A r \in rows[s] : r \in Row
  BY DEF TypeOK
<1>2. \A r \in Row : LET new == [r EXCEPT !.enabled = enabled] IN
         new.part = r.part /\ new.version = r.version
  BY DEF Row
<1>3. \A r \in rows[s] : [r EXCEPT !.enabled = enabled] \in rows'[s]
  OBVIOUS
<1>4. \A new \in rows'[s] : \E r \in rows[s] : new = [r EXCEPT !.enabled = enabled]
  OBVIOUS
<1>5. \A r \in rows[s] : rows[s] = {r} => rows'[s] = {[r EXCEPT !.enabled = enabled]}
  OBVIOUS
<1>6. \A r \in rows[s] : /\ [r EXCEPT !.enabled = enabled].part = r.part
                         /\ [r EXCEPT !.enabled = enabled].version = r.version
  BY <1>1, <1>2
<1>7. \A r \in rows[s] : rows[s] = {r} =>
         \E new \in rows'[s] : rows'[s] = {new} /\ new.part = r.part /\ new.version = r.version
  BY <1>3, <1>5, <1>6
<1>8. /\ \A r \in rows[s] : \E new \in rows'[s] : new.part = r.part /\ new.version = r.version
      /\ \A new \in rows'[s] : \E r \in rows[s] :
            new = [r EXCEPT !.enabled = enabled] /\ new.part = r.part /\ new.version = r.version
  BY <1>3, <1>4, <1>6
<1>9. QED
  BY <1>7, <1>8

LEMMA SwitchItemsTag ==
    ASSUME TypeOK, TagInv, SetSourceItemsEnabled
    PROVE  TagInv'
<1>1. toggling \in Source \X BOOLEAN
  BY DEF SetSourceItemsEnabled, TypeOK
<1> DEFINE s == toggling[1]
           enabled == toggling[2]
<1>2. s \in Source /\ enabled \in BOOLEAN
  BY <1>1
<1>3. /\ rows'[s] = {[r EXCEPT !.enabled = enabled] : r \in rows[s]}
      /\ \A r \in Source \ {s} : rows'[r] = rows[r]
      /\ UNCHANGED <<server, sources, working, doubtful>>
  BY <1>2 DEF SetSourceItemsEnabled, TypeOK, world, history
<1>4. PICK x \in Source, b \in BOOLEAN :
        /\ rows'[x] = {[r EXCEPT !.enabled = b] : r \in rows[x]}
        /\ \A r \in Source \ {x} : rows'[r] = rows[r]
  BY <1>2, <1>3
<1> HIDE DEF s, enabled
<1>5. \A r \in Source : SameAt(r)
  BY <1>3 DEF SameAt, Busy, Current, working
<1>6. LoadsTold'
  <2> SUFFICES ASSUME NEW q \in Source, q \notin doubtful'
               PROVE  OneLoads(q)' /\ Loaded(q)'
    BY DEF LoadsTold
  <2>1. OneLoads(q) /\ Loaded(q)
    BY <1>3 DEF TagInv, LoadsTold
  <2>2. CASE q # x
    BY <1>3, <1>4, <1>5, <2>1, <2>2, SameLoad
  <2>3. CASE q = x
    <3>1. /\ \A r \in rows[q] : \E new \in rows'[q] : new.part = r.part /\ new.version = r.version
          /\ \A new \in rows'[q] : \E r \in rows[q] :
                new = [r EXCEPT !.enabled = b] /\ new.part = r.part /\ new.version = r.version
          /\ \A r \in rows[q] : rows[q] = {r} =>
                \E new \in rows'[q] : rows'[q] = {new} /\ new.part = r.part /\ new.version = r.version
      BY <1>4, <2>3, SwitchedWhole
    <3>2. Whole(q) => Whole(q)'
      <4> SUFFICES ASSUME Whole(q) PROVE Whole(q)'
        OBVIOUS
      <4>1. \A new \in rows'[q] : new.version = sources'[q].entityTag
        BY <1>3, <3>1 DEF Whole
      <4>2. \A part \in Part : \E new \in rows'[q] : new.part = part
        BY <3>1 DEF Whole
      <4>3. \A new, other \in rows'[q] : new.part = other.part => new = other
        BY <3>1 DEF Whole
      <4>4. QED
        BY <4>1, <4>2, <4>3 DEF Whole
    <3>3. OneLoads(q)'
      BY <1>5, <2>1 DEF SameAt, OneLoads
    <3>4. rows[q] = {} => rows'[q] = {}
      BY <3>1
    <3>5. Loaded(q)'
      BY <1>3, <2>1, <3>1, <3>2, <3>4 DEF Loaded, At, Busy, Current, working
    <3>6. QED
      BY <3>3, <3>5
  <2>4. QED
    BY <2>2, <2>3
<1>7. TagsOfServers'
  <2>1. \A u \in Thread : pc'[u] = "tag" => pc[u] = "tag" /\ left'[u] = left[u]
    BY <1>3 DEF working
  <2>2. Live' = Live
    BY <1>3 DEF Live
  <2>3. QED
    BY <1>3, <2>1, <2>2, ServersKept DEF TagInv, TagsOfServers
<1>8. QED
  BY <1>6, <1>7 DEF TagInv

\* The process may end anywhere: it leaves doubts, unless the rows were there.
LEMMA KillTag ==
    ASSUME TypeOK, TagInv, Kill
    PROVE  TagInv'
<1>1. /\ \A t \in Thread : pc'[t] = "idle"
      /\ UNCHANGED <<server, sources, rows>>
  BY DEF Kill, world
<1>2. \A t \in Thread, s \in Source : ~Busy(t, s)'
  BY <1>1 DEF Busy
<1>3. LoadsTold'
  <2> SUFFICES ASSUME NEW s \in Source, s \notin doubtful'
               PROVE  OneLoads(s)' /\ Loaded(s)'
    BY DEF LoadsTold
  <2>1. s \notin doubtful /\ \A t \in Thread : Busy(t, s) => pc[t] = "dates"
    BY DEF Kill
  <2>2. sources[s].entityTag # NULL => Whole(s)
    BY <2>1 DEF TagInv, LoadsTold, Loaded
  <2>3. Whole(s) => Whole(s)'
    BY <1>1 DEF Whole
  <2>4. OneLoads(s)'
    BY <1>2 DEF OneLoads
  <2>5. Loaded(s)'
    BY <1>1, <1>2, <2>2, <2>3 DEF Loaded, At
  <2>6. QED
    BY <2>4, <2>5
<1>4. TagsOfServers'
  <2>1. Live' = Live
    BY <1>1 DEF Live
  <2>2. QED
    BY <1>1, <2>1 DEF TagInv, TagsOfServers
<1>5. QED
  BY <1>3, <1>4 DEF TagInv

LEMMA InitTag == Init => TagInv
<1> SUFFICES ASSUME Init PROVE TagInv
  OBVIOUS
<1>1. PICK installed \in SUBSET Source :
        sources = [s \in Source |->
                      [NewSource EXCEPT !.there = IF s \in installed THEN "live" ELSE "new"]]
  BY DEF Init
<1>2. \A s \in Source : sources[s].entityTag = NULL
  BY <1>1 DEF NewSource
<1>3. \A t \in Thread : pc[t] = "idle"
  BY DEF Init
<1>4. QED
  BY <1>2, <1>3 DEF TagInv, TagsOfServers, LoadsTold, OneLoads, Loaded, Busy

\* A retrieval that does not begin, end or turn its loop handles a source.
LEMMA HandlesOne ==
    ASSUME TypeOK, NEW t \in Thread, Retrieve(t),
           ~(RetrieveHostsSources(t) \/ AskBeforeCopy(t) \/ GetFails(t) \/ EndRetrieve(t))
    PROVE  left[t] # {}
BY DEF Retrieve, ClearDisabled, ClearProperties, GetNotModified, TakesNotModified, Get, GetError,
       UpdateEntityTag, ClearSourceHosts, InsertItems, ParseFails, InsertRefused,
       UpdateModificationDates, Part, TypeOK

LEMMA NextTag == TypeOK /\ TagInv /\ [Next]_vars => TagInv'
<1> SUFFICES ASSUME TypeOK, TagInv, [Next]_vars PROVE TagInv'
  OBVIOUS
<1>1. CASE UNCHANGED vars \/ Tick
  <2>1. UNCHANGED <<server, sources, rows, working, history>>
    BY <1>1 DEF vars, Tick, world
  <2>2. /\ \A s \in Source : SameAt(s)
        /\ rows' = rows /\ sources' = sources /\ doubtful' = doubtful
    BY <2>1 DEF SameAt, Busy, Current, working, history
  <2>3. LoadsTold'
    BY <2>2, NoneTold DEF TagInv
  <2>4. TagsOfServers'
    BY <2>1 DEF TagInv, TagsOfServers, Live, Current, working
  <2>5. QED
    BY <2>3, <2>4 DEF TagInv
<1>2. ASSUME NEW t \in Thread, Retrieve(t) PROVE TagInv'
  <2>1. CASE RetrieveHostsSources(t) \/ AskBeforeCopy(t) \/ GetFails(t) \/ EndRetrieve(t)
    BY <2>1, PlainTag
  <2>2. CASE ~(RetrieveHostsSources(t) \/ AskBeforeCopy(t) \/ GetFails(t) \/ EndRetrieve(t))
    <3>1. PICK s \in Source : s = Current(t)
      BY <1>2, <2>2, CurrentIn, HandlesOne
    <3>2. QED
      BY <1>2, <2>2, <3>1, ClearDisabledTag, GetTag, RecordTold, ClearRowsTag, InsertTag, TornTag
         DEF Retrieve
  <2>3. QED
    BY <2>1, <2>2
<1>3. CASE Next /\ ~Tick
  BY <1>2, <1>3, UserTag, SwitchItemsTag, CheckTag, KillTag DEF Next
<1>4. QED
  BY <1>1, <1>3

\* The rows of one load are two.
LEMMA WholeHeld ==
    ASSUME TypeOK, NEW s \in Source, Whole(s)
    PROVE  Held(s) = Content(sources[s].entityTag) /\ Cardinality(rows[s]) = 2
<1>1. PICK first \in rows[s] : first.part = "first"
  BY DEF Whole, Part
<1>2. PICK second \in rows[s] : second.part = "second"
  BY DEF Whole, Part
<1>3. \A r \in rows[s] : r.part \in Part /\ r.version = sources[s].entityTag
  BY DEF TypeOK, Row, Whole
<1>4. rows[s] = {first, second} /\ first # second
  BY <1>1, <1>2, <1>3 DEF Whole, Part
<1>5. Cardinality(rows[s]) = 2
  <2>1. Cardinality({first}) = 1 /\ IsFiniteSet({first})
    BY FS_Singleton
  <2>2. Cardinality({first} \cup {second}) = IF second \in {first} THEN Cardinality({first})
                                                                   ELSE Cardinality({first}) + 1
    BY <2>1, FS_AddElement
  <2>3. second \notin {first} /\ rows[s] = {first} \cup {second}
    BY <1>4
  <2>4. QED
    BY <2>1, <2>2, <2>3
<1>6. Held(s) = Content(sources[s].entityTag)
  BY <1>1, <1>2, <1>3, <1>4 DEF Held, Content, Part
<1>7. QED
  BY <1>5, <1>6

\* The ETag stored for a source names the rows there are, both parts and each once, for
\* any number of sources and of threads that check and retrieve: it is stored before the
\* rows are cleared and inserted, which only the thread that got it does, unless another
\* one does too, the load breaks off or is of an error page, or the process ends.
THEOREM EntityTagTheorem == Spec => []EntityTagNamesRows
<1>1. TypeOK /\ TagInv => EntityTagNamesRows
  <2> SUFFICES ASSUME TypeOK, TagInv, NEW s \in Source \ doubtful, Quiet(s),
                      sources[s].entityTag # NULL
               PROVE  Held(s) = Content(sources[s].entityTag) /\ Cardinality(rows[s]) = 2
    BY DEF EntityTagNamesRows
  <2>1. Whole(s)
    BY DEF TagInv, LoadsTold, Loaded, Quiet
  <2>2. QED
    BY <2>1, WholeHeld
<1>2. QED
  BY <1>1, InitTag, Types, NextTag, PTL DEF Spec

-----------------------------------------------------------------------------
(* The dates.                                                              *)

\* No time is in the future, and no ETag is newer than the file.
StoredTimes ==
    \A s \in Source :
        /\ file[s] <= now /\ sources[s].entityTag <= file[s]
        /\ sources[s].local <= now /\ sources[s].online <= now

AskedTimes ==
    \A t \in Thread :
        /\ start[t] <= now /\ date[t] <= now
        /\ \A s \in Source : seen[t][s].online <= now /\ seen[t][s].entityTag <= file[s]
        /\ pc[t] = "tag" => got[t] <= file[Current(t)]

\* What was asked and begun before the file changed.
AskedBefore(t, s) == start[t] <= file[s] /\ date[t] <= file[s]

\* A file that is not the one loaded changed after all that the load, under way or done,
\* had asked.
ChangedLater(s) ==
    /\ \A t \in Thread : At(t, s, {"tag"}) =>
          /\ sources[s].entityTag <= got[t]
          /\ got[t] # file[s] => AskedBefore(t, s) /\ sources[s].local <= file[s]
    /\ (\A t \in Thread : ~At(t, s, {"tag"})) /\ sources[s].entityTag \notin {NULL, file[s]} =>
          /\ sources[s].local <= file[s]
          /\ \A t \in Thread : At(t, s, {"clear", "first", "second", "dates"}) => AskedBefore(t, s)

\* The ETag a thread read is not newer than the one there is, or the one there will be.
KnowsOlder(s) ==
    \A t \in Thread :
        s \in left[t] =>
            /\ \A u \in Thread : At(u, s, {"tag"}) => seen[t][s].entityTag <= got[u]
            /\ (\A u \in Thread : ~At(u, s, {"tag"})) /\ sources[s].entityTag # NULL =>
                  seen[t][s].entityTag <= sources[s].entityTag

DatesTold == \A s \in Source \ doubtful : ChangedLater(s) /\ KnowsOlder(s)

DatesInv == StoredTimes /\ AskedTimes /\ DatesTold

\* The same of a source that no thread but t is busy with.
DatedLoad(t, s) ==
    /\ pc[t] = "tag" =>
          /\ sources[s].entityTag <= got[t]
          /\ got[t] # file[s] => AskedBefore(t, s) /\ sources[s].local <= file[s]
    /\ pc[t] # "tag" /\ sources[s].entityTag \notin {NULL, file[s]} =>
          /\ sources[s].local <= file[s]
          /\ pc[t] \in {"clear", "first", "second", "dates"} => AskedBefore(t, s)
    /\ \A u \in Thread : s \in left[u] =>
          /\ pc[t] = "tag" => seen[u][s].entityTag <= got[t]
          /\ pc[t] # "tag" /\ sources[s].entityTag # NULL =>
                seen[u][s].entityTag <= sources[s].entityTag

LEMMA LoadIsDated ==
    ASSUME NEW t \in Thread, NEW s \in Source, s = Current(t), Alone(t, s),
           ChangedLater(s), KnowsOlder(s)
    PROVE  DatedLoad(t, s)
<1>1. \A places : At(t, s, places) /\ places \subseteq Handling <=> pc[t] \in places /\ places \subseteq Handling
  BY BusyAt DEF At
<1>2. \A u \in Thread : \A places : At(u, s, places) => u = t
  BY DEF At, Alone
<1>3. At(t, s, {"tag"}) <=> pc[t] = "tag"
  BY <1>1 DEF Handling, Copying
<1>4. At(t, s, {"clear", "first", "second", "dates"}) <=> pc[t] \in {"clear", "first", "second", "dates"}
  BY <1>1 DEF Handling, Copying
<1>5. (\A u \in Thread : ~At(u, s, {"tag"})) <=> pc[t] # "tag"
  BY <1>2, <1>3
<1>6. QED
  BY <1>3, <1>4, <1>5 DEF ChangedLater, KnowsOlder, DatedLoad

LEMMA DatedIsLoad ==
    ASSUME NEW t \in Thread, NEW s \in Source, s = Current(t), Alone(t, s), OnlyMoves(t),
           left'[t] = left[t] \/ pc'[t] \notin Handling, DatedLoad(t, s)'
    PROVE  ChangedLater(s)' /\ KnowsOlder(s)'
<1>1. \A u \in Thread : Busy(u, s)' => u = t
  BY AloneStays
<1>2. Busy(t, s)' <=> pc'[t] \in Handling
  BY BusyAtPrimed DEF Current
<1>3. \A u \in Thread : At(u, s, {"tag"})' <=> u = t /\ pc'[t] = "tag"
  BY <1>1, <1>2 DEF At, Handling, Copying
<1>4. \A u \in Thread : At(u, s, {"clear", "first", "second", "dates"})' <=>
         u = t /\ pc'[t] \in {"clear", "first", "second", "dates"}
  BY <1>1, <1>2 DEF At, Handling, Copying
<1>5. ChangedLater(s)'
  BY <1>3, <1>4 DEF ChangedLater, DatedLoad
<1>6. KnowsOlder(s)'
  BY <1>3 DEF KnowsOlder, DatedLoad
<1>7. QED
  BY <1>5, <1>6

\* The threads have not read more of s, and have no more to do with it.
SameSeen(s) == \A u \in Thread : s \in left'[u] => s \in left[u] /\ seen'[u][s] = seen[u][s]

\* What is known of the dates stays known.
LEMMA SameDates ==
    ASSUME NEW s \in Source, SameAt(s), SameSeen(s), file'[s] = file[s],
           sources'[s].entityTag = sources[s].entityTag, sources'[s].local = sources[s].local,
           ChangedLater(s), KnowsOlder(s)
    PROVE  ChangedLater(s)' /\ KnowsOlder(s)'
<1>1. \A u \in Thread : \A places : At(u, s, places)' <=> At(u, s, places)
  BY DEF SameAt, At
<1>2. \A u \in Thread : \A places : At(u, s, places) =>
         got'[u] = got[u] /\ (AskedBefore(u, s)' <=> AskedBefore(u, s))
  BY DEF SameAt, At, AskedBefore
<1>3. ChangedLater(s)'
  BY <1>1, <1>2 DEF ChangedLater
<1>4. KnowsOlder(s)'
  BY <1>1, <1>2 DEF KnowsOlder, SameSeen
<1>5. QED
  BY <1>3, <1>4

LEMMA HandlesDates ==
    ASSUME DatesTold, NEW t \in Thread, OnlyMoves(t), left'[t] = left[t] \/ pc'[t] \notin Handling,
           NEW s \in Source, s = Current(t), doubtful \ {s} \subseteq doubtful', file' = file,
           \A r \in Source : SameSeen(r),
           \A r \in Source \ {s} : sources'[r] = sources[r],
           s \notin doubtful' => ChangedLater(s)' /\ KnowsOlder(s)'
    PROVE  DatesTold'
<1> SUFFICES ASSUME NEW r \in Source, r \notin doubtful'
             PROVE  ChangedLater(r)' /\ KnowsOlder(r)'
  BY DEF DatesTold
<1>1. CASE r = s
  BY <1>1
<1>2. CASE r # s
  BY <1>2, OthersAt, SameDates DEF DatesTold
<1>3. QED
  BY <1>1, <1>2

LEMMA NoneDates ==
    ASSUME DatesTold, \A s \in Source : SameAt(s), \A s \in Source : SameSeen(s), file' = file,
           \A s \in Source : /\ sources'[s].entityTag = sources[s].entityTag
                             /\ sources'[s].local = sources[s].local,
           doubtful \subseteq doubtful'
    PROVE  DatesTold'
BY SameDates DEF DatesTold

\* A thread that reads no time of the future keeps those of the others.
LEMMA AskedKept ==
    ASSUME AskedTimes, NEW t \in Thread, OnlyMoves(t), \A u \in Thread \ {t} : seen'[u] = seen[u],
           now' = now, file' = file, start'[t] <= now, date'[t] <= now,
           \A s \in Source : seen'[t][s].online <= now /\ seen'[t][s].entityTag <= file[s],
           pc'[t] = "tag" => got'[t] <= file[First(left'[t])]
    PROVE  AskedTimes'
<1> SUFFICES ASSUME NEW u \in Thread
             PROVE  /\ start'[u] <= now' /\ date'[u] <= now'
                    /\ \A s \in Source : seen'[u][s].online <= now' /\ seen'[u][s].entityTag <= file'[s]
                    /\ pc'[u] = "tag" => got'[u] <= file'[First(left'[u])]
  BY DEF AskedTimes, Current
<1>1. CASE u = t
  BY <1>1
<1>2. CASE u # t
  BY <1>2 DEF AskedTimes, OnlyMoves, Current
<1>3. QED
  BY <1>1, <1>2

\* The dates that a server tells are of the past.
LEMMA LastUpdatesPast ==
    ASSUME TypeOK, StoredTimes, AskedTimes, NEW t \in Thread, NEW s \in Source,
           NEW d \in LastUpdates(s, seen[t][s])
    PROVE  d <= now
<1>1. file[s] <= now /\ seen[t][s].online <= now
  BY DEF StoredTimes, AskedTimes
<1>2. NULL <= now
  BY SourcesAssumption DEF NULL, TypeOK, Time
<1>3. QED
  BY <1>1, <1>2 DEF LastUpdates

\* A new loop reads what there is.
LEMMA BeginsDates ==
    ASSUME TypeOK, TagInv, DatesInv, NEW t \in Thread, NEW to \in {"ask", "next"},
           NEW ids \in SUBSET Source, NEW time \in Time, time <= now, Begins(t, to, ids, time)
    PROVE  DatesInv'
<1>1. /\ OnlyMoves(t)
      /\ pc[t] = "idle" /\ pc'[t] = to /\ date' = date /\ got' = got /\ start'[t] = time
      /\ \A u \in Thread \ {t} : left'[u] = left[u] /\ seen'[u] = seen[u]
      /\ seen'[t] = sources
      /\ UNCHANGED <<now, file, sources, doubtful>>
  BY DEF Begins, Goes, OnlyMoves, TypeOK, world
<1>2. StoredTimes'
  BY <1>1 DEF DatesInv, StoredTimes
<1>3. AskedTimes'
  BY <1>1, AskedKept DEF DatesInv, StoredTimes, AskedTimes
<1>4. \A s \in Source : SameAt(s)
  BY <1>1, NoneAt DEF Handling, Copying
<1>5. DatesTold'
  <2> SUFFICES ASSUME NEW s \in Source, s \notin doubtful
               PROVE  ChangedLater(s)' /\ KnowsOlder(s)'
    BY <1>1 DEF DatesTold
  <2>1. ChangedLater(s) /\ KnowsOlder(s)
    BY DEF DatesInv, DatesTold
  <2>2. /\ \A u \in Thread : \A places : At(u, s, places)' <=> At(u, s, places)
        /\ \A u \in Thread : \A places : At(u, s, places) =>
              (AskedBefore(u, s)' <=> AskedBefore(u, s)) /\ got'[u] = got[u]
    BY <1>1, <1>4 DEF SameAt, At, AskedBefore
  <2>3. ChangedLater(s)'
    BY <1>1, <2>1, <2>2 DEF ChangedLater
  <2>4. KnowsOlder(s)'
    <3> SUFFICES ASSUME NEW u \in Thread, s \in left'[u]
                 PROVE  /\ \A v \in Thread : At(v, s, {"tag"})' => seen'[u][s].entityTag <= got'[v]
                        /\ (\A v \in Thread : ~At(v, s, {"tag"})') /\ sources'[s].entityTag # NULL =>
                              seen'[u][s].entityTag <= sources'[s].entityTag
      BY DEF KnowsOlder
    <3>1. CASE u = t
      <4>1. \A v \in Thread : At(v, s, {"tag"})' => seen'[u][s].entityTag <= got'[v]
        BY <1>1, <2>1, <2>2, <3>1 DEF ChangedLater
      <4>2. seen'[u][s].entityTag = sources'[s].entityTag /\ sources'[s].entityTag \in Int
        BY <1>1, <3>1 DEF TypeOK, HostsSource, Date, Time, NULL
      <4>3. QED
        BY <4>1, <4>2
    <3>2. CASE u # t
      BY <1>1, <2>1, <2>2, <3>2 DEF KnowsOlder
    <3>3. QED
      BY <3>1, <3>2
  <2>5. QED
    BY <2>3, <2>4
<1>6. QED
  BY <1>2, <1>3, <1>5 DEF DatesInv

LEMMA IdlesDates ==
    ASSUME TypeOK, DatesInv, NEW t \in Thread, pc[t] \notin Handling, Idles(t),
           UNCHANGED <<now, file, sources>>, doubtful' = doubtful
    PROVE  DatesInv'
<1>1. /\ OnlyMoves(t)
      /\ pc'[t] = "idle" /\ start'[t] = 0 /\ UNCHANGED <<left, date, got>>
      /\ \A u \in Thread \ {t} : seen'[u] = seen[u]
      /\ \A s \in Source : seen'[t][s] = NewSource
  BY DEF Idles, OnlyMoves, TypeOK
<1>2. StoredTimes'
  BY DEF DatesInv, StoredTimes
<1>3. AskedTimes'
  <2>1. 0 <= now /\ NULL <= now /\ \A s \in Source : NULL <= file[s]
    BY SourcesAssumption DEF NULL, TypeOK, Time
  <2>2. QED
    BY <1>1, <2>1, AskedKept DEF DatesInv, AskedTimes, NewSource
<1>4. \A s \in Source : SameAt(s)
  BY <1>1, NoneAt DEF Handling, Copying
<1>5. DatesTold'
  <2> SUFFICES ASSUME NEW s \in Source, s \notin doubtful
               PROVE  ChangedLater(s)' /\ KnowsOlder(s)'
    BY DEF DatesTold
  <2>1. ChangedLater(s) /\ KnowsOlder(s)
    BY DEF DatesInv, DatesTold
  <2>2. /\ \A u \in Thread : \A places : At(u, s, places)' <=> At(u, s, places)
        /\ \A u \in Thread : \A places : At(u, s, places) =>
              (AskedBefore(u, s)' <=> AskedBefore(u, s)) /\ got'[u] = got[u]
    BY <1>1, <1>4 DEF SameAt, At, AskedBefore
  <2>3. ChangedLater(s)'
    BY <2>1, <2>2 DEF ChangedLater
  <2>4. \A u \in Thread : At(u, s, {"tag"}) => got[u] \in Time
    BY DEF At, TypeOK, Date
  <2>5. \A n \in Time : NULL <= n
    BY SourcesAssumption DEF NULL, Time
  <2>6. sources[s].entityTag # NULL => sources[s].entityTag \in Time
    BY DEF TypeOK, HostsSource, Date
  <2>7. KnowsOlder(s)'
    BY <1>1, <2>1, <2>2, <2>4, <2>5, <2>6 DEF KnowsOlder, NewSource
  <2>8. QED
    BY <2>3, <2>7
<1>6. QED
  BY <1>2, <1>3, <1>5 DEF DatesInv

\* Of what a thread asks and stores, the date of the server changes nothing that is
\* known: it may be stored by a check while another thread loads.
LEMMA CheckDates ==
    ASSUME TypeOK, TagInv, DatesInv, NEW t \in Thread, Check(t)
    PROVE  DatesInv'
<1>1. CASE CheckForUpdate(t)
  <2>1. 0 \in Time /\ 0 <= now
    BY SourcesAssumption DEF TypeOK, Time
  <2>2. {s \in Live : sources[s].enabled} \in SUBSET Source
    BY DEF Live
  <2>3. QED
    BY <1>1, <2>1, <2>2, BeginsDates DEF CheckForUpdate
<1>2. CASE EndCheck(t)
  BY <1>2, IdlesDates DEF EndCheck, Handling, Copying, world, history
<1>3. CASE AskLastUpdate(t)
  <2>1. Current(t) \in Source
    BY <1>3, CurrentIn DEF AskLastUpdate
  <2>2. PICK d \in LastUpdates(Current(t), seen[t][Current(t)]) : date' = [date EXCEPT ![t] = d]
    BY <1>3 DEF AskLastUpdate
  <2>3. date'[t] <= now
    BY <2>1, <2>2, LastUpdatesPast DEF TypeOK, DatesInv
  <2>4. /\ OnlyMoves(t)
        /\ pc[t] = "ask" /\ pc'[t] = "save" /\ UNCHANGED <<left, start, got, seen>>
        /\ UNCHANGED <<now, file, sources>> /\ doubtful' = doubtful
    BY <1>3, <2>2 DEF AskLastUpdate, Goes, OnlyMoves, TypeOK, world, history
  <2>5. \A s \in Source : SameAt(s) /\ SameSeen(s)
    BY <2>4, NoneAt DEF SameSeen, Handling, Copying
  <2>6. StoredTimes'
    BY <2>4 DEF DatesInv, StoredTimes
  <2>7. AskedTimes'
    BY <2>3, <2>4, AskedKept DEF DatesInv, AskedTimes
  <2>8. QED
    BY <2>4, <2>5, <2>6, <2>7, NoneDates DEF DatesInv
<1>4. CASE UpdateOnlineModificationDate(t)
  <2>1. left[t] # {}
    BY <1>4 DEF UpdateOnlineModificationDate, TypeOK
  <2>2. PICK s \in Source : s = Current(t)
    BY <2>1, CurrentIn
  <2> DEFINE record == [sources[s] EXCEPT !.online = date[t]]
  <2>3. /\ record \in HostsSource /\ record.there = sources[s].there
        /\ record.entityTag = sources[s].entityTag /\ record.local = sources[s].local
        /\ record.online = date[t]
    <3>1. date[t] \in Date
      BY DEF TypeOK
    <3>2. QED
      BY <3>1, RecordOf, OnlineColumn
  <2>4. sources' = Updated(s, record)
    BY <1>4, <2>2 DEF UpdateOnlineModificationDate
  <2> HIDE DEF record
  <2>5. /\ \A r \in Source \ {s} : sources'[r] = sources[r]
        /\ sources'[s] = IF s \in Live THEN record ELSE sources[s]
    BY <2>3, <2>4, UpdatedRecord
  <2>6. /\ OnlyMoves(t)
        /\ pc[t] = "save" /\ pc'[t] = "ask" /\ left'[t] \subseteq left[t] /\ date'[t] = NULL
        /\ UNCHANGED <<start, seen, now, file>> /\ doubtful' = doubtful
    BY <1>4 DEF UpdateOnlineModificationDate, GoesOn, Goes, OnlyMoves, TypeOK, world, history
  <2>7. \A r \in Source : SameAt(r) /\ SameSeen(r)
    BY <2>6, NoneAt DEF SameSeen, OnlyMoves, Handling, Copying
  <2>8. StoredTimes'
    BY <2>3, <2>5, <2>6 DEF DatesInv, StoredTimes, AskedTimes
  <2>9. AskedTimes'
    <3>1. NULL <= now
      BY SourcesAssumption DEF NULL, TypeOK, Time
    <3>2. QED
      BY <2>6, <3>1, AskedKept DEF DatesInv, AskedTimes
  <2>10. \A r \in Source : sources'[r].entityTag = sources[r].entityTag /\ sources'[r].local = sources[r].local
    BY <2>3, <2>5
  <2>11. QED
    BY <2>6, <2>7, <2>8, <2>9, <2>10, NoneDates DEF DatesInv
<1>5. QED
  BY <1>1, <1>2, <1>3, <1>4 DEF Check

LEMMA PlainDates ==
    ASSUME TypeOK, TagInv, DatesInv, NEW t \in Thread,
           RetrieveHostsSources(t) \/ AskBeforeCopy(t) \/ GetFails(t) \/ EndRetrieve(t)
    PROVE  DatesInv'
<1>0. NULL <= now
  BY SourcesAssumption DEF NULL, TypeOK, Time
<1>1. CASE RetrieveHostsSources(t)
  <2>1. now \in Time /\ now <= now /\ Live \in SUBSET Source
    BY DEF TypeOK, Time, Live
  <2>2. QED
    BY <1>1, <2>1, BeginsDates DEF RetrieveHostsSources
<1>2. CASE EndRetrieve(t)
  BY <1>2, IdlesDates DEF EndRetrieve, Handling, Copying, world
<1>3. CASE AskBeforeCopy(t)
  <2>1. PICK s \in Source : s = Current(t)
    BY <1>3, CurrentIn DEF AskBeforeCopy
  <2>2. PICK answer \in LastUpdates(s, seen[t][s]) :
          LET d == DateOr(answer, start[t])
          IN  IF Skips(seen[t][s], d)
              THEN GoesOn(t, "next")
              ELSE /\ Goes(t, "get")
                   /\ date' = [date EXCEPT ![t] = d]
                   /\ UNCHANGED <<left, got>>
    BY <1>3, <2>1 DEF AskBeforeCopy
  <2>3. DateOr(answer, start[t]) <= now
    BY <2>2, LastUpdatesPast DEF DatesInv, AskedTimes, DateOr
  <2>4. /\ OnlyMoves(t)
        /\ pc[t] = "next" /\ pc'[t] \in {"next", "get"}
        /\ \A u \in Thread : left'[u] \subseteq left[u]
        /\ date'[t] <= now
        /\ UNCHANGED <<start, seen, now, file, sources>> /\ doubtful' = doubtful
    <3>1. CASE Skips(seen[t][s], DateOr(answer, start[t]))
      <4>1. GoesOn(t, "next")
        BY <2>2, <3>1
      <4>2. QED
        BY <1>0, <1>3, <4>1 DEF AskBeforeCopy, GoesOn, Goes, OnlyMoves, TypeOK, world, history
    <3>2. CASE ~Skips(seen[t][s], DateOr(answer, start[t]))
      BY <1>3, <2>2, <2>3, <3>2 DEF AskBeforeCopy, Goes, OnlyMoves, TypeOK, world, history
    <3>3. QED
      BY <3>1, <3>2
  <2>5. \A r \in Source : SameAt(r) /\ SameSeen(r)
    BY <2>4, NoneAt DEF SameSeen, Handling, Copying
  <2>6. StoredTimes'
    BY <2>4 DEF DatesInv, StoredTimes
  <2>7. AskedTimes'
    BY <2>4, AskedKept DEF DatesInv, AskedTimes
  <2>8. QED
    BY <2>4, <2>5, <2>6, <2>7, NoneDates DEF DatesInv
<1>4. CASE GetFails(t)
  <2>1. /\ OnlyMoves(t)
        /\ pc[t] = "get" /\ pc'[t] = "next" /\ date'[t] = NULL
        /\ \A u \in Thread : left'[u] \subseteq left[u]
        /\ UNCHANGED <<start, seen, now, file, sources>> /\ doubtful' = doubtful
    BY <1>4 DEF GetFails, GoesOn, Goes, OnlyMoves, TypeOK, world, history
  <2>2. \A r \in Source : SameAt(r) /\ SameSeen(r)
    BY <2>1, NoneAt DEF SameSeen, Handling, Copying
  <2>3. StoredTimes'
    BY <2>1 DEF DatesInv, StoredTimes
  <2>4. AskedTimes'
    BY <1>0, <2>1, AskedKept DEF DatesInv, AskedTimes
  <2>5. QED
    BY <2>1, <2>2, <2>3, <2>4, NoneDates DEF DatesInv
<1>5. QED
  BY <1>1, <1>2, <1>3, <1>4

\* A source that is switched off loses its rows; its ETag stays until its properties are
\* cleared.
LEMMA ClearDisabledDates ==
    ASSUME TypeOK, TagInv, DatesInv, NEW t \in Thread,
           NEW s \in Source, s = Current(t), ClearDisabled(t)
    PROVE  DatesInv'
<1>1. /\ OnlyMoves(t)
      /\ pc[t] = "next" /\ pc'[t] = "clearProperties" /\ doubtful' = Meets(t, s)
      /\ UNCHANGED <<left, date, got, start, seen, now, file, sources>>
  BY DEF ClearDisabled, OnlyMoves, Goes, TypeOK, world
<1>2. StoredTimes'
  BY <1>1 DEF DatesInv, StoredTimes
<1>3. AskedTimes'
  BY <1>1, AskedKept DEF DatesInv, AskedTimes
<1>4. s \notin doubtful' => ChangedLater(s)' /\ KnowsOlder(s)'
  <2> SUFFICES ASSUME s \notin doubtful' PROVE ChangedLater(s)' /\ KnowsOlder(s)'
    OBVIOUS
  <2>1. Alone(t, s) /\ s \notin doubtful
    BY <1>1 DEF Meets
  <2>2. DatedLoad(t, s)
    BY <2>1, LoadIsDated DEF DatesInv, DatesTold
  <2>3. DatedLoad(t, s)'
    BY <1>1, <2>2 DEF DatedLoad
  <2>4. QED
    BY <1>1, <2>1, <2>3, DatedIsLoad
<1>5. DatesTold'
  <2>1. doubtful \ {s} \subseteq doubtful' /\ \A r \in Source : SameSeen(r)
    BY <1>1 DEF Meets, SameSeen
  <2>2. QED
    BY <1>1, <1>4, <2>1, HandlesDates DEF DatesInv
<1>6. QED
  BY <1>2, <1>3, <1>5 DEF DatesInv

\* A request whose ETag makes the server answer 304 had the one that is stored: it was
\* not older, and no ETag is newer than the file.
LEMMA GetDates ==
    ASSUME TypeOK, TagInv, DatesInv, NEW t \in Thread,
           NEW s \in Source, s = Current(t), GetNotModified(t) \/ Get(t) \/ GetError(t)
    PROVE  DatesInv'
<1>1. /\ OnlyMoves(t)
      /\ pc[t] = "get" /\ UNCHANGED <<left, date, start, seen, now, file, sources, server>>
      /\ doubtful \ {s} \subseteq doubtful'
      /\ pc'[t] = "tag" => got'[t] = file[s]
  <2>1. left[t] # {} /\ pc[t] = "get"
    BY DEF GetNotModified, TakesNotModified, Get, GetError, TypeOK
  <2>2. CASE GetNotModified(t) \/ GetError(t)
    BY <2>1, <2>2 DEF GetNotModified, GetError, OnlyMoves, Goes, TypeOK, world, Meets
  <2>3. CASE Get(t)
    BY <2>1, <2>3 DEF Get, OnlyMoves, Goes, TypeOK, world, Meets
  <2>4. QED
    BY <2>2, <2>3
<1>2. StoredTimes'
  BY <1>1 DEF DatesInv, StoredTimes
<1>3. AskedTimes'
  <2>1. pc'[t] = "tag" => got'[t] <= file[First(left'[t])]
    BY <1>1 DEF TypeOK, Time, Current
  <2>2. QED
    BY <1>1, <2>1, AskedKept DEF DatesInv, AskedTimes
<1>4. \A r \in Source : SameSeen(r)
  BY <1>1 DEF SameSeen
<1>5. sources[s].entityTag \in Int /\ file[s] \in Int /\ \A u \in Thread : seen[u][s].entityTag \in Int
  BY DEF TypeOK, HostsSource, Date, Time, NULL
<1>6. CASE GetError(t)
  <2>1. s \in doubtful'
    BY <1>6 DEF GetError
  <2>2. QED
    BY <1>1, <1>2, <1>3, <1>4, <2>1, HandlesDates DEF DatesInv
<1>7. CASE GetNotModified(t)
  <2>1. /\ pc'[t] = "dates" /\ NotModified(s, seen[t][s])
        /\ doubtful' = IF seen[t][s].entityTag = NULL THEN doubtful \cup {s} ELSE Meets(t, s)
    BY <1>7 DEF GetNotModified, TakesNotModified, Goes, TypeOK
  <2> SUFFICES ASSUME s \notin doubtful' PROVE ChangedLater(s)' /\ KnowsOlder(s)'
    BY <1>1, <1>2, <1>3, <1>4, HandlesDates DEF DatesInv
  <2>2. Alone(t, s) /\ s \notin doubtful /\ seen[t][s].entityTag # NULL
    BY <2>1 DEF Meets
  <2>3. DatedLoad(t, s)
    BY <2>2, LoadIsDated DEF DatesInv, DatesTold
  <2>4. seen[t][s].entityTag = file[s]
    BY <2>1, <2>2 DEF NotModified
  <2>5. s \in left[t]
    BY <1>1, CurrentIn DEF TypeOK
  <2>6. sources[s].entityTag # NULL => file[s] <= sources[s].entityTag
    BY <1>1, <2>3, <2>4, <2>5 DEF DatedLoad
  <2>7. sources[s].entityTag \in {NULL, file[s]}
    BY <1>5, <2>6 DEF DatesInv, StoredTimes
  <2>8. DatedLoad(t, s)'
    BY <1>1, <2>1, <2>3, <2>7 DEF DatedLoad
  <2>9. QED
    BY <1>1, <2>2, <2>8, DatedIsLoad
<1>8. CASE Get(t)
  <2>1. /\ pc'[t] = IF server[s] = "etag" THEN "tag" ELSE "clear"
        /\ doubtful' = Meets(t, s) \ (IF Alone(t, s) THEN {s} ELSE {})
    BY <1>8 DEF Get, Goes, TypeOK
  <2> SUFFICES ASSUME s \notin doubtful' PROVE ChangedLater(s)' /\ KnowsOlder(s)'
    BY <1>1, <1>2, <1>3, <1>4, HandlesDates DEF DatesInv
  <2>2. Alone(t, s)
    BY <2>1 DEF Meets
  <2>3. server[s] # "etag" => sources[s].entityTag = NULL
    BY DEF TagInv, TagsOfServers
  <2>4. sources[s].entityTag <= file[s] /\ \A u \in Thread : seen[u][s].entityTag <= file[s]
    BY DEF DatesInv, StoredTimes, AskedTimes
  <2>5. DatedLoad(t, s)'
    BY <1>1, <2>1, <2>3, <2>4 DEF DatedLoad
  <2>6. QED
    BY <1>1, <2>2, <2>5, DatedIsLoad
<1>9. QED
  BY <1>6, <1>7, <1>8

\* The ETag of what is loaded is stored first; the dates of the load, last.
LEMMA RecordDates ==
    ASSUME TypeOK, TagInv, DatesInv, NEW t \in Thread, NEW s \in Source, s = Current(t),
           ClearProperties(t) \/ UpdateEntityTag(t) \/ UpdateModificationDates(t)
    PROVE  DatesInv'
<1>1. /\ OnlyMoves(t)
      /\ left'[t] = left[t] \/ pc'[t] \notin Handling
      /\ \A u \in Thread : left'[u] \subseteq left[u]
      /\ UNCHANGED <<start, seen, now, file, doubtful>>
      /\ date'[t] \in {date[t], NULL}
      /\ UpdateEntityTag(t) => pc[t] = "tag" /\ pc'[t] = "clear" /\ date'[t] = date[t]
      /\ ClearProperties(t) => pc[t] = "clearProperties" /\ pc'[t] = "next"
      /\ UpdateModificationDates(t) => pc[t] = "dates" /\ pc'[t] = "next"
  <2>1. CASE ClearProperties(t)
    BY <2>1 DEF ClearProperties, UpdateEntityTag, UpdateModificationDates, GoesOn, Goes, OnlyMoves, Handling,
                Copying, TypeOK, history, world
  <2>2. CASE UpdateEntityTag(t)
    BY <2>2 DEF ClearProperties, UpdateEntityTag, UpdateModificationDates, GoesOn, Goes, OnlyMoves, Handling,
                Copying, TypeOK, history, world
  <2>3. CASE UpdateModificationDates(t)
    BY <2>3 DEF ClearProperties, UpdateEntityTag, UpdateModificationDates, GoesOn, Goes, OnlyMoves, Handling,
                Copying, TypeOK, history, world
  <2>4. QED
    BY <2>1, <2>2, <2>3
<1>2. /\ NULL <= now /\ NULL <= file[s]
      /\ start[t] <= now /\ date[t] <= now /\ start[t] \in Int /\ date[t] \in Int
  BY SourcesAssumption DEF DatesInv, AskedTimes, TypeOK, Date, Time, NULL
<1>3. /\ \A r \in Source \ {s} : sources'[r] = sources[r]
      /\ s \notin Live => sources'[s] = sources[s]
      /\ ClearProperties(t) /\ s \in Live =>
            /\ sources'[s].entityTag = NULL /\ sources'[s].local = NULL /\ sources'[s].online = NULL
      /\ UpdateEntityTag(t) /\ s \in Live =>
            /\ sources'[s].entityTag = got[t] /\ sources'[s].local = sources[s].local
            /\ sources'[s].online = sources[s].online
      /\ UpdateModificationDates(t) /\ s \in Live =>
            /\ sources'[s].entityTag = sources[s].entityTag
            /\ sources'[s].local = Latest(date[t], start[t]) /\ sources'[s].online = date[t]
  BY RecordTag
<1>4. Latest(date[t], start[t]) <= now
  BY <1>2 DEF Latest
<1>5. pc[t] = "tag" => got[t] <= file[s]
  BY DEF DatesInv, AskedTimes
<1>6. StoredTimes'
  BY <1>1, <1>2, <1>3, <1>4, <1>5 DEF DatesInv, StoredTimes
<1>7. AskedTimes'
  BY <1>1, <1>2, AskedKept DEF DatesInv, AskedTimes
<1>8. s \notin doubtful' => ChangedLater(s)' /\ KnowsOlder(s)'
  <2> SUFFICES ASSUME s \notin doubtful PROVE ChangedLater(s)' /\ KnowsOlder(s)'
    BY <1>1
  <2>1. Busy(t, s)
    BY <1>1, BusyAt DEF Handling, Copying
  <2>2. Alone(t, s)
    BY <2>1, BusyAlone DEF TagInv
  <2>3. DatedLoad(t, s)
    BY <2>2, LoadIsDated DEF DatesInv, DatesTold
  <2>4. s \notin Live => sources'[s].entityTag = NULL
    BY <1>3 DEF TagInv, TagsOfServers
  <2>5. CASE ClearProperties(t)
    <3>1. DatedLoad(t, s)'
      BY <1>1, <1>3, <2>4, <2>5 DEF DatedLoad
    <3>2. QED
      BY <1>1, <2>2, <3>1, DatedIsLoad
  <2>6. CASE UpdateEntityTag(t)
    <3>1. DatedLoad(t, s)'
      BY <1>1, <1>3, <2>3, <2>4, <2>6 DEF DatedLoad, AskedBefore
    <3>2. QED
      BY <1>1, <2>2, <3>1, DatedIsLoad
  <2>7. CASE UpdateModificationDates(t)
    <3>1. AskedBefore(t, s) => Latest(date[t], start[t]) <= file[s]
      BY DEF AskedBefore, Latest
    <3>2. DatedLoad(t, s)'
      BY <1>1, <1>3, <2>3, <2>4, <2>7, <3>1 DEF DatedLoad
    <3>3. QED
      BY <1>1, <2>2, <3>2, DatedIsLoad
  <2>8. QED
    BY <2>5, <2>6, <2>7
<1>9. DatesTold'
  <2>1. \A r \in Source : SameSeen(r)
    BY <1>1 DEF SameSeen
  <2>2. QED
    BY <1>1, <1>3, <1>8, <2>1, HandlesDates DEF DatesInv
<1>10. QED
  BY <1>6, <1>7, <1>9 DEF DatesInv

\* The rows are replaced, or not all of them, in between.
LEMMA LoadDates ==
    ASSUME TypeOK, TagInv, DatesInv, NEW t \in Thread, NEW s \in Source, s = Current(t),
           ClearSourceHosts(t) \/ InsertItems(t) \/ ParseFails(t) \/ InsertRefused(t)
    PROVE  DatesInv'
<1>1. /\ OnlyMoves(t)
      /\ pc[t] \in {"clear", "first", "second"} /\ pc'[t] \in {"first", "second", "dates"}
      /\ UNCHANGED <<left, date, start, seen, now, file, sources>>
      /\ doubtful \subseteq doubtful'
  <2>1. CASE ClearSourceHosts(t)
    BY <2>1 DEF ClearSourceHosts, OnlyMoves, Goes, TypeOK, world
  <2>2. CASE InsertItems(t)
    BY <2>2 DEF InsertItems, OnlyMoves, Goes, TypeOK, world, After, Part
  <2>3. CASE ParseFails(t) \/ InsertRefused(t)
    BY <2>3 DEF ParseFails, InsertRefused, Torn, OnlyMoves, Goes, TypeOK, world, Part
  <2>4. QED
    BY <2>1, <2>2, <2>3
<1>2. StoredTimes'
  BY <1>1 DEF DatesInv, StoredTimes
<1>3. AskedTimes'
  BY <1>1, AskedKept DEF DatesInv, AskedTimes
<1>4. s \notin doubtful' => ChangedLater(s)' /\ KnowsOlder(s)'
  <2> SUFFICES ASSUME s \notin doubtful' PROVE ChangedLater(s)' /\ KnowsOlder(s)'
    OBVIOUS
  <2>1. Busy(t, s) /\ s \notin doubtful
    BY <1>1, BusyAt DEF Handling, Copying
  <2>2. Alone(t, s)
    BY <2>1, BusyAlone DEF TagInv
  <2>3. DatedLoad(t, s)
    BY <2>1, <2>2, LoadIsDated DEF DatesInv, DatesTold
  <2>4. DatedLoad(t, s)'
    BY <1>1, <2>3 DEF DatedLoad, AskedBefore
  <2>5. QED
    BY <1>1, <2>2, <2>4, DatedIsLoad
<1>5. DatesTold'
  <2>1. \A r \in Source : SameSeen(r)
    BY <1>1 DEF SameSeen
  <2>2. QED
    BY <1>1, <1>4, <2>1, HandlesDates DEF DatesInv
<1>6. QED
  BY <1>2, <1>3, <1>5 DEF DatesInv

\* A file changes now, after all that was asked.
LEMMA FileDates ==
    ASSUME TypeOK, TagInv, DatesInv, NEW s \in Source, FileChanges(s)
    PROVE  DatesInv'
<1>1. /\ UNCHANGED <<working, now, sources, doubtful>>
      /\ file[s] < now /\ file'[s] = now
      /\ \A r \in Source \ {s} : file'[r] = file[r]
  BY DEF FileChanges, TypeOK, history
<1>2. now \in Int /\ file[s] \in Int /\ \A t \in Thread, r \in Source : seen[t][r].entityTag \in Int
  BY DEF TypeOK, HostsSource, Date, Time, NULL
<1>3. \A r \in Source : sources[r].entityTag \in Int /\ sources[r].local \in Int
  BY DEF TypeOK, HostsSource, Date, Time, NULL
<1>4. \A t \in Thread : got[t] \in Int
  BY DEF TypeOK, Date, Time, NULL
<1>5. StoredTimes'
  BY <1>1, <1>2, <1>3 DEF DatesInv, StoredTimes
<1>6. \A t \in Thread : pc[t] = "tag" => Current(t) \in Source
  BY CurrentIn DEF TypeOK
<1>7. AskedTimes'
  <2>1. UNCHANGED <<pc, left, start, date, seen, got>>
    BY <1>1 DEF working
  <2> SUFFICES ASSUME NEW t \in Thread
               PROVE  /\ start[t] <= now /\ date[t] <= now
                      /\ \A r \in Source : seen[t][r].online <= now /\ seen[t][r].entityTag <= file'[r]
                      /\ pc[t] = "tag" => got[t] <= file'[Current(t)]
    BY <1>1, <2>1 DEF AskedTimes, Current
  <2>2. \A r \in Source : seen[t][r].entityTag <= file'[r]
    BY <1>1, <1>2 DEF DatesInv, AskedTimes
  <2>3. pc[t] = "tag" => got[t] <= file'[Current(t)]
    BY <1>1, <1>2, <1>4, <1>6 DEF DatesInv, AskedTimes
  <2>4. QED
    BY <2>2, <2>3 DEF DatesInv, AskedTimes
<1>8. \A r \in Source : SameAt(r) /\ SameSeen(r)
  BY <1>1 DEF SameAt, SameSeen, Busy, Current, working
<1>9. DatesTold'
  <2> SUFFICES ASSUME NEW r \in Source, r \notin doubtful
               PROVE  ChangedLater(r)' /\ KnowsOlder(r)'
    BY <1>1 DEF DatesTold
  <2>1. ChangedLater(r) /\ KnowsOlder(r)
    BY DEF DatesInv, DatesTold
  <2>2. CASE r # s
    BY <1>1, <1>8, <2>1, <2>2, SameDates
  <2>3. CASE r = s
    <3>1. sources'[s].local <= file'[s] /\ \A t \in Thread : AskedBefore(t, s)'
      BY <1>1 DEF DatesInv, StoredTimes, AskedTimes, AskedBefore, working
    <3>2. \A t \in Thread : \A places : At(t, s, places)' <=> At(t, s, places)
      BY <1>1 DEF At, Busy, Current, working
    <3>3. ChangedLater(s)'
      BY <1>1, <2>1, <2>3, <3>1, <3>2 DEF ChangedLater, working
    <3>4. KnowsOlder(s)'
      BY <1>1, <2>1, <2>3, <3>2 DEF KnowsOlder, working
    <3>5. QED
      BY <2>3, <3>3, <3>4
  <2>4. QED
    BY <2>2, <2>3
<1>10. QED
  BY <1>5, <1>7, <1>9 DEF DatesInv

\* A user adds, deletes and switches sources: dates and ETags stay, or are forgotten.
LEMMA UserDates ==
    ASSUME TypeOK, TagInv, DatesInv, NEW s \in Source,
           \/ Insert(s) \/ Delete(s)
           \/ \E enabled \in BOOLEAN : SetSourceEnabled(s, enabled)
    PROVE  DatesInv'
<1>1. /\ UNCHANGED <<working, now, file, doubtful>>
      /\ \A r \in Source \ {s} : sources'[r] = sources[r]
      /\ \/ /\ sources'[s].entityTag = sources[s].entityTag /\ sources'[s].local = sources[s].local
            /\ sources'[s].online = sources[s].online
         \/ /\ sources'[s].entityTag = NULL /\ sources'[s].local = NULL /\ sources'[s].online = NULL
  <2>1. CASE Insert(s)
    <3>1. sources' = [sources EXCEPT ![s].there = "live"] /\ sources[s] \in HostsSource
      BY <2>1 DEF Insert, TypeOK
    <3>2. /\ \A r \in Source \ {s} : sources'[r] = sources[r]
          /\ sources'[s].entityTag = sources[s].entityTag /\ sources'[s].local = sources[s].local
          /\ sources'[s].online = sources[s].online
      BY <3>1 DEF TypeOK, HostsSource
    <3>3. QED
      BY <2>1, <3>2 DEF Insert, world, history
  <2>2. CASE Delete(s)
    <3>1. /\ \A r \in Source \ {s} : sources'[r] = sources[r]
          /\ sources'[s].entityTag = NULL /\ sources'[s].local = NULL /\ sources'[s].online = NULL
      BY <2>2 DEF Delete, TypeOK, NewSource
    <3>2. QED
      BY <2>2, <3>1 DEF Delete, world, history
  <2>3. CASE \E enabled \in BOOLEAN : SetSourceEnabled(s, enabled)
    <3>1. PICK enabled \in BOOLEAN : SetSourceEnabled(s, enabled)
      BY <2>3
    <3>2. sources' = [sources EXCEPT ![s].enabled = enabled] /\ sources[s] \in HostsSource
      BY <3>1 DEF SetSourceEnabled, TypeOK
    <3>3. /\ \A r \in Source \ {s} : sources'[r] = sources[r]
          /\ sources'[s].entityTag = sources[s].entityTag /\ sources'[s].local = sources[s].local
          /\ sources'[s].online = sources[s].online
      BY <3>2 DEF TypeOK, HostsSource
    <3>4. QED
      BY <3>1, <3>3 DEF SetSourceEnabled, world
  <2>4. QED
    BY <2>1, <2>2, <2>3
<1>2. \A n \in Time : NULL <= n
  BY SourcesAssumption DEF NULL, Time
<1>3. now \in Time /\ file[s] \in Time /\ \A t \in Thread : pc[t] = "tag" => got[t] \in Time
  BY DEF TypeOK, Date
<1>4. StoredTimes'
  BY <1>1, <1>2, <1>3 DEF DatesInv, StoredTimes
<1>5. AskedTimes'
  BY <1>1 DEF DatesInv, AskedTimes, Current, working
<1>6. \A r \in Source : SameAt(r) /\ SameSeen(r)
  BY <1>1 DEF SameAt, SameSeen, Busy, Current, working
<1>7. DatesTold'
  <2> SUFFICES ASSUME NEW r \in Source, r \notin doubtful
               PROVE  ChangedLater(r)' /\ KnowsOlder(r)'
    BY <1>1 DEF DatesTold
  <2>1. ChangedLater(r) /\ KnowsOlder(r)
    BY DEF DatesInv, DatesTold
  <2>2. CASE sources'[r].entityTag = sources[r].entityTag /\ sources'[r].local = sources[r].local
    BY <1>1, <1>6, <2>1, <2>2, SameDates
  <2>3. CASE r = s /\ sources'[s].entityTag = NULL /\ sources'[s].local = NULL
    <3>1. \A t \in Thread : \A places : At(t, s, places)' <=> At(t, s, places)
      BY <1>1 DEF At, Busy, Current, working
    <3>2. \A t \in Thread : At(t, s, {"tag"}) => got[t] \in Time
      BY <1>3 DEF At
    <3>3. \A t \in Thread : AskedBefore(t, s)' <=> AskedBefore(t, s)
      BY <1>1 DEF AskedBefore, working
    <3>4. ChangedLater(s)'
      BY <1>1, <1>2, <1>3, <2>1, <2>3, <3>1, <3>2, <3>3 DEF ChangedLater, working
    <3>5. KnowsOlder(s)'
      BY <1>1, <2>1, <2>3, <3>1 DEF KnowsOlder, working
    <3>6. QED
      BY <2>3, <3>4, <3>5
  <2>4. QED
    BY <1>1, <2>2, <2>3
<1>8. QED
  BY <1>4, <1>5, <1>7 DEF DatesInv

LEMMA KillDates ==
    ASSUME TypeOK, TagInv, DatesInv, Kill
    PROVE  DatesInv'
<1>1. /\ \A t \in Thread : /\ pc'[t] = "idle" /\ left'[t] = {} /\ start'[t] = 0 /\ date'[t] = NULL
                           /\ \A s \in Source : seen'[t][s] = NewSource
      /\ UNCHANGED <<now, file, sources>>
  BY DEF Kill, world
<1>2. 0 <= now /\ NULL <= now /\ \A s \in Source : NULL <= file[s]
  BY SourcesAssumption DEF NULL, TypeOK, Time
<1>3. StoredTimes'
  BY <1>1 DEF DatesInv, StoredTimes
<1>4. AskedTimes'
  BY <1>1, <1>2 DEF AskedTimes, NewSource
<1>5. DatesTold'
  <2> SUFFICES ASSUME NEW s \in Source, s \notin doubtful'
               PROVE  ChangedLater(s)' /\ KnowsOlder(s)'
    BY DEF DatesTold
  <2>1. s \notin doubtful /\ \A t \in Thread : ~At(t, s, {"tag"})
    BY DEF Kill, At
  <2>2. sources[s].entityTag \notin {NULL, file[s]} => sources[s].local <= file[s]
    BY <2>1 DEF DatesInv, DatesTold, ChangedLater
  <2>3. \A t \in Thread : \A places : ~At(t, s, places)'
    BY <1>1 DEF At, Busy
  <2>4. QED
    BY <1>1, <2>2, <2>3 DEF ChangedLater, KnowsOlder
<1>6. QED
  BY <1>3, <1>4, <1>5 DEF DatesInv

LEMMA InitDates == Init => DatesInv
<1> SUFFICES ASSUME Init PROVE DatesInv
  OBVIOUS
<1>1. PICK installed \in SUBSET Source :
        sources = [s \in Source |->
                      [NewSource EXCEPT !.there = IF s \in installed THEN "live" ELSE "new"]]
  BY DEF Init
<1>2. \A s \in Source : sources[s].entityTag = NULL /\ sources[s].local = NULL /\ sources[s].online = NULL
  BY <1>1 DEF NewSource
<1>3. \A t \in Thread : pc[t] = "idle" /\ left[t] = {}
  BY DEF Init
<1>4. NULL <= 0
  BY DEF NULL
<1>5. StoredTimes
  BY <1>2, <1>4 DEF Init, StoredTimes
<1>6. AskedTimes
  BY <1>3, <1>4 DEF Init, AskedTimes, NewSource
<1>7. DatesTold
  BY <1>2, <1>3 DEF DatesTold, ChangedLater, KnowsOlder, At, Busy
<1>8. QED
  BY <1>5, <1>6, <1>7 DEF DatesInv

LEMMA NextDates == TypeOK /\ TagInv /\ DatesInv /\ [Next]_vars => DatesInv'
<1> SUFFICES ASSUME TypeOK, TagInv, DatesInv, [Next]_vars PROVE DatesInv'
  OBVIOUS
<1>1. CASE UNCHANGED vars \/ Tick \/ SetSourceItemsEnabled
  <2>1. /\ UNCHANGED <<file, sources, working, doubtful>>
        /\ now' \in {now, now + 1} /\ now \in Int
    BY <1>1 DEF vars, Tick, SetSourceItemsEnabled, world, history, TypeOK, Time
  <2>2. \A s \in Source : SameAt(s) /\ SameSeen(s)
    BY <2>1 DEF SameAt, SameSeen, Busy, Current, working
  <2>3. StoredTimes'
    <3>1. \A s \in Source : file[s] \in Int /\ sources[s].local \in Int /\ sources[s].online \in Int
      BY DEF TypeOK, HostsSource, Date, Time, NULL
    <3>2. QED
      BY <2>1, <3>1 DEF DatesInv, StoredTimes
  <2>4. AskedTimes'
    <3>1. \A t \in Thread : /\ start[t] \in Int /\ date[t] \in Int
                            /\ \A s \in Source : seen[t][s].online \in Int
      BY DEF TypeOK, HostsSource, Date, Time, NULL
    <3>2. QED
      BY <2>1, <3>1 DEF DatesInv, AskedTimes, Current, working
  <2>5. DatesTold'
    BY <2>1, <2>2, NoneDates DEF DatesInv
  <2>6. QED
    BY <2>3, <2>4, <2>5 DEF DatesInv
<1>2. ASSUME NEW t \in Thread, Retrieve(t) PROVE DatesInv'
  <2>1. CASE RetrieveHostsSources(t) \/ AskBeforeCopy(t) \/ GetFails(t) \/ EndRetrieve(t)
    BY <2>1, PlainDates
  <2>2. CASE ~(RetrieveHostsSources(t) \/ AskBeforeCopy(t) \/ GetFails(t) \/ EndRetrieve(t))
    <3>1. PICK s \in Source : s = Current(t)
      BY <1>2, <2>2, CurrentIn, HandlesOne
    <3>2. QED
      BY <1>2, <2>2, <3>1, ClearDisabledDates, GetDates, RecordDates, LoadDates DEF Retrieve
  <2>3. QED
    BY <2>1, <2>2
<1>3. CASE Next /\ ~Tick /\ ~SetSourceItemsEnabled
  BY <1>2, <1>3, FileDates, UserDates, CheckDates, KillDates DEF Next
<1>4. QED
  BY <1>1, <1>3

\* A file that changed after a request for it is newer than the dates of the load, for
\* any number of sources and of threads that check and retrieve: the next retrieval does
\* not skip it.  The dates that a load stores were read before its rows, and an ETag that
\* makes a server answer 304 is the one of the last load.
THEOREM NewerTheorem == Spec => []NewerIsRetrieved
<1>1. TypeOK /\ DatesInv => NewerIsRetrieved
  <2> SUFFICES ASSUME TypeOK, DatesInv, NEW s \in Source \ doubtful, Quiet(s),
                      sources[s].entityTag \notin {NULL, file[s]}
               PROVE  ~Skips(sources[s], file[s])
    BY DEF NewerIsRetrieved
  <2>1. sources[s].local <= file[s]
    BY DEF DatesInv, DatesTold, ChangedLater, Quiet, At
  <2>2. sources[s].local \in Int /\ file[s] \in Int
    BY DEF TypeOK, HostsSource, Date, Time, NULL
  <2>3. QED
    BY <2>1, <2>2 DEF Skips
<1>2. QED
  BY <1>1, InitTag, InitDates, Types, NextTag, NextDates, PTL DEF Spec
=============================================================================
