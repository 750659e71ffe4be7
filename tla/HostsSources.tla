---------------------------- MODULE HostsSources -----------------------------
(***************************************************************************)
(* The hosts sources and how SourceModel keeps their rows up to date: a    *)
(* check asks each server for the date of its file, a retrieval downloads  *)
(* what changed, under the conditions of the ETag and the date stored by   *)
(* earlier requests, and loads it into hosts_lists.                        *)
(*                                                                         *)
(* Threads of two executors and a worker of WorkManager check and retrieve *)
(* at any time; a user adds, switches and deletes sources meanwhile; files *)
(* change, requests fail, bodies break off and the process may be killed   *)
(* between two statements, each of which is a transaction.                 *)
(*                                                                         *)
(* The content of a file is the time it changed, and it has two parts,     *)
(* inserted one after the other (SourceLoader has the details, HostEntries *)
(* those of the sync).  Times are seconds, as the database stores them.    *)
(***************************************************************************)
EXTENDS Integers, FiniteSets

CONSTANTS
    Source,     \* the ids of the sources, in the order of their labels
    Servers,    \* what the servers take into account: ETag and date, the date, nothing
    Thread,     \* the threads that check and retrieve
    MaxTime,    \* bound of the clock
    MaxJobs,    \* bound on the checks and retrievals
    MaxEvents,  \* bound on changed files, failures and what the user does
    MaxActs,    \* bound on both together
    MaxLoad     \* bound on threads at work times sources

\* The queries order the sources: any of them have a first one.
ASSUME SourcesAssumption ==
    /\ Source \subseteq Nat /\ IsFiniteSet(Source)
    /\ \A ids \in (SUBSET Source) \ {{}} : \E s \in ids : \A other \in ids : s <= other
    /\ Servers \subseteq [Source -> {"etag", "date", "plain"}]
    /\ MaxTime \in Nat /\ MaxJobs \in Nat /\ MaxEvents \in Nat
    /\ MaxActs \in Nat /\ MaxLoad \in Nat

VARIABLES
    now,       \* the clock
    server,    \* the servers there are
    file,      \* when the file of each source changed last
    sources,   \* hosts_sources
    rows,      \* hosts_lists by source
    pc,        \* where each thread is
    left,      \* the sources its loop has still to handle
    seen,      \* the records of the sources it read
    start,     \* the time it read (now)
    date,      \* onlineModificationDate
    got,       \* the content it downloads, if any
    tally,     \* whether it copied a source, whether it failed to
    toggling,  \* the source whose items the user is about to switch, and how
    jobs,      \* the number of checks and retrievals
    events,    \* the number of the other events
    doubtful,  \* the sources whose rows are not known to be those of their ETag
    switched,  \* the sources a user switched under the eyes of a thread
    unsynced,  \* the sources whose enabled rows a thread changed since the last sync
    cut        \* those of which the end of the process cut the sync off

world == <<now, server, file>>
working == <<pc, left, seen, start, date, got, tally>>
counted == <<jobs, events>>
history == <<doubtful, switched, unsynced, cut>>
vars == <<world, sources, rows, working, toggling, counted, history>>

NULL == -1
Time == 0 .. MaxTime
Date == Time \cup {NULL}

HostsSource ==
    [there : {"new", "live", "gone"}, enabled : BOOLEAN, local : Date, online : Date,
     entityTag : Date]

Part == {"first", "second"}
Row == [version : Time, part : Part, by : Thread, enabled : BOOLEAN]

NewSource == [there |-> "new", enabled |-> TRUE, local |-> NULL, online |-> NULL,
              entityTag |-> NULL]

Live == {s \in Source : sources[s].there = "live"}

TypeOK ==
    /\ now \in Time
    /\ server \in Servers
    /\ file \in [Source -> Time]
    /\ sources \in [Source -> HostsSource]
    /\ rows \in [Source -> SUBSET Row]
    /\ \A s \in Source \ Live : rows[s] = {}
    /\ pc \in [Thread -> {"idle", "ask", "save", "next", "clearProperties", "get", "tag",
                          "clear", "first", "second", "dates"}]
    /\ left \in [Thread -> SUBSET Source]
    /\ \A t \in Thread : pc[t] \notin {"idle", "ask", "next"} => left[t] # {}
    /\ seen \in [Thread -> [Source -> HostsSource]]
    /\ start \in [Thread -> Time]
    /\ date \in [Thread -> Date]
    /\ got \in [Thread -> Date]
    /\ \A t \in Thread : pc[t] \in {"tag", "first", "second"} => got[t] # NULL
    /\ tally \in [Thread -> SUBSET {"copied", "failed"}]
    /\ toggling \in {<<>>} \cup (Source \X BOOLEAN)
    /\ jobs \in 0 .. MaxJobs /\ events \in 0 .. MaxEvents
    /\ doubtful \subseteq Source /\ switched \subseteq Source
    /\ unsynced \subseteq Source /\ cut \subseteq Source

\* A new installation comes with some sources.
Init ==
    /\ now = 0
    /\ server \in Servers
    /\ file = [s \in Source |-> 0]
    /\ \E installed \in SUBSET Source :
          sources = [s \in Source |->
                        [NewSource EXCEPT !.there = IF s \in installed THEN "live" ELSE "new"]]
    /\ rows = [s \in Source |-> {}]
    /\ pc = [t \in Thread |-> "idle"]
    /\ left = [t \in Thread |-> {}]
    /\ seen = [t \in Thread |-> [s \in Source |-> NewSource]]
    /\ start = [t \in Thread |-> 0]
    /\ date = [t \in Thread |-> NULL]
    /\ got = [t \in Thread |-> NULL]
    /\ tally = [t \in Thread |-> {}]
    /\ toggling = <<>>
    /\ jobs = 0 /\ events = 0
    /\ doubtful = {} /\ switched = {} /\ unsynced = {} /\ cut = {}

-----------------------------------------------------------------------------
(* The servers.                                                            *)

Tick ==
    /\ now < MaxTime
    /\ now' = now + 1
    /\ UNCHANGED <<server, file, sources, rows, working, toggling, counted, history>>

\* One of the events that are bounded.
Happens ==
    events < MaxEvents /\ jobs + events < MaxActs /\ events' = events + 1 /\ UNCHANGED jobs

FileChanges(s) ==
    /\ file[s] < now
    /\ Happens
    /\ file' = [file EXCEPT ![s] = now]
    /\ UNCHANGED <<now, server, sources, rows, working, toggling, history>>

\* The answer to a request with the headers of the record r: 304, or the file.
\* If-None-Match goes before If-Modified-Since.
NotModified(s, r) ==
    IF r.entityTag # NULL THEN r.entityTag = file[s]
    ELSE server[s] # "plain" /\ r.online # NULL /\ file[s] <= r.online

\* getHostsSourceLastUpdate: the date the server, the Git host or the provider
\* tells; the stored one on 304 without a date; none on errors.
LastUpdates(s, r) ==
    {file[s], NULL} \cup (IF NotModified(s, r) THEN {r.online} ELSE {})

-----------------------------------------------------------------------------
(* The user, and the statements of HostsSourceDao.                         *)

\* UPDATE hosts_sources ... WHERE id = s.
Updated(s, record) ==
    IF s \in Live THEN [sources EXCEPT ![s] = record] ELSE sources

Insert(s) ==
    /\ sources[s].there = "new"
    /\ Happens
    /\ sources' = [sources EXCEPT ![s].there = "live"]
    /\ UNCHANGED <<world, rows, working, toggling, history>>

\* The rows go with their source.
Delete(s) ==
    /\ s \in Live
    /\ Happens
    /\ sources' = [sources EXCEPT ![s] = [NewSource EXCEPT !.there = "gone"]]
    /\ rows' = [rows EXCEPT ![s] = {}]
    /\ UNCHANGED <<world, working, toggling, history>>

Handles(t, s) == pc[t] # "idle" /\ s \in left[t]

\* toggleEnabled, first statement. The value is the opposite of what the screen
\* shows.  Tasks of the user run one after another.
SetSourceEnabled(s, enabled) ==
    /\ s \in Live
    /\ toggling = <<>>
    /\ Happens
    /\ sources' = [sources EXCEPT ![s].enabled = enabled]
    /\ toggling' = <<s, enabled>>
    /\ switched' = IF \E t \in Thread : Handles(t, s) THEN switched \cup {s} ELSE switched
    /\ UNCHANGED <<world, rows, working, doubtful, unsynced, cut>>

ForgetsItems ==
    /\ toggling # <<>>
    /\ toggling' = <<>>
    /\ UNCHANGED <<world, sources, rows, working, counted, history>>

\* toggleEnabled, second statement.
SetSourceItemsEnabled ==
    /\ toggling # <<>>
    /\ rows' = [rows EXCEPT ![toggling[1]] = {[r EXCEPT !.enabled = toggling[2]] : r \in @}]
    /\ toggling' = <<>>
    /\ UNCHANGED <<world, sources, working, counted, history>>

-----------------------------------------------------------------------------
(* Threads.                                                                *)

First(ids) == CHOOSE s \in ids : \A other \in ids : s <= other
Current(t) == First(left[t])

\* The thread has an answer of the server, or clears, and is not done with it.
Busy(t, s) ==
    /\ pc[t] \in {"clearProperties", "tag", "clear", "first", "second", "dates"}
    /\ Current(t) = s

Alone(t, s) == \A u \in Thread \ {t} : ~Busy(u, s)

\* The doubts that thread t adds when it becomes busy with s.
Meets(t, s) == IF Alone(t, s) THEN doubtful ELSE doubtful \cup {s}

Goes(t, to) == pc' = [pc EXCEPT ![t] = to]

\* The loop turns: its variables are new.
GoesOn(t, to) ==
    /\ Goes(t, to)
    /\ left' = [left EXCEPT ![t] = @ \ {Current(t)}]
    /\ date' = [date EXCEPT ![t] = NULL]
    /\ got' = [got EXCEPT ![t] = NULL]

Begins(t, to, ids, time) ==
    /\ pc[t] = "idle"
    /\ jobs < MaxJobs /\ jobs + events < MaxActs /\ jobs' = jobs + 1
    /\ Cardinality({u \in Thread : pc[u] # "idle"} \cup {t}) * Cardinality(Live) <= MaxLoad
    /\ Goes(t, to)
    /\ left' = [left EXCEPT ![t] = ids]
    /\ seen' = [seen EXCEPT ![t] = sources]
    /\ start' = [start EXCEPT ![t] = time]
    /\ tally' = [tally EXCEPT ![t] = {}]
    /\ switched' = IF toggling = <<>> THEN switched ELSE switched \cup {toggling[1]}
    /\ UNCHANGED <<world, sources, rows, date, got, toggling, events, doubtful,
                   unsynced, cut>>

Idles(t) ==
    /\ pc' = [pc EXCEPT ![t] = "idle"]
    /\ seen' = [seen EXCEPT ![t] = [s \in Source |-> NewSource]]
    /\ start' = [start EXCEPT ![t] = 0]
    /\ tally' = [tally EXCEPT ![t] = {}]
    /\ UNCHANGED <<left, date, got>>

(* checkForUpdate. What it answers decides whether the worker retrieves, which *)
(* any thread may do at any time.                                              *)

CheckForUpdate(t) == Begins(t, "ask", {s \in Live : sources[s].enabled}, 0)

AskLastUpdate(t) ==
    /\ pc[t] = "ask" /\ left[t] # {}
    /\ Goes(t, "save")
    /\ \E d \in LastUpdates(Current(t), seen[t][Current(t)]) : date' = [date EXCEPT ![t] = d]
    /\ UNCHANGED <<world, sources, rows, left, seen, start, got, tally, toggling, counted, history>>

UpdateOnlineModificationDate(t) ==
    /\ pc[t] = "save"
    /\ GoesOn(t, "ask")
    /\ sources' = LET s == Current(t) IN Updated(s, [sources[s] EXCEPT !.online = date[t]])
    /\ UNCHANGED <<world, rows, seen, start, tally, toggling, counted, history>>

EndCheck(t) ==
    /\ pc[t] = "ask" /\ left[t] = {}
    /\ Idles(t)
    /\ UNCHANGED <<world, sources, rows, toggling, counted, history>>

(* retrieveHostsSources.                                                   *)

RetrieveHostsSources(t) == Begins(t, "next", Live, now)

\* The rows of s that count change.
Changes(s) == unsynced' = IF \E r \in rows[s] \cup rows'[s] : r.enabled
                          THEN unsynced \cup {s} ELSE unsynced

ClearDisabled(t) ==
    LET s == Current(t) IN
    /\ pc[t] = "next" /\ left[t] # {} /\ ~seen[t][s].enabled
    /\ Goes(t, "clearProperties")
    /\ rows' = [rows EXCEPT ![s] = {}]
    /\ doubtful' = Meets(t, s)
    /\ Changes(s)
    /\ UNCHANGED <<world, sources, left, seen, start, date, got, tally, toggling, counted, switched, cut>>

DatesCleared(r) == [r EXCEPT !.local = NULL, !.online = NULL]
Cleared(r) == [r EXCEPT !.local = NULL, !.online = NULL, !.entityTag = NULL]

ClearProperties(t) ==
    LET s == Current(t) IN
    /\ pc[t] = "clearProperties"
    /\ GoesOn(t, "next")
    /\ sources' = Updated(s, Cleared(sources[s]))
    /\ UNCHANGED <<world, rows, seen, start, tally, toggling, counted, history>>

\* The source is skipped when it was loaded after its file changed.
Skips(r, d) == r.local # NULL /\ r.local > d

DateOr(d, time) == IF d = NULL THEN time ELSE d

AskBeforeCopy(t) ==
    LET s == Current(t) IN
    /\ pc[t] = "next" /\ left[t] # {} /\ seen[t][s].enabled
    /\ \E answer \in LastUpdates(s, seen[t][s]) :
          LET d == DateOr(answer, start[t])
          IN  IF Skips(seen[t][s], d)
              THEN GoesOn(t, "next")
              ELSE /\ Goes(t, "get")
                   /\ date' = [date EXCEPT ![t] = d]
                   /\ UNCHANGED <<left, got>>
    /\ UNCHANGED <<world, sources, rows, seen, start, tally, toggling, counted, history>>

\* IOException: no copy of this source.
GetFails(t) ==
    /\ pc[t] = "get"
    /\ Happens
    /\ GoesOn(t, "next")
    /\ tally' = [tally EXCEPT ![t] = @ \cup {"failed"}]
    /\ UNCHANGED <<world, sources, rows, seen, start, toggling, history>>

TakesNotModified(t) == pc[t] = "get" /\ NotModified(Current(t), seen[t][Current(t)])

\* 304: the rows stay.  On a date alone it may concern a file never downloaded.
GetNotModified(t) ==
    LET s == Current(t) IN
    /\ TakesNotModified(t)
    /\ Goes(t, "dates")
    /\ doubtful' = IF seen[t][s].entityTag = NULL THEN doubtful \cup {s} ELSE Meets(t, s)
    /\ tally' = [tally EXCEPT ![t] = @ \cup {"copied"}]
    /\ UNCHANGED <<world, sources, rows, left, seen, start, date, got, toggling, counted, switched,
                   unsynced, cut>>

\* A load that no other thread disturbs ends the doubts.
Get(t) ==
    LET s == Current(t) IN
    /\ pc[t] = "get" /\ ~TakesNotModified(t)
    /\ got' = [got EXCEPT ![t] = file[s]]
    /\ Goes(t, IF server[s] = "etag" THEN "tag" ELSE "clear")
    /\ doubtful' = Meets(t, s) \ (IF Alone(t, s) THEN {s} ELSE {})
    /\ tally' = [tally EXCEPT ![t] = @ \cup {"copied"}]
    /\ UNCHANGED <<world, sources, rows, left, seen, start, date, toggling, counted, switched,
                   unsynced, cut>>

\* The code looks at no other status: the page of an error is parsed as the file,
\* has no item in it, and the ETag of the rows it replaces stays.
GetError(t) ==
    LET s == Current(t) IN
    /\ pc[t] = "get"
    /\ Happens
    /\ Goes(t, "clear")
    /\ doubtful' = doubtful \cup {s}
    /\ tally' = [tally EXCEPT ![t] = @ \cup {"copied"}]
    /\ UNCHANGED <<world, sources, rows, left, seen, start, date, got, toggling, switched,
                   unsynced, cut>>

UpdateEntityTag(t) ==
    LET s == Current(t) IN
    /\ pc[t] = "tag"
    /\ Goes(t, "clear")
    /\ sources' = Updated(s, [sources[s] EXCEPT !.entityTag = got[t]])
    /\ UNCHANGED <<world, rows, left, seen, start, date, got, tally, toggling, counted, history>>

ClearSourceHosts(t) ==
    LET s == Current(t) IN
    /\ pc[t] = "clear"
    /\ Goes(t, IF got[t] = NULL THEN "dates" ELSE "first")
    /\ rows' = [rows EXCEPT ![s] = {}]
    /\ switched' = IF sources[s].enabled /\ toggling = <<>> /\ \A u \in Thread \ {t} : ~Handles(u, s)
                   THEN switched \ {s} ELSE switched
    /\ Changes(s)
    /\ UNCHANGED <<world, sources, left, seen, start, date, got, tally, toggling, counted, doubtful, cut>>

\* The items of a deleted source are refused.
ForeignKey(s) == s \in Live

After == [first |-> "second", second |-> "dates"]

\* The items are enabled, whatever the source is.
InsertItems(t) ==
    LET s == Current(t) IN
    /\ pc[t] \in Part /\ ForeignKey(s)
    /\ Goes(t, After[pc[t]])
    /\ rows' = [rows EXCEPT ![s] =
                  @ \cup {[version |-> got[t], part |-> pc[t], by |-> t, enabled |-> TRUE]}]
    /\ Changes(s)
    /\ UNCHANGED <<world, sources, left, seen, start, date, got, tally, toggling, counted,
                   doubtful, switched, cut>>

Torn(t) ==
    /\ Goes(t, "dates")
    /\ doubtful' = doubtful \cup {Current(t)}
    /\ UNCHANGED <<world, sources, rows, left, seen, start, date, got, tally, toggling,
                   switched, unsynced, cut>>

\* The body breaks off or the database refuses a batch: parse returns all the same.
ParseFails(t) == pc[t] \in Part /\ Happens /\ Torn(t)

\* The same warning.
InsertRefused(t) ==
    pc[t] \in Part /\ ~ForeignKey(Current(t)) /\ Torn(t) /\ UNCHANGED counted

Latest(d, time) == IF d > time THEN d ELSE time
TimeNow(t) == now
TimeAtStart(t) == start[t]

UpdateModificationDates(t) ==
    LET s == Current(t) IN
    /\ pc[t] = "dates"
    /\ GoesOn(t, "next")
    /\ sources' = Updated(s, [sources[s] EXCEPT !.local = Latest(date[t], TimeAtStart(t)),
                                                !.online = date[t]])
    /\ UNCHANGED <<world, rows, seen, start, tally, toggling, counted, history>>

AnyCopyFailed(t) == "failed" \in tally[t]

\* numberOfCopies = numberOfFailedCopies # 0.
AllCopiesFailed(t) == tally[t] = {"failed"}

\* HostErrorException, or syncHostEntries.
EndRetrieve(t) ==
    /\ pc[t] = "next" /\ left[t] = {}
    /\ IF AllCopiesFailed(t) THEN UNCHANGED <<unsynced, cut>> ELSE unsynced' = {} /\ cut' = {}
    /\ Idles(t)
    /\ UNCHANGED <<world, sources, rows, toggling, counted, doubtful, switched>>

Check(t) ==
    CheckForUpdate(t) \/ AskLastUpdate(t) \/ UpdateOnlineModificationDate(t) \/ EndCheck(t)

Retrieve(t) ==
    \/ RetrieveHostsSources(t) \/ ClearDisabled(t) \/ ClearProperties(t) \/ AskBeforeCopy(t)
    \/ GetFails(t) \/ GetNotModified(t) \/ Get(t) \/ GetError(t) \/ UpdateEntityTag(t)
    \/ ClearSourceHosts(t) \/ InsertItems(t) \/ ParseFails(t) \/ InsertRefused(t)
    \/ UpdateModificationDates(t) \/ EndRetrieve(t)

\* The process ends: threads between the ETag and the last rows leave doubts, the
\* second statement of a toggle never happens, nor does the sync of a retrieval that
\* has a copy; the rows it changed stay.
Kill ==
    /\ Happens
    /\ pc' = [t \in Thread |-> "idle"]
    /\ left' = [t \in Thread |-> {}]
    /\ seen' = [t \in Thread |-> [s \in Source |-> NewSource]]
    /\ start' = [t \in Thread |-> 0]
    /\ date' = [t \in Thread |-> NULL]
    /\ got' = [t \in Thread |-> NULL]
    /\ tally' = [t \in Thread |-> {}]
    /\ toggling' = <<>>
    /\ doubtful' = doubtful \cup {s \in Source : \E t \in Thread :
                      Busy(t, s) /\ pc[t] # "dates"}
    /\ switched' = IF toggling = <<>> THEN switched ELSE switched \cup {toggling[1]}
    /\ cut' = IF \E t \in Thread : "copied" \in tally[t] THEN cut \cup unsynced ELSE cut
    /\ UNCHANGED <<world, sources, rows, unsynced>>

Next ==
    \/ Tick
    \/ \E s \in Source :
          \/ FileChanges(s) \/ Insert(s) \/ Delete(s)
          \/ \E enabled \in BOOLEAN : SetSourceEnabled(s, enabled)
    \/ SetSourceItemsEnabled
    \/ \E t \in Thread : Check(t) \/ Retrieve(t)
    \/ Kill

Spec == Init /\ [][Next]_vars

-----------------------------------------------------------------------------
Content(v) == {v} \X Part
Held(s) == {<<r.version, r.part>> : r \in rows[s]}
Quiet(s) == s \in Live /\ \A t \in Thread : ~Busy(t, s)

\* The ETag that makes the server answer 304 names the rows there are, all of
\* them and once, after any sequence of downloads, answers 304, switches of the source
\* and failed requests: the source can rely on the server to send what it misses. The
\* exceptions are a load that broke off or was of an error page, two that overlapped, and
\* a process that ended between the ETag and the last row.
EntityTagNamesRows ==
    \A s \in Source \ doubtful :
        Quiet(s) /\ sources[s].entityTag # NULL =>
            /\ Held(s) = Content(sources[s].entityTag)
            /\ Cardinality(rows[s]) = 2

\* A file that changed while or after it was downloaded is not skipped by the next
\* retrieval: its date is not before the one of the load, whichever of the dates the
\* server told, and whatever checks store meanwhile.
NewerIsRetrieved ==
    \A s \in Source \ doubtful :
        Quiet(s) /\ sources[s].entityTag \notin {NULL, file[s]} => ~Skips(sources[s], file[s])

\* The rows of a source are switched with it, unless it was switched while a thread
\* had it to load: the rows inserted later are enabled.
ItemsFollowSource ==
    \A s \in Live \ switched :
        /\ toggling = <<>>
        /\ \A t \in Thread : ~Handles(t, s)
        => \A r \in rows[s] : r.enabled = sources[s].enabled

\* No retrieval leaves rows that host_entries does not know, although it throws
\* without a sync when it has no copy: what it cleared then was disabled before. The
\* exceptions are a source switched while a thread had it, and a process that ended
\* between a copy and the sync: nothing syncs its rows before the next retrieval.
ChangesSynced ==
    (\A t \in Thread : pc[t] = "idle") => unsynced \subseteq switched \cup cut

(* What the comments of SourceModel say and the code does not do.           *)

\* "Skip source parsing if not modified", "was not updated since last fetch"
\* (downloadHostSource): a source whose request got 304 holds what the server has.
DocNotModified ==
    [][\A t \in Thread :
         TakesNotModified(t) /\ pc'[t] = "dates" /\ Current(t) \in Live =>
             Held(Current(t)) = Content(file[Current(t)])]_vars
==============================================================================
