------------------------------- MODULE RootModel ------------------------------
(***************************************************************************)
(* The hosts file of a rooted device. RootModel.apply writes the entries   *)
(* to a private file and copies it over /system/etc/hosts, revert copies   *)
(* the default one; both remount the partition to write and remount it     *)
(* back.  Nothing excludes two of them: the single thread of diskIO runs   *)
(* toggles, commands and the check at the start, threads of networkIO and  *)
(* of WorkManager apply on their own.                                      *)
(*                                                                         *)
(* The shell is external: it runs one list of commands at a time, and the  *)
(* result of a list is the one of its last command.  dd opens its source   *)
(* before it truncates the target.                                         *)
(***************************************************************************)
EXTENDS Integers, Sequences, FiniteSets

CONSTANTS
    Disk,        \* the thread of diskIO
    Other,       \* threads of networkIO and WorkManager
    Inode,       \* files the private directory has had
    None,        \* no inode, no thread, no value
    MaxEntries,  \* bound on changes of the entries
    MaxOps,      \* bound on applies and reverts
    MaxEvents    \* bound on failures and on ends of the process

Thread == {Disk} \cup Other

ASSUME RootAssumption ==
    /\ IsFiniteSet(Thread) /\ Cardinality(Inode) > Cardinality(Thread)
    /\ Disk \notin Other /\ None \notin Inode \cup Thread \cup BOOLEAN
    /\ MaxEntries \in Nat /\ MaxOps \in Nat /\ MaxEvents \in Nat

VARIABLES
    mount,          \* how the partition is mounted: "ro" or "rw"
    normally,       \* and how it was by the system
    hosts,          \* what /system/etc/hosts has
    entries,        \* the version of host_entries
    file,           \* the inode of HOSTS_FILENAME
    writer,         \* the last thread that truncated an inode and has not written it all
    written,        \* the versions of the entries an inode got since
    pc,             \* where each thread is
    does,           \* what it does: "apply", "revert" or "check"
    fd,             \* the inode it writes, if any
    got,            \* the version of the entries it read
    writable,       \* what isWritable told it
    made,           \* whether its copy succeeded
    posted,         \* the value of applied on its way to the main thread
    applied,        \* isApplied().getValue()
    ops, events,    \* the number of operations and of failures
    newest,         \* the newest entries hosts has had
    leftWritable,   \* remounting back failed, or the process ended before
    doubtful        \* isApplied may be wrong: see AppliedTells

disk == <<mount, normally, hosts>>
private == <<file, writer, written>>
local == <<does, fd, got, writable, made>>
status == <<posted, applied>>
counted == <<ops, events>>
history == <<newest, leftWritable, doubtful>>
vars == <<disk, private, entries, pc, local, status, counted, history>>

\* What a hosts file has in it: "foreign" is the one of the system, "part" one that is
\* not whole, "adaway" all entries of a version.
Is(kind, v) == [kind |-> kind, version |-> v]

CreateReadsFirst == <<"read", "delete", "open", "close">>

\* createNewHostsFile: the order of its calls.
Create == <<"delete", "open", "read", "close">>

\* RootModel: checkApplied is the first task of diskIO.
AtStart == [t \in Thread |-> IF t = Disk THEN "head" ELSE "idle"]

Init ==
    /\ mount \in {"ro", "rw"} /\ normally = mount
    /\ hosts = Is("foreign", 0) /\ entries = 0
    /\ file = None
    /\ writer = [i \in Inode |-> None] /\ written = [i \in Inode |-> {}]
    /\ pc = AtStart
    /\ does = [t \in Thread |-> IF t = Disk THEN "check" ELSE "apply"]
    /\ fd = [t \in Thread |-> None] /\ got = [t \in Thread |-> 0]
    /\ writable = [t \in Thread |-> FALSE] /\ made = [t \in Thread |-> FALSE]
    /\ posted = None /\ applied = None
    /\ ops = 0 /\ events = 0
    /\ newest = 0 /\ leftWritable = FALSE /\ doubtful = FALSE

Goes(t, to) == pc' = [pc EXCEPT ![t] = to]
Moves(t, from, to) == pc[t] = from /\ Goes(t, to)
Happens == events < MaxEvents /\ events' = events + 1 /\ UNCHANGED ops

\* A sync wrote other entries.
SyncHostEntries ==
    /\ entries < MaxEntries
    /\ entries' = entries + 1
    /\ UNCHANGED <<disk, private, pc, local, status, counted, history>>

-----------------------------------------------------------------------------
\* toggleAdBlocking, sync, executeCommand, doUpdate: whatever isApplied told them
\* is stale by now.
Begin(t, op) ==
    /\ pc[t] = "idle" /\ (op = "revert" => t = Disk)
    /\ ops < MaxOps /\ ops' = ops + 1
    /\ Goes(t, IF op = "apply" THEN Create[1] ELSE "default")
    /\ does' = [does EXCEPT ![t] = op]
    /\ doubtful' = (doubtful \/ \E u \in Thread : pc[u] # "idle" /\ does[u] # op)
    /\ UNCHANGED <<disk, private, entries, fd, got, writable, made, status, events, newest, leftWritable>>

Following(step) ==
    LET i == CHOOSE i \in DOMAIN Create : Create[i] = step
    IN  IF i = Len(Create) THEN "space" ELSE Create[i + 1]

\* Who still writes the file goes on in it.
DeleteNewHostsFile(t) ==
    /\ Moves(t, "delete", Following("delete"))
    /\ file' = None
    /\ UNCHANGED <<disk, writer, written, entries, local, status, counted, history>>

Unused == {i \in Inode \ {file} : \A t \in Thread : fd[t] # i}

\* Truncates the file there is, or creates one.
OpenFileOutput(t) ==
    /\ Moves(t, "open", Following("open"))
    /\ \E i \in IF file = None THEN Unused ELSE {file} :
          /\ file' = i
          /\ fd' = [fd EXCEPT ![t] = i]
          /\ writer' = [writer EXCEPT ![i] = t]
          /\ written' = [written EXCEPT ![i] = {}]
    /\ UNCHANGED <<disk, entries, does, got, writable, made, status, counted, history>>

\* hostEntryDao.getAll().
GetAll(t) ==
    /\ Moves(t, "read", Following("read"))
    /\ got' = [got EXCEPT ![t] = entries]
    /\ UNCHANGED <<disk, private, entries, does, fd, writable, made, status, counted, history>>

\* Bytes of the entries it read may be in the file from now on.
Writes(t) == written' = [written EXCEPT ![fd[t]] = @ \cup {got[t]}]

Close(t) ==
    /\ Moves(t, "close", Following("close"))
    /\ Writes(t)
    /\ writer' = [writer EXCEPT ![fd[t]] = IF @ = t THEN None ELSE @]
    /\ fd' = [fd EXCEPT ![t] = None]
    /\ UNCHANGED <<disk, file, entries, does, got, writable, made, status, counted, history>>

\* PRIVATE_FILE_FAILED.
CreateFails(t) ==
    /\ pc[t] \in {"open", "read", "close"}
    /\ Happens
    /\ Goes(t, "idle")
    /\ IF pc[t] = "close" THEN Writes(t) ELSE UNCHANGED written
    /\ fd' = [fd EXCEPT ![t] = None]
    /\ UNCHANGED <<disk, file, writer, entries, does, got, writable, made, status, history>>

\* The default file is written by one call, and no other thread reverts: it is whole when
\* it is copied, and deleted after.
CreateDefault(t) ==
    /\ Moves(t, "default", "space")
    /\ UNCHANGED <<disk, private, entries, local, status, counted, history>>

\* IOException, REVERT_FAIL.
CreateDefaultFails(t) ==
    /\ Moves(t, "default", "idle")
    /\ Happens
    /\ UNCHANGED <<disk, private, entries, local, status, history>>

-----------------------------------------------------------------------------
(* copyHostsFile.                                                          *)

\* No free space is told as enough, for some file systems tell none.
EnoughSpace(t) ==
    /\ Moves(t, "space", "test")
    /\ UNCHANGED <<disk, private, entries, local, status, counted, history>>

NotEnoughSpace(t) ==
    /\ Moves(t, "space", "idle")
    /\ Happens
    /\ UNCHANGED <<disk, private, entries, local, status, history>>

KeptForAll(t, value) == [u \in Thread |-> value]

\* The thread keeps it in a variable of its own.
Kept(t, value) == [writable EXCEPT ![t] = value]

IsWritable(t) ==
    /\ Moves(t, "test", IF mount = "rw" THEN "dd" ELSE "remount")
    /\ writable' = Kept(t, mount = "rw")
    /\ UNCHANGED <<disk, private, entries, does, fd, got, made, status, counted, history>>

PostsAnyway(t, success) == IF does[t] = "apply" THEN "postTrue" ELSE "postFalse"

\* The caller posts the value, or has an exception.
AfterCopy(t, success) ==
    IF ~success THEN "idle" ELSE IF does[t] = "apply" THEN "postTrue" ELSE "postFalse"

RemountReadWrite(t) ==
    /\ Moves(t, "remount", "dd")
    /\ mount' = "rw"
    /\ UNCHANGED <<normally, hosts, private, entries, local, status, counted, history>>

\* The finally block remounts, whether or not the copy was made.
Finally(t, success) == IF writable[t] THEN AfterCopy(t, success) ELSE "restore"

Copies(t, success) ==
    /\ Goes(t, Finally(t, success))
    /\ made' = [made EXCEPT ![t] = success]

\* CommandException.
RemountFails(t) ==
    /\ pc[t] = "remount"
    /\ Happens
    /\ Copies(t, FALSE)
    /\ UNCHANGED <<disk, private, entries, does, fd, got, writable, status, history>>

\* What an inode may have in it, writers that have not closed it included.
InFile(i) == written[i] \cup {got[t] : t \in {u \in Thread : fd[u] = i /\ pc[u] = "close"}}

FileContent(i) ==
    IF writer[i] = None /\ Cardinality(InFile(i)) = 1
    THEN Is("adaway", CHOOSE v \in InFile(i) : TRUE)
    ELSE Is("part", 0)

\* What the source of dd has, unless another thread deleted it.
Whole(t) == IF does[t] = "apply" THEN FileContent(file) ELSE Is("default", 0)
Missing(t) == does[t] = "apply" /\ file = None

\* dd leaves this in the hosts file.
Overwrites(content) ==
    /\ hosts' = content
    /\ newest' = IF content.kind = "adaway" /\ content.version > newest THEN content.version ELSE newest

\* dd, chown and chmod. Another remounted the partition: all of them fail.
CopyRefused(t) ==
    /\ pc[t] = "dd" /\ mount = "ro"
    /\ Copies(t, FALSE)
    /\ UNCHANGED <<disk, private, entries, does, fd, got, writable, status, counted, history>>

\* chmod fails, or the shell dies on the way: dd has written all, a part or nothing.
CopyFails(t) ==
    /\ pc[t] = "dd" /\ mount = "rw"
    /\ Happens
    /\ Copies(t, FALSE)
    /\ \/ UNCHANGED <<hosts, newest>>
       \/ ~Missing(t) /\ \E content \in {Is("part", 0), Whole(t)} : Overwrites(content)
    /\ doubtful' = (doubtful \/ hosts'.kind # hosts.kind)
    /\ UNCHANGED <<mount, normally, private, entries, does, fd, got, writable, status, leftWritable>>

\* All three succeed. The value that follows is right when no other thread is at work.
CopyHostsFile(t) ==
    /\ pc[t] = "dd" /\ mount = "rw" /\ ~Missing(t)
    /\ Copies(t, TRUE)
    /\ Overwrites(Whole(t))
    /\ doubtful' = (doubtful /\ \E u \in Thread \ {t} : pc[u] # "idle")
    /\ UNCHANGED <<mount, normally, private, entries, does, fd, got, writable, status, counted,
                   leftWritable>>

\* dd finds no file, another thread deleted it; chown and chmod succeed.
CopyMissing(t) ==
    /\ pc[t] = "dd" /\ mount = "rw" /\ Missing(t)
    /\ Copies(t, TRUE)
    /\ doubtful' = TRUE
    /\ UNCHANGED <<disk, private, entries, does, fd, got, writable, status, counted, newest,
                   leftWritable>>

\* dd finds no space left; chown and chmod succeed.
CopyTorn(t) ==
    /\ pc[t] = "dd" /\ mount = "rw"
    /\ Happens
    /\ Copies(t, TRUE)
    /\ hosts' = Is("part", 0)
    /\ doubtful' = TRUE
    /\ UNCHANGED <<mount, normally, private, entries, does, fd, got, writable, status,
                   newest, leftWritable>>

RemountReadOnly(t) ==
    /\ Moves(t, "restore", AfterCopy(t, made[t]))
    /\ mount' = "ro"
    /\ UNCHANGED <<normally, hosts, private, entries, local, status, counted, history>>

\* A warning.
RemountReadOnlyFails(t) ==
    /\ Moves(t, "restore", AfterCopy(t, made[t]))
    /\ Happens
    /\ leftWritable' = TRUE
    /\ UNCHANGED <<disk, private, entries, local, status, newest, doubtful>>

\* The end of apply, revert or checkApplied.
PostValue(t) ==
    /\ pc[t] \in {"postTrue", "postFalse"}
    /\ Goes(t, "idle")
    /\ posted' = (pc[t] = "postTrue")
    /\ UNCHANGED <<disk, private, entries, local, applied, counted, history>>

\* The main thread takes the last value posted.
SetValue ==
    /\ posted # None
    /\ applied' = posted
    /\ posted' = None
    /\ UNCHANGED <<disk, private, entries, pc, local, counted, history>>

\* checkApplied: the header is in a part of the file or not.
CheckApplied ==
    /\ pc[Disk] = "head"
    /\ Goes(Disk, IF hosts.kind = "adaway" THEN "postTrue" ELSE "postFalse")
       \/ (hosts.kind = "part" /\ Goes(Disk, "postTrue"))
    /\ UNCHANGED <<disk, private, entries, local, status, counted, history>>

CheckFails ==
    /\ Moves(Disk, "head", "postFalse")
    /\ Happens
    /\ doubtful' = TRUE
    /\ UNCHANGED <<disk, private, entries, local, status, newest, leftWritable>>

-----------------------------------------------------------------------------
\* The process ends, and starts again: commands of the shell are done or not.
Kill ==
    /\ Happens
    /\ pc' = AtStart
    /\ does' = [t \in Thread |-> IF t = Disk THEN "check" ELSE "apply"]
    /\ fd' = [t \in Thread |-> None]
    /\ got' = [t \in Thread |-> 0]
    /\ writable' = [t \in Thread |-> FALSE]
    /\ made' = [t \in Thread |-> FALSE]
    /\ posted' = None /\ applied' = None
    /\ leftWritable' = (leftWritable \/ mount # normally)
    /\ doubtful' = FALSE
    /\ UNCHANGED <<disk, private, entries, newest>>

CreateNewHostsFile(t) ==
    DeleteNewHostsFile(t) \/ OpenFileOutput(t) \/ GetAll(t) \/ Close(t) \/ CreateFails(t)

Copy(t) ==
    \/ EnoughSpace(t) \/ NotEnoughSpace(t) \/ IsWritable(t) \/ RemountReadWrite(t)
    \/ RemountFails(t) \/ CopyRefused(t) \/ CopyFails(t) \/ CopyHostsFile(t) \/ CopyMissing(t)
    \/ CopyTorn(t) \/ RemountReadOnly(t) \/ RemountReadOnlyFails(t)

Next ==
    \/ SyncHostEntries \/ SetValue \/ CheckApplied \/ CheckFails \/ Kill
    \/ \E t \in Thread :
          \/ \E op \in {"apply", "revert"} : Begin(t, op)
          \/ CreateNewHostsFile(t) \/ CreateDefault(t) \/ CreateDefaultFails(t) \/ Copy(t)
          \/ PostValue(t)

Spec == Init /\ [][Next]_vars

-----------------------------------------------------------------------------
Quiet == \A t \in Thread : pc[t] = "idle"

\* The system partition is mounted as it was once all is done, whichever threads
\* found it writable or remounted it meanwhile, and whether they copied or failed.
RemountedBack == Quiet /\ ~leftWritable => mount = normally

\* A hosts file that is whole has no older entries than one before it: what one
\* thread applied after a sync is not undone by an apply that had begun before it.
NeverOlder == hosts.kind = "adaway" => hosts.version >= newest

\* isApplied tells what a whole hosts file is. The exceptions, until an operation copies
\* its file while no other is at work or the process ends: operations of different kinds
\* overlapped, dd failed and chmod did not, dd replaced the file and chmod or the shell
\* failed (nothing is posted then), the first line could not be read at the start. Toggles
\* and the tile decide by it what to do.
AppliedTells ==
    Quiet /\ posted = None /\ ~doubtful /\ hosts.kind # "part" =>
        applied = (hosts.kind = "adaway")
==============================================================================
