----------------------------- MODULE RootProofs ------------------------------
(***************************************************************************)
(* Proofs about what runs with root access: the hosts file RootModel has   *)
(* the shell copy, and the local web server that answers for the hosts     *)
(* blocked there.                                                          *)
(*                                                                         *)
(* RootModel, for any number of threads and of inodes and any bounds: the  *)
(* partition is mounted back, hosts files do not grow older, and isApplied *)
(* tells what the file is.                                                 *)
(*                                                                         *)
(* WebServer, for any clients, any talks, files and buffers of any size:   *)
(* answers come in order and in whole, files are closed, a connection is   *)
(* drained before it is closed.  The invariant says of each connection     *)
(* what is written of its answers (Fine), and of all what the pass over    *)
(* them may rely on (Listed, Asked).                                       *)
(***************************************************************************)
EXTENDS RootModel, WebServer, FiniteSetTheorems, SequenceTheorems, WellFoundedInduction, TLAPS

Place == {"idle", "head", "delete", "open", "read", "close", "default", "space", "test",
          "remount", "dd", "restore", "postTrue", "postFalse"}

Version == 0 .. MaxEntries

Content == [kind : {"foreign", "default", "part", "adaway"}, version : Version]

\* A thread has an inode open from its opening to its closing.
OpenWhileWriting == \A t \in Thread : pc[t] \in {"read", "close"} <=> fd[t] # None

DiskTypes ==
    /\ mount \in {"ro", "rw"} /\ normally \in {"ro", "rw"}
    /\ hosts \in Content
    /\ entries \in Version /\ newest \in Version

PrivateTypes ==
    /\ file \in Inode \cup {None}
    /\ writer \in [Inode -> Thread \cup {None}]
    /\ written \in [Inode -> SUBSET Version]

ThreadTypes ==
    /\ pc \in [Thread -> Place]
    /\ does \in [Thread -> {"apply", "revert", "check"}]
    /\ fd \in [Thread -> Inode \cup {None}]
    /\ got \in [Thread -> Version]
    /\ writable \in [Thread -> BOOLEAN]
    /\ made \in [Thread -> BOOLEAN]
    /\ OpenWhileWriting

RestTypes ==
    /\ posted \in BOOLEAN \cup {None} /\ applied \in BOOLEAN \cup {None}
    /\ ops \in 0 .. MaxOps /\ events \in 0 .. MaxEvents
    /\ leftWritable \in BOOLEAN /\ doubtful \in BOOLEAN

TypeOK == DiskTypes /\ PrivateTypes /\ ThreadTypes /\ RestTypes

-----------------------------------------------------------------------------
\* A thread that remounts found the partition mounted to be read.
RemountersFoundReadOnly ==
    \A t \in Thread : pc[t] \in {"remount", "restore"} => ~writable[t]

\* No thread remounts a partition that is writable.
WritableStays ==
    normally = "rw" =>
        /\ mount = "rw"
        /\ \A t \in Thread : /\ pc[t] \notin {"remount", "restore"}
                             /\ pc[t] = "dd" => writable[t]

\* One that is writable for the copies only has a thread to remount it.
Remounter(t) == pc[t] \in {"dd", "restore"} /\ ~writable[t]

RemounterLeft ==
    normally = "ro" /\ mount = "rw" /\ ~leftWritable => \E t \in Thread : Remounter(t)

BackInv == RemountersFoundReadOnly /\ WritableStays /\ RemounterLeft

\* The private file, once whole, has entries as new as any copied before: they were
\* read after the file was truncated, and it was truncated after those copies or has
\* what they copied.
WholeIsNew ==
    file # None /\ writer[file] = None => \E v \in written[file] : v >= newest

WriterIsNew ==
    \A t \in Thread :
        file # None /\ fd[t] = file /\ writer[file] = t /\ pc[t] = "close" => got[t] >= newest

\* Nothing is newer than the entries there are.
NothingNewer ==
    /\ newest <= entries
    /\ \A t \in Thread : got[t] <= entries
    /\ \A i \in Inode : \A v \in written[i] : v <= entries

NewerInv == NothingNewer /\ WholeIsNew /\ WriterIsNew /\ NeverOlder

\* What isApplied will tell when nothing more is posted.
Told == IF posted # None THEN posted ELSE applied

HostsApplied == hosts.kind = "adaway"

\* Threads whose value is still to be posted.
WillTell(t) == pc[t] \in {"head", "postTrue", "postFalse"} \/ (pc[t] = "restore" /\ made[t])

SameOperation ==
    \A t, u \in Thread : pc[t] # "idle" /\ pc[u] # "idle" => does[t] = does[u]

\* Only a check posts what it found.
PostsItsOwn ==
    \A t \in Thread :
        /\ pc[t] \notin {"idle", "head", "postTrue", "postFalse"} => does[t] # "check"
        /\ pc[t] = "head" => does[t] = "check"
        /\ pc[t] = "postTrue" => does[t] # "revert"
        /\ pc[t] = "postFalse" => does[t] # "apply"

\* What is going to be posted is what the file is.
TellsRight ==
    hosts.kind # "part" =>
        \A t \in Thread :
            /\ pc[t] = "postTrue" => HostsApplied
            /\ pc[t] = "postFalse" => ~HostsApplied
            /\ pc[t] = "restore" /\ made[t] => (HostsApplied <=> does[t] = "apply")

SomeoneTells ==
    hosts.kind # "part" => Told = HostsApplied \/ \E t \in Thread : WillTell(t)

TellsInv ==
    /\ PostsItsOwn
    /\ ~doubtful => SameOperation /\ TellsRight /\ SomeoneTells

-----------------------------------------------------------------------------
(* Types.                                                                  *)

\* The calls of createNewHostsFile follow each other in this order.
LEMMA CreateOrder ==
    /\ Create[1] = "delete" /\ Following("delete") = "open" /\ Following("open") = "read"
    /\ Following("read") = "close" /\ Following("close") = "space"
<1>1. Len(Create) = 4 /\ DOMAIN Create = 1 .. 4
  BY DEF Create
<1>2. /\ Create[1] = "delete" /\ Create[2] = "open" /\ Create[3] = "read" /\ Create[4] = "close"
  BY DEF Create
<1> DEFINE At(step) == CHOOSE i \in DOMAIN Create : Create[i] = step
<1>3. At("delete") = 1 /\ At("open") = 2 /\ At("read") = 3 /\ At("close") = 4
  BY <1>1, <1>2
<1>4. QED
  BY <1>1, <1>2, <1>3 DEF Following

\* A finished copy leaves the thread with nothing to do, a value to post, or a partition
\* to remount.
LEMMA FinallyPlaces ==
    ASSUME NEW t \in Thread, NEW success \in BOOLEAN
    PROVE  /\ AfterCopy(t, success) \in {"idle", "postTrue", "postFalse"}
           /\ Finally(t, success) \in {"idle", "postTrue", "postFalse", "restore"}
           /\ success <=> AfterCopy(t, success) # "idle"
BY DEF AfterCopy, Finally

\* A whole file has the entries of one version, which is all that was written.
LEMMA FileContentIs ==
    ASSUME TypeOK, NEW i \in Inode
    PROVE  /\ FileContent(i) \in Content /\ FileContent(i).kind \in {"adaway", "part"}
           /\ FileContent(i).kind = "adaway" =>
                 /\ writer[i] = None
                 /\ \A v \in written[i] : v = FileContent(i).version
<1>1. written[i] \subseteq InFile(i) /\ InFile(i) \subseteq Version
  BY DEF InFile, TypeOK, PrivateTypes, ThreadTypes
<1>2. IsFiniteSet(InFile(i))
  <2>1. IsFiniteSet(Version)
    BY FS_Interval, RootAssumption DEF Version
  <2>2. QED
    BY <1>1, <2>1, FS_Subset
<1>3. 0 \in Version
  BY RootAssumption DEF Version
<1>4. CASE writer[i] = None /\ Cardinality(InFile(i)) = 1
  <2>1. PICK v : InFile(i) = {v}
    BY <1>2, <1>4, FS_Singleton
  <2>2. (CHOOSE w \in InFile(i) : TRUE) = v
    BY <2>1
  <2>3. FileContent(i) = Is("adaway", v)
    BY <1>4, <2>2 DEF FileContent
  <2>4. QED
    BY <1>1, <1>4, <2>1, <2>3 DEF Is, Content
<1>5. CASE ~(writer[i] = None /\ Cardinality(InFile(i)) = 1)
  <2>1. FileContent(i) = Is("part", 0)
    BY <1>5 DEF FileContent
  <2>2. QED
    BY <1>3, <2>1 DEF Is, Content
<1>6. QED
  BY <1>4, <1>5

LEMMA InitTypes == Init => TypeOK
<1> SUFFICES ASSUME Init PROVE TypeOK
  OBVIOUS
<1>1. 0 \in Version /\ 0 \in 0 .. MaxOps /\ 0 \in 0 .. MaxEvents /\ 0 \in 0 .. 0
  BY RootAssumption DEF Version
<1>2. DiskTypes
  BY <1>1 DEF Init, DiskTypes, Is, Content
<1>3. ThreadTypes
  BY <1>1 DEF Init, ThreadTypes, AtStart, Place, OpenWhileWriting
<1>4. PrivateTypes /\ RestTypes
  BY <1>1 DEF Init, PrivateTypes, RestTypes
<1>5. QED
  BY <1>2, <1>3, <1>4 DEF TypeOK

LEMMA SameDisk == TypeOK /\ UNCHANGED <<disk, entries, newest>> => DiskTypes'
BY DEF TypeOK, DiskTypes, disk, Content, Version

LEMMA SamePrivate == TypeOK /\ UNCHANGED private => PrivateTypes'
BY DEF TypeOK, PrivateTypes, private, Version

\* A thread that opens or closes no file goes on.
LEMMA GoesThreads ==
    ASSUME TypeOK, NEW t \in Thread, NEW to \in Place, Goes(t, to),
           to \in {"read", "close"} <=> pc[t] \in {"read", "close"}, fd' = fd,
           does' \in [Thread -> {"apply", "revert", "check"}],
           got' \in [Thread -> Version],
           writable' \in [Thread -> BOOLEAN], made' \in [Thread -> BOOLEAN]
    PROVE  ThreadTypes'
<1>1. pc' \in [Thread -> Place] /\ pc'[t] = to /\ \A u \in Thread \ {t} : pc'[u] = pc[u]
  BY DEF Goes, TypeOK, ThreadTypes
<1>2. OpenWhileWriting'
  BY <1>1 DEF TypeOK, ThreadTypes, OpenWhileWriting
<1>3. QED
  BY <1>1, <1>2 DEF TypeOK, ThreadTypes, Place, Version

\* One that opens or closes a file.
LEMMA OpensThreads ==
    ASSUME TypeOK, NEW t \in Thread, NEW to \in Place, Goes(t, to),
           NEW i \in Inode \cup {None}, fd' = [fd EXCEPT ![t] = i],
           to \in {"read", "close"} <=> i # None, UNCHANGED <<does, got, writable, made>>
    PROVE  ThreadTypes'
<1>1. /\ pc' \in [Thread -> Place] /\ pc'[t] = to /\ \A u \in Thread \ {t} : pc'[u] = pc[u]
      /\ fd' \in [Thread -> Inode \cup {None}] /\ fd'[t] = i
      /\ \A u \in Thread \ {t} : fd'[u] = fd[u]
  BY DEF Goes, TypeOK, ThreadTypes
<1>2. OpenWhileWriting'
  BY <1>1 DEF TypeOK, ThreadTypes, OpenWhileWriting
<1>3. QED
  BY <1>1, <1>2 DEF TypeOK, ThreadTypes, Place, Version

LEMMA SameRest ==
    ASSUME TypeOK, UNCHANGED <<status, leftWritable>>,
           UNCHANGED counted \/ Happens, doubtful' \in BOOLEAN
    PROVE  RestTypes'
<1>1. ops' \in 0 .. MaxOps /\ events' \in 0 .. MaxEvents
  BY RootAssumption DEF TypeOK, RestTypes, counted, Happens
<1>2. QED
  BY <1>1 DEF TypeOK, RestTypes, status

LEMMA BeginTypes ==
    ASSUME TypeOK, NEW t \in Thread, NEW op \in {"apply", "revert"}, Begin(t, op)
    PROVE  TypeOK'
<1>1. ThreadTypes'
  <2> DEFINE to == IF op = "apply" THEN Create[1] ELSE "default"
  <2>1. to \in {"delete", "default"} /\ to \in Place
    BY CreateOrder DEF Place
  <2>2. does' \in [Thread -> {"apply", "revert", "check"}]
    BY DEF Begin, TypeOK, ThreadTypes
  <2>3. pc[t] = "idle" /\ Goes(t, to) /\ UNCHANGED <<fd, got, writable, made>>
    BY DEF Begin
  <2>4. QED
    BY <2>1, <2>2, <2>3, GoesThreads DEF TypeOK, ThreadTypes, Version
<1>2. RestTypes'
  <2>1. ops' \in 0 .. MaxOps
    BY RootAssumption DEF Begin, TypeOK, RestTypes
  <2>2. doubtful' \in BOOLEAN
    BY DEF Begin, TypeOK, RestTypes
  <2>3. QED
    BY <2>1, <2>2 DEF Begin, TypeOK, RestTypes, status
<1>3. DiskTypes' /\ PrivateTypes'
  BY SameDisk, SamePrivate DEF Begin
<1>4. QED
  BY <1>1, <1>2, <1>3 DEF TypeOK

LEMMA CreateTypes ==
    ASSUME TypeOK, NEW t \in Thread, CreateNewHostsFile(t)
    PROVE  TypeOK'
<1> USE CreateOrder
<1>1. DiskTypes' /\ RestTypes'
  <2>1. UNCHANGED <<disk, entries, newest, status, leftWritable, doubtful>>
        /\ (UNCHANGED counted \/ Happens)
    BY DEF CreateNewHostsFile, DeleteNewHostsFile, OpenFileOutput, GetAll, Close, CreateFails, history
  <2>2. QED
    BY <2>1, SameDisk, SameRest DEF TypeOK, RestTypes
<1>2. CASE DeleteNewHostsFile(t)
  <2>1. ThreadTypes'
    BY <1>2, GoesThreads DEF DeleteNewHostsFile, Moves, local, TypeOK, ThreadTypes, Place, Version
  <2>2. PrivateTypes'
    BY <1>2 DEF DeleteNewHostsFile, TypeOK, PrivateTypes, Version
  <2>3. QED
    BY <1>1, <2>1, <2>2 DEF TypeOK
<1>3. CASE OpenFileOutput(t)
  <2>1. PICK i \in IF file = None THEN Unused ELSE {file} :
          /\ file' = i
          /\ fd' = [fd EXCEPT ![t] = i]
          /\ writer' = [writer EXCEPT ![i] = t]
          /\ written' = [written EXCEPT ![i] = {}]
    BY <1>3 DEF OpenFileOutput
  <2>2. i \in Inode /\ i # None
    BY <2>1, RootAssumption DEF TypeOK, PrivateTypes, Unused
  <2>3. Goes(t, "read") /\ UNCHANGED <<does, got, writable, made>>
    BY <1>3 DEF OpenFileOutput, Moves
  <2>4. ThreadTypes'
    BY <2>1, <2>2, <2>3, OpensThreads DEF Place
  <2>5. PrivateTypes'
    BY <2>1, <2>2 DEF TypeOK, PrivateTypes, Version
  <2>6. QED
    BY <1>1, <2>4, <2>5 DEF TypeOK
<1>4. CASE GetAll(t)
  <2>1. got' \in [Thread -> Version]
    BY <1>4 DEF GetAll, TypeOK, ThreadTypes, DiskTypes
  <2>2. ThreadTypes'
    BY <1>4, <2>1, GoesThreads DEF GetAll, Moves, TypeOK, ThreadTypes, Place
  <2>3. QED
    BY <1>1, <1>4, <2>2, SamePrivate DEF GetAll, TypeOK
<1>5. CASE Close(t)
  <2>1. pc[t] = "close" /\ Goes(t, "space") /\ fd' = [fd EXCEPT ![t] = None]
        /\ UNCHANGED <<file, does, got, writable, made>>
    BY <1>5 DEF Close, Moves
  <2>2. fd[t] \in Inode
    BY <2>1 DEF TypeOK, ThreadTypes, OpenWhileWriting
  <2>3. ThreadTypes'
    BY <2>1, OpensThreads DEF Place
  <2>4. PrivateTypes'
    <3>1. got[t] \in Version
      BY DEF TypeOK, ThreadTypes
    <3>2. writer' \in [Inode -> Thread \cup {None}]
      BY <1>5, <2>2 DEF Close, TypeOK, PrivateTypes
    <3>3. written' \in [Inode -> SUBSET Version]
      BY <1>5, <2>2, <3>1 DEF Close, Writes, TypeOK, PrivateTypes
    <3>4. QED
      BY <2>1, <3>2, <3>3 DEF TypeOK, PrivateTypes, Version
  <2>5. QED
    BY <1>1, <2>3, <2>4 DEF TypeOK
<1>6. CASE CreateFails(t)
  <2>1. ThreadTypes'
    <3>1. Goes(t, "idle") /\ fd' = [fd EXCEPT ![t] = None] /\ UNCHANGED <<does, got, writable, made>>
      BY <1>6 DEF CreateFails
    <3>2. QED
      BY <3>1, OpensThreads DEF Place
  <2>2. written' \in [Inode -> SUBSET Version]
    <3>1. CASE pc[t] = "close"
      <4>1. fd[t] \in Inode /\ got[t] \in Version
        BY <3>1 DEF TypeOK, ThreadTypes, OpenWhileWriting
      <4>2. QED
        BY <1>6, <3>1, <4>1 DEF CreateFails, Writes, TypeOK, PrivateTypes
    <3>2. CASE pc[t] # "close"
      BY <1>6, <3>2 DEF CreateFails, TypeOK, PrivateTypes
    <3>3. QED
      BY <3>1, <3>2
  <2>3. PrivateTypes'
    BY <1>6, <2>2 DEF CreateFails, TypeOK, PrivateTypes, Version
  <2>4. QED
    BY <1>1, <2>1, <2>3 DEF TypeOK
<1>7. QED
  BY <1>2, <1>3, <1>4, <1>5, <1>6 DEF CreateNewHostsFile

\* What a copy leaves in the hosts file.
LEMMA CopyHosts ==
    ASSUME TypeOK, NEW t \in Thread, ~Missing(t), Overwrites(Whole(t))
    PROVE  /\ hosts' \in Content
           /\ does[t] = "apply" => file \in Inode /\ hosts' = FileContent(file)
           /\ does[t] # "apply" => hosts'.kind = "default"
           /\ newest' = IF hosts'.kind = "adaway" /\ hosts'.version > newest
                        THEN hosts'.version ELSE newest
<1>1. CASE does[t] = "apply"
  <2>1. file \in Inode /\ hosts' = FileContent(file)
    BY <1>1 DEF Missing, Overwrites, Whole, TypeOK, PrivateTypes
  <2>2. QED
    BY <1>1, <2>1, FileContentIs DEF Overwrites, Whole
<1>2. CASE does[t] # "apply"
  <2>1. hosts' = Is("default", 0) /\ 0 \in Version
    BY <1>2, RootAssumption DEF Overwrites, Whole, Version
  <2>2. QED
    BY <1>2, <2>1 DEF Overwrites, Whole, Is, Content
<1>3. QED
  BY <1>1, <1>2

\* What a copy that fails may have left there.
LEMMA FailedHosts ==
    ASSUME TypeOK, NEW t \in Thread, CopyFails(t)
    PROVE  \/ UNCHANGED <<hosts, newest>>
           \/ hosts' = Is("part", 0) /\ newest' = newest
           \/ ~Missing(t) /\ Overwrites(Whole(t))
BY DEF CopyFails, Overwrites, Is

\* A step of a copy changes what its thread knows, and what it says.
LEMMA CopyThreads ==
    ASSUME TypeOK, NEW t \in Thread, Copy(t)
    PROVE  ThreadTypes'
<1>1. CASE EnoughSpace(t) \/ NotEnoughSpace(t) \/ RemountReadWrite(t)
  BY <1>1, GoesThreads DEF EnoughSpace, NotEnoughSpace, RemountReadWrite, Moves, local, TypeOK,
                           ThreadTypes, Place
<1>2. CASE IsWritable(t)
  <2> DEFINE to == IF mount = "rw" THEN "dd" ELSE "remount"
  <2>1. to \in Place /\ to \notin {"read", "close"}
    BY DEF Place
  <2>2. writable' \in [Thread -> BOOLEAN]
    BY <1>2 DEF IsWritable, Kept, TypeOK, ThreadTypes
  <2>3. pc[t] = "test" /\ Goes(t, to) /\ UNCHANGED <<does, fd, got, made>>
    BY <1>2 DEF IsWritable, Moves
  <2>4. QED
    BY <2>1, <2>2, <2>3, GoesThreads DEF TypeOK, ThreadTypes
<1>3. CASE \/ RemountFails(t) \/ CopyRefused(t) \/ CopyFails(t) \/ CopyHostsFile(t)
           \/ CopyMissing(t) \/ CopyTorn(t)
  <2>1. PICK success \in BOOLEAN : Copies(t, success)
    BY <1>3 DEF RemountFails, CopyRefused, CopyFails, CopyHostsFile, CopyMissing, CopyTorn
  <2>2. /\ Finally(t, success) \in Place \ {"read", "close"} /\ Goes(t, Finally(t, success))
        /\ made' \in [Thread -> BOOLEAN]
    BY <2>1, FinallyPlaces DEF Copies, TypeOK, ThreadTypes, Place
  <2>3. pc[t] \in {"remount", "dd"} /\ UNCHANGED <<does, fd, got, writable>>
    BY <1>3 DEF RemountFails, CopyRefused, CopyFails, CopyHostsFile, CopyMissing, CopyTorn
  <2>4. QED
    BY <2>2, <2>3, GoesThreads DEF TypeOK, ThreadTypes
<1>4. CASE RemountReadOnly(t) \/ RemountReadOnlyFails(t)
  <2>1. made[t] \in BOOLEAN
    BY DEF TypeOK, ThreadTypes
  <2>2. AfterCopy(t, made[t]) \in Place \ {"read", "close"}
    BY <2>1, FinallyPlaces DEF Place
  <2>3. pc[t] = "restore" /\ Goes(t, AfterCopy(t, made[t])) /\ UNCHANGED local
    BY <1>4 DEF RemountReadOnly, RemountReadOnlyFails, Moves
  <2>4. QED
    BY <2>2, <2>3, GoesThreads DEF TypeOK, ThreadTypes, local
<1>5. QED
  BY <1>1, <1>2, <1>3, <1>4 DEF Copy

LEMMA CopyTypes ==
    ASSUME TypeOK, NEW t \in Thread, Copy(t)
    PROVE  TypeOK'
<1>1. ThreadTypes' /\ PrivateTypes'
  <2>1. UNCHANGED private
    BY DEF Copy, EnoughSpace, NotEnoughSpace, IsWritable, RemountReadWrite, RemountFails, CopyRefused,
           CopyFails, CopyHostsFile, CopyMissing, CopyTorn, RemountReadOnly, RemountReadOnlyFails
  <2>2. QED
    BY <2>1, CopyThreads, SamePrivate
<1>2. RestTypes'
  <2>1. UNCHANGED status /\ (UNCHANGED counted \/ Happens)
    BY DEF Copy, EnoughSpace, NotEnoughSpace, IsWritable, RemountReadWrite, RemountFails, CopyRefused,
           CopyFails, CopyHostsFile, CopyMissing, CopyTorn, RemountReadOnly, RemountReadOnlyFails, Happens,
           counted
  <2>2. leftWritable' \in BOOLEAN /\ doubtful' \in BOOLEAN
    BY DEF Copy, EnoughSpace, NotEnoughSpace, IsWritable, RemountReadWrite, RemountFails, CopyRefused,
           CopyFails, CopyHostsFile, CopyMissing, CopyTorn, RemountReadOnly, RemountReadOnlyFails, history,
           TypeOK, RestTypes
  <2>3. ops' \in 0 .. MaxOps /\ events' \in 0 .. MaxEvents
    BY <2>1, RootAssumption DEF TypeOK, RestTypes, counted, Happens
  <2>4. QED
    BY <2>1, <2>2, <2>3 DEF TypeOK, RestTypes, status
<1>3. DiskTypes'
  <2>1. CASE CopyHostsFile(t) \/ CopyFails(t)
    <3>1. hosts' \in Content /\ newest' \in Version
      <4>1. CASE ~Missing(t) /\ Overwrites(Whole(t))
        BY <4>1, CopyHosts DEF TypeOK, DiskTypes, Content
      <4>2. CASE UNCHANGED <<hosts, newest>>
        BY <4>2 DEF TypeOK, DiskTypes
      <4>3. CASE hosts' = Is("part", 0) /\ newest' = newest
        BY <4>3, RootAssumption DEF TypeOK, DiskTypes, Is, Content, Version
      <4>4. QED
        BY <2>1, <4>1, <4>2, <4>3, FailedHosts DEF CopyHostsFile
    <3>2. QED
      BY <2>1, <3>1 DEF CopyHostsFile, CopyFails, TypeOK, DiskTypes, Content, Version
  <2>2. CASE CopyTorn(t)
    <3>1. hosts' \in Content
      BY <2>2, RootAssumption DEF CopyTorn, Is, Content, Version
    <3>2. QED
      BY <2>2, <3>1 DEF CopyTorn, TypeOK, DiskTypes, Content, Version
  <2>3. CASE RemountReadWrite(t) \/ RemountReadOnly(t)
    BY <2>3 DEF RemountReadWrite, RemountReadOnly, history, TypeOK, DiskTypes, Content, Version
  <2>4. CASE \/ EnoughSpace(t) \/ NotEnoughSpace(t) \/ IsWritable(t) \/ RemountFails(t)
             \/ CopyRefused(t) \/ CopyMissing(t) \/ RemountReadOnlyFails(t)
    BY <2>4, SameDisk DEF EnoughSpace, NotEnoughSpace, IsWritable, RemountFails, CopyRefused,
                          CopyMissing, RemountReadOnlyFails, history
  <2>5. QED
    BY <2>1, <2>2, <2>3, <2>4 DEF Copy
<1>4. QED
  BY <1>1, <1>2, <1>3 DEF TypeOK

LEMMA OtherTypes ==
    ASSUME TypeOK, NEW t \in Thread, CreateDefault(t) \/ CreateDefaultFails(t) \/ PostValue(t)
    PROVE  TypeOK'
<1>1. ThreadTypes'
  BY GoesThreads DEF CreateDefault, CreateDefaultFails, PostValue, Moves, local, TypeOK, ThreadTypes,
                     Place
<1>2. PrivateTypes'
  BY SamePrivate DEF CreateDefault, CreateDefaultFails, PostValue
<1>3. DiskTypes'
  BY DEF CreateDefault, CreateDefaultFails, PostValue, disk, history, TypeOK, DiskTypes, Content,
         Version
<1>4. RestTypes'
  <2>1. ops' \in 0 .. MaxOps /\ events' \in 0 .. MaxEvents
    BY RootAssumption DEF CreateDefault, CreateDefaultFails, PostValue, counted, Happens, TypeOK,
                          RestTypes
  <2>2. /\ posted' \in BOOLEAN \cup {None} /\ applied' = applied
        /\ UNCHANGED <<leftWritable, doubtful>>
    <3>1. CASE CreateDefault(t) \/ CreateDefaultFails(t)
      BY <3>1 DEF CreateDefault, CreateDefaultFails, status, history, TypeOK, RestTypes
    <3>2. CASE PostValue(t)
      BY <3>2 DEF PostValue, history
    <3>3. QED
      BY <3>1, <3>2
  <2>3. QED
    BY <2>1, <2>2 DEF TypeOK, RestTypes
<1>5. QED
  BY <1>1, <1>2, <1>3, <1>4 DEF TypeOK

LEMMA NextTypes == TypeOK /\ [Next]_vars => TypeOK'
<1> SUFFICES ASSUME TypeOK, [Next]_vars PROVE TypeOK'
  OBVIOUS
<1>1. Disk \in Thread
  BY DEF Thread
<1>2. CASE SyncHostEntries
  <2>1. entries' \in Version
    BY <1>2, RootAssumption DEF SyncHostEntries, TypeOK, DiskTypes, Version
  <2>2. DiskTypes'
    BY <1>2, <2>1 DEF SyncHostEntries, TypeOK, DiskTypes, disk, history, Content, Version
  <2>3. ThreadTypes'
    BY <1>2 DEF SyncHostEntries, local, TypeOK, ThreadTypes, OpenWhileWriting, Version, Place
  <2>4. PrivateTypes' /\ RestTypes'
    BY <1>2, SamePrivate, SameRest DEF SyncHostEntries, history, TypeOK, RestTypes
  <2>5. QED
    BY <2>2, <2>3, <2>4 DEF TypeOK
<1>3. CASE SetValue
  <2>1. DiskTypes' /\ PrivateTypes'
    BY <1>3, SameDisk, SamePrivate DEF SetValue, history
  <2>2. ThreadTypes'
    BY <1>3 DEF SetValue, local, TypeOK, ThreadTypes, OpenWhileWriting, Version, Place
  <2>3. RestTypes'
    BY <1>3 DEF SetValue, counted, history, TypeOK, RestTypes
  <2>4. QED
    BY <2>1, <2>2, <2>3 DEF TypeOK
<1>4. CASE CheckApplied \/ CheckFails
  <2>1. DiskTypes' /\ PrivateTypes'
    BY <1>4, SameDisk, SamePrivate DEF CheckApplied, CheckFails, history
  <2>2. pc[Disk] = "head" /\ \E to \in {"postTrue", "postFalse"} : Goes(Disk, to)
    BY <1>4 DEF CheckApplied, CheckFails, Moves
  <2>3. ThreadTypes'
    BY <1>1, <1>4, <2>2, GoesThreads DEF CheckApplied, CheckFails, local, TypeOK, ThreadTypes, Place
  <2>4. RestTypes'
    BY <1>4, SameRest DEF CheckApplied, CheckFails, history, TypeOK, RestTypes
  <2>5. QED
    BY <2>1, <2>3, <2>4 DEF TypeOK
<1>5. CASE Kill
  <2>1. DiskTypes' /\ PrivateTypes'
    BY <1>5, SameDisk, SamePrivate DEF Kill
  <2>2. ThreadTypes'
    BY <1>5, RootAssumption DEF Kill, AtStart, ThreadTypes, OpenWhileWriting, Version, Place
  <2>3. RestTypes'
    <3>1. ops' \in 0 .. MaxOps /\ events' \in 0 .. MaxEvents
      BY <1>5, RootAssumption DEF Kill, Happens, TypeOK, RestTypes
    <3>2. leftWritable' \in BOOLEAN /\ doubtful' = FALSE /\ posted' = None /\ applied' = None
      BY <1>5 DEF Kill, TypeOK, RestTypes
    <3>3. QED
      BY <3>1, <3>2 DEF RestTypes
  <2>4. QED
    BY <2>1, <2>2, <2>3 DEF TypeOK
<1>6. CASE UNCHANGED vars
  <2>1. ThreadTypes'
    BY <1>6 DEF vars, local, TypeOK, ThreadTypes, OpenWhileWriting, Version, Place
  <2>2. DiskTypes' /\ PrivateTypes' /\ RestTypes'
    BY <1>6, SameDisk, SamePrivate, SameRest DEF vars, history, TypeOK, RestTypes
  <2>3. QED
    BY <2>1, <2>2 DEF TypeOK
<1>7. QED
  BY <1>2, <1>3, <1>4, <1>5, <1>6, BeginTypes, CreateTypes, CopyTypes, OtherTypes DEF Next

\* What RootModel, the shell and the private files are in any state: a thread has an
\* inode open between opening and closing it, and the bounds hold.
THEOREM Types == Spec => []TypeOK
BY InitTypes, NextTypes, PTL DEF Spec

-----------------------------------------------------------------------------
(* The partition is mounted back.                                          *)

\* Steps of other kinds of places neither remount nor make a thread forget to.
LEMMA ElsewhereBack ==
    ASSUME TypeOK, BackInv, NEW t \in Thread, NEW to \in Place \ {"remount", "dd", "restore"},
           pc[t] \notin {"remount", "dd", "restore"}, Goes(t, to),
           UNCHANGED <<mount, normally, writable, leftWritable>>
    PROVE  BackInv'
<1>1. pc'[t] = to /\ \A u \in Thread \ {t} : pc'[u] = pc[u]
  BY DEF Goes, TypeOK, ThreadTypes
<1>2. RemountersFoundReadOnly' /\ WritableStays'
  BY <1>1 DEF BackInv, RemountersFoundReadOnly, WritableStays
<1>3. RemounterLeft'
  BY <1>1 DEF BackInv, RemounterLeft, Remounter
<1>4. QED
  BY <1>2, <1>3 DEF BackInv

LEMMA IsWritableBack ==
    ASSUME TypeOK, BackInv, NEW t \in Thread, IsWritable(t)
    PROVE  BackInv'
<1>1. /\ pc[t] = "test" /\ pc'[t] = IF mount = "rw" THEN "dd" ELSE "remount"
      /\ \A u \in Thread \ {t} : pc'[u] = pc[u] /\ writable'[u] = writable[u]
      /\ writable'[t] <=> mount = "rw"
      /\ UNCHANGED <<mount, normally, leftWritable>>
  BY DEF IsWritable, Moves, Goes, Kept, disk, history, TypeOK, ThreadTypes
<1>2. RemountersFoundReadOnly' /\ WritableStays'
  BY <1>1 DEF BackInv, RemountersFoundReadOnly, WritableStays
<1>3. RemounterLeft'
  BY <1>1 DEF BackInv, RemounterLeft, Remounter
<1>4. QED
  BY <1>2, <1>3 DEF BackInv

\* The finally block of a thread that found the partition to be read remounts it.
LEMMA CopiesBack ==
    ASSUME TypeOK, BackInv, NEW t \in Thread, NEW success \in BOOLEAN, Copies(t, success),
           pc[t] \in {"remount", "dd"},
           UNCHANGED <<mount, normally, writable, leftWritable>>
    PROVE  BackInv'
<1>1. /\ pc'[t] = Finally(t, success) /\ \A u \in Thread \ {t} : pc'[u] = pc[u]
      /\ writable[t] => pc'[t] \in {"idle", "postTrue", "postFalse"}
      /\ ~writable[t] => pc'[t] = "restore"
  BY FinallyPlaces DEF Copies, Goes, Finally, TypeOK, ThreadTypes
<1>2. RemountersFoundReadOnly' /\ WritableStays'
  BY <1>1 DEF BackInv, RemountersFoundReadOnly, WritableStays
<1>3. RemounterLeft'
  BY <1>1 DEF BackInv, RemounterLeft, Remounter
<1>4. QED
  BY <1>2, <1>3 DEF BackInv

LEMMA CopyBack ==
    ASSUME TypeOK, BackInv, NEW t \in Thread, Copy(t)
    PROVE  BackInv'
<1>1. CASE EnoughSpace(t) \/ NotEnoughSpace(t)
  BY <1>1, ElsewhereBack DEF EnoughSpace, NotEnoughSpace, Moves, disk, local, history, Place
<1>2. CASE RemountReadWrite(t)
  <2>1. /\ pc[t] = "remount" /\ pc'[t] = "dd" /\ mount' = "rw"
        /\ \A u \in Thread \ {t} : pc'[u] = pc[u]
        /\ UNCHANGED <<normally, writable, leftWritable>>
    BY <1>2 DEF RemountReadWrite, Moves, Goes, local, history, TypeOK, ThreadTypes
  <2>2. ~writable[t] /\ normally = "ro"
    BY <2>1 DEF BackInv, RemountersFoundReadOnly, WritableStays, TypeOK, DiskTypes
  <2>3. RemountersFoundReadOnly' /\ WritableStays'
    BY <2>1, <2>2 DEF BackInv, RemountersFoundReadOnly, WritableStays
  <2>4. RemounterLeft'
    BY <2>1, <2>2 DEF RemounterLeft, Remounter
  <2>5. QED
    BY <2>3, <2>4 DEF BackInv
<1>3. CASE \/ RemountFails(t) \/ CopyRefused(t) \/ CopyFails(t) \/ CopyHostsFile(t)
           \/ CopyMissing(t) \/ CopyTorn(t)
  <2>1. PICK success \in BOOLEAN : Copies(t, success)
    BY <1>3 DEF RemountFails, CopyRefused, CopyFails, CopyHostsFile, CopyMissing, CopyTorn
  <2>2. pc[t] \in {"remount", "dd"} /\ UNCHANGED <<mount, normally, writable, leftWritable>>
    BY <1>3 DEF RemountFails, CopyRefused, CopyFails, CopyHostsFile, CopyMissing, CopyTorn, disk, history
  <2>3. QED
    BY <2>1, <2>2, CopiesBack
<1>4. CASE RemountReadOnly(t) \/ RemountReadOnlyFails(t)
  <2>1. /\ pc[t] = "restore" /\ pc'[t] \in {"idle", "postTrue", "postFalse"}
        /\ \A u \in Thread \ {t} : pc'[u] = pc[u]
        /\ UNCHANGED <<normally, writable>>
        /\ mount' = "ro" \/ (mount' = mount /\ leftWritable' = TRUE)
    BY <1>4, FinallyPlaces DEF RemountReadOnly, RemountReadOnlyFails, Moves, Goes, local, disk, TypeOK,
                               ThreadTypes
  <2>2. normally = "ro"
    BY <2>1 DEF BackInv, WritableStays, TypeOK, DiskTypes
  <2>3. RemountersFoundReadOnly' /\ WritableStays'
    BY <2>1, <2>2 DEF BackInv, RemountersFoundReadOnly, WritableStays
  <2>4. RemounterLeft'
    BY <2>1 DEF RemounterLeft
  <2>5. QED
    BY <2>3, <2>4 DEF BackInv
<1>5. QED
  BY <1>1, <1>2, <1>3, <1>4, IsWritableBack DEF Copy

LEMMA NextBack == TypeOK /\ BackInv /\ [Next]_vars => BackInv'
<1> SUFFICES ASSUME TypeOK, BackInv, [Next]_vars PROVE BackInv'
  OBVIOUS
<1>1. Disk \in Thread
  BY DEF Thread
<1>2. CASE SyncHostEntries \/ SetValue \/ UNCHANGED vars
  BY <1>2 DEF SyncHostEntries, SetValue, vars, disk, local, history, BackInv, RemountersFoundReadOnly,
              WritableStays, RemounterLeft, Remounter
<1>3. CASE CheckApplied \/ CheckFails
  <2>1. pc[Disk] = "head" /\ \E to \in {"postTrue", "postFalse"} : Goes(Disk, to)
    BY <1>3 DEF CheckApplied, CheckFails, Moves
  <2>2. UNCHANGED <<mount, normally, writable, leftWritable>>
    BY <1>3 DEF CheckApplied, CheckFails, disk, local, history
  <2>3. QED
    BY <1>1, <2>1, <2>2, ElsewhereBack DEF Place
<1>4. CASE Kill
  <2>1. /\ \A t \in Thread : pc'[t] \in {"head", "idle"}
        /\ UNCHANGED <<mount, normally>>
        /\ mount # normally => leftWritable' = TRUE
    BY <1>4 DEF Kill, AtStart, disk, TypeOK, RestTypes
  <2>2. QED
    BY <2>1 DEF BackInv, RemountersFoundReadOnly, WritableStays, RemounterLeft
<1>5. ASSUME NEW t \in Thread, NEW op \in {"apply", "revert"}, Begin(t, op)
      PROVE  BackInv'
  <2>1. pc[t] = "idle" /\ \E to \in {"delete", "default"} : Goes(t, to)
    BY <1>5, CreateOrder DEF Begin
  <2>2. QED
    BY <1>5, <2>1, ElsewhereBack DEF Begin, disk, Place
<1>6. ASSUME NEW t \in Thread,
             CreateNewHostsFile(t) \/ CreateDefault(t) \/ CreateDefaultFails(t) \/ PostValue(t)
      PROVE  BackInv'
  <2>1. /\ pc[t] \notin {"remount", "dd", "restore"}
        /\ \E to \in {"open", "read", "close", "space", "idle"} : Goes(t, to)
    BY <1>6, CreateOrder
       DEF CreateNewHostsFile, DeleteNewHostsFile, OpenFileOutput, GetAll, Close, CreateFails,
           CreateDefault, CreateDefaultFails, PostValue, Moves
  <2>2. UNCHANGED <<mount, normally, writable, leftWritable>>
    BY <1>6 DEF CreateNewHostsFile, DeleteNewHostsFile, OpenFileOutput, GetAll, Close, CreateFails,
                CreateDefault, CreateDefaultFails, PostValue, disk, local, history
  <2>3. QED
    BY <2>1, <2>2, ElsewhereBack DEF Place
<1>7. QED
  BY <1>2, <1>3, <1>4, <1>5, <1>6, CopyBack DEF Next

\* copyHostsFile asks whether the partition is writable and remounts it in its finally
\* block when it was not: for any number of threads that do so at once, the one that
\* remounted it, or one that came between, is still there to remount it back.
THEOREM RemountedBackTheorem == Spec => []RemountedBack
<1>1. Init => BackInv
  BY DEF Init, AtStart, BackInv, RemountersFoundReadOnly, WritableStays, RemounterLeft, Thread
<1>2. TypeOK /\ BackInv => RemountedBack
  BY DEF BackInv, WritableStays, RemounterLeft, Remounter, RemountedBack, Quiet, TypeOK, DiskTypes
<1>3. QED
  BY <1>1, <1>2, Types, NextBack, PTL DEF Spec

-----------------------------------------------------------------------------
(* Hosts files do not grow older.                                          *)

\* Neither files nor threads that write them change.
LEMMA SameNewer ==
    ASSUME TypeOK, NewerInv, NEW t \in Thread, NEW to \in Place \ {"close"}, Goes(t, to),
           UNCHANGED <<private, entries, fd, got, newest, hosts>>
    PROVE  NewerInv'
<1>1. \A u \in Thread : pc'[u] = "close" => pc[u] = "close"
  BY DEF Goes, TypeOK, ThreadTypes
<1>2. QED
  BY <1>1 DEF NewerInv, NothingNewer, WholeIsNew, WriterIsNew, NeverOlder, private

\* The entries are read after the file was truncated.
LEMMA CreateNewer ==
    ASSUME TypeOK, NewerInv, NEW t \in Thread, CreateNewHostsFile(t)
    PROVE  NewerInv'
<1> USE CreateOrder
<1>1. UNCHANGED <<hosts, entries, newest>>
  BY DEF CreateNewHostsFile, DeleteNewHostsFile, OpenFileOutput, GetAll, Close, CreateFails, disk,
         history
<1>2. NeverOlder'
  BY <1>1 DEF NewerInv, NeverOlder
<1>3. newest \in Nat /\ entries \in Nat /\ got \in [Thread -> Nat]
  BY RootAssumption DEF TypeOK, DiskTypes, ThreadTypes, Version
<1>4. CASE DeleteNewHostsFile(t)
  BY <1>1, <1>2, <1>4 DEF DeleteNewHostsFile, local, NewerInv, NothingNewer, WholeIsNew, WriterIsNew
<1>5. CASE OpenFileOutput(t)
  <2>1. PICK i \in IF file = None THEN Unused ELSE {file} :
          /\ file' = i
          /\ fd' = [fd EXCEPT ![t] = i]
          /\ writer' = [writer EXCEPT ![i] = t]
          /\ written' = [written EXCEPT ![i] = {}]
    BY <1>5 DEF OpenFileOutput
  <2>2. i \in Inode /\ t # None
    BY <2>1, RootAssumption DEF TypeOK, PrivateTypes, Unused
  <2>3. /\ writer'[i] = t /\ written'[i] = {} /\ \A j \in Inode \ {i} : written'[j] = written[j]
        /\ pc'[t] = "read" /\ got' = got
    BY <1>5, <2>1, <2>2 DEF OpenFileOutput, Moves, Goes, TypeOK, PrivateTypes, ThreadTypes
  <2>4. QED
    BY <1>1, <1>2, <2>1, <2>2, <2>3 DEF NewerInv, NothingNewer, WholeIsNew, WriterIsNew
<1>6. CASE GetAll(t)
  <2>1. /\ got'[t] = entries /\ \A u \in Thread \ {t} : got'[u] = got[u] /\ pc'[u] = pc[u]
        /\ UNCHANGED <<private, fd>>
    BY <1>6 DEF GetAll, Moves, Goes, TypeOK, ThreadTypes
  <2>2. NothingNewer' /\ WholeIsNew'
    BY <1>1, <1>3, <2>1 DEF NewerInv, NothingNewer, WholeIsNew, private
  <2>3. WriterIsNew'
    BY <1>1, <2>1 DEF NewerInv, NothingNewer, WriterIsNew, private
  <2>4. QED
    BY <1>2, <2>2, <2>3 DEF NewerInv
<1>7. CASE Close(t)
  <2>1. fd[t] \in Inode /\ pc[t] = "close"
    BY <1>7 DEF Close, Moves, TypeOK, ThreadTypes, OpenWhileWriting
  <2>2. /\ written'[fd[t]] = written[fd[t]] \cup {got[t]}
        /\ \A j \in Inode \ {fd[t]} : written'[j] = written[j] /\ writer'[j] = writer[j]
        /\ writer'[fd[t]] = IF writer[fd[t]] = t THEN None ELSE writer[fd[t]]
        /\ pc'[t] = "space" /\ fd'[t] = None
        /\ \A u \in Thread \ {t} : pc'[u] = pc[u] /\ fd'[u] = fd[u]
        /\ UNCHANGED <<file, got>>
    BY <1>7, <2>1 DEF Close, Writes, Moves, Goes, TypeOK, ThreadTypes, PrivateTypes
  <2>3. NothingNewer'
    BY <1>1, <2>2 DEF NewerInv, NothingNewer
  <2>4. WholeIsNew'
    <3> SUFFICES ASSUME file # None, writer'[file] = None
                 PROVE  \E v \in written'[file] : v >= newest
      BY <1>1, <2>2 DEF WholeIsNew
    <3>1. file \in Inode
      BY DEF TypeOK, PrivateTypes
    <3>2. CASE writer[file] = None
      BY <2>2, <3>1, <3>2 DEF NewerInv, WholeIsNew
    <3>3. CASE writer[file] # None
      <4>1. fd[t] = file /\ writer[file] = t
        BY <2>2, <3>1, <3>3
      <4>2. got[t] >= newest
        BY <2>1, <4>1 DEF NewerInv, WriterIsNew
      <4>3. QED
        BY <2>2, <4>1, <4>2
    <3>4. QED
      BY <3>2, <3>3
  <2>5. WriterIsNew'
    <3> SUFFICES ASSUME NEW u \in Thread, file # None, fd'[u] = file, writer'[file] = u, pc'[u] = "close"
                 PROVE  got[u] >= newest
      BY <1>1, <2>2 DEF WriterIsNew
    <3>1. file \in Inode /\ u # None
      BY RootAssumption DEF TypeOK, PrivateTypes
    <3>2. u # t /\ writer[file] = u
      BY <2>2, <3>1
    <3>3. QED
      BY <2>2, <3>2 DEF NewerInv, WriterIsNew
  <2>6. QED
    BY <1>2, <2>3, <2>4, <2>5 DEF NewerInv
<1>8. CASE CreateFails(t)
  <2>1. \A j \in Inode : written[j] \subseteq written'[j] /\ written'[j] \subseteq written[j] \cup {got[t]}
    <3>1. CASE pc[t] = "close"
      <4>1. fd[t] \in Inode
        BY <3>1 DEF TypeOK, ThreadTypes, OpenWhileWriting
      <4>2. QED
        BY <1>8, <3>1, <4>1 DEF CreateFails, Writes, TypeOK, PrivateTypes
    <3>2. CASE pc[t] # "close"
      BY <1>8, <3>2 DEF CreateFails
    <3>3. QED
      BY <3>1, <3>2
  <2>2. /\ pc'[t] = "idle" /\ \A u \in Thread \ {t} : pc'[u] = pc[u] /\ fd'[u] = fd[u]
        /\ UNCHANGED <<file, writer, got>>
    BY <1>8 DEF CreateFails, Goes, TypeOK, ThreadTypes
  <2>3. NothingNewer'
    BY <1>1, <2>1, <2>2 DEF NewerInv, NothingNewer
  <2>4. WholeIsNew'
    <3>1. file \in Inode \cup {None}
      BY DEF TypeOK, PrivateTypes
    <3>2. QED
      BY <1>1, <2>1, <2>2, <3>1 DEF NewerInv, WholeIsNew
  <2>5. WriterIsNew'
    BY <1>1, <2>2 DEF NewerInv, WriterIsNew
  <2>6. QED
    BY <1>2, <2>3, <2>4, <2>5 DEF NewerInv
<1>9. QED
  BY <1>4, <1>5, <1>6, <1>7, <1>8 DEF CreateNewHostsFile

LEMMA CopyHostsNewer ==
    ASSUME TypeOK, NewerInv, NEW t \in Thread, NEW success \in BOOLEAN, Copies(t, success),
           ~Missing(t), Overwrites(Whole(t)), UNCHANGED <<private, entries, fd, got>>
    PROVE  NewerInv'
<1>1. /\ \A u \in Thread : pc'[u] = "close" => pc[u] = "close"
      /\ UNCHANGED <<file, writer, written, entries, fd, got>>
  <2>1. Finally(t, success) # "close"
    BY FinallyPlaces
  <2>2. QED
    BY <2>1 DEF Copies, Goes, private, TypeOK, ThreadTypes
<1>2. newest \in Nat /\ hosts'.version \in Nat
  BY CopyHosts, RootAssumption DEF TypeOK, DiskTypes, Content, Version
<1>3. CASE hosts'.kind = "adaway"
  <2>1. /\ file \in Inode /\ writer[file] = None
        /\ \A v \in written[file] : v = hosts'.version
    BY <1>3, CopyHosts, FileContentIs
  <2>2. PICK v \in written[file] : v >= newest
    BY <2>1, RootAssumption DEF NewerInv, WholeIsNew
  <2>3. hosts'.version = v /\ newest' = v /\ v <= entries
    BY <1>2, <1>3, <2>1, <2>2, CopyHosts DEF NewerInv, NothingNewer
  <2>4. NeverOlder' /\ NothingNewer' /\ WholeIsNew'
    BY <1>1, <1>2, <2>1, <2>2, <2>3 DEF NewerInv, NeverOlder, NothingNewer, WholeIsNew
  <2>5. WriterIsNew'
    BY <1>1, <2>1, RootAssumption DEF WriterIsNew
  <2>6. QED
    BY <2>4, <2>5 DEF NewerInv
<1>4. CASE hosts'.kind # "adaway"
  <2>1. newest' = newest
    BY <1>4, CopyHosts
  <2>2. QED
    BY <1>1, <1>4, <2>1 DEF NewerInv, NeverOlder, NothingNewer, WholeIsNew, WriterIsNew
<1>5. QED
  BY <1>3, <1>4

LEMMA CopyNewer ==
    ASSUME TypeOK, NewerInv, NEW t \in Thread, Copy(t)
    PROVE  NewerInv'
<1>1. CASE \/ EnoughSpace(t) \/ NotEnoughSpace(t) \/ IsWritable(t) \/ RemountReadWrite(t)
           \/ RemountReadOnly(t) \/ RemountReadOnlyFails(t)
  <2>1. \E to \in Place \ {"close"} : Goes(t, to)
    BY <1>1, FinallyPlaces DEF EnoughSpace, NotEnoughSpace, IsWritable, RemountReadWrite,
                               RemountReadOnly, RemountReadOnlyFails, Moves, TypeOK, ThreadTypes, Place
  <2>2. UNCHANGED <<private, entries, fd, got, newest, hosts>>
    BY <1>1 DEF EnoughSpace, NotEnoughSpace, IsWritable, RemountReadWrite, RemountReadOnly,
                RemountReadOnlyFails, disk, local, history
  <2>3. QED
    BY <2>1, <2>2, SameNewer
<1>2. ASSUME RemountFails(t) \/ CopyRefused(t) \/ CopyFails(t) \/ CopyMissing(t) \/ CopyTorn(t),
             hosts' = hosts \/ hosts'.kind = "part", newest' = newest
      PROVE  NewerInv'
  <2>1. \E to \in Place \ {"close"} : Goes(t, to)
    BY <1>2, FinallyPlaces DEF RemountFails, CopyRefused, CopyFails, CopyMissing, CopyTorn, Copies, Place
  <2>2. UNCHANGED <<private, entries, fd, got>>
    BY <1>2 DEF RemountFails, CopyRefused, CopyFails, CopyMissing, CopyTorn, history
  <2>3. \A u \in Thread : pc'[u] = "close" => pc[u] = "close"
    BY <2>1 DEF Goes, TypeOK, ThreadTypes
  <2>4. QED
    BY <1>2, <2>2, <2>3 DEF NewerInv, NothingNewer, WholeIsNew, WriterIsNew, NeverOlder, private
<1>3. CASE RemountFails(t) \/ CopyRefused(t) \/ CopyMissing(t) \/ CopyTorn(t)
  <2>1. newest' = newest /\ (hosts' = hosts \/ hosts' = Is("part", 0))
    BY <1>3 DEF RemountFails, CopyRefused, CopyMissing, CopyTorn, disk, history
  <2>2. QED
    BY <1>2, <1>3, <2>1 DEF Is
<1>4. CASE CopyHostsFile(t)
  BY <1>4, CopyHostsNewer DEF CopyHostsFile
<1>5. CASE CopyFails(t)
  <2>1. CASE ~Missing(t) /\ Overwrites(Whole(t))
    BY <1>5, <2>1, CopyHostsNewer DEF CopyFails
  <2>2. CASE UNCHANGED <<hosts, newest>> \/ (hosts' = Is("part", 0) /\ newest' = newest)
    BY <1>2, <1>5, <2>2 DEF Is
  <2>3. QED
    BY <1>5, <2>1, <2>2, FailedHosts
<1>6. QED
  BY <1>1, <1>3, <1>4, <1>5 DEF Copy

LEMMA NextNewer == TypeOK /\ NewerInv /\ [Next]_vars => NewerInv'
<1> SUFFICES ASSUME TypeOK, NewerInv, [Next]_vars PROVE NewerInv'
  OBVIOUS
<1>1. Disk \in Thread
  BY DEF Thread
<1>2. CASE SetValue \/ UNCHANGED vars
  BY <1>2 DEF SetValue, vars, disk, private, local, history, NewerInv, NothingNewer, WholeIsNew,
              WriterIsNew, NeverOlder
<1>3. CASE SyncHostEntries
  <2>1. /\ entries \in Nat /\ newest \in Nat /\ got \in [Thread -> Nat]
        /\ written \in [Inode -> SUBSET Nat]
    BY RootAssumption DEF TypeOK, DiskTypes, ThreadTypes, PrivateTypes, Version
  <2>2. UNCHANGED <<hosts, private, pc, fd, got, newest>> /\ entries' = entries + 1
    BY <1>3 DEF SyncHostEntries, disk, local, history
  <2>3. NothingNewer'
    BY <2>1, <2>2 DEF NewerInv, NothingNewer, private
  <2>4. QED
    BY <2>2, <2>3 DEF NewerInv, WholeIsNew, WriterIsNew, NeverOlder, private
<1>4. CASE CheckApplied \/ CheckFails
  <2>1. \E to \in {"postTrue", "postFalse"} : Goes(Disk, to)
    BY <1>4 DEF CheckApplied, CheckFails, Moves
  <2>2. UNCHANGED <<private, entries, fd, got, newest, hosts>>
    BY <1>4 DEF CheckApplied, CheckFails, disk, local, history
  <2>3. QED
    BY <1>1, <2>1, <2>2, SameNewer DEF Place
<1>5. CASE Kill
  <2>1. /\ \A t \in Thread : pc'[t] # "close" /\ got'[t] = 0
        /\ UNCHANGED <<hosts, private, entries, newest>>
    BY <1>5 DEF Kill, AtStart, disk
  <2>2. entries \in Nat
    BY RootAssumption DEF TypeOK, DiskTypes, Version
  <2>3. QED
    BY <2>1, <2>2 DEF NewerInv, NothingNewer, WholeIsNew, WriterIsNew, NeverOlder, private
<1>6. ASSUME NEW t \in Thread,
             \/ \E op \in {"apply", "revert"} : Begin(t, op)
             \/ CreateDefault(t) \/ CreateDefaultFails(t) \/ PostValue(t)
      PROVE  NewerInv'
  <2>1. \E to \in {"delete", "default", "space", "idle"} : Goes(t, to)
    BY <1>6, CreateOrder DEF Begin, CreateDefault, CreateDefaultFails, PostValue, Moves
  <2>2. UNCHANGED <<private, entries, fd, got, newest, hosts>>
    BY <1>6 DEF Begin, CreateDefault, CreateDefaultFails, PostValue, disk, local, history
  <2>3. QED
    BY <2>1, <2>2, SameNewer DEF Place
<1>7. QED
  BY <1>2, <1>3, <1>4, <1>5, <1>6, CreateNewer, CopyNewer DEF Next

\* createNewHostsFile truncates the file before it reads the entries, so that a file
\* that is whole has entries read after all copies of other files: whichever of the
\* threads that apply at once copies it, the hosts file gets no older.
THEOREM NeverOlderTheorem == Spec => []NeverOlder
<1>1. Init => NewerInv
  <2> SUFFICES ASSUME Init PROVE NewerInv
    OBVIOUS
  <2>1. /\ file = None /\ entries = 0 /\ newest = 0 /\ hosts.kind = "foreign"
        /\ \A t \in Thread : got[t] = 0
        /\ \A i \in Inode : written[i] = {}
    BY DEF Init, Is
  <2>2. QED
    BY <2>1 DEF NewerInv, NothingNewer, WholeIsNew, WriterIsNew, NeverOlder
<1>2. NewerInv => NeverOlder
  BY DEF NewerInv
<1>3. QED
  BY <1>1, <1>2, Types, NextNewer, PTL DEF Spec

-----------------------------------------------------------------------------
(* isApplied tells what the hosts file is.                                 *)

\* A thread that has nothing to tell goes on.
LEMMA PlainTells ==
    ASSUME TypeOK, TellsInv, NEW t \in Thread,
           NEW to \in Place \ {"head", "restore", "postTrue", "postFalse"}, Goes(t, to),
           pc[t] \notin {"idle", "head", "postTrue", "postFalse"}, pc[t] = "restore" => ~made[t],
           UNCHANGED <<hosts, does, made, status, doubtful>>
    PROVE  TellsInv'
<1>1. pc'[t] = to /\ \A u \in Thread \ {t} : pc'[u] = pc[u]
  BY DEF Goes, TypeOK, ThreadTypes
<1>2. PostsItsOwn'
  BY <1>1 DEF TellsInv, PostsItsOwn
<1>3. SameOperation => SameOperation'
  BY <1>1 DEF SameOperation
<1>4. TellsRight => TellsRight'
  BY <1>1 DEF TellsRight, HostsApplied
<1>5. SomeoneTells => SomeoneTells'
  BY <1>1 DEF SomeoneTells, WillTell, Told, HostsApplied, status
<1>6. QED
  BY <1>2, <1>3, <1>4, <1>5 DEF TellsInv

\* Once in doubt, the operations are all that is kept.
LEMMA DoubtfulTells == doubtful' /\ PostsItsOwn' => TellsInv'
BY DEF TellsInv

\* An operation that begins overlaps with the same ones only.
LEMMA BeginTells ==
    ASSUME TypeOK, TellsInv, NEW t \in Thread, NEW op \in {"apply", "revert"}, Begin(t, op)
    PROVE  TellsInv'
<1>1. /\ pc[t] = "idle" /\ pc'[t] \in {"delete", "default"} /\ does'[t] = op
      /\ \A u \in Thread \ {t} : pc'[u] = pc[u] /\ does'[u] = does[u]
      /\ UNCHANGED <<hosts, made, posted, applied>>
  BY CreateOrder DEF Begin, Goes, disk, status, TypeOK, ThreadTypes
<1>2. PostsItsOwn'
  BY <1>1 DEF TellsInv, PostsItsOwn
<1>3. CASE doubtful'
  BY <1>2, <1>3, DoubtfulTells
<1>4. CASE ~doubtful'
  <2>1. ~doubtful /\ \A u \in Thread : pc[u] # "idle" => does[u] = op
    BY <1>4 DEF Begin
  <2>2. SameOperation'
    BY <1>1, <2>1 DEF SameOperation
  <2>3. TellsRight'
    BY <1>1, <2>1 DEF TellsInv, TellsRight, HostsApplied
  <2>4. SomeoneTells'
    BY <1>1, <2>1 DEF TellsInv, SomeoneTells, WillTell, Told, HostsApplied
  <2>5. QED
    BY <1>2, <2>2, <2>3, <2>4 DEF TellsInv
<1>5. QED
  BY <1>3, <1>4

\* A copy that failed has nothing to tell, and leaves doubts if it left a file of another
\* kind.
LEMMA FailedCopyTells ==
    ASSUME TypeOK, TellsInv, NEW t \in Thread, Copies(t, FALSE), pc[t] \in {"remount", "dd"},
           UNCHANGED <<does, status>>, doubtful' = (doubtful \/ hosts'.kind # hosts.kind)
    PROVE  TellsInv'
<1>1. /\ pc'[t] \in {"idle", "restore"} /\ ~made'[t]
      /\ \A u \in Thread \ {t} : pc'[u] = pc[u] /\ made'[u] = made[u]
  BY DEF Copies, Goes, Finally, AfterCopy, TypeOK, ThreadTypes
<1>2. PostsItsOwn'
  BY <1>1 DEF TellsInv, PostsItsOwn
<1>3. SameOperation => SameOperation'
  BY <1>1 DEF SameOperation
<1>4. TellsRight /\ hosts'.kind = hosts.kind => TellsRight'
  BY <1>1 DEF TellsRight, HostsApplied
<1>5. SomeoneTells /\ hosts'.kind = hosts.kind => SomeoneTells'
  BY <1>1 DEF SomeoneTells, WillTell, Told, HostsApplied, status
<1>6. QED
  BY <1>2, <1>3, <1>4, <1>5 DEF TellsInv

\* Where a thread goes whose copy was made, as far as the shell says.
LEMMA MadeCopy ==
    ASSUME TypeOK, TellsInv, NEW t \in Thread, Copies(t, TRUE), pc[t] = "dd", does' = does
    PROVE  /\ pc'[t] \in {"restore", "postTrue", "postFalse"} /\ made'[t]
           /\ pc'[t] = "postTrue" => does[t] = "apply"
           /\ pc'[t] = "postFalse" => does[t] = "revert"
           /\ does[t] \in {"apply", "revert"}
           /\ \A u \in Thread \ {t} : pc'[u] = pc[u] /\ made'[u] = made[u]
           /\ PostsItsOwn'
<1>1. does[t] \in {"apply", "revert"}
  BY DEF TellsInv, PostsItsOwn, TypeOK, ThreadTypes
<1>2. /\ pc'[t] \in {"restore", "postTrue", "postFalse"} /\ made'[t]
      /\ pc'[t] = "postTrue" => does[t] = "apply"
      /\ pc'[t] = "postFalse" => does[t] = "revert"
      /\ \A u \in Thread \ {t} : pc'[u] = pc[u] /\ made'[u] = made[u]
  BY <1>1 DEF Copies, Goes, Finally, AfterCopy, TypeOK, ThreadTypes
<1>3. PostsItsOwn'
  BY <1>1, <1>2 DEF TellsInv, PostsItsOwn
<1>4. QED
  BY <1>1, <1>2, <1>3

LEMMA CopyHostsTells ==
    ASSUME TypeOK, TellsInv, NEW t \in Thread, CopyHostsFile(t)
    PROVE  TellsInv'
<1>1. /\ pc[t] = "dd" /\ Copies(t, TRUE) /\ UNCHANGED <<does, status>>
      /\ doubtful' = (doubtful /\ \E u \in Thread \ {t} : pc[u] # "idle")
  BY DEF CopyHostsFile
<1>2. /\ pc'[t] \in {"restore", "postTrue", "postFalse"} /\ made'[t]
      /\ pc'[t] = "postTrue" => does[t] = "apply"
      /\ pc'[t] = "postFalse" => does[t] = "revert"
      /\ does[t] \in {"apply", "revert"}
      /\ \A u \in Thread \ {t} : pc'[u] = pc[u] /\ made'[u] = made[u]
      /\ PostsItsOwn'
  BY <1>1, MadeCopy
<1>3. does[t] = "apply" => hosts'.kind \in {"adaway", "part"}
  BY CopyHosts, FileContentIs DEF CopyHostsFile
<1>4. does[t] = "revert" => hosts'.kind = "default"
  BY CopyHosts DEF CopyHostsFile
<1>5. CASE doubtful'
  BY <1>2, <1>5, DoubtfulTells
<1>6. CASE ~doubtful'
  <2>1. \A u \in Thread : pc[u] # "idle" => does[u] = does[t]
    <3>1. CASE doubtful
      BY <1>1, <1>6, <3>1
    <3>2. CASE ~doubtful
      BY <1>1, <3>2 DEF TellsInv, SameOperation
    <3>3. QED
      BY <3>1, <3>2
  <2>2. SameOperation'
    BY <1>1, <1>2, <2>1 DEF SameOperation
  <2>3. hosts'.kind # "part" => (HostsApplied' <=> does[t] = "apply")
    BY <1>2, <1>3, <1>4 DEF HostsApplied
  <2>4. TellsRight'
    <3> SUFFICES ASSUME hosts'.kind # "part", NEW u \in Thread
                 PROVE  /\ pc'[u] = "postTrue" => HostsApplied'
                        /\ pc'[u] = "postFalse" => ~HostsApplied'
                        /\ pc'[u] = "restore" /\ made'[u] => (HostsApplied' <=> does'[u] = "apply")
      BY DEF TellsRight
    <3>1. CASE u = t
      BY <1>1, <1>2, <2>3, <3>1
    <3>2. CASE u # t
      <4>1. pc'[u] = pc[u] /\ (pc[u] # "idle" => does[u] = does[t])
        BY <1>2, <2>1, <3>2
      <4>2. /\ pc[u] = "postTrue" => does[u] # "revert"
            /\ pc[u] = "postFalse" => does[u] # "apply"
        BY DEF TellsInv, PostsItsOwn
      <4>3. QED
        BY <1>1, <1>2, <2>3, <4>1, <4>2
    <3>3. QED
      BY <3>1, <3>2
  <2>5. SomeoneTells'
    BY <1>2 DEF SomeoneTells, WillTell
  <2>6. QED
    BY <1>2, <2>2, <2>4, <2>5 DEF TellsInv
<1>7. QED
  BY <1>5, <1>6

\* A thread that remounted the partition tells whether its copy was made.
LEMMA RestoreTells ==
    ASSUME TypeOK, TellsInv, NEW t \in Thread, RemountReadOnly(t) \/ RemountReadOnlyFails(t)
    PROVE  TellsInv'
<1>1. /\ pc[t] = "restore" /\ Goes(t, AfterCopy(t, made[t]))
      /\ UNCHANGED <<hosts, does, made, status, doubtful>>
  BY DEF RemountReadOnly, RemountReadOnlyFails, Moves, disk, local, history
<1>2. CASE ~made[t]
  BY <1>1, <1>2, PlainTells DEF AfterCopy, Place
<1>3. CASE made[t]
  <2>1. does[t] \in {"apply", "revert"}
    BY <1>1 DEF TellsInv, PostsItsOwn, TypeOK, ThreadTypes
  <2>2. /\ pc'[t] = IF does[t] = "apply" THEN "postTrue" ELSE "postFalse"
        /\ \A u \in Thread \ {t} : pc'[u] = pc[u]
    BY <1>1, <1>3 DEF Goes, AfterCopy, TypeOK, ThreadTypes
  <2>3. PostsItsOwn'
    BY <1>1, <2>1, <2>2 DEF TellsInv, PostsItsOwn
  <2>4. SameOperation => SameOperation'
    BY <1>1, <2>2 DEF SameOperation
  <2>5. TellsRight => TellsRight'
    BY <1>1, <1>3, <2>2 DEF TellsRight, HostsApplied
  <2>6. SomeoneTells'
    BY <2>2 DEF SomeoneTells, WillTell
  <2>7. QED
    BY <1>1, <2>3, <2>4, <2>5, <2>6 DEF TellsInv
<1>4. QED
  BY <1>2, <1>3

LEMMA CopyTells ==
    ASSUME TypeOK, TellsInv, NEW t \in Thread, Copy(t)
    PROVE  TellsInv'
<1>1. CASE EnoughSpace(t) \/ NotEnoughSpace(t) \/ IsWritable(t) \/ RemountReadWrite(t)
  <2>1. /\ pc[t] \in {"space", "test", "remount"}
        /\ \E to \in {"test", "idle", "dd", "remount"} : Goes(t, to)
    BY <1>1 DEF EnoughSpace, NotEnoughSpace, IsWritable, RemountReadWrite, Moves
  <2>2. UNCHANGED <<hosts, does, made, status, doubtful>>
    BY <1>1 DEF EnoughSpace, NotEnoughSpace, IsWritable, RemountReadWrite, disk, local, history
  <2>3. QED
    BY <2>1, <2>2, PlainTells DEF Place
<1>2. CASE RemountFails(t) \/ CopyRefused(t) \/ CopyFails(t)
  <2>1. /\ pc[t] \in {"remount", "dd"} /\ Copies(t, FALSE) /\ UNCHANGED <<does, status>>
        /\ doubtful \in BOOLEAN /\ doubtful' = (doubtful \/ hosts'.kind # hosts.kind)
    BY <1>2 DEF RemountFails, CopyRefused, CopyFails, disk, history, TypeOK, RestTypes
  <2>2. QED
    BY <2>1, FailedCopyTells
<1>3. CASE CopyMissing(t) \/ CopyTorn(t)
  <2>1. pc[t] = "dd" /\ Copies(t, TRUE) /\ does' = does /\ doubtful' = TRUE
    BY <1>3 DEF CopyMissing, CopyTorn
  <2>2. QED
    BY <2>1, MadeCopy, DoubtfulTells
<1>4. QED
  BY <1>1, <1>2, <1>3, CopyHostsTells, RestoreTells DEF Copy

\* The value posted is what the file is.
LEMMA PostValueTells ==
    ASSUME TypeOK, TellsInv, NEW t \in Thread, PostValue(t)
    PROVE  TellsInv'
<1>1. /\ pc[t] \in {"postTrue", "postFalse"} /\ pc'[t] = "idle"
      /\ \A u \in Thread \ {t} : pc'[u] = pc[u]
      /\ posted' = (pc[t] = "postTrue")
      /\ UNCHANGED <<hosts, does, made, doubtful>>
  BY DEF PostValue, Goes, disk, local, history, TypeOK, ThreadTypes
<1>2. PostsItsOwn'
  BY <1>1 DEF TellsInv, PostsItsOwn
<1>3. SameOperation => SameOperation'
  BY <1>1 DEF SameOperation
<1>4. TellsRight => TellsRight'
  BY <1>1 DEF TellsRight, HostsApplied
<1>5. TellsRight => SomeoneTells'
  <2> SUFFICES ASSUME TellsRight, hosts'.kind # "part"
               PROVE  Told' = HostsApplied'
    BY DEF SomeoneTells
  <2>1. Told' = (pc[t] = "postTrue")
    <3>1. (pc[t] = "postTrue") \in BOOLEAN
      OBVIOUS
    <3>2. posted' # None
      BY <1>1, <3>1, RootAssumption
    <3>3. QED
      BY <1>1, <3>2 DEF Told
  <2>2. (pc[t] = "postTrue") <=> HostsApplied'
    BY <1>1 DEF TellsRight, HostsApplied
  <2>3. QED
    BY <2>1, <2>2 DEF HostsApplied
<1>6. QED
  BY <1>1, <1>2, <1>3, <1>4, <1>5 DEF TellsInv

LEMMA CheckTells ==
    ASSUME TypeOK, TellsInv, CheckApplied \/ CheckFails
    PROVE  TellsInv'
<1>1. Disk \in Thread
  BY DEF Thread
<1>2. /\ pc[Disk] = "head" /\ pc'[Disk] \in {"postTrue", "postFalse"}
      /\ \A u \in Thread \ {Disk} : pc'[u] = pc[u]
      /\ UNCHANGED <<hosts, does, made, status>>
  BY <1>1 DEF CheckApplied, CheckFails, Moves, Goes, disk, local, TypeOK, ThreadTypes
<1>3. PostsItsOwn'
  BY <1>1, <1>2 DEF TellsInv, PostsItsOwn
<1>4. CASE CheckFails
  BY <1>3, <1>4, DoubtfulTells DEF CheckFails
<1>5. CASE CheckApplied
  <2>1. doubtful' = doubtful /\ (hosts.kind # "part" => (pc'[Disk] = "postTrue" <=> HostsApplied))
    BY <1>1, <1>5 DEF CheckApplied, Goes, HostsApplied, history, TypeOK, ThreadTypes
  <2>2. SameOperation => SameOperation'
    BY <1>1, <1>2 DEF SameOperation
  <2>3. TellsRight => TellsRight'
    BY <1>2, <2>1 DEF TellsRight, HostsApplied
  <2>4. SomeoneTells'
    BY <1>1, <1>2 DEF SomeoneTells, WillTell
  <2>5. QED
    BY <1>3, <2>1, <2>2, <2>3, <2>4 DEF TellsInv
<1>6. QED
  BY <1>4, <1>5

\* The next process checks first.
LEMMA KillTells == TypeOK /\ Kill => TellsInv'
<1> SUFFICES ASSUME TypeOK, Kill PROVE TellsInv'
  OBVIOUS
<1>1. Disk \in Thread
  BY DEF Thread
<1>2. /\ pc'[Disk] = "head" /\ does'[Disk] = "check"
      /\ \A u \in Thread \ {Disk} : pc'[u] = "idle"
  BY <1>1 DEF Kill, AtStart
<1>3. PostsItsOwn' /\ SameOperation' /\ TellsRight' /\ SomeoneTells'
  BY <1>1, <1>2 DEF PostsItsOwn, SameOperation, TellsRight, SomeoneTells, WillTell
<1>4. QED
  BY <1>3 DEF TellsInv

LEMMA NextTells == TypeOK /\ TellsInv /\ [Next]_vars => TellsInv'
<1> SUFFICES ASSUME TypeOK, TellsInv, [Next]_vars PROVE TellsInv'
  OBVIOUS
<1>1. CASE SyncHostEntries \/ UNCHANGED vars
  BY <1>1 DEF SyncHostEntries, vars, disk, local, status, history, TellsInv, PostsItsOwn, SameOperation,
              TellsRight, SomeoneTells, WillTell, Told, HostsApplied
<1>2. CASE SetValue
  <2>1. Told' = Told
    BY <1>2 DEF SetValue, Told
  <2>2. QED
    BY <1>2, <2>1 DEF SetValue, disk, local, history, TellsInv, PostsItsOwn, SameOperation, TellsRight,
                      SomeoneTells, WillTell, HostsApplied
<1>3. ASSUME NEW t \in Thread, CreateNewHostsFile(t) \/ CreateDefault(t) \/ CreateDefaultFails(t)
      PROVE  TellsInv'
  <2>1. /\ pc[t] \in {"delete", "open", "read", "close", "default"}
        /\ \E to \in {"open", "read", "close", "space", "idle"} : Goes(t, to)
    BY <1>3, CreateOrder
       DEF CreateNewHostsFile, DeleteNewHostsFile, OpenFileOutput, GetAll, Close, CreateFails,
           CreateDefault, CreateDefaultFails, Moves
  <2>2. UNCHANGED <<hosts, does, made, status, doubtful>>
    BY <1>3 DEF CreateNewHostsFile, DeleteNewHostsFile, OpenFileOutput, GetAll, Close, CreateFails,
                CreateDefault, CreateDefaultFails, disk, local, history
  <2>3. QED
    BY <2>1, <2>2, PlainTells DEF Place
<1>4. QED
  BY <1>1, <1>2, <1>3, CheckTells, KillTells, BeginTells, CopyTells, PostValueTells DEF Next

\* Who copied the hosts file alone, or checked it at the start, posts a value that is
\* right, and no other post comes after it that is wrong, as long as applies overlap with
\* applies only and dd, chown and chmod fail together or leave a file of the same kind:
\* once all is quiet isApplied tells what a whole hosts file is (RootModel.applied).
THEOREM AppliedTellsTheorem == Spec => []AppliedTells
<1>1. Init => TellsInv
  <2> SUFFICES ASSUME Init PROVE TellsInv
    OBVIOUS
  <2>1. /\ Disk \in Thread /\ pc[Disk] = "head" /\ does[Disk] = "check"
        /\ \A u \in Thread \ {Disk} : pc[u] = "idle"
    BY DEF Init, AtStart, Thread
  <2>2. PostsItsOwn /\ SameOperation /\ TellsRight /\ SomeoneTells
    BY <2>1 DEF PostsItsOwn, SameOperation, TellsRight, SomeoneTells, WillTell
  <2>3. QED
    BY <2>2 DEF TellsInv
<1>2. TellsInv => AppliedTells
  BY DEF TellsInv, SomeoneTells, WillTell, Told, HostsApplied, AppliedTells, Quiet
<1>3. QED
  BY <1>1, <1>2, Types, NextTells, PTL DEF Spec

-----------------------------------------------------------------------------
(* The web server: sequences, of which streams and buffers are made.       *)

\* A connection stays one when a queue, a flag or what it asked for is set.
LEMMA QueuesTyped ==
  ASSUME NEW k \in Connection
  PROVE  /\ \A x \in Seq(Fragment) : /\ [k EXCEPT !.in = x] \in Connection
                                     /\ [k EXCEPT !.recv = x] \in Connection
                                     /\ [k EXCEPT !.rtls = x] \in Connection
         /\ \A x \in Seq(Unit) : /\ [k EXCEPT !.out = x] \in Connection
                                 /\ [k EXCEPT !.send = x] \in Connection
                                 /\ [k EXCEPT !.tlsSend = x] \in Connection
                                 /\ [k EXCEPT !.got = x] \in Connection
<1>1. ASSUME NEW x \in Seq(Fragment)
      PROVE  [k EXCEPT !.in = x] \in Connection
  BY Zenon DEF Connection
<1>2. ASSUME NEW x \in Seq(Fragment)
      PROVE  [k EXCEPT !.recv = x] \in Connection
  BY Zenon DEF Connection
<1>3. ASSUME NEW x \in Seq(Fragment)
      PROVE  [k EXCEPT !.rtls = x] \in Connection
  BY Zenon DEF Connection
<1>4. ASSUME NEW x \in Seq(Unit)
      PROVE  [k EXCEPT !.out = x] \in Connection
  BY Zenon DEF Connection
<1>5. ASSUME NEW x \in Seq(Unit)
      PROVE  [k EXCEPT !.send = x] \in Connection
  BY Zenon DEF Connection
<1>6. ASSUME NEW x \in Seq(Unit)
      PROVE  [k EXCEPT !.tlsSend = x] \in Connection
  BY Zenon DEF Connection
<1>7. ASSUME NEW x \in Seq(Unit)
      PROVE  [k EXCEPT !.got = x] \in Connection
  BY Zenon DEF Connection
<1> QED
  BY <1>1, <1>2, <1>3, <1>4, <1>5, <1>6, <1>7, Zenon

\* The same of its flags, and of what is left to stream.
LEMMA FlagsTyped ==
  ASSUME NEW k \in Connection
  PROVE  /\ \A x \in BOOLEAN : /\ [k EXCEPT !.is_resp = x] \in Connection
                               /\ [k EXCEPT !.is_draining = x] \in Connection
                               /\ [k EXCEPT !.is_closing = x] \in Connection
                               /\ [k EXCEPT !.is_readable = x] \in Connection
                               /\ [k EXCEPT !.is_writable = x] \in Connection
                               /\ [k EXCEPT !.shaken = x] \in Connection
         /\ \A x \in 0 .. NoFile : [k EXCEPT !.file = x] \in Connection
<1>1. ASSUME NEW x \in BOOLEAN
      PROVE  [k EXCEPT !.is_resp = x] \in Connection
  BY Zenon DEF Connection
<1>2. ASSUME NEW x \in BOOLEAN
      PROVE  [k EXCEPT !.is_draining = x] \in Connection
  BY Zenon DEF Connection
<1>3. ASSUME NEW x \in BOOLEAN
      PROVE  [k EXCEPT !.is_closing = x] \in Connection
  BY Zenon DEF Connection
<1>4. ASSUME NEW x \in BOOLEAN
      PROVE  [k EXCEPT !.is_readable = x] \in Connection
  BY Zenon DEF Connection
<1>5. ASSUME NEW x \in BOOLEAN
      PROVE  [k EXCEPT !.is_writable = x] \in Connection
  BY Zenon DEF Connection
<1>6. ASSUME NEW x \in BOOLEAN
      PROVE  [k EXCEPT !.shaken = x] \in Connection
  BY Zenon DEF Connection
<1>7. ASSUME NEW x \in 0 .. NoFile
      PROVE  [k EXCEPT !.file = x] \in Connection
  BY Zenon DEF Connection
<1> QED
  BY <1>1, <1>2, <1>3, <1>4, <1>5, <1>6, <1>7, Zenon

\* And of what its client sent.
LEMMA SentTyped ==
  ASSUME NEW k \in Connection
  PROVE  /\ \A x \in Seq(Kind) : [k EXCEPT !.sent = x] \in Connection
         /\ \A x \in 1 .. 2 : [k EXCEPT !.last = x] \in Connection
<1>1. \A x \in Seq(Kind) : [k EXCEPT !.sent = x] \in Connection
  BY Zenon DEF Connection
<1>2. \A x \in 1 .. 2 : [k EXCEPT !.last = x] \in Connection
  BY Zenon DEF Connection
<1> QED
  BY <1>1, <1>2, Zenon

\* q is what is left of p when its first n elements are gone.
IsRest(q, p, n) ==
    /\ n \in 0 .. Len(p)
    /\ Len(q) = Len(p) - n
    /\ \A i \in 1 .. Len(q) : q[i] = p[i + n]

\* t goes on where s ends.
Extends(t, s) ==
    /\ Len(s) <= Len(t)
    /\ \A i \in 1 .. Len(s) : t[i] = s[i]

LessThan == {pair \in Nat \X Nat : pair[1] < pair[2]}

\* Induction over the naturals, in the form of the least of a set.
LEMMA LessThanWellFounded == IsWellFoundedOn(LessThan, Nat)
<1>1. IsWellFoundedOn(OpToRel(<, Nat), Nat)
  BY NatLessThanWellFounded
<1>2. OpToRel(<, Nat) = LessThan
  BY Zenon DEF OpToRel, LessThan
<1> QED
  BY <1>1, <1>2, Zenon

\* A set of naturals has a least.
LEMMA LeastNatural ==
  ASSUME NEW S \in SUBSET Nat, NEW n \in S
  PROVE  \E m \in S : \A i \in S : m <= i
<1>1. PICK x \in S : \A y \in S : ~(<<y, x>> \in LessThan)
  BY LessThanWellFounded, WFMin
<1>2. ASSUME NEW y \in S PROVE x <= y
  <2>1. <<y, x>> \in Nat \X Nat /\ <<y, x>>[1] = y /\ <<y, x>>[2] = x
    OBVIOUS
  <2>2. ~(y < x)
    BY <2>1, <1>1, Zenon DEF LessThan
  <2> QED
    BY <2>2
<1> QED
  BY <1>2

\* Elements and indices of a sequence.
LEMMA Indexes ==
  ASSUME NEW S, NEW s \in Seq(S)
  PROVE  /\ Len(s) \in Nat /\ DOMAIN s = 1 .. Len(s)
         /\ \A i \in DOMAIN s : s[i] \in S
         /\ s = <<>> <=> Len(s) = 0
<1> QED
  BY LenProperties, ElementOfSeq, EmptySeq

\* The first n elements of b, and the others.
LEMMA CutAt ==
  ASSUME NEW S, NEW b \in Seq(S), NEW n \in 0 .. Len(b)
  PROVE  /\ SubSeq(b, 1, n) \in Seq(S) /\ Len(SubSeq(b, 1, n)) = n
         /\ SubSeq(b, n + 1, Len(b)) \in Seq(S) /\ Len(SubSeq(b, n + 1, Len(b))) = Len(b) - n
         /\ SubSeq(b, 1, n) \o SubSeq(b, n + 1, Len(b)) = b
<1>1. Len(b) \in Nat /\ \A i \in 1 .. Len(b) : b[i] \in S
  BY Indexes
<1>2. SubSeq(b, 1, n) \in Seq(S) /\ Len(SubSeq(b, 1, n)) = n
  <2>1. \A i \in 1 .. n : b[i] \in S
    BY <1>1
  <2> QED
    BY <1>1, <2>1, SubSeqProperties
<1>3. SubSeq(b, n + 1, Len(b)) \in Seq(S) /\ Len(SubSeq(b, n + 1, Len(b))) = Len(b) - n
  <2>1. \A i \in n + 1 .. Len(b) : b[i] \in S
    BY <1>1
  <2> QED
    BY <1>1, <2>1, SubSeqProperties
<1>4. SubSeq(b, 1, n) \o SubSeq(b, n + 1, Len(b)) = b
  <2>1. SubSeq(b, 1, n) \o SubSeq(b, n + 1, Len(b)) = SubSeq(b, 1, Len(b))
    <3>1. 1 \in 1 .. Len(b) + 1 /\ n \in 1 - 1 .. Len(b) /\ Len(b) \in n .. Len(b)
      BY <1>1
    <3> QED
      BY <3>1, ConcatAdjacentSubSeq, Zenon
  <2> QED
    BY <2>1, SubSeqFull
<1> QED
  BY <1>2, <1>3, <1>4

Regroups(a, b, d) == (a \o b) \o d = a \o (b \o d)

\* Concatenation, in the form it is instantiated.
LEMMA Associated ==
  ASSUME NEW S
  PROVE  \A a, b, d \in Seq(S) : Regroups(a, b, d)
<1> QED
  BY ConcatAssociative DEF Regroups

Joined(a, b, x, y) == (a \o (b \o x)) \o y = (a \o b) \o (x \o y)

\* Four sequences in a row, whatever is joined first.
LEMMA JoinedInARow ==
  ASSUME NEW S, NEW a \in Seq(S), NEW b \in Seq(S), NEW x \in Seq(S), NEW y \in Seq(S)
  PROVE  Joined(a, b, x, y)
<1>1. a \o b \in Seq(S)
  BY ConcatProperties
<1>2. Regroups(a, b, x) /\ Regroups(a \o b, x, y)
  BY <1>1, Associated, Zenon
<1> QED
  BY <1>2, Zenon DEF Regroups, Joined

\* The first n elements of d are moved to the end of b, which gives bx and leaves y: in a
\* row with what comes before b nothing changes.
Moved(S, a, b, d, n, bx, y) ==
    /\ bx \in Seq(S) /\ Len(bx) = Len(b) + n
    /\ y \in Seq(S) /\ Len(y) = Len(d) - n
    /\ (a \o bx) \o y = (a \o b) \o d

\* The first n units of d are moved to the end of b: in a row with a nothing changes.
LEMMA MovedUnits ==
  ASSUME NEW S, NEW a \in Seq(S), NEW b \in Seq(S), NEW d \in Seq(S), NEW n \in 0 .. Len(d)
  PROVE  Moved(S, a, b, d, n, b \o SubSeq(d, 1, n), SubSeq(d, n + 1, Len(d)))
<1> DEFINE x == SubSeq(d, 1, n)
           y == SubSeq(d, n + 1, Len(d))
           bx == b \o x
<1>1. x \in Seq(S) /\ Len(x) = n /\ y \in Seq(S) /\ Len(y) = Len(d) - n /\ x \o y = d /\ bx = b \o x
  BY CutAt, Zenon
<1> HIDE DEF x, y, bx
<1>2. bx \in Seq(S) /\ Len(bx) = Len(b) + n
  BY <1>1, ConcatProperties
<1>3. x \in Seq(S) /\ y \in Seq(S) /\ Len(y) = Len(d) - n
  BY <1>1
<1>4. Joined(a, b, x, y)
  BY <1>3, JoinedInARow
<1>5. (a \o bx) \o y = (a \o b) \o d
  BY <1>1, <1>4, Zenon DEF Joined
<1> QED
  BY <1>2, <1>3, <1>5 DEF Moved, bx, x, y

\* Three sequences in a row begin with the first.
LEMMA InARow ==
  ASSUME NEW S, NEW a \in Seq(S), NEW b \in Seq(S), NEW d \in Seq(S)
  PROVE  /\ Len(a \o b \o d) = Len(a) + Len(b) + Len(d)
         /\ \A i \in 1 .. Len(a) : (a \o b \o d)[i] = a[i]
<1>1. Len(a) \in Nat /\ Len(b) \in Nat /\ Len(d) \in Nat
  BY Indexes
<1>2. /\ a \o b \in Seq(S) /\ Len(a \o b) = Len(a) + Len(b)
      /\ \A i \in 1 .. Len(a) + Len(b) : (a \o b)[i] = IF i <= Len(a) THEN a[i] ELSE b[i - Len(a)]
  BY ConcatProperties
<1>3. /\ Len((a \o b) \o d) = Len(a \o b) + Len(d)
      /\ \A i \in 1 .. Len(a \o b) + Len(d) :
            ((a \o b) \o d)[i] = IF i <= Len(a \o b) THEN (a \o b)[i] ELSE d[i - Len(a \o b)]
  BY <1>2, ConcatProperties
<1> QED
  BY <1>1, <1>2, <1>3

\* Dropping the first n elements of a drops them from a and b and d in a row.
LEMMA CutFirst ==
  ASSUME NEW S, NEW a \in Seq(S), NEW b \in Seq(S), NEW d \in Seq(S), NEW n \in 0 .. Len(a)
  PROVE  IsRest(SubSeq(a, n + 1, Len(a)) \o b \o d, a \o b \o d, n)
<1> DEFINE r == SubSeq(a, n + 1, Len(a))
<1>1. Len(a) \in Nat /\ Len(b) \in Nat /\ Len(d) \in Nat
  BY Indexes
<1>2. /\ r \in Seq(S) /\ Len(r) = Len(a) - n
      /\ \A i \in 1 .. Len(a) - n : r[i] = a[i + n]
  <2>1. \A i \in n + 1 .. Len(a) : a[i] \in S
    BY Indexes
  <2>2. /\ r \in Seq(S)
        /\ Len(r) = IF n + 1 <= Len(a) THEN Len(a) - (n + 1) + 1 ELSE 0
        /\ \A i \in 1 .. Len(a) - (n + 1) + 1 : r[i] = a[(n + 1) + i - 1]
    BY <1>1, <2>1, SubSeqProperties
  <2> QED
    BY <1>1, <2>2
<1> HIDE DEF r
<1>3. /\ r \o b \in Seq(S) /\ Len(r \o b) = Len(r) + Len(b)
      /\ \A i \in 1 .. Len(r) + Len(b) : (r \o b)[i] = IF i <= Len(r) THEN r[i] ELSE b[i - Len(r)]
  BY <1>2, ConcatProperties
<1>4. /\ a \o b \in Seq(S) /\ Len(a \o b) = Len(a) + Len(b)
      /\ \A i \in 1 .. Len(a) + Len(b) : (a \o b)[i] = IF i <= Len(a) THEN a[i] ELSE b[i - Len(a)]
  BY ConcatProperties
<1>5. /\ Len((r \o b) \o d) = Len(r \o b) + Len(d)
      /\ \A i \in 1 .. Len(r \o b) + Len(d) :
            ((r \o b) \o d)[i] = IF i <= Len(r \o b) THEN (r \o b)[i] ELSE d[i - Len(r \o b)]
  BY <1>3, ConcatProperties
<1>6. /\ Len((a \o b) \o d) = Len(a \o b) + Len(d)
      /\ \A i \in 1 .. Len(a \o b) + Len(d) :
            ((a \o b) \o d)[i] = IF i <= Len(a \o b) THEN (a \o b)[i] ELSE d[i - Len(a \o b)]
  BY <1>4, ConcatProperties
<1>7. Len((r \o b) \o d) = Len((a \o b) \o d) - n
  BY <1>1, <1>2, <1>3, <1>4, <1>5, <1>6
<1>8. ASSUME NEW i \in 1 .. Len((r \o b) \o d)
      PROVE  ((r \o b) \o d)[i] = ((a \o b) \o d)[i + n]
  <2>1. CASE i <= Len(r)
    BY <2>1, <1>1, <1>2, <1>3, <1>4, <1>5, <1>6
  <2>2. CASE i > Len(r) /\ i <= Len(r) + Len(b)
    BY <2>2, <1>1, <1>2, <1>3, <1>4, <1>5, <1>6
  <2>3. CASE i > Len(r) + Len(b)
    BY <2>3, <1>1, <1>2, <1>3, <1>4, <1>5, <1>6
  <2>4. i \in Nat /\ Len(r) \in Nat
    BY <1>1, <1>2, <1>3, <1>5
  <2>5. i <= Len(r) \/ (i > Len(r) /\ i <= Len(r) + Len(b)) \/ i > Len(r) + Len(b)
    BY <2>4, <1>1
  <2> QED
    BY <2>1, <2>2, <2>3, <2>5, Zenon
<1>9. n \in 0 .. Len((a \o b) \o d)
  BY <1>1, <1>4, <1>6
<1> QED
  BY <1>7, <1>8, <1>9 DEF IsRest, r

-----------------------------------------------------------------------------
\* What was read, decrypted or not, or waits in the kernel: in the order it was sent.
Waiting(k) == k.recv \o k.rtls \o k.in

Before(f, g) == f.id < g.id \/ (f.id = g.id /\ f.part = 1 /\ g.part = 2)

Has(q, m, part) == \E i \in DOMAIN q : q[i].id = m /\ q[i].part = part

HasHeader(s, m) == \E h \in Headers(s) : s[h].id = m

\* A part is of the handshake, or of a request that was sent.
Known(k, f) ==
    IF f.id = 0 THEN f \in {Hello, Finished}
    ELSE f.id <= Len(k.sent) /\ f.kind = k.sent[f.id] /\ (f.part = 2 => f.kind \in InTwoParts)

\* Of request m the body was sent, and not lost when its client left.
Due(k, q, m) ==
    \/ \E j \in DOMAIN q : q[j].id > m
    \/ k.client # "gone" /\ (k.last = 2 \/ m < Len(k.sent))

\* What waits is in order, and of each request whole, but for those sent in part only
\* and those whose headers were dropped with a malformed request.
Queued(k, q) ==
    /\ \A i, j \in DOMAIN q : i < j => Before(q[i], q[j])
    /\ \A i \in DOMAIN q : Known(k, q[i])
    /\ \A i \in DOMAIN q : q[i].part = 2 => Has(q, q[i].id, 1) \/ Malforms(k, q[i].id)
    /\ \A i \in DOMAIN q :
          q[i].part = 1 /\ q[i].kind \in InTwoParts /\ Due(k, q, q[i].id) => Has(q, q[i].id, 2)
    /\ k.last = 1 =>
          k.sent # <<>> /\ k.sent[Len(k.sent)] \in InTwoParts /\ ~Has(q, Len(k.sent), 2)

Lost(k, q, m) == k.client = "gone" /\ \A i \in DOMAIN q : q[i].id < m

\* A request sent is answered, dropped with a malformed one, still waiting, or lost, and
\* those that wait come after those answered.
Passed(k, q, s) ==
    /\ \A h \in Headers(s), i \in DOMAIN q : q[i].part = 1 => s[h].id < q[i].id
    /\ \A m \in DOMAIN k.sent :
          HasHeader(s, m) \/ Malforms(k, m) \/ Has(q, m, 1) \/ Lost(k, q, m)
    /\ k.last = 1 => ~HasHeader(s, Len(k.sent))

InOrder(k, s) ==
    /\ \A h \in Headers(s) : s[h].id \in 1 .. Len(k.sent)
    /\ \A h, i \in Headers(s) : h < i => s[h].id < s[i].id
    /\ \A i \in Headers(s) : \A m \in 1 .. s[i].id : HasHeader(s, m) \/ Malforms(k, m)

WellFramed(s) ==
    /\ \A j \in DOMAIN s : s[j] = Flight => j = 1
    /\ \A j \in DOMAIN s : s[j] = Body => \E h \in Headers(s) : h < j /\ j <= Ends(s, h)
    /\ \A h, i \in Headers(s) : h < i => Ends(s, h) < i

\* Of the last answer n units are not written yet.
Owes(s, n) ==
    /\ \A h \in Headers(s) : Ends(s, h) >= Len(s) => Ends(s, h) - Len(s) = n
    /\ n > 0 => \E h \in Headers(s) : Ends(s, h) = Len(s) + n

Rest(k) == IF Streaming(k) THEN k.file ELSE 0

\* All requests up to the one that closes the connection were answered in whole.
Drains(k, s) ==
    k.is_draining =>
        \E i \in DOMAIN k.sent :
            /\ k.sent[i] \in {"bad", "close"}
            /\ \A j \in 1 .. i : k.sent[j] = "bad" \/ AnsweredTo(s, j)

-----------------------------------------------------------------------------
\* What waits stays in order when its first units are taken, if no body is left
\* without its headers but those of malformed requests.
LEMMA QueuedRest ==
  ASSUME NEW k, NEW q \in Seq(Fragment), NEW r \in Seq(Fragment), NEW n \in Nat,
         Queued(k, q), IsRest(r, q, n),
         \A i \in 1 .. n : Malforms(k, q[i].id) \/ ~Has(r, q[i].id, 2)
  PROVE  Queued(k, r)
<1>1. /\ Len(q) \in Nat /\ DOMAIN q = 1 .. Len(q) /\ Len(r) \in Nat /\ DOMAIN r = 1 .. Len(r)
      /\ Len(r) = Len(q) - n /\ n \in 0 .. Len(q)
  BY Indexes DEF IsRest
<1>2. \A i \in DOMAIN r : i + n \in DOMAIN q /\ r[i] = q[i + n]
  BY <1>1 DEF IsRest
<1>3. \A j \in DOMAIN q : j > n => j - n \in DOMAIN r /\ r[j - n] = q[j]
  BY <1>1, <1>2
<1>4. \A i \in DOMAIN q : q[i] \in Fragment
  BY Indexes
<1>5. \A i, j \in DOMAIN r : i < j => Before(r[i], r[j])
  <2> TAKE i, j \in DOMAIN r
  <2> HAVE i < j
  <2>1. i + n \in DOMAIN q /\ j + n \in DOMAIN q /\ i + n < j + n
    BY <1>1, <1>2
  <2>2. Before(q[i + n], q[j + n])
    BY <2>1 DEF Queued
  <2> QED
    BY <2>2, <1>2
<1>6. \A i \in DOMAIN r : Known(k, r[i])
  BY <1>2 DEF Queued
<1>7. \A i \in DOMAIN r : r[i].part = 2 => Has(r, r[i].id, 1) \/ Malforms(k, r[i].id)
  <2> TAKE i \in DOMAIN r
  <2> HAVE r[i].part = 2
  <2>1. CASE Has(q, q[i + n].id, 1)
    <3>1. PICK j \in DOMAIN q : q[j].id = r[i].id /\ q[j].part = 1
      BY <2>1, <1>2 DEF Has
    <3>2. CASE j > n
      BY <3>1, <3>2, <1>3 DEF Has
    <3>3. CASE j <= n
      <4>1. Has(r, q[j].id, 2)
        BY <3>1 DEF Has
      <4>2. j \in 1 .. n
        BY <3>3, <1>1
      <4> QED
        BY <4>1, <4>2, <3>1
    <3> QED
      BY <3>2, <3>3, <1>1
  <2> QED
    BY <2>1, <1>2 DEF Queued
<1>8. \A i \in DOMAIN r :
          r[i].part = 1 /\ r[i].kind \in InTwoParts /\ Due(k, r, r[i].id) => Has(r, r[i].id, 2)
  <2> TAKE i \in DOMAIN r
  <2> HAVE r[i].part = 1 /\ r[i].kind \in InTwoParts /\ Due(k, r, r[i].id)
  <2>1. Due(k, q, r[i].id)
    BY <1>2 DEF Due
  <2>2. PICK j \in DOMAIN q : q[j].id = r[i].id /\ q[j].part = 2
    BY <2>1, <1>2 DEF Queued, Has
  <2>3. j > n
    <3> SUFFICES ASSUME j <= n PROVE FALSE
      BY <1>1
    <3>1. i + n \in DOMAIN q /\ j < i + n
      BY <1>1, <1>2
    <3>2. Before(q[j], q[i + n])
      BY <3>1 DEF Queued
    <3>3. q[j].id \in Nat /\ q[i + n].id = q[j].id
      BY <1>2, <1>4, <2>2 DEF Fragment
    <3> QED
      BY <3>2, <3>3, <2>2 DEF Before
  <2> QED
    BY <2>2, <2>3, <1>3 DEF Has
<1>9. k.last = 1 =>
          k.sent # <<>> /\ k.sent[Len(k.sent)] \in InTwoParts /\ ~Has(r, Len(k.sent), 2)
  BY <1>2 DEF Queued, Has
<1> QED
  BY <1>5, <1>6, <1>7, <1>8, <1>9 DEF Queued

\* No request is forgotten when the first units are taken: theirs are answered, or
\* malformed.
LEMMA PassedRest ==
  ASSUME NEW k, NEW q \in Seq(Fragment), NEW r \in Seq(Fragment), NEW n \in Nat,
         NEW s, NEW t,
         Passed(k, q, s), IsRest(r, q, n),
         \A m \in Nat : HasHeader(s, m) => HasHeader(t, m),
         \A i \in 1 .. n : q[i].part = 1 => HasHeader(t, q[i].id) \/ Malforms(k, q[i].id),
         \A h \in Headers(t), i \in DOMAIN r : r[i].part = 1 => t[h].id < r[i].id,
         k.last = 1 => ~HasHeader(t, Len(k.sent)), k.sent \in Seq(Kind)
  PROVE  Passed(k, r, t)
<1>1. /\ Len(q) \in Nat /\ DOMAIN q = 1 .. Len(q) /\ Len(r) \in Nat /\ DOMAIN r = 1 .. Len(r)
      /\ Len(r) = Len(q) - n /\ n \in 0 .. Len(q) /\ DOMAIN k.sent \subseteq Nat
  BY Indexes DEF IsRest
<1>2. \A i \in DOMAIN r : i + n \in DOMAIN q /\ r[i] = q[i + n]
  BY <1>1 DEF IsRest
<1>3. \A j \in DOMAIN q : j > n => j - n \in DOMAIN r /\ r[j - n] = q[j]
  BY <1>1, <1>2
<1>4. ASSUME NEW m \in DOMAIN k.sent
      PROVE  HasHeader(t, m) \/ Malforms(k, m) \/ Has(r, m, 1) \/ Lost(k, r, m)
  <2>1. CASE HasHeader(s, m)
    BY <2>1, <1>1
  <2>2. CASE Has(q, m, 1)
    <3>1. PICK j \in DOMAIN q : q[j].id = m /\ q[j].part = 1
      BY <2>2 DEF Has
    <3>2. CASE j > n
      BY <3>1, <3>2, <1>3 DEF Has
    <3>3. CASE j <= n
      BY <3>1, <3>3, <1>1
    <3> QED
      BY <3>2, <3>3, <1>1
  <2>3. CASE Lost(k, q, m)
    BY <2>3, <1>2 DEF Lost
  <2> QED
    BY <2>1, <2>2, <2>3 DEF Passed
<1> QED
  BY <1>4 DEF Passed

\* Indices of units, and of headers among them.
LEMMA Units ==
  ASSUME NEW s \in Seq(Unit)
  PROVE  /\ Len(s) \in Nat /\ DOMAIN s = 1 .. Len(s)
         /\ \A i \in DOMAIN s : s[i].id \in Nat /\ s[i].len \in Nat
         /\ Headers(s) \subseteq Nat
         /\ \A h \in Headers(s) : h \in 1 .. Len(s) /\ s[h].id \in Nat /\ Ends(s, h) \in Nat /\ Ends(s, h) >= h
<1>1. Len(s) \in Nat /\ DOMAIN s = 1 .. Len(s) /\ \A i \in DOMAIN s : s[i] \in Unit
  BY Indexes
<1>2. \A i \in DOMAIN s : s[i].id \in Nat /\ s[i].len \in Nat
  BY <1>1, WebServerAssumption DEF Unit
<1> QED
  BY <1>1, <1>2 DEF Headers, Ends

\* What a stream says of its headers is kept when it goes on.
LEMMA HeadersKept ==
  ASSUME NEW s \in Seq(Unit), NEW t \in Seq(Unit), Extends(t, s)
  PROVE  /\ Len(s) <= Len(t)
         /\ \A i \in DOMAIN s : i \in DOMAIN t /\ t[i] = s[i]
         /\ \A h \in Headers(s) : h \in Headers(t) /\ t[h] = s[h] /\ Ends(t, h) = Ends(s, h)
         /\ \A h \in Headers(t) : h \notin Headers(s) => h > Len(s)
         /\ \A m : HasHeader(s, m) => HasHeader(t, m)
         /\ \A m : AnsweredTo(s, m) => AnsweredTo(t, m)
<1>1. Len(s) \in Nat /\ DOMAIN s = 1 .. Len(s) /\ Len(t) \in Nat /\ DOMAIN t = 1 .. Len(t)
  BY Units
<1>2. \A i \in DOMAIN s : i \in DOMAIN t /\ t[i] = s[i]
  BY <1>1 DEF Extends
<1>3. \A h \in Headers(s) : h \in Headers(t) /\ t[h] = s[h] /\ Ends(t, h) = Ends(s, h)
  BY <1>2 DEF Headers, Ends
<1>4. \A h \in Headers(t) : h \notin Headers(s) => h > Len(s)
  BY <1>1, <1>2 DEF Headers
<1>5. \A m : HasHeader(s, m) => HasHeader(t, m)
  BY <1>3 DEF HasHeader
<1>6. \A m : AnsweredTo(s, m) => AnsweredTo(t, m)
  <2> SUFFICES ASSUME NEW m, AnsweredTo(s, m) PROVE AnsweredTo(t, m)
    OBVIOUS
  <2>1. PICK h \in Headers(s) : s[h].id = m /\ Ends(s, h) <= Len(s)
    BY DEF AnsweredTo
  <2>2. h \in Headers(t) /\ t[h].id = m /\ Ends(t, h) <= Len(s) /\ Ends(t, h) \in Nat
    BY <2>1, <1>3, Units
  <2>3. Ends(t, h) <= Len(t)
    BY <2>2, <1>1 DEF Extends
  <2> QED
    BY <2>2, <2>3 DEF AnsweredTo
<1> QED
  BY <1>2, <1>3, <1>4, <1>5, <1>6 DEF Extends

\* What was answered in whole is so when more is written.
LEMMA DrainsKept ==
  ASSUME NEW k, NEW l, NEW s \in Seq(Unit), NEW t \in Seq(Unit), Extends(t, s),
         l.sent = k.sent, l.is_draining = k.is_draining, Drains(k, s)
  PROVE  Drains(l, t)
<1>1. CASE k.is_draining
  <2>1. PICK i \in DOMAIN k.sent :
            /\ k.sent[i] \in {"bad", "close"}
            /\ \A j \in 1 .. i : k.sent[j] = "bad" \/ AnsweredTo(s, j)
    BY <1>1 DEF Drains
  <2>2. \A j \in 1 .. i : l.sent[j] = "bad" \/ AnsweredTo(t, j)
    BY <2>1, HeadersKept
  <2> QED
    BY <2>1, <2>2 DEF Drains
<1>2. CASE ~k.is_draining
  BY <1>2 DEF Drains
<1> QED
  BY <1>1, <1>2

\* After s, t has a header that announces n units, and m of them.
Announces(t, s, id, n, m) ==
    /\ Extends(t, s) /\ Len(t) = Len(s) + 1 + m
    /\ t[Len(s) + 1] = Header(id, n)
    /\ \A i \in Len(s) + 2 .. Len(t) : t[i] = Body

\* A whole answer was written before it: the header of the next, and m of its n units.
LEMMA HeaderAdded ==
  ASSUME NEW s \in Seq(Unit), NEW t \in Seq(Unit), NEW id \in Nat,
         NEW n \in 0 .. FileSize, NEW m \in 0 .. n,
         Announces(t, s, id, n, m), WellFramed(s), Owes(s, 0)
  PROVE  /\ WellFramed(t) /\ Owes(t, n - m)
         /\ Headers(t) = Headers(s) \cup {Len(s) + 1}
<1> DEFINE e == Len(s) + 1
<1> USE DEF Announces
<1>1. Len(s) \in Nat /\ DOMAIN s = 1 .. Len(s) /\ DOMAIN t = 1 .. Len(t) /\ n \in Nat /\ m \in Nat /\ m <= n
  BY Units, WebServerAssumption
<1>2. e \in DOMAIN t /\ t[e].type = "header" /\ t[e].id = id /\ t[e].len = n
  BY <1>1 DEF Header
<1>3. Headers(t) = Headers(s) \cup {e}
  <2>1. \A i \in DOMAIN t : i \in DOMAIN s \/ i = e \/ i \in Len(s) + 2 .. Len(t)
    BY <1>1
  <2>2. \A i \in Len(s) + 2 .. Len(t) : t[i].type # "header"
    BY DEF Body
  <2>3. e \in Headers(t) /\ \A h \in Headers(s) : h \in Headers(t)
    BY <1>2, HeadersKept DEF Headers
  <2>4. \A i \in DOMAIN s : t[i] = s[i]
    BY HeadersKept
  <2> QED
    BY <2>1, <2>2, <2>3, <2>4 DEF Headers
<1>4. \A h \in Headers(s) : h \in 1 .. Len(s) /\ Ends(s, h) \in Nat /\ Ends(t, h) = Ends(s, h) /\ Ends(s, h) <= Len(s)
  <2> TAKE h \in Headers(s)
  <2>1. Ends(s, h) \in Nat /\ h \in 1 .. Len(s)
    BY Units
  <2>2. Ends(s, h) >= Len(s) => Ends(s, h) - Len(s) = 0
    BY DEF Owes
  <2> QED
    BY <2>1, <2>2, <1>1, HeadersKept
<1>5. Ends(t, e) = e + n
  BY <1>2 DEF Ends
<1>6. \A j \in DOMAIN t : t[j] = Flight => j = 1
  <2> TAKE j \in DOMAIN t
  <2>1. CASE j \in DOMAIN s
    BY <2>1, HeadersKept DEF WellFramed
  <2>2. CASE j = e
    BY <2>2, <1>2 DEF Flight
  <2>3. CASE j \in Len(s) + 2 .. Len(t)
    BY <2>3 DEF Flight, Body
  <2> QED
    BY <2>1, <2>2, <2>3, <1>1
<1>7. \A j \in DOMAIN t : t[j] = Body => \E h \in Headers(t) : h < j /\ j <= Ends(t, h)
  <2> TAKE j \in DOMAIN t
  <2> HAVE t[j] = Body
  <2>1. CASE j \in DOMAIN s
    <3>1. PICK h \in Headers(s) : h < j /\ j <= Ends(s, h)
      BY <2>1, HeadersKept DEF WellFramed
    <3> QED
      BY <3>1, <1>3, <1>4
  <2>2. CASE j = e
    BY <2>2, <1>2 DEF Body
  <2>3. CASE j \in Len(s) + 2 .. Len(t)
    <3>1. e < j /\ j <= Ends(t, e)
      BY <2>3, <1>1, <1>5
    <3> QED
      BY <3>1, <1>3
  <2> QED
    BY <2>1, <2>2, <2>3, <1>1
<1>8. \A h, i \in Headers(t) : h < i => Ends(t, h) < i
  <2> TAKE h, i \in Headers(t)
  <2> HAVE h < i
  <2>1. CASE h \in Headers(s) /\ i \in Headers(s)
    BY <2>1, <1>4 DEF WellFramed
  <2>2. CASE h \in Headers(s) /\ i = e
    BY <2>2, <1>4, <1>1
  <2>3. CASE h = e
    BY <2>3, <1>3, <1>4, <1>1
  <2> QED
    BY <2>1, <2>2, <2>3, <1>3
<1>9. Owes(t, n - m)
  <2>1. Ends(t, e) - Len(t) = n - m /\ Ends(t, e) = Len(t) + (n - m)
    BY <1>1, <1>5
  <2>2. \A h \in Headers(s) : Ends(t, h) < Len(t)
    BY <1>4, <1>1
  <2> QED
    BY <2>1, <2>2, <1>1, <1>3, <1>4 DEF Owes
<1> QED
  BY <1>3, <1>6, <1>7, <1>8, <1>9 DEF WellFramed

\* m more units of a body of which n are owed.
LEMMA BodiesAdded ==
  ASSUME NEW s \in Seq(Unit), NEW t \in Seq(Unit), NEW n \in Nat, NEW m \in 0 .. n,
         Extends(t, s), Len(t) = Len(s) + m,
         \A i \in Len(s) + 1 .. Len(t) : t[i] = Body,
         WellFramed(s), Owes(s, n)
  PROVE  WellFramed(t) /\ Owes(t, n - m) /\ Headers(t) = Headers(s)
<1>1. Len(s) \in Nat /\ DOMAIN s = 1 .. Len(s) /\ DOMAIN t = 1 .. Len(t) /\ m \in Nat /\ m <= n
  BY Units
<1>2. Headers(t) = Headers(s)
  <2>1. \A i \in DOMAIN t : i \in DOMAIN s \/ t[i].type # "header"
    BY <1>1 DEF Body
  <2>2. \A i \in DOMAIN s : t[i] = s[i] /\ i \in DOMAIN t
    BY HeadersKept
  <2> QED
    BY <2>1, <2>2 DEF Headers
<1>3. \A h \in Headers(s) : h \in 1 .. Len(s) /\ Ends(s, h) \in Nat /\ Ends(t, h) = Ends(s, h)
  BY Units, HeadersKept
<1>4. \A h \in Headers(s) : Ends(s, h) >= Len(s) => Ends(s, h) = Len(s) + n
  BY <1>1, <1>3 DEF Owes
<1>5. n > 0 => \E h \in Headers(s) : Ends(s, h) = Len(s) + n
  BY DEF Owes
<1>6. \A j \in DOMAIN t : t[j] = Flight => j = 1
  <2> TAKE j \in DOMAIN t
  <2>1. CASE j \in DOMAIN s
    BY <2>1, HeadersKept DEF WellFramed
  <2>2. CASE j \in Len(s) + 1 .. Len(t)
    BY <2>2 DEF Flight, Body
  <2> QED
    BY <2>1, <2>2, <1>1
<1>7. \A j \in DOMAIN t : t[j] = Body => \E h \in Headers(t) : h < j /\ j <= Ends(t, h)
  <2> TAKE j \in DOMAIN t
  <2> HAVE t[j] = Body
  <2>1. CASE j \in DOMAIN s
    <3>1. PICK h \in Headers(s) : h < j /\ j <= Ends(s, h)
      BY <2>1, HeadersKept DEF WellFramed
    <3> QED
      BY <3>1, <1>2, <1>3
  <2>2. CASE j \in Len(s) + 1 .. Len(t)
    <3>1. PICK h \in Headers(s) : Ends(s, h) = Len(s) + n
      BY <2>2, <1>1, <1>5
    <3>2. h < j /\ j <= Ends(t, h)
      BY <3>1, <2>2, <1>1, <1>3
    <3> QED
      BY <3>2, <1>2
  <2> QED
    BY <2>1, <2>2, <1>1
<1>8. \A h, i \in Headers(t) : h < i => Ends(t, h) < i
  BY <1>2, <1>3 DEF WellFramed
<1>9. Owes(t, n - m)
  <2>1. \A h \in Headers(t) : Ends(t, h) >= Len(t) => Ends(t, h) - Len(t) = n - m
    BY <1>1, <1>2, <1>3, <1>4
  <2>2. n - m > 0 => \E h \in Headers(t) : Ends(t, h) = Len(t) + (n - m)
    BY <1>1, <1>2, <1>3, <1>5
  <2> QED
    BY <2>1, <2>2 DEF Owes
<1> QED
  BY <1>2, <1>6, <1>7, <1>8, <1>9 DEF WellFramed

\* What a client gets of a stream that is cut off.
LEMMA CutOff ==
  ASSUME NEW s \in Seq(Unit), NEW t \in Seq(Unit), Extends(s, t), NEW k, NEW l, l.sent = k.sent,
         WellFramed(s), InOrder(k, s)
  PROVE  WellFramed(t) /\ InOrder(l, t)
<1>1. Len(s) \in Nat /\ DOMAIN s = 1 .. Len(s) /\ Len(t) \in Nat /\ DOMAIN t = 1 .. Len(t)
  BY Units
<1>2. /\ \A i \in DOMAIN t : i \in DOMAIN s /\ s[i] = t[i]
      /\ \A h \in Headers(t) : h \in Headers(s) /\ s[h] = t[h] /\ Ends(s, h) = Ends(t, h)
      /\ \A h \in Headers(s) : h \notin Headers(t) => h > Len(t)
  BY HeadersKept
<1>3. \A h \in Headers(t) : h \in 1 .. Len(t)
  BY Units
<1>4. \A j \in DOMAIN t : t[j] = Body => \E h \in Headers(t) : h < j /\ j <= Ends(t, h)
  <2> TAKE j \in DOMAIN t
  <2> HAVE t[j] = Body
  <2>1. PICK h \in Headers(s) : h < j /\ j <= Ends(s, h)
    BY <1>2 DEF WellFramed
  <2>2. h \in Headers(t)
    BY <2>1, <1>1, <1>2, Units
  <2> QED
    BY <2>1, <2>2, <1>2
<1>5. WellFramed(t)
  BY <1>2, <1>4 DEF WellFramed
<1>6. \A h \in Headers(t) : t[h].id \in 1 .. Len(l.sent)
  BY <1>2 DEF InOrder
<1>7. \A h, i \in Headers(t) : h < i => t[h].id < t[i].id
  BY <1>2 DEF InOrder
<1>8. ASSUME NEW i \in Headers(t), NEW m \in 1 .. t[i].id
      PROVE  HasHeader(t, m) \/ Malforms(l, m)
  <2>1. CASE Malforms(k, m)
    BY <2>1 DEF Malforms
  <2>2. CASE HasHeader(s, m)
    <3>1. PICK h \in Headers(s) : s[h].id = m
      BY <2>2 DEF HasHeader
    <3>2. h <= i
      <4> SUFFICES ASSUME i < h PROVE FALSE
        BY <1>2, Units
      <4>1. s[i].id < s[h].id /\ s[i].id \in Nat
        BY <1>2, Units DEF InOrder
      <4> QED
        BY <4>1, <3>1, <1>2
    <3>3. h \in Headers(t)
      BY <3>2, <1>2, <1>3, <1>1, Units
    <3> QED
      BY <3>1, <3>3, <1>2 DEF HasHeader
  <2> QED
    BY <2>1, <2>2, <1>2 DEF InOrder
<1> QED
  BY <1>5, <1>6, <1>7, <1>8 DEF InOrder

-----------------------------------------------------------------------------
Live(k) == k.socket \in {"backlog", "open"}

\* How far the handshake is, and what is on its way meanwhile.
Shaking(k, q, s) ==
    /\ ~k.is_tls =>
          /\ k.is_tls_hs = "no" /\ k.rtls = <<>> /\ k.tlsSend = <<>>
          /\ \A i \in DOMAIN q : q[i].id > 0
          /\ \A i \in DOMAIN s : s[i] # Flight
    /\ k.is_tls_hs # "no" => k.recv = <<>> /\ k.send = <<>>
    /\ k.is_tls /\ (k.socket = "backlog" \/ k.is_tls_hs = "start") =>
          ~k.shaken /\ s = <<>> /\ \A i \in DOMAIN q : q[i] = Hello
    /\ k.is_tls_hs = "negotiated" =>
          /\ s = <<Flight>>
          /\ k.shaken => k.got = <<Flight>> /\ \A i \in DOMAIN q : q[i].id = 0 => q[i] = Finished
          /\ ~k.shaken => k.got = <<>> /\ q = <<>>
    /\ k.is_tls /\ k.socket = "open" /\ k.is_tls_hs = "no" =>
          /\ k.shaken /\ k.got # <<>> /\ s # <<>> /\ s[1] = Flight
          /\ \A i \in DOMAIN q : q[i].id > 0

Empty(k) ==
    /\ k.is_tls_hs = "no" /\ ~k.is_draining /\ ~k.is_closing /\ ~k.is_readable
    /\ k.recv = <<>> /\ k.rtls = <<>> /\ k.send = <<>> /\ k.tlsSend = <<>> /\ k.out = <<>> /\ k.got = <<>>

\* A connection that waits to be accepted, or is open.
Fine(k) ==
    /\ k \in Connection /\ Live(k) /\ ~k.atClose /\ Len(k.out) <= SocketRoom
    /\ Streaming(k) <=> k.is_resp
    /\ Streaming(k) => k.socket = "open" /\ k.is_tls_hs = "no"
    /\ k.socket = "backlog" => Empty(k)
    /\ InOrder(k, Stream(k))
    /\ WellFramed(Stream(k))
    /\ Owes(Stream(k), Rest(k))
    /\ Queued(k, Waiting(k))
    /\ Passed(k, Waiting(k), Stream(k))
    /\ Drains(k, Stream(k))
    /\ Shaking(k, Waiting(k), Stream(k))

\* What no handler of the server changes.
LeftAlone(k, l) ==
    /\ l.socket = k.socket /\ l.is_tls = k.is_tls /\ l.client = k.client
    /\ l.sent = k.sent /\ l.last = k.last /\ l.got = k.got /\ l.shaken = k.shaken
    /\ l.is_readable = k.is_readable /\ l.is_writable = k.is_writable
    /\ k.in = <<>> => l.in = <<>>

\* The types of buffers and queues, and of what they are in a row.
LEMMA Queues ==
  ASSUME NEW k \in Connection
  PROVE  /\ k.recv \in Seq(Fragment) /\ k.rtls \in Seq(Fragment) /\ k.in \in Seq(Fragment)
         /\ k.got \in Seq(Unit) /\ k.out \in Seq(Unit) /\ k.tlsSend \in Seq(Unit) /\ k.send \in Seq(Unit)
         /\ k.sent \in Seq(Kind) /\ DOMAIN k.sent = 1 .. Len(k.sent) /\ Len(k.sent) \in Nat
         /\ k.recv \o k.rtls \in Seq(Fragment) /\ Waiting(k) \in Seq(Fragment)
         /\ k.got \o k.out \in Seq(Unit) /\ (k.got \o k.out) \o k.tlsSend \in Seq(Unit)
         /\ Stream(k) \in Seq(Unit)
<1>1. /\ k.recv \in Seq(Fragment) /\ k.rtls \in Seq(Fragment) /\ k.in \in Seq(Fragment)
      /\ k.got \in Seq(Unit) /\ k.out \in Seq(Unit) /\ k.tlsSend \in Seq(Unit) /\ k.send \in Seq(Unit)
      /\ k.sent \in Seq(Kind)
  BY DEF Connection
<1>2. DOMAIN k.sent = 1 .. Len(k.sent) /\ Len(k.sent) \in Nat
  BY <1>1, Indexes
<1>3. k.recv \o k.rtls \in Seq(Fragment) /\ k.got \o k.out \in Seq(Unit)
  BY <1>1, ConcatProperties
<1>4. Waiting(k) \in Seq(Fragment) /\ (k.got \o k.out) \o k.tlsSend \in Seq(Unit)
  BY <1>1, <1>3, ConcatProperties DEF Waiting
<1>5. Stream(k) \in Seq(Unit)
  BY <1>1, <1>4, ConcatProperties DEF Stream, Delivered
<1> QED
  BY <1>1, <1>2, <1>3, <1>4, <1>5

\* What of the invariant depends only on what the client sent, and whether it is there.
LEMMA SameTalk ==
  ASSUME NEW k, NEW l, l.sent = k.sent, l.last = k.last, l.client = k.client, NEW q, NEW s
  PROVE  /\ Queued(k, q) => Queued(l, q)
         /\ Passed(k, q, s) => Passed(l, q, s)
         /\ InOrder(k, s) => InOrder(l, s)
         /\ \A m : Malforms(l, m) <=> Malforms(k, m)
<1>1. \A m : Malforms(l, m) <=> Malforms(k, m)
  BY DEF Malforms
<1>2. \A f : Known(k, f) <=> Known(l, f)
  BY DEF Known
<1>3. \A m : Due(k, q, m) <=> Due(l, q, m)
  BY DEF Due
<1>4. \A m : Lost(k, q, m) <=> Lost(l, q, m)
  BY DEF Lost
<1>5. Queued(k, q) => Queued(l, q)
  BY <1>1, <1>2, <1>3 DEF Queued
<1>6. Passed(k, q, s) => Passed(l, q, s)
  BY <1>1, <1>4 DEF Passed
<1>7. InOrder(k, s) => InOrder(l, s)
  BY <1>1 DEF InOrder
<1> QED
  BY <1>1, <1>5, <1>6, <1>7

\* What only moves on between the queues and buffers of an open connection.
MovesOn(k, l) ==
    /\ l \in Connection /\ LeftAlone(k, l)
    /\ Waiting(l) = Waiting(k) /\ Stream(l) = Stream(k)
    /\ l.is_tls_hs = k.is_tls_hs /\ Rest(l) = Rest(k)
    /\ Streaming(l) <=> l.is_resp
    /\ Streaming(l) => k.is_tls_hs = "no"
    /\ l.is_draining = k.is_draining /\ l.atClose = k.atClose /\ Len(l.out) <= SocketRoom
    /\ ~k.is_tls => l.rtls = <<>> /\ l.tlsSend = <<>>
    /\ k.is_tls_hs # "no" => l.recv = <<>> /\ l.send = <<>>

\* Moving on keeps a connection fine.
LEMMA MovedOn ==
  ASSUME NEW k, NEW l, Fine(k), k.socket = "open", MovesOn(k, l)
  PROVE  Fine(l)
<1> USE DEF MovesOn
<1>1. Live(l) /\ ~l.atClose
  BY DEF Fine, LeftAlone, Live
<1>2. /\ Streaming(l) <=> l.is_resp
      /\ Streaming(l) => l.socket = "open" /\ l.is_tls_hs = "no"
      /\ l.socket # "backlog"
      /\ Rest(l) = Rest(k)
  BY DEF LeftAlone
<1>3. Queued(l, Waiting(l)) /\ Passed(l, Waiting(l), Stream(l)) /\ InOrder(l, Stream(l))
  BY SameTalk DEF Fine, LeftAlone
<1>4. Drains(l, Stream(l))
  BY DEF Fine, LeftAlone, Drains
<1>5. Shaking(l, Waiting(l), Stream(l))
  <2> DEFINE q == Waiting(k)
             s == Stream(k)
  <2>1. Shaking(k, q, s) /\ q = Waiting(l) /\ s = Stream(l)
    BY DEF Fine
  <2> HIDE DEF q, s
  <2>2. Shaking(l, q, s)
    BY <2>1 DEF Shaking, LeftAlone
  <2> QED
    BY <2>1, <2>2
<1> QED
  BY <1>1, <1>2, <1>3, <1>4, <1>5 DEF Fine

\* After the answers to all before it, the request that closes the connection, or the
\* malformed one before it.
LEMMA DrainsFrom ==
  ASSUME NEW k \in Connection, NEW t \in Seq(Unit), NEW id \in DOMAIN k.sent,
         k.sent[id] \in {"bad", "close"} \/ Malforms(k, id),
         \A m \in 1 .. id : HasHeader(t, m) \/ Malforms(k, m),
         Owes(t, 0)
  PROVE  Drains(k, t)
<1> DEFINE Bad == {b \in 1 .. id : k.sent[b] = "bad"}
<1>1. DOMAIN k.sent = 1 .. Len(k.sent) /\ Len(k.sent) \in Nat /\ id \in Nat
  BY Queues
<1>2. \A m : HasHeader(t, m) => AnsweredTo(t, m)
  <2> TAKE m
  <2> HAVE HasHeader(t, m)
  <2>1. PICK h \in Headers(t) : t[h].id = m
    BY DEF HasHeader
  <2>2. Ends(t, h) \in Nat /\ Len(t) \in Nat
    BY Units
  <2>3. Ends(t, h) >= Len(t) => Ends(t, h) - Len(t) = 0
    BY DEF Owes
  <2>4. Ends(t, h) <= Len(t)
    BY <2>2, <2>3
  <2> QED
    BY <2>1, <2>4 DEF AnsweredTo
<1>3. CASE Bad # {}
  <2>1. Bad \in SUBSET Nat
    BY <1>1
  <2>2. PICK b \in Bad : \A i \in Bad : b <= i
    BY <1>3, <2>1, LeastNatural
  <2>3. b \in DOMAIN k.sent /\ k.sent[b] = "bad" /\ b \in Nat /\ b <= id
    BY <1>1, <2>2
  <2>4. ASSUME NEW j \in 1 .. b PROVE k.sent[j] = "bad" \/ AnsweredTo(t, j)
    <3>1. CASE j = b
      BY <3>1, <2>3
    <3>2. CASE j < b
      <4>1. ~Malforms(k, j)
        <5> SUFFICES ASSUME NEW x \in 1 .. j, k.sent[x] = "bad" PROVE FALSE
          BY DEF Malforms
        <5>1. x \in Bad /\ x < b
          BY <2>3, <3>2, <1>1
        <5> QED
          BY <5>1, <2>2, <2>3
      <4>2. j \in 1 .. id
        BY <2>3, <1>1
      <4> QED
        BY <4>1, <4>2, <1>2
    <3> QED
      BY <3>1, <3>2, <2>3
  <2> QED
    BY <2>3, <2>4 DEF Drains
<1>4. CASE Bad = {}
  <2>1. \A m \in 1 .. id : ~Malforms(k, m)
    <3> SUFFICES ASSUME NEW m \in 1 .. id, NEW x \in 1 .. m, k.sent[x] = "bad" PROVE FALSE
      BY DEF Malforms
    <3>1. x \in Bad
      BY <1>1
    <3> QED
      BY <3>1, <1>4
  <2>2. k.sent[id] \in {"bad", "close"}
    BY <2>1, <1>1
  <2>3. \A j \in 1 .. id : AnsweredTo(t, j)
    BY <2>1, <1>2
  <2> QED
    BY <2>2, <2>3 DEF Drains
<1> QED
  BY <1>3, <1>4

\* The first of what waits, and which requests came before it.
LEMMA FirstWaiting ==
  ASSUME NEW k, Fine(k), k.recv # <<>>, k.is_tls_hs = "no"
  PROVE  /\ k.recv[1] \in Fragment /\ Waiting(k)[1] = k.recv[1] /\ Head(k.recv) = k.recv[1]
         /\ Len(k.recv) \in Nat \ {0} /\ Len(k.recv) <= Len(Waiting(k)) /\ 1 \in DOMAIN Waiting(k)
         /\ \A i \in 1 .. Len(k.recv) : Waiting(k)[i] = k.recv[i]
         /\ k.socket = "open"
         /\ k.recv[1].id \in DOMAIN k.sent /\ k.recv[1].kind = k.sent[k.recv[1].id]
         /\ \A m \in 1 .. k.recv[1].id - 1 : HasHeader(Stream(k), m) \/ Malforms(k, m)
         /\ k.recv[1].part = 2 => Malforms(k, k.recv[1].id)
         /\ \A i \in DOMAIN Waiting(k) : Waiting(k)[i].id \in Nat /\ k.recv[1].id <= Waiting(k)[i].id
<1> DEFINE q == Waiting(k)
           r == k.recv[1]
<1>1. k \in Connection /\ k.socket = "open"
  BY DEF Fine, Live, Empty
<1>2. /\ k.recv \in Seq(Fragment) /\ k.rtls \in Seq(Fragment) /\ k.in \in Seq(Fragment)
      /\ k.recv \o k.rtls \in Seq(Fragment) /\ q \in Seq(Fragment)
      /\ DOMAIN k.sent = 1 .. Len(k.sent) /\ Len(k.sent) \in Nat
  BY <1>1, Queues
<1>3. /\ Len(k.recv) \in Nat \ {0} /\ r \in Fragment /\ Head(k.recv) = r
      /\ Len(k.rtls) \in Nat /\ Len(k.in) \in Nat
  <2>1. Len(k.recv) \in Nat /\ Len(k.rtls) \in Nat /\ Len(k.in) \in Nat
    BY <1>2, LenProperties
  <2>2. Len(k.recv) # 0
    BY <1>2, EmptySeq
  <2>3. r \in Fragment
    BY <1>2, <2>1, <2>2, ElementOfSeq
  <2> QED
    BY <2>1, <2>2, <2>3
<1>5. /\ Len(q) = Len(k.recv) + Len(k.rtls) + Len(k.in)
      /\ \A i \in 1 .. Len(k.recv) : q[i] = k.recv[i]
  <2> DEFINE a == k.recv
             b == k.rtls
             d == k.in
  <2>1. a \in Seq(Fragment) /\ b \in Seq(Fragment) /\ d \in Seq(Fragment)
    BY <1>2
  <2>2. q = a \o b \o d
    BY DEF Waiting
  <2> HIDE DEF a, b, d, q
  <2>3. /\ Len(a \o b \o d) = Len(a) + Len(b) + Len(d)
        /\ \A i \in 1 .. Len(a) : (a \o b \o d)[i] = a[i]
    BY <2>1, InARow
  <2>4. Len(q) = Len(a) + Len(b) + Len(d) /\ \A i \in 1 .. Len(a) : q[i] = a[i]
    BY <2>2, <2>3, Zenon
  <2> QED
    BY <2>4 DEF a, b, d
<1> HIDE DEF q, r
<1>6. Len(k.recv) <= Len(q) /\ DOMAIN q = 1 .. Len(q) /\ 1 \in DOMAIN q /\ q[1] = r
  <2>1. Len(q) \in Nat /\ DOMAIN q = 1 .. Len(q)
    BY <1>2, LenProperties
  <2>2. 1 \in 1 .. Len(k.recv) /\ Len(k.recv) <= Len(q)
    <3>1. \A x \in Nat \ {0}, y, z \in Nat : 1 \in 1 .. x /\ x <= x + y + z
      OBVIOUS
    <3>2. 1 \in 1 .. Len(k.recv) /\ Len(k.recv) <= Len(k.recv) + Len(k.rtls) + Len(k.in)
      BY <1>3, <3>1, Zenon
    <3> QED
      BY <3>2, <1>5, Zenon
  <2>3. q[1] = k.recv[1]
    BY <2>2, <1>5
  <2> QED
    BY <2>1, <2>2, <2>3, <1>3 DEF r
<1>7. r.id > 0 /\ r.id \in Nat /\ r.part \in {1, 2}
  <2>1. q[1].id > 0
    BY <1>1, <1>6 DEF Fine, Shaking, q
  <2> QED
    BY <2>1, <1>3, <1>6 DEF Fragment
<1>8. Queued(k, q) /\ Passed(k, q, Stream(k))
  BY DEF Fine, q
<1>9. r.id \in DOMAIN k.sent /\ r.kind = k.sent[r.id]
  <2>1. Known(k, r)
    BY <1>6, <1>8 DEF Queued
  <2> QED
    BY <2>1, <1>7, <1>2 DEF Known
<1>10. \A i \in DOMAIN q : i # 1 => Before(r, q[i])
  BY <1>2, <1>6, <1>8 DEF Queued
<1>11. \A i \in DOMAIN q : q[i].id \in Nat /\ r.id <= q[i].id
  <2> TAKE i \in DOMAIN q
  <2>1. q[i] \in Fragment
    BY <1>2, Indexes
  <2> QED
    BY <2>1, <1>6, <1>7, <1>10 DEF Before, Fragment
<1>12. ASSUME NEW m \in 1 .. r.id - 1 PROVE HasHeader(Stream(k), m) \/ Malforms(k, m)
  <2>1. ~Has(q, m, 1)
    BY <1>7, <1>11 DEF Has
  <2>2. ~Lost(k, q, m)
    BY <1>6, <1>7 DEF Lost
  <2>3. m \in DOMAIN k.sent
    BY <1>2, <1>7, <1>9
  <2> QED
    BY <2>1, <2>2, <2>3, <1>8 DEF Passed
<1>13. ASSUME r.part = 2 PROVE Malforms(k, r.id)
  <2>1. ~Has(q, r.id, 1)
    <3> SUFFICES ASSUME NEW i \in DOMAIN q, q[i].id = r.id, q[i].part = 1 PROVE FALSE
      BY DEF Has
    <3>1. i # 1
      BY <1>6, <1>13
    <3> QED
      BY <3>1, <1>7, <1>10, <1>13 DEF Before
  <2> QED
    BY <2>1, <1>13, <1>6, <1>8 DEF Queued
<1> QED
  BY <1>1, <1>3, <1>5, <1>6, <1>9, <1>11, <1>12, <1>13 DEF q, r

-----------------------------------------------------------------------------
(* Answers are written at the end of the stream.                           *)

\* What is written to the send buffer, x, is what the stream goes on with.
LEMMA SendAdded ==
  ASSUME NEW k \in Connection, NEW l \in Connection, NEW x \in Seq(Unit),
         l.got = k.got, l.out = k.out, l.tlsSend = k.tlsSend, l.send = k.send \o x
  PROVE  /\ Extends(Stream(l), Stream(k))
         /\ Len(Stream(l)) = Len(Stream(k)) + Len(x)
         /\ \A i \in 1 .. Len(x) : Stream(l)[Len(Stream(k)) + i] = x[i]
<1> DEFINE a == Delivered(k) \o k.tlsSend
           b == k.send
           s == Stream(k)
           t == Stream(l)
<1>1. a \in Seq(Unit) /\ b \in Seq(Unit) /\ s \in Seq(Unit)
  BY Queues DEF Delivered
<1>2. s = a \o b /\ t = a \o (b \o x)
  BY Zenon DEF Stream, Delivered
<1> HIDE DEF a, b, s, t
<1>3. t = s \o x
  <2>1. Regroups(a, b, x)
    BY <1>1, Associated, Zenon
  <2> QED
    BY <2>1, <1>2, Zenon DEF Regroups
<1>4. /\ Len(s \o x) = Len(s) + Len(x)
      /\ \A i \in 1 .. Len(s) + Len(x) : (s \o x)[i] = IF i <= Len(s) THEN s[i] ELSE x[i - Len(s)]
  BY <1>1, ConcatProperties
<1>5. Len(s) \in Nat /\ Len(x) \in Nat
  BY <1>1, LenProperties
<1>6. /\ Extends(s \o x, s)
      /\ \A i \in 1 .. Len(x) : (s \o x)[Len(s) + i] = x[i]
  BY <1>4, <1>5 DEF Extends
<1> QED
  BY <1>3, <1>4, <1>6, Zenon DEF s, t

\* A header, and m units of body.
LEMMA AnAnswer ==
  ASSUME NEW id \in Nat, NEW n \in 0 .. FileSize, NEW m \in 0 .. n
  PROVE  LET x == <<Header(id, n)>> \o [i \in 1 .. m |-> Body]
         IN  /\ <<Header(id, n)>> \in Seq(Unit) /\ [i \in 1 .. m |-> Body] \in Seq(Unit)
             /\ x \in Seq(Unit) /\ Len(x) = 1 + m /\ x[1] = Header(id, n)
             /\ \A i \in 2 .. Len(x) : x[i] = Body
<1> DEFINE h == <<Header(id, n)>>
           y == [i \in 1 .. m |-> Body]
<1>1. n \in Nat /\ m \in Nat /\ Header(id, n) \in Unit /\ Body \in Unit
  BY WebServerAssumption DEF Header, Body, Unit
<1>2. h \in Seq(Unit) /\ Len(h) = 1 /\ h[1] = Header(id, n)
  BY <1>1
<1>3. y \in Seq(Unit) /\ Len(y) = m /\ \A i \in 1 .. m : y[i] = Body
  BY <1>1
<1> HIDE DEF h, y
<1>4. /\ h \o y \in Seq(Unit) /\ Len(h \o y) = 1 + m
      /\ \A i \in 1 .. 1 + m : (h \o y)[i] = IF i <= 1 THEN h[i] ELSE y[i - 1]
  <2>1. /\ h \o y \in Seq(Unit) /\ Len(h \o y) = Len(h) + Len(y)
        /\ \A i \in 1 .. Len(h) + Len(y) : (h \o y)[i] = IF i <= Len(h) THEN h[i] ELSE y[i - Len(h)]
    BY <1>2, <1>3, ConcatProperties
  <2>2. Len(h) = 1 /\ Len(y) = m
    BY <1>2, <1>3
  <2> QED
    BY <2>1, <2>2
<1>5. (h \o y)[1] = Header(id, n)
  BY <1>1, <1>2, <1>4
<1>6. \A i \in 2 .. Len(h \o y) : (h \o y)[i] = Body
  <2> TAKE i \in 2 .. Len(h \o y)
  <2>1. i \in 1 .. 1 + m /\ ~(i <= 1) /\ i - 1 \in 1 .. m
    BY <1>1, <1>4
  <2> QED
    BY <2>1, <1>3, <1>4
<1> QED
  BY <1>2, <1>3, <1>4, <1>5, <1>6, Zenon DEF h, y

\* An answer: the stream goes on with its header and the units of body written at once.
LEMMA AnswerAdded ==
  ASSUME NEW k \in Connection, NEW l \in Connection,
         l.got = k.got, l.out = k.out, l.tlsSend = k.tlsSend,
         NEW id \in Nat, NEW n \in 0 .. FileSize, NEW m \in 0 .. n,
         l.send = k.send \o <<Header(id, n)>> \o [i \in 1 .. m |-> Body]
  PROVE  Announces(Stream(l), Stream(k), id, n, m)
<1> DEFINE h == <<Header(id, n)>>
           y == [i \in 1 .. m |-> Body]
           x == h \o y
           b == k.send
           s == Stream(k)
           t == Stream(l)
<1>1. /\ h \in Seq(Unit) /\ y \in Seq(Unit)
      /\ x \in Seq(Unit) /\ Len(x) = 1 + m /\ x[1] = Header(id, n)
      /\ \A i \in 2 .. Len(x) : x[i] = Body
  BY AnAnswer
<1>2. b \in Seq(Unit) /\ s \in Seq(Unit) /\ t \in Seq(Unit) /\ l.send = b \o h \o y
  BY Queues
<1>3. Len(s) \in Nat
  BY <1>2, LenProperties
<1>4. b \o h \o y = b \o x
  <2> HIDE DEF h, y, b
  <2>1. h \in Seq(Unit) /\ y \in Seq(Unit) /\ b \in Seq(Unit)
    BY <1>1, <1>2
  <2>2. Regroups(b, h, y)
    BY <2>1, Associated, Zenon
  <2> QED
    BY <2>2, Zenon DEF Regroups
<1>5. l.send = k.send \o x
  BY <1>2, <1>4, Zenon
<1> HIDE DEF h, y, x, b
<1>6. /\ Extends(t, s) /\ Len(t) = Len(s) + Len(x)
      /\ \A i \in 1 .. Len(x) : t[Len(s) + i] = x[i]
  BY <1>1, <1>5, SendAdded
<1> HIDE DEF s, t
<1>7. \A a, p \in Nat : \A i \in a + 2 .. a + (1 + p) :
          i - a \in 1 .. 1 + p /\ i - a \in 2 .. 1 + p /\ a + (i - a) = i
  OBVIOUS
<1>8. Len(t) = Len(s) + 1 + m /\ t[Len(s) + 1] = Header(id, n)
  <2>1. \A a, p \in Nat : a + (1 + p) = a + 1 + p /\ 1 \in 1 .. 1 + p
    OBVIOUS
  <2>2. m \in Nat
    OBVIOUS
  <2> QED
    BY <2>1, <2>2, <1>1, <1>3, <1>6, Zenon
<1>9. \A i \in Len(s) + 2 .. Len(t) : t[i] = Body
  <2> TAKE i \in Len(s) + 2 .. Len(t)
  <2>1. m \in Nat /\ i \in Len(s) + 2 .. Len(s) + (1 + m)
    BY <1>1, <1>6
  <2>2. i - Len(s) \in 1 .. Len(x) /\ i - Len(s) \in 2 .. Len(x) /\ Len(s) + (i - Len(s)) = i
    BY <2>1, <1>1, <1>3, <1>7, Zenon
  <2> QED
    BY <2>2, <1>1, <1>6, Zenon
<1> QED
  BY <1>6, <1>8, <1>9, Zenon DEF s, t, Announces

-----------------------------------------------------------------------------
(* A request is cut from what was read, and answered.                      *)

\* What http_cb and static_cb leave as it is.
Handled(k, l) ==
    /\ l.socket = k.socket /\ l.is_tls = k.is_tls /\ l.client = k.client
    /\ l.in = k.in /\ l.out = k.out /\ l.sent = k.sent /\ l.last = k.last
    /\ l.got = k.got /\ l.shaken = k.shaken
    /\ l.rtls = k.rtls /\ l.tlsSend = k.tlsSend /\ l.is_tls_hs = k.is_tls_hs
    /\ l.is_readable = k.is_readable /\ l.is_writable = k.is_writable

\* What a request handled changes is not what no handler changes.
LEMMA HandledKept ==
  ASSUME NEW k, NEW l, Handled(k, l)
  PROVE  LeftAlone(k, l)
<1> QED
  BY DEF Handled, LeftAlone

\* The first p parts are cut from what was read.
LEMMA Cut ==
  ASSUME NEW k \in Connection, NEW l \in Connection, l.rtls = k.rtls, l.in = k.in,
         NEW p \in 0 .. Len(k.recv), l.recv = SubSeq(k.recv, p + 1, Len(k.recv))
  PROVE  IsRest(Waiting(l), Waiting(k), p)
<1> DEFINE a == k.recv
           b == k.rtls
           d == k.in
<1>1. a \in Seq(Fragment) /\ b \in Seq(Fragment) /\ d \in Seq(Fragment) /\ p \in 0 .. Len(a)
  BY Queues
<1>2. Waiting(l) = SubSeq(a, p + 1, Len(a)) \o b \o d /\ Waiting(k) = a \o b \o d
  BY Zenon DEF Waiting
<1> HIDE DEF a, b, d
<1>3. IsRest(SubSeq(a, p + 1, Len(a)) \o b \o d, a \o b \o d, p)
  BY <1>1, CutFirst
<1> QED
  BY <1>2, <1>3, Zenon

\* The parts of the first request, and what comes after it.
LEMMA RequestCut ==
  ASSUME NEW k, Fine(k), k.recv # <<>>, k.is_tls_hs = "no", k.recv[1].part = 1,
         NEW p \in 1 .. Len(k.recv), p = IF k.recv[1].kind \in InTwoParts THEN 2 ELSE 1,
         NEW rest \in Seq(Fragment), IsRest(rest, Waiting(k), p)
  PROVE  /\ \A i \in 1 .. p : Waiting(k)[i].id = k.recv[1].id
         /\ \A i \in DOMAIN rest : rest[i].id > k.recv[1].id
<1> DEFINE q == Waiting(k)
           r == k.recv[1]
<1>1. k \in Connection /\ q \in Seq(Fragment) /\ Queued(k, q)
  BY Queues DEF Fine
<1>2. /\ r \in Fragment /\ q[1] = r /\ r.part = 1
      /\ Len(k.recv) \in Nat \ {0} /\ Len(k.recv) <= Len(q)
      /\ r.kind = k.sent[r.id]
  BY FirstWaiting
<1>3. /\ Len(q) \in Nat /\ DOMAIN q = 1 .. Len(q) /\ DOMAIN rest = 1 .. Len(rest) /\ Len(rest) \in Nat
      /\ \A i \in DOMAIN q : q[i] \in Fragment
  BY <1>1, Indexes
<1>4. Len(rest) = Len(q) - p /\ \A i \in DOMAIN rest : i + p \in DOMAIN q /\ rest[i] = q[i + p]
  <2>1. p \in Nat
    OBVIOUS
  <2>2. Len(rest) = Len(q) - p /\ \A i \in 1 .. Len(rest) : rest[i] = q[i + p]
    BY DEF IsRest
  <2>3. \A i \in DOMAIN rest : i + p \in DOMAIN q
    <3>1. \A x, y, z \in Nat : x = y - z => \A i \in 1 .. x : i + z \in 1 .. y
      OBVIOUS
    <3> QED
      BY <2>1, <2>2, <3>1, <1>3, Zenon
  <2> QED
    BY <2>2, <2>3, <1>3, Zenon
<1> HIDE DEF q, r
<1>5. r.id \in Nat /\ \A i \in DOMAIN q : q[i].id \in Nat /\ q[i].part \in {1, 2}
  BY <1>2, <1>3 DEF Fragment
<1>6. \A i, j \in DOMAIN q : i < j => Before(q[i], q[j])
  BY <1>1 DEF Queued
<1>7. CASE r.kind \notin InTwoParts
  <2>1. p = 1
    BY <1>7 DEF r
  <2>2. ASSUME NEW i \in DOMAIN rest PROVE rest[i].id > r.id
    <3>1. i + 1 \in DOMAIN q /\ rest[i] = q[i + 1] /\ 1 \in DOMAIN q /\ 1 < i + 1
      <4>1. i + 1 \in DOMAIN q /\ rest[i] = q[i + 1]
        BY <2>1, <1>4, Zenon
      <4>2. i \in Nat \ {0} /\ i + 1 \in 1 .. Len(q)
        BY <4>1, <1>3
      <4> QED
        BY <4>1, <4>2, <1>3
    <3>2. Before(r, q[i + 1])
      BY <3>1, <1>2, <1>6
    <3>3. ~(q[i + 1].part = 2 /\ q[i + 1].id = r.id)
      <4> SUFFICES ASSUME q[i + 1].part = 2, q[i + 1].id = r.id PROVE FALSE
        OBVIOUS
      <4>1. Known(k, q[i + 1])
        BY <3>1, <1>1 DEF Queued
      <4>2. r.id # 0
        BY <1>2, FirstWaiting, Queues, <1>1 DEF r
      <4>3. q[i + 1].kind = k.sent[r.id] /\ q[i + 1].kind \in InTwoParts
        BY <4>1, <4>2 DEF Known
      <4> QED
        BY <4>3, <1>2, <1>7
    <3> QED
      BY <3>1, <3>2, <3>3, <1>5 DEF Before
  <2> QED
    BY <2>1, <2>2, <1>2 DEF q, r
<1>8. CASE r.kind \in InTwoParts
  <2>1. p = 2 /\ 2 \in DOMAIN q /\ 1 \in DOMAIN q
    BY <1>8, <1>2, <1>3 DEF r
  <2>2. Before(r, q[2])
    BY <2>1, <1>2, <1>6
  <2>3. q[2].id = r.id /\ q[2].part = 2
    <3> SUFFICES ASSUME q[2].id > r.id PROVE FALSE
      BY <2>1, <2>2, <1>5 DEF Before
    <3>1. Due(k, q, r.id)
      BY <2>1 DEF Due
    <3>2. Has(q, r.id, 2)
      BY <3>1, <2>1, <1>1, <1>2, <1>8 DEF Queued
    <3>3. PICK j \in DOMAIN q : q[j].id = r.id /\ q[j].part = 2
      BY <3>2 DEF Has
    <3>4. j > 2
      <4>1. j # 1 /\ j # 2 /\ j \in 1 .. Len(q)
        <5>1. q[j].part # q[1].part
          BY <3>3, <1>2
        <5>2. q[j].id # q[2].id
          BY <3>3, <2>1, <1>5
        <5> QED
          BY <5>1, <5>2, <1>3
      <4> QED
        BY <4>1, <1>3
    <3>5. Before(q[2], q[j])
      BY <3>4, <2>1, <1>6
    <3> QED
      BY <3>3, <3>5, <2>1, <1>5 DEF Before
  <2>4. ASSUME NEW i \in DOMAIN rest PROVE rest[i].id > r.id
    <3>1. i + 2 \in DOMAIN q /\ rest[i] = q[i + 2] /\ 2 < i + 2
      <4>1. i + 2 \in DOMAIN q /\ rest[i] = q[i + 2]
        BY <2>1, <1>4, Zenon
      <4>2. i \in Nat \ {0}
        BY <1>3
      <4> QED
        BY <4>1, <4>2
    <3>2. Before(q[2], q[i + 2])
      BY <3>1, <2>1, <1>6
    <3> QED
      BY <3>1, <3>2, <2>3, <1>5 DEF Before
  <2> QED
    BY <2>1, <2>3, <2>4, <1>2 DEF q, r
<1> QED
  BY <1>7, <1>8

\* The handshake is as far as it was when only an open connection's requests are cut, and
\* its stream goes on with no more of the handshake.
LEMMA StillShaken ==
  ASSUME NEW k \in Connection, NEW l \in Connection, Handled(k, l), k.socket = "open", k.is_tls_hs = "no",
         NEW q \in Seq(Fragment), NEW rest \in Seq(Fragment), NEW n \in Nat, IsRest(rest, q, n),
         NEW s \in Seq(Unit), NEW t \in Seq(Unit), Extends(t, s),
         \A i \in DOMAIN t : i > Len(s) => t[i] # Flight,
         Shaking(k, q, s)
  PROVE  Shaking(l, rest, t)
<1>1. /\ DOMAIN s = 1 .. Len(s) /\ Len(s) \in Nat /\ DOMAIN t = 1 .. Len(t) /\ Len(t) \in Nat
      /\ DOMAIN q = 1 .. Len(q) /\ Len(q) \in Nat /\ DOMAIN rest = 1 .. Len(rest) /\ Len(rest) \in Nat
  BY Indexes
<1>2. \A i \in DOMAIN rest : \E j \in DOMAIN q : rest[i] = q[j]
  <2>1. n \in 0 .. Len(q) /\ Len(rest) = Len(q) - n /\ \A i \in 1 .. Len(rest) : rest[i] = q[i + n]
    BY DEF IsRest
  <2>2. \A x, y, z \in Nat : x = y - z => \A i \in 1 .. x : i + z \in 1 .. y
    OBVIOUS
  <2> QED
    BY <2>1, <2>2, <1>1, Zenon
<1>3. \A i \in DOMAIN t : t[i] # Flight \/ (i \in DOMAIN s /\ t[i] = s[i])
  BY <1>1, HeadersKept
<1>4. CASE ~k.is_tls
  <2>1. /\ k.rtls = <<>> /\ k.tlsSend = <<>>
        /\ \A i \in DOMAIN q : q[i].id > 0
        /\ \A i \in DOMAIN s : s[i] # Flight
    BY <1>4 DEF Shaking
  <2> QED
    BY <2>1, <1>2, <1>3, <1>4 DEF Shaking, Handled
<1>5. CASE k.is_tls
  <2>1. k.shaken /\ k.got # <<>> /\ s # <<>> /\ s[1] = Flight /\ \A i \in DOMAIN q : q[i].id > 0
    BY <1>5 DEF Shaking
  <2>2. Len(s) # 0
    BY <2>1, EmptySeq
  <2>3. t # <<>> /\ t[1] = Flight
    BY <2>1, <2>2, <1>1, HeadersKept, EmptySeq
  <2> QED
    BY <2>1, <2>3, <1>2, <1>5 DEF Shaking, Handled
<1> QED
  BY <1>4, <1>5 DEF Connection

\* A request was cut, and answered with a header that announces n units, of which m
\* were written: l is as good a connection as k was.
LEMMA RequestAnswered ==
  ASSUME NEW k, Fine(k), ~k.is_resp, k.is_tls_hs = "no", k.recv # <<>>, k.recv[1].part = 1,
         NEW p \in 1 .. Len(k.recv), p = IF k.recv[1].kind \in InTwoParts THEN 2 ELSE 1,
         NEW l \in Connection, Handled(k, l), ~l.atClose,
         l.recv = SubSeq(k.recv, p + 1, Len(k.recv)),
         NEW n \in 0 .. FileSize, NEW m \in 0 .. n,
         l.send = k.send \o <<Header(k.recv[1].id, n)>> \o [i \in 1 .. m |-> Body],
         Streaming(l) <=> l.is_resp, Rest(l) = n - m,
         l.is_draining => k.is_draining \/ (k.recv[1].kind = "close" /\ ~l.is_resp)
  PROVE  Fine(l)
<1> DEFINE q == Waiting(k)
           rest == Waiting(l)
           s == Stream(k)
           t == Stream(l)
           r == k.recv[1]
<1>1. /\ k \in Connection /\ q \in Seq(Fragment) /\ rest \in Seq(Fragment)
      /\ s \in Seq(Unit) /\ t \in Seq(Unit) /\ k.sent \in Seq(Kind)
      /\ DOMAIN k.sent = 1 .. Len(k.sent) /\ Len(k.sent) \in Nat
  BY Queues DEF Fine
<1>2. /\ k.socket = "open" /\ r \in Fragment /\ q[1] = r /\ 1 \in DOMAIN q
      /\ r.id \in DOMAIN k.sent /\ r.kind = k.sent[r.id]
      /\ \A x \in 1 .. r.id - 1 : HasHeader(s, x) \/ Malforms(k, x)
  BY FirstWaiting
<1>3. r.id \in Nat /\ r.id \in 1 .. Len(k.sent)
  BY <1>1, <1>2
<1>4. l.sent = k.sent /\ l.last = k.last /\ l.client = k.client /\ l.socket = k.socket /\ l.is_tls_hs = "no"
  BY DEF Handled
<1>5. p \in Nat /\ IsRest(rest, q, p)
  <2>1. Len(k.recv) \in Nat
    BY FirstWaiting
  <2>2. p \in 0 .. Len(k.recv) /\ p \in Nat
    BY <2>1
  <2> QED
    BY <2>2, <1>1, Cut DEF Handled
<1>6. /\ \A i \in 1 .. p : q[i].id = r.id
      /\ \A i \in DOMAIN rest : rest[i].id > r.id
  BY <1>1, <1>5, RequestCut
<1>7. /\ Announces(t, s, r.id, n, m)
      /\ Extends(t, s) /\ Len(t) = Len(s) + 1 + m
      /\ t[Len(s) + 1] = Header(r.id, n)
      /\ \A i \in Len(s) + 2 .. Len(t) : t[i] = Body
  <2>1. l.got = k.got /\ l.out = k.out /\ l.tlsSend = k.tlsSend
    BY DEF Handled
  <2>2. Announces(t, s, r.id, n, m)
    BY <2>1, <1>1, <1>3, AnswerAdded, Zenon
  <2> QED
    BY <2>2 DEF Announces
<1>8. WellFramed(s) /\ Owes(s, 0) /\ InOrder(k, s) /\ Queued(k, q) /\ Passed(k, q, s)
      /\ Drains(k, s) /\ Shaking(k, q, s)
  BY DEF Fine, Rest
<1> HIDE DEF q, rest, s, t, r
<1>9. WellFramed(t) /\ Owes(t, n - m) /\ Headers(t) = Headers(s) \cup {Len(s) + 1}
  <2>1. s \in Seq(Unit) /\ t \in Seq(Unit) /\ r.id \in Nat
    BY <1>1, <1>3
  <2>2. WellFramed(s) /\ Owes(s, 0)
    BY <1>8
  <2> DEFINE id == r.id
  <2>3. id \in Nat /\ Announces(t, s, id, n, m)
    BY <2>1, <1>7
  <2> HIDE DEF id
  <2>4. WellFramed(t) /\ Owes(t, n - m) /\ Headers(t) = Headers(s) \cup {Len(s) + 1}
    BY <2>1, <2>2, <2>3, HeaderAdded, Zenon
  <2> QED
    BY <2>4
<1>10. /\ Len(s) \in Nat /\ t[Len(s) + 1].id = r.id
       /\ \A h \in Headers(s) : h \in 1 .. Len(s) /\ t[h] = s[h] /\ s[h].id < r.id /\ s[h].id \in Nat
       /\ HasHeader(t, r.id) /\ \A x : HasHeader(s, x) => HasHeader(t, x)
  <2>1. t[Len(s) + 1].id = r.id
    BY <1>7 DEF Header
  <2>2. HasHeader(t, r.id)
    BY <2>1, <1>9 DEF HasHeader
  <2>3. r.part = 1
    BY DEF r
  <2>4. \A h \in Headers(s) : s[h].id < r.id
    BY <2>3, <1>2, <1>8 DEF Passed
  <2>5. Len(s) \in Nat /\ \A h \in Headers(s) : h \in 1 .. Len(s) /\ s[h].id \in Nat
    BY <1>1, Units, Zenon
  <2>6. /\ \A h \in Headers(s) : t[h] = s[h]
        /\ \A x : HasHeader(s, x) => HasHeader(t, x)
    <3>1. Extends(t, s)
      BY <1>7
    <3> QED
      BY <3>1, <1>1, HeadersKept
  <2> QED
    BY <2>1, <2>2, <2>4, <2>5, <2>6
<1>11. ASSUME NEW x \in 1 .. r.id PROVE HasHeader(t, x) \/ Malforms(k, x)
  <2>1. CASE x = r.id
    BY <2>1, <1>10
  <2>2. CASE x # r.id
    <3>1. x \in 1 .. r.id - 1
      BY <2>2, <1>3
    <3> QED
      BY <3>1, <1>2, <1>10
  <2> QED
    BY <2>1, <2>2
<1>12. InOrder(l, t)
  <2>1. \A h \in Headers(t) : t[h].id \in 1 .. Len(k.sent)
    BY <1>3, <1>8, <1>9, <1>10 DEF InOrder
  <2>2. \A h, i \in Headers(t) : h < i => t[h].id < t[i].id
    <3> TAKE h, i \in Headers(t)
    <3> HAVE h < i
    <3>1. CASE h \in Headers(s) /\ i \in Headers(s)
      BY <3>1, <1>8, <1>10 DEF InOrder
    <3>2. CASE h \in Headers(s) /\ i = Len(s) + 1
      BY <3>2, <1>10
    <3>3. CASE h = Len(s) + 1
      BY <3>3, <1>9, <1>10
    <3> QED
      BY <3>1, <3>2, <3>3, <1>9
  <2>3. ASSUME NEW i \in Headers(t), NEW x \in 1 .. t[i].id PROVE HasHeader(t, x) \/ Malforms(k, x)
    <3>1. CASE i \in Headers(s)
      BY <3>1, <1>8, <1>10 DEF InOrder
    <3>2. CASE i = Len(s) + 1
      BY <3>2, <1>10, <1>11
    <3> QED
      BY <3>1, <3>2, <1>9
  <2>4. InOrder(k, t)
    BY <2>1, <2>2, <2>3 DEF InOrder
  <2> QED
    BY <2>4, <1>4, SameTalk
<1>13. Queued(l, rest)
  <2>1. ASSUME NEW i \in 1 .. p PROVE ~Has(rest, q[i].id, 2)
    <3> SUFFICES ASSUME NEW j \in DOMAIN rest, rest[j].id = r.id PROVE FALSE
      BY <1>6 DEF Has
    <3> QED
      BY <1>3, <1>6
  <2>2. Queued(k, rest)
    BY <2>1, <1>1, <1>5, <1>8, QueuedRest
  <2> QED
    BY <2>2, <1>4, SameTalk
<1>14. Passed(l, rest, t)
  <2>1. \A h \in Headers(t), i \in DOMAIN rest : rest[i].part = 1 => t[h].id < rest[i].id
    <3> TAKE h \in Headers(t), i \in DOMAIN rest
    <3>1. rest[i].id > r.id /\ rest[i].id \in Nat
      <4>1. rest[i] \in Fragment
        BY <1>1, Indexes
      <4>2. rest[i].id \in Nat
        BY <4>1 DEF Fragment
      <4> QED
        BY <4>2, <1>6, Zenon
    <3>2. t[h].id <= r.id /\ t[h].id \in Nat
      <4>1. CASE h \in Headers(s)
        <5>1. t[h] = s[h] /\ s[h].id < r.id /\ s[h].id \in Nat
          BY <4>1, <1>10, Zenon
        <5> QED
          BY <5>1, <1>3
      <4>2. CASE h = Len(s) + 1
        BY <4>2, <1>3, <1>10
      <4> QED
        BY <4>1, <4>2, <1>9
    <3> QED
      BY <3>1, <3>2, <1>3
  <2>2. k.last = 1 => ~HasHeader(t, Len(k.sent))
    <3> SUFFICES ASSUME k.last = 1, NEW h \in Headers(t), t[h].id = Len(k.sent) PROVE FALSE
      BY DEF HasHeader
    <3>1. CASE h \in Headers(s)
      BY <3>1, <1>8, <1>10 DEF Passed, HasHeader
    <3>2. CASE h = Len(s) + 1
      <4>1. r.id = Len(k.sent)
        BY <3>2, <1>10
      <4>2. k.sent[Len(k.sent)] \in InTwoParts /\ ~Has(q, Len(k.sent), 2)
        BY <1>8 DEF Queued
      <4>3. p = 2
        BY <4>1, <4>2, <1>2 DEF r
      <4>4. 2 \in DOMAIN q /\ q[2].id = r.id /\ q[2] \in Fragment
        <5>1. Len(q) \in Nat /\ DOMAIN q = 1 .. Len(q) /\ Len(q) >= 2
          BY <1>1, <1>5, <4>3, Indexes DEF IsRest
        <5>2. 2 \in DOMAIN q
          BY <5>1
        <5> QED
          BY <5>2, <4>3, <1>1, <1>6, Indexes
      <4>5. Before(q[1], q[2])
        BY <4>4, <1>2, <1>8 DEF Queued
      <4>6. q[2].part = 2
        BY <4>4, <4>5, <1>2, <1>3 DEF Before
      <4> QED
        BY <4>1, <4>2, <4>4, <4>6 DEF Has
    <3> QED
      BY <3>1, <3>2, <1>9
  <2>3. Passed(k, rest, t)
    BY <2>1, <2>2, <1>1, <1>5, <1>6, <1>8, <1>10, PassedRest
  <2> QED
    BY <2>3, <1>4, SameTalk
<1>15. Drains(l, t)
  <2>1. CASE k.is_draining
    <3>1. PICK i \in DOMAIN k.sent :
              /\ k.sent[i] \in {"bad", "close"}
              /\ \A j \in 1 .. i : k.sent[j] = "bad" \/ AnsweredTo(s, j)
      BY <2>1, <1>8 DEF Drains
    <3>2. \A j \in 1 .. i : k.sent[j] = "bad" \/ AnsweredTo(t, j)
      BY <3>1, <1>1, <1>7, HeadersKept
    <3> QED
      BY <3>1, <3>2, <1>4 DEF Drains
  <2>2. CASE ~k.is_draining /\ l.is_draining
    <3>1. k.sent[r.id] = "close" /\ ~l.is_resp
      BY <2>2, <1>2 DEF r
    <3>2. n - m = 0
      BY <3>1 DEF Rest
    <3>3. Owes(t, 0)
      BY <3>2, <1>9
    <3>4. \A x \in 1 .. r.id : HasHeader(t, x) \/ Malforms(l, x)
      BY <1>4, <1>11, SameTalk
    <3>5. r.id \in DOMAIN l.sent /\ l.sent[r.id] = "close"
      BY <3>1, <1>2, <1>4
    <3> QED
      BY <3>3, <3>4, <3>5, <1>1, DrainsFrom
  <2> QED
    BY <2>1, <2>2 DEF Drains
<1>16. Shaking(l, rest, t)
  <2>1. \A i \in DOMAIN t : i > Len(s) => t[i] # Flight
    <3> TAKE i \in DOMAIN t
    <3> HAVE i > Len(s)
    <3>1. i = Len(s) + 1 \/ i \in Len(s) + 2 .. Len(t)
      <4>1. i \in 1 .. Len(t) /\ Len(t) \in Nat /\ Len(s) \in Nat
        BY <1>1, Units
      <4>2. \A x, y \in Nat : \A z \in 1 .. y : z > x => z = x + 1 \/ z \in x + 2 .. y
        OBVIOUS
      <4> QED
        BY <4>1, <4>2, Zenon
    <3>2. t[i] = Header(r.id, n) \/ t[i] = Body
      BY <3>1, <1>7, Zenon
    <3> QED
      BY <3>2 DEF Header, Body, Flight
  <2> QED
    BY <2>1, <1>1, <1>2, <1>5, <1>7, <1>8, StillShaken
<1>17. Live(l) /\ Len(l.out) <= SocketRoom /\ (Streaming(l) => l.socket = "open" /\ l.is_tls_hs = "no") /\ l.socket # "backlog"
  BY <1>2, <1>4 DEF Live, Fine, Handled
<1> QED
  BY <1>9, <1>12, <1>13, <1>14, <1>15, <1>16, <1>17 DEF Fine, rest, t

\* An answer is written, or its header is and static_cb has the rest to send.
Wrote(k, l, id) ==
    \E n \in 0 .. FileSize : \E m \in 0 .. n :
        /\ l.send = k.send \o <<Header(id, n)>> \o [i \in 1 .. m |-> Body]
        /\ Rest(l) = n - m

\* What an answer does to the connection.
Answers(k, l, id) ==
    /\ l \in Connection /\ Handled(k, l)
    /\ l.recv = k.recv /\ l.is_draining = k.is_draining /\ l.is_closing = k.is_closing
    /\ l.atClose = k.atClose
    /\ Streaming(l) <=> l.is_resp
    /\ Wrote(k, l, id)

\* mg_http_reply writes one answer, in whole.
LEMMA ReplyAnswers ==
  ASSUME NEW k \in Connection, ~Streaming(k), NEW r \in Fragment, NEW n \in 0 .. FileSize
  PROVE  Answers(k, Reply(k, r, n), r.id)
<1> DEFINE x == k.send \o <<Header(r.id, n)>> \o [i \in 1 .. n |-> Body]
           l == Reply(k, r, n)
<1>1. x \in Seq(Unit)
  <2> DEFINE a == k.send
             h == <<Header(r.id, n)>>
             y == [i \in 1 .. n |-> Body]
  <2>1. r.id \in Nat /\ n \in 0 .. n
    BY WebServerAssumption DEF Fragment
  <2>2. h \in Seq(Unit) /\ y \in Seq(Unit) /\ a \in Seq(Unit)
    BY <2>1, AnAnswer, Queues
  <2> HIDE DEF a, h, y
  <2>3. a \o h \in Seq(Unit)
    BY <2>2, ConcatProperties
  <2>4. a \o h \o y \in Seq(Unit)
    BY <2>2, <2>3, ConcatProperties
  <2> QED
    BY <2>4 DEF a, h, y
<1>2. l = [k EXCEPT !.send = x, !.is_resp = FALSE]
  BY DEF Reply
<1> HIDE DEF x, l
<1>3. l \in Connection
  BY <1>1, <1>2, QueuesTyped, FlagsTyped, Zenon
<1>4. /\ Handled(k, l) /\ l.send = x /\ l.is_resp = FALSE /\ l.file = k.file
      /\ l.recv = k.recv /\ l.is_draining = k.is_draining /\ l.is_closing = k.is_closing
      /\ l.atClose = k.atClose
  BY <1>2 DEF Connection, Handled
<1>5. ~Streaming(l) /\ Rest(l) = n - n /\ n \in 0 .. n
  BY <1>4, WebServerAssumption DEF Streaming, Rest
<1>6. Wrote(k, l, r.id)
  BY <1>4, <1>5, Zenon DEF x, Wrote
<1> QED
  BY <1>3, <1>4, <1>5, <1>6 DEF Answers, l

\* A header without a body is an answer too.
LEMMA HeaderOnly ==
  ASSUME NEW a \in Seq(Unit), NEW id \in Nat, NEW n \in 0 .. FileSize
  PROVE  /\ Append(a, Header(id, n)) \in Seq(Unit)
         /\ Append(a, Header(id, n)) = a \o <<Header(id, n)>> \o [i \in 1 .. 0 |-> Body]
<1> DEFINE h == Header(id, n)
<1>1. h \in Unit
  BY DEF Header, Unit
<1>2. [i \in 1 .. 0 |-> Body] = <<>>
  OBVIOUS
<1> HIDE DEF h
<1>3. Append(a, h) = a \o <<h>> /\ Append(a, h) \in Seq(Unit)
  BY <1>1, AppendIsConcat, AppendProperties
<1>4. Append(a, h) \o <<>> = Append(a, h)
  BY <1>3, ConcatEmptySeq
<1> QED
  BY <1>2, <1>3, <1>4, Zenon DEF h

\* Only the header is written, and what f says is streamed.
LEMMA HeaderAnswers ==
  ASSUME NEW k \in Connection, NEW id \in Nat, NEW n \in 0 .. FileSize, NEW f \in 0 .. NoFile,
         NEW l, NEW b \in BOOLEAN,
         l = [k EXCEPT !.send = Append(@, Header(id, n)), !.file = f, !.is_resp = b],
         f # NoFile <=> b, n = IF b THEN f ELSE 0
  PROVE  Answers(k, l, id)
<1> DEFINE x == Append(k.send, Header(id, n))
<1>1. x \in Seq(Unit) /\ x = k.send \o <<Header(id, n)>> \o [i \in 1 .. 0 |-> Body]
  BY HeaderOnly, Queues
<1>2. l = [k EXCEPT !.send = x, !.file = f, !.is_resp = b]
  BY Zenon
<1> HIDE DEF x
<1>3. l \in Connection
  <2>1. \A z \in Connection : [z EXCEPT !.is_resp = b] \in Connection
    BY FlagsTyped, Zenon
  <2>2. \A z \in Connection : [z EXCEPT !.file = f] \in Connection
    BY FlagsTyped, Zenon
  <2>3. [k EXCEPT !.send = x] \in Connection
    BY <1>1, QueuesTyped, Zenon
  <2>4. [[[k EXCEPT !.send = x] EXCEPT !.file = f] EXCEPT !.is_resp = b] \in Connection
    BY <2>1, <2>2, <2>3, Zenon
  <2> QED
    BY <1>2, <2>4
<1>4. /\ Handled(k, l) /\ l.send = x /\ l.is_resp = b /\ l.file = f
      /\ l.recv = k.recv /\ l.is_draining = k.is_draining /\ l.is_closing = k.is_closing
      /\ l.atClose = k.atClose
  BY <1>2 DEF Connection, Handled
<1>5. Streaming(l) <=> l.is_resp
  BY <1>4 DEF Streaming
<1>6. Rest(l) = n - 0 /\ 0 \in 0 .. n
  BY <1>4, WebServerAssumption DEF Streaming, Rest
<1>7. Wrote(k, l, id)
  BY <1>1, <1>4, <1>6, Zenon DEF Wrote
<1> QED
  BY <1>3, <1>4, <1>5, <1>7 DEF Answers

\* mg_http_serve_file writes one header, and what it announces it has to stream.
LEMMA ServeAnswers ==
  ASSUME NEW c, NEW k \in Connection, ~Streaming(k), k.is_resp, NEW r \in Fragment
  PROVE  Answers(k, mg_http_serve_file(c, k, r), r.id)
<1>1. FileSize \in Nat /\ r.id \in Nat
  BY WebServerAssumption DEF Fragment
<1>2. CASE OutOfFiles(c, k)
  <2>1. Least(1, FileSize) \in 0 .. FileSize
    BY <1>1 DEF Least
  <2>2. Answers(k, NotFound(c, k, r), r.id)
    BY <2>1, ReplyAnswers DEF NotFound
  <2> QED
    BY <2>2, <1>2 DEF mg_http_serve_file
<1>3. CASE ~OutOfFiles(c, k) /\ r.kind = "head"
  <2> DEFINE l == [k EXCEPT !.send = Append(@, Header(r.id, 0)), !.is_resp = FALSE]
  <2>1. k.file = NoFile
    BY DEF Streaming
  <2>2. l = [k EXCEPT !.send = Append(@, Header(r.id, 0)), !.file = NoFile, !.is_resp = FALSE]
    BY <2>1 DEF Connection
  <2>3. NoFile \in 0 .. NoFile /\ 0 \in 0 .. FileSize
    BY <1>1 DEF NoFile
  <2> HIDE DEF l
  <2>4. Answers(k, l, r.id)
    BY <2>2, <2>3, <1>1, HeaderAnswers
  <2> QED
    BY <2>4, <1>3 DEF mg_http_serve_file, l
<1>4. CASE ~OutOfFiles(c, k) /\ r.kind # "head"
  <2> DEFINE n == ContentLength(r)
             l == [k EXCEPT !.send = Append(@, Header(r.id, n)), !.file = n]
  <2>1. n \in 0 .. FileSize /\ n \in 0 .. NoFile /\ n # NoFile
    BY <1>1 DEF ContentLength, NoFile
  <2> HIDE DEF n
  <2>2. l = [k EXCEPT !.send = Append(@, Header(r.id, n)), !.file = n, !.is_resp = TRUE]
    BY DEF Connection
  <2> HIDE DEF l
  <2>3. Answers(k, l, r.id)
    BY <2>1, <2>2, <1>1, HeaderAnswers
  <2> QED
    BY <2>3, <1>4, Zenon DEF mg_http_serve_file, l, n
<1> QED
  BY <1>2, <1>3, <1>4

\* The user's handler answers once, whatever it is asked.
LEMMA FnAnswers ==
  ASSUME NEW c, NEW k \in Connection, ~Streaming(k), k.is_resp, NEW r \in Fragment
  PROVE  Answers(k, fn(c, k, r), r.id)
<1>1. 0 \in 0 .. FileSize
  BY WebServerAssumption
<1> QED
  BY <1>1, ServeAnswers, ReplyAnswers DEF fn

\* The first p parts are cut from what was read, and r is answered.
Takes(k, l, r, p, ev) ==
    /\ l \in Connection /\ Handled(k, l) /\ l.is_closing = k.is_closing
    /\ l.recv = SubSeq(k.recv, p + 1, Len(k.recv))
    /\ l.atClose <=> k.atClose \/ ev = "close"
    /\ Streaming(l) <=> l.is_resp
    /\ Wrote(k, l, r.id)
    /\ l.is_draining => k.is_draining \/ (r.kind = "close" /\ ~l.is_resp)

\* HandleRequest takes the parts of the request, and answers it.
LEMMA RequestTaken ==
  ASSUME NEW c, NEW k \in Connection, ~Streaming(k), NEW r \in Fragment, NEW ev,
         NEW p \in 0 .. Len(k.recv), NEW l, l = HandleRequest(c, k, r, p, ev).k
  PROVE  Takes(k, l, r, p, ev)
<1> DEFINE rest == SubSeq(k.recv, p + 1, Len(k.recv))
           a == k.atClose \/ ev = "close"
           k1 == [k EXCEPT !.recv = SubSeq(@, p + 1, Len(@)), !.is_resp = TRUE,
                           !.atClose = @ \/ ev = "close"]
           k2 == fn(c, k1, r)
<1>1. rest \in Seq(Fragment)
  BY Queues, CutAt
<1>2. k1 = [k EXCEPT !.recv = rest, !.is_resp = TRUE, !.atClose = a]
  BY DEF Connection
<1>3. l = AfterAnswer(r, k2).k
  BY Zenon DEF HandleRequest
<1>4. a \in BOOLEAN
  BY DEF Connection
<1> HIDE DEF rest, a, k1
<1>5. /\ k1 \in Connection /\ ~Streaming(k1) /\ k1.is_resp /\ Handled(k, k1) /\ k1.send = k.send
      /\ k1.recv = rest /\ k1.atClose = a /\ k1.is_draining = k.is_draining /\ k1.is_closing = k.is_closing
  BY <1>1, <1>2, <1>4 DEF Connection, Handled, Streaming
<1>6. Answers(k1, k2, r.id)
  BY <1>5, FnAnswers
<1> HIDE DEF k2
<1>7. /\ k2 \in Connection /\ Handled(k1, k2) /\ k2.recv = rest /\ k2.atClose = a
      /\ k2.is_draining = k.is_draining /\ k2.is_closing = k.is_closing
      /\ Streaming(k2) <=> k2.is_resp
      /\ Wrote(k, k2, r.id)
  <2>1. Wrote(k1, k2, r.id) => Wrote(k, k2, r.id)
    BY <1>5, Zenon DEF Wrote
  <2> QED
    BY <2>1, <1>5, <1>6 DEF Answers
<1>8. Handled(k, k2)
  BY <1>5, <1>7 DEF Handled
<1>9. CASE r.kind = "close" /\ ~k2.is_resp
  <2>1. l = [k2 EXCEPT !.is_draining = TRUE]
    BY <1>3, <1>9 DEF AfterAnswer, Stops
  <2>2. l \in Connection
    BY <2>1, <1>7, FlagsTyped, Zenon
  <2>3. /\ Handled(k2, l) /\ l.recv = k2.recv /\ l.atClose = k2.atClose /\ l.is_closing = k2.is_closing
        /\ l.is_resp = k2.is_resp /\ l.send = k2.send /\ l.file = k2.file
    BY <2>1, <1>7 DEF Connection, Handled
  <2>4. Handled(k, l) /\ (Streaming(l) <=> Streaming(k2)) /\ Rest(l) = Rest(k2)
    BY <2>3, <1>8 DEF Handled, Streaming, Rest
  <2>5. Wrote(k, l, r.id)
    BY <2>3, <2>4, <1>7, Zenon DEF Wrote
  <2> QED
    BY <2>2, <2>3, <2>4, <2>5, <1>7, <1>9, Zenon DEF rest, a, Takes
<1>10. CASE ~(r.kind = "close" /\ ~k2.is_resp)
  <2>1. l = k2
    BY <1>3, <1>10 DEF AfterAnswer, GoesOn
  <2> QED
    BY <2>1, <1>7, <1>8, Zenon DEF rest, a, Takes
<1> QED
  BY <1>9, <1>10

\* The first p parts that were read are r, a whole request.
FirstRequest(k, r, p) ==
    /\ k.recv # <<>> /\ r = Head(k.recv) /\ r.part = 1
    /\ p \in 1 .. Len(k.recv)
    /\ p = IF r.kind \in InTwoParts THEN 2 ELSE 1

\* A connection on which the first request was taken and answered is as good as before.
LEMMA TakenFine ==
  ASSUME NEW k, Fine(k), ~k.is_resp, k.is_tls_hs = "no",
         NEW r, NEW p, FirstRequest(k, r, p),
         NEW ev, ev # "close", NEW l, Takes(k, l, r, p, ev)
  PROVE  Fine(l)
<1>1. ~k.atClose
  BY DEF Fine
<1>2. r = k.recv[1] /\ k.recv # <<>>
  <2>1. k.recv # <<>> /\ r = Head(k.recv)
    BY DEF FirstRequest
  <2>2. Head(k.recv) = k.recv[1]
    BY <2>1, FirstWaiting
  <2> QED
    BY <2>1, <2>2
<1>3. PICK n \in 0 .. FileSize : \E m \in 0 .. n :
          /\ l.send = k.send \o <<Header(r.id, n)>> \o [i \in 1 .. m |-> Body]
          /\ Rest(l) = n - m
  BY Zenon DEF Wrote, Takes
<1>4. PICK m \in 0 .. n :
          /\ l.send = k.send \o <<Header(r.id, n)>> \o [i \in 1 .. m |-> Body]
          /\ Rest(l) = n - m
  BY <1>3
<1>5. /\ l \in Connection /\ Handled(k, l) /\ ~l.atClose
      /\ l.recv = SubSeq(k.recv, p + 1, Len(k.recv))
      /\ Streaming(l) <=> l.is_resp
  BY <1>1 DEF Takes
<1>6. l.send = k.send \o <<Header(k.recv[1].id, n)>> \o [i \in 1 .. m |-> Body]
  BY <1>2, <1>4, Zenon
<1>7. l.is_draining => k.is_draining \/ (k.recv[1].kind = "close" /\ ~l.is_resp)
  BY <1>2, Zenon DEF Takes
<1>8. /\ k.recv[1].part = 1 /\ p \in 1 .. Len(k.recv)
      /\ p = IF k.recv[1].kind \in InTwoParts THEN 2 ELSE 1
  BY <1>2 DEF FirstRequest
<1> QED
  BY <1>2, <1>4, <1>5, <1>6, <1>7, <1>8, RequestAnswered, ZenonT(30)

\* The first request that was read is one the client sent.
LEMMA FirstRead ==
  ASSUME NEW k, Fine(k), k.is_tls_hs = "no", NEW r, NEW p, FirstRequest(k, r, p)
  PROVE  /\ k \in Connection /\ r \in Fragment /\ p \in 0 .. Len(k.recv)
         /\ r.id \in DOMAIN k.sent /\ r.kind = k.sent[r.id]
<1>1. k.recv # <<>> /\ r = Head(k.recv) /\ p \in 1 .. Len(k.recv)
  BY DEF FirstRequest
<1>2. /\ k.recv[1] \in Fragment /\ Head(k.recv) = k.recv[1] /\ Len(k.recv) \in Nat
      /\ k.recv[1].id \in DOMAIN k.sent /\ k.recv[1].kind = k.sent[k.recv[1].id]
  BY <1>1, FirstWaiting
<1> QED
  BY <1>1, <1>2 DEF Fine

\* The same of HandleRequest, called on anything but MG_EV_CLOSE.
LEMMA RequestHandled ==
  ASSUME NEW c, NEW k, Fine(k), ~k.is_resp, k.is_tls_hs = "no",
         NEW r, NEW p, FirstRequest(k, r, p),
         NEW ev, ev # "close", NEW l, l = HandleRequest(c, k, r, p, ev).k
  PROVE  Fine(l) /\ Handled(k, l) /\ l.is_closing = k.is_closing
<1>1. k \in Connection /\ ~Streaming(k)
  BY DEF Fine
<1>2. r \in Fragment /\ p \in 0 .. Len(k.recv)
  BY FirstRead
<1>3. Takes(k, l, r, p, ev)
  BY <1>1, <1>2, RequestTaken
<1>4. Fine(l)
  BY <1>3, TakenFine
<1> QED
  BY <1>3, <1>4 DEF Takes

\* 411 is an answer in whole: the headers are dropped, the body, if it comes, is malformed.
LEMMA LengthAsked ==
  ASSUME NEW c, NEW k, Fine(k), ~k.is_resp, k.is_tls_hs = "no",
         NEW r, FirstRequest(k, r, 1), r.kind # "close",
         NEW ev, ev # "close", NEW l, l = LengthRequired(c, k, r, ev).k
  PROVE  Fine(l) /\ Handled(k, l) /\ l.is_closing = k.is_closing
<1> DEFINE rest == Processed(k.recv)
           k1 == [k EXCEPT !.recv = Processed(@)]
<1>1. k \in Connection /\ ~Streaming(k) /\ k.recv \in Seq(Fragment) /\ k.recv # <<>>
  BY Queues DEF Fine, FirstRequest
<1>2. r \in Fragment /\ 1 \in 0 .. Len(k.recv)
  BY FirstRead
<1>3. rest = SubSeq(k.recv, 1 + 1, Len(k.recv)) /\ rest \in Seq(Fragment)
  BY <1>1, HeadTailProperties, TailIsSubSeq DEF Processed
<1>4. k1 = [k EXCEPT !.recv = rest]
  OBVIOUS
<1> HIDE DEF rest, k1
<1>5. /\ k1 \in Connection /\ ~Streaming(k1) /\ Handled(k, k1) /\ k1.send = k.send
      /\ k1.recv = rest /\ k1.atClose = k.atClose /\ k1.is_draining = k.is_draining
      /\ k1.is_closing = k.is_closing /\ k1.is_resp = k.is_resp
  BY <1>1, <1>3, <1>4 DEF Connection, Handled, Streaming
<1>6. l = Reply(k1, r, 0)
  BY Zenon DEF LengthRequired, Stops, k1
<1>7. Answers(k1, l, r.id)
  <2>1. 0 \in 0 .. FileSize
    BY WebServerAssumption
  <2> QED
    BY <2>1, <1>2, <1>5, <1>6, ReplyAnswers
<1>8. Wrote(k, l, r.id)
  <2>1. Wrote(k1, l, r.id)
    BY <1>7 DEF Answers
  <2> QED
    BY <2>1, <1>5, Zenon DEF Wrote
<1>9. Handled(k, l)
  BY <1>5, <1>7 DEF Handled, Answers
<1>10. Takes(k, l, r, 1, ev)
  BY <1>3, <1>5, <1>7, <1>8, <1>9 DEF Takes, Answers
<1>11. Fine(l)
  BY <1>10, TakenFine
<1> QED
  BY <1>10, <1>11 DEF Takes

-----------------------------------------------------------------------------
(* The rounds of http_cb.                                                  *)

\* A malformed request drains the connection: all before it was answered, and what was
\* read with it is dropped.
LEMMA MalformedDrains ==
  ASSUME NEW k, Fine(k), ~k.is_resp, k.is_tls_hs = "no", k.recv # <<>>,
         k.recv[1].kind = "bad" \/ k.recv[1].part = 2,
         NEW l, l = [k EXCEPT !.is_draining = TRUE, !.recv = <<>>]
  PROVE  Fine(l) /\ Handled(k, l) /\ l.is_closing = k.is_closing
<1> DEFINE q == Waiting(k)
           rest == Waiting(l)
           s == Stream(k)
           r == k.recv[1]
           p == Len(k.recv)
<1>1. /\ k \in Connection /\ q \in Seq(Fragment) /\ s \in Seq(Unit) /\ k.sent \in Seq(Kind)
      /\ k.recv \in Seq(Fragment) /\ DOMAIN k.sent = 1 .. Len(k.sent) /\ Len(k.sent) \in Nat
  BY Queues DEF Fine
<1>2. /\ k.socket = "open" /\ r \in Fragment /\ r.id \in DOMAIN k.sent /\ r.kind = k.sent[r.id]
      /\ \A x \in 1 .. r.id - 1 : HasHeader(s, x) \/ Malforms(k, x)
      /\ p \in Nat
      /\ r.part = 2 => Malforms(k, r.id)
  <2>1. p \in Nat
    BY FirstWaiting
  <2>2. r.part = 2 => Malforms(k, r.id)
    BY FirstWaiting
  <2> QED
    BY <2>1, <2>2, FirstWaiting
<1>3. l \in Connection
  <2>1. k \in Connection /\ <<>> \in Seq(Fragment)
    BY <1>1
  <2> QED
    BY <2>1 DEF Connection
<1>4. /\ Handled(k, l) /\ l.recv = <<>> /\ l.send = k.send /\ l.file = k.file /\ l.is_resp = k.is_resp
      /\ l.is_closing = k.is_closing /\ l.atClose = k.atClose /\ l.is_draining = TRUE
  BY <1>1 DEF Connection, Handled
<1>5. l.recv = SubSeq(k.recv, p + 1, p) /\ p \in 0 .. p
  <2>1. p \in 0 .. p
    BY <1>2
  <2>2. SubSeq(k.recv, p + 1, p) \in Seq(Fragment) /\ Len(SubSeq(k.recv, p + 1, p)) = 0
    BY <2>1, <1>1, <1>2, CutAt
  <2> QED
    BY <2>1, <2>2, <1>4, EmptySeq
<1>6. IsRest(rest, q, p) /\ rest \in Seq(Fragment)
  BY <1>1, <1>3, <1>4, <1>5, Cut, Queues DEF Handled
<1>7. Stream(l) = s
  BY <1>4 DEF Handled, Stream, Delivered
<1>8. WellFramed(s) /\ Owes(s, 0) /\ InOrder(k, s) /\ Queued(k, q) /\ Passed(k, q, s)
      /\ Shaking(k, q, s)
  BY DEF Fine, Rest
<1>9. ASSUME NEW x \in Nat, r.id <= x PROVE Malforms(k, x)
  <2>1. r.id \in Nat /\ r.id \in 1 .. r.id
    BY <1>1, <1>2
  <2>2. Malforms(k, r.id)
    BY <2>1, <1>2 DEF Malforms
  <2> QED
    BY <2>1, <2>2, <1>9 DEF Malforms
<1>10. ASSUME NEW i \in 1 .. p PROVE Malforms(k, q[i].id)
  <2>1. i \in DOMAIN q
    <3>1. p <= Len(q) /\ DOMAIN q = 1 .. Len(q) /\ Len(q) \in Nat
      BY <1>1, FirstWaiting, Indexes
    <3> QED
      BY <3>1, <1>2
  <2>2. q[i].id \in Nat /\ r.id <= q[i].id
    BY <2>1, FirstWaiting
  <2> QED
    BY <2>2, <1>9
<1> HIDE DEF q, rest, s, r, p
<1>11. Queued(l, rest)
  <2>1. Queued(k, rest)
    BY <1>1, <1>2, <1>6, <1>8, <1>10, QueuedRest
  <2> QED
    BY <2>1, <1>4, SameTalk DEF Handled
<1>12. Passed(l, rest, s)
  <2>1. \A h \in Headers(s), i \in DOMAIN rest : rest[i].part = 1 => s[h].id < rest[i].id
    <3> TAKE h \in Headers(s), i \in DOMAIN rest
    <3> HAVE rest[i].part = 1
    <3>1. i + p \in DOMAIN q /\ rest[i] = q[i + p]
      BY <1>1, <1>2, <1>6, Indexes DEF IsRest
    <3> QED
      BY <3>1, <1>8 DEF Passed
  <2>2. k.last = 1 => ~HasHeader(s, Len(k.sent))
    BY <1>8 DEF Passed
  <2>3. Passed(k, rest, s)
    BY <2>1, <2>2, <1>1, <1>2, <1>6, <1>8, <1>10, PassedRest
  <2> QED
    BY <2>3, <1>4, SameTalk DEF Handled
<1>13. Drains(l, s)
  <2>1. r.id \in Nat
    BY <1>1, <1>2
  <2>2. \A m \in 1 .. r.id : HasHeader(s, m) \/ Malforms(l, m)
    <3> TAKE m \in 1 .. r.id
    <3>1. m \in 1 .. r.id - 1 \/ m = r.id
      BY <2>1
    <3>2. HasHeader(s, m) \/ Malforms(k, m)
      BY <3>1, <2>1, <1>2, <1>9
    <3> QED
      BY <3>2, <1>4, SameTalk DEF Handled
  <2>3. Malforms(l, r.id) /\ r.id \in DOMAIN l.sent
    <3>1. Malforms(k, r.id)
      BY <2>1, <1>9
    <3> QED
      BY <3>1, <1>2, <1>4, SameTalk DEF Handled
  <2> QED
    BY <2>2, <2>3, <1>1, <1>3, <1>8, DrainsFrom
<1>14. Shaking(l, rest, s)
  <2>1. Extends(s, s) /\ \A i \in DOMAIN s : i > Len(s) => s[i] # Flight
    BY <1>1, Units DEF Extends
  <2> QED
    BY <2>1, <1>1, <1>2, <1>3, <1>4, <1>6, <1>8, StillShaken
<1>15. InOrder(l, s)
  BY <1>4, <1>8, SameTalk DEF Handled
<1>16. /\ Live(l) /\ ~l.atClose /\ (Streaming(l) <=> l.is_resp)
       /\ (Streaming(l) => l.socket = "open" /\ l.is_tls_hs = "no") /\ l.socket # "backlog"
       /\ Owes(s, Rest(l)) /\ Len(l.out) <= SocketRoom
  BY <1>2, <1>4, <1>8 DEF Fine, Live, Streaming, Rest, Handled
<1> QED
  BY <1>3, <1>4, <1>7, <1>8, <1>11, <1>12, <1>13, <1>14, <1>15, <1>16 DEF Fine, rest

\* What only an unknown Transfer-Encoding asks for.
AsksToClose(k, l) == l.is_closing => k.is_closing \/ "badchunk" \in Range(k.sent)

\* After an unknown Transfer-Encoding only is_closing is set.
LEMMA ClosedFine ==
  ASSUME NEW k, Fine(k), k.socket = "open", ~k.is_resp, k.is_tls_hs = "no",
         NEW l, l = [k EXCEPT !.is_closing = TRUE]
  PROVE  Fine(l) /\ Handled(k, l)
<1>1. k \in Connection
  BY DEF Fine
<1>2. l \in Connection
  BY <1>1, FlagsTyped, Zenon
<1>3. /\ Handled(k, l) /\ l.recv = k.recv /\ l.send = k.send
      /\ l.file = k.file /\ l.is_resp = k.is_resp /\ l.is_draining = k.is_draining
      /\ l.atClose = k.atClose
  BY <1>1, Zenon DEF Connection, Handled
<1>4. Waiting(l) = Waiting(k) /\ Stream(l) = Stream(k)
  BY <1>3 DEF Handled, Waiting, Stream, Delivered
<1>5. /\ ~k.is_tls => l.rtls = <<>> /\ l.tlsSend = <<>>
      /\ k.is_tls_hs # "no" => l.recv = <<>> /\ l.send = <<>>
  BY <1>3 DEF Fine, Shaking, Handled
<1>6. LeftAlone(k, l) /\ l.is_tls_hs = k.is_tls_hs
  BY <1>3 DEF Handled, LeftAlone
<1>7. (Streaming(l) <=> l.is_resp) /\ ~Streaming(l) /\ Rest(l) = Rest(k) /\ Len(l.out) <= SocketRoom
  BY <1>3 DEF Fine, Streaming, Rest, Handled
<1>8. MovesOn(k, l)
  BY <1>2, <1>3, <1>4, <1>5, <1>6, <1>7 DEF MovesOn
<1> QED
  BY <1>3, <1>8, MovedOn

\* One round of the loop of http_cb.
LEMMA RoundFine ==
  ASSUME NEW c, NEW k, Fine(k), ~k.is_resp, k.is_tls_hs = "no", k.recv # <<>>,
         NEW ev, ev # "close", NEW l, l = OneRequest(c, k, ev).k
  PROVE  Fine(l) /\ Handled(k, l) /\ AsksToClose(k, l)
<1> DEFINE r == Head(k.recv)
           p == Extent(k, r, ev)
<1>1. /\ k \in Connection /\ k.socket = "open" /\ r = k.recv[1] /\ r \in Fragment
      /\ Len(k.recv) \in Nat \ {0} /\ r.id \in DOMAIN k.sent /\ r.kind = k.sent[r.id]
  BY FirstWaiting DEF Fine
<1>2. r.part \in {1, 2}
  BY <1>1 DEF Fragment
<1>3. p = IF r.kind \in InTwoParts THEN 2 ELSE 1
  BY DEF Extent
<1> HIDE DEF r, p
<1>9. r.part = 2 => r.kind \in InTwoParts
  <2>1. Known(k, r)
    BY <1>1, FirstWaiting DEF Fine, Queued
  <2>2. r.id # 0
    BY <1>1, Queues
  <2> QED
    BY <2>1, <2>2 DEF Known
<1>4. CASE r.kind = "bad" \/ r.part = 2
  <2>1. /\ ~(r.kind = "badchunk") /\ ~(r.kind = "nolen")
        /\ ~(r.kind \notin {"bad", "badchunk", "nolen"} /\ r.part = 1 /\ p <= Len(k.recv))
    BY <1>4, <1>9 DEF InTwoParts
  <2>4. OneRequest(c, k, ev) = Malformed(k)
    BY <2>1, <1>4 DEF OneRequest, r, p
  <2>2. l = [k EXCEPT !.is_draining = TRUE, !.recv = <<>>]
    BY <2>4 DEF Malformed, Stops
  <2>3. k.recv[1].kind = "bad" \/ k.recv[1].part = 2
    BY <1>1, <1>4, Zenon
  <2> QED
    BY <2>2, <2>3, MalformedDrains, Zenon DEF AsksToClose
<1>5. CASE r.kind = "badchunk" /\ r.part = 1
  <2>1. OneRequest(c, k, ev) = Stops([k EXCEPT !.is_closing = TRUE])
    BY <1>5 DEF OneRequest, r
  <2>2. l = [k EXCEPT !.is_closing = TRUE]
    BY <2>1 DEF Stops
  <2>6. Fine(l) /\ Handled(k, l)
    BY <2>2, <1>1, ClosedFine, Zenon
  <2>7. "badchunk" \in Range(k.sent)
    BY <1>1, <1>5, Zenon DEF Range
  <2> QED
    BY <2>6, <2>7, Zenon DEF AsksToClose
<1>6. CASE r.kind = "nolen" /\ r.part = 1
  <2>1. OneRequest(c, k, ev) = LengthRequired(c, k, r, ev)
    BY <1>6 DEF OneRequest, r
  <2>2. FirstRequest(k, r, 1) /\ r.kind # "close"
    BY <1>1, <1>6 DEF FirstRequest, InTwoParts, r
  <2>3. l = LengthRequired(c, k, r, ev).k
    BY <2>1
  <2> QED
    BY <2>2, <2>3, LengthAsked DEF AsksToClose
<1>7. CASE r.kind \notin {"bad", "badchunk", "nolen"} /\ r.part = 1 /\ p <= Len(k.recv)
  <2>1. OneRequest(c, k, ev) = HandleRequest(c, k, r, p, ev)
    BY <1>7 DEF OneRequest, r, p
  <2>2. p \in 1 .. Len(k.recv)
    BY <1>1, <1>3, <1>7
  <2>3. FirstRequest(k, r, p)
    BY <2>2, <1>3, <1>7, Zenon DEF FirstRequest, r
  <2>4. l = HandleRequest(c, k, r, p, ev).k
    BY <2>1
  <2> QED
    BY <2>3, <2>4, RequestHandled DEF AsksToClose
<1>8. CASE r.kind \notin {"bad", "badchunk", "nolen"} /\ r.part = 1 /\ ~(p <= Len(k.recv))
  <2>1. OneRequest(c, k, ev) = Stops(k)
    BY <1>8 DEF OneRequest, r, p
  <2>2. l = k
    BY <2>1 DEF Stops
  <2> QED
    BY <2>2 DEF AsksToClose, Handled
<1> QED
  BY <1>2, <1>4, <1>5, <1>6, <1>7, <1>8

\* The rounds of http_cb, of which f is the record: f[n] is the loop after n rounds.
Round(c, loop, ev) == IF While(loop) THEN OneRequest(c, loop.k, ev) ELSE Stops(loop.k)

Rounds(c, k, ev, f, m) ==
    f = [n \in 0 .. m |-> IF n = 0 THEN GoesOn(k) ELSE Round(c, f[n - 1], ev)]

\* The loop is a recursive function: its value exists for any number of rounds.  Were there
\* numbers for which it does not, one of them would be the least.
LEMMA RoundsExist ==
  ASSUME NEW c, NEW k, NEW ev, NEW m \in Nat
  PROVE  \E f : Rounds(c, k, ev, f, m)
<1> DEFINE S == {i \in Nat : ~ \E f : Rounds(c, k, ev, f, i)}
<1> SUFFICES ASSUME S # {} PROVE FALSE
  OBVIOUS
<1>1. PICK i \in S : \A j \in S : i <= j
  <2>1. S \in SUBSET Nat
    OBVIOUS
  <2> HIDE DEF S
  <2>2. PICK x : x \in S
    OBVIOUS
  <2> QED
    BY <2>1, <2>2, LeastNatural
<1>2. i \in Nat /\ ~ \E f : Rounds(c, k, ev, f, i)
  BY <1>1
<1>3. i # 0
  <2> DEFINE g == [n \in 0 .. 0 |-> GoesOn(k)]
  <2>1. g = [n \in 0 .. 0 |-> IF n = 0 THEN GoesOn(k) ELSE Round(c, g[n - 1], ev)]
    OBVIOUS
  <2> HIDE DEF g
  <2>2. Rounds(c, k, ev, g, 0)
    BY <2>1 DEF Rounds
  <2> QED
    BY <2>2, <1>2
<1>4. PICK f : Rounds(c, k, ev, f, i - 1)
  <2>1. i - 1 \in Nat /\ ~(i <= i - 1)
    BY <1>2, <1>3
  <2> QED
    BY <2>1, <1>1
<1> DEFINE g == [n \in 0 .. i |-> IF n = 0 THEN GoesOn(k) ELSE Round(c, f[n - 1], ev)]
<1>5. \A n \in 0 .. i - 1 : g[n] = f[n]
  <2> TAKE n \in 0 .. i - 1
  <2>1. n \in 0 .. i
    BY <1>2
  <2>2. f[n] = IF n = 0 THEN GoesOn(k) ELSE Round(c, f[n - 1], ev)
    BY <1>4 DEF Rounds
  <2> QED
    BY <2>1, <2>2
<1>6. \A n \in 0 .. i : n # 0 => n - 1 \in 0 .. i - 1
  BY <1>2
<1>7. \A n \in 0 .. i : g[n] = IF n = 0 THEN GoesOn(k) ELSE Round(c, g[n - 1], ev)
  BY <1>5, <1>6
<1>8. g = [n \in 0 .. i |-> g[n]]
  OBVIOUS
<1> HIDE DEF g
<1>9. g = [n \in 0 .. i |-> IF n = 0 THEN GoesOn(k) ELSE Round(c, g[n - 1], ev)]
  BY <1>7, <1>8
<1> QED
  BY <1>2, <1>9 DEF Rounds

\* What each round keeps, http_cb keeps.
LEMMA LoopKeeps ==
  ASSUME NEW c, NEW k, NEW ev, Len(k.recv) \in Nat,
         NEW G, k \in G, \A loop : loop.k \in G => Round(c, loop, ev).k \in G
  PROVE  http_cb(c, k, ev) \in G
<1> DEFINE m == Len(k.recv)
<1>1. \E f : Rounds(c, k, ev, f, m)
  BY RoundsExist
<1>2. \E f : Rounds(c, k, ev, f, m) /\ http_cb(c, k, ev) = f[m].k
  BY <1>1 DEF http_cb, Rounds, Round
<1> HIDE DEF m
<1>3. PICK f : Rounds(c, k, ev, f, m) /\ http_cb(c, k, ev) = f[m].k
  BY <1>2
<1> DEFINE S == {i \in 0 .. m : f[i].k \notin G}
<1>4. S = {}
  <2> SUFFICES ASSUME S # {} PROVE FALSE
    OBVIOUS
  <2>1. PICK i \in S : \A j \in S : i <= j
    <3>1. S \in SUBSET Nat
      OBVIOUS
    <3> HIDE DEF S
    <3>2. PICK x : x \in S
      OBVIOUS
    <3> QED
      BY <3>1, <3>2, LeastNatural
  <2>2. i \in 0 .. m /\ f[i].k \notin G
    BY <2>1
  <2>3. f[i] = IF i = 0 THEN GoesOn(k) ELSE Round(c, f[i - 1], ev)
    BY <2>2, <1>3 DEF Rounds
  <2>4. i # 0
    BY <2>2, <2>3 DEF GoesOn
  <2>5. i - 1 \in 0 .. m /\ ~(i <= i - 1)
    BY <2>2, <2>4 DEF m
  <2>6. f[i - 1].k \in G
    BY <2>1, <2>5
  <2> QED
    BY <2>2, <2>3, <2>4, <2>6
<1>5. m \in 0 .. m
  BY DEF m
<1> QED
  BY <1>3, <1>4, <1>5

\* http_cb on MG_EV_READ or MG_EV_POLL.
LEMMA HttpFine ==
  ASSUME NEW c, NEW k, Fine(k), k.socket = "open", NEW ev, ev # "close",
         NEW l, l = http_cb(c, k, ev)
  PROVE  Fine(l) /\ Handled(k, l) /\ AsksToClose(k, l)
<1> DEFINE G == {x \in Connection : Fine(x) /\ Handled(k, x) /\ AsksToClose(k, x)}
<1>1. k \in G /\ Len(k.recv) \in Nat
  <2>1. k \in Connection
    BY DEF Fine
  <2>2. Len(k.recv) \in Nat
    BY <2>1, Queues, LenProperties
  <2> QED
    BY <2>1, <2>2 DEF Handled, AsksToClose
<1>2. ASSUME NEW loop, loop.k \in G PROVE Round(c, loop, ev).k \in G
  <2>1. Fine(loop.k) /\ Handled(k, loop.k) /\ AsksToClose(k, loop.k)
    BY <1>2
  <2>2. CASE While(loop)
    <3>1. ~loop.k.is_resp /\ loop.k.recv # <<>>
      BY <2>2 DEF While
    <3>2. loop.k.is_tls_hs = "no"
      BY <2>1, <3>1 DEF Fine, Shaking
    <3> DEFINE x == OneRequest(c, loop.k, ev).k
    <3>3. Round(c, loop, ev).k = x
      BY <2>2 DEF Round
    <3> HIDE DEF x
    <3>4. Fine(x) /\ Handled(loop.k, x) /\ AsksToClose(loop.k, x)
      <4>1. x = OneRequest(c, loop.k, ev).k
        BY DEF x
      <4> DEFINE y == loop.k
      <4>2. Fine(y) /\ ~y.is_resp /\ y.is_tls_hs = "no" /\ y.recv # <<>> /\ x = OneRequest(c, y, ev).k
        BY <2>1, <3>1, <3>2, <4>1
      <4> HIDE DEF y
      <4>3. Fine(x) /\ Handled(y, x) /\ AsksToClose(y, x)
        BY <4>2, RoundFine
      <4> QED
        BY <4>3 DEF y
    <3>5. x \in Connection
      BY <3>4 DEF Fine
    <3>6. Handled(k, x) /\ AsksToClose(k, x)
      BY <2>1, <3>4 DEF Handled, AsksToClose
    <3> QED
      BY <3>3, <3>4, <3>5, <3>6
  <2>3. CASE ~While(loop)
    BY <2>3, <1>2 DEF Round, Stops
  <2> QED
    BY <2>2, <2>3
<1> HIDE DEF G
<1>3. http_cb(c, k, ev) \in G
  BY <1>1, <1>2, LoopKeeps
<1> QED
  BY <1>3 DEF G

-----------------------------------------------------------------------------
(* http_cb on MG_EV_CLOSE: nothing but the files it opens is left.         *)

\* A file that is streamed was opened on MG_EV_CLOSE.
OpenedAtClose(k) ==
    /\ k \in Connection
    /\ Streaming(k) <=> k.is_resp
    /\ Streaming(k) => k.atClose

\* A request handled on MG_EV_CLOSE: what it streams is known to be opened there.
LEMMA HandledAtClose ==
  ASSUME NEW c, NEW k \in Connection, ~Streaming(k), NEW r \in Fragment,
         NEW p \in 0 .. Len(k.recv)
  PROVE  OpenedAtClose(HandleRequest(c, k, r, p, "close").k)
<1> DEFINE l == HandleRequest(c, k, r, p, "close").k
<1>1. \A x : x = l => Takes(k, x, r, p, "close")
  BY RequestTaken
<1>2. Takes(k, l, r, p, "close")
  BY <1>1
<1> HIDE DEF l
<1>3. OpenedAtClose(l)
  BY <1>2 DEF Takes, OpenedAtClose
<1> QED
  BY <1>3 DEF l

\* So is what a request without length gets there.
LEMMA LengthAtClose ==
  ASSUME NEW c, NEW k \in Connection, ~Streaming(k), ~k.is_resp, k.recv # <<>>
  PROVE  OpenedAtClose(LengthRequired(c, k, Head(k.recv), "close").k)
<1> DEFINE r == Head(k.recv)
           k1 == [k EXCEPT !.recv = Processed(@)]
           replied == Reply(k1, r, 0)
           k2 == [replied EXCEPT !.recv = k.recv]
<1>1. k.recv \in Seq(Fragment) /\ Len(k.recv) \in Nat \ {0} /\ r \in Fragment /\ Tail(k.recv) \in Seq(Fragment)
  <2>1. k.recv \in Seq(Fragment)
    BY Queues
  <2>2. Head(k.recv) \in Fragment /\ Tail(k.recv) \in Seq(Fragment) /\ Len(k.recv) \in Nat /\ Len(k.recv) # 0
    BY <2>1, HeadTailProperties, EmptySeq, LenProperties
  <2> QED
    BY <2>1, <2>2
<1>2. LengthRequired(c, k, r, "close") =
        IF Len(k.recv) = 1 THEN HandleRequest(c, k2, r, 1, "close") ELSE Stops(replied)
  BY DEF LengthRequired
<1>3. k1 \in Connection /\ ~Streaming(k1)
  BY <1>1 DEF Connection, Streaming, Processed
<1> HIDE DEF k1, r
<1>4. replied \in Connection /\ ~Streaming(replied) /\ ~replied.is_resp
  <2>1. 0 \in 0 .. FileSize
    BY WebServerAssumption
  <2>2. Answers(k1, replied, r.id)
    BY <2>1, <1>1, <1>3, ReplyAnswers
  <2>3. replied.is_resp = FALSE
    BY <1>3 DEF Reply, Connection
  <2> QED
    BY <2>2, <2>3 DEF Answers
<1> HIDE DEF replied
<1>5. k2 \in Connection /\ ~Streaming(k2) /\ k2.recv = k.recv
  BY <1>1, <1>4 DEF Connection, Streaming
<1> HIDE DEF k2
<1>6. CASE Len(k.recv) = 1
  <2>1. 1 \in 0 .. Len(k2.recv)
    BY <1>5, <1>6
  <2>2. OpenedAtClose(HandleRequest(c, k2, r, 1, "close").k)
    BY <2>1, <1>1, <1>5, HandledAtClose
  <2> QED
    BY <2>2, <1>2, <1>6, Zenon DEF r
<1>7. CASE Len(k.recv) # 1
  <2>1. LengthRequired(c, k, r, "close").k = replied
    BY <1>2, <1>7 DEF Stops
  <2> QED
    BY <2>1, <1>4 DEF OpenedAtClose, r
<1> QED
  BY <1>6, <1>7

\* One round of http_cb on MG_EV_CLOSE.
LEMMA ClosingRound ==
  ASSUME NEW c, NEW k, OpenedAtClose(k), ~k.is_resp, k.recv # <<>>
  PROVE  OpenedAtClose(OneRequest(c, k, "close").k)
<1> DEFINE r == Head(k.recv)
           p == Extent(k, r, "close")
<1>1. k \in Connection /\ ~Streaming(k) /\ k.recv \in Seq(Fragment) /\ Len(k.recv) \in Nat /\ r \in Fragment
  <2>1. k \in Connection /\ ~Streaming(k)
    BY DEF OpenedAtClose
  <2>2. k.recv \in Seq(Fragment)
    BY <2>1, Queues
  <2> QED
    BY <2>1, <2>2, HeadTailProperties, LenProperties
<1>2. OpenedAtClose(Malformed(k).k)
  <2> DEFINE x == [k EXCEPT !.is_draining = TRUE, !.recv = <<>>]
  <2>1. <<>> \in Seq(Fragment)
    OBVIOUS
  <2>2. x \in Connection /\ x.is_resp = k.is_resp /\ x.file = k.file /\ x.atClose = k.atClose
    BY <2>1, <1>1 DEF Connection
  <2> HIDE DEF x
  <2>3. OpenedAtClose(x)
    BY <2>2 DEF OpenedAtClose, Streaming
  <2> QED
    BY <2>3 DEF Malformed, Stops, x
<1>3. OpenedAtClose(Stops([k EXCEPT !.is_closing = TRUE]).k)
  <2> DEFINE x == [k EXCEPT !.is_closing = TRUE]
  <2>2. x \in Connection /\ x.is_resp = k.is_resp /\ x.file = k.file /\ x.atClose = k.atClose
    BY <1>1 DEF Connection
  <2> HIDE DEF x
  <2>3. OpenedAtClose(x)
    BY <2>2 DEF OpenedAtClose, Streaming
  <2> QED
    BY <2>3 DEF Stops, x
<1>4. OpenedAtClose(LengthRequired(c, k, r, "close").k)
  BY <1>1, LengthAtClose
<1>5. p <= Len(k.recv) => OpenedAtClose(HandleRequest(c, k, r, p, "close").k)
  <2>1. p \in Nat
    BY <1>1 DEF Extent
  <2>2. p <= Len(k.recv) => p \in 0 .. Len(k.recv)
    BY <2>1, <1>1
  <2> HIDE DEF r, p
  <2> QED
    BY <2>2, <1>1, HandledAtClose
<1>6. OpenedAtClose(Stops(k).k)
  BY DEF Stops
<1> HIDE DEF r
<1>7. \/ OneRequest(c, k, "close") = Malformed(k)
      \/ OneRequest(c, k, "close") = Stops([k EXCEPT !.is_closing = TRUE])
      \/ OneRequest(c, k, "close") = LengthRequired(c, k, r, "close")
      \/ OneRequest(c, k, "close") = Stops(k)
      \/ p <= Len(k.recv) /\ OneRequest(c, k, "close") = HandleRequest(c, k, r, p, "close")
  BY DEF OneRequest, r
<1> QED
  BY <1>2, <1>3, <1>4, <1>5, <1>6, <1>7, Zenon

\* And all of them.
LEMMA HttpCloses ==
  ASSUME NEW c, NEW k, OpenedAtClose(k)
  PROVE  OpenedAtClose(http_cb(c, k, "close"))
<1> DEFINE G == {x \in Connection : OpenedAtClose(x)}
<1>1. k \in G /\ Len(k.recv) \in Nat
  <2>1. k \in Connection
    BY DEF OpenedAtClose
  <2>2. Len(k.recv) \in Nat
    BY <2>1, Queues, LenProperties
  <2> QED
    BY <2>1, <2>2
<1>2. ASSUME NEW loop, loop.k \in G PROVE Round(c, loop, "close").k \in G
  <2>1. CASE While(loop)
    <3> DEFINE y == loop.k
    <3>1. OpenedAtClose(y) /\ ~y.is_resp /\ y.recv # <<>>
      BY <2>1, <1>2 DEF While
    <3>2. Round(c, loop, "close").k = OneRequest(c, y, "close").k
      BY <2>1 DEF Round
    <3> HIDE DEF y
    <3>3. OpenedAtClose(OneRequest(c, y, "close").k)
      BY <3>1, ClosingRound
    <3> QED
      BY <3>2, <3>3 DEF OpenedAtClose
  <2>2. CASE ~While(loop)
    BY <2>2, <1>2 DEF Round, Stops
  <2> QED
    BY <2>1, <2>2
<1> HIDE DEF G
<1>3. http_cb(c, k, "close") \in G
  BY <1>1, <1>2, LoopKeeps
<1> QED
  BY <1>3 DEF G

-----------------------------------------------------------------------------
(* static_cb, and the events of a connection.                              *)

\* The body adds no header.
LEMMA SameHeaders ==
  ASSUME NEW s \in Seq(Unit), NEW t \in Seq(Unit), Extends(t, s), Headers(t) = Headers(s),
         NEW k, NEW q
  PROVE  /\ InOrder(k, s) => InOrder(k, t)
         /\ Passed(k, q, s) => Passed(k, q, t)
<1>1. \A h \in Headers(t) : t[h] = s[h]
  BY HeadersKept
<1>2. \A m : HasHeader(s, m) <=> HasHeader(t, m)
  BY <1>1 DEF HasHeader
<1>3. InOrder(k, s) => InOrder(k, t)
  BY <1>1, <1>2 DEF InOrder
<1>4. Passed(k, q, s) => Passed(k, q, t)
  BY <1>1, <1>2 DEF Passed
<1> QED
  BY <1>3, <1>4

\* static_cb ends: nothing of the answer is owed.
LEMMA RestoreFine ==
  ASSUME NEW k, Fine(k), k.socket = "open", k.file \in {0, NoFile},
         NEW l, l = restore_http_cb(k)
  PROVE  Fine(l) /\ Handled(k, l) /\ l.is_closing = k.is_closing
<1>1. k \in Connection /\ FileSize \in Nat
  BY WebServerAssumption DEF Fine
<1>2. l = [k EXCEPT !.file = NoFile, !.is_resp = FALSE] /\ NoFile \in 0 .. NoFile
  BY <1>1 DEF restore_http_cb, NoFile
<1>3. l \in Connection
  <2>1. [k EXCEPT !.file = NoFile] \in Connection
    BY <1>1, <1>2, FlagsTyped, Zenon
  <2>2. [[k EXCEPT !.file = NoFile] EXCEPT !.is_resp = FALSE] \in Connection
    BY <2>1, FlagsTyped, Zenon
  <2> QED
    BY <2>2, <1>2
<1>4. /\ Handled(k, l) /\ l.recv = k.recv /\ l.send = k.send
      /\ l.file = NoFile /\ l.is_resp = FALSE /\ l.is_draining = k.is_draining
      /\ l.atClose = k.atClose /\ l.is_closing = k.is_closing
  BY <1>1, <1>2 DEF Connection, Handled
<1>5. Waiting(l) = Waiting(k) /\ Stream(l) = Stream(k)
  BY <1>4 DEF Handled, Waiting, Stream, Delivered
<1>6. (~k.is_tls => l.rtls = <<>> /\ l.tlsSend = <<>>) /\ (k.is_tls_hs # "no" => l.recv = <<>> /\ l.send = <<>>)
  BY <1>4 DEF Fine, Shaking, Handled
<1>7. (Streaming(l) <=> l.is_resp) /\ ~Streaming(l) /\ Rest(l) = Rest(k) /\ Len(l.out) <= SocketRoom
  BY <1>4 DEF Fine, Streaming, Rest, Handled
<1>8. LeftAlone(k, l) /\ l.is_tls_hs = k.is_tls_hs
  BY <1>4 DEF Handled, LeftAlone
<1>9. Fine(l)
  <2>1. MovesOn(k, l)
    BY <1>3, <1>4, <1>5, <1>6, <1>7, <1>8 DEF MovesOn, Fine, LeftAlone
  <2> QED
    BY <2>1, MovedOn
<1> QED
  BY <1>4, <1>9

\* static_cb fills the send buffer with what is owed, and no more.
LEMMA StaticFine ==
  ASSUME NEW k, Fine(k), Streaming(k), NEW l, l = static_cb(k)
  PROVE  Fine(l) /\ Handled(k, l) /\ l.is_closing = k.is_closing
<1> DEFINE n == ReadSize(k)
           x == [i \in 1 .. n |-> Body]
           q == Waiting(k)
           s == Stream(k)
           t == Stream(l)
<1>1. /\ k \in Connection /\ FileSize \in Nat /\ SendSize \in Nat \ {0}
      /\ k.file \in 0 .. FileSize /\ Len(k.send) \in Nat /\ k.socket = "open" /\ k.is_tls_hs = "no"
      /\ q \in Seq(Fragment) /\ s \in Seq(Unit) /\ k.is_resp
  <2>1. k \in Connection /\ k.socket = "open" /\ k.is_tls_hs = "no" /\ k.is_resp
    BY DEF Fine
  <2>2. FileSize \in Nat /\ SendSize \in Nat \ {0}
    BY WebServerAssumption
  <2>3. k.file \in 0 .. FileSize
    BY <2>1, <2>2 DEF Connection, Streaming, NoFile
  <2>4. Len(k.send) \in Nat
    BY <2>1, Queues, LenProperties
  <2> QED
    BY <2>1, <2>2, <2>3, <2>4, Queues
<1>2. CASE Len(k.send) >= SendSize
  BY <1>2 DEF static_cb, Handled
<1>3. CASE ~(Len(k.send) >= SendSize)
  <2>1. n \in 0 .. k.file /\ (n = 0 => k.file = 0)
    BY <1>1, <1>3 DEF ReadSize, Least
  <2> HIDE DEF n
  <2>2. CASE n = 0
    <3>1. l = restore_http_cb(k)
      BY <2>2, <1>3 DEF static_cb, n
    <3> QED
      BY <3>1, <2>1, <2>2, <1>1, RestoreFine
  <2>3. CASE n # 0
    <3>1. l = [k EXCEPT !.send = @ \o x, !.file = @ - n]
      BY <2>3, <1>3 DEF static_cb, n
    <3>2. n \in Nat /\ x \in Seq(Unit) /\ Len(x) = n /\ \A i \in 1 .. n : x[i] = Body
      <4>1. Body \in Unit /\ n \in Nat
        BY <1>1, <2>1 DEF Body, Unit
      <4> QED
        BY <4>1
    <3> HIDE DEF x
    <3>3. k.file - n \in 0 .. FileSize /\ k.file - n \in 0 .. NoFile /\ k.file - n # NoFile
      BY <1>1, <2>1, <3>2 DEF NoFile
    <3>4. k.send \o x \in Seq(Unit)
      BY <1>1, <3>2, Queues, ConcatProperties
    <3>5. l \in Connection
      <4>1. [k EXCEPT !.send = k.send \o x] \in Connection
        BY <1>1, <3>3, <3>4, QueuesTyped, Zenon
      <4>2. [[k EXCEPT !.send = k.send \o x] EXCEPT !.file = k.file - n] \in Connection
        BY <4>1, <1>1, <3>3, <3>4, FlagsTyped, Zenon
      <4> QED
        BY <4>2, <3>1
    <3>6. /\ Handled(k, l) /\ l.recv = k.recv /\ l.send = k.send \o x
          /\ l.file = k.file - n /\ l.is_resp = k.is_resp /\ l.is_draining = k.is_draining
          /\ l.atClose = k.atClose /\ l.is_closing = k.is_closing
      BY <1>1, <3>1, Zenon DEF Connection, Handled
    <3>7. /\ Extends(t, s) /\ Len(t) = Len(s) + Len(x)
          /\ \A i \in 1 .. Len(x) : t[Len(s) + i] = x[i]
      <4>1. l.got = k.got /\ l.out = k.out /\ l.tlsSend = k.tlsSend
        BY <3>6 DEF Handled
      <4> QED
        BY <4>1, <1>1, <3>2, <3>5, <3>6, SendAdded, Zenon
    <3>8. t \in Seq(Unit) /\ Waiting(l) = q
      BY <3>5, <3>6, Queues DEF Handled, Waiting
    <3> HIDE DEF q, s, t
    <3>9. Len(t) = Len(s) + n /\ Len(s) \in Nat /\ \A i \in Len(s) + 1 .. Len(t) : t[i] = Body
      <4>1. Len(s) \in Nat
        BY <1>1, Units
      <4>2. Len(t) = Len(s) + n /\ \A i \in 1 .. n : t[Len(s) + i] = Body
        BY <3>2, <3>7
      <4>3. \A a, p \in Nat : \A i \in a + 1 .. a + p : i - a \in 1 .. p /\ a + (i - a) = i
        OBVIOUS
      <4>4. ASSUME NEW i \in Len(s) + 1 .. Len(t) PROVE t[i] = Body
        <5>1. i - Len(s) \in 1 .. n /\ Len(s) + (i - Len(s)) = i
          BY <4>1, <4>2, <4>3, <3>2, Zenon
        <5> QED
          BY <5>1, <4>2, Zenon
      <4> QED
        BY <4>1, <4>2, <4>4
    <3>10. /\ WellFramed(s) /\ Owes(s, k.file) /\ InOrder(k, s) /\ Queued(k, q) /\ Passed(k, q, s)
           /\ Drains(k, s) /\ Shaking(k, q, s) /\ ~k.atClose
      BY DEF Fine, Rest, q, s
    <3>11. WellFramed(t) /\ Owes(t, k.file - n) /\ Headers(t) = Headers(s)
      <4> DEFINE m == k.file
      <4>1. m \in Nat /\ n \in 0 .. m /\ Owes(s, m)
        BY <1>1, <2>1, <3>10
      <4> HIDE DEF m
      <4>2. WellFramed(t) /\ Owes(t, m - n) /\ Headers(t) = Headers(s)
        BY <4>1, <1>1, <3>7, <3>8, <3>9, <3>10, BodiesAdded
      <4> QED
        BY <4>2 DEF m
    <3>12. /\ InOrder(l, t) /\ Queued(l, q) /\ Passed(l, q, t)
      <4>1. InOrder(k, t) /\ Passed(k, q, t)
        BY <1>1, <3>7, <3>8, <3>10, <3>11, SameHeaders
      <4> QED
        BY <4>1, <3>6, <3>10, SameTalk DEF Handled
    <3>13. Drains(l, t)
      BY <1>1, <3>6, <3>7, <3>8, <3>10, DrainsKept DEF Handled
    <3>14. Shaking(l, q, t)
      <4>1. IsRest(q, q, 0)
        BY <1>1, Indexes DEF IsRest
      <4>2. \A i \in DOMAIN t : i > Len(s) => t[i] # Flight
        <5> TAKE i \in DOMAIN t
        <5> HAVE i > Len(s)
        <5>1. i \in 1 .. Len(t) /\ Len(t) \in Nat
          BY <3>8, Units
        <5>2. \A a, p \in Nat : \A z \in 1 .. p : z > a => z \in a + 1 .. p
          OBVIOUS
        <5>3. t[i] = Body
          BY <5>1, <5>2, <3>9, Zenon
        <5> QED
          BY <5>3 DEF Body, Flight
      <4> QED
        BY <4>1, <4>2, <1>1, <3>5, <3>6, <3>7, <3>8, <3>10, StillShaken
    <3>15. Streaming(l) /\ Rest(l) = k.file - n
      BY <3>3, <3>6 DEF Streaming, Rest
    <3>16. Live(l) /\ l.socket = "open" /\ l.is_tls_hs = "no" /\ ~l.atClose /\ l.is_resp
          /\ Len(l.out) <= SocketRoom
      BY <1>1, <3>6, <3>10 DEF Fine, Handled, Live
    <3>17. Fine(l)
      BY <3>5, <3>8, <3>11, <3>12, <3>13, <3>14, <3>15, <3>16 DEF Fine, t
    <3> QED
      BY <3>6, <3>17
  <2> QED
    BY <2>2, <2>3
<1> QED
  BY <1>2, <1>3

\* MG_EV_READ.
LEMMA ReadEventFine ==
  ASSUME NEW c, NEW k, Fine(k), k.socket = "open", NEW l, l = ReadEvent(c, k)
  PROVE  Fine(l) /\ Handled(k, l) /\ AsksToClose(k, l)
<1>1. CASE Streaming(k)
  BY <1>1 DEF ReadEvent, Handled, AsksToClose
<1>2. CASE ~Streaming(k)
  <2>1. l = http_cb(c, k, "read")
    BY <1>2 DEF ReadEvent
  <2> QED
    BY <2>1, HttpFine
<1> QED
  BY <1>1, <1>2

\* MG_EV_WRITE.
LEMMA WriteEventFine ==
  ASSUME NEW k, Fine(k), NEW l, l = WriteEvent(k)
  PROVE  Fine(l) /\ Handled(k, l) /\ AsksToClose(k, l)
<1>1. CASE Streaming(k)
  <2>1. l = static_cb(k)
    BY <1>1 DEF WriteEvent
  <2> QED
    BY <1>1, <2>1, StaticFine DEF AsksToClose
<1>2. CASE ~Streaming(k)
  BY <1>2 DEF WriteEvent, Handled, AsksToClose
<1> QED
  BY <1>1, <1>2

\* MG_EV_POLL.
LEMMA PollEventFine ==
  ASSUME NEW c, NEW k, Fine(k), k.socket = "open", NEW l, l = PollEvent(c, k)
  PROVE  Fine(l) /\ Handled(k, l) /\ AsksToClose(k, l)
<1>1. CASE Streaming(k)
  <2>1. l = static_cb(k)
    BY <1>1 DEF PollEvent
  <2> QED
    BY <1>1, <2>1, StaticFine DEF AsksToClose
<1>2. CASE ~Streaming(k) /\ k.is_draining
  BY <1>2 DEF PollEvent, Handled, AsksToClose
<1>3. CASE ~Streaming(k) /\ ~k.is_draining
  <2>1. l = http_cb(c, k, "poll")
    BY <1>3 DEF PollEvent
  <2> QED
    BY <2>1, HttpFine
<1> QED
  BY <1>1, <1>2, <1>3

\* MG_EV_POLL, and MG_EV_READ when the answer ended in it.
LEMMA ResumedFine ==
  ASSUME NEW c, NEW k, Fine(k), k.socket = "open", NEW l, l = Resumed(c, k, PollEvent(c, k))
  PROVE  Fine(l) /\ Handled(k, l) /\ AsksToClose(k, l)
<1> DEFINE p == PollEvent(c, k)
<1>1. Fine(p) /\ Handled(k, p) /\ AsksToClose(k, p)
  BY PollEventFine
<1> HIDE DEF p
<1>2. CASE k.is_resp /\ ~p.is_resp
  <2>1. l = ReadEvent(c, p)
    BY <1>2 DEF Resumed, p
  <2>2. p.socket = "open"
    BY <1>1 DEF Handled
  <2>3. Fine(l) /\ Handled(p, l) /\ AsksToClose(p, l)
    BY <1>1, <2>1, <2>2, ReadEventFine
  <2> QED
    BY <1>1, <2>3 DEF Handled, AsksToClose
<1>3. CASE ~(k.is_resp /\ ~p.is_resp)
  <2>1. l = p
    BY <1>3 DEF Resumed, p
  <2> QED
    BY <1>1, <2>1
<1> QED
  BY <1>2, <1>3

\* MG_EV_CLOSE: a file is left open only if it was opened there.
LEMMA CloseEventLeaves ==
  ASSUME NEW c, NEW k, Fine(k)
  PROVE  OpenedAtClose(CloseEvent(c, k))
<1>1. CASE Streaming(k)
  <2> DEFINE l == restore_http_cb(k)
  <2>1. k \in Connection /\ NoFile \in 0 .. NoFile
    BY WebServerAssumption DEF Fine, NoFile
  <2>2. l \in Connection /\ l.file = NoFile /\ l.is_resp = FALSE
    BY <2>1 DEF restore_http_cb, Connection
  <2> HIDE DEF l
  <2>3. OpenedAtClose(l)
    BY <2>2 DEF OpenedAtClose, Streaming
  <2> QED
    BY <1>1, <2>3 DEF CloseEvent, l
<1>2. CASE ~Streaming(k)
  <2>1. OpenedAtClose(k)
    BY <1>2 DEF OpenedAtClose, Fine
  <2> QED
    BY <1>2, <2>1, HttpCloses DEF CloseEvent
<1> QED
  BY <1>1, <1>2

\* The lesser of two.
LEMMA LeastOf ==
  \A m, n \in Nat : Least(m, n) \in 0 .. n /\ Least(m, n) <= m
  BY DEF Least

\* The socket takes what the kernel's queue has room for.
LEMMA RoomFor ==
  ASSUME NEW k, Fine(k), NEW s \in Seq(Unit), NEW n, n = Least(Room(k), Len(s))
  PROVE  n \in 0 .. Len(s) /\ Len(k.out) + n <= SocketRoom
<1>1. SocketRoom \in Nat /\ Len(k.out) \in Nat /\ Len(s) \in Nat /\ Len(k.out) <= SocketRoom
  <2>1. k.out \in Seq(Unit)
    BY Queues DEF Fine
  <2> QED
    BY <2>1, LenProperties, WebServerAssumption DEF Fine
<1>2. Room(k) \in Nat /\ Len(k.out) + Room(k) = SocketRoom
  BY <1>1 DEF Room
<1>3. n \in 0 .. Len(s) /\ n <= Room(k)
  BY <1>1, <1>2, LeastOf
<1> QED
  BY <1>1, <1>2, <1>3

\* mg_tls_flush moves encrypted units to the socket, as many as it takes.
LEMMA FlushFine ==
  ASSUME NEW k, Fine(k), k.socket = "open", k.is_tls, NEW l, l = mg_tls_flush(k)
  PROVE  /\ Fine(l) /\ LeftAlone(k, l) /\ l.is_closing = k.is_closing
         /\ l.is_tls_hs = k.is_tls_hs /\ l.in = k.in /\ l.rtls = k.rtls
<1> DEFINE a == k.got
           b == k.out
           d == k.tlsSend
           n == IF k.client = "gone" THEN 0 ELSE Least(Room(k), Len(d))
           bx == b \o SubSeq(d, 1, n)
           y == SubSeq(d, n + 1, Len(d))
<1>1. k \in Connection /\ a \in Seq(Unit) /\ b \in Seq(Unit) /\ d \in Seq(Unit)
  BY Queues DEF Fine
<1>2. n \in 0 .. Len(d) /\ Len(b) + n <= SocketRoom
  <2>1. Least(Room(k), Len(d)) \in 0 .. Len(d) /\ Len(b) + Least(Room(k), Len(d)) <= SocketRoom
    BY <1>1, RoomFor
  <2>2. 0 \in 0 .. Len(d) /\ Len(b) \in Nat /\ Len(b) <= SocketRoom
    BY <1>1, LenProperties DEF Fine
  <2>3. Len(b) + 0 <= SocketRoom
    BY <2>2
  <2> QED
    BY <2>1, <2>2, <2>3
<1>3. l = [k EXCEPT !.out = bx, !.tlsSend = y]
  BY Zenon DEF mg_tls_flush, After
<1> HIDE DEF a, b, d, n
<1>4. /\ bx \in Seq(Unit) /\ y \in Seq(Unit) /\ Len(bx) = Len(b) + n
      /\ (a \o bx) \o y = (a \o b) \o d
  <2>1. Moved(Unit, a, b, d, n, b \o SubSeq(d, 1, n), SubSeq(d, n + 1, Len(d)))
    BY <1>1, <1>2, MovedUnits
  <2>2. Moved(Unit, a, b, d, n, bx, y)
    BY <2>1
  <2> HIDE DEF bx, y
  <2> QED
    BY <2>2 DEF Moved
<1>5. Len(bx) <= SocketRoom
  BY <1>2, <1>4
<1> HIDE DEF bx, y
<1>6. l \in Connection
  <2>1. [k EXCEPT !.out = bx] \in Connection
    BY <1>1, <1>4, QueuesTyped, Zenon
  <2>2. [[k EXCEPT !.out = bx] EXCEPT !.tlsSend = y] \in Connection
    BY <2>1, <1>1, <1>4, QueuesTyped, Zenon
  <2> QED
    BY <2>2, <1>3
<1>7. /\ LeftAlone(k, l) /\ l.recv = k.recv /\ l.rtls = k.rtls /\ l.in = k.in /\ l.send = k.send
      /\ l.out = bx /\ l.tlsSend = y
      /\ l.is_tls_hs = k.is_tls_hs /\ l.is_resp = k.is_resp /\ l.file = k.file
      /\ l.is_draining = k.is_draining /\ l.atClose = k.atClose /\ l.is_closing = k.is_closing
  BY <1>1, <1>3, Zenon DEF Connection, LeftAlone
<1>8. Stream(l) = Stream(k) /\ Waiting(l) = Waiting(k)
  <2>1. Stream(l) = ((a \o bx) \o y) \o k.send
    BY <1>7, Zenon DEF Stream, Delivered, LeftAlone, a
  <2>2. Stream(k) = ((a \o b) \o d) \o k.send
    BY Zenon DEF Stream, Delivered, a, b, d
  <2> QED
    BY <2>1, <2>2, <1>4, <1>7, Zenon DEF Waiting
<1>9. /\ (Streaming(l) <=> l.is_resp) /\ (Streaming(l) => k.is_tls_hs = "no") /\ Rest(l) = Rest(k)
      /\ (k.is_tls_hs # "no" => l.recv = <<>> /\ l.send = <<>>)
  BY <1>7 DEF Fine, Streaming, Rest, Shaking
<1>10. Fine(l)
  <2>1. MovesOn(k, l)
    BY <1>5, <1>6, <1>7, <1>8, <1>9 DEF MovesOn, Fine, LeftAlone
  <2> QED
    BY <2>1, MovedOn
<1> QED
  BY <1>7, <1>10

-----------------------------------------------------------------------------
(* What is written to the socket.                                          *)

\* What a handler or a write does that may make the connection close.
Served(k, l) ==
    /\ Fine(l) /\ LeftAlone(k, l)
    /\ l.is_closing => k.is_closing \/ k.client = "gone" \/ "badchunk" \in Range(k.sent)

\* One event after the other.
LEMMA ServedTwice ==
  ASSUME NEW k, NEW l, NEW m, Served(k, l), Served(l, m)
  PROVE  Served(k, m)
<1> QED
  BY DEF Served, LeftAlone

\* What an event changes that no read or write does.
LEMMA EventServed ==
  ASSUME NEW k, NEW l, Fine(l), Handled(k, l), AsksToClose(k, l)
  PROVE  Served(k, l)
<1> QED
  BY HandledKept DEF Served, AsksToClose

\* MG_EV_WRITE asks nobody to close.
LEMMA WriteEventServed ==
  ASSUME NEW k, Fine(k), NEW l, l = WriteEvent(k)
  PROVE  Served(k, l)
<1> QED
  BY WriteEventFine, EventServed

\* A connection marked to close, or throttled, is otherwise what it was.
Closing(k, b) == [k EXCEPT !.is_closing = b]
Throttled(k, b) == [k EXCEPT !.is_tls_throttled = b]

\* Flags the invariant does not look at.
LEMMA MarkedFine ==
  ASSUME NEW k, Fine(k), k.socket = "open", NEW b \in BOOLEAN,
         NEW l, l = Closing(k, b) \/ l = Throttled(k, b)
  PROVE  /\ Fine(l) /\ LeftAlone(k, l) /\ l.is_draining = k.is_draining
         /\ l = Closing(k, b) => l.is_closing = b
         /\ l = Throttled(k, b) => l.is_closing = k.is_closing
<1>1. k \in Connection
  BY DEF Fine
<1>2. l \in Connection
  <2>1. Closing(k, b) \in Connection
    BY <1>1 DEF Connection, Closing
  <2>2. Throttled(k, b) \in Connection
    BY <1>1 DEF Connection, Throttled
  <2> QED
    BY <2>1, <2>2, Zenon
<1>3. /\ LeftAlone(k, l) /\ l.recv = k.recv /\ l.rtls = k.rtls /\ l.in = k.in /\ l.send = k.send
      /\ l.out = k.out /\ l.tlsSend = k.tlsSend
      /\ l.is_tls_hs = k.is_tls_hs /\ l.is_resp = k.is_resp /\ l.file = k.file
      /\ l.is_draining = k.is_draining /\ l.atClose = k.atClose
      /\ l = Closing(k, b) => l.is_closing = b
      /\ l = Throttled(k, b) => l.is_closing = k.is_closing
  <2>1. CASE l = Closing(k, b)
    <3>1. l.is_closing = b
      BY <1>1, <2>1 DEF Connection, Closing
    <3>2. l = Throttled(k, b) => l.is_closing = k.is_closing
      BY <1>1 DEF Connection, Throttled
    <3> QED
      BY <1>1, <2>1, <3>1, <3>2 DEF Connection, LeftAlone, Closing
  <2>2. CASE l = Throttled(k, b)
    <3>1. l.is_closing = k.is_closing
      BY <1>1, <2>2 DEF Connection, Throttled
    <3>2. l = Closing(k, b) => l.is_closing = b
      BY <1>1 DEF Connection, Closing
    <3> QED
      BY <1>1, <2>2, <3>1, <3>2 DEF Connection, LeftAlone, Throttled
  <2> QED
    BY <2>1, <2>2
<1>4. Stream(l) = Stream(k) /\ Waiting(l) = Waiting(k)
  BY <1>3, Zenon DEF Stream, Delivered, Waiting, LeftAlone
<1>5. /\ (Streaming(l) <=> l.is_resp) /\ (Streaming(l) => k.is_tls_hs = "no") /\ Rest(l) = Rest(k)
      /\ (k.is_tls_hs # "no" => l.recv = <<>> /\ l.send = <<>>)
      /\ (~k.is_tls => l.rtls = <<>> /\ l.tlsSend = <<>>)
      /\ Len(l.out) <= SocketRoom
  BY <1>3 DEF Fine, Streaming, Rest, Shaking
<1>6. Fine(l)
  <2>1. MovesOn(k, l)
    BY <1>2, <1>3, <1>4, <1>5 DEF MovesOn, Fine, LeftAlone
  <2> QED
    BY <2>1, MovedOn
<1> QED
  BY <1>3, <1>6

\* mg_tls_send encrypts n units.
LEMMA EncryptedFine ==
  ASSUME NEW k, Fine(k), k.socket = "open", k.is_tls, NEW n \in 0 .. Len(k.send),
         NEW l, l = [k EXCEPT !.tlsSend = @ \o SubSeq(k.send, 1, n), !.send = After(@, n)]
  PROVE  Fine(l) /\ LeftAlone(k, l) /\ l.is_closing = k.is_closing
<1> DEFINE a == k.got \o k.out
           b == k.tlsSend
           d == k.send
           bx == b \o SubSeq(d, 1, n)
           y == SubSeq(d, n + 1, Len(d))
<1>1. k \in Connection /\ a \in Seq(Unit) /\ b \in Seq(Unit) /\ d \in Seq(Unit)
  BY Queues DEF Fine
<1>2. l = [k EXCEPT !.tlsSend = bx, !.send = y]
  BY Zenon DEF After
<1>3. n \in 0 .. Len(d) /\ a = k.got \o k.out /\ b = k.tlsSend /\ d = k.send
  OBVIOUS
<1> HIDE DEF a, b, d
<1>4. Moved(Unit, a, b, d, n, bx, y)
  BY <1>1, <1>3, MovedUnits
<1> HIDE DEF bx, y
<1>5. bx \in Seq(Unit) /\ y \in Seq(Unit) /\ Len(y) = Len(d) - n /\ (a \o bx) \o y = (a \o b) \o d
  BY <1>4 DEF Moved
<1>6. l \in Connection
  <2>1. [k EXCEPT !.tlsSend = bx] \in Connection
    BY <1>1, <1>5, QueuesTyped, Zenon
  <2>2. [[k EXCEPT !.tlsSend = bx] EXCEPT !.send = y] \in Connection
    BY <2>1, <1>1, <1>5, QueuesTyped, Zenon
  <2> QED
    BY <2>2, <1>2
<1>7. /\ LeftAlone(k, l) /\ l.recv = k.recv /\ l.rtls = k.rtls /\ l.in = k.in /\ l.send = y
      /\ l.out = k.out /\ l.tlsSend = bx
      /\ l.is_tls_hs = k.is_tls_hs /\ l.is_resp = k.is_resp /\ l.file = k.file
      /\ l.is_draining = k.is_draining /\ l.atClose = k.atClose /\ l.is_closing = k.is_closing
  BY <1>1, <1>2 DEF Connection, LeftAlone
<1>8. Stream(l) = Stream(k) /\ Waiting(l) = Waiting(k)
  <2>1. Stream(l) = (a \o bx) \o y
    BY <1>3, <1>7, Zenon DEF Stream, Delivered, LeftAlone
  <2>2. Stream(k) = (a \o b) \o d
    BY <1>3, Zenon DEF Stream, Delivered
  <2> QED
    BY <2>1, <2>2, <1>5, <1>7, Zenon DEF Waiting
<1>9. k.is_tls_hs # "no" => l.recv = <<>> /\ l.send = <<>>
  <2> SUFFICES ASSUME k.is_tls_hs # "no" PROVE l.recv = <<>> /\ l.send = <<>>
    OBVIOUS
  <2>1. k.recv = <<>> /\ d = <<>>
    BY <1>3 DEF Fine, Shaking
  <2>2. Len(d) = 0
    BY <1>1, <2>1, Indexes
  <2>3. Len(y) = 0
    BY <1>3, <1>5, <2>2
  <2>4. y = <<>>
    BY <1>5, <2>3, Indexes
  <2> QED
    BY <1>7, <2>1, <2>4
<1>10. /\ (Streaming(l) <=> l.is_resp) /\ (Streaming(l) => k.is_tls_hs = "no") /\ Rest(l) = Rest(k)
       /\ Len(l.out) <= SocketRoom
  BY <1>7 DEF Fine, Streaming, Rest
<1>11. Fine(l)
  <2>1. MovesOn(k, l)
    BY <1>6, <1>7, <1>8, <1>9, <1>10 DEF MovesOn, Fine, LeftAlone
  <2> QED
    BY <2>1, MovedOn
<1> QED
  BY <1>7, <1>11

\* What PlainWrite writes: n units to the kernel's queue.
WrittenTo(k, n) == [k EXCEPT !.out = @ \o SubSeq(k.send, 1, n), !.send = After(@, n)]

\* The socket takes what it has room for.
LEMMA WrittenFine ==
  ASSUME NEW k, Fine(k), k.socket = "open", ~k.is_tls, NEW n, n = Least(Room(k), Len(k.send)),
         NEW l, l = WrittenTo(k, n)
  PROVE  Fine(l) /\ LeftAlone(k, l) /\ l.is_closing = k.is_closing
<1> DEFINE a == k.got
           b == k.out
           d == k.send
           bx == b \o SubSeq(d, 1, n)
           y == SubSeq(d, n + 1, Len(d))
<1>1. k \in Connection /\ a \in Seq(Unit) /\ b \in Seq(Unit) /\ d \in Seq(Unit)
  BY Queues DEF Fine
<1>2. n \in 0 .. Len(d) /\ Len(b) + n <= SocketRoom
  BY <1>1, RoomFor
<1>3. l = [k EXCEPT !.out = bx, !.send = y]
  BY Zenon DEF WrittenTo, After
<1>4. a = k.got /\ b = k.out /\ d = k.send
  OBVIOUS
<1> HIDE DEF a, b, d
<1>5. Moved(Unit, a, b, d, n, bx, y)
  BY <1>1, <1>2, MovedUnits
<1> HIDE DEF bx, y
<1>6. /\ bx \in Seq(Unit) /\ y \in Seq(Unit) /\ Len(bx) = Len(b) + n
      /\ (a \o bx) \o y = (a \o b) \o d
  BY <1>5 DEF Moved
<1>7. l \in Connection
  <2>1. [k EXCEPT !.out = bx] \in Connection
    BY <1>1, <1>6, QueuesTyped, Zenon
  <2>2. [[k EXCEPT !.out = bx] EXCEPT !.send = y] \in Connection
    BY <2>1, <1>1, <1>6, QueuesTyped, Zenon
  <2> QED
    BY <2>2, <1>3
<1>8. /\ LeftAlone(k, l) /\ l.recv = k.recv /\ l.rtls = k.rtls /\ l.in = k.in /\ l.send = y
      /\ l.out = bx /\ l.tlsSend = k.tlsSend
      /\ l.is_tls_hs = k.is_tls_hs /\ l.is_resp = k.is_resp /\ l.file = k.file
      /\ l.is_draining = k.is_draining /\ l.atClose = k.atClose /\ l.is_closing = k.is_closing
  BY <1>1, <1>3 DEF Connection, LeftAlone
<1>9. k.tlsSend = <<>> /\ k.rtls = <<>> /\ k.is_tls_hs = "no"
  BY DEF Fine, Shaking
<1>10. Stream(l) = Stream(k) /\ Waiting(l) = Waiting(k)
  <2>1. \A s \in Seq(Unit) : s \o <<>> = s
    BY ConcatEmptySeq
  <2>2. a \o bx \in Seq(Unit) /\ a \o b \in Seq(Unit)
    BY <1>1, <1>6, ConcatProperties
  <2>3. (a \o bx) \o <<>> = a \o bx
    BY <2>1, <2>2, Zenon
  <2>4. (a \o b) \o <<>> = a \o b
    BY <2>1, <2>2, Zenon
  <2>5. Stream(l) = ((a \o bx) \o <<>>) \o y
    BY <1>4, <1>8, <1>9, Zenon DEF Stream, Delivered, LeftAlone
  <2>6. Stream(k) = ((a \o b) \o <<>>) \o d
    BY <1>4, <1>9, Zenon DEF Stream, Delivered
  <2>7. Stream(l) = Stream(k)
    BY <2>3, <2>4, <2>5, <2>6, <1>6, Zenon
  <2> QED
    BY <2>7, <1>8, Zenon DEF Waiting
<1>11. Len(l.out) <= SocketRoom
  BY <1>2, <1>6, <1>8
<1>12. /\ (Streaming(l) <=> l.is_resp) /\ (Streaming(l) => k.is_tls_hs = "no") /\ Rest(l) = Rest(k)
       /\ l.rtls = <<>> /\ l.tlsSend = <<>>
  BY <1>8, <1>9 DEF Fine, Streaming, Rest
<1>13. Fine(l)
  <2>1. MovesOn(k, l)
    BY <1>7, <1>8, <1>9, <1>10, <1>11, <1>12 DEF MovesOn, Fine, LeftAlone
  <2> QED
    BY <2>1, MovedOn
<1> QED
  BY <1>8, <1>13

\* write_conn without TLS.
LEMMA PlainWriteServed ==
  ASSUME NEW k, Fine(k), k.socket = "open", ~k.is_tls, NEW l, l = PlainWrite(k)
  PROVE  Served(k, l)
<1> DEFINE n == Least(Room(k), Len(k.send))
<1>1. CASE k.client = "gone"
  <2>1. l = Closing(k, TRUE)
    BY <1>1 DEF PlainWrite, Closing
  <2> QED
    BY <1>1, <2>1, MarkedFine DEF Served
<1>2. CASE k.client # "gone" /\ n = 0
  BY <1>2 DEF PlainWrite, Served, LeftAlone
<1>3. CASE k.client # "gone" /\ n # 0
  <2> DEFINE w == WrittenTo(k, n)
  <2>1. Fine(w) /\ LeftAlone(k, w) /\ w.is_closing = k.is_closing
    BY WrittenFine
  <2>2. l = WriteEvent(w)
    BY <1>3 DEF PlainWrite, WrittenTo
  <2> HIDE DEF w
  <2>3. Served(w, l)
    BY <2>1, <2>2, WriteEventServed
  <2> QED
    BY <2>1, <2>3, ServedTwice DEF Served
<1> QED
  BY <1>1, <1>2, <1>3

Encrypted(k, n) == [k EXCEPT !.tlsSend = @ \o SubSeq(k.send, 1, n), !.send = After(@, n)]

\* write_conn with TLS: what is not taken stays encrypted.
LEMMA TlsWriteServed ==
  ASSUME NEW k, Fine(k), k.socket = "open", k.is_tls, NEW reset, NEW l, l = TlsWrite(k, reset)
  PROVE  Served(k, l)
<1> DEFINE n == IF k.is_tls_throttled THEN 0 ELSE Least(SendSize, Len(k.send))
           e == Encrypted(k, n)
           sent == mg_tls_flush(e)
           done == Throttled(sent, k.client # "gone" /\ sent.tlsSend # <<>>)
<1>1. n \in 0 .. Len(k.send)
  <2>1. SendSize \in Nat /\ Len(k.send) \in Nat
    BY WebServerAssumption, Queues, LenProperties DEF Fine
  <2>2. Least(SendSize, Len(k.send)) \in 0 .. Len(k.send) /\ 0 \in 0 .. Len(k.send)
    <3>1. \A x \in Nat : 0 \in 0 .. x
      OBVIOUS
    <3> QED
      BY <2>1, <3>1, LeastOf, Zenon
  <2> QED
    BY <2>2, Zenon
<1>2. l = IF k.client = "gone" /\ ~reset THEN [k EXCEPT !.is_closing = TRUE]
          ELSE IF n > 0 THEN WriteEvent(done) ELSE done
  BY DEF TlsWrite, Encrypted, Throttled
<1> HIDE DEF n
<1>3. Fine(e) /\ LeftAlone(k, e) /\ e.is_closing = k.is_closing
  BY <1>1, EncryptedFine DEF Encrypted
<1> HIDE DEF e
<1>4. Fine(sent) /\ LeftAlone(e, sent) /\ sent.is_closing = e.is_closing
  <2>1. e.socket = "open" /\ e.is_tls
    BY <1>3 DEF LeftAlone
  <2> QED
    BY <2>1, <1>3, FlushFine, Zenon
<1> HIDE DEF sent
<1>5. Fine(done) /\ LeftAlone(sent, done) /\ done.is_closing = sent.is_closing
  <2> DEFINE b == k.client # "gone" /\ sent.tlsSend # <<>>
  <2>1. b \in BOOLEAN /\ sent.socket = "open"
    BY <1>3, <1>4 DEF LeftAlone
  <2>2. done = Throttled(sent, b)
    OBVIOUS
  <2> HIDE DEF b, done
  <2> QED
    BY <1>4, <2>1, <2>2, MarkedFine
<1> HIDE DEF done
<1>6. Served(k, done)
  BY <1>3, <1>4, <1>5 DEF Served, LeftAlone
<1>7. CASE k.client = "gone" /\ ~reset
  <2>1. l = Closing(k, TRUE)
    BY <1>2, <1>7 DEF Closing
  <2> QED
    BY <1>7, <2>1, MarkedFine DEF Served
<1>8. CASE ~(k.client = "gone" /\ ~reset) /\ n > 0
  <2>1. l = WriteEvent(done)
    BY <1>2, <1>8
  <2>2. Served(done, l)
    BY <2>1, <1>5, WriteEventServed
  <2> QED
    BY <2>2, <1>6, ServedTwice
<1>9. CASE ~(k.client = "gone" /\ ~reset) /\ ~(n > 0)
  BY <1>2, <1>6, <1>9
<1> QED
  BY <1>7, <1>8, <1>9

\* write_conn, if the socket may be written.
LEMMA WriteServed ==
  ASSUME NEW k, Fine(k), k.socket = "open", NEW reset, NEW l, l = IfWritable(k, reset)
  PROVE  Served(k, l)
<1>1. CASE ~k.is_writable
  BY <1>1 DEF IfWritable, Served, LeftAlone
<1>2. CASE k.is_writable /\ k.is_tls
  <2>1. l = TlsWrite(k, reset)
    BY <1>2 DEF IfWritable, write_conn
  <2> QED
    BY <1>2, <2>1, TlsWriteServed
<1>3. CASE k.is_writable /\ ~k.is_tls
  <2>1. l = PlainWrite(k)
    BY <1>3 DEF IfWritable, write_conn
  <2> QED
    BY <1>3, <2>1, PlainWriteServed
<1> QED
  BY <1>1, <1>2, <1>3

\* What is left encrypted is flushed when all is sent.
LEMMA FlushServed ==
  ASSUME NEW k, Fine(k), k.socket = "open", NEW l, l = FlushIfSent(k)
  PROVE  Served(k, l)
<1>1. CASE k.is_tls /\ k.is_tls_hs = "no" /\ k.send = <<>>
  <2>1. l = mg_tls_flush(k)
    BY <1>1 DEF FlushIfSent
  <2> QED
    BY <1>1, <2>1, FlushFine DEF Served
<1>2. CASE ~(k.is_tls /\ k.is_tls_hs = "no" /\ k.send = <<>>)
  BY <1>2 DEF FlushIfSent, Served, LeftAlone
<1> QED
  BY <1>1, <1>2

-----------------------------------------------------------------------------
(* What is read from it.                                                   *)

\* Raw bytes are read, encrypted or not, and a record decrypted.
RawRead(k, n) == [k EXCEPT !.rtls = @ \o Received(k, n), !.in = After(@, n)]
PlainlyRead(k, n) == [k EXCEPT !.recv = @ \o Received(k, n), !.in = After(@, n)]
Decrypted(k) == [k EXCEPT !.recv = Append(@, Head(k.rtls)), !.rtls = Tail(@)]

\* What reads leave alone.
ReadOnly(k, l) ==
    /\ l \in Connection /\ LeftAlone(k, l) /\ Stream(l) = Stream(k) /\ l.send = k.send
    /\ l.out = k.out /\ l.tlsSend = k.tlsSend
    /\ l.is_tls_hs = k.is_tls_hs /\ l.is_resp = k.is_resp /\ l.file = k.file
    /\ l.is_draining = k.is_draining /\ l.atClose = k.atClose /\ l.is_closing = k.is_closing

\* What only moves units between the buffers that are read.
LEMMA ReadOnlyFine ==
  ASSUME NEW k, Fine(k), k.socket = "open", NEW l, ReadOnly(k, l), Waiting(l) = Waiting(k),
         ~k.is_tls => l.rtls = <<>>, k.is_tls_hs # "no" => l.recv = <<>>
  PROVE  Fine(l) /\ LeftAlone(k, l) /\ l.is_tls_hs = k.is_tls_hs
<1>1. /\ (Streaming(l) <=> l.is_resp) /\ (Streaming(l) => k.is_tls_hs = "no") /\ Rest(l) = Rest(k)
      /\ (k.is_tls_hs # "no" => l.recv = <<>> /\ l.send = <<>>)
      /\ (~k.is_tls => l.rtls = <<>> /\ l.tlsSend = <<>>)
      /\ Len(l.out) <= SocketRoom
  BY DEF ReadOnly, Fine, Streaming, Rest, Shaking
<1>2. /\ l \in Connection /\ LeftAlone(k, l) /\ Stream(l) = Stream(k)
      /\ l.is_tls_hs = k.is_tls_hs /\ l.is_draining = k.is_draining /\ l.atClose = k.atClose
  BY DEF ReadOnly
<1>3. Fine(l)
  <2>1. MovesOn(k, l)
    BY <1>1, <1>2 DEF MovesOn, Fine, LeftAlone
  <2> QED
    BY <2>1, MovedOn
<1> QED
  BY <1>2, <1>3

\* The units left when all are taken, or none were there.
LEMMA NoneLeft ==
  ASSUME NEW d \in Seq(Fragment), NEW n \in 0 .. Len(d), NEW y \in Seq(Fragment), Len(y) = Len(d) - n
  PROVE  d = <<>> => y = <<>>
<1>1. d = <<>> => Len(d) = 0
  BY Indexes
<1>2. d = <<>> => Len(y) = 0
  BY <1>1
<1> QED
  BY <1>2, Indexes

\* Raw records are read from the socket.
LEMMA RawReadFine ==
  ASSUME NEW k, Fine(k), k.socket = "open", k.is_tls, NEW n \in 0 .. Len(k.in), NEW l, l = RawRead(k, n)
  PROVE  Fine(l) /\ LeftAlone(k, l) /\ l.is_tls_hs = k.is_tls_hs
<1> DEFINE a == k.recv
           b == k.rtls
           d == k.in
           bx == b \o SubSeq(d, 1, n)
           y == SubSeq(d, n + 1, Len(d))
<1>1. k \in Connection /\ a \in Seq(Fragment) /\ b \in Seq(Fragment) /\ d \in Seq(Fragment)
  BY Queues DEF Fine
<1>2. l = [k EXCEPT !.rtls = bx, !.in = y]
  BY Zenon DEF RawRead, Received, After
<1>3. n \in 0 .. Len(d) /\ a = k.recv /\ b = k.rtls /\ d = k.in
  OBVIOUS
<1> HIDE DEF a, b, d
<1>4. Moved(Fragment, a, b, d, n, bx, y)
  BY <1>1, <1>3, MovedUnits
<1> HIDE DEF bx, y
<1>5. /\ bx \in Seq(Fragment) /\ y \in Seq(Fragment) /\ Len(y) = Len(d) - n
      /\ (a \o bx) \o y = (a \o b) \o d
  BY <1>4 DEF Moved
<1>6. d = <<>> => y = <<>>
  BY <1>1, <1>3, <1>5, NoneLeft
<1>7. l \in Connection
  <2>1. [k EXCEPT !.rtls = bx] \in Connection
    BY <1>1, <1>5, QueuesTyped, Zenon
  <2>2. [[k EXCEPT !.rtls = bx] EXCEPT !.in = y] \in Connection
    BY <2>1, <1>5, QueuesTyped, Zenon
  <2> QED
    BY <2>2, <1>2
<1>8. /\ LeftAlone(k, l) /\ l.recv = a /\ l.rtls = bx /\ l.in = y /\ l.send = k.send
      /\ l.out = k.out /\ l.tlsSend = k.tlsSend
      /\ l.is_tls_hs = k.is_tls_hs /\ l.is_resp = k.is_resp /\ l.file = k.file
      /\ l.is_draining = k.is_draining /\ l.atClose = k.atClose /\ l.is_closing = k.is_closing
  BY <1>1, <1>2, <1>3, <1>6 DEF Connection, LeftAlone
<1>9. Stream(l) = Stream(k)
  BY <1>8, Zenon DEF Stream, Delivered, LeftAlone
<1>10. Waiting(l) = Waiting(k)
  BY <1>3, <1>5, <1>8, Zenon DEF Waiting
<1>11. k.is_tls_hs # "no" => l.recv = <<>>
  BY <1>3, <1>8 DEF Fine, Shaking
<1>12. ReadOnly(k, l)
  BY <1>7, <1>8, <1>9 DEF ReadOnly
<1> QED
  BY <1>10, <1>11, <1>12, ReadOnlyFine

\* Without TLS what is read goes to the buffer of http_cb.
LEMMA PlainlyReadFine ==
  ASSUME NEW k, Fine(k), k.socket = "open", ~k.is_tls, NEW n \in 0 .. Len(k.in), NEW l, l = PlainlyRead(k, n)
  PROVE  Fine(l) /\ LeftAlone(k, l) /\ l.is_tls_hs = k.is_tls_hs
<1> DEFINE b == k.recv
           d == k.in
           bx == b \o SubSeq(d, 1, n)
           y == SubSeq(d, n + 1, Len(d))
<1>1. k \in Connection /\ b \in Seq(Fragment) /\ d \in Seq(Fragment)
  BY Queues DEF Fine
<1>2. l = [k EXCEPT !.recv = bx, !.in = y]
  BY Zenon DEF PlainlyRead, Received, After
<1>3. n \in 0 .. Len(d) /\ b = k.recv /\ d = k.in
  OBVIOUS
<1> HIDE DEF b, d
<1>4. Moved(Fragment, <<>>, b, d, n, bx, y)
  <2>1. <<>> \in Seq(Fragment)
    OBVIOUS
  <2> QED
    BY <1>1, <1>3, <2>1, MovedUnits
<1> HIDE DEF bx, y
<1>5. /\ bx \in Seq(Fragment) /\ y \in Seq(Fragment) /\ Len(y) = Len(d) - n
      /\ (<<>> \o bx) \o y = (<<>> \o b) \o d
  BY <1>4 DEF Moved
<1>6. d = <<>> => y = <<>>
  BY <1>1, <1>3, <1>5, NoneLeft
<1>7. l \in Connection
  <2>1. [k EXCEPT !.recv = bx] \in Connection
    BY <1>1, <1>5, QueuesTyped, Zenon
  <2>2. [[k EXCEPT !.recv = bx] EXCEPT !.in = y] \in Connection
    BY <2>1, <1>5, QueuesTyped, Zenon
  <2> QED
    BY <2>2, <1>2
<1>8. /\ LeftAlone(k, l) /\ l.recv = bx /\ l.rtls = k.rtls /\ l.in = y /\ l.send = k.send
      /\ l.out = k.out /\ l.tlsSend = k.tlsSend
      /\ l.is_tls_hs = k.is_tls_hs /\ l.is_resp = k.is_resp /\ l.file = k.file
      /\ l.is_draining = k.is_draining /\ l.atClose = k.atClose /\ l.is_closing = k.is_closing
  BY <1>1, <1>2, <1>3, <1>6 DEF Connection, LeftAlone
<1>9. Stream(l) = Stream(k)
  BY <1>8, Zenon DEF Stream, Delivered, LeftAlone
<1>10. k.rtls = <<>> /\ k.is_tls_hs = "no"
  BY DEF Fine, Shaking
<1>11. Waiting(l) = Waiting(k)
  <2>1. \A s \in Seq(Fragment) : s \o <<>> = s /\ <<>> \o s = s
    BY ConcatEmptySeq
  <2>2. bx \o <<>> = bx /\ b \o <<>> = b /\ <<>> \o bx = bx /\ <<>> \o b = b
    BY <1>1, <1>5, <2>1, Zenon
  <2>3. Waiting(l) = (bx \o <<>>) \o y
    BY <1>8, <1>10, Zenon DEF Waiting
  <2>4. Waiting(k) = (b \o <<>>) \o d
    BY <1>3, <1>10, Zenon DEF Waiting
  <2> QED
    BY <1>5, <2>2, <2>3, <2>4, Zenon
<1>12. ReadOnly(k, l)
  BY <1>7, <1>8, <1>9 DEF ReadOnly
<1> QED
  BY <1>8, <1>10, <1>11, <1>12, ReadOnlyFine

\* The head of one queue, appended to another.
LEMMA FirstMoved ==
  ASSUME NEW S, NEW b \in Seq(S), NEW d \in Seq(S), d # <<>>
  PROVE  /\ Append(b, Head(d)) = b \o SubSeq(d, 1, 1) /\ Tail(d) = SubSeq(d, 1 + 1, Len(d))
         /\ 1 \in 0 .. Len(d) /\ Head(d) \in S
<1>1. Len(d) \in Nat \ {0} /\ Head(d) = d[1] /\ d[1] \in S
  <2>1. Len(d) \in Nat /\ Len(d) # 0
    BY Indexes
  <2>2. d[1] \in S
    BY <2>1, ElementOfSeq
  <2> QED
    BY <2>1, <2>2
<1>2. SubSeq(d, 1, 1) = <<d[1]>>
  <2>1. SubSeq(d, 1, 1) \in Seq(S) /\ Len(SubSeq(d, 1, 1)) = 1 /\ SubSeq(d, 1, 1)[1] = d[1]
    <3>1. \A i \in 1 .. 1 : d[i] \in S
      BY <1>1
    <3> QED
      BY <3>1, SubSeqProperties
  <2> DEFINE f == SubSeq(d, 1, 1)
             g == <<d[1]>>
  <2>2. g \in Seq(S) /\ Len(g) = 1 /\ g[1] = d[1]
    BY <1>1
  <2>3. f \in Seq(S) /\ Len(f) = Len(g) /\ \A i \in 1 .. Len(f) : f[i] = g[i]
    BY <2>1, <2>2
  <2>4. g \in Seq(S)
    BY <2>2
  <2> HIDE DEF f, g
  <2>5. f = g
    BY <2>3, <2>4, SeqEqual
  <2> QED
    BY <2>5 DEF f, g
<1>3. Append(b, Head(d)) = b \o <<Head(d)>>
  BY <1>1, AppendIsConcat
<1>4. Tail(d) = SubSeq(d, 1 + 1, Len(d))
  <2>1. Tail(d) = SubSeq(d, 2, Len(d))
    BY TailIsSubSeq
  <2>2. 1 + 1 = 2
    OBVIOUS
  <2> QED
    BY <2>1, <2>2, Zenon
<1> QED
  BY <1>1, <1>2, <1>3, <1>4

\* mg_tls_recv decrypts one record.
LEMMA DecryptedFine ==
  ASSUME NEW k, Fine(k), k.socket = "open", k.is_tls, k.is_tls_hs = "no", k.rtls # <<>>,
         NEW l, l = Decrypted(k)
  PROVE  Fine(l) /\ LeftAlone(k, l) /\ l.is_tls_hs = k.is_tls_hs
<1> DEFINE b == k.recv
           d == k.rtls
           bx == b \o SubSeq(d, 1, 1)
           y == SubSeq(d, 1 + 1, Len(d))
<1>1. k \in Connection /\ b \in Seq(Fragment) /\ d \in Seq(Fragment) /\ k.in \in Seq(Fragment)
  BY Queues DEF Fine
<1>2. Append(b, Head(d)) = bx /\ Tail(d) = y /\ 1 \in 0 .. Len(d)
  BY <1>1, FirstMoved
<1>3. l = [k EXCEPT !.recv = bx, !.rtls = y]
  BY <1>2, Zenon DEF Decrypted
<1>4. b = k.recv /\ d = k.rtls
  OBVIOUS
<1> HIDE DEF b, d
<1>5. Moved(Fragment, <<>>, b, d, 1, bx, y)
  <2>1. <<>> \in Seq(Fragment)
    OBVIOUS
  <2> QED
    BY <1>1, <1>2, <2>1, MovedUnits
<1> HIDE DEF bx, y
<1>6. bx \in Seq(Fragment) /\ y \in Seq(Fragment) /\ (<<>> \o bx) \o y = (<<>> \o b) \o d
  BY <1>5 DEF Moved
<1>7. l \in Connection
  <2>1. [k EXCEPT !.recv = bx] \in Connection
    BY <1>1, <1>6, QueuesTyped, Zenon
  <2>2. [[k EXCEPT !.recv = bx] EXCEPT !.rtls = y] \in Connection
    BY <2>1, <1>1, <1>6, QueuesTyped, Zenon
  <2> QED
    BY <2>2, <1>3
<1>8. /\ LeftAlone(k, l) /\ l.recv = bx /\ l.rtls = y /\ l.in = k.in /\ l.send = k.send
      /\ l.out = k.out /\ l.tlsSend = k.tlsSend
      /\ l.is_tls_hs = k.is_tls_hs /\ l.is_resp = k.is_resp /\ l.file = k.file
      /\ l.is_draining = k.is_draining /\ l.atClose = k.atClose /\ l.is_closing = k.is_closing
  BY <1>1, <1>3 DEF Connection, LeftAlone
<1>9. Stream(l) = Stream(k)
  BY <1>8, Zenon DEF Stream, Delivered, LeftAlone
<1>10. Waiting(l) = Waiting(k)
  <2>1. \A s \in Seq(Fragment) : s \o <<>> = s /\ <<>> \o s = s
    BY ConcatEmptySeq
  <2>2. <<>> \o bx = bx /\ <<>> \o b = b
    BY <1>1, <1>6, <2>1, Zenon
  <2>3. bx \o y = b \o d
    BY <1>6, <2>2, Zenon
  <2> QED
    BY <1>4, <1>8, <2>3, Zenon DEF Waiting
<1>11. ReadOnly(k, l)
  BY <1>7, <1>8, <1>9 DEF ReadOnly
<1> QED
  BY <1>8, <1>10, <1>11, ReadOnlyFine

-----------------------------------------------------------------------------
\* A part of the handshake is taken from what waits.
LEMMA RecordTaken ==
  ASSUME NEW k, k.sent \in Seq(Kind), NEW q \in Seq(Fragment), NEW r \in Seq(Fragment), q # <<>>, q[1].id = 0, IsRest(r, q, 1),
         NEW s, NEW t, Headers(s) = {}, Headers(t) = {}, Queued(k, q), Passed(k, q, s),
         \A i \in DOMAIN r : r[i].id > 0
  PROVE  Queued(k, r) /\ Passed(k, r, t)
<1>1. /\ Len(q) \in Nat /\ DOMAIN q = 1 .. Len(q) /\ Len(r) \in Nat /\ DOMAIN r = 1 .. Len(r)
      /\ Len(r) = Len(q) - 1 /\ \A i \in DOMAIN r : i + 1 \in DOMAIN q /\ r[i] = q[i + 1]
      /\ DOMAIN k.sent = 1 .. Len(k.sent) /\ Len(k.sent) \in Nat
  <2>1. /\ Len(q) \in Nat /\ DOMAIN q = 1 .. Len(q) /\ Len(r) \in Nat /\ DOMAIN r = 1 .. Len(r)
        /\ DOMAIN k.sent = 1 .. Len(k.sent) /\ Len(k.sent) \in Nat
    BY Indexes
  <2> QED
    BY <2>1 DEF IsRest
<1>2. Queued(k, r)
  <2>1. \A i \in 1 .. 1 : ~Has(r, q[i].id, 2)
    BY DEF Has
  <2> QED
    BY <2>1, QueuedRest
<1>3. \A j \in DOMAIN q : j # 1 => j - 1 \in DOMAIN r /\ r[j - 1] = q[j]
  BY <1>1
<1>4. ASSUME NEW m \in DOMAIN k.sent
      PROVE  HasHeader(t, m) \/ Malforms(k, m) \/ Has(r, m, 1) \/ Lost(k, r, m)
  <2>1. m > 0
    BY <1>1
  <2>2. HasHeader(s, m) \/ Malforms(k, m) \/ Has(q, m, 1) \/ Lost(k, q, m)
    BY DEF Passed
  <2>3. ~HasHeader(s, m)
    BY DEF HasHeader
  <2>4. Has(q, m, 1) => Has(r, m, 1)
    <3> SUFFICES ASSUME NEW j \in DOMAIN q, q[j].id = m, q[j].part = 1 PROVE Has(r, m, 1)
      BY DEF Has
    <3>1. j # 1
      BY <2>1
    <3> QED
      BY <3>1, <1>3 DEF Has
  <2>5. Lost(k, q, m) => Lost(k, r, m)
    BY <1>1 DEF Lost
  <2> QED
    BY <2>2, <2>3, <2>4, <2>5
<1>5. Passed(k, r, t)
  BY <1>4 DEF Passed, HasHeader
<1> QED
  BY <1>2, <1>5

\* With nothing decrypted yet, the first record is the first of what waits.
LEMMA FirstRecord ==
  ASSUME NEW k, Fine(k), k.recv = <<>>, k.rtls # <<>>, NEW l, l.recv = <<>>, l.rtls = Tail(k.rtls), l.in = k.in
  PROVE  /\ Waiting(k) \in Seq(Fragment) /\ Waiting(k) # <<>> /\ Waiting(k)[1] = Head(k.rtls)
         /\ Waiting(l) \in Seq(Fragment) /\ IsRest(Waiting(l), Waiting(k), 1)
<1> DEFINE b == k.rtls
           d == k.in
<1>1. b \in Seq(Fragment) /\ d \in Seq(Fragment) /\ b # <<>> /\ <<>> \in Seq(Fragment)
  BY Queues DEF Fine
<1>2. Waiting(k) = (<<>> \o b) \o d /\ Waiting(l) = (<<>> \o Tail(b)) \o d
  BY Zenon DEF Waiting
<1> HIDE DEF b, d
<1>3. Tail(b) = SubSeq(b, 1 + 1, Len(b)) /\ Tail(b) \in Seq(Fragment) /\ 1 \in 0 .. Len(b)
  BY <1>1, FirstMoved, HeadTailProperties
<1>4. \A s \in Seq(Fragment) : s \o <<>> = s /\ <<>> \o s = s
  BY ConcatEmptySeq
<1>5. b \o d \in Seq(Fragment) /\ Tail(b) \o d \in Seq(Fragment)
  BY <1>1, <1>3, ConcatProperties
<1>6. Waiting(k) = b \o d /\ Waiting(l) = Tail(b) \o d
  BY <1>1, <1>2, <1>3, <1>4, Zenon
<1>7. IsRest(SubSeq(b, 1 + 1, Len(b)) \o d \o <<>>, b \o d \o <<>>, 1)
  BY <1>1, <1>3, CutFirst
<1>8. IsRest(Tail(b) \o d, b \o d, 1)
  <2>1. SubSeq(b, 1 + 1, Len(b)) \o d \o <<>> = Tail(b) \o d /\ b \o d \o <<>> = b \o d
    BY <1>3, <1>4, <1>5, Zenon
  <2> QED
    BY <1>7, <2>1, Zenon
<1>9. (b \o d) # <<>> /\ (b \o d)[1] = Head(b)
  <2>1. Len(b \o d) = Len(b) + Len(d) /\ Len(b) \in Nat \ {0} /\ Len(d) \in Nat
    BY <1>1, <1>3, ConcatProperties, LenProperties
  <2>2. (b \o d)[1] = b[1]
    BY <1>1, <2>1, ConcatProperties
  <2>3. (b \o d) # <<>>
    BY <1>5, <2>1, Indexes
  <2> QED
    BY <1>1, <2>2, <2>3
<1> QED
  BY <1>5, <1>6, <1>8, <1>9, Zenon DEF b

-----------------------------------------------------------------------------
(* The handshake.                                                          *)

HelloTaken(k) ==
    [k EXCEPT !.is_tls_hs = "negotiated", !.rtls = Tail(@), !.tlsSend = Append(@, Flight)]

FinishedTaken(k) == [k EXCEPT !.is_tls_hs = "no", !.rtls = Tail(@)]

\* The stream of a connection that has written nothing but its part of the handshake.
LEMMA FlightOnly ==
  /\ Flight \in Unit /\ <<Flight>> \in Seq(Unit) /\ Headers(<<Flight>>) = {} /\ Headers(<<>>) = {}
  /\ Extends(<<Flight>>, <<>>) /\ WellFramed(<<Flight>>) /\ Owes(<<Flight>>, 0)
  /\ \A k : InOrder(k, <<Flight>>)
<1>1. Flight \in Unit
  BY WebServerAssumption DEF Flight, Unit
<1>2. <<Flight>> \in Seq(Unit) /\ Len(<<Flight>>) = 1 /\ DOMAIN <<Flight>> = 1 .. 1 /\ <<Flight>>[1] = Flight
  BY <1>1
<1>3. Headers(<<Flight>>) = {} /\ Headers(<<>>) = {}
  BY <1>2 DEF Headers, Flight
<1>4. Extends(<<Flight>>, <<>>)
  BY DEF Extends
<1>5. WellFramed(<<Flight>>)
  <2>1. \A j \in DOMAIN <<Flight>> : j = 1 /\ <<Flight>>[j] # Body
    BY <1>2 DEF Flight, Body
  <2> QED
    BY <2>1, <1>3 DEF WellFramed
<1>6. Owes(<<Flight>>, 0) /\ \A k : InOrder(k, <<Flight>>)
  BY <1>3 DEF Owes, InOrder
<1> QED
  BY <1>1, <1>2, <1>3, <1>4, <1>5, <1>6

\* The first step of the handshake: nothing was read or written before it.
LEMMA HelloFine ==
  ASSUME NEW k, Fine(k), k.socket = "open", k.is_tls_hs = "start", NextRecord(k, "hello"),
         NEW l, l = HelloTaken(k)
  PROVE  Fine(l) /\ LeftAlone(k, l) /\ l.is_closing = k.is_closing
<1> DEFINE q == Waiting(k)
           r == Waiting(l)
           s == Stream(k)
           t == <<Flight>>
<1>1. k \in Connection /\ k.rtls # <<>>
  BY DEF Fine, NextRecord
<1>2. /\ k.is_tls /\ k.recv = <<>> /\ k.send = <<>> /\ ~k.shaken /\ s = <<>>
      /\ \A i \in DOMAIN q : q[i] = Hello
  BY DEF Fine, Shaking
<1>3. k.got = <<>> /\ k.out = <<>> /\ k.tlsSend = <<>>
  <2>1. \A x, y \in Seq(Unit) : x \o y = <<>> => x = <<>> /\ y = <<>>
    BY ConcatProperties
  <2>2. /\ k.got \in Seq(Unit) /\ k.out \in Seq(Unit) /\ k.tlsSend \in Seq(Unit) /\ k.send \in Seq(Unit)
        /\ k.got \o k.out \in Seq(Unit) /\ (k.got \o k.out) \o k.tlsSend \in Seq(Unit)
    BY <1>1, Queues
  <2>3. ((k.got \o k.out) \o k.tlsSend) \o k.send = <<>>
    BY <1>2 DEF Stream, Delivered
  <2>4. (k.got \o k.out) \o k.tlsSend = <<>>
    BY <2>1, <2>2, <2>3, Zenon
  <2>5. k.got \o k.out = <<>> /\ k.tlsSend = <<>>
    BY <2>1, <2>2, <2>4, Zenon
  <2> QED
    BY <2>1, <2>2, <2>5, Zenon
<1>4. /\ Tail(k.rtls) \in Seq(Fragment) /\ Append(k.tlsSend, Flight) = <<Flight>>
      /\ <<Flight>> \in Seq(Unit)
  <2>1. k.rtls \in Seq(Fragment)
    BY <1>1, Queues
  <2>2. Tail(k.rtls) \in Seq(Fragment)
    BY <2>1, <1>1, HeadTailProperties
  <2>3. Append(k.tlsSend, Flight) = <<Flight>>
    BY <1>3
  <2> QED
    BY <2>2, <2>3, FlightOnly
<1>5. l \in Connection
  BY <1>1, <1>4 DEF HelloTaken, Connection
<1>6. /\ LeftAlone(k, l) /\ l.recv = k.recv /\ l.rtls = Tail(k.rtls) /\ l.in = k.in /\ l.send = k.send
      /\ l.out = k.out /\ l.tlsSend = <<Flight>>
      /\ l.is_tls_hs = "negotiated" /\ l.is_resp = k.is_resp /\ l.file = k.file
      /\ l.is_draining = k.is_draining /\ l.atClose = k.atClose /\ l.is_closing = k.is_closing
  BY <1>1, <1>4 DEF Connection, LeftAlone, HelloTaken
<1>7. /\ q \in Seq(Fragment) /\ q # <<>> /\ r \in Seq(Fragment) /\ IsRest(r, q, 1)
  BY <1>1, <1>2, <1>6, FirstRecord
<1>8. /\ l.got = <<>> /\ l.out = <<>> /\ l.send = <<>> /\ l.tlsSend = <<Flight>>
      /\ l.socket = "open" /\ l.is_tls /\ ~l.shaken /\ l.recv = <<>>
      /\ l.sent = k.sent /\ l.last = k.last /\ l.client = k.client
  BY <1>2, <1>3, <1>6 DEF LeftAlone
<1>9. Stream(l) = t
  BY <1>8, FlightOnly DEF Stream, Delivered
<1> HIDE DEF q, r, s, t
<1>10. q[1] = Hello /\ r = <<>>
  <2>1. Len(q) \in Nat /\ DOMAIN q = 1 .. Len(q) /\ Len(q) # 0 /\ Len(r) \in Nat /\ Len(r) = Len(q) - 1
    BY <1>7, Indexes DEF IsRest
  <2>2. Len(q) = 1
    <3> SUFFICES ASSUME Len(q) # 1 PROVE FALSE
      OBVIOUS
    <3>1. 1 \in DOMAIN q /\ 2 \in DOMAIN q /\ 1 < 2
      BY <2>1
    <3>2. Before(q[1], q[2])
      BY <3>1 DEF Fine, Queued, q
    <3> QED
      BY <3>1, <3>2, <1>2 DEF Before, Hello
  <2>3. Len(r) = 0 /\ 1 \in DOMAIN q
    BY <2>1, <2>2
  <2> QED
    BY <2>3, <1>2, <1>7, Indexes
<1>11. Headers(t) = {} /\ Headers(s) = {}
  BY <1>2, FlightOnly DEF t
<1>12. Queued(k, r) /\ Passed(k, r, t)
  <2>1. Queued(k, q) /\ Passed(k, q, s) /\ k.sent \in Seq(Kind)
    BY <1>1, Queues DEF Fine, q, s
  <2>2. q[1].id = 0 /\ \A i \in DOMAIN r : r[i].id > 0
    BY <1>10 DEF Hello
  <2> QED
    BY <2>1, <2>2, <1>7, <1>11, RecordTaken
<1>13. Queued(l, r) /\ Passed(l, r, t)
  BY <1>8, <1>12, SameTalk
<1>14. Drains(l, t)
  <2>1. Drains(k, s) /\ l.is_draining = k.is_draining
    BY <1>6 DEF Fine, s
  <2>2. Extends(t, s) /\ s \in Seq(Unit) /\ t \in Seq(Unit)
    BY <1>1, <1>2, FlightOnly, Queues DEF t, s
  <2> QED
    BY <2>1, <2>2, <1>8, DrainsKept
<1>15. Shaking(l, r, t)
  BY <1>6, <1>8, <1>10 DEF Shaking, t
<1>16. /\ ~Streaming(l) /\ ~l.is_resp /\ Rest(l) = 0 /\ Live(l) /\ ~l.atClose /\ Len(l.out) <= SocketRoom
  BY <1>6, <1>8 DEF Fine, Streaming, Rest, Live, LeftAlone
<1>17. WellFramed(t) /\ Owes(t, 0) /\ InOrder(l, t)
  BY FlightOnly DEF t
<1>18. Fine(l)
  BY <1>5, <1>8, <1>9, <1>13, <1>14, <1>15, <1>16, <1>17 DEF Fine, r
<1> QED
  BY <1>6, <1>18

\* The second: the client has read the server's part.
LEMMA FinishedFine ==
  ASSUME NEW k, Fine(k), k.socket = "open", k.is_tls_hs = "negotiated", NextRecord(k, "finished"),
         NEW l, l = FinishedTaken(k)
  PROVE  Fine(l) /\ LeftAlone(k, l) /\ l.is_closing = k.is_closing
<1> DEFINE q == Waiting(k)
           r == Waiting(l)
           s == Stream(k)
<1>1. k \in Connection /\ k.rtls # <<>> /\ Head(k.rtls).kind = "finished"
  BY DEF Fine, NextRecord
<1>2. /\ k.is_tls /\ k.recv = <<>> /\ k.send = <<>> /\ s = <<Flight>>
      /\ k.shaken => k.got = <<Flight>> /\ \A i \in DOMAIN q : q[i].id = 0 => q[i] = Finished
      /\ ~k.shaken => q = <<>>
  BY DEF Fine, Shaking
<1>3. Tail(k.rtls) \in Seq(Fragment)
  <2>1. k.rtls \in Seq(Fragment)
    BY <1>1, Queues
  <2> QED
    BY <2>1, <1>1, HeadTailProperties
<1>4. l \in Connection
  BY <1>1, <1>3 DEF FinishedTaken, Connection
<1>5. /\ LeftAlone(k, l) /\ l.recv = k.recv /\ l.rtls = Tail(k.rtls) /\ l.in = k.in /\ l.send = k.send
      /\ l.out = k.out /\ l.tlsSend = k.tlsSend
      /\ l.is_tls_hs = "no" /\ l.is_resp = k.is_resp /\ l.file = k.file
      /\ l.is_draining = k.is_draining /\ l.atClose = k.atClose /\ l.is_closing = k.is_closing
  BY <1>1, <1>3 DEF Connection, LeftAlone, FinishedTaken
<1>6. /\ q \in Seq(Fragment) /\ q # <<>> /\ q[1] = Head(k.rtls)
      /\ r \in Seq(Fragment) /\ IsRest(r, q, 1)
  BY <1>1, <1>2, <1>5, FirstRecord
<1>7. Stream(l) = s
  BY <1>5, Zenon DEF Stream, Delivered, LeftAlone
<1> HIDE DEF q, r, s
<1>8. Len(q) \in Nat /\ DOMAIN q = 1 .. Len(q) /\ 1 \in DOMAIN q
  <2>1. Len(q) \in Nat /\ DOMAIN q = 1 .. Len(q) /\ Len(q) # 0
    BY <1>6, Indexes
  <2> QED
    BY <2>1
<1>9. k.shaken /\ k.got = <<Flight>>
  BY <1>2, <1>6
<1>10. q[1] = Finished
  <2>1. Known(k, q[1])
    BY <1>8 DEF Fine, Queued, q
  <2>2. q[1].id = 0
    <3> SUFFICES ASSUME q[1].id # 0 PROVE FALSE
      OBVIOUS
    <3>1. q[1].id <= Len(k.sent) /\ q[1].kind = k.sent[q[1].id]
      BY <2>1 DEF Known
    <3>2. q[1] \in Fragment /\ k.sent \in Seq(Kind)
      BY <1>1, <1>6, <1>8, Indexes, Queues
    <3>3. q[1].id \in Nat /\ q[1].id # 0 /\ Len(k.sent) \in Nat
      BY <3>2, Indexes DEF Fragment
    <3>4. q[1].id \in 1 .. Len(k.sent)
      BY <3>1, <3>3
    <3>5. q[1].kind \in Kind
      BY <3>1, <3>2, <3>4, ElementOfSeq
    <3> QED
      BY <3>5, <1>1, <1>6, WebServerAssumption DEF InTwoParts
  <2> QED
    BY <2>2, <1>2, <1>8, <1>9
<1>11. \A i \in DOMAIN r : r[i].id > 0
  <2> TAKE i \in DOMAIN r
  <2>1. i + 1 \in DOMAIN q /\ 1 < i + 1 /\ r[i] = q[i + 1]
    <3>1. Len(r) \in Nat /\ DOMAIN r = 1 .. Len(r)
      BY <1>6, Indexes
    <3> QED
      BY <3>1, <1>6, <1>8 DEF IsRest
  <2>2. Before(q[1], q[i + 1])
    BY <2>1, <1>8 DEF Fine, Queued, q
  <2>3. q[i + 1] \in Fragment
    BY <1>6, <2>1, Indexes
  <2>4. q[i + 1].id = 0 => q[i + 1] = Finished
    BY <2>1, <1>2, <1>9
  <2> QED
    BY <2>1, <2>2, <2>3, <2>4, <1>10 DEF Before, Finished, Fragment
<1>12. Headers(s) = {}
  BY <1>2, FlightOnly
<1>13. Queued(k, r) /\ Passed(k, r, s)
  <2>1. Queued(k, q) /\ Passed(k, q, s) /\ k.sent \in Seq(Kind)
    BY <1>1, Queues DEF Fine, q, s
  <2>2. q[1].id = 0
    BY <1>10 DEF Finished
  <2> QED
    BY <2>1, <2>2, <1>6, <1>11, <1>12, RecordTaken
<1>14. /\ l.sent = k.sent /\ l.last = k.last /\ l.client = k.client /\ l.socket = "open" /\ l.is_tls
       /\ l.shaken /\ l.got = <<Flight>>
  BY <1>2, <1>5, <1>9 DEF LeftAlone
<1>15. Queued(l, r) /\ Passed(l, r, s) /\ InOrder(l, s)
  BY <1>13, <1>14, SameTalk DEF Fine, s
<1>16. Drains(l, s)
  BY <1>5, <1>14 DEF Fine, Drains, s
<1>17. Shaking(l, r, s)
  <2>1. s # <<>> /\ s[1] = Flight /\ l.got # <<>>
    BY <1>2, <1>14
  <2> QED
    BY <2>1, <1>2, <1>5, <1>11, <1>14 DEF Shaking
<1>18. /\ ~Streaming(l) /\ ~l.is_resp /\ Rest(l) = Rest(k) /\ Live(l) /\ ~l.atClose /\ Len(l.out) <= SocketRoom
  BY <1>5, <1>14 DEF Fine, Streaming, Rest, Live
<1>19. WellFramed(s) /\ Owes(s, Rest(l))
  BY <1>18 DEF Fine, s
<1>20. Fine(l)
  BY <1>4, <1>7, <1>14, <1>15, <1>16, <1>17, <1>18, <1>19 DEF Fine, r
<1> QED
  BY <1>5, <1>20

\* mg_tls_handshake, both steps of it if their records are here.
LEMMA HandshakeFine ==
  ASSUME NEW k, Fine(k), k.socket = "open", k.is_tls, NEW l, l = mg_tls_handshake(k)
  PROVE  Fine(l) /\ LeftAlone(k, l)
<1> DEFINE hello == IF k.is_tls_hs = "start" /\ NextRecord(k, "hello") THEN HelloTaken(k) ELSE k
           both == IF hello.is_tls_hs = "negotiated" /\ NextRecord(hello, "finished")
                   THEN FinishedTaken(hello) ELSE hello
<1>1. l = mg_tls_flush(both)
  BY DEF mg_tls_handshake, HelloTaken, FinishedTaken
<1>2. Fine(hello) /\ LeftAlone(k, hello)
  <2>1. CASE k.is_tls_hs = "start" /\ NextRecord(k, "hello")
    BY <2>1, HelloFine
  <2>2. CASE ~(k.is_tls_hs = "start" /\ NextRecord(k, "hello"))
    BY <2>2 DEF LeftAlone
  <2> QED
    BY <2>1, <2>2
<1> HIDE DEF hello
<1>3. hello.socket = "open" /\ hello.is_tls
  BY <1>2 DEF LeftAlone
<1>4. Fine(both) /\ LeftAlone(hello, both)
  <2>1. CASE hello.is_tls_hs = "negotiated" /\ NextRecord(hello, "finished")
    BY <2>1, <1>2, <1>3, FinishedFine
  <2>2. CASE ~(hello.is_tls_hs = "negotiated" /\ NextRecord(hello, "finished"))
    BY <2>2, <1>2 DEF LeftAlone
  <2> QED
    BY <2>1, <2>2
<1> HIDE DEF both
<1>5. both.socket = "open" /\ both.is_tls
  BY <1>3, <1>4 DEF LeftAlone
<1>6. Fine(l) /\ LeftAlone(both, l)
  BY <1>1, <1>4, <1>5, FlushFine
<1> QED
  BY <1>2, <1>4, <1>6 DEF LeftAlone

-----------------------------------------------------------------------------
(* The turn of a connection.                                               *)

\* MG_EV_READ changes nothing but what events change.
LEMMA ReadEventServed ==
  ASSUME NEW c, NEW k, Fine(k), k.socket = "open", NEW l, l = ReadEvent(c, k)
  PROVE  Served(k, l)
<1> QED
  BY ReadEventFine, EventServed

\* read_conn with TLS.
LEMMA TlsReadFine ==
  ASSUME NEW c, NEW k, Fine(k), k.socket = "open", k.is_tls, NEW n \in 0 .. Len(k.in),
         NEW l, l = TlsRead(c, k, n)
  PROVE  Fine(l) /\ LeftAlone(k, l)
<1> DEFINE full == Len(k.rtls) >= RecordRoom
           raw == IF full THEN k ELSE RawRead(k, n)
           error == full \/ (k.in = <<>> /\ k.client # "open")
           record == raw.is_tls_hs = "no" /\ raw.rtls # <<>>
           plain == IF record THEN Decrypted(raw) ELSE raw
           mark == plain.is_closing \/ plain.rtls = <<>> \/ ~record
           settled == IF error THEN Closing(plain, mark)
                      ELSE IF plain.is_tls_hs # "no" THEN mg_tls_handshake(plain) ELSE plain
<1>1. l = IF record THEN ReadEvent(c, settled) ELSE settled
  BY DEF TlsRead, RawRead, Decrypted, Closing
<1>2. Fine(raw) /\ LeftAlone(k, raw)
  <2>1. CASE full
    BY <2>1 DEF LeftAlone
  <2>2. CASE ~full
    BY <2>2, RawReadFine
  <2> QED
    BY <2>1, <2>2
<1> HIDE DEF raw, full
<1>3. raw.socket = "open" /\ raw.is_tls
  BY <1>2 DEF LeftAlone
<1>4. Fine(plain) /\ LeftAlone(raw, plain)
  <2>1. CASE record
    BY <2>1, <1>2, <1>3, DecryptedFine
  <2>2. CASE ~record
    BY <2>2, <1>2 DEF LeftAlone
  <2> QED
    BY <2>1, <2>2
<1>5. mark \in BOOLEAN
  BY <1>4 DEF Fine, Connection
<1> HIDE DEF plain, record, error, mark
<1>6. plain.socket = "open" /\ plain.is_tls
  BY <1>3, <1>4 DEF LeftAlone
<1>7. Fine(settled) /\ LeftAlone(plain, settled)
  <2>1. CASE error
    BY <2>1, <1>4, <1>5, <1>6, MarkedFine
  <2>2. CASE ~error /\ plain.is_tls_hs # "no"
    BY <2>2, <1>4, <1>6, HandshakeFine
  <2>3. CASE ~error /\ ~(plain.is_tls_hs # "no")
    BY <2>3, <1>4 DEF LeftAlone
  <2> QED
    BY <2>1, <2>2, <2>3
<1> HIDE DEF settled
<1>8. settled.socket = "open"
  BY <1>6, <1>7 DEF LeftAlone
<1>9. Fine(l) /\ LeftAlone(settled, l)
  <2>1. CASE record
    BY <2>1, <1>1, <1>7, <1>8, ReadEventServed DEF Served
  <2>2. CASE ~record
    BY <2>2, <1>1, <1>7 DEF LeftAlone
  <2> QED
    BY <2>1, <2>2
<1> QED
  BY <1>2, <1>4, <1>7, <1>9 DEF LeftAlone

\* read_conn without it.
LEMMA PlainReadFine ==
  ASSUME NEW c, NEW k, Fine(k), k.socket = "open", ~k.is_tls, NEW n \in 0 .. Len(k.in),
         NEW l, l = PlainRead(c, k, n)
  PROVE  Fine(l) /\ LeftAlone(k, l)
<1>1. CASE k.in # <<>>
  <2> DEFINE p == PlainlyRead(k, n)
  <2>1. l = ReadEvent(c, p)
    BY <1>1 DEF PlainRead, PlainlyRead
  <2>2. Fine(p) /\ LeftAlone(k, p)
    BY PlainlyReadFine
  <2> HIDE DEF p
  <2>3. p.socket = "open"
    BY <2>2 DEF LeftAlone
  <2>4. Fine(l) /\ LeftAlone(p, l)
    BY <2>1, <2>2, <2>3, ReadEventServed DEF Served
  <2> QED
    BY <2>2, <2>4 DEF LeftAlone
<1>2. CASE k.in = <<>>
  <2> DEFINE b == k.is_closing \/ k.client # "open"
  <2>1. b \in BOOLEAN
    BY DEF Fine, Connection
  <2>2. l = Closing(k, b)
    BY <1>2 DEF PlainRead, Closing
  <2> HIDE DEF b
  <2> QED
    BY <2>1, <2>2, MarkedFine
<1> QED
  BY <1>1, <1>2

\* read_conn, if the socket is readable.
LEMMA ReadFine ==
  ASSUME NEW c, NEW k, Fine(k), k.socket = "open", NEW n \in 0 .. Len(k.in),
         NEW l, l = IfReadable(c, k, n)
  PROVE  Fine(l) /\ LeftAlone(k, l) /\ (~k.is_readable => l = k)
<1>1. CASE ~k.is_readable
  BY <1>1 DEF IfReadable, LeftAlone
<1>2. CASE k.is_readable /\ Len(k.recv) >= MG_MAX_RECV_SIZE
  <2>1. l = Closing(k, TRUE)
    BY <1>2 DEF IfReadable, read_conn, Closing
  <2> QED
    BY <1>2, <2>1, MarkedFine
<1>3. CASE k.is_readable /\ ~(Len(k.recv) >= MG_MAX_RECV_SIZE) /\ k.is_tls
  <2>1. l = TlsRead(c, k, n)
    BY <1>3 DEF IfReadable, read_conn
  <2> QED
    BY <1>3, <2>1, TlsReadFine
<1>4. CASE k.is_readable /\ ~(Len(k.recv) >= MG_MAX_RECV_SIZE) /\ ~k.is_tls
  <2>1. l = PlainRead(c, k, n)
    BY <1>4 DEF IfReadable, read_conn
  <2> QED
    BY <1>4, <2>1, PlainReadFine
<1> QED
  BY <1>1, <1>2, <1>3, <1>4

\* Reading, writing and flushing, unless the connection is to be closed.
LEMMA TransferredFine ==
  ASSUME NEW c, NEW k, Fine(k), k.socket = "open", NEW n \in 0 .. Len(k.in), NEW reset,
         NEW l, l = Transferred(c, k, n, reset)
  PROVE  Fine(l) /\ LeftAlone(k, l) /\ (~k.is_readable => Served(k, l))
<1>1. CASE k.is_closing
  BY <1>1 DEF Transferred, LeftAlone, Served
<1>2. CASE ~k.is_closing
  <2> DEFINE r == IfReadable(c, k, n)
             w == IfWritable(r, reset)
  <2>1. l = FlushIfSent(w)
    BY <1>2 DEF Transferred
  <2>2. Fine(r) /\ LeftAlone(k, r) /\ (~k.is_readable => r = k)
    BY ReadFine
  <2> HIDE DEF r
  <2>3. r.socket = "open"
    BY <2>2 DEF LeftAlone
  <2>4. Served(r, w)
    BY <2>2, <2>3, WriteServed
  <2> HIDE DEF w
  <2>5. Fine(w) /\ w.socket = "open"
    BY <2>3, <2>4 DEF Served, LeftAlone
  <2>6. Served(w, l)
    BY <2>1, <2>5, FlushServed
  <2>7. Served(r, l)
    BY <2>4, <2>6, ServedTwice
  <2> QED
    BY <2>2, <2>7 DEF Served, LeftAlone
<1> QED
  BY <1>1, <1>2

\* The turn of a connection: it stays fine.  One not readable closes only if it was to,
\* the client is gone or asked for what the server does not know, or what drains is sent.
LEMMA TurnedFine ==
  ASSUME NEW c, Fine(conn[c]), conn[c].socket = "open", NEW n \in 0 .. Len(conn[c].in), NEW reset,
         NEW l, l = Turned(c, n, reset)
  PROVE  /\ Fine(l) /\ LeftAlone(conn[c], l)
         /\ l.is_closing /\ ~conn[c].is_readable =>
               \/ conn[c].is_closing \/ conn[c].client = "gone" \/ "badchunk" \in Range(conn[c].sent)
               \/ l.is_draining /\ l.send = <<>>
<1> DEFINE k == conn[c]
           p == Resumed(c, k, PollEvent(c, k))
           t == Transferred(c, p, n, reset)
           b == t.is_closing \/ SendDrained(t)
<1>1. l = Closing(t, b)
  BY DEF Turned, ClosesIfDrained, Closing
<1>2. Fine(p) /\ Handled(k, p) /\ AsksToClose(k, p)
  BY ResumedFine
<1>3. Served(k, p)
  BY <1>2, EventServed
<1> HIDE DEF p
<1>4. p.socket = "open" /\ p.in = k.in
  BY <1>2 DEF Handled
<1>5. Fine(t) /\ LeftAlone(p, t) /\ (~p.is_readable => Served(p, t))
  <2>1. n \in 0 .. Len(p.in)
    BY <1>4
  <2> QED
    BY <2>1, <1>2, <1>4, TransferredFine
<1>6. b \in BOOLEAN /\ t.socket = "open"
  BY <1>4, <1>5 DEF Fine, Connection, SendDrained, LeftAlone
<1>7. ~k.is_readable => Served(k, t)
  <2>1. p.is_readable = k.is_readable
    BY <1>2 DEF Handled
  <2> QED
    BY <2>1, <1>3, <1>5, ServedTwice
<1> HIDE DEF t, b
<1>8. Fine(l) /\ LeftAlone(t, l) /\ l.is_closing = b /\ l.is_draining = t.is_draining
  BY <1>1, <1>5, <1>6, MarkedFine
<1>9. l.send = t.send
  BY <1>1, <1>5 DEF Closing, Fine, Connection
<1>10. LeftAlone(k, l)
  BY <1>3, <1>5, <1>8 DEF LeftAlone, Served
<1>11. b => t.is_closing \/ (t.is_draining /\ t.send = <<>>)
  BY DEF b, SendDrained
<1> QED
  BY <1>7, <1>8, <1>9, <1>10, <1>11 DEF Served

-----------------------------------------------------------------------------
(* What clients do.                                                        *)

\* f comes after all of q.
Adds(r, q, f) ==
    /\ Len(r) = Len(q) + 1 /\ r[Len(q) + 1] = f
    /\ \A i \in 1 .. Len(q) : r[i] = q[i]

\* Appended to what waits in the socket is appended to all that waits.
LEMMA AppendAdds ==
  ASSUME NEW w \in Seq(Fragment), NEW d \in Seq(Fragment), NEW f \in Fragment
  PROVE  Adds(w \o Append(d, f), w \o d, f)
<1> DEFINE e == Append(d, f)
<1>1. /\ e \in Seq(Fragment) /\ Len(e) = Len(d) + 1 /\ e[Len(d) + 1] = f
      /\ \A i \in 1 .. Len(d) : e[i] = d[i]
  BY AppendProperties
<1>2. Len(w) \in Nat /\ Len(d) \in Nat
  BY Indexes
<1> HIDE DEF e
<1>3. /\ Len(w \o e) = Len(w) + Len(e)
      /\ \A i \in 1 .. Len(w) + Len(e) : (w \o e)[i] = IF i <= Len(w) THEN w[i] ELSE e[i - Len(w)]
  BY <1>1, ConcatProperties
<1>4. /\ Len(w \o d) = Len(w) + Len(d)
      /\ \A i \in 1 .. Len(w) + Len(d) : (w \o d)[i] = IF i <= Len(w) THEN w[i] ELSE d[i - Len(w)]
  BY ConcatProperties
<1>5. Len(w \o e) = Len(w \o d) + 1 /\ (w \o e)[Len(w \o d) + 1] = f
  BY <1>1, <1>2, <1>3, <1>4
<1>6. ASSUME NEW i \in 1 .. Len(w \o d) PROVE (w \o e)[i] = (w \o d)[i]
  <2>1. CASE i <= Len(w)
    BY <2>1, <1>1, <1>2, <1>3, <1>4
  <2>2. CASE i > Len(w)
    <3>1. i - Len(w) \in 1 .. Len(d) /\ i \in 1 .. Len(w) + Len(d) /\ i \in 1 .. Len(w) + Len(e)
      BY <2>2, <1>1, <1>2, <1>4
    <3> QED
      BY <3>1, <2>2, <1>1, <1>2, <1>3, <1>4
  <2>3. i <= Len(w) \/ i > Len(w)
    <3>1. i \in Int
      OBVIOUS
    <3> QED
      BY <3>1, <1>2
  <2> QED
    BY <2>1, <2>2, <2>3
<1> QED
  BY <1>5, <1>6 DEF Adds, e

\* Where the parts of q are in r, and which part is new.
LEMMA Added ==
  ASSUME NEW q \in Seq(Fragment), NEW r \in Seq(Fragment), NEW f, Adds(r, q, f)
  PROVE  /\ \A i \in DOMAIN q : i \in DOMAIN r /\ r[i] = q[i] /\ q[i] \in Fragment /\ i < Len(q) + 1
         /\ Len(q) + 1 \in DOMAIN r /\ r[Len(q) + 1] = f
         /\ \A i \in DOMAIN r : i \in DOMAIN q \/ i = Len(q) + 1
         /\ \A i, j \in DOMAIN r : i < j => i \in DOMAIN q
         /\ \A m, part : Has(r, m, part) <=> Has(q, m, part) \/ (f.id = m /\ f.part = part)
<1>1. /\ Len(q) \in Nat /\ DOMAIN q = 1 .. Len(q) /\ Len(r) = Len(q) + 1 /\ DOMAIN r = 1 .. Len(r)
      /\ \A i \in DOMAIN q : q[i] \in Fragment
  BY Indexes DEF Adds
<1>2. /\ \A i \in DOMAIN q : i \in DOMAIN r /\ r[i] = q[i] /\ i < Len(q) + 1
      /\ Len(q) + 1 \in DOMAIN r /\ r[Len(q) + 1] = f
      /\ \A i \in DOMAIN r : i \in DOMAIN q \/ i = Len(q) + 1
      /\ \A i, j \in DOMAIN r : i < j => i \in DOMAIN q
  BY <1>1 DEF Adds
<1>3. ASSUME NEW m, NEW part
      PROVE  Has(r, m, part) <=> Has(q, m, part) \/ (f.id = m /\ f.part = part)
  BY <1>2 DEF Has
<1> QED
  BY <1>1, <1>2, <1>3

\* What comes after all that was sent comes after all that waits.
LEMMA SentLater ==
  ASSUME NEW k, Fine(k), NEW i \in DOMAIN Waiting(k)
  PROVE  Waiting(k)[i].id \in 0 .. Len(k.sent)
<1>1. Waiting(k) \in Seq(Fragment) /\ Len(k.sent) \in Nat
  BY Queues DEF Fine
<1>2. Waiting(k)[i] \in Fragment /\ Known(k, Waiting(k)[i])
  BY <1>1, Indexes DEF Fine, Queued
<1> QED
  BY <1>1, <1>2 DEF Fragment, Known

Request(k, kind) == [id |-> Len(k.sent) + 1, kind |-> kind, part |-> 1]

Requested(k, kind) ==
    [k EXCEPT !.sent = Append(@, kind), !.last = IF kind \in InTwoParts THEN 1 ELSE 2,
              !.in = Append(@, Request(k, kind))]

\* A client sends a request, or its headers.
LEMMA RequestedFine ==
  ASSUME NEW k, Fine(k), k.client = "open", k.last = 2, k.is_tls => k.shaken, NEW kind \in Kind,
         NEW l, l = Requested(k, kind)
  PROVE  Fine(l) /\ l.socket = k.socket /\ l.client = k.client /\ l.is_closing = k.is_closing
         /\ l.is_tls = k.is_tls /\ l.is_readable = k.is_readable
<1> DEFINE q == Waiting(k)
           r == Waiting(l)
           s == Stream(k)
           f == Request(k, kind)
           n == Len(k.sent)
<1>1. k \in Connection /\ q \in Seq(Fragment) /\ k.sent \in Seq(Kind) /\ n \in Nat
      /\ DOMAIN k.sent = 1 .. n /\ k.in \in Seq(Fragment) /\ k.recv \o k.rtls \in Seq(Fragment) /\ s \in Seq(Unit)
  BY Queues DEF Fine
<1>2. f \in Fragment /\ f.id = n + 1 /\ f.kind = kind /\ f.part = 1
  BY <1>1 DEF Request, Fragment
<1>3. /\ Append(k.sent, kind) \in Seq(Kind) /\ Len(Append(k.sent, kind)) = n + 1
      /\ Append(k.sent, kind)[n + 1] = kind
      /\ \A m \in 1 .. n : Append(k.sent, kind)[m] = k.sent[m]
      /\ Append(k.in, f) \in Seq(Fragment)
  BY <1>1, <1>2, AppendProperties
<1>4. l \in Connection
  <2> DEFINE x == Append(k.sent, kind)
             y == Append(k.in, f)
             z == IF kind \in InTwoParts THEN 1 ELSE 2
  <2>1. x \in Seq(Kind) /\ y \in Seq(Fragment) /\ z \in 1 .. 2
    BY <1>3
  <2>2. l = [k EXCEPT !.sent = x, !.last = z, !.in = y]
    BY Zenon DEF Requested
  <2> HIDE DEF x, y, z
  <2> QED
    <3>1. [k EXCEPT !.sent = x] \in Connection
      BY <2>1, <1>1, SentTyped, Zenon
    <3>2. [[k EXCEPT !.sent = x] EXCEPT !.last = z] \in Connection
      BY <3>1, <2>1, SentTyped, Zenon
    <3>3. [[[k EXCEPT !.sent = x] EXCEPT !.last = z] EXCEPT !.in = y] \in Connection
      BY <3>2, <2>1, QueuesTyped, Zenon
    <3> QED
      BY <3>3, <2>2
<1>5. /\ l.socket = k.socket /\ l.client = "open" /\ l.is_tls = k.is_tls /\ l.is_readable = k.is_readable
      /\ l.sent = Append(k.sent, kind) /\ l.last = IF kind \in InTwoParts THEN 1 ELSE 2
      /\ l.in = Append(k.in, f) /\ l.recv = k.recv /\ l.rtls = k.rtls
      /\ l.got = k.got /\ l.out = k.out /\ l.tlsSend = k.tlsSend /\ l.send = k.send
      /\ l.shaken = k.shaken /\ l.is_tls_hs = k.is_tls_hs /\ l.is_resp = k.is_resp /\ l.file = k.file
      /\ l.is_draining = k.is_draining /\ l.is_closing = k.is_closing /\ l.atClose = k.atClose
  BY <1>1 DEF Connection, Requested
<1>6. Stream(l) = s
  BY <1>5, Zenon DEF Stream, Delivered
<1>7. r \in Seq(Fragment) /\ Adds(r, q, f)
  <2>1. r \in Seq(Fragment)
    BY <1>4, Queues
  <2>2. r = (k.recv \o k.rtls) \o Append(k.in, f) /\ q = (k.recv \o k.rtls) \o k.in
    BY <1>5, Zenon DEF Waiting
  <2> QED
    BY <2>1, <2>2, <1>1, <1>2, AppendAdds
<1>8. /\ Queued(k, q) /\ Passed(k, q, s) /\ InOrder(k, s) /\ Drains(k, s) /\ Shaking(k, q, s)
      /\ WellFramed(s) /\ Owes(s, Rest(k))
  BY DEF Fine
<1>9. \A i \in DOMAIN q : q[i].id \in 0 .. n
  BY SentLater
<1> HIDE DEF q, r, s, f
<1>10. /\ DOMAIN l.sent = 1 .. n + 1 /\ Len(l.sent) = n + 1 /\ l.sent[n + 1] = kind
       /\ \A m \in 1 .. n : l.sent[m] = k.sent[m]
  BY <1>3, <1>5, Indexes
<1>11. /\ \A i \in DOMAIN q : i \in DOMAIN r /\ r[i] = q[i] /\ q[i] \in Fragment /\ i < Len(q) + 1
       /\ Len(q) + 1 \in DOMAIN r /\ r[Len(q) + 1] = f
       /\ \A i \in DOMAIN r : i \in DOMAIN q \/ i = Len(q) + 1
       /\ \A i, j \in DOMAIN r : i < j => i \in DOMAIN q
       /\ \A m, part : Has(r, m, part) <=> Has(q, m, part) \/ (f.id = m /\ f.part = part)
  BY <1>1, <1>7, Added
<1>12. \A m : Malforms(k, m) => Malforms(l, m)
  <2>1. \A b \in DOMAIN k.sent : b \in DOMAIN l.sent /\ l.sent[b] = k.sent[b]
    <3>1. \A b \in 1 .. n : b \in 1 .. n + 1
      BY <1>1
    <3> QED
      BY <3>1, <1>1, <1>10, Zenon
  <2> QED
    BY <2>1, Zenon DEF Malforms
<1>13. Queued(l, r)
  <2>1. \A i, j \in DOMAIN r : i < j => Before(r[i], r[j])
    <3> TAKE i, j \in DOMAIN r
    <3> HAVE i < j
    <3>1. i \in DOMAIN q /\ r[i] = q[i]
      BY <1>11
    <3>2. CASE j \in DOMAIN q
      BY <3>1, <3>2, <1>8, <1>11 DEF Queued
    <3>3. CASE j = Len(q) + 1
      <4>1. q[i].id \in 0 .. n /\ r[j] = f
        BY <3>1, <3>3, <1>9, <1>11, Zenon
      <4> QED
        BY <4>1, <3>1, <1>1, <1>2 DEF Before
    <3> QED
      BY <3>2, <3>3, <1>11
  <2>2. \A i \in DOMAIN r : Known(l, r[i])
    <3> TAKE i \in DOMAIN r
    <3>1. CASE i \in DOMAIN q
      <4>1. Known(k, q[i]) /\ q[i].id \in 0 .. n
        BY <3>1, <1>8, <1>9 DEF Queued
      <4>2. q[i].id # 0 => q[i].id \in 1 .. n /\ q[i].id <= n + 1
        BY <4>1, <1>1
      <4>3. q[i].id # 0 => q[i].id <= Len(l.sent) /\ l.sent[q[i].id] = k.sent[q[i].id]
        BY <4>2, <1>10, Zenon
      <4>4. Known(l, q[i])
        BY <4>1, <4>3 DEF Known
      <4> QED
        BY <4>4, <3>1, <1>11
    <3>2. CASE i = Len(q) + 1
      <4>1. Known(l, f)
        BY <1>1, <1>2, <1>10 DEF Known
      <4> QED
        BY <4>1, <3>2, <1>11
    <3> QED
      BY <3>1, <3>2, <1>11
  <2>3. \A i \in DOMAIN r : r[i].part = 2 => Has(r, r[i].id, 1) \/ Malforms(l, r[i].id)
    <3> TAKE i \in DOMAIN r
    <3> HAVE r[i].part = 2
    <3>1. i \in DOMAIN q
      BY <1>2, <1>11
    <3>2. Has(q, q[i].id, 1) \/ Malforms(k, q[i].id)
      BY <3>1, <1>8, <1>11 DEF Queued
    <3> QED
      BY <3>1, <3>2, <1>11, <1>12
  <2>4. \A i \in DOMAIN r :
            r[i].part = 1 /\ r[i].kind \in InTwoParts /\ Due(l, r, r[i].id) => Has(r, r[i].id, 2)
    <3> TAKE i \in DOMAIN r
    <3> HAVE r[i].part = 1 /\ r[i].kind \in InTwoParts /\ Due(l, r, r[i].id)
    <3>1. CASE i \in DOMAIN q
      <4>1. Due(k, q, q[i].id)
        BY DEF Due
      <4>2. Has(q, q[i].id, 2)
        BY <3>1, <4>1, <1>8, <1>11 DEF Queued
      <4> QED
        BY <3>1, <4>2, <1>11
    <3>2. CASE i = Len(q) + 1
      <4>1. r[i].id = n + 1 /\ l.last = 1
        BY <3>2, <1>2, <1>5, <1>11
      <4>2. PICK j \in DOMAIN r : r[j].id > n + 1
        BY <4>1, <1>10 DEF Due
      <4>3. r[j].id \in 0 .. n \/ r[j].id = n + 1
        BY <1>2, <1>9, <1>11
      <4> QED
        BY <4>2, <4>3, <1>1
    <3> QED
      BY <3>1, <3>2, <1>11
  <2>5. l.last = 1 =>
            l.sent # <<>> /\ l.sent[Len(l.sent)] \in InTwoParts /\ ~Has(r, Len(l.sent), 2)
    <3> SUFFICES ASSUME l.last = 1
                 PROVE  l.sent # <<>> /\ l.sent[Len(l.sent)] \in InTwoParts /\ ~Has(r, Len(l.sent), 2)
      OBVIOUS
    <3>1. kind \in InTwoParts
      BY <1>5
    <3>2. l.sent # <<>>
      BY <1>1, <1>10
    <3>3. ~Has(q, n + 1, 2)
      BY <1>1, <1>9 DEF Has
    <3> QED
      BY <3>1, <3>2, <3>3, <1>2, <1>10, <1>11
  <2> QED
    BY <2>1, <2>2, <2>3, <2>4, <2>5 DEF Queued
<1>14. \A h \in Headers(s) : s[h].id \in 1 .. n
  BY <1>8 DEF InOrder
<1>15. Passed(l, r, s)
  <2>1. \A h \in Headers(s), i \in DOMAIN r : r[i].part = 1 => s[h].id < r[i].id
    <3> TAKE h \in Headers(s), i \in DOMAIN r
    <3> HAVE r[i].part = 1
    <3>1. CASE i \in DOMAIN q
      BY <3>1, <1>8, <1>11 DEF Passed
    <3>2. CASE i = Len(q) + 1
      BY <3>2, <1>1, <1>2, <1>11, <1>14
    <3> QED
      BY <3>1, <3>2, <1>11
  <2>2. \A m \in DOMAIN l.sent :
            HasHeader(s, m) \/ Malforms(l, m) \/ Has(r, m, 1) \/ Lost(l, r, m)
    <3> TAKE m \in DOMAIN l.sent
    <3>1. CASE m \in DOMAIN k.sent
      <4>1. ~Lost(k, q, m)
        BY DEF Lost
      <4>2. HasHeader(s, m) \/ Malforms(k, m) \/ Has(q, m, 1)
        BY <3>1, <4>1, <1>8 DEF Passed
      <4> QED
        BY <4>2, <1>11, <1>12
    <3>2. CASE m = n + 1
      BY <3>2, <1>2, <1>11
    <3> QED
      BY <3>1, <3>2, <1>1, <1>10
  <2>3. l.last = 1 => ~HasHeader(s, Len(l.sent))
    BY <1>1, <1>10, <1>14 DEF HasHeader
  <2> QED
    BY <2>1, <2>2, <2>3 DEF Passed
<1>16. InOrder(l, s)
  <2>1. \A h \in Headers(s) : s[h].id \in 1 .. Len(l.sent)
    BY <1>1, <1>10, <1>14
  <2> QED
    BY <2>1, <1>8, <1>12 DEF InOrder
<1>17. Drains(l, s)
  BY <1>1, <1>5, <1>8, <1>10 DEF Drains
<1>18. Shaking(l, r, s)
  <2>1. f.id > 0 /\ f.id # 0
    BY <1>1, <1>2
  <2>2. \A i \in DOMAIN r : r[i] = f \/ (i \in DOMAIN q /\ r[i] = q[i])
    BY <1>11
  <2>3. k.is_tls_hs # "no" => k.is_tls
    BY <1>8 DEF Shaking
  <2>4. (\A i \in DOMAIN q : q[i].id > 0) => \A i \in DOMAIN r : r[i].id > 0
    BY <2>1, <2>2
  <2>5. (\A i \in DOMAIN q : q[i].id = 0 => q[i] = Finished) => \A i \in DOMAIN r : r[i].id = 0 => r[i] = Finished
    BY <2>1, <2>2
  <2> QED
    BY <2>3, <2>4, <2>5, <1>5, <1>8 DEF Shaking
<1>19. /\ (Streaming(l) <=> l.is_resp) /\ (Streaming(l) => l.socket = "open" /\ l.is_tls_hs = "no")
       /\ Rest(l) = Rest(k) /\ Live(l) /\ ~l.atClose /\ Len(l.out) <= SocketRoom
       /\ (l.socket = "backlog" => Empty(l))
  BY <1>5 DEF Fine, Streaming, Rest, Live, Empty
<1>20. Fine(l)
  BY <1>4, <1>6, <1>8, <1>13, <1>15, <1>16, <1>17, <1>18, <1>19 DEF Fine, r
<1> QED
  BY <1>5, <1>20

LastPart(k) == [id |-> Len(k.sent), kind |-> k.sent[Len(k.sent)], part |-> 2]

Completed(k) == [k EXCEPT !.last = 2, !.in = Append(@, LastPart(k))]

\* It sends the body of the request it began.
LEMMA CompletedFine ==
  ASSUME NEW k, Fine(k), k.client = "open", k.last = 1, k.is_tls => k.shaken,
         NEW l, l = Completed(k)
  PROVE  Fine(l) /\ l.socket = k.socket /\ l.client = k.client /\ l.is_closing = k.is_closing
         /\ l.is_tls = k.is_tls /\ l.is_readable = k.is_readable
<1> DEFINE q == Waiting(k)
           r == Waiting(l)
           s == Stream(k)
           f == LastPart(k)
           n == Len(k.sent)
<1>1. k \in Connection /\ q \in Seq(Fragment) /\ k.sent \in Seq(Kind) /\ n \in Nat
      /\ DOMAIN k.sent = 1 .. n /\ k.in \in Seq(Fragment) /\ k.recv \o k.rtls \in Seq(Fragment) /\ s \in Seq(Unit)
  BY Queues DEF Fine
<1>2. /\ Queued(k, q) /\ Passed(k, q, s) /\ InOrder(k, s) /\ Drains(k, s) /\ Shaking(k, q, s)
      /\ WellFramed(s) /\ Owes(s, Rest(k))
  BY DEF Fine
<1>3. n \in DOMAIN k.sent /\ n > 0 /\ k.sent[n] \in InTwoParts /\ ~Has(q, n, 2) /\ k.sent[n] \in Kind
  <2>1. k.sent # <<>> /\ k.sent[n] \in InTwoParts /\ ~Has(q, n, 2)
    BY <1>2 DEF Queued
  <2>2. n # 0
    BY <2>1, <1>1, Indexes
  <2>3. n \in DOMAIN k.sent /\ n > 0
    BY <2>2, <1>1
  <2> QED
    BY <2>1, <2>3, <1>1, Indexes
<1>4. f \in Fragment /\ f.id = n /\ f.kind = k.sent[n] /\ f.part = 2
  BY <1>1, <1>3 DEF LastPart, Fragment
<1>5. Append(k.in, f) \in Seq(Fragment)
  BY <1>1, <1>4, AppendProperties
<1>6. l \in Connection
  <2> DEFINE y == Append(k.in, f)
  <2>1. y \in Seq(Fragment)
    BY <1>5
  <2>2. l = [k EXCEPT !.last = 2, !.in = y]
    BY Zenon DEF Completed
  <2> HIDE DEF y
  <2>3. k \in Connection /\ 2 \in 1 .. 2
    BY <1>1
  <2> QED
    <3>1. [k EXCEPT !.last = 2] \in Connection
      BY <2>3, SentTyped, Zenon
    <3>2. [[k EXCEPT !.last = 2] EXCEPT !.in = y] \in Connection
      BY <3>1, <2>1, QueuesTyped, Zenon
    <3> QED
      BY <3>2, <2>2
<1>7. /\ l.socket = k.socket /\ l.client = "open" /\ l.is_tls = k.is_tls /\ l.is_readable = k.is_readable
      /\ l.sent = k.sent /\ l.last = 2
      /\ l.in = Append(k.in, f) /\ l.recv = k.recv /\ l.rtls = k.rtls
      /\ l.got = k.got /\ l.out = k.out /\ l.tlsSend = k.tlsSend /\ l.send = k.send
      /\ l.shaken = k.shaken /\ l.is_tls_hs = k.is_tls_hs /\ l.is_resp = k.is_resp /\ l.file = k.file
      /\ l.is_draining = k.is_draining /\ l.is_closing = k.is_closing /\ l.atClose = k.atClose
  BY <1>1 DEF Connection, Completed
<1>8. Stream(l) = s
  BY <1>7, Zenon DEF Stream, Delivered
<1>9. r \in Seq(Fragment) /\ Adds(r, q, f)
  <2>1. r \in Seq(Fragment)
    BY <1>6, Queues
  <2>2. r = (k.recv \o k.rtls) \o Append(k.in, f) /\ q = (k.recv \o k.rtls) \o k.in
    BY <1>7, Zenon DEF Waiting
  <2> QED
    BY <2>1, <2>2, <1>1, <1>4, AppendAdds
<1>10. \A i \in DOMAIN q : q[i].id \in 0 .. n
  BY SentLater
<1> HIDE DEF q, r, s, f
<1>11. /\ \A i \in DOMAIN q : i \in DOMAIN r /\ r[i] = q[i] /\ q[i] \in Fragment /\ i < Len(q) + 1
       /\ Len(q) + 1 \in DOMAIN r /\ r[Len(q) + 1] = f
       /\ \A i \in DOMAIN r : i \in DOMAIN q \/ i = Len(q) + 1
       /\ \A i, j \in DOMAIN r : i < j => i \in DOMAIN q
       /\ \A m, part : Has(r, m, part) <=> Has(q, m, part) \/ (f.id = m /\ f.part = part)
  BY <1>1, <1>9, Added
<1>12. \A m : Malforms(k, m) <=> Malforms(l, m)
  BY <1>7 DEF Malforms
<1>13. Has(q, n, 1) \/ Malforms(k, n)
  <2>1. ~HasHeader(s, n) /\ ~Lost(k, q, n)
    BY <1>2 DEF Passed, Lost
  <2> QED
    BY <2>1, <1>2, <1>3 DEF Passed
<1>14. Queued(l, r)
  <2>1. \A i, j \in DOMAIN r : i < j => Before(r[i], r[j])
    <3> TAKE i, j \in DOMAIN r
    <3> HAVE i < j
    <3>1. i \in DOMAIN q /\ r[i] = q[i]
      BY <1>11
    <3>2. CASE j \in DOMAIN q
      BY <3>1, <3>2, <1>2, <1>11 DEF Queued
    <3>3. CASE j = Len(q) + 1
      <4>1. q[i].part = 2 => q[i].id # n
        BY <3>1, <1>3 DEF Has
      <4>2. q[i].part \in {1, 2} /\ q[i].id \in 0 .. n
        BY <3>1, <1>10, <1>11 DEF Fragment
      <4>3. Before(q[i], f)
        BY <4>1, <4>2, <1>1, <1>4 DEF Before
      <4> QED
        BY <4>3, <3>1, <3>3, <1>11
    <3> QED
      BY <3>2, <3>3, <1>11
  <2>2. \A i \in DOMAIN r : Known(l, r[i])
    <3> TAKE i \in DOMAIN r
    <3>1. CASE i \in DOMAIN q
      BY <3>1, <1>2, <1>7, <1>11 DEF Queued, Known
    <3>2. CASE i = Len(q) + 1
      <4>1. Known(l, f)
        BY <1>1, <1>3, <1>4, <1>7 DEF Known
      <4> QED
        BY <4>1, <3>2, <1>11
    <3> QED
      BY <3>1, <3>2, <1>11
  <2>3. \A i \in DOMAIN r : r[i].part = 2 => Has(r, r[i].id, 1) \/ Malforms(l, r[i].id)
    <3> TAKE i \in DOMAIN r
    <3> HAVE r[i].part = 2
    <3>1. CASE i \in DOMAIN q
      <4>1. Has(q, q[i].id, 1) \/ Malforms(k, q[i].id)
        BY <3>1, <1>2, <1>11 DEF Queued
      <4> QED
        BY <3>1, <4>1, <1>11, <1>12
    <3>2. CASE i = Len(q) + 1
      BY <3>2, <1>4, <1>11, <1>12, <1>13
    <3> QED
      BY <3>1, <3>2, <1>11
  <2>4. \A i \in DOMAIN r :
            r[i].part = 1 /\ r[i].kind \in InTwoParts /\ Due(l, r, r[i].id) => Has(r, r[i].id, 2)
    <3> TAKE i \in DOMAIN r
    <3> HAVE r[i].part = 1 /\ r[i].kind \in InTwoParts /\ Due(l, r, r[i].id)
    <3>1. i \in DOMAIN q /\ r[i] = q[i]
      BY <1>4, <1>11
    <3>2. CASE q[i].id = n
      BY <3>1, <3>2, <1>4, <1>11
    <3>3. CASE q[i].id # n
      <4>1. q[i].id < n
        BY <3>1, <3>3, <1>1, <1>10
      <4>2. Due(k, q, q[i].id)
        BY <4>1 DEF Due
      <4>3. Has(q, q[i].id, 2)
        BY <3>1, <4>2, <1>2 DEF Queued
      <4> QED
        BY <4>3, <3>1, <1>11
    <3> QED
      BY <3>2, <3>3
  <2>5. l.last # 1
    BY <1>7
  <2> QED
    BY <2>1, <2>2, <2>3, <2>4, <2>5 DEF Queued
<1>15. Passed(l, r, s)
  <2>1. \A h \in Headers(s), i \in DOMAIN r : r[i].part = 1 => s[h].id < r[i].id
    BY <1>2, <1>4, <1>11 DEF Passed
  <2>2. \A m \in DOMAIN l.sent :
            HasHeader(s, m) \/ Malforms(l, m) \/ Has(r, m, 1) \/ Lost(l, r, m)
    <3> TAKE m \in DOMAIN l.sent
    <3>1. ~Lost(k, q, m)
      BY DEF Lost
    <3>2. HasHeader(s, m) \/ Malforms(k, m) \/ Has(q, m, 1)
      BY <3>1, <1>2, <1>7 DEF Passed
    <3> QED
      BY <3>2, <1>11, <1>12
  <2>3. l.last # 1
    BY <1>7
  <2> QED
    BY <2>1, <2>2, <2>3 DEF Passed
<1>16. InOrder(l, s) /\ Drains(l, s)
  BY <1>2, <1>7, <1>12 DEF InOrder, Drains
<1>17. Shaking(l, r, s)
  <2>1. \A i \in DOMAIN r : r[i] = f \/ (i \in DOMAIN q /\ r[i] = q[i])
    BY <1>11
  <2>2. k.is_tls_hs # "no" => k.is_tls
    BY <1>2 DEF Shaking
  <2>3. (\A i \in DOMAIN q : q[i].id > 0) => \A i \in DOMAIN r : r[i].id > 0
    BY <2>1, <1>3, <1>4
  <2>4. (\A i \in DOMAIN q : q[i].id = 0 => q[i] = Finished) => \A i \in DOMAIN r : r[i].id = 0 => r[i] = Finished
    BY <2>1, <1>3, <1>4
  <2> QED
    BY <2>2, <2>3, <2>4, <1>2, <1>7 DEF Shaking
<1>18. /\ (Streaming(l) <=> l.is_resp) /\ (Streaming(l) => l.socket = "open" /\ l.is_tls_hs = "no")
       /\ Rest(l) = Rest(k) /\ Live(l) /\ ~l.atClose /\ Len(l.out) <= SocketRoom
       /\ (l.socket = "backlog" => Empty(l))
  BY <1>7 DEF Fine, Streaming, Rest, Live, Empty
<1>19. Fine(l)
  BY <1>2, <1>6, <1>8, <1>14, <1>15, <1>16, <1>17, <1>18 DEF Fine, r
<1> QED
  BY <1>7, <1>19

\* What a client leaves in the queue when it goes: all of it, or what was read before.
Left(k, d) == [k EXCEPT !.client = "gone", !.in = d]

\* It goes: what waits in the socket may be lost, and with it the last of its requests.
LEMMA LeftFine ==
  ASSUME NEW k, Fine(k), k.client # "gone",
         NEW l, NEW d \in {k.in, <<>>}, l = Left(k, d)
  PROVE  Fine(l) /\ l.socket = k.socket /\ l.client = "gone"
<1> DEFINE q == Waiting(k)
           r == Waiting(l)
           s == Stream(k)
<1>1. k \in Connection /\ q \in Seq(Fragment) /\ k.in \in Seq(Fragment) /\ k.recv \o k.rtls \in Seq(Fragment)
  BY Queues DEF Fine
<1>2. d \in Seq(Fragment)
  <2>1. <<>> \in Seq(Fragment)
    OBVIOUS
  <2>2. d = k.in \/ d = <<>>
    OBVIOUS
  <2>3. k.in \in Seq(Fragment)
    BY <1>1
  <2> QED
    BY <2>1, <2>2, <2>3, Zenon
<1>3. l \in Connection
  BY <1>1, <1>2 DEF Connection, Left
<1>4. /\ l.socket = k.socket /\ l.client = "gone" /\ l.is_tls = k.is_tls
      /\ l.sent = k.sent /\ l.last = k.last
      /\ l.in = d /\ l.recv = k.recv /\ l.rtls = k.rtls
      /\ l.got = k.got /\ l.out = k.out /\ l.tlsSend = k.tlsSend /\ l.send = k.send
      /\ l.shaken = k.shaken /\ l.is_tls_hs = k.is_tls_hs /\ l.is_resp = k.is_resp /\ l.file = k.file
      /\ l.is_draining = k.is_draining /\ l.is_closing = k.is_closing /\ l.is_readable = k.is_readable
      /\ l.atClose = k.atClose
  BY <1>1, <1>2 DEF Connection, Left
<1>5. Stream(l) = s
  BY <1>4, Zenon DEF Stream, Delivered
<1>6. r \in Seq(Fragment) /\ Extends(q, r)
  <2> DEFINE w == k.recv \o k.rtls
  <2>1. r \in Seq(Fragment)
    BY <1>3, Queues
  <2>2. r = w \o d /\ q = w \o k.in
    BY <1>4, Zenon DEF Waiting
  <2>3. w \in Seq(Fragment)
    BY <1>1
  <2> HIDE DEF w
  <2>4. CASE d = k.in
    <3>1. r = q
      BY <2>2, <2>4
    <3> QED
      BY <2>1, <3>1, Indexes DEF Extends
  <2>5. CASE d = <<>>
    <3>1. r = w
      <4>1. w \o <<>> = w
        BY <2>3, ConcatEmptySeq
      <4> QED
        BY <2>2, <2>5, <4>1, Zenon
    <3>2. Extends(w \o k.in, w)
      <4>1. /\ Len(w \o k.in) = Len(w) + Len(k.in) /\ Len(w) \in Nat /\ Len(k.in) \in Nat
        BY <1>1, <2>3, ConcatProperties, LenProperties
      <4>2. \A i \in 1 .. Len(w) : (w \o k.in)[i] = w[i]
        BY <1>1, <2>3, <4>1, ConcatProperties
      <4> QED
        BY <4>1, <4>2 DEF Extends
    <3> QED
      BY <2>1, <2>2, <3>1, <3>2, Zenon
  <2> QED
    BY <2>4, <2>5
<1>7. /\ Queued(k, q) /\ Passed(k, q, s) /\ InOrder(k, s) /\ Drains(k, s) /\ Shaking(k, q, s)
      /\ WellFramed(s) /\ Owes(s, Rest(k))
  BY DEF Fine
<1> HIDE DEF q, r, s
<1>8. /\ Len(q) \in Nat /\ DOMAIN q = 1 .. Len(q) /\ Len(r) \in Nat /\ DOMAIN r = 1 .. Len(r)
      /\ \A i \in DOMAIN r : i \in DOMAIN q /\ q[i] = r[i] /\ r[i] \in Fragment
      /\ \A i \in DOMAIN q : q[i] \in Fragment
      /\ \A i \in DOMAIN q : i \notin DOMAIN r => \A j \in DOMAIN r : j < i
  <2>1. /\ Len(q) \in Nat /\ DOMAIN q = 1 .. Len(q) /\ Len(r) \in Nat /\ DOMAIN r = 1 .. Len(r)
        /\ \A i \in DOMAIN r : r[i] \in Fragment
        /\ \A i \in DOMAIN q : q[i] \in Fragment
    BY <1>1, <1>6, Indexes
  <2> QED
    BY <2>1, <1>6 DEF Extends
<1>9. \A m : Malforms(k, m) <=> Malforms(l, m)
  BY <1>4 DEF Malforms
<1>10. Queued(l, r)
  <2>1. \A i, j \in DOMAIN r : i < j => Before(r[i], r[j])
    BY <1>7, <1>8 DEF Queued
  <2>2. \A i \in DOMAIN r : Known(l, r[i])
    BY <1>4, <1>7, <1>8 DEF Queued, Known
  <2>3. \A i \in DOMAIN r : r[i].part = 2 => Has(r, r[i].id, 1) \/ Malforms(l, r[i].id)
    <3> TAKE i \in DOMAIN r
    <3> HAVE r[i].part = 2
    <3>1. CASE Has(q, q[i].id, 1)
      <4>1. PICK j \in DOMAIN q : q[j].id = q[i].id /\ q[j].part = 1
        BY <3>1 DEF Has
      <4>2. j \in DOMAIN r
        <5> SUFFICES ASSUME j \notin DOMAIN r PROVE FALSE
          OBVIOUS
        <5>1. i < j /\ Before(q[i], q[j])
          BY <1>7, <1>8 DEF Queued
        <5> QED
          BY <4>1, <5>1, <1>8 DEF Before, Fragment
      <4> QED
        BY <4>1, <4>2, <1>8 DEF Has
    <3>2. CASE Malforms(k, q[i].id)
      BY <3>2, <1>8, <1>9
    <3> QED
      BY <3>1, <3>2, <1>7, <1>8 DEF Queued
  <2>4. \A i \in DOMAIN r :
            r[i].part = 1 /\ r[i].kind \in InTwoParts /\ Due(l, r, r[i].id) => Has(r, r[i].id, 2)
    <3> TAKE i \in DOMAIN r
    <3> HAVE r[i].part = 1 /\ r[i].kind \in InTwoParts /\ Due(l, r, r[i].id)
    <3>1. PICK x \in DOMAIN r : r[x].id > r[i].id
      BY <1>4 DEF Due
    <3>2. Due(k, q, q[i].id)
      BY <3>1, <1>8 DEF Due
    <3>3. PICK j \in DOMAIN q : q[j].id = q[i].id /\ q[j].part = 2
      BY <3>2, <1>7, <1>8 DEF Queued, Has
    <3>4. j \in DOMAIN r
      <4> SUFFICES ASSUME j \notin DOMAIN r PROVE FALSE
        OBVIOUS
      <4>1. x < j /\ Before(q[x], q[j])
        BY <1>7, <1>8 DEF Queued
      <4>2. q[x].id \in Nat /\ q[j].id \in Nat /\ q[x].id > q[j].id
        BY <3>1, <3>3, <1>8 DEF Fragment
      <4> QED
        BY <4>1, <4>2 DEF Before
    <3> QED
      BY <3>3, <3>4, <1>8 DEF Has
  <2>5. l.last = 1 =>
            l.sent # <<>> /\ l.sent[Len(l.sent)] \in InTwoParts /\ ~Has(r, Len(l.sent), 2)
    BY <1>4, <1>7, <1>8 DEF Queued, Has
  <2> QED
    BY <2>1, <2>2, <2>3, <2>4, <2>5 DEF Queued
<1>11. Passed(l, r, s)
  <2>1. \A h \in Headers(s), i \in DOMAIN r : r[i].part = 1 => s[h].id < r[i].id
    BY <1>7, <1>8 DEF Passed
  <2>2. \A m \in DOMAIN l.sent :
            HasHeader(s, m) \/ Malforms(l, m) \/ Has(r, m, 1) \/ Lost(l, r, m)
    <3> TAKE m \in DOMAIN l.sent
    <3>1. CASE Has(q, m, 1)
      <4>1. PICK j \in DOMAIN q : q[j].id = m /\ q[j].part = 1
        BY <3>1 DEF Has
      <4>2. CASE j \in DOMAIN r
        BY <4>1, <4>2, <1>8 DEF Has
      <4>3. CASE j \notin DOMAIN r
        <5>1. ASSUME NEW i \in DOMAIN r PROVE r[i].id < m
          <6>1. i < j /\ Before(q[i], q[j])
            BY <4>3, <1>7, <1>8 DEF Queued
          <6> QED
            BY <6>1, <4>1, <1>8 DEF Before
        <5> QED
          BY <5>1, <1>4 DEF Lost
      <4> QED
        BY <4>2, <4>3
    <3>2. ~Lost(k, q, m)
      BY DEF Lost
    <3> QED
      BY <3>1, <3>2, <1>4, <1>7, <1>9 DEF Passed
  <2>3. l.last = 1 => ~HasHeader(s, Len(l.sent))
    BY <1>4, <1>7 DEF Passed
  <2> QED
    BY <2>1, <2>2, <2>3 DEF Passed
<1>12. InOrder(l, s) /\ Drains(l, s)
  BY <1>4, <1>7, <1>9 DEF InOrder, Drains
<1>13. Shaking(l, r, s)
  <2>1. \A i \in DOMAIN r : i \in DOMAIN q /\ q[i] = r[i]
    BY <1>8
  <2>2. q = <<>> => r = <<>>
    BY <1>1, <1>6, <1>8, Indexes
  <2> QED
    BY <2>1, <2>2, <1>4, <1>7 DEF Shaking
<1>14. /\ (Streaming(l) <=> l.is_resp) /\ (Streaming(l) => l.socket = "open" /\ l.is_tls_hs = "no")
       /\ Rest(l) = Rest(k) /\ Live(l) /\ ~l.atClose /\ Len(l.out) <= SocketRoom
       /\ (l.socket = "backlog" => Empty(l))
  BY <1>4 DEF Fine, Streaming, Rest, Live, Empty
<1>15. Fine(l)
  BY <1>3, <1>5, <1>7, <1>10, <1>11, <1>12, <1>13, <1>14 DEF Fine, r
<1> QED
  BY <1>4, <1>15

\* A client reads a unit: of what was written for it nothing changes.
UnitRead(k) == [k EXCEPT !.out = Tail(@), !.got = Append(@, Head(k.out))]

\* What is read moves from one part of the stream to the next.
LEMMA UnitReadMoves ==
  ASSUME NEW k \in Connection, k.out # <<>>, NEW l, l = UnitRead(k)
  PROVE  /\ l \in Connection /\ Stream(l) = Stream(k) /\ Waiting(l) = Waiting(k)
         /\ l.socket = k.socket /\ l.is_tls = k.is_tls /\ l.client = k.client
         /\ l.in = k.in /\ l.sent = k.sent /\ l.last = k.last /\ l.shaken = k.shaken
         /\ l.recv = k.recv /\ l.rtls = k.rtls /\ l.send = k.send /\ l.tlsSend = k.tlsSend
         /\ l.is_tls_hs = k.is_tls_hs /\ l.is_resp = k.is_resp /\ l.file = k.file
         /\ l.is_draining = k.is_draining /\ l.is_closing = k.is_closing
         /\ l.is_readable = k.is_readable /\ l.atClose = k.atClose
         /\ l.got # <<>> /\ l.got = Append(k.got, Head(k.out))
         /\ Len(l.out) <= Len(k.out)
         /\ Len(k.got) + 1 \in DOMAIN Stream(k) /\ Stream(k)[Len(k.got) + 1] = Head(k.out)
<1> DEFINE b == k.got
           d == k.out
           bx == b \o SubSeq(d, 1, 1)
           y == SubSeq(d, 1 + 1, Len(d))
<1>1. b \in Seq(Unit) /\ d \in Seq(Unit) /\ k.tlsSend \in Seq(Unit) /\ k.send \in Seq(Unit) /\ d # <<>>
  BY Queues
<1>2. Append(b, Head(d)) = bx /\ Tail(d) = y /\ 1 \in 0 .. Len(d) /\ Head(d) \in Unit
  BY <1>1, FirstMoved
<1>3. l = [k EXCEPT !.out = y, !.got = bx]
  BY <1>2, Zenon DEF UnitRead
<1>4. b = k.got /\ d = k.out
  OBVIOUS
<1> HIDE DEF b, d
<1>5. Moved(Unit, <<>>, b, d, 1, bx, y)
  <2>1. <<>> \in Seq(Unit)
    OBVIOUS
  <2> QED
    BY <1>1, <1>2, <2>1, MovedUnits
<1> HIDE DEF bx, y
<1>6. /\ bx \in Seq(Unit) /\ y \in Seq(Unit) /\ Len(y) = Len(d) - 1 /\ Len(bx) = Len(b) + 1
      /\ (<<>> \o bx) \o y = (<<>> \o b) \o d
  BY <1>5 DEF Moved
<1>7. l \in Connection
  <2>1. [k EXCEPT !.out = y] \in Connection
    BY <1>1, <1>6, QueuesTyped, Zenon
  <2>2. [[k EXCEPT !.out = y] EXCEPT !.got = bx] \in Connection
    BY <2>1, <1>1, <1>6, QueuesTyped, Zenon
  <2> QED
    BY <2>2, <1>3
<1>8. /\ l.socket = k.socket /\ l.is_tls = k.is_tls /\ l.client = k.client
      /\ l.in = k.in /\ l.sent = k.sent /\ l.last = k.last /\ l.shaken = k.shaken
      /\ l.recv = k.recv /\ l.rtls = k.rtls /\ l.send = k.send /\ l.tlsSend = k.tlsSend
      /\ l.is_tls_hs = k.is_tls_hs /\ l.is_resp = k.is_resp /\ l.file = k.file
      /\ l.is_draining = k.is_draining /\ l.is_closing = k.is_closing
      /\ l.is_readable = k.is_readable /\ l.atClose = k.atClose
      /\ l.got = bx /\ l.out = y
  BY <1>1, <1>3 DEF Connection
<1>9. bx \o y = b \o d
  <2>1. \A s \in Seq(Unit) : <<>> \o s = s
    BY ConcatEmptySeq
  <2>2. <<>> \o bx = bx /\ <<>> \o b = b
    BY <1>1, <1>6, <2>1, Zenon
  <2> QED
    BY <1>6, <2>2, Zenon
<1>10. Stream(l) = Stream(k) /\ Waiting(l) = Waiting(k)
  BY <1>4, <1>8, <1>9, Zenon DEF Stream, Delivered, Waiting
<1>11. Len(l.out) <= Len(k.out)
  <2>1. Len(d) \in Nat
    BY <1>1, LenProperties
  <2>2. Len(y) <= Len(d)
    BY <2>1, <1>6
  <2> QED
    BY <2>2, <1>4, <1>8, Zenon
<1>12. l.got # <<>>
  <2>1. Len(b) \in Nat
    BY <1>1, LenProperties
  <2>2. Len(bx) # 0
    BY <2>1, <1>6
  <2> QED
    BY <2>2, <1>6, <1>8, Indexes
<1>13. Len(b) + 1 \in DOMAIN Stream(k) /\ Stream(k)[Len(b) + 1] = Head(d)
  <2> DEFINE p == b \o d
             m == k.tlsSend
             z == k.send
  <2>1. Stream(k) = p \o m \o z /\ m \in Seq(Unit) /\ z \in Seq(Unit)
    BY <1>1, <1>4, Zenon DEF Stream, Delivered
  <2>2. /\ p \in Seq(Unit) /\ Len(p) = Len(b) + Len(d) /\ Len(b) \in Nat /\ Len(d) \in Nat \ {0}
        /\ p[Len(b) + 1] = Head(d)
    <3>1. Len(b) \in Nat /\ Len(d) \in Nat /\ Len(d) # 0
      BY <1>1, Indexes
    <3>2. p \in Seq(Unit) /\ Len(p) = Len(b) + Len(d)
      BY <1>1, ConcatProperties
    <3>3. p[Len(b) + 1] = d[1]
      BY <1>1, <3>1, ConcatProperties
    <3> QED
      BY <1>1, <3>1, <3>2, <3>3
  <2>3. Len(m) \in Nat /\ Len(z) \in Nat
    BY <2>1, LenProperties
  <2> HIDE DEF p, m, z
  <2>4. /\ Len(p \o m \o z) = Len(p) + Len(m) + Len(z)
        /\ \A i \in 1 .. Len(p) : (p \o m \o z)[i] = p[i]
    <3>1. p \in Seq(Unit) /\ m \in Seq(Unit) /\ z \in Seq(Unit)
      BY <2>1, <2>2
    <3> QED
      BY <3>1, InARow
  <2>5. Stream(k) \in Seq(Unit) /\ DOMAIN Stream(k) = 1 .. Len(Stream(k))
    BY Queues, Units
  <2>6. Len(b) + 1 \in 1 .. Len(p) /\ Len(b) + 1 \in 1 .. Len(p) + Len(m) + Len(z)
    BY <2>2, <2>3
  <2>7. Len(Stream(k)) = Len(p) + Len(m) + Len(z) /\ Stream(k)[Len(b) + 1] = p[Len(b) + 1]
    BY <2>1, <2>4, <2>6, Zenon
  <2>8. Len(b) + 1 \in DOMAIN Stream(k)
    BY <2>5, <2>6, <2>7, Zenon
  <2> QED
    BY <2>2, <2>7, <2>8, Zenon
<1> QED
  BY <1>2, <1>4, <1>7, <1>8, <1>10, <1>11, <1>12, <1>13, Zenon

\* Any unit but the server's part of the handshake.
LEMMA UnitReadFine ==
  ASSUME NEW k, Fine(k), k.out # <<>>, Head(k.out) # Flight, NEW l, l = UnitRead(k)
  PROVE  Fine(l)
<1> DEFINE q == Waiting(k)
           s == Stream(k)
<1>1. k \in Connection
  BY DEF Fine
<1>2. /\ l \in Connection /\ Stream(l) = s /\ Waiting(l) = q
      /\ l.socket = k.socket /\ l.is_tls = k.is_tls /\ l.client = k.client
      /\ l.in = k.in /\ l.sent = k.sent /\ l.last = k.last /\ l.shaken = k.shaken
      /\ l.recv = k.recv /\ l.rtls = k.rtls /\ l.send = k.send /\ l.tlsSend = k.tlsSend
      /\ l.is_tls_hs = k.is_tls_hs /\ l.is_resp = k.is_resp /\ l.file = k.file
      /\ l.is_draining = k.is_draining /\ l.is_closing = k.is_closing
      /\ l.is_readable = k.is_readable /\ l.atClose = k.atClose
      /\ l.got # <<>> /\ Len(l.out) <= Len(k.out)
      /\ Len(k.got) + 1 \in DOMAIN s /\ s[Len(k.got) + 1] = Head(k.out)
  BY <1>1, UnitReadMoves
<1>3. /\ Queued(k, q) /\ Passed(k, q, s) /\ InOrder(k, s) /\ Drains(k, s) /\ Shaking(k, q, s)
      /\ WellFramed(s) /\ Owes(s, Rest(k)) /\ k.socket # "backlog" /\ Len(k.out) <= SocketRoom
  BY DEF Fine, Empty
<1> HIDE DEF q, s
<1>4. Queued(l, q)
  BY <1>2, <1>3 DEF Queued, Known, Malforms, Due
<1>5. Passed(l, q, s)
  BY <1>2, <1>3 DEF Passed, Malforms, Lost
<1>6. InOrder(l, s) /\ Drains(l, s)
  BY <1>2, <1>3 DEF InOrder, Drains, Malforms
<1>7. s # <<>> /\ s # <<Flight>>
  <2>1. s # <<>>
    BY <1>2
  <2>2. ASSUME s = <<Flight>> PROVE FALSE
    <3>1. DOMAIN <<Flight>> = {1} /\ <<Flight>>[1] = Flight
      OBVIOUS
    <3> QED
      BY <1>2, <2>2, <3>1
  <2> QED
    BY <2>1, <2>2
<1>8. Shaking(l, q, s)
  BY <1>2, <1>3, <1>7 DEF Shaking
<1>9. /\ (Streaming(l) <=> l.is_resp) /\ (Streaming(l) => l.socket = "open" /\ l.is_tls_hs = "no")
      /\ Rest(l) = Rest(k) /\ Live(l) /\ ~l.atClose
  BY <1>2 DEF Fine, Streaming, Rest, Live
<1>10. Len(l.out) <= SocketRoom
  <2>1. Len(l.out) \in Nat /\ Len(k.out) \in Nat /\ SocketRoom \in Nat
    <3>1. l.out \in Seq(Unit) /\ k.out \in Seq(Unit)
      BY <1>1, <1>2, Queues
    <3> QED
      BY <3>1, LenProperties, WebServerAssumption
  <2> QED
    BY <1>2, <1>3, <2>1
<1> QED
  BY <1>2, <1>3, <1>4, <1>5, <1>6, <1>8, <1>9, <1>10 DEF Fine

\* The server's part of the handshake, which the client answers.
FlightRead(k, d) == [UnitRead(k) EXCEPT !.shaken = TRUE, !.in = d]

Answer(k) == IF k.socket = "open" /\ k.client = "open" THEN <<Finished>> ELSE k.in

\* Only a client that was not answered before reads the server's part of the handshake.
LEMMA FlightReadFine ==
  ASSUME NEW k, Fine(k), k.out # <<>>, Head(k.out) = Flight, k.client # "gone",
         NEW l, l = FlightRead(k, Answer(k))
  PROVE  Fine(l) /\ l.socket = k.socket /\ l.client = k.client
<1> DEFINE q == Waiting(k)
           s == Stream(k)
           u == UnitRead(k)
           d == Answer(k)
<1>1. k \in Connection
  BY DEF Fine
<1>2. /\ u \in Connection /\ Stream(u) = s
      /\ u.socket = k.socket /\ u.is_tls = k.is_tls /\ u.client = k.client
      /\ u.sent = k.sent /\ u.last = k.last
      /\ u.recv = k.recv /\ u.rtls = k.rtls /\ u.send = k.send /\ u.tlsSend = k.tlsSend
      /\ u.is_tls_hs = k.is_tls_hs /\ u.is_resp = k.is_resp /\ u.file = k.file
      /\ u.is_draining = k.is_draining /\ u.is_closing = k.is_closing
      /\ u.is_readable = k.is_readable /\ u.atClose = k.atClose
      /\ u.got = Append(k.got, Head(k.out))
      /\ Len(u.out) <= Len(k.out)
      /\ Len(k.got) + 1 \in DOMAIN s /\ s[Len(k.got) + 1] = Head(k.out)
  <2> HIDE DEF s, u
  <2> QED
    BY <1>1, UnitReadMoves DEF s, u
<1>3. /\ Queued(k, q) /\ Passed(k, q, s) /\ InOrder(k, s) /\ Drains(k, s) /\ Shaking(k, q, s)
      /\ WellFramed(s) /\ Owes(s, Rest(k)) /\ k.socket = "open" /\ Len(k.out) <= SocketRoom
  BY DEF Fine, Empty, Live
<1>4. /\ k.in \in Seq(Fragment) /\ k.recv \in Seq(Fragment) /\ k.rtls \in Seq(Fragment)
      /\ k.got \in Seq(Unit) /\ q \in Seq(Fragment)
  BY <1>1, Queues
<1>5. k.got = <<>>
  <2>1. Len(k.got) + 1 = 1
    BY <1>2, <1>3 DEF WellFramed
  <2>2. Len(k.got) \in Nat
    BY <1>4, LenProperties
  <2>3. Len(k.got) = 0
    BY <2>1, <2>2
  <2> QED
    BY <1>4, <2>3, Indexes
<1>6. s # <<>> /\ s[1] = Flight /\ 1 \in DOMAIN s
  <2>1. Len(<<>>) + 1 = 1
    OBVIOUS
  <2> QED
    BY <1>2, <1>5, <2>1
<1>7. k.is_tls /\ k.is_tls_hs = "negotiated" /\ s = <<Flight>> /\ ~k.shaken /\ q = <<>>
  <2>0. k.is_tls_hs \in {"no", "start", "negotiated"}
    BY <1>1 DEF Connection
  <2> HIDE DEF q, s
  <2>1. k.is_tls
    BY <1>3, <1>6 DEF Shaking
  <2>2. k.is_tls_hs = "negotiated"
    BY <1>3, <1>5, <1>6, <2>0, <2>1 DEF Shaking
  <2>3. k.got # <<Flight>>
    <3>1. <<Flight>> # <<>>
      OBVIOUS
    <3> QED
      BY <1>5, <3>1, Zenon
  <2> QED
    BY <1>3, <2>1, <2>2, <2>3 DEF Shaking
<1>8. k.recv = <<>> /\ k.rtls = <<>> /\ k.in = <<>>
  <2> DEFINE w == k.recv \o k.rtls
  <2>1. w \in Seq(Fragment) /\ Len(w) = Len(k.recv) + Len(k.rtls)
    BY <1>4, ConcatProperties
  <2>2. q = w \o k.in
    BY Zenon DEF Waiting
  <2> HIDE DEF w, q
  <2>3. Len(q) = Len(w) + Len(k.in)
    BY <1>4, <2>1, <2>2, ConcatProperties
  <2>4. Len(q) = 0 /\ Len(w) \in Nat /\ Len(k.in) \in Nat /\ Len(k.recv) \in Nat /\ Len(k.rtls) \in Nat
    BY <1>4, <1>7, <2>1, LenProperties
  <2>5. Len(k.recv) = 0 /\ Len(k.rtls) = 0 /\ Len(k.in) = 0
    <3>1. \A x, y, z \in Nat : (x + y) + z = 0 => x = 0 /\ y = 0 /\ z = 0
      OBVIOUS
    <3>2. (Len(k.recv) + Len(k.rtls)) + Len(k.in) = 0
      BY <2>1, <2>3, <2>4, Zenon
    <3> QED
      BY <2>4, <3>1, <3>2, Zenon
  <2> QED
    BY <1>4, <2>5, Indexes
<1>9. d \in {<<>>, <<Finished>>} /\ d \in Seq(Fragment)
  <2>1. <<>> \in Seq(Fragment) /\ <<Finished>> \in Seq(Fragment)
    BY DEF Finished, Fragment
  <2>2. d = <<>> \/ d = <<Finished>>
    BY <1>8 DEF Answer
  <2> QED
    BY <2>1, <2>2, Zenon
<1> HIDE DEF q, s, u, d
<1>10. l = [u EXCEPT !.shaken = TRUE, !.in = d]
  BY DEF u, d, FlightRead
<1>11. l \in Connection
  <2>1. [u EXCEPT !.shaken = TRUE] \in Connection
    BY <1>2, FlagsTyped, Zenon
  <2>2. [[u EXCEPT !.shaken = TRUE] EXCEPT !.in = d] \in Connection
    BY <2>1, <1>9, QueuesTyped, Zenon
  <2> QED
    BY <2>2, <1>10
<1>12. /\ l.socket = k.socket /\ l.is_tls = k.is_tls /\ l.client = k.client
       /\ l.sent = k.sent /\ l.last = k.last
       /\ l.recv = k.recv /\ l.rtls = k.rtls /\ l.send = k.send /\ l.tlsSend = k.tlsSend
       /\ l.is_tls_hs = k.is_tls_hs /\ l.is_resp = k.is_resp /\ l.file = k.file
       /\ l.is_draining = k.is_draining /\ l.is_closing = k.is_closing
       /\ l.is_readable = k.is_readable /\ l.atClose = k.atClose
       /\ l.got = u.got /\ l.out = u.out /\ l.in = d /\ l.shaken
  <2>1. /\ l.socket = u.socket /\ l.is_tls = u.is_tls /\ l.client = u.client
        /\ l.sent = u.sent /\ l.last = u.last
        /\ l.recv = u.recv /\ l.rtls = u.rtls /\ l.send = u.send /\ l.tlsSend = u.tlsSend
        /\ l.is_tls_hs = u.is_tls_hs /\ l.is_resp = u.is_resp /\ l.file = u.file
        /\ l.is_draining = u.is_draining /\ l.is_closing = u.is_closing
        /\ l.is_readable = u.is_readable /\ l.atClose = u.atClose
        /\ l.got = u.got /\ l.out = u.out /\ l.in = d /\ l.shaken
    BY <1>2, <1>9, <1>10 DEF Connection
  <2> QED
    BY <1>2, <2>1
<1>13. Stream(l) = s
  BY <1>2, <1>12, Zenon DEF Stream, Delivered
<1>14. l.got = <<Flight>>
  <2>1. Append(<<>>, Flight) = <<Flight>>
    OBVIOUS
  <2> QED
    BY <1>2, <1>5, <1>12, <2>1, Zenon
<1>15. Waiting(l) = d
  <2>1. Waiting(l) = <<>> \o <<>> \o d
    BY <1>8, <1>12, Zenon DEF Waiting
  <2>2. <<>> \o <<>> \o d = d
    <3>1. <<>> \o <<>> = <<>>
      OBVIOUS
    <3>2. <<>> \o d = d
      BY <1>9, ConcatEmptySeq
    <3> QED
      BY <3>1, <3>2, Zenon
  <2> QED
    BY <2>1, <2>2, Zenon
<1>16. /\ \A i \in DOMAIN d : d[i] = Finished
       /\ \A i, j \in DOMAIN d : i = j
  <2>1. DOMAIN <<>> = {} /\ DOMAIN <<Finished>> = {1} /\ <<Finished>>[1] = Finished
    OBVIOUS
  <2>2. d = <<>> \/ d = <<Finished>>
    BY <1>9
  <2>3. CASE d = <<>>
    BY <2>1, <2>3
  <2>4. CASE d = <<Finished>>
    BY <2>1, <2>4
  <2> QED
    BY <2>2, <2>3, <2>4
<1>17. Finished.id = 0 /\ Finished.part = 1 /\ Finished.kind \notin InTwoParts
  BY DEF Finished, InTwoParts
<1>18. ~\E h \in DOMAIN s : s[h].type = "header"
  <2>1. DOMAIN <<Flight>> = {1} /\ <<Flight>>[1] = Flight /\ Flight.type = "flight"
    BY DEF Flight
  <2> QED
    BY <1>7, <2>1
<1>19. l.last = 1 => l.sent # <<>> /\ l.sent[Len(l.sent)] \in InTwoParts
  BY <1>3, <1>12 DEF Queued
<1>20. Queued(l, d)
  <2>1. \A i \in DOMAIN d : d[i].id = 0 /\ d[i].part = 1 /\ d[i].kind \notin InTwoParts
    BY <1>16, <1>17
  <2>2. \A i, j \in DOMAIN d : i < j => Before(d[i], d[j])
    <3>1. DOMAIN d \subseteq Nat
      BY <1>9, Indexes
    <3> QED
      BY <1>16, <3>1
  <2>3. \A i \in DOMAIN d : Known(l, d[i])
    BY <1>16, <2>1 DEF Known
  <2> QED
    BY <1>19, <2>1, <2>2, <2>3 DEF Queued, Has
<1>21. Passed(l, d, s)
  <2>1. Headers(s) = {}
    BY <1>18 DEF Headers
  <2>2. \A m \in DOMAIN l.sent : Malforms(l, m)
    <3>1. \A m \in DOMAIN k.sent : ~HasHeader(s, m) /\ ~Has(q, m, 1) /\ ~Lost(k, q, m)
      <4>1. DOMAIN q = {}
        BY <1>7
      <4> QED
        BY <2>1, <4>1 DEF HasHeader, Has, Lost
    <3>2. \A m \in DOMAIN k.sent : Malforms(k, m)
      BY <1>3, <3>1 DEF Passed
    <3> QED
      BY <1>12, <3>2 DEF Malforms
  <2> QED
    BY <2>1, <2>2 DEF Passed, HasHeader
<1>22. InOrder(l, s) /\ Drains(l, s)
  BY <1>3, <1>12 DEF InOrder, Drains, Malforms
<1>23. Shaking(l, d, s)
  BY <1>3, <1>7, <1>12, <1>14, <1>16 DEF Shaking
<1>24. /\ (Streaming(l) <=> l.is_resp) /\ (Streaming(l) => l.socket = "open" /\ l.is_tls_hs = "no")
       /\ Rest(l) = Rest(k) /\ Live(l) /\ ~l.atClose
  BY <1>12 DEF Fine, Streaming, Rest, Live
<1>25. Len(l.out) <= SocketRoom
  <2>1. Len(l.out) \in Nat /\ Len(k.out) \in Nat /\ SocketRoom \in Nat
    <3>1. l.out \in Seq(Unit) /\ k.out \in Seq(Unit)
      BY <1>1, <1>11, Queues
    <3> QED
      BY <3>1, LenProperties, WebServerAssumption
  <2>2. Len(l.out) <= Len(k.out)
    BY <1>2, <1>12
  <2> QED
    BY <1>3, <2>1, <2>2
<1>26. Fine(l)
  BY <1>3, <1>11, <1>12, <1>13, <1>15, <1>20, <1>21, <1>22, <1>23, <1>24, <1>25 DEF Fine
<1> QED
  BY <1>12, <1>26

-----------------------------------------------------------------------------
(* What the event loop does to a connection.                               *)

\* Nothing that is written or read changes, nor what the client sent: only what the
\* server is told of the connection, or that the client sends no more.
SameData(k, l) ==
    /\ l \in Connection
    /\ l.socket = k.socket /\ l.is_tls = k.is_tls /\ (l.client = "gone" <=> k.client = "gone")
    /\ l.in = k.in /\ l.out = k.out /\ l.sent = k.sent /\ l.last = k.last
    /\ l.got = k.got /\ l.shaken = k.shaken
    /\ l.recv = k.recv /\ l.rtls = k.rtls /\ l.send = k.send /\ l.tlsSend = k.tlsSend
    /\ l.is_tls_hs = k.is_tls_hs /\ l.is_resp = k.is_resp /\ l.is_draining = k.is_draining
    /\ l.file = k.file /\ l.atClose = k.atClose

\* Of such a connection the invariant says the same.
LEMMA SameDataFine ==
  ASSUME NEW k, Fine(k), NEW l, SameData(k, l),
         k.socket = "backlog" => l.is_closing = k.is_closing /\ l.is_readable = k.is_readable
  PROVE  Fine(l)
<1> DEFINE q == Waiting(k)
           s == Stream(k)
<1>1. Waiting(l) = q
  BY Zenon DEF SameData, Waiting
<1>2. Stream(l) = s
  BY Zenon DEF SameData, Stream, Delivered
<1>3. /\ Queued(k, q) /\ Passed(k, q, s) /\ InOrder(k, s) /\ Drains(k, s) /\ Shaking(k, q, s)
      /\ WellFramed(s) /\ Owes(s, Rest(k)) /\ Len(k.out) <= SocketRoom
  BY DEF Fine
<1> HIDE DEF q, s
<1>4. Queued(l, q)
  BY <1>3 DEF Queued, Known, Malforms, Due, SameData
<1>5. Passed(l, q, s)
  BY <1>3 DEF Passed, Malforms, Lost, SameData
<1>6. InOrder(l, s) /\ Drains(l, s)
  BY <1>3 DEF InOrder, Drains, Malforms, SameData
<1>7. Shaking(l, q, s)
  BY <1>3 DEF Shaking, SameData
<1>8. /\ (Streaming(l) <=> l.is_resp) /\ (Streaming(l) => l.socket = "open" /\ l.is_tls_hs = "no")
      /\ Rest(l) = Rest(k) /\ Live(l) /\ ~l.atClose /\ (l.socket = "backlog" => Empty(l))
  BY DEF Fine, Streaming, Rest, Live, Empty, SameData
<1>9. Len(l.out) <= SocketRoom /\ l \in Connection
  BY <1>3, Zenon DEF SameData
<1> QED
  BY <1>1, <1>2, <1>3, <1>4, <1>5, <1>6, <1>7, <1>8, <1>9, Zenon DEF Fine

\* mg_iotest, with is_closing as mg_mgr_free leaves it.
Informed(k, x, y, z) ==
    [k EXCEPT !.is_closing = x, !.is_readable = y, !.is_writable = z]

\* mg_iotest, on an open connection.
LEMMA ToldFine ==
  ASSUME NEW k, Fine(k), k.socket = "open",
         NEW x \in BOOLEAN, NEW y \in BOOLEAN, NEW z \in BOOLEAN, NEW l, l = Informed(k, x, y, z)
  PROVE  /\ Fine(l) /\ SameData(k, l) /\ l.client = k.client
         /\ l.is_closing = x /\ l.is_readable = y
<1>1. k \in Connection
  BY DEF Fine
<1>2. l \in Connection
  BY <1>1, FlagsTyped, Zenon DEF Informed
<1>3. /\ l.client = k.client /\ l.is_closing = x /\ l.is_readable = y
      /\ l.socket = k.socket /\ l.is_tls = k.is_tls
      /\ l.in = k.in /\ l.out = k.out /\ l.sent = k.sent /\ l.last = k.last
      /\ l.got = k.got /\ l.shaken = k.shaken
      /\ l.recv = k.recv /\ l.rtls = k.rtls /\ l.send = k.send /\ l.tlsSend = k.tlsSend
      /\ l.is_tls_hs = k.is_tls_hs /\ l.is_resp = k.is_resp /\ l.is_draining = k.is_draining
      /\ l.file = k.file /\ l.atClose = k.atClose
  BY <1>1 DEF Informed, Connection
<1>4. SameData(k, l)
  BY <1>2, <1>3 DEF SameData
<1>5. k.socket # "backlog"
  OBVIOUS
<1> QED
  BY <1>3, <1>4, <1>5, SameDataFine

\* The client sends no more.
Shut(k) == [k EXCEPT !.client = "half"]

\* The client has shut down its side.
LEMMA ShutFine ==
  ASSUME NEW k, Fine(k), k.client = "open", NEW l, l = Shut(k)
  PROVE  Fine(l) /\ l.socket = k.socket /\ l.client = "half" /\ l.is_closing = k.is_closing
<1>1. k \in Connection
  BY DEF Fine
<1>2. l \in Connection
  BY <1>1 DEF Shut, Connection
<1>3. /\ l.client = "half" /\ l.is_closing = k.is_closing /\ l.is_readable = k.is_readable
      /\ l.socket = k.socket /\ l.is_tls = k.is_tls
      /\ l.in = k.in /\ l.out = k.out /\ l.sent = k.sent /\ l.last = k.last
      /\ l.got = k.got /\ l.shaken = k.shaken
      /\ l.recv = k.recv /\ l.rtls = k.rtls /\ l.send = k.send /\ l.tlsSend = k.tlsSend
      /\ l.is_tls_hs = k.is_tls_hs /\ l.is_resp = k.is_resp /\ l.is_draining = k.is_draining
      /\ l.file = k.file /\ l.atClose = k.atClose
  BY <1>1 DEF Shut, Connection
<1>4. SameData(k, l)
  BY <1>2, <1>3 DEF SameData
<1> QED
  BY <1>3, <1>4, SameDataFine

\* accept_conn: the handshake is still to come.
Accepted(k) == [k EXCEPT !.socket = "open", !.is_tls_hs = IF k.is_tls THEN "start" ELSE "no"]

\* A connection in the backlog is as the client made it until it is accepted.
LEMMA AcceptedFine ==
  ASSUME NEW k, Fine(k), k.socket = "backlog", NEW l, l = Accepted(k)
  PROVE  Fine(l) /\ l.socket = "open" /\ ~l.is_closing /\ ~l.is_readable
<1> DEFINE q == Waiting(k)
           s == Stream(k)
<1>1. k \in Connection /\ Empty(k)
  BY DEF Fine
<1>2. l \in Connection
  BY <1>1 DEF Accepted, Connection
<1>3. /\ l.client = k.client /\ l.is_closing = k.is_closing /\ l.is_readable = k.is_readable
      /\ l.socket = "open" /\ l.is_tls = k.is_tls
      /\ l.in = k.in /\ l.out = k.out /\ l.sent = k.sent /\ l.last = k.last
      /\ l.got = k.got /\ l.shaken = k.shaken
      /\ l.recv = k.recv /\ l.rtls = k.rtls /\ l.send = k.send /\ l.tlsSend = k.tlsSend
      /\ l.is_resp = k.is_resp /\ l.is_draining = k.is_draining
      /\ l.file = k.file /\ l.atClose = k.atClose
      /\ l.is_tls_hs = IF k.is_tls THEN "start" ELSE "no"
  BY <1>1 DEF Accepted, Connection
<1>4. Waiting(l) = q
  BY <1>3, Zenon DEF Waiting
<1>5. Stream(l) = s
  BY <1>3, Zenon DEF Stream, Delivered
<1>6. /\ Queued(k, q) /\ Passed(k, q, s) /\ InOrder(k, s) /\ Drains(k, s) /\ Shaking(k, q, s)
      /\ WellFramed(s) /\ Owes(s, Rest(k)) /\ Len(k.out) <= SocketRoom
  BY DEF Fine
<1> HIDE DEF q, s
<1>7. Queued(l, q) /\ Passed(l, q, s) /\ InOrder(l, s)
  BY <1>3, <1>6, SameTalk
<1>8. Drains(l, s)
  BY <1>3, <1>6 DEF Drains
<1>9. Shaking(l, q, s)
  BY <1>1, <1>3, <1>6 DEF Shaking, Empty
<1>10. ~Streaming(k)
  BY DEF Fine
<1>11. /\ (Streaming(l) <=> l.is_resp) /\ (Streaming(l) => l.socket = "open" /\ l.is_tls_hs = "no")
       /\ Rest(l) = Rest(k) /\ Live(l) /\ ~l.atClose /\ (l.socket = "backlog" => Empty(l))
  BY <1>3, <1>10 DEF Fine, Streaming, Rest, Live
<1>12. Len(l.out) <= SocketRoom
  BY <1>3, <1>6, Zenon
<1>13. Fine(l)
  BY <1>2, <1>4, <1>5, <1>6, <1>7, <1>8, <1>9, <1>11, <1>12, Zenon DEF Fine
<1> QED
  BY <1>1, <1>3, <1>13 DEF Empty

\* A connection that was not opened yet.
LEMMA FreshConnection ==
  Fresh \in Connection
<1>1. 2 \in 1 .. 2 /\ NoFile \in 0 .. NoFile
  BY WebServerAssumption DEF NoFile
<1>2. <<>> \in Seq(Fragment) /\ <<>> \in Seq(Unit) /\ <<>> \in Seq(Kind)
  OBVIOUS
<1> QED
  BY <1>1, <1>2 DEF Fresh, Connection

\* A client connects: over TLS it sends its part of the handshake at once.
Called(k, tls, d) == [k EXCEPT !.socket = "backlog", !.is_tls = tls, !.in = d]

\* What a client changes when it connects.
LEMMA CalledFields ==
  ASSUME NEW k \in Connection, NEW tls \in BOOLEAN, NEW d \in Seq(Fragment), NEW l, l = Called(k, tls, d)
  PROVE  /\ l \in Connection
         /\ l.socket = "backlog" /\ l.is_tls = tls /\ l.in = d /\ l.client = k.client
         /\ l.out = k.out /\ l.sent = k.sent /\ l.last = k.last /\ l.got = k.got
         /\ l.shaken = k.shaken
         /\ l.recv = k.recv /\ l.rtls = k.rtls /\ l.send = k.send /\ l.tlsSend = k.tlsSend
         /\ l.is_tls_hs = k.is_tls_hs /\ l.is_resp = k.is_resp /\ l.is_draining = k.is_draining
         /\ l.is_closing = k.is_closing /\ l.file = k.file
         /\ l.is_readable = k.is_readable /\ l.atClose = k.atClose
<1>1. l \in Connection
  BY DEF Called, Connection
<1> QED
  BY <1>1 DEF Called, Connection

\* It waits to be accepted with nothing but its part of the handshake.
LEMMA CalledFine ==
  ASSUME NEW tls \in BOOLEAN, NEW d, tls => d = <<Hello>>, ~tls => d = <<>>,
         NEW l, l = Called(Fresh, tls, d)
  PROVE  Fine(l) /\ l.socket = "backlog" /\ ~l.is_closing
<1>1. /\ DOMAIN d \subseteq Nat /\ d \in Seq(Fragment) /\ \A i, j \in DOMAIN d : i = j
      /\ \A i \in DOMAIN d : d[i] = Hello
      /\ ~tls => d = <<>> /\ DOMAIN d = {}
  <2>1. <<>> \in Seq(Fragment) /\ <<Hello>> \in Seq(Fragment) /\ <<Hello>>[1] = Hello
    BY DEF Hello, Fragment
  <2>2. DOMAIN <<>> = {} /\ DOMAIN <<Hello>> = {1}
    OBVIOUS
  <2>3. ASSUME NEW x, x = <<>> \/ x = <<Hello>>
        PROVE  /\ DOMAIN x \subseteq Nat /\ x \in Seq(Fragment) /\ \A i, j \in DOMAIN x : i = j
               /\ \A i \in DOMAIN x : x[i] = Hello
    <3>1. CASE x = <<>>
      BY <2>1, <2>2, <3>1
    <3>2. CASE x = <<Hello>>
      BY <2>1, <2>2, <3>2
    <3> QED
      BY <2>3, <3>1, <3>2
  <2>4. d = <<>> \/ d = <<Hello>>
    OBVIOUS
  <2>5. ~tls => DOMAIN d = {}
    BY <2>2
  <2> QED
    BY <2>3, <2>4, <2>5, Zenon
<1>2. Fresh \in Connection /\ d \in Seq(Fragment)
  BY <1>1, FreshConnection
<1>3. /\ l \in Connection
      /\ l.socket = "backlog" /\ l.is_tls = tls /\ l.in = d /\ l.client = Fresh.client
      /\ l.out = Fresh.out /\ l.sent = Fresh.sent /\ l.last = Fresh.last /\ l.got = Fresh.got
      /\ l.shaken = Fresh.shaken
      /\ l.recv = Fresh.recv /\ l.rtls = Fresh.rtls /\ l.send = Fresh.send /\ l.tlsSend = Fresh.tlsSend
      /\ l.is_tls_hs = Fresh.is_tls_hs /\ l.is_resp = Fresh.is_resp /\ l.is_draining = Fresh.is_draining
      /\ l.is_closing = Fresh.is_closing /\ l.file = Fresh.file
      /\ l.is_readable = Fresh.is_readable /\ l.atClose = Fresh.atClose
  BY <1>2, CalledFields
<1>4. /\ l.socket = "backlog" /\ l.is_tls = tls /\ l.in = d /\ l.client = "open"
      /\ l.out = <<>> /\ l.sent = <<>> /\ l.last = 2 /\ l.got = <<>> /\ l.shaken = FALSE
      /\ l.recv = <<>> /\ l.rtls = <<>> /\ l.send = <<>> /\ l.tlsSend = <<>>
      /\ l.is_tls_hs = "no" /\ l.is_resp = FALSE /\ l.is_draining = FALSE /\ l.is_closing = FALSE
      /\ l.file = NoFile /\ l.is_readable = FALSE /\ l.atClose = FALSE
  <2>1. /\ Fresh.client = "open" /\ Fresh.out = <<>> /\ Fresh.sent = <<>> /\ Fresh.last = 2
        /\ Fresh.got = <<>> /\ Fresh.shaken = FALSE
        /\ Fresh.recv = <<>> /\ Fresh.rtls = <<>> /\ Fresh.send = <<>> /\ Fresh.tlsSend = <<>>
        /\ Fresh.is_tls_hs = "no" /\ Fresh.is_resp = FALSE /\ Fresh.is_draining = FALSE
        /\ Fresh.is_closing = FALSE /\ Fresh.file = NoFile /\ Fresh.is_readable = FALSE
        /\ Fresh.atClose = FALSE
    BY DEF Fresh
  <2> QED
    BY <1>3, <2>1
<1> DEFINE q == Waiting(l)
           s == Stream(l)
<1>5. q = d
  <2>1. q = <<>> \o <<>> \o d
    BY <1>4, Zenon DEF Waiting
  <2>2. <<>> \o <<>> = <<>>
    OBVIOUS
  <2>3. <<>> \o d = d
    BY <1>1, ConcatEmptySeq
  <2> QED
    BY <2>1, <2>2, <2>3, Zenon
<1>6. s = <<>>
  <2>1. s = <<>> \o <<>> \o <<>> \o <<>>
    BY <1>4, Zenon DEF Stream, Delivered
  <2> QED
    BY <2>1
<1>7. DOMAIN s = {} /\ Headers(s) = {}
  BY <1>6 DEF Headers
<1> HIDE DEF q, s
<1>8. Hello.id = 0 /\ Hello.part = 1 /\ Hello.kind \notin InTwoParts
  BY DEF Hello, InTwoParts
<1>9. DOMAIN l.sent = {}
  BY <1>4
<1>10. Queued(l, d)
  <2>1. \A i \in DOMAIN d : d[i].id = 0 /\ d[i].part = 1 /\ d[i].kind \notin InTwoParts
    BY <1>1, <1>8
  <2>2. \A i, j \in DOMAIN d : i < j => Before(d[i], d[j])
    BY <1>1
  <2>3. \A i \in DOMAIN d : Known(l, d[i])
    BY <1>1, <2>1 DEF Known
  <2> QED
    BY <1>4, <2>1, <2>2, <2>3 DEF Queued
<1>11. Passed(l, d, s) /\ InOrder(l, s) /\ WellFramed(s)
  BY <1>4, <1>7, <1>9 DEF Passed, InOrder, WellFramed
<1>12. Drains(l, s)
  BY <1>4 DEF Drains
<1>13. ~Streaming(l) /\ Rest(l) = 0
  BY <1>4 DEF Streaming, Rest
<1>14. Owes(s, Rest(l))
  BY <1>7, <1>13 DEF Owes
<1>15. Shaking(l, d, s)
  BY <1>1, <1>4, <1>6, <1>7 DEF Shaking
<1>16. Len(l.out) <= SocketRoom
  BY <1>4, WebServerAssumption
<1>17. Fine(l)
  BY <1>3, <1>4, <1>5, <1>10, <1>11, <1>12, <1>13, <1>14, <1>15, <1>16 DEF Fine, Live, Empty, s, q
<1> QED
  BY <1>4, <1>17

\* What is left of a connection that is closed.
Settled(k) ==
    /\ ~Streaming(k) /\ ~k.is_resp /\ ~k.is_closing /\ k.send = <<>> /\ k.tlsSend = <<>>
    /\ InOrder(k, Stream(k)) /\ WellFramed(Stream(k))

\* The invariant of one connection.
ConnInv(k) ==
    /\ k \in Connection
    /\ k.socket = "none" => k = Fresh
    /\ Live(k) => Fine(k)
    /\ k.socket = "closed" => Settled(k)

\* close_conn.
Gone(k, out, atClose) ==
    [Fresh EXCEPT !.socket = "closed", !.is_tls = k.is_tls, !.client = k.client, !.out = out,
                  !.sent = k.sent, !.last = k.last, !.got = k.got,
                  !.shaken = k.shaken, !.atClose = atClose]

\* close_conn leaves a stream that is cut off at most.
LEMMA GoneSettled ==
  ASSUME NEW k, Fine(k), NEW out \in {k.out, <<>>}, NEW b \in BOOLEAN,
         NEW l, l = Gone(k, out, b)
  PROVE  /\ l \in Connection /\ ConnInv(l) /\ l.socket = "closed" /\ ~l.is_closing
         /\ l.atClose = b /\ l.got = k.got /\ l.out = out /\ l.sent = k.sent
<1>1. k \in Connection
  BY DEF Fine
<1>2. /\ k.out \in Seq(Unit) /\ k.got \in Seq(Unit) /\ k.tlsSend \in Seq(Unit) /\ k.send \in Seq(Unit)
      /\ k.got \o k.out \in Seq(Unit) /\ Stream(k) \in Seq(Unit)
  BY <1>1, Queues
<1>3. out \in Seq(Unit)
  <2>1. <<>> \in Seq(Unit)
    OBVIOUS
  <2>2. out = k.out \/ out = <<>>
    OBVIOUS
  <2>3. k.out \in Seq(Unit)
    BY <1>2
  <2> QED
    BY <2>1, <2>2, <2>3, Zenon
<1>4. l \in Connection
  BY <1>1, <1>3, FreshConnection DEF Connection, Gone
<1>5. /\ l.socket = "closed" /\ l.sent = k.sent /\ l.got = k.got /\ l.out = out
      /\ l.atClose = b /\ l.send = <<>> /\ l.tlsSend = <<>> /\ ~l.is_resp /\ ~l.is_closing
      /\ l.file = NoFile
  BY <1>1, <1>3, FreshConnection DEF Connection, Gone, Fresh
<1> DEFINE t == k.got \o out
<1>6. t \in Seq(Unit)
  BY <1>2, <1>3, ConcatProperties
<1>7. Stream(l) = t
  <2>1. Stream(l) = t \o <<>> \o <<>>
    BY <1>5, Zenon DEF Stream, Delivered
  <2> HIDE DEF t
  <2>2. t \o <<>> = t
    BY <1>6, ConcatEmptySeq
  <2> QED
    BY <2>1, <2>2, Zenon
<1>8. Extends(Stream(k), t)
  <2> DEFINE d == k.got \o k.out
             m == k.tlsSend
             z == k.send
  <2>1. Stream(k) = d \o m \o z /\ d \in Seq(Unit) /\ m \in Seq(Unit) /\ z \in Seq(Unit)
    BY <1>2, Zenon DEF Stream, Delivered
  <2>2. /\ Len(t) \in Nat /\ Len(d) \in Nat /\ Len(t) <= Len(d) /\ \A i \in 1 .. Len(t) : t[i] = d[i]
    <3>1. CASE out = k.out
      <4>1. t = d
        BY <3>1
      <4>2. Len(d) \in Nat
        BY <2>1, LenProperties
      <4> HIDE DEF t, d
      <4> QED
        BY <4>1, <4>2
    <3>2. CASE out = <<>>
      <4> DEFINE g == k.got
                 o == k.out
      <4>1. g \in Seq(Unit) /\ o \in Seq(Unit)
        BY <1>2
      <4>2. t = g \o <<>> /\ d = g \o o
        BY <3>2
      <4> HIDE DEF t, d, g, o
      <4>3. t = g
        BY <4>1, <4>2, ConcatEmptySeq
      <4>4. Len(d) = Len(g) + Len(o) /\ Len(g) \in Nat /\ Len(o) \in Nat /\ \A i \in 1 .. Len(g) : d[i] = g[i]
        BY <4>1, <4>2, ConcatProperties, LenProperties
      <4> QED
        BY <4>3, <4>4
    <3> QED
      BY <3>1, <3>2
  <2> HIDE DEF t, d, m, z
  <2>3. Len(m) \in Nat /\ Len(z) \in Nat
    BY <2>1, LenProperties
  <2>4. /\ Len(d \o m \o z) = Len(d) + Len(m) + Len(z)
        /\ \A i \in 1 .. Len(d) : (d \o m \o z)[i] = d[i]
    BY <2>1, InARow
  <2> DEFINE S == Stream(k)
  <2>5. S = d \o m \o z
    BY <2>1
  <2> HIDE DEF S
  <2>6. Len(S) = Len(d) + Len(m) + Len(z) /\ \A i \in 1 .. Len(d) : S[i] = d[i]
    BY <2>4, <2>5, Zenon
  <2>7. Len(t) <= Len(S) /\ \A i \in 1 .. Len(t) : t[i] = S[i]
    BY <2>2, <2>3, <2>6
  <2>8. Extends(S, t)
    BY <2>7 DEF Extends
  <2> QED
    BY <2>8 DEF S
<1> HIDE DEF t
<1>9. WellFramed(t) /\ InOrder(l, t)
  BY <1>2, <1>5, <1>6, <1>8, CutOff DEF Fine
<1>10. Settled(l)
  BY <1>5, <1>7, <1>9 DEF Settled, Streaming
<1> QED
  BY <1>4, <1>5, <1>10 DEF ConnInv, Live

\* A client may read on from a connection that is closed.
LEMMA ReadSettled ==
  ASSUME NEW k \in Connection, k.socket = "closed", Settled(k), k.out # <<>>,
         NEW l, l = UnitRead(k) \/ l = FlightRead(k, k.in)
  PROVE  /\ ConnInv(l) /\ l.socket = "closed" /\ l.client = k.client
         /\ ~l.is_closing /\ l.atClose = k.atClose
<1> DEFINE u == UnitRead(k)
<1>1. /\ u \in Connection /\ Stream(u) = Stream(k)
      /\ u.socket = "closed" /\ u.client = k.client /\ u.sent = k.sent /\ u.in = k.in
      /\ u.send = k.send /\ u.tlsSend = k.tlsSend /\ u.is_resp = k.is_resp /\ u.file = k.file
      /\ u.is_closing = k.is_closing /\ u.atClose = k.atClose
  <2> HIDE DEF u
  <2> QED
    BY UnitReadMoves DEF u
<1> HIDE DEF u
<1>2. ASSUME NEW x, x \in Connection, Stream(x) = Stream(k),
             x.socket = "closed", x.sent = k.sent,
             x.send = k.send, x.tlsSend = k.tlsSend, x.is_resp = k.is_resp, x.file = k.file,
             x.is_closing = k.is_closing
      PROVE  ConnInv(x)
  <2> DEFINE s == Stream(k)
  <2>1. InOrder(k, s) /\ WellFramed(s)
    BY DEF Settled
  <2>2. Stream(x) = s
    BY <1>2
  <2> HIDE DEF s
  <2>3. InOrder(x, s)
    BY <1>2, <2>1 DEF InOrder, Malforms
  <2>4. InOrder(x, Stream(x)) /\ WellFramed(Stream(x))
    BY <2>1, <2>2, <2>3, Zenon
  <2>5. Settled(x)
    BY <1>2, <2>4 DEF Settled, Streaming
  <2> QED
    BY <1>2, <2>5 DEF ConnInv, Live
<1>3. CASE l = UnitRead(k)
  BY <1>1, <1>2, <1>3, Zenon DEF Settled, u
<1>4. CASE l = FlightRead(k, k.in)
  <2>1. l = [u EXCEPT !.shaken = TRUE, !.in = k.in] /\ k.in \in Seq(Fragment)
    BY <1>4, Queues DEF FlightRead, u
  <2>2. l \in Connection
    BY <1>1, <2>1 DEF Connection
  <2>3. /\ l.socket = u.socket /\ l.client = u.client /\ l.sent = u.sent
        /\ l.send = u.send /\ l.tlsSend = u.tlsSend /\ l.is_resp = u.is_resp /\ l.file = u.file
        /\ l.is_closing = u.is_closing /\ l.atClose = u.atClose /\ l.got = u.got /\ l.out = u.out
    BY <1>1, <2>1 DEF Connection
  <2>4. Stream(l) = Stream(u)
    BY <2>3, Zenon DEF Stream, Delivered
  <2> QED
    BY <1>1, <1>2, <2>2, <2>3, <2>4, Zenon DEF Settled
<1> QED
  BY <1>3, <1>4

-----------------------------------------------------------------------------
(* The invariant of the web server, step by step.                          *)

Injective(s) == \A i, j \in DOMAIN s : s[i] = s[j] => i = j

Among(c, s) == \E i \in DOMAIN s : s[i] = c

AllFine == \A c \in Conn : ConnInv(conn[c])

\* mgr->conns is the open connections, each of them once, and so are those the pass visits.
Listed ==
    /\ \A c \in Conn : conn[c].socket = "open" <=> Among(c, conns)
    /\ Injective(conns) /\ Injective(turns)
    /\ \A i \in DOMAIN turns : turns[i] \in Conn => conn[turns[i]].socket = "open"

\* What closes: all at the end, or what a client left; a connection without TLS that is
\* still to be visited is readable for what is there, or for what its client did.
Asked ==
    \A c \in Conn :
        /\ conn[c].is_closing => main \in {"free", "exit"} \/ conn[c].client = "gone"
        /\ ~conn[c].is_tls /\ conn[c].socket = "open" /\ conn[c].client = "open"
             /\ conn[c].is_readable /\ Among(c, turns)
           => conn[c].in # <<>>

AtClose == {c \in Conn : conn[c].atClose}

Leaks == IsFiniteSet(AtClose) /\ leaked <= Cardinality(AtClose)

WebInv == WebTypeOK /\ AllFine /\ Listed /\ Asked /\ Leaks

\* It holds when main starts.
LEMMA WebInvInit ==
  WebInit => WebInv
<1> SUFFICES ASSUME WebInit PROVE WebInv
  OBVIOUS
<1>1. \A c \in Conn : conn[c] = Fresh
  BY DEF WebInit
<1>2. WebTypeOK
  <2>1. <<>> \in Seq(Conn) /\ <<>> \in Seq(Conn \cup {"http", "https"})
    OBVIOUS
  <2>2. conn \in [Conn -> Connection]
    BY FreshConnection DEF WebInit
  <2> QED
    BY <2>1, <2>2 DEF WebInit, WebTypeOK
<1>3. AllFine
  <2>1. Fresh.socket = "none"
    BY DEF Fresh
  <2>2. ConnInv(Fresh)
    BY <2>1, FreshConnection DEF ConnInv, Live
  <2> QED
    BY <1>1, <2>2 DEF AllFine
<1>4. Listed
  <2>1. conns = <<>> /\ turns = <<>> /\ DOMAIN <<>> = {}
    BY DEF WebInit
  <2>2. \A c \in Conn : conn[c].socket = "none"
    BY <1>1 DEF Fresh
  <2> QED
    BY <2>1, <2>2 DEF Listed, Injective, Among
<1>5. Asked
  <2>1. \A c \in Conn : ~conn[c].is_closing /\ conn[c].socket = "none"
    BY <1>1 DEF Fresh
  <2> QED
    BY <2>1 DEF Asked
<1>6. Leaks
  <2>1. AtClose = {}
    BY <1>1 DEF AtClose, Fresh
  <2>2. IsFiniteSet({}) /\ Cardinality({}) = 0
    BY FS_EmptySet
  <2> QED
    BY <2>1, <2>2 DEF Leaks, WebInit
<1> QED
  BY <1>2, <1>3, <1>4, <1>5, <1>6 DEF WebInv

\* What clients do to a connection.
Steps(k, l) ==
    /\ ConnInv(l)
    /\ l.socket = "open" <=> k.socket = "open"
    /\ l.is_closing => k.is_closing
    /\ k.client = "gone" => l.client = "gone"
    /\ l.atClose = k.atClose
    /\ l.socket = "open" => l.is_tls = k.is_tls /\ l.is_readable = k.is_readable
    /\ l.socket = "open" /\ l.client = "open" =>
          k.client = "open" /\ (k.in # <<>> => l.in # <<>>)

\* A step of a client keeps it if it keeps that of the connection, and closes nothing.
LEMMA ClientKeeps ==
  ASSUME WebInv, NEW c \in Conn, NEW l, Steps(conn[c], l), Client(c, l)
  PROVE  WebInv'
<1>1. /\ conn' = [conn EXCEPT ![c] = l]
      /\ main' = main /\ icon' = icon /\ fds' = fds /\ signal' = signal /\ conns' = conns
      /\ turns' = turns /\ incoming' = incoming /\ leaked' = leaked
  BY DEF Client
<1>2. conn \in [Conn -> Connection] /\ l \in Connection
  BY DEF WebInv, WebTypeOK, Steps, ConnInv
<1>3. conn'[c] = l /\ \A d \in Conn : d # c => conn'[d] = conn[d]
  BY <1>1, <1>2
<1>4. WebTypeOK'
  BY <1>1, <1>2 DEF WebInv, WebTypeOK
<1>5. AllFine'
  BY <1>3 DEF WebInv, AllFine, Steps
<1>6. Listed'
  <2>1. \A d \in Conn : conn'[d].socket = "open" <=> conn[d].socket = "open"
    BY <1>3 DEF Steps
  <2> QED
    BY <1>1, <2>1 DEF WebInv, Listed, Injective, Among
<1>7. Asked'
  <2> SUFFICES ASSUME NEW d \in Conn
               PROVE  /\ conn'[d].is_closing => main \in {"free", "exit"} \/ conn'[d].client = "gone"
                      /\ ~conn'[d].is_tls /\ conn'[d].socket = "open" /\ conn'[d].client = "open"
                            /\ conn'[d].is_readable /\ Among(d, turns)
                         => conn'[d].in # <<>>
    BY <1>1, Zenon DEF Asked, Among
  <2>1. /\ conn[d].is_closing => main \in {"free", "exit"} \/ conn[d].client = "gone"
        /\ ~conn[d].is_tls /\ conn[d].socket = "open" /\ conn[d].client = "open"
              /\ conn[d].is_readable /\ Among(d, turns)
           => conn[d].in # <<>>
    BY DEF WebInv, Asked
  <2>2. CASE d = c
    BY <1>3, <2>1, <2>2 DEF Steps
  <2>3. CASE d # c
    BY <1>3, <2>1, <2>3
  <2> QED
    BY <2>2, <2>3
<1>8. Leaks'
  <2>1. \A d \in Conn : conn'[d].atClose = conn[d].atClose
    BY <1>3 DEF Steps
  <2>2. AtClose' = AtClose
    BY <2>1 DEF AtClose
  <2> QED
    BY <1>1, <2>2 DEF WebInv, Leaks
<1> QED
  BY <1>4, <1>5, <1>6, <1>7, <1>8 DEF WebInv

\* A connection that waits or is open.
LEMMA FineInv ==
  ASSUME NEW k, Fine(k)
  PROVE  ConnInv(k) /\ k.socket \in {"backlog", "open"} /\ k.atClose = FALSE /\ k \in Connection
<1>1. k.atClose = FALSE
  BY DEF Fine, Connection
<1> QED
  BY <1>1 DEF Fine, Live, ConnInv

\* Connects.
LEMMA ConnectsKeeps ==
  ASSUME WebInv, NEW c \in Conn, Connects(c)
  PROVE  WebInv'
<1> DEFINE k == conn[c]
<1>1. k = Fresh
  BY DEF Connects, WebInv, AllFine, ConnInv
<1>2. ASSUME NEW tls \in BOOLEAN, NEW d, tls => d = <<Hello>>, ~tls => d = <<>>
      PROVE  Steps(k, Called(Fresh, tls, d))
  <2> DEFINE l == Called(Fresh, tls, d)
  <2>1. Fine(l) /\ l.socket = "backlog" /\ ~l.is_closing
    BY <1>2, CalledFine
  <2>2. Fresh.socket = "none" /\ Fresh.client = "open" /\ Fresh.atClose = FALSE
    BY DEF Fresh
  <2> HIDE DEF l, k
  <2>3. Steps(k, l)
    BY <1>1, <2>1, <2>2, FineInv DEF Steps
  <2> QED
    BY <2>3 DEF l
<1>3. ASSUME Client(c, [conn[c] EXCEPT !.socket = "backlog"]) PROVE WebInv'
  <2>1. [Fresh EXCEPT !.socket = "backlog"] = Called(Fresh, FALSE, <<>>)
    <3>1. ASSUME NEW x \in Connection, x.is_tls = FALSE, x.in = <<>>
          PROVE  [x EXCEPT !.socket = "backlog"] = Called(x, FALSE, <<>>)
      BY <3>1 DEF Called, Connection
    <3>2. Fresh.is_tls = FALSE /\ Fresh.in = <<>>
      BY DEF Fresh
    <3> QED
      BY <3>1, <3>2, FreshConnection
  <2>2. Client(c, Called(Fresh, FALSE, <<>>))
    BY <1>1, <1>3, <2>1, Zenon
  <2>3. Steps(k, Called(Fresh, FALSE, <<>>))
    BY <1>2
  <2> QED
    BY <2>2, <2>3, ClientKeeps, Zenon
<1>4. ASSUME Client(c, [conn[c] EXCEPT !.socket = "backlog", !.is_tls = TRUE, !.in = <<Hello>>])
      PROVE  WebInv'
  <2>1. Client(c, Called(Fresh, TRUE, <<Hello>>))
    BY <1>1, <1>4, Zenon DEF Called
  <2>2. Steps(k, Called(Fresh, TRUE, <<Hello>>))
    BY <1>2
  <2> QED
    BY <2>1, <2>2, ClientKeeps, Zenon
<1> QED
  BY <1>3, <1>4, Zenon DEF Connects

\* A client that sends is connected.
LEMMA SenderFine ==
  ASSUME WebInv, NEW c \in Conn, CanSend(c)
  PROVE  Fine(conn[c]) /\ conn[c].client = "open" /\ (conn[c].is_tls => conn[c].shaken)
BY DEF CanSend, WebInv, AllFine, ConnInv, Live

\* What was appended to is not empty.
LEMMA AppendLonger ==
  ASSUME NEW k \in Connection, NEW f \in Fragment
  PROVE  Append(k.in, f) # <<>>
<1>1. k.in \in Seq(Fragment)
  BY Queues
<1>2. Len(Append(k.in, f)) = Len(k.in) + 1 /\ Append(k.in, f) \in Seq(Fragment) /\ Len(k.in) \in Nat
  BY <1>1, AppendProperties, LenProperties
<1>3. Len(k.in) + 1 # 0
  BY <1>2
<1> QED
  BY <1>2, <1>3, Indexes

\* SendsRequest.
LEMMA SendsRequestKeeps ==
  ASSUME WebInv, NEW c \in Conn, NEW kind \in Kind, SendsRequest(c, kind)
  PROVE  WebInv'
<1> DEFINE k == conn[c]
           l == Requested(k, kind)
<1>1. Fine(k) /\ k.client = "open" /\ (k.is_tls => k.shaken) /\ k.last = 2
  BY SenderFine DEF SendsRequest
<1>2. Client(c, l)
  BY Zenon DEF SendsRequest, Requested, Request
<1>3. /\ Fine(l) /\ l.socket = k.socket /\ l.client = k.client /\ l.is_closing = k.is_closing
      /\ l.is_tls = k.is_tls /\ l.is_readable = k.is_readable
  BY <1>1, RequestedFine
<1>4. l.in # <<>>
  <2>1. k \in Connection /\ l \in Connection
    BY <1>1, <1>3 DEF Fine
  <2>2. Request(k, kind) \in Fragment
    <3>1. Len(k.sent) \in Nat
      BY <2>1, Queues
    <3> QED
      BY <3>1 DEF Request, Fragment
  <2>3. l.in = Append(k.in, Request(k, kind))
    <3> DEFINE f == Request(k, kind)
               d == Append(k.in, f)
               t == Append(k.sent, kind)
               n == IF kind \in InTwoParts THEN 1 ELSE 2
    <3>1. l = [k EXCEPT !.sent = t, !.last = n, !.in = d]
      BY DEF Requested
    <3> HIDE DEF d, l, t, n
    <3>2. l.in = d
      BY <2>1, <3>1 DEF Connection
    <3> QED
      BY <3>2 DEF d
  <2> QED
    BY <2>1, <2>2, <2>3, AppendLonger
<1> HIDE DEF k, l
<1>5. Steps(k, l)
  BY <1>1, <1>3, <1>4, FineInv DEF Steps
<1> QED
  BY <1>2, <1>5, ClientKeeps, Zenon DEF k

\* SendsRest.
LEMMA SendsRestKeeps ==
  ASSUME WebInv, NEW c \in Conn, SendsRest(c)
  PROVE  WebInv'
<1> DEFINE k == conn[c]
           l == Completed(k)
<1>1. Fine(k) /\ k.client = "open" /\ (k.is_tls => k.shaken) /\ k.last = 1
  BY SenderFine DEF SendsRest
<1>2. Client(c, l)
  BY Zenon DEF SendsRest, Completed, LastPart
<1>3. /\ Fine(l) /\ l.socket = k.socket /\ l.client = k.client /\ l.is_closing = k.is_closing
      /\ l.is_tls = k.is_tls /\ l.is_readable = k.is_readable
  BY <1>1, CompletedFine
<1>4. l.in # <<>>
  <2>1. k \in Connection /\ l \in Connection
    BY <1>1, <1>3 DEF Fine
  <2>2. LastPart(k) \in Fragment
    <3>1. Len(k.sent) \in Nat /\ k.sent \in Seq(Kind) /\ k.sent # <<>>
      BY <1>1, <2>1, Queues DEF Fine, Queued
    <3>2. k.sent[Len(k.sent)] \in Kind
      BY <3>1, Indexes
    <3> QED
      BY <3>1, <3>2 DEF LastPart, Fragment
  <2>3. l.in = Append(k.in, LastPart(k))
    <3> DEFINE d == Append(k.in, LastPart(k))
    <3>1. l = [k EXCEPT !.last = 2, !.in = d]
      BY DEF Completed
    <3> HIDE DEF d, l
    <3>2. l.in = d
      BY <2>1, <3>1 DEF Connection
    <3> QED
      BY <3>2 DEF d
  <2> QED
    BY <2>1, <2>2, <2>3, AppendLonger
<1> HIDE DEF k, l
<1>5. Steps(k, l)
  BY <1>1, <1>3, <1>4, FineInv DEF Steps
<1> QED
  BY <1>2, <1>5, ClientKeeps, Zenon DEF k

\* ShutsDown.
LEMMA ShutsDownKeeps ==
  ASSUME WebInv, NEW c \in Conn, ShutsDown(c)
  PROVE  WebInv'
<1> DEFINE k == conn[c]
           l == Shut(k)
<1>1. Fine(k) /\ k.client = "open"
  BY SenderFine DEF ShutsDown
<1>2. Client(c, l)
  BY Zenon DEF ShutsDown, Shut
<1>3. Fine(l) /\ l.socket = k.socket /\ l.client = "half" /\ l.is_closing = k.is_closing
  BY <1>1, ShutFine
<1>4. l.is_tls = k.is_tls /\ l.is_readable = k.is_readable
  BY <1>1 DEF Fine, Shut, Connection
<1> HIDE DEF k, l
<1>5. Steps(k, l)
  BY <1>1, <1>3, <1>4, FineInv DEF Steps
<1> QED
  BY <1>2, <1>5, ClientKeeps, Zenon DEF k

\* Leaves.
LEMMA LeavesKeeps ==
  ASSUME WebInv, NEW c \in Conn, Leaves(c)
  PROVE  WebInv'
<1> DEFINE k == conn[c]
<1>1. Fine(k) /\ k.client # "gone"
  BY DEF Leaves, WebInv, AllFine, ConnInv, Live
<1>2. PICK d \in {k.in, <<>>} : Client(c, Left(k, d))
  BY Zenon DEF Leaves, Left
<1> DEFINE l == Left(k, d)
<1>3. Fine(l) /\ l.socket = k.socket /\ l.client = "gone"
  BY <1>1, LeftFine
<1>4. l.is_tls = k.is_tls /\ l.is_readable = k.is_readable /\ l.is_closing = k.is_closing
  <2>1. k \in Connection /\ l \in Connection
    BY <1>1, <1>3 DEF Fine
  <2>2. l = [k EXCEPT !.client = "gone", !.in = d]
    BY DEF Left
  <2> HIDE DEF l, k
  <2> QED
    BY <2>1, <2>2 DEF Connection
<1> HIDE DEF k, l
<1>5. Steps(k, l)
  BY <1>1, <1>3, <1>4, FineInv DEF Steps
<1> QED
  BY <1>2, <1>5, ClientKeeps, Zenon DEF k, l

\* What the server's part of the handshake does not change.
LEMMA FlightReadFields ==
  ASSUME NEW k \in Connection, k.out # <<>>, NEW d \in Seq(Fragment), NEW l, l = FlightRead(k, d)
  PROVE  /\ l.in = d /\ l.is_closing = k.is_closing /\ l.is_tls = k.is_tls
         /\ l.is_readable = k.is_readable /\ l.atClose = k.atClose
         /\ l.socket = k.socket /\ l.client = k.client
<1> DEFINE u == UnitRead(k)
<1>1. /\ u \in Connection /\ u.is_closing = k.is_closing /\ u.is_tls = k.is_tls
      /\ u.is_readable = k.is_readable /\ u.atClose = k.atClose
      /\ u.socket = k.socket /\ u.client = k.client
  <2> HIDE DEF u
  <2> QED
    BY UnitReadMoves DEF u
<1>2. l = [u EXCEPT !.shaken = TRUE, !.in = d]
  BY DEF FlightRead
<1> HIDE DEF u
<1>3. /\ l.in = d /\ l.is_closing = u.is_closing /\ l.is_tls = u.is_tls
      /\ l.is_readable = u.is_readable /\ l.atClose = u.atClose
      /\ l.socket = u.socket /\ l.client = u.client
  BY <1>1, <1>2 DEF Connection
<1> QED
  BY <1>1, <1>3

\* Reads, from a connection that is open or closed.
LEMMA ReadsKeeps ==
  ASSUME WebInv, NEW c \in Conn, Reads(c)
  PROVE  WebInv'
<1> DEFINE k == conn[c]
           l == IF Head(k.out) = Flight THEN FlightRead(k, Answer(k)) ELSE UnitRead(k)
<1>1. /\ k \in Connection /\ k.client # "gone" /\ k.out # <<>> /\ ConnInv(k)
      /\ (k.socket = "none" => k = Fresh)
  BY DEF Reads, WebInv, AllFine, ConnInv
<1>2. k.socket \in {"backlog", "open", "closed"}
  <2>1. Fresh.out = <<>>
    BY DEF Fresh
  <2>2. k.socket \in {"none", "backlog", "open", "closed"}
    BY <1>1 DEF Connection
  <2>3. k.socket # "none"
    BY <1>1, <2>1
  <2> QED
    BY <2>2, <2>3
<1>3. Client(c, l)
  <2> DEFINE u == UnitRead(k)
  <2>1. u.socket = k.socket /\ u.client = k.client /\ u.in = k.in
    <3> HIDE DEF u, k
    <3> QED
      BY <1>1, UnitReadMoves DEF u
  <2>2. Client(c, IF Head(k.out) = Flight
                  THEN [u EXCEPT !.shaken = TRUE,
                           !.in = IF u.socket = "open" /\ u.client = "open" THEN <<Finished>> ELSE u.in]
                  ELSE u)
    BY Zenon DEF Reads, UnitRead
  <2>3. (IF u.socket = "open" /\ u.client = "open" THEN <<Finished>> ELSE u.in) = Answer(k)
    <3> HIDE DEF u, k
    <3> QED
      BY <2>1 DEF Answer
  <2> QED
    BY <2>2, <2>3, Zenon DEF FlightRead
<1> HIDE DEF k, l
<1>4. CASE k.socket = "closed"
  <2>1. Answer(k) = k.in
    BY <1>4 DEF Answer
  <2>2. l = UnitRead(k) \/ l = FlightRead(k, k.in)
    BY <2>1, Zenon DEF l
  <2>3. Settled(k)
    BY <1>1, <1>4 DEF ConnInv
  <2>4. /\ ConnInv(l) /\ l.socket = "closed" /\ l.client = k.client
        /\ ~l.is_closing /\ l.atClose = k.atClose
    BY <1>1, <1>4, <2>2, <2>3, ReadSettled
  <2>5. Steps(k, l)
    BY <1>4, <2>4 DEF Steps
  <2> QED
    BY <1>3, <2>5, ClientKeeps DEF k
<1>5. CASE k.socket # "closed"
  <2>1. Fine(k)
    BY <1>1, <1>2, <1>5 DEF ConnInv, Live
  <2>2. CASE Head(k.out) = Flight
    <3>1. l = FlightRead(k, Answer(k))
      BY <2>2 DEF l
    <3>2. Fine(l) /\ l.socket = k.socket /\ l.client = k.client
      BY <1>1, <2>1, <2>2, <3>1, FlightReadFine
    <3>3. Answer(k) \in Seq(Fragment)
      <4>1. k.in \in Seq(Fragment)
        BY <1>1, Queues
      <4>2. <<Finished>> \in Seq(Fragment)
        BY DEF Finished, Fragment
      <4> QED
        BY <4>1, <4>2, Zenon DEF Answer
    <3>4. /\ l.in = Answer(k) /\ l.is_closing = k.is_closing /\ l.is_tls = k.is_tls
          /\ l.is_readable = k.is_readable
      BY <1>1, <3>1, <3>3, FlightReadFields
    <3>5. k.in # <<>> => Answer(k) # <<>>
      BY DEF Answer
    <3>6. Steps(k, l)
      BY <2>1, <3>2, <3>4, <3>5, FineInv DEF Steps
    <3> QED
      BY <1>3, <3>6, ClientKeeps DEF k
  <2>3. CASE Head(k.out) # Flight
    <3>1. l = UnitRead(k)
      BY <2>3 DEF l
    <3>2. Fine(l)
      BY <1>1, <2>1, <2>3, <3>1, UnitReadFine
    <3>3. /\ l.in = k.in /\ l.is_closing = k.is_closing /\ l.is_tls = k.is_tls
          /\ l.is_readable = k.is_readable /\ l.socket = k.socket /\ l.client = k.client
      BY <1>1, <3>1, UnitReadMoves
    <3>4. Steps(k, l)
      BY <2>1, <3>2, <3>3, FineInv DEF Steps
    <3> QED
      BY <1>3, <3>4, ClientKeeps DEF k
  <2> QED
    BY <2>2, <2>3
<1> QED
  BY <1>4, <1>5

\* Whatever clients do keeps the invariant.
LEMMA ClientStepsKeep ==
  ASSUME WebInv, NEW c \in Conn, ClientSteps(c)
  PROVE  WebInv'
<1>1. CASE Connects(c)
  BY <1>1, ConnectsKeeps
<1>2. CASE SendsRest(c)
  BY <1>2, SendsRestKeeps
<1>3. CASE Reads(c)
  BY <1>3, ReadsKeeps
<1>4. CASE ShutsDown(c)
  BY <1>4, ShutsDownKeeps
<1>5. CASE Leaves(c)
  BY <1>5, LeavesKeeps
<1>6. CASE \E kind \in Kind : SendsRequest(c, kind)
  BY <1>6, SendsRequestKeeps
<1> QED
  BY <1>1, <1>2, <1>3, <1>4, <1>5, <1>6, Zenon DEF ClientSteps

\* Steps that touch neither connections nor lists.
LEMMA OnlyMain ==
  ASSUME WebInv, UNCHANGED <<icon, fds, conns, incoming, conn, leaked>>,
         turns' = turns, main' \in {"listen", "poll", "pass", "free", "exit"}, signal' \in BOOLEAN,
         main \in {"free", "exit"} => main' \in {"free", "exit"}
  PROVE  WebInv'
<1>1. WebTypeOK'
  BY DEF WebInv, WebTypeOK
<1>2. AllFine' /\ Listed' /\ Leaks'
  BY DEF WebInv, AllFine, Listed, Leaks, AtClose, Injective, Among
<1>3. Asked'
  <2>1. \A c \in Conn : conn[c].is_closing => main' \in {"free", "exit"} \/ conn[c].client = "gone"
    BY DEF WebInv, Asked
  <2> QED
    BY <2>1, Zenon DEF WebInv, Asked, Among
<1> QED
  BY <1>1, <1>2, <1>3 DEF WebInv

\* So do main and the signal.
LEMMA MainKeeps ==
  ASSUME WebInv, Listen \/ FailsToStart \/ Signal \/ PassEnds
  PROVE  WebInv'
<1>1. signal \in BOOLEAN /\ main \in {"listen", "poll", "pass", "free", "exit"}
  BY DEF WebInv, WebTypeOK
<1>2. /\ UNCHANGED <<icon, fds, conns, incoming, conn, leaked>> /\ turns' = turns
      /\ main' \in {"listen", "poll", "pass", "free", "exit"} /\ signal' \in BOOLEAN
      /\ main \in {"free", "exit"} => main' \in {"free", "exit"}
  BY <1>1 DEF Listen, FailsToStart, Signal, PassEnds
<1> QED
  BY <1>2, OnlyMain

\* A listener that accepts nobody.
LEMMA AcceptsNoneKeeps ==
  ASSUME WebInv, NEW who, AcceptsNone(who)
  PROVE  WebInv'
<1>1. /\ turns # <<>> /\ turns \in Seq(Conn \cup {"http", "https"}) /\ turns' = Tail(turns)
      /\ UNCHANGED <<main, icon, fds, signal, conns, incoming, conn, leaked>>
  BY DEF AcceptsNone, Visits, WebInv, WebTypeOK
<1>2. /\ turns' \in Seq(Conn \cup {"http", "https"})
      /\ \A i \in DOMAIN turns' : i + 1 \in DOMAIN turns /\ turns'[i] = turns[i + 1] /\ i \in Nat
  BY <1>1
<1>3. WebTypeOK'
  BY <1>1, <1>2 DEF WebInv, WebTypeOK
<1>4. AllFine' /\ Leaks'
  BY <1>1 DEF WebInv, AllFine, Leaks, AtClose
<1>5. Listed'
  <2>1. Injective(turns)'
    BY <1>2 DEF WebInv, Listed, Injective
  <2> QED
    BY <1>1, <1>2, <2>1 DEF WebInv, Listed, Injective, Among
<1>6. Asked'
  <2>1. \A c \in Conn : Among(c, turns)' => Among(c, turns)
    BY <1>2 DEF Among
  <2> QED
    BY <1>1, <2>1, Zenon DEF WebInv, Asked
<1> QED
  BY <1>3, <1>4, <1>5, <1>6 DEF WebInv

\* What mg_iotest tells: readable is what has units, or a client that sends no more.
LEMMA TestedTold ==
  ASSUME NEW k \in Connection, NEW e \in BOOLEAN, NEW m, m = k \/ m = Closing(k, TRUE)
  PROVE  \E x, y, z \in BOOLEAN :
            /\ Tested(m, e) = Informed(k, x, y, z)
            /\ x => k.is_closing \/ m # k \/ e
            /\ y => k.rtls # <<>> \/ k.in # <<>> \/ k.client # "open"
<1>1. /\ m \in Connection /\ m.rtls = k.rtls /\ m.in = k.in /\ m.client = k.client
      /\ m.is_closing \in BOOLEAN /\ (m.is_closing => k.is_closing \/ m # k)
  <2>1. CASE m = k
    BY <2>1 DEF Connection
  <2>2. CASE m = Closing(k, TRUE)
    <3>1. Closing(k, TRUE) \in Connection
      BY DEF Closing, Connection
    <3>2. m.rtls = k.rtls /\ m.in = k.in /\ m.client = k.client /\ m.is_closing = TRUE
      BY <2>2 DEF Closing, Connection
    <3>3. m = k => k.is_closing
      BY <3>2
    <3> QED
      BY <2>2, <3>1, <3>2, <3>3
  <2> QED
    BY <2>1, <2>2
<1> DEFINE x == m.is_closing \/ e
           y == HasRecords(m) \/ (~e /\ (m.in # <<>> \/ m.client # "open"))
           z == ~HasRecords(m) /\ ~e /\ can_write(m) /\ (Room(m) > 0 \/ m.client = "gone")
<1>2. x \in BOOLEAN /\ y \in BOOLEAN /\ z \in BOOLEAN
  OBVIOUS
<1>3. /\ x => k.is_closing \/ m # k \/ e
      /\ y => k.rtls # <<>> \/ k.in # <<>> \/ k.client # "open"
  BY <1>1 DEF HasRecords
<1>4. Tested(m, e) = [m EXCEPT !.is_closing = x, !.is_readable = y, !.is_writable = z]
  BY Zenon DEF Tested
<1> HIDE DEF x, y, z
<1>5. Tested(m, e) = Informed(k, x, y, z)
  <2>1. CASE m = k
    BY <1>4, <2>1, Zenon DEF Informed
  <2>2. CASE m = Closing(k, TRUE)
    <3>1. [[k EXCEPT !.is_closing = TRUE] EXCEPT !.is_closing = x, !.is_readable = y, !.is_writable = z]
            = [k EXCEPT !.is_closing = x, !.is_readable = y, !.is_writable = z]
      BY <1>2 DEF Connection
    <3> QED
      BY <1>4, <2>2, <3>1, Zenon DEF Informed, Closing
  <2> QED
    BY <2>1, <2>2
<1> QED
  BY <1>2, <1>3, <1>5, Zenon

\* The turns of a pass: each connection once, and the two listeners.
LEMMA Listeners ==
  ASSUME NEW s \in Seq(Conn), NEW t, t = s \o <<"https", "http">>, Injective(s)
  PROVE  /\ t \in Seq(Conn \cup {"http", "https"})
         /\ Injective(t)
         /\ \A i \in DOMAIN t : t[i] \in Conn => i \in DOMAIN s /\ s[i] = t[i]
<1>1. Conn \cap {"http", "https"} = {}
  BY WebServerAssumption
<1>2. /\ Len(s) \in Nat /\ DOMAIN s = 1 .. Len(s) /\ Len(t) = Len(s) + 2 /\ DOMAIN t = 1 .. Len(s) + 2
      /\ \A i \in 1 .. Len(s) : t[i] = s[i] /\ s[i] \in Conn
      /\ t[Len(s) + 1] = "https" /\ t[Len(s) + 2] = "http"
  OBVIOUS
<1>3. t \in Seq(Conn \cup {"http", "https"})
  OBVIOUS
<1>4. \A i \in DOMAIN t : i \in DOMAIN s \/ i = Len(s) + 1 \/ i = Len(s) + 2
  BY <1>2
<1>5. "https" \notin Conn /\ "http" \notin Conn
  BY <1>1
<1> HIDE DEF Injective
<1>6. \A i \in DOMAIN t : t[i] \in Conn => i \in DOMAIN s /\ s[i] = t[i]
  BY <1>2, <1>4, <1>5
<1>7. ASSUME NEW i \in DOMAIN t, NEW j \in DOMAIN t, t[i] = t[j] PROVE i = j
  <2>1. CASE t[i] \in Conn
    BY <1>6, <1>7, <2>1 DEF Injective
  <2>2. CASE t[i] \notin Conn
    <3>1. i \in {Len(s) + 1, Len(s) + 2} /\ j \in {Len(s) + 1, Len(s) + 2}
      BY <1>2, <1>4, <1>7, <2>2
    <3> QED
      BY <1>2, <1>7, <3>1
  <2> QED
    BY <2>1, <2>2
<1> QED
  BY <1>3, <1>6, <1>7 DEF Injective

\* mg_iotest, in mg_mgr_poll and in mg_mgr_free.
LEMMA IotestKeeps ==
  ASSUME WebInv, NEW before, mg_iotest(before),
         \A c \in Conn : before[c] = conn[c] \/ (c \in Opened /\ before[c] = Closing(conn[c], TRUE)),
         main' = "free" \/ \A c \in Conn : before[c] = conn[c],
         main = "poll", main' \in {"pass", "free"},
         UNCHANGED <<icon, fds, signal, conns, leaked>>
  PROVE  WebInv'
<1>1. PICK err \in SUBSET {c \in Opened : conn[c].client = "gone"} :
        /\ conn' = [c \in Conn |-> IF c \in Opened THEN Tested(before[c], c \in err) ELSE before[c]]
        /\ incoming' = ListenersReadable
        /\ turns' = conns \o <<"https", "http">>
  BY DEF mg_iotest
<1>2. \A c \in Conn : ConnInv(conn[c]) /\ conn[c] \in Connection
  BY DEF WebInv, AllFine, ConnInv
<1>3. \A c \in Conn : c \in Opened <=> conn[c].socket = "open"
  BY DEF Opened
<1>4. \A c \in Conn : c \notin Opened => conn'[c] = conn[c]
  BY <1>1
<1>5. ASSUME NEW c \in Opened
      PROVE  /\ Fine(conn'[c]) /\ SameData(conn[c], conn'[c]) /\ conn'[c].client = conn[c].client
             /\ conn'[c].is_closing => conn[c].is_closing \/ main' = "free" \/ conn[c].client = "gone"
             /\ conn'[c].is_readable => conn[c].rtls # <<>> \/ conn[c].in # <<>> \/ conn[c].client # "open"
  <2> DEFINE k == conn[c]
             e == c \in err
             m == before[c]
             l == conn'[c]
  <2>1. c \in Conn /\ k \in Connection /\ k.socket = "open" /\ Fine(k)
    BY <1>2, <1>3 DEF Opened, ConnInv, Live
  <2>2. l = Tested(m, e) /\ e \in BOOLEAN /\ (m = k \/ m = Closing(k, TRUE))
        /\ (m # k => main' = "free") /\ (e => k.client = "gone")
    <3>1. l = Tested(m, e)
      BY <1>1, <2>1
    <3>2. m = k \/ m = Closing(k, TRUE)
      BY <2>1, Zenon
    <3>3. m # k => main' = "free"
      BY <2>1, Zenon
    <3>4. e => k.client = "gone"
      BY <1>1, <2>1
    <3>5. e \in BOOLEAN
      OBVIOUS
    <3> QED
      BY <3>1, <3>2, <3>3, <3>4, <3>5, Zenon
  <2> HIDE DEF k, e, m, l
  <2>3. PICK x, y, z \in BOOLEAN :
            /\ Tested(m, e) = Informed(k, x, y, z)
            /\ x => k.is_closing \/ m # k \/ e
            /\ y => k.rtls # <<>> \/ k.in # <<>> \/ k.client # "open"
    <3>1. m = k \/ m = Closing(k, TRUE)
      BY <2>2
    <3>2. e \in BOOLEAN
      BY <2>2
    <3> QED
      BY <2>1, <3>1, <3>2, TestedTold, Zenon
  <2>4. l = Informed(k, x, y, z)
    BY <2>2, <2>3
  <2>5. /\ Fine(l) /\ SameData(k, l) /\ l.client = k.client
        /\ l.is_closing = x /\ l.is_readable = y
    <3>1. x \in BOOLEAN /\ y \in BOOLEAN /\ z \in BOOLEAN
      OBVIOUS
    <3>2. Fine(k) /\ k.socket = "open"
      BY <2>1
    <3>3. \A v : v = Informed(k, x, y, z) =>
                 /\ Fine(v) /\ SameData(k, v) /\ v.client = k.client
                 /\ v.is_closing = x /\ v.is_readable = y
      BY <3>1, <3>2, ToldFine
    <3> QED
      BY <2>4, <3>3, Zenon
  <2>6. l.is_closing => k.is_closing \/ main' = "free" \/ k.client = "gone"
    BY <2>2, <2>3, <2>5
  <2>7. l.is_readable => k.rtls # <<>> \/ k.in # <<>> \/ k.client # "open"
    BY <2>3, <2>5
  <2> QED
    BY <2>5, <2>6, <2>7 DEF k, l
<1>6. conns \in Seq(Conn) /\ Injective(conns)
  BY DEF WebInv, WebTypeOK, Listed
<1>7. /\ turns' \in Seq(Conn \cup {"http", "https"})
      /\ Injective(turns)'
      /\ \A i \in DOMAIN turns' : turns'[i] \in Conn => i \in DOMAIN conns /\ conns[i] = turns'[i]
  <2>1. turns' = conns \o <<"https", "http">>
    BY <1>1
  <2>2. \A t : t = conns \o <<"https", "http">> =>
            /\ t \in Seq(Conn \cup {"http", "https"})
            /\ Injective(t)
            /\ \A i \in DOMAIN t : t[i] \in Conn => i \in DOMAIN conns /\ conns[i] = t[i]
    BY <1>6, Listeners
  <2>3. /\ turns' \in Seq(Conn \cup {"http", "https"})
        /\ Injective(turns')
        /\ \A i \in DOMAIN turns' : turns'[i] \in Conn => i \in DOMAIN conns /\ conns[i] = turns'[i]
    BY <2>1, <2>2, Zenon
  <2> QED
    BY <2>3 DEF Injective
<1>8. \A c \in Conn : conn'[c] \in Connection /\ ConnInv(conn'[c])
                      /\ (conn'[c].socket = "open" <=> conn[c].socket = "open")
                      /\ conn'[c].atClose = conn[c].atClose
  <2> TAKE c \in Conn
  <2>1. CASE c \in Opened
    BY <1>5, <2>1, FineInv DEF SameData
  <2>2. CASE c \notin Opened
    BY <1>2, <1>4, <2>2
  <2> QED
    BY <2>1, <2>2
<1>9. WebTypeOK'
  <2>1. conn' \in [Conn -> Connection]
    <3>1. \A c \in Conn : conn'[c] \in Connection
      BY <1>8
    <3>2. conn' = [c \in Conn |-> conn'[c]]
      BY <1>1
    <3> QED
      BY <3>1, <3>2
  <2>2. incoming' \subseteq {"http", "https"}
    BY <1>1 DEF ListenersReadable
  <2>3. conns' \in Seq(Conn) /\ turns' \in Seq(Conn \cup {"http", "https"})
    BY <1>6, <1>7
  <2> QED
    BY <2>1, <2>2, <2>3 DEF WebInv, WebTypeOK
<1>10. AllFine'
  BY <1>8 DEF AllFine
<1>11. Listed'
  <2>1. \A c \in Conn : conn'[c].socket = "open" <=> Among(c, conns)'
    BY <1>8 DEF WebInv, Listed, Among
  <2>2. Injective(conns)'
    BY <1>6 DEF Injective
  <2>3. \A i \in DOMAIN turns' : turns'[i] \in Conn => conn'[turns'[i]].socket = "open"
    <3> TAKE i \in DOMAIN turns'
    <3> HAVE turns'[i] \in Conn
    <3>1. i \in DOMAIN conns /\ conns[i] = turns'[i]
      BY <1>7
    <3>2. conn[turns'[i]].socket = "open"
      BY <3>1 DEF WebInv, Listed, Among
    <3> QED
      BY <1>8, <3>2
  <2> QED
    BY <1>7, <2>1, <2>2, <2>3 DEF Listed
<1>12. Asked'
  <2>1. ASSUME NEW c \in Conn
        PROVE  conn'[c].is_closing => main' \in {"free", "exit"} \/ conn'[c].client = "gone"
    <3>1. conn[c].is_closing => conn[c].client = "gone"
      BY DEF WebInv, Asked
    <3>2. CASE c \in Opened
      BY <1>5, <3>1, <3>2
    <3>3. CASE c \notin Opened
      BY <1>4, <3>1, <3>3
    <3> QED
      BY <3>2, <3>3
  <2>2. ASSUME NEW c \in Conn, ~conn'[c].is_tls, conn'[c].socket = "open", conn'[c].client = "open",
               conn'[c].is_readable
        PROVE  conn'[c].in # <<>>
    <3>1. c \in Opened
      BY <1>3, <1>8, <2>2
    <3>2. Fine(conn'[c]) /\ conn'[c].rtls = <<>>
      BY <1>5, <2>2, <3>1 DEF Fine, Shaking
    <3> QED
      BY <1>5, <2>2, <3>1, <3>2 DEF SameData
  <2> QED
    BY <2>1, <2>2, Zenon DEF Asked
<1>13. Leaks'
  <2>1. AtClose' = AtClose
    BY <1>8 DEF AtClose
  <2> QED
    BY <2>1 DEF WebInv, Leaks
<1> QED
  BY <1>9, <1>10, <1>11, <1>12, <1>13 DEF WebInv

\* A pass begins.
LEMMA PollKeeps ==
  ASSUME WebInv, Poll \/ Free
  PROVE  WebInv'
<1>1. CASE Poll
  BY <1>1, IotestKeeps DEF Poll
<1>2. CASE Free
  <2>1. \A c \in Conn : AllClosing[c] = conn[c] \/ (c \in Opened /\ AllClosing[c] = Closing(conn[c], TRUE))
    BY DEF AllClosing, Closing
  <2> QED
    BY <1>2, <2>1, IotestKeeps DEF Free
<1> QED
  BY <1>1, <1>2

\* Removing one of a list without repetitions.
LEMMA Removed ==
  ASSUME NEW s \in Seq(Conn), NEW i \in DOMAIN s, Injective(s), NEW t, t = RemoveAt(s, i)
  PROVE  /\ t \in Seq(Conn) /\ Injective(t)
         /\ \A d \in Conn : Among(d, t) <=> Among(d, s) /\ d # s[i]
<1>1. Len(s) \in Nat /\ DOMAIN s = 1 .. Len(s) /\ i \in Nat /\ 1 <= i /\ i <= Len(s)
  OBVIOUS
<1> DEFINE a == SubSeq(s, 1, i - 1)
           b == SubSeq(s, i + 1, Len(s))
<1>2. /\ a \in Seq(Conn) /\ Len(a) = i - 1 /\ \A j \in 1 .. i - 1 : a[j] = s[j]
  <2>1. 1 \in Int /\ i - 1 \in Int /\ \A j \in 1 .. i - 1 : j \in 1 .. Len(s)
    BY <1>1
  <2> QED
    BY <1>1, <2>1, SubSeqProperties
<1>3. /\ b \in Seq(Conn) /\ Len(b) = Len(s) - i /\ \A j \in 1 .. Len(s) - i : b[j] = s[i + j]
  <2>1. i + 1 \in Int /\ Len(s) \in Int /\ \A j \in (i + 1) .. Len(s) : j \in 1 .. Len(s)
    BY <1>1
  <2> QED
    BY <1>1, <2>1, SubSeqProperties
<1>4. t = a \o b
  BY Zenon DEF RemoveAt
<1> HIDE DEF a, b, Injective
<1>5. /\ t \in Seq(Conn) /\ Len(t) = Len(s) - 1 /\ DOMAIN t = 1 .. Len(s) - 1
      /\ \A j \in 1 .. Len(s) - 1 : t[j] = IF j < i THEN s[j] ELSE s[j + 1]
  <2>1. /\ t \in Seq(Conn) /\ Len(t) = Len(a) + Len(b)
        /\ \A j \in 1 .. Len(a) + Len(b) : t[j] = IF j <= Len(a) THEN a[j] ELSE b[j - Len(a)]
    BY <1>2, <1>3, <1>4, ConcatProperties
  <2>2. Len(t) = Len(s) - 1 /\ Len(a) + Len(b) = Len(s) - 1
    BY <1>1, <1>2, <1>3, <2>1
  <2>3. DOMAIN t = 1 .. Len(s) - 1
    BY <2>1, <2>2, LenProperties
  <2>4. ASSUME NEW j \in 1 .. Len(s) - 1 PROVE t[j] = IF j < i THEN s[j] ELSE s[j + 1]
    <3>1. CASE j < i
      <4>1. j <= Len(a) /\ j \in 1 .. i - 1
        BY <1>1, <1>2, <3>1
      <4> QED
        BY <1>2, <2>1, <2>2, <3>1, <4>1
    <3>2. CASE ~(j < i)
      <4>1. /\ ~(j <= Len(a)) /\ j - Len(a) = j - i + 1 /\ j - i + 1 \in 1 .. Len(s) - i
            /\ i + (j - i + 1) = j + 1
        BY <1>1, <1>2, <3>2
      <4>2. t[j] = b[j - i + 1]
        BY <2>1, <2>2, <4>1
      <4>3. b[j - i + 1] = s[j + 1]
        BY <1>3, <4>1
      <4> QED
        BY <3>2, <4>2, <4>3
    <3> QED
      BY <3>1, <3>2
  <2> QED
    BY <2>1, <2>2, <2>3, <2>4
<1>6. \A x, y \in DOMAIN s : s[x] = s[y] => x = y
  BY DEF Injective
<1>7. Injective(t)
  <2> SUFFICES ASSUME NEW x \in DOMAIN t, NEW y \in DOMAIN t, t[x] = t[y] PROVE x = y
    BY DEF Injective
  <2> DEFINE X == IF x < i THEN x ELSE x + 1
             Y == IF y < i THEN y ELSE y + 1
  <2>1. X \in DOMAIN s /\ Y \in DOMAIN s /\ t[x] = s[X] /\ t[y] = s[Y]
    BY <1>1, <1>5
  <2>2. X = Y
    BY <1>6, <2>1, Zenon
  <2>3. x \in Nat /\ y \in Nat
    BY <1>1, <1>5
  <2> QED
    BY <1>1, <2>2, <2>3
<1>8. ASSUME NEW d \in Conn PROVE Among(d, t) <=> Among(d, s) /\ d # s[i]
  <2>1. ASSUME NEW x \in DOMAIN t, t[x] = d PROVE Among(d, s) /\ d # s[i]
    <3> DEFINE X == IF x < i THEN x ELSE x + 1
    <3>1. X \in DOMAIN s /\ d = s[X] /\ X # i
      BY <1>1, <1>5, <2>1
    <3> QED
      BY <1>6, <3>1 DEF Among
  <2>2. ASSUME NEW y \in DOMAIN s, s[y] = d, d # s[i] PROVE Among(d, t)
    <3>1. y # i
      BY <2>2
    <3>2. CASE y < i
      <4>1. y \in 1 .. Len(s) - 1 /\ t[y] = s[y]
        BY <1>1, <1>5, <3>2
      <4> QED
        BY <1>5, <2>2, <4>1 DEF Among
    <3>3. CASE y > i
      <4>1. y - 1 \in 1 .. Len(s) - 1 /\ ~(y - 1 < i) /\ y - 1 + 1 = y
        BY <1>1, <3>3
      <4>2. t[y - 1] = s[y]
        BY <1>5, <4>1
      <4> QED
        BY <1>5, <2>2, <4>1, <4>2 DEF Among
    <3> QED
      BY <1>1, <3>1, <3>2, <3>3
  <2> QED
    BY <2>1, <2>2 DEF Among
<1> QED
  BY <1>5, <1>7, <1>8

\* Adding to it one that is not there.
LEMMA AddedFirst ==
  ASSUME NEW s \in Seq(Conn), NEW c \in Conn, Injective(s), ~Among(c, s), NEW t, t = <<c>> \o s
  PROVE  /\ t \in Seq(Conn) /\ Injective(t)
         /\ \A d \in Conn : Among(d, t) <=> d = c \/ Among(d, s)
<1>1. /\ t \in Seq(Conn) /\ Len(s) \in Nat /\ DOMAIN s = 1 .. Len(s) /\ DOMAIN t = 1 .. Len(s) + 1
      /\ t[1] = c /\ \A i \in 1 .. Len(s) : t[i + 1] = s[i]
  OBVIOUS
<1>2. \A x \in DOMAIN t : x = 1 \/ (x - 1 \in DOMAIN s /\ t[x] = s[x - 1])
  <2> TAKE x \in DOMAIN t
  <2>1. x \in Nat /\ (x = 1 \/ (x - 1 \in 1 .. Len(s) /\ x - 1 + 1 = x))
    BY <1>1
  <2> QED
    BY <1>1, <2>1
<1>3. \A y \in DOMAIN s : y + 1 \in DOMAIN t /\ t[y + 1] = s[y]
  BY <1>1
<1>4. Injective(t)
  <2> SUFFICES ASSUME NEW x \in DOMAIN t, NEW y \in DOMAIN t, t[x] = t[y] PROVE x = y
    BY DEF Injective
  <2>1. \A z \in DOMAIN s : s[z] # c
    BY DEF Among
  <2>2. x \in Nat /\ y \in Nat
    BY <1>1
  <2>3. CASE x = 1
    BY <1>1, <1>2, <2>1, <2>3
  <2>4. CASE y = 1
    BY <1>1, <1>2, <2>1, <2>4
  <2>5. CASE x # 1 /\ y # 1
    <3>1. x - 1 = y - 1
      BY <1>2, <2>5 DEF Injective
    <3> QED
      BY <2>2, <3>1
  <2> QED
    BY <2>3, <2>4, <2>5
<1>5. \A d \in Conn : Among(d, t) <=> d = c \/ Among(d, s)
  <2> TAKE d \in Conn
  <2>1. ASSUME Among(d, t) PROVE d = c \/ Among(d, s)
    BY <1>1, <1>2, <2>1 DEF Among
  <2>2. 1 \in DOMAIN t
    BY <1>1
  <2>3. ASSUME d = c \/ Among(d, s) PROVE Among(d, t)
    BY <1>1, <1>3, <2>2, <2>3 DEF Among
  <2> QED
    BY <2>1, <2>3
<1> QED
  BY <1>1, <1>4, <1>5

\* The head of such a list does not come again.
LEMMA TurnTaken ==
  ASSUME NEW s \in Seq(Conn \cup {"http", "https"}), s # <<>>, Injective(s), NEW t, t = Tail(s)
  PROVE  /\ t \in Seq(Conn \cup {"http", "https"}) /\ Injective(t)
         /\ \A i \in DOMAIN t : t[i] # Head(s) /\ Among(t[i], s)
         /\ Among(Head(s), s)
<1>1. /\ t \in Seq(Conn \cup {"http", "https"}) /\ DOMAIN s = 1 .. Len(s) /\ Len(s) \in Nat \ {0}
      /\ DOMAIN t = 1 .. Len(s) - 1 /\ Head(s) = s[1]
      /\ \A i \in DOMAIN t : t[i] = s[i + 1]
  OBVIOUS
<1>2. \A i \in DOMAIN t : i \in Nat /\ i + 1 \in DOMAIN s /\ i + 1 # 1
  BY <1>1
<1>3. Injective(t)
  BY <1>1, <1>2 DEF Injective
<1>4. 1 \in DOMAIN s
  BY <1>1
<1>5. \A i \in DOMAIN t : t[i] # Head(s)
  BY <1>1, <1>2, <1>4 DEF Injective
<1>6. \A i \in DOMAIN t : Among(t[i], s)
  BY <1>1, <1>2 DEF Among
<1> QED
  BY <1>1, <1>3, <1>4, <1>5, <1>6 DEF Among

\* accept_conn.
LEMMA AcceptKeeps ==
  ASSUME WebInv, NEW c \in Conn, accept_conn(c)
  PROVE  WebInv'
<1> DEFINE k == conn[c]
           l == Accepted(k)
<1>1. /\ Visits(Port(c)) /\ k.socket = "backlog" /\ conns' = <<c>> \o conns /\ turns' = Tail(turns)
      /\ main' = main /\ icon' = icon /\ fds' = fds /\ signal' = signal
      /\ incoming' = incoming /\ leaked' = leaked
  BY DEF accept_conn
<1>2. conn \in [Conn -> Connection] /\ k \in Connection /\ ConnInv(k)
  BY DEF WebInv, WebTypeOK, AllFine
<1>3. conn' = [conn EXCEPT ![c] = l]
  <2>1. conn' = [conn EXCEPT ![c].socket = "open",
                             ![c].is_tls_hs = IF conn[c].is_tls THEN "start" ELSE "no"]
    BY DEF accept_conn
  <2>2. [conn EXCEPT ![c].socket = "open", ![c].is_tls_hs = IF conn[c].is_tls THEN "start" ELSE "no"]
          = [conn EXCEPT ![c] = [conn[c] EXCEPT !.socket = "open",
                                   !.is_tls_hs = IF conn[c].is_tls THEN "start" ELSE "no"]]
    BY <1>2
  <2> QED
    BY <2>1, <2>2, Zenon DEF Accepted
<1>4. Fine(k)
  BY <1>1, <1>2 DEF ConnInv, Live
<1> HIDE DEF k, l
<1>5. Fine(l) /\ l.socket = "open" /\ ~l.is_closing /\ ~l.is_readable
  BY <1>1, <1>4, AcceptedFine DEF l
<1>6. l \in Connection /\ ConnInv(l) /\ l.atClose = k.atClose
  BY <1>4, <1>5, FineInv
<1>7. conn'[c] = l /\ \A d \in Conn : d # c => conn'[d] = conn[d]
  BY <1>2, <1>3
<1>8. conns \in Seq(Conn) /\ Injective(conns) /\ ~Among(c, conns)
  BY <1>1 DEF WebInv, WebTypeOK, Listed, k
<1>9. /\ conns' \in Seq(Conn) /\ Injective(conns')
      /\ \A d \in Conn : Among(d, conns') <=> d = c \/ Among(d, conns)
  BY <1>1, <1>8, AddedFirst
<1>10. turns # <<>> /\ turns \in Seq(Conn \cup {"http", "https"}) /\ Injective(turns)
  BY <1>1 DEF WebInv, WebTypeOK, Listed, Visits
<1>11. /\ turns' \in Seq(Conn \cup {"http", "https"}) /\ Injective(turns')
       /\ \A i \in DOMAIN turns' : turns'[i] # Head(turns) /\ Among(turns'[i], turns)
  BY <1>1, <1>10, TurnTaken
<1>12. \A d \in Conn : Among(d, turns) => conn[d].socket = "open"
  BY DEF WebInv, Listed, Among
<1>13. WebTypeOK'
  <2>1. conn' \in [Conn -> Connection]
    BY <1>2, <1>3, <1>6
  <2> QED
    BY <1>1, <1>9, <1>11, <2>1 DEF WebInv, WebTypeOK
<1>14. AllFine'
  BY <1>6, <1>7 DEF WebInv, AllFine
<1>15. Listed'
  <2>1. \A d \in Conn : conn'[d].socket = "open" <=> Among(d, conns')
    BY <1>5, <1>7, <1>9 DEF WebInv, Listed
  <2>2. \A i \in DOMAIN turns' : turns'[i] \in Conn => conn'[turns'[i]].socket = "open"
    BY <1>5, <1>7, <1>11, <1>12
  <2>3. Injective(conns') /\ Injective(turns')
    BY <1>9, <1>11
  <2> QED
    BY <2>1, <2>2, <2>3 DEF Listed, Injective, Among
<1>16. Asked'
  <2>1. ASSUME NEW d \in Conn
        PROVE  conn'[d].is_closing => main' \in {"free", "exit"} \/ conn'[d].client = "gone"
    <3>1. conn[d].is_closing => main \in {"free", "exit"} \/ conn[d].client = "gone"
      BY DEF WebInv, Asked
    <3> QED
      BY <1>1, <1>5, <1>7, <3>1
  <2>2. ASSUME NEW d \in Conn, ~conn'[d].is_tls, conn'[d].socket = "open", conn'[d].client = "open",
               conn'[d].is_readable, Among(d, turns')
        PROVE  conn'[d].in # <<>>
    <3>1. d # c
      BY <1>5, <1>7, <2>2
    <3>2. Among(d, turns)
      BY <1>11, <2>2 DEF Among
    <3>3. conn'[d] = conn[d]
      BY <1>7, <3>1
    <3> QED
      BY <2>2, <3>2, <3>3 DEF WebInv, Asked
  <2> QED
    BY <2>1, <2>2 DEF Asked, Among
<1>17. Leaks'
  <2>1. \A d \in Conn : conn'[d].atClose = conn[d].atClose
    BY <1>6, <1>7 DEF k
  <2>2. AtClose' = AtClose
    BY <2>1 DEF AtClose
  <2> QED
    BY <1>1, <2>2 DEF WebInv, Leaks
<1> QED
  BY <1>13, <1>14, <1>15, <1>16, <1>17 DEF WebInv

\* What a turn starts from and what it comes to, where the connection stays open or not.
Visited(c, k) ==
    /\ Fine(conn[c]) /\ conn[c].socket = "open"
    /\ Fine(k) /\ LeftAlone(conn[c], k)
    /\ turns # <<>> /\ Head(turns) = c /\ turns' = Tail(turns)
    /\ main' = main /\ icon' = icon /\ fds' = fds /\ signal' = signal /\ incoming' = incoming

\* A turn visits an open connection, and what it comes to is fine.
LEMMA TurnVisits ==
  ASSUME WebInv, NEW c \in Conn, Turn(c)
  PROVE  \E n \in 0 .. Len(conn[c].in), reset \in BOOLEAN :
            LET k == Turned(c, n, reset)
            IN  Visited(c, k) /\ (StaysOpen(c, k) \/ close_conn(c, k))
<1>1. /\ turns # <<>> /\ Head(turns) = c /\ turns' = Tail(turns)
      /\ main' = main /\ icon' = icon /\ fds' = fds /\ signal' = signal /\ incoming' = incoming
  BY DEF Turn, Visits
<1>2. turns \in Seq(Conn \cup {"http", "https"}) /\ Injective(turns)
  BY DEF WebInv, WebTypeOK, Listed
<1>3. Among(c, turns)
  BY <1>1, <1>2, TurnTaken
<1>4. conn[c].socket = "open"
  BY <1>3 DEF WebInv, Listed, Among
<1>5. Fine(conn[c])
  BY <1>4 DEF WebInv, AllFine, ConnInv, Live
<1>6. PICK n \in 0 .. Len(conn[c].in), reset \in BOOLEAN :
         StaysOpen(c, Turned(c, n, reset)) \/ close_conn(c, Turned(c, n, reset))
  BY DEF Turn
<1> DEFINE k == Turned(c, n, reset)
<1>7. Fine(k) /\ LeftAlone(conn[c], k)
  BY <1>4, <1>5, TurnedFine
<1> HIDE DEF k
<1>8. Visited(c, k)
  BY <1>1, <1>4, <1>5, <1>7 DEF Visited
<1>9. StaysOpen(c, k) \/ close_conn(c, k)
  BY <1>6 DEF k
<1> QED
  BY <1>8, <1>9 DEF k

\* The turn of a connection that stays open.
LEMMA StaysOpenKeeps ==
  ASSUME WebInv, NEW c \in Conn, NEW k, Visited(c, k), StaysOpen(c, k)
  PROVE  WebInv'
<1>1. /\ conn' = [conn EXCEPT ![c] = k] /\ ~k.is_closing
      /\ conns' = conns /\ leaked' = leaked /\ turns' = Tail(turns)
      /\ main' = main /\ icon' = icon /\ fds' = fds /\ signal' = signal /\ incoming' = incoming
  BY DEF StaysOpen, Visited
<1>2. k \in Connection /\ ConnInv(k) /\ k.atClose = FALSE /\ conn[c].atClose = FALSE
      /\ k.socket = "open" /\ conn[c].socket = "open"
  BY FineInv DEF Visited, LeftAlone
<1>3. conn \in [Conn -> Connection]
  BY DEF WebInv, WebTypeOK
<1>4. conn'[c] = k /\ \A d \in Conn : d # c => conn'[d] = conn[d]
  BY <1>1, <1>3
<1>5. /\ turns' \in Seq(Conn \cup {"http", "https"}) /\ Injective(turns')
      /\ \A i \in DOMAIN turns' : turns'[i] # c /\ Among(turns'[i], turns)
  BY <1>1, TurnTaken DEF Visited, WebInv, WebTypeOK, Listed
<1>6. WebTypeOK'
  <2>1. conn' \in [Conn -> Connection]
    BY <1>1, <1>2, <1>3
  <2> QED
    BY <1>1, <1>5, <2>1 DEF WebInv, WebTypeOK
<1>7. AllFine'
  BY <1>2, <1>4 DEF WebInv, AllFine
<1>8. Listed'
  <2>1. \A d \in Conn : conn'[d].socket = "open" <=> conn[d].socket = "open"
    BY <1>2, <1>4
  <2>2. \A d \in Conn : Among(d, turns) => conn[d].socket = "open"
    BY DEF WebInv, Listed, Among
  <2>3. \A i \in DOMAIN turns' : turns'[i] \in Conn => conn'[turns'[i]].socket = "open"
    BY <1>5, <2>1, <2>2
  <2> QED
    BY <1>1, <1>5, <2>1, <2>3 DEF WebInv, Listed, Injective, Among
<1>9. Asked'
  <2>1. ASSUME NEW d \in Conn
        PROVE  conn'[d].is_closing => main' \in {"free", "exit"} \/ conn'[d].client = "gone"
    <3>1. conn[d].is_closing => main \in {"free", "exit"} \/ conn[d].client = "gone"
      BY DEF WebInv, Asked
    <3> QED
      BY <1>1, <1>4, <3>1
  <2>2. ASSUME NEW d \in Conn, ~conn'[d].is_tls, conn'[d].socket = "open", conn'[d].client = "open",
               conn'[d].is_readable, Among(d, turns')
        PROVE  conn'[d].in # <<>>
    <3>1. d # c /\ Among(d, turns)
      BY <1>5, <2>2 DEF Among
    <3>2. conn'[d] = conn[d]
      BY <1>4, <3>1
    <3> QED
      BY <2>2, <3>1, <3>2 DEF WebInv, Asked
  <2> QED
    BY <2>1, <2>2 DEF Asked, Among
<1>10. Leaks'
  <2>1. \A d \in Conn : conn'[d].atClose = conn[d].atClose
    BY <1>2, <1>4
  <2>2. AtClose' = AtClose
    BY <2>1 DEF AtClose
  <2> QED
    BY <1>1, <2>2 DEF WebInv, Leaks
<1> QED
  BY <1>6, <1>7, <1>8, <1>9, <1>10 DEF WebInv

\* close_conn: what the connection was, and what is left of it.
Closes(c, k, out, b) ==
    /\ out \in {k.out, <<>>} /\ b \in BOOLEAN
    /\ k.in = <<>> => out = k.out
    /\ conn' = [conn EXCEPT ![c] = Gone(k, out, b)]
    /\ conns' = RemoveAt(conns, CHOOSE i \in DOMAIN conns : conns[i] = c)
    /\ leaked' = leaked \/ (leaked' = leaked + 1 /\ b)

\* close_conn, and the file that may be lost.
LEMMA CloseConn ==
  ASSUME WebInv, NEW c \in Conn, NEW k, Fine(k), close_conn(c, k)
  PROVE  k.is_closing /\ \E out, b : Closes(c, k, out, b)
<1> DEFINE last == CloseEvent(c, k)
           b == last.atClose
<1>1. last \in Connection /\ (Streaming(last) => last.atClose)
  <2>1. OpenedAtClose(last)
    BY CloseEventLeaves
  <2> HIDE DEF last
  <2> QED
    BY <2>1 DEF OpenedAtClose
<1>2. b \in BOOLEAN
  <2> HIDE DEF last
  <2> QED
    BY <1>1 DEF Connection
<1>3. /\ k.is_closing
      /\ \E out \in IF k.in = <<>> THEN {k.out} ELSE {k.out, <<>>} :
            conn' = [conn EXCEPT ![c] = Gone(k, out, b)]
      /\ conns' = RemoveAt(conns, CHOOSE i \in DOMAIN conns : conns[i] = c)
      /\ leaked' = leaked + (IF Streaming(last) THEN 1 ELSE 0)
  BY Zenon DEF close_conn, Gone
<1> HIDE DEF last, b
<1>4. leaked' = leaked \/ (leaked' = leaked + 1 /\ b)
  <2>1. leaked \in Nat
    BY DEF WebInv, WebTypeOK
  <2>2. CASE Streaming(last)
    BY <1>1, <1>3, <2>1, <2>2 DEF b
  <2>3. CASE ~Streaming(last)
    BY <1>3, <2>1, <2>3
  <2> QED
    BY <2>2, <2>3
<1>5. PICK out \in IF k.in = <<>> THEN {k.out} ELSE {k.out, <<>>} :
         conn' = [conn EXCEPT ![c] = Gone(k, out, b)]
  BY <1>3
<1>6. out \in {k.out, <<>>} /\ (k.in = <<>> => out = k.out)
  BY <1>5
<1>7. Closes(c, k, out, b)
  BY <1>2, <1>3, <1>4, <1>5, <1>6, Zenon DEF Closes
<1> QED
  BY <1>3, <1>7

\* The turn of a connection that is closed.
LEMMA CloseKeeps ==
  ASSUME WebInv, NEW c \in Conn, NEW k, Visited(c, k), NEW out, NEW b, Closes(c, k, out, b)
  PROVE  WebInv'
<1> DEFINE l == Gone(k, out, b)
           i == CHOOSE j \in DOMAIN conns : conns[j] = c
<1>1. /\ conn' = [conn EXCEPT ![c] = l] /\ conns' = RemoveAt(conns, i) /\ turns' = Tail(turns)
      /\ main' = main /\ icon' = icon /\ fds' = fds /\ signal' = signal /\ incoming' = incoming
  BY Zenon DEF Closes, Visited
<1>2. /\ l \in Connection /\ ConnInv(l) /\ l.socket = "closed" /\ ~l.is_closing /\ l.atClose = b
  <2>1. out \in {k.out, <<>>} /\ b \in BOOLEAN /\ Fine(k)
    BY DEF Closes, Visited
  <2> QED
    BY <2>1, GoneSettled
<1>3. i \in DOMAIN conns /\ conns[i] = c
  <2>1. \E j \in DOMAIN conns : conns[j] = c
    BY DEF WebInv, Listed, Visited, Among
  <2> QED
    BY <2>1
<1> HIDE DEF l, i
<1>4. conn \in [Conn -> Connection]
  BY DEF WebInv, WebTypeOK
<1>5. conn'[c] = l /\ \A d \in Conn : d # c => conn'[d] = conn[d]
  BY <1>1, <1>4
<1>6. /\ conns' \in Seq(Conn) /\ Injective(conns')
      /\ \A d \in Conn : Among(d, conns') <=> Among(d, conns) /\ d # c
  <2>1. conns \in Seq(Conn) /\ Injective(conns)
    BY DEF WebInv, WebTypeOK, Listed
  <2>2. /\ conns' \in Seq(Conn) /\ Injective(conns')
        /\ \A d \in Conn : Among(d, conns') <=> Among(d, conns) /\ d # conns[i]
    BY <1>1, <1>3, <2>1, Removed
  <2> QED
    BY <1>3, <2>2
<1>7. /\ turns' \in Seq(Conn \cup {"http", "https"}) /\ Injective(turns')
      /\ \A j \in DOMAIN turns' : turns'[j] # c /\ Among(turns'[j], turns)
  BY <1>1, TurnTaken DEF Visited, WebInv, WebTypeOK, Listed
<1>8. leaked \in Nat /\ leaked' \in Nat
  BY DEF WebInv, WebTypeOK, Closes
<1>9. WebTypeOK'
  <2>1. conn' \in [Conn -> Connection]
    BY <1>1, <1>2, <1>4
  <2> QED
    BY <1>1, <1>6, <1>7, <1>8, <2>1 DEF WebInv, WebTypeOK
<1>10. AllFine'
  BY <1>2, <1>5 DEF WebInv, AllFine
<1>11. Listed'
  <2>1. \A d \in Conn : conn'[d].socket = "open" <=> Among(d, conns')
    BY <1>2, <1>5, <1>6 DEF WebInv, Listed
  <2>2. \A d \in Conn : Among(d, turns) => conn[d].socket = "open"
    BY DEF WebInv, Listed, Among
  <2>3. \A j \in DOMAIN turns' : turns'[j] \in Conn => conn'[turns'[j]].socket = "open"
    BY <1>5, <1>7, <2>2
  <2> QED
    BY <1>6, <1>7, <2>1, <2>3 DEF Listed, Injective, Among
<1>12. Asked'
  <2>1. ASSUME NEW d \in Conn
        PROVE  conn'[d].is_closing => main' \in {"free", "exit"} \/ conn'[d].client = "gone"
    <3>1. conn[d].is_closing => main \in {"free", "exit"} \/ conn[d].client = "gone"
      BY DEF WebInv, Asked
    <3> QED
      BY <1>1, <1>2, <1>5, <3>1
  <2>2. ASSUME NEW d \in Conn, ~conn'[d].is_tls, conn'[d].socket = "open", conn'[d].client = "open",
               conn'[d].is_readable, Among(d, turns')
        PROVE  conn'[d].in # <<>>
    <3>1. d # c /\ Among(d, turns)
      BY <1>7, <2>2 DEF Among
    <3>2. conn'[d] = conn[d]
      BY <1>5, <3>1
    <3> QED
      BY <2>2, <3>1, <3>2 DEF WebInv, Asked
  <2> QED
    BY <2>1, <2>2 DEF Asked, Among
<1>13. Leaks'
  <2>1. conn[c].atClose = FALSE
    BY FineInv DEF Visited
  <2>2. IsFiniteSet(AtClose) /\ leaked <= Cardinality(AtClose) /\ c \notin AtClose
    BY <2>1 DEF WebInv, Leaks, AtClose
  <2>3. Cardinality(AtClose) \in Nat
    BY <2>2, FS_CardinalityType
  <2>4. CASE b
    <3>1. AtClose' = AtClose \cup {c}
      BY <1>2, <1>5, <2>4 DEF AtClose
    <3>2. IsFiniteSet(AtClose') /\ Cardinality(AtClose') = Cardinality(AtClose) + 1
      BY <2>2, <3>1, FS_AddElement
    <3>3. leaked' <= Cardinality(AtClose')
      BY <1>8, <2>2, <2>3, <3>2 DEF Closes
    <3> QED
      BY <3>2, <3>3 DEF Leaks
  <2>5. CASE ~b
    <3>1. b = FALSE
      BY <2>5 DEF Closes
    <3>2. AtClose' = AtClose
      BY <1>2, <1>5, <2>1, <3>1 DEF AtClose
    <3>3. leaked' = leaked
      BY <3>1 DEF Closes
    <3> QED
      BY <2>2, <3>2, <3>3 DEF Leaks
  <2> QED
    BY <2>4, <2>5
<1> QED
  BY <1>9, <1>10, <1>11, <1>12, <1>13 DEF WebInv

-----------------------------------------------------------------------------
(* What the invariant says.                                                *)

\* Turn.
LEMMA TurnKeeps ==
  ASSUME WebInv, NEW c \in Conn, Turn(c)
  PROVE  WebInv'
<1>1. PICK n \in 0 .. Len(conn[c].in), reset \in BOOLEAN :
         Visited(c, Turned(c, n, reset))
         /\ (StaysOpen(c, Turned(c, n, reset)) \/ close_conn(c, Turned(c, n, reset)))
  BY TurnVisits
<1> DEFINE k == Turned(c, n, reset)
<1>2. Visited(c, k) /\ (StaysOpen(c, k) \/ close_conn(c, k))
  BY <1>1
<1> HIDE DEF k
<1>3. CASE StaysOpen(c, k)
  BY <1>2, <1>3, StaysOpenKeeps
<1>4. CASE close_conn(c, k)
  <2>1. PICK out, b : Closes(c, k, out, b)
    BY <1>2, <1>4, CloseConn DEF Visited
  <2> QED
    BY <1>2, <2>1, CloseKeeps
<1> QED
  BY <1>2, <1>3, <1>4

\* Every step keeps the invariant.
LEMMA WebInvStep ==
  WebInv /\ [WebNext]_webVars => WebInv'
<1> SUFFICES ASSUME WebInv, [WebNext]_webVars PROVE WebInv'
  OBVIOUS
<1>1. CASE Listen \/ FailsToStart \/ Signal \/ PassEnds
  BY <1>1, MainKeeps
<1>2. CASE Poll \/ Free
  BY <1>2, PollKeeps
<1>3. ASSUME NEW c \in Conn, Turn(c) PROVE WebInv'
  BY <1>3, TurnKeeps
<1>4. ASSUME NEW c \in Conn, accept_conn(c) PROVE WebInv'
  BY <1>4, AcceptKeeps
<1>5. ASSUME NEW who, AcceptsNone(who) PROVE WebInv'
  BY <1>5, AcceptsNoneKeeps
<1>6. ASSUME NEW c \in Conn, ClientSteps(c) PROVE WebInv'
  BY <1>6, ClientStepsKeep
<1>7. CASE UNCHANGED webVars
  BY <1>7 DEF webVars, WebInv, WebTypeOK, AllFine, Listed, Asked, Leaks, Injective, Among, AtClose
<1> QED
  BY <1>1, <1>2, <1>3, <1>4, <1>5, <1>6, <1>7, Zenon DEF WebNext, Server

\* The inductive invariant holds in all states.
THEOREM WebInvariant ==
  WebSpec => []WebInv
<1> QED
  BY WebInvInit, WebInvStep, PTL DEF WebSpec

\* main, the lists of mg_mgr, the connections with their buffers and queues, and the count
\* of files nobody closes keep their types.
THEOREM WebTypes ==
  WebSpec => []WebTypeOK
<1>1. WebInv => WebTypeOK
  BY DEF WebInv
<1> QED
  BY <1>1, WebInvariant, PTL

\* Of every connection, whatever became of it.
LEMMA AnswersOfEach ==
  ASSUME NEW k, ConnInv(k)
  PROVE  InOrder(k, Stream(k)) /\ WellFramed(Stream(k))
<1>1. k.socket \in {"none", "backlog", "open", "closed"}
  BY DEF ConnInv, Connection
<1>2. CASE k.socket = "none"
  <2>1. k = Fresh
    BY <1>2 DEF ConnInv
  <2>2. Stream(Fresh) = <<>>
    <3>1. Fresh.got = <<>> /\ Fresh.out = <<>> /\ Fresh.tlsSend = <<>> /\ Fresh.send = <<>>
      BY DEF Fresh
    <3>2. Stream(Fresh) = <<>> \o <<>> \o <<>> \o <<>>
      BY <3>1, Zenon DEF Stream, Delivered
    <3> QED
      BY <3>2
  <2>3. Stream(k) = <<>>
    BY <2>1, <2>2, Zenon
  <2> DEFINE s == Stream(k)
  <2>4. DOMAIN s = {} /\ Headers(s) = {}
    BY <2>3 DEF Headers
  <2> HIDE DEF s
  <2>5. InOrder(k, s) /\ WellFramed(s)
    BY <2>4 DEF InOrder, WellFramed
  <2> QED
    BY <2>5 DEF s
<1>3. CASE k.socket = "closed"
  BY <1>3 DEF ConnInv, Settled
<1>4. CASE k.socket \in {"backlog", "open"}
  BY <1>4 DEF ConnInv, Live, Fine
<1> QED
  BY <1>1, <1>2, <1>3, <1>4

\* Whatever http_cb, static_cb and the buffers do with pipelined requests, for any talks of
\* any clients: the stream of each connection has the answers in the order of the requests,
\* and passes over none but those dropped as malformed.
THEOREM AnswersKeepOrder ==
  WebSpec => []AnswersInOrder
<1>1. WebInv => AnswersInOrder
  <2> SUFFICES ASSUME WebInv, NEW c \in Conn
               PROVE  LET s == Stream(conn[c])
                      IN  /\ \A h, i \in Headers(s) : h < i => s[h].id < s[i].id
                          /\ \A i \in Headers(s) : \A m \in 1 .. s[i].id :
                                (\E h \in Headers(s) : s[h].id = m) \/ Malforms(conn[c], m)
    BY Zenon DEF AnswersInOrder
  <2> DEFINE s == Stream(conn[c])
  <2>1. InOrder(conn[c], s)
    BY AnswersOfEach DEF WebInv, AllFine
  <2> HIDE DEF s
  <2>2. /\ \A h, i \in Headers(s) : h < i => s[h].id < s[i].id
        /\ \A i \in Headers(s) : \A m \in 1 .. s[i].id :
              (\E h \in Headers(s) : s[h].id = m) \/ Malforms(conn[c], m)
    BY <2>1 DEF InOrder, HasHeader
  <2> QED
    BY <2>2 DEF s
<1> QED
  BY <1>1, WebInvariant, PTL

\* The stream of each connection is headers with as many units of body as they announce,
\* and of the last answer static_cb has to stream what is not written yet.
THEOREM AnswersFramed ==
  WebSpec => []Framed
<1>1. WebInv => Framed
  <2> SUFFICES ASSUME WebInv, NEW c \in Conn
               PROVE  LET k == conn[c]
                          s == Stream(k)
                      IN  /\ \A j \in DOMAIN s : s[j] = Flight => j = 1
                          /\ \A j \in DOMAIN s :
                                s[j] = Body => \E h \in Headers(s) : h < j /\ j <= Ends(s, h)
                          /\ \A h, i \in Headers(s) : h < i => Ends(s, h) < i
                          /\ k.socket = "open" =>
                                \A h \in Headers(s) :
                                    Ends(s, h) >= Len(s) =>
                                        Ends(s, h) - Len(s) = IF Streaming(k) THEN k.file ELSE 0
    BY Zenon DEF Framed
  <2> DEFINE k == conn[c]
             s == Stream(k)
  <2>1. ConnInv(k)
    BY DEF WebInv, AllFine
  <2>2. WellFramed(s)
    BY <2>1, AnswersOfEach
  <2>3. k.socket = "open" => Owes(s, Rest(k))
    BY <2>1 DEF ConnInv, Live, Fine
  <2> HIDE DEF s, k
  <2>4. /\ \A j \in DOMAIN s : s[j] = Flight => j = 1
        /\ \A j \in DOMAIN s : s[j] = Body => \E h \in Headers(s) : h < j /\ j <= Ends(s, h)
        /\ \A h, i \in Headers(s) : h < i => Ends(s, h) < i
    BY <2>2 DEF WellFramed
  <2>5. k.socket = "open" =>
            \A h \in Headers(s) :
                Ends(s, h) >= Len(s) => Ends(s, h) - Len(s) = IF Streaming(k) THEN k.file ELSE 0
    BY <2>3 DEF Owes, Rest
  <2> QED
    BY <2>4, <2>5, Zenon DEF s, k
<1> QED
  BY <1>1, WebInvariant, PTL

\* Only an open connection with an answer under way has a file, and there are no more files
\* left open than connections on which http_cb handled a request on MG_EV_CLOSE.
THEOREM FilesAreClosed ==
  WebSpec => []FilesClosed
<1>1. WebInv => FilesClosed
  <2> SUFFICES ASSUME WebInv PROVE FilesClosed
    OBVIOUS
  <2>1. ASSUME NEW c \in Conn, Streaming(conn[c]) PROVE conn[c].socket = "open" /\ conn[c].is_resp
    <3> DEFINE k == conn[c]
    <3>1. ConnInv(k) /\ Streaming(k)
      BY <2>1 DEF WebInv, AllFine
    <3>2. k.socket \in {"none", "backlog", "open", "closed"}
      BY <3>1 DEF ConnInv, Connection
    <3>3. ~Streaming(Fresh)
      BY DEF Fresh, Streaming
    <3> HIDE DEF k
    <3>4. Live(k)
      BY <3>1, <3>2, <3>3 DEF ConnInv, Settled, Live
    <3> QED
      BY <3>1, <3>4 DEF ConnInv, Fine, k
  <2>2. leaked <= Cardinality({c \in Conn : conn[c].atClose})
    BY DEF WebInv, Leaks, AtClose
  <2> QED
    BY <2>1, <2>2 DEF FilesClosed
<1> QED
  BY <1>1, WebInvariant, PTL

\* A connection that was drained has all its data with the client, or on its way to it.
LEMMA DrainedWhole ==
  ASSUME NEW k, Fine(k), ~k.is_tls, k.is_draining, k.send = <<>>
  PROVE  \E i \in DOMAIN k.sent :
            /\ k.sent[i] \in {"bad", "close"}
            /\ \A j \in 1 .. i : k.sent[j] = "bad" \/ AnsweredTo(Delivered(k), j)
<1>1. k \in Connection /\ k.tlsSend = <<>> /\ Drains(k, Stream(k))
  BY DEF Fine, Shaking
<1>2. k.got \o k.out \in Seq(Unit)
  BY <1>1, Queues
<1> DEFINE t == k.got \o k.out
<1>3. Delivered(k) = t /\ Stream(k) = t \o <<>> \o <<>>
  BY <1>1, Zenon DEF Delivered, Stream
<1>4. t \in Seq(Unit)
  BY <1>2
<1> HIDE DEF t
<1>5. t \o <<>> = t
  BY <1>4, ConcatEmptySeq
<1>6. Stream(k) = Delivered(k)
  BY <1>3, <1>5, Zenon
<1>7. Drains(k, Delivered(k))
  BY <1>1, <1>6, Zenon
<1> QED
  BY <1>7, Zenon DEF Drains

\* A turn that closes a connection of a client that is there, all of whose requests were
\* read, found it drained.
LEMMA TurnDrains ==
  ASSUME WebInv, NEW c \in Conn, Turn(c), ~conn[c].is_tls, ClosedByServer(c)
  PROVE  Drained(c)
<1>1. /\ main = "pass" /\ conn'[c].socket = "closed" /\ conn[c].client = "open"
      /\ conn[c].in = <<>> /\ "badchunk" \notin Range(conn[c].sent)
  BY DEF ClosedByServer
<1>2. PICK n \in 0 .. Len(conn[c].in), reset \in BOOLEAN :
         Visited(c, Turned(c, n, reset))
         /\ (StaysOpen(c, Turned(c, n, reset)) \/ close_conn(c, Turned(c, n, reset)))
  BY TurnVisits
<1> DEFINE k == Turned(c, n, reset)
<1>3. Fine(conn[c]) /\ conn[c].socket = "open" /\ Head(turns) = c /\ turns # <<>>
  BY <1>2 DEF Visited
<1>4. /\ Fine(k) /\ LeftAlone(conn[c], k)
      /\ k.is_closing /\ ~conn[c].is_readable =>
            \/ conn[c].is_closing \/ conn[c].client = "gone" \/ "badchunk" \in Range(conn[c].sent)
            \/ k.is_draining /\ k.send = <<>>
  BY <1>3, TurnedFine
<1>5. StaysOpen(c, k) \/ close_conn(c, k)
  BY <1>2
<1> HIDE DEF k
<1>6. conn \in [Conn -> Connection]
  BY DEF WebInv, WebTypeOK
<1>7. close_conn(c, k)
  <2> SUFFICES ASSUME StaysOpen(c, k) PROVE FALSE
    BY <1>5
  <2>1. conn'[c] = k
    BY <1>6 DEF StaysOpen
  <2> QED
    BY <1>1, <1>3, <1>4, <2>1 DEF LeftAlone
<1>8. Among(c, turns)
  <2>1. turns \in Seq(Conn \cup {"http", "https"}) /\ Injective(turns)
    BY DEF WebInv, WebTypeOK, Listed
  <2> QED
    BY <1>3, <2>1, TurnTaken
<1>9. ~conn[c].is_readable /\ ~conn[c].is_closing
  BY <1>1, <1>3, <1>8 DEF WebInv, Asked
<1>10. k.is_closing /\ \E out, b : Closes(c, k, out, b)
  BY <1>4, <1>7, CloseConn
<1>11. k.is_draining /\ k.send = <<>>
  BY <1>1, <1>4, <1>9, <1>10
<1>12. ~k.is_tls /\ k.sent = conn[c].sent /\ k.in = <<>>
  BY <1>1, <1>4 DEF LeftAlone
<1>13. PICK out, b : Closes(c, k, out, b)
  BY <1>10
<1> DEFINE l == Gone(k, out, b)
<1>14. l.got = k.got /\ l.out = k.out /\ l \in Connection
  <2>1. out \in {k.out, <<>>} /\ b \in BOOLEAN /\ out = k.out
    BY <1>12, <1>13 DEF Closes
  <2> QED
    BY <1>4, <2>1, GoneSettled
<1>15. conn' = [conn EXCEPT ![c] = l]
  BY <1>13 DEF Closes
<1> HIDE DEF l
<1>16. conn'[c] = l
  BY <1>6, <1>15
<1>17. Delivered(conn'[c]) = Delivered(k)
  BY <1>14, <1>16, Zenon DEF Delivered
<1>18. \E i \in DOMAIN k.sent :
          /\ k.sent[i] \in {"bad", "close"}
          /\ \A j \in 1 .. i : k.sent[j] = "bad" \/ AnsweredTo(Delivered(k), j)
  BY <1>4, <1>11, <1>12, DrainedWhole
<1> QED
  BY <1>12, <1>17, <1>18, Zenon DEF Drained

\* Without TLS the server closes a connection its client has not left only when every request
\* up to the one that closes it was answered in whole, and all of it went to the socket.
THEOREM DrainsBeforeClosing ==
  WebSpec => DrainsFirst
<1>1. WebInv /\ [WebNext]_webVars =>
          [\A c \in Conn : ~conn[c].is_tls /\ ClosedByServer(c) => Drained(c)]_webVars
  <2> SUFFICES ASSUME WebInv, WebNext, NEW c \in Conn, ~conn[c].is_tls, ClosedByServer(c)
               PROVE  Drained(c)
    BY Zenon
  <2>1. conn[c].socket = "open" /\ conn'[c].socket = "closed"
    BY DEF ClosedByServer
  <2>2. Among(c, conns) /\ ~Among(c, conns')
    <3>1. WebInv'
      BY WebInvStep, Zenon
    <3>2. conn'[c].socket = "open" <=> Among(c, conns')
      BY <3>1 DEF WebInv, Listed, Among
    <3> QED
      BY <2>1, <3>2 DEF WebInv, Listed
  <2>3. conns' # conns
    BY <2>2
  <2>4. ASSUME NEW d \in Conn, accept_conn(d) PROVE FALSE
    <3>1. conn \in [Conn -> Connection] /\ conn[d].socket = "backlog"
      BY <2>4 DEF WebInv, WebTypeOK, accept_conn
    <3>2. d # c
      BY <2>1, <3>1
    <3>3. conn'[c] = conn[c]
      BY <2>4, <3>1, <3>2 DEF accept_conn
    <3> QED
      BY <2>1, <3>3
  <2>5. ASSUME NEW d \in Conn, Turn(d), d # c PROVE FALSE
    <3>1. PICK k : StaysOpen(d, k) \/ close_conn(d, k)
      BY <2>5 DEF Turn
    <3>2. conn \in [Conn -> Connection]
      BY DEF WebInv, WebTypeOK
    <3>3. \E l : conn' = [conn EXCEPT ![d] = l]
      BY <3>1, Zenon DEF StaysOpen, close_conn
    <3>4. conn'[c] = conn[c]
      BY <2>5, <3>2, <3>3
    <3> QED
      BY <2>1, <3>4
  <2>6. ASSUME NEW d \in Conn, ClientSteps(d) PROVE FALSE
    <3>1. conns' = conns
      BY <2>6 DEF ClientSteps, Connects, SendsRest, Reads, ShutsDown, Leaves, SendsRequest, Client
    <3> QED
      BY <2>3, <3>1
  <2>7. ASSUME Listen \/ FailsToStart \/ Signal \/ PassEnds \/ Poll \/ Free \/ \E who : AcceptsNone(who)
        PROVE  FALSE
    <3>1. conns' = conns
      BY <2>7 DEF Listen, FailsToStart, Signal, PassEnds, Poll, Free, AcceptsNone
    <3> QED
      BY <2>3, <3>1
  <2>8. Turn(c)
    BY <2>4, <2>5, <2>6, <2>7, Zenon DEF WebNext, Server
  <2> QED
    BY <2>8, TurnDrains
<1> QED
  BY <1>1, WebInvariant, PTL DEF WebSpec, DrainsFirst
==============================================================================
