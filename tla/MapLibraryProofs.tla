--------------------------- MODULE MapLibraryProofs ---------------------------
(***************************************************************************)
(* For any number of players and of changes to the library: the types, and *)
(* what the manifest cache promises; and for one copy of the launcher per  *)
(* folder, with any number of failures, that what it publishes is whole    *)
(* and that it leaves the player's files alone.                            *)
(***************************************************************************)
EXTENDS MapLibrary, FiniteSetTheorems, TLAPS

\* Keys are of libraries there have been, so none is that of a library to come.
Requests == [at : {"none", "key", "lock", "scan", "sum"}, key : 0..changes]
KeysAreOld ==
  /\ changes \in 0..Changes /\ library \in 0..changes
  /\ cache.key \in 0..changes
  /\ cache = NoManifest \/ cache.lists \in 0..Changes
  /\ request \in [Clients -> Requests]

Daemon == KeysAreOld /\ ListedAsIs
-----------------------------------------------------------------------------
(* The cache. *)

\* A handler's step, whichever it is, changes its own request, and caches what it found.
HandlerStep(c) ==
  /\ UNCHANGED <<library, changes>>
  /\ \E r \in Requests : request' = [request EXCEPT ![c] = r]
  /\ UNCHANGED cache \/ cache' = [key |-> request[c].key, lists |-> library]

\* All of manifestCache.get, and the requests that start it, are such steps.
LEMMA HandlerSteps ==
  ASSUME Daemon, NEW c \in Clients,
         Serves(c) \/ OtherAsks(c) \/ (c \in Copies /\ Ask(c))
  PROVE  HandlerStep(c)
<1> USE DEF Daemon, KeysAreOld, Handles, HandlerStep, world
<1>1. /\ request[c] \in Requests /\ library \in 0..changes /\ changes \in Nat
      /\ request[c].key \in 0..changes
  BY LibraryAssumption DEF LibraryAssumption, Requests
<1>2. /\ \A k \in 0..changes, at \in {"none", "key", "lock", "scan", "sum"} :
           [at |-> at, key |-> k] \in Requests
      /\ \A at \in {"none", "key", "lock", "scan", "sum"} : [request[c] EXCEPT !.at = at] \in Requests
      /\ NoRequest \in Requests /\ 0 \in 0..changes
  BY <1>1 DEF Requests, NoRequest, Absent
<1> HIDE DEF Requests
<1>3. CASE ReadKey(c)
  BY <1>1, <1>2, <1>3 DEF ReadKey, libraryKey
<1>4. CASE Hit(c)
  BY <1>2, <1>4 DEF Hit
<1>5. CASE Miss(c)
  BY <1>2, <1>5 DEF Miss
<1>6. CASE List(c)
  BY <1>2, <1>6 DEF List, Stores
<1>7. CASE Sum(c)
  BY <1>2, <1>7 DEF Sum, Stores
<1>8. CASE OtherAsks(c)
  BY <1>2, <1>8 DEF OtherAsks, Absent
<1>9. CASE c \in Copies /\ Ask(c)
  BY <1>2, <1>9 DEF Ask, Quiet, Absent
<1> QED
  BY <1>3, <1>4, <1>5, <1>6, <1>7, <1>8, <1>9 DEF Serves

\* Every step of the daemon, the operator and the launchers keeps the cache right.
LEMMA DaemonStep == Daemon /\ [Next]_vars => Daemon'
<1> SUFFICES ASSUME Daemon, [Next]_vars PROVE Daemon'
  OBVIOUS
<1> USE LibraryAssumption DEF LibraryAssumption, Absent
<1>1. /\ changes \in Nat /\ library \in 0..changes /\ cache.key \in 0..changes
      /\ library # 0 /\ cache # NoManifest /\ cache.key = library => cache.lists = library
  BY DEF Daemon, KeysAreOld, ListedAsIs, libraryKey
<1>2. ASSUME UNCHANGED <<library, changes, cache, request>>
      PROVE  Daemon'
  BY <1>2 DEF Daemon, KeysAreOld, ListedAsIs, libraryKey, Requests
<1>3. ASSUME NEW c \in Clients, HandlerStep(c)
      PROVE  Daemon'
  <2>1. UNCHANGED <<library, changes>> /\ Requests' = Requests
    BY <1>3 DEF HandlerStep, Requests
  <2>2. request' \in [Clients -> Requests]
    BY <1>3 DEF HandlerStep, Daemon, KeysAreOld
  <2>3. request[c].key \in 0..changes
    BY DEF Daemon, KeysAreOld, Requests
  <2>4. cache'.key \in 0..changes /\ (cache' = NoManifest \/ cache'.lists \in 0..Changes)
    BY <1>1, <1>3, <2>3 DEF HandlerStep, Daemon, KeysAreOld
  <2>5. ListedAsIs'
    BY <1>1, <1>3, <2>1 DEF HandlerStep, ListedAsIs, libraryKey
  <2> QED
    BY <2>1, <2>2, <2>4, <2>5 DEF Daemon, KeysAreOld
<1>4. CASE OperatorActs
  <2>1. changes' = changes + 1 /\ changes' \in 0..Changes /\ library' \in {0, changes + 1}
        /\ UNCHANGED <<cache, request>>
    BY <1>1, <1>4 DEF OperatorActs, daemon
  <2>2. \A n \in 0..changes : n \in 0..changes'
    BY <1>1, <2>1
  <2>3. request' \in [Clients -> Requests']
    BY <2>1, <2>2 DEF Daemon, KeysAreOld, Requests
  <2>4. KeysAreOld'
    BY <1>1, <2>1, <2>2, <2>3 DEF Daemon, KeysAreOld
  <2>5. ListedAsIs'
    BY <1>1, <2>1 DEF ListedAsIs, libraryKey
  <2> QED
    BY <2>4, <2>5 DEF Daemon
<1>5. ASSUME NEW l \in Copies,
             NetworkFails(l) \/ Fetches(l) \/ Publishes(l) \/ WriteFails(l) \/ Crash(l)
      PROVE  UNCHANGED <<library, changes, cache, request>>
  BY <1>5 DEF NetworkFails, Fetches, Look, Get, Publishes, ClearPart, OpenPart, Write, Link, Stat,
              Rename, Tidy, WriteFails, Crash, Writes, Stops, Quiet, Upset, world
<1>6. CASE PlayerActs \/ UNCHANGED vars
  BY <1>2, <1>6 DEF PlayerActs, Upset, world, daemon, vars
<1> QED
  BY <1>2, <1>3, <1>4, <1>5, <1>6, HandlerSteps DEF Next, Clients

\* The daemon starts without a manifest.
LEMMA DaemonInit == Init => Daemon
<1> SUFFICES ASSUME Init PROVE Daemon
  OBVIOUS
<1> USE LibraryAssumption DEF LibraryAssumption, Init, Absent
<1>1. /\ changes \in 0..Changes /\ library \in 0..changes /\ cache = NoManifest
      /\ NoManifest.key = 0 /\ 0 \in 0..changes
  BY DEF NoManifest
<1>2. NoRequest \in Requests
  BY <1>1 DEF NoRequest, Requests
<1>3. request \in [Clients -> Requests]
  BY <1>2
<1> QED
  BY <1>1, <1>3 DEF Daemon, KeysAreOld, ListedAsIs

\* A manifest that is cached under the library's key lists the map as it is, for any
\* number of players who ask and of changes meanwhile (main.go of wc3-mapd: get).
THEOREM CacheIsRight == Spec => []ListedAsIs
<1>1. Daemon => ListedAsIs
  BY DEF Daemon
<1> QED
  BY <1>1, DaemonInit, DaemonStep, PTL DEF Spec
-----------------------------------------------------------------------------
(* One copy of the launcher. *)

\* The map it is about to publish is whole, and what it writes has no other name yet.
Folder ==
  /\ dest \in Inodes \cup {NoFile, Own} /\ part \in Inodes \cup {NoFile}
  /\ pc \in [Copies -> {"idle", "await", "look", "get", "clear", "open", "write", "link",
                        "stat", "rename", "tidy"}]
  /\ man \in [Copies -> {Absent} \cup Versions] /\ fd \in [Copies -> Inodes \cup {NoFile}]
  /\ content \in [Inodes -> Versions \cup {Torn}]
WholeOnTheWay(me) ==
  /\ pc[me] \in {"get", "clear", "open", "write", "link", "stat", "rename"}
       => man[me] \in Versions
  /\ pc[me] = "open" => part = NoFile
  /\ pc[me] = "write" => /\ part \in Inodes /\ fd[me] = part /\ dest # part
                         /\ content[part] = Torn
  /\ pc[me] \in {"link", "stat", "rename"} => part \in Inodes /\ content[part] \in Versions

Whole(me) == Daemon /\ Folder /\ WholeOnTheWay(me) /\ PublishedWhole

\* The inodes of a folder that one copy syncs: there is always an unused one.
LEMMA FourInodes ==
  ASSUME NEW me, Copies = {me}
  PROVE  Inodes = 1..4 /\ Own = 5
<1>1. Cardinality(Copies) = 1
  BY FS_Singleton
<1> QED
  BY <1>1 DEF Inodes, Own

\* A handler's answer is a manifest with the map or without.
LEMMA AnswerStep ==
  ASSUME NEW me, Copies = {me}, Whole(me), NEW c \in Clients, Serves(c) \/ OtherAsks(c)
  PROVE  Folder' /\ WholeOnTheWay(me)' /\ PublishedWhole'
<1>1. library \in {Absent} \cup Versions /\ (cache = NoManifest \/ cache.lists \in {Absent} \cup Versions)
  BY LibraryAssumption DEF LibraryAssumption, Whole, Daemon, KeysAreOld, Versions, Absent
<1>2. UNCHANGED <<dest, part, content, fd>>
  BY DEF Serves, ReadKey, Hit, Miss, List, Sum, OtherAsks, Stores, Handles, folder
<1>3. \/ UNCHANGED <<pc, man>>
      \/ \E lists \in {Absent} \cup Versions : Reply(c, lists)
  BY <1>1 DEF Serves, ReadKey, Hit, Fits, Miss, List, Sum, OtherAsks, Stores, Absent
<1>4. \/ UNCHANGED <<pc, man>>
      \/ /\ c = me /\ pc[me] = "await" /\ pc' = [pc EXCEPT ![me] = "look"]
         /\ \E lists \in {Absent} \cup Versions : man' = [man EXCEPT ![me] = lists]
  BY <1>3 DEF Reply
<1> QED
  BY <1>2, <1>4 DEF Whole, Folder, WholeOnTheWay, PublishedWhole

\* writeNew, with its failures and crashes.
LEMMA PublishStep ==
  ASSUME NEW me, Copies = {me}, Whole(me), Publishes(me) \/ WriteFails(me) \/ Crash(me)
  PROVE  Folder' /\ WholeOnTheWay(me)' /\ PublishedWhole'
<1> USE DEF Whole, Folder, WholeOnTheWay, PublishedWhole, Writes, Goes, folder, NoFile
<1>1. Inodes = 1..4 /\ Own = 5
  BY FourInodes
<1>2. CASE ClearPart(me)
  BY <1>1, <1>2 DEF ClearPart
<1>3. CASE OpenPart(me)
  <2>1. pc[me] = "open" /\ part = 0
    BY <1>3 DEF OpenPart
  <2>2. Unused # {} /\ Unused \subseteq Inodes \ {dest}
    BY <1>1, <2>1 DEF Unused
  <2>3. PICK i \in Inodes \ {dest} : /\ part' = i /\ fd' = [fd EXCEPT ![me] = i]
                                    /\ content' = [content EXCEPT ![i] = Torn]
    BY <1>3, <2>1, <2>2 DEF OpenPart
  <2> QED
    BY <1>1, <1>3, <2>1, <2>3 DEF OpenPart
<1>4. CASE Write(me)
  <2>1. pc[me] = "write" /\ part \in Inodes /\ fd[me] = part /\ dest # part /\ content[part] = Torn
        /\ man[me] \in Versions
    BY <1>4 DEF Write
  <2>2. Torn \notin Versions
    BY LibraryAssumption DEF LibraryAssumption, Torn, Versions
  <2>3. content' = [content EXCEPT ![part] = man[me]]
    BY <1>4, <2>1, <2>2 DEF Write
  <2> QED
    BY <1>1, <1>4, <2>1, <2>3 DEF Write
<1>5. CASE Link(me)
  BY <1>1, <1>5 DEF Link
<1>6. CASE Stat(me)
  BY <1>1, <1>6 DEF Stat
<1>7. CASE Rename(me)
  BY <1>1, <1>7 DEF Rename
<1>8. CASE Tidy(me)
  BY <1>1, <1>8 DEF Tidy
<1>9. CASE WriteFails(me) \/ Crash(me)
  BY <1>1, <1>9 DEF WriteFails, Crash, Stops
<1> QED
  BY <1>2, <1>3, <1>4, <1>5, <1>6, <1>7, <1>8, <1>9 DEF Publishes

\* Every step, the daemon's and the player's too.
LEMMA WholeStep ==
  ASSUME NEW me, Copies = {me}
  PROVE  Whole(me) /\ [Next]_vars => Whole(me)'
<1> SUFFICES ASSUME Whole(me), [Next]_vars PROVE Whole(me)'
  OBVIOUS
<1>1. Daemon'
  BY DaemonStep DEF Whole
<1>2. Inodes = 1..4 /\ Own = 5
  BY FourInodes
<1> USE DEF Folder, WholeOnTheWay, PublishedWhole
<1>3. ASSUME UNCHANGED <<dest, part, content, pc, man, fd>>
      PROVE  Folder' /\ WholeOnTheWay(me)' /\ PublishedWhole'
  BY <1>3 DEF Whole
<1>4. CASE PlayerActs
  <2>1. /\ UNCHANGED <<part, content, pc, man, fd>>
        /\ dest' \in {Own, NoFile}
    BY <1>4 DEF PlayerActs, sync
  <2>2. dest' \notin Inodes /\ dest' \in Inodes \cup {NoFile, Own}
    BY <1>2, <2>1 DEF NoFile
  <2>3. Folder' /\ PublishedWhole'
    BY <2>1, <2>2 DEF Whole
  <2>4. WholeOnTheWay(me)'
    BY <2>1, <2>2 DEF Whole
  <2> QED
    BY <1>1, <2>3, <2>4 DEF Whole
<1>5. CASE Ask(me) \/ NetworkFails(me) \/ Fetches(me)
  BY <1>1, <1>5 DEF Ask, NetworkFails, Fetches, Look, Get, Goes, folder, Whole
<1>6. CASE OperatorActs \/ UNCHANGED vars
  BY <1>1, <1>3, <1>6 DEF OperatorActs, vars, folder, sync, Whole
<1> QED
  BY <1>1, <1>4, <1>5, <1>6, AnswerStep, PublishStep DEF Next, Whole

\* Nothing is on its way at first.
LEMMA OneCopyInit ==
  ASSUME NEW me, Copies = {me}
  PROVE  Init => Whole(me)
<1> SUFFICES ASSUME Init PROVE Whole(me)
  OBVIOUS
<1>1. Inodes = 1..4 /\ Own = 5
  BY FourInodes
<1> QED
  BY <1>1, DaemonInit DEF Init, Whole, Folder, WholeOnTheWay, PublishedWhole, NoFile

\* One copy of the launcher puts only whole maps into the folder, whatever the operator
\* and the player do and wherever the copy fails or is killed (sync.go: writeNew).
THEOREM OneCopyPublishesWhole ==
  ASSUME NEW me, Copies = {me}
  PROVE  Spec => []PublishedWhole
<1>1. Init => Whole(me)
  BY OneCopyInit
<1>2. Whole(me) => PublishedWhole
  BY DEF Whole
<1> QED
  BY <1>1, <1>2, WholeStep, PTL DEF Spec
-----------------------------------------------------------------------------
(* The player's files. *)

\* With hard links nothing is renamed into place, and what is written is not the file
\* that the player has given another name.
Untouched(me) ==
  /\ kept \in Inodes \cup {NoFile}
  /\ hardLinks => pc[me] \notin {"stat", "rename"}
  /\ pc[me] = "write" => kept # part

\* What the steps of writeNew do to dest and to what the inodes hold.
LEMMA PublishSpares ==
  ASSUME NEW me, Copies = {me}, Whole(me), Untouched(me),
         Publishes(me) \/ WriteFails(me) \/ Crash(me)
  PROVE  /\ Untouched(me)'
         /\ hardLinks /\ dest = Own => dest' = dest
         /\ kept # NoFile => content'[kept] = content[kept]
<1> USE DEF Untouched, Writes, Goes, NoFile
<1>1. Inodes = 1..4 /\ Own = 5
  BY FourInodes
<1>2. /\ pc \in [Copies -> {"idle", "await", "look", "get", "clear", "open", "write", "link",
                            "stat", "rename", "tidy"}]
      /\ fd \in [Copies -> Inodes \cup {NoFile}] /\ content \in [Inodes -> Versions \cup {Torn}]
  BY DEF Whole, Folder
<1>3. CASE ClearPart(me)
  <2>1. UNCHANGED <<dest, content, kept, hardLinks>> /\ pc' = [pc EXCEPT ![me] = "open"]
    BY <1>3 DEF ClearPart, Quiet, world
  <2> QED BY <1>2, <2>1
<1>4. CASE OpenPart(me)
  <2>1. part = 0 /\ UNCHANGED <<dest, kept, hardLinks>> /\ pc' = [pc EXCEPT ![me] = "write"]
    BY <1>4 DEF OpenPart, Quiet, world, Whole, WholeOnTheWay
  <2>2. Unused # {} /\ Unused \subseteq Inodes \ {kept}
    <3>1. fd[me] \in Inodes \cup {0} /\ {fd[l] : l \in Copies} = {fd[me]}
      BY <1>2
    <3>2. dest \in Inodes \cup {0, Own}
      BY DEF Whole, Folder
    <3>3. Unused = 1..4 \ {dest, 0, kept, fd[me]}
      BY <1>1, <2>1, <3>1 DEF Unused
    <3> QED BY <1>1, <3>1, <3>2, <3>3
  <2>3. PICK i \in Inodes \ {kept} : part' = i /\ content' = [content EXCEPT ![i] = Torn]
    BY <1>4, <2>1, <2>2 DEF OpenPart
  <2> QED BY <1>2, <2>1, <2>3
<1>5. CASE Write(me)
  <2>1. fd[me] = part /\ kept # part
    BY <1>5 DEF Write, Whole, WholeOnTheWay
  <2>2. UNCHANGED <<dest, part, kept, hardLinks>> /\ pc' = [pc EXCEPT ![me] = "link"]
    BY <1>5 DEF Write, Quiet, world
  <2>3. \E body : content' = [content EXCEPT ![part] = body]
    BY <1>5, <2>1 DEF Write
  <2> QED BY <1>2, <2>1, <2>2, <2>3
<1>6. CASE Link(me)
  <2>1. part # 0
    BY <1>1, <1>6 DEF Link, Whole, WholeOnTheWay
  <2>2. UNCHANGED <<part, content, kept, hardLinks>> /\ (dest # 0 => dest' = dest)
    BY <1>6 DEF Link, Quiet, world
  <2>3. pc' = [pc EXCEPT ![me] = "tidy"] \/ (~hardLinks /\ pc' = [pc EXCEPT ![me] = "stat"])
    BY <1>6, <2>1 DEF Link
  <2> QED BY <1>1, <1>2, <2>2, <2>3
<1>7. CASE Stat(me)
  <2>1. ~hardLinks
    BY <1>7 DEF Stat
  <2>2. UNCHANGED <<dest, content, kept, hardLinks>>
    BY <1>7 DEF Stat, Quiet, world
  <2>3. pc' = [pc EXCEPT ![me] = "tidy"] \/ pc' = [pc EXCEPT ![me] = "rename"]
    BY <1>7 DEF Stat
  <2> QED BY <1>2, <2>1, <2>2, <2>3
<1>8. CASE Rename(me)
  <2>1. ~hardLinks
    BY <1>8 DEF Rename
  <2>2. UNCHANGED <<content, kept, hardLinks>>
    BY <1>8 DEF Rename, Quiet, world
  <2>3. pc' = [pc EXCEPT ![me] = "tidy"] \/ pc' = [pc EXCEPT ![me] = "idle"]
    BY <1>8 DEF Rename
  <2> QED BY <1>2, <2>1, <2>2, <2>3
<1>9. CASE Tidy(me)
  <2>1. UNCHANGED <<dest, content, kept, hardLinks>> /\ pc' = [pc EXCEPT ![me] = "idle"]
    BY <1>9 DEF Tidy, Quiet, world
  <2> QED BY <1>2, <2>1
<1>10. CASE WriteFails(me) \/ Crash(me)
  <2>1. UNCHANGED <<dest, content, kept, hardLinks>> /\ pc' = [pc EXCEPT ![me] = "idle"]
    BY <1>10 DEF WriteFails, Crash, Stops, Upset, folder, world
  <2> QED BY <1>2, <2>1
<1> QED
  BY <1>3, <1>4, <1>5, <1>6, <1>7, <1>8, <1>9, <1>10 DEF Publishes

\* Every step spares what is the player's.
LEMMA SparesStep ==
  ASSUME NEW me, Copies = {me}, Whole(me), Untouched(me), [Next]_vars
  PROVE  /\ Untouched(me)'
         /\ hardLinks /\ dest = Own /\ dest' # Own => UNCHANGED pc
         /\ kept # NoFile => content'[kept] = content[kept]
<1>1. CASE Publishes(me) \/ WriteFails(me) \/ Crash(me)
  BY <1>1, PublishSpares
<1>2. ASSUME UNCHANGED <<dest, part, kept, content, hardLinks>>,
             pc'[me] = pc[me] \/ pc'[me] \notin {"stat", "rename", "write"}
      PROVE  /\ Untouched(me)'
             /\ hardLinks /\ dest = Own /\ dest' # Own => UNCHANGED pc
             /\ kept # NoFile => content'[kept] = content[kept]
  BY <1>2 DEF Untouched
<1>3. ASSUME NEW c \in Clients, Serves(c) \/ OtherAsks(c)
      PROVE  /\ UNCHANGED <<dest, part, kept, content, hardLinks>>
             /\ pc'[me] = pc[me] \/ pc'[me] \notin {"stat", "rename", "write"}
  <2>1. UNCHANGED <<dest, part, kept, content, hardLinks>>
    BY <1>3 DEF Serves, ReadKey, Hit, Miss, List, Sum, OtherAsks, Stores, Handles, folder, world
  <2>2. UNCHANGED pc \/ pc' = [pc EXCEPT ![c] = "look"]
    BY <1>3 DEF Serves, ReadKey, Hit, Miss, List, Sum, OtherAsks, Stores, Reply
  <2> QED BY <2>1, <2>2 DEF Whole, Folder
<1>4. CASE Ask(me) \/ NetworkFails(me) \/ Fetches(me)
  <2>1. UNCHANGED <<dest, part, kept, content, hardLinks>>
    BY <1>4 DEF Ask, NetworkFails, Fetches, Look, Get, Quiet, Upset, folder, world
  <2>2. \E where \in {"await", "idle", "get", "clear"} : pc' = [pc EXCEPT ![me] = where]
    BY <1>4 DEF Ask, NetworkFails, Fetches, Look, Get, Goes
  <2>3. pc'[me] \notin {"stat", "rename", "write"}
    BY <2>2 DEF Whole, Folder
  <2> QED BY <1>2, <2>1, <2>3
<1>5. CASE PlayerActs
  <2>1. UNCHANGED <<part, content, pc, hardLinks>>
    BY <1>5 DEF PlayerActs, Upset, sync, world
  <2>2. kept' = kept \/ (dest \in Inodes /\ kept' = dest)
    BY <1>5 DEF PlayerActs
  <2>3. pc[me] = "write" => dest # part
    BY DEF Whole, WholeOnTheWay
  <2> QED BY <2>1, <2>2, <2>3 DEF Untouched
<1>6. CASE OperatorActs \/ UNCHANGED vars
  BY <1>2, <1>6 DEF OperatorActs, vars, folder, sync, world
<1> QED
  BY <1>1, <1>2, <1>3, <1>4, <1>5, <1>6 DEF Next

\* One copy of the launcher never touches what is the player's: a map saved under the same
\* name, on a volume with hard links, or a map from the library under another name,
\* wherever an earlier run was killed (sync.go: writeNew).
THEOREM OneCopyNeverClobbers ==
  ASSUME NEW me, Copies = {me}
  PROVE  Spec => NeverClobbers
<1> DEFINE Spares == /\ hardLinks /\ dest = Own /\ dest' # Own => UNCHANGED pc
                     /\ kept # NoFile => content'[kept] = content[kept]
<1>1. Init => Whole(me) /\ Untouched(me)
  <2> SUFFICES ASSUME Init PROVE Untouched(me)
    BY OneCopyInit
  <2> QED BY DEF Init, Untouched
<1>2. Whole(me) /\ Untouched(me) /\ [Next]_vars => (Whole(me) /\ Untouched(me))'
  BY WholeStep, SparesStep
<1>3. Whole(me) /\ Untouched(me) /\ [Next]_vars => [Spares]_vars
  BY SparesStep
<1> QED BY <1>1, <1>2, <1>3, PTL DEF Spec, NeverClobbers
-----------------------------------------------------------------------------
(* Types. *)

\* There is an inode for a new file, however many copies have one open.
LEMMA InodeLeft ==
  ASSUME part = NoFile, fd \in [Copies -> Inodes \cup {NoFile}]
  PROVE  Unused # {} /\ Unused \subseteq Inodes
<1> DEFINE open == {fd[l] : l \in Copies}
           taken == open \cup {dest, kept}
<1>1. IsFiniteSet(Copies)
  BY LibraryAssumption
<1>2. Cardinality(Copies) \in Nat
  BY <1>1, FS_CardinalityType
<1>3. IsFiniteSet(open) /\ Cardinality(open) <= Cardinality(Copies)
  <2>1. [l \in Copies |-> fd[l]] \in Surjection(Copies, open)
    BY DEF Surjection
  <2> QED BY <1>1, <2>1, FS_Surjection
<1>4. IsFiniteSet({dest, kept}) /\ Cardinality({dest, kept}) <= 2
  <2>1. IsFiniteSet({dest}) /\ Cardinality({dest}) = 1
    BY FS_Singleton
  <2>2. IsFiniteSet({dest} \cup {kept}) /\ Cardinality({dest} \cup {kept}) <= 2
    BY <2>1, FS_AddElement
  <2>3. {dest} \cup {kept} = {dest, kept}
    OBVIOUS
  <2> QED BY <2>2, <2>3
<1> HIDE DEF open
<1>5. IsFiniteSet(taken) /\ Cardinality(taken) <= Cardinality(Copies) + 2
  <2>1. /\ IsFiniteSet(taken)
        /\ Cardinality(taken)
             = Cardinality(open) + Cardinality({dest, kept}) - Cardinality(open \cap {dest, kept})
    BY <1>3, <1>4, FS_Union
  <2>2. IsFiniteSet(open \cap {dest, kept})
    BY <1>3, FS_Intersection
  <2>3. /\ Cardinality(open) \in Nat /\ Cardinality({dest, kept}) \in Nat
        /\ Cardinality(open \cap {dest, kept}) \in Nat
    BY <1>3, <1>4, <2>2, FS_CardinalityType
  <2> QED BY <1>2, <1>3, <1>4, <2>1, <2>3
<1>6. IsFiniteSet(Inodes) /\ Cardinality(Inodes) = Cardinality(Copies) + 3
  BY <1>2, FS_Interval DEF Inodes
<1> HIDE DEF taken
<1>7. ~(Inodes \subseteq taken)
  <2>1. SUFFICES ASSUME Inodes \subseteq taken PROVE FALSE
    OBVIOUS
  <2>2. Cardinality(Inodes) <= Cardinality(taken)
    BY <1>5, <2>1, FS_Subset
  <2>3. Cardinality(taken) \in Nat
    BY <1>5, FS_CardinalityType
  <2> QED BY <1>2, <1>5, <1>6, <2>2, <2>3
<1>8. PICK i \in Inodes : i \notin taken
  BY <1>7
<1>9. i # NoFile
  BY <1>2 DEF Inodes, NoFile
<1> QED BY <1>8, <1>9 DEF taken, open, Unused

Listed == {Absent} \cup Versions
RequestPlaces == {"none", "key", "lock", "scan", "sum"}
SyncPlaces == {"idle", "await", "look", "get", "clear", "open", "write", "link", "stat", "rename", "tidy"}

\* The daemon's part of TypeOK.
DaemonTyped ==
  /\ library \in Listed /\ changes \in 0..Changes
  /\ cache = NoManifest \/ cache \in [key : Listed, lists : Listed]
  /\ request \in [Clients -> [at : RequestPlaces, key : Listed]]
  /\ \A c \in Clients : request[c].at \in {"scan", "sum"} <=> mu = c

\* The launchers' part, with what a copy that fetches a map knows: its manifest lists it.
CopiesTyped ==
  /\ pc \in [Copies -> SyncPlaces] /\ man \in [Copies -> Listed]
  /\ dest \in Inodes \cup {NoFile, Own}
  /\ part \in Inodes \cup {NoFile} /\ kept \in Inodes \cup {NoFile}
  /\ content \in [Inodes -> Versions \cup {Torn}]
  /\ fd \in [Copies -> Inodes \cup {NoFile}]
  /\ \A l \in Copies : pc[l] \in SyncPlaces \ {"idle", "await", "look"} => man[l] \in Versions

\* The parts of the type invariant.
LEMMA TypeParts ==
  /\ TypeOK => DaemonTyped /\ upsets \in 0..Upsets /\ hardLinks \in BOOLEAN
  /\ DaemonTyped /\ CopiesTyped /\ upsets \in 0..Upsets /\ hardLinks \in BOOLEAN => TypeOK
<1>1. TypeOK => DaemonTyped /\ upsets \in 0..Upsets /\ hardLinks \in BOOLEAN
  BY Zenon DEF TypeOK, DaemonTyped, Listed, RequestPlaces
<1>2. ASSUME part \in Inodes \cup {NoFile}, kept \in Inodes \cup {NoFile}
      PROVE  {part, kept} \subseteq Inodes \cup {NoFile}
  BY <1>2
<1>3. DaemonTyped /\ CopiesTyped /\ upsets \in 0..Upsets /\ hardLinks \in BOOLEAN => TypeOK
  BY <1>2, Zenon DEF TypeOK, DaemonTyped, CopiesTyped, Listed, RequestPlaces, SyncPlaces
<1> QED BY <1>1, <1>3

\* The numbers of versions and of none.
LEMMA ListedFacts ==
  /\ Absent \in Listed /\ Absent \notin Versions /\ Versions \subseteq Listed
  /\ \A v \in Listed : v = Absent \/ v \in Versions
  /\ Nobody \notin Clients
BY LibraryAssumption DEF Listed, Absent, Versions

\* The daemon's steps.
LEMMA ServesTyped ==
  ASSUME DaemonTyped, NEW c \in Clients, Serves(c) \/ OtherAsks(c) \/ (c \in Copies /\ Ask(c))
  PROVE  /\ DaemonTyped'
         /\ UNCHANGED <<upsets, hardLinks>>
         /\ (Serves(c) \/ OtherAsks(c)) => \/ UNCHANGED <<pc, man>>
                                            \/ \E lists \in Listed : Reply(c, lists)
<1> USE DEF DaemonTyped, Handles
<1>1. /\ request[c].at \in RequestPlaces /\ request[c].key \in Listed
      /\ \A at \in RequestPlaces, k \in Listed : [at |-> at, key |-> k] \in [at : RequestPlaces, key : Listed]
      /\ \A at \in RequestPlaces : /\ [request[c] EXCEPT !.at = at] \in [at : RequestPlaces, key : Listed]
                                   /\ [request[c] EXCEPT !.at = at].at = at
      /\ NoRequest \in [at : RequestPlaces, key : Listed] /\ NoRequest.at = "none"
      /\ {"key", "lock", "scan", "sum"} \subseteq RequestPlaces
  BY ListedFacts DEF NoRequest, RequestPlaces
<1> USE ListedFacts
<1>2. CASE ReadKey(c)
  <2>1. /\ UNCHANGED <<library, changes, hardLinks, upsets, cache, mu, pc, man>>
        /\ request' = [request EXCEPT ![c] = [at |-> "lock", key |-> library]]
        /\ request[c].at = "key"
    BY <1>2 DEF ReadKey, libraryKey, world
  <2> QED BY <1>1, <1>2, <2>1
<1>3. CASE Hit(c)
  <2>1. /\ UNCHANGED <<library, changes, hardLinks, upsets, cache, mu>>
        /\ request' = [request EXCEPT ![c] = NoRequest] /\ mu = Nobody
        /\ Reply(c, cache.lists) /\ cache # NoManifest
    BY <1>3 DEF Hit, Fits, world
  <2>2. cache.lists \in Listed
    BY <2>1
  <2> QED BY <1>1, <2>1, <2>2
<1>4. CASE Miss(c)
  <2>1. /\ UNCHANGED <<library, changes, hardLinks, upsets, cache, pc, man>>
        /\ request' = [request EXCEPT ![c] = [request[c] EXCEPT !.at = "scan"]]
        /\ mu = Nobody /\ mu' = c
    BY <1>4 DEF Miss, world
  <2> QED BY <1>1, <2>1
<1>5. ASSUME NEW lists \in Listed, Stores(c, lists, request[c].key), mu = c
      PROVE  DaemonTyped' /\ UNCHANGED <<upsets, hardLinks>> /\ Reply(c, lists)
  <2>1. /\ UNCHANGED <<library, changes, hardLinks, upsets>> /\ Reply(c, lists)
        /\ request' = [request EXCEPT ![c] = NoRequest] /\ mu' = Nobody
        /\ cache' = [key |-> request[c].key, lists |-> lists]
    BY <1>5 DEF Stores, world
  <2>2. cache' \in [key : Listed, lists : Listed]
    BY <1>1, <2>1
  <2> QED BY <1>1, <1>5, <2>1, <2>2
<1>6. CASE List(c)
  <2>1. CASE library = Absent
    BY <1>5, <1>6, <2>1 DEF List
  <2>2. CASE library # Absent
    <3>1. /\ UNCHANGED <<library, changes, hardLinks, upsets, cache, mu, pc, man>>
          /\ request' = [request EXCEPT ![c] = [request[c] EXCEPT !.at = "sum"]]
          /\ request[c].at = "scan"
      BY <1>6, <2>2 DEF List, world
    <3> QED BY <1>1, <3>1
  <2> QED BY <2>1, <2>2
<1>7. CASE Sum(c)
  BY <1>5, <1>7 DEF Sum
<1>8. CASE OtherAsks(c) \/ (c \in Copies /\ Ask(c))
  <2>1. /\ UNCHANGED <<library, changes, hardLinks, upsets, cache, mu>>
        /\ request' = [request EXCEPT ![c] = [at |-> "key", key |-> Absent]]
        /\ request[c].at = "none"
    BY <1>1, <1>8 DEF OtherAsks, Ask, Quiet, world
  <2>2. OtherAsks(c) => UNCHANGED <<pc, man>>
    BY DEF OtherAsks
  <2>3. Serves(c) => FALSE
    BY <2>1 DEF Serves, ReadKey, Hit, Miss, List, Sum
  <2> QED BY <1>1, <2>1, <2>2, <2>3
<1> QED BY <1>2, <1>3, <1>4, <1>6, <1>7, <1>8 DEF Serves

\* A copy moves on, and leaves the folder and the daemon alone.
LEMMA MovesTyped ==
  ASSUME CopiesTyped, NEW l \in Copies, NEW where \in SyncPlaces,
         pc' = [pc EXCEPT ![l] = where],
         UNCHANGED <<man, dest, part, kept, content>>,
         fd' = fd \/ fd' = [fd EXCEPT ![l] = NoFile],
         where \in {"idle", "await", "look"} \/ man[l] \in Versions
  PROVE  CopiesTyped'
BY DEF CopiesTyped

\* The launchers' steps, on the daemon's side and on their own.
LEMMA CopyStep ==
  ASSUME CopiesTyped, DaemonTyped, NEW l \in Copies,
         Ask(l) \/ NetworkFails(l) \/ Fetches(l) \/ Publishes(l) \/ WriteFails(l) \/ Crash(l)
  PROVE  CopiesTyped'
<1> USE DEF Goes, Writes, Quiet
<1>1. CASE Ask(l)
  <2>1. pc' = [pc EXCEPT ![l] = "await"] /\ UNCHANGED <<man, dest, part, kept, content, fd>>
    BY <1>1 DEF Ask, folder
  <2> QED BY <2>1, MovesTyped DEF SyncPlaces
<1>2. CASE NetworkFails(l) \/ WriteFails(l) \/ Crash(l)
  <2>1. /\ pc' = [pc EXCEPT ![l] = "idle"] /\ UNCHANGED <<man, dest, part, kept, content>>
        /\ fd' = fd \/ fd' = [fd EXCEPT ![l] = NoFile]
    BY <1>2 DEF NetworkFails, WriteFails, Crash, Stops, folder
  <2> QED BY <2>1, MovesTyped DEF SyncPlaces
<1>3. CASE Look(l)
  <2>1. UNCHANGED <<man, dest, part, kept, content, fd>>
    BY <1>3 DEF Look, folder
  <2>2. \/ pc' = [pc EXCEPT ![l] = "idle"]
        \/ pc' = [pc EXCEPT ![l] = "get"] /\ man[l] # Absent
    BY <1>3 DEF Look
  <2>3. man[l] # Absent => man[l] \in Versions
    BY ListedFacts DEF CopiesTyped
  <2> QED BY <2>1, <2>2, <2>3, MovesTyped DEF SyncPlaces
<1>4. CASE Get(l) \/ ClearPart(l) \/ OpenPart(l) \/ Write(l) \/ Link(l) \/ Stat(l) \/ Rename(l) \/ Tidy(l)
  <2>1. /\ man[l] \in Versions /\ UNCHANGED <<man, kept>>
        /\ \E where \in SyncPlaces : pc' = [pc EXCEPT ![l] = where]
    <3>1. pc[l] \in SyncPlaces \ {"idle", "await", "look"}
      BY <1>4 DEF Get, ClearPart, OpenPart, Write, Link, Stat, Rename, Tidy, SyncPlaces
    <3>2. UNCHANGED <<man, kept>>
      BY <1>4 DEF Get, ClearPart, OpenPart, Write, Link, Stat, Rename, Tidy, folder
    <3>3. \E where \in SyncPlaces : pc' = [pc EXCEPT ![l] = where]
      BY <1>4 DEF Get, ClearPart, OpenPart, Write, Link, Stat, Rename, Tidy, SyncPlaces
    <3> QED BY <3>1, <3>2, <3>3 DEF CopiesTyped
  <2>2. /\ dest' \in {dest, part} /\ part' \in Inodes \cup {NoFile}
        /\ fd' \in [Copies -> Inodes \cup {NoFile}] /\ content' \in [Inodes -> Versions \cup {Torn}]
    <3>1. CASE Get(l) \/ ClearPart(l) \/ Link(l) \/ Stat(l) \/ Rename(l) \/ Tidy(l)
      <4>1. dest' \in {dest, part} /\ part' \in {part, NoFile} /\ UNCHANGED <<content, fd>>
        BY <3>1 DEF Get, ClearPart, Link, Stat, Rename, Tidy, folder
      <4> QED BY <4>1 DEF CopiesTyped
    <3>2. CASE OpenPart(l)
      <4>1. PICK i \in IF part = NoFile THEN {CHOOSE j \in Unused : TRUE} ELSE {part} :
              /\ part' = i /\ fd' = [fd EXCEPT ![l] = i] /\ content' = [content EXCEPT ![i] = Torn]
              /\ dest' = dest
        BY <3>2 DEF OpenPart
      <4>2. i \in Inodes
        <5>1. CASE part = NoFile
          <6>1. Unused # {} /\ Unused \subseteq Inodes
            BY <5>1, InodeLeft DEF CopiesTyped
          <6> QED BY <4>1, <5>1, <6>1
        <5>2. CASE part # NoFile
          BY <4>1, <5>2 DEF CopiesTyped
        <5> QED BY <5>1, <5>2
      <4> QED BY <4>1, <4>2 DEF CopiesTyped
    <3>3. CASE Write(l)
      <4>1. /\ UNCHANGED <<dest, part>> /\ fd' = [fd EXCEPT ![l] = NoFile]
            /\ \E body \in {man[l], Torn} : content' = [content EXCEPT ![fd[l]] = body]
        BY <3>3 DEF Write
      <4> QED BY <2>1, <4>1 DEF CopiesTyped
    <3> QED BY <1>4, <3>1, <3>2, <3>3
  <2> QED BY <2>1, <2>2 DEF CopiesTyped
<1> QED BY <1>1, <1>2, <1>3, <1>4 DEF Fetches, Publishes

\* Every step keeps the types.
LEMMA TypesStep ==
  ASSUME TypeOK, CopiesTyped, [Next]_vars
  PROVE  TypeOK' /\ CopiesTyped'
<1>1. DaemonTyped /\ upsets \in 0..Upsets /\ hardLinks \in BOOLEAN
  BY TypeParts
<1>2. SUFFICES DaemonTyped' /\ CopiesTyped' /\ upsets' \in 0..Upsets /\ hardLinks' = hardLinks
  <2>1. ASSUME hardLinks' = hardLinks
        PROVE  hardLinks' \in BOOLEAN
    BY <1>1, <2>1, Zenon
  <2> QED BY <2>1, TypeParts, Zenon DEF TypeOK, DaemonTyped, CopiesTyped, Listed, RequestPlaces, SyncPlaces
<1>3. ASSUME NEW c \in Clients, Serves(c) \/ OtherAsks(c)
      PROVE  DaemonTyped' /\ CopiesTyped' /\ upsets' \in 0..Upsets /\ hardLinks' = hardLinks
  <2>1. /\ DaemonTyped' /\ UNCHANGED <<upsets, hardLinks>>
        /\ UNCHANGED <<pc, man>> \/ \E lists \in Listed : Reply(c, lists)
    BY <1>1, <1>3, ServesTyped
  <2>2. UNCHANGED <<dest, part, kept, content, fd>>
    BY <1>3 DEF Serves, ReadKey, Hit, Miss, List, Sum, OtherAsks, Stores, Handles, folder
  <2>3. \/ UNCHANGED <<pc, man>>
        \/ /\ c \in Copies /\ pc' = [pc EXCEPT ![c] = "look"]
           /\ \E lists \in Listed : man' = [man EXCEPT ![c] = lists]
    BY <2>1 DEF Reply
  <2>4. CopiesTyped'
    BY <2>2, <2>3 DEF CopiesTyped, SyncPlaces
  <2> QED BY <1>1, <2>1, <2>4
<1>4. ASSUME NEW l \in Copies,
             Ask(l) \/ NetworkFails(l) \/ Fetches(l) \/ Publishes(l) \/ WriteFails(l) \/ Crash(l)
      PROVE  DaemonTyped' /\ CopiesTyped' /\ upsets' \in 0..Upsets /\ hardLinks' = hardLinks
  <2>1. CopiesTyped'
    BY <1>1, <1>4, CopyStep
  <2>2. CASE Ask(l)
    BY <1>1, <2>1, <2>2, ServesTyped DEF Clients
  <2>3. CASE NetworkFails(l) \/ Fetches(l) \/ Publishes(l) \/ WriteFails(l) \/ Crash(l)
    <3>1. UNCHANGED <<library, changes, hardLinks, cache, mu, request>>
      BY <2>3 DEF NetworkFails, Fetches, Look, Get, Publishes, ClearPart, OpenPart, Write, Link, Stat,
         Rename, Tidy, WriteFails, Crash, Writes, Stops, Quiet, Upset, world
    <3>2. upsets' = upsets \/ (upsets < Upsets /\ upsets' = upsets + 1)
      BY <2>3 DEF NetworkFails, Fetches, Look, Get, Publishes, ClearPart, OpenPart, Write, Link, Stat,
         Rename, Tidy, WriteFails, Crash, Writes, Stops, Quiet, Upset
    <3>3. upsets' \in 0..Upsets
      BY <1>1, <3>2, LibraryAssumption
    <3>4. DaemonTyped'
      BY <1>1, <3>1 DEF DaemonTyped
    <3> QED BY <2>1, <3>1, <3>3, <3>4
  <2> QED BY <1>4, <2>2, <2>3
<1>5. CASE OperatorActs
  <2>1. /\ changes < Changes /\ changes' = changes + 1 /\ library' \in {Absent, changes + 1}
        /\ UNCHANGED <<upsets, cache, mu, request, dest, part, kept, content, pc, man, fd, hardLinks>>
    BY <1>5 DEF OperatorActs, daemon, folder, sync
  <2>2. changes' \in 0..Changes /\ library' \in Listed
    BY <1>1, <2>1, LibraryAssumption DEF DaemonTyped, Listed, Versions
  <2> QED BY <1>1, <2>1, <2>2 DEF DaemonTyped, CopiesTyped
<1>6. CASE PlayerActs
  <2>1. /\ UNCHANGED <<library, changes, cache, mu, request, part, content, pc, man, fd, hardLinks>>
        /\ upsets < Upsets /\ upsets' = upsets + 1
    BY <1>6 DEF PlayerActs, Upset, world, sync
  <2>2. dest' \in {Own, NoFile} /\ kept' \in Inodes \cup {NoFile}
    BY <1>6 DEF PlayerActs, CopiesTyped
  <2>3. upsets' \in 0..Upsets
    BY <1>1, <2>1, LibraryAssumption
  <2> QED BY <1>1, <2>1, <2>2, <2>3 DEF DaemonTyped, CopiesTyped
<1>7. CASE UNCHANGED vars
  <2>1. UNCHANGED <<library, changes, hardLinks, upsets, cache, mu, request, dest, part, kept, content,
                    pc, man, fd>>
    BY <1>7 DEF vars, world, daemon, folder, sync
  <2> QED BY <1>1, <2>1 DEF DaemonTyped, CopiesTyped
<1> QED BY <1>3, <1>4, <1>5, <1>6, <1>7, Zenon DEF Next

\* For any number of copies, players and changes the variables keep their types; the lock of
\* manifestCache is held by the request that scans and by no other (main.go of wc3-mapd: get).
THEOREM TypeCorrect == Spec => []TypeOK
<1>1. Init => TypeOK /\ CopiesTyped
  <2> SUFFICES ASSUME Init PROVE DaemonTyped /\ CopiesTyped /\ upsets \in 0..Upsets /\ hardLinks \in BOOLEAN
    BY TypeParts
  <2>1. hardLinks \in BOOLEAN
    BY Zenon DEF Init
  <2>2. NoRequest \in [at : RequestPlaces, key : Listed] /\ NoRequest.at = "none"
    BY ListedFacts DEF NoRequest, RequestPlaces
  <2>3. 0 \in 0..Changes /\ 0 \in 0..Upsets
    BY LibraryAssumption
  <2>4. DaemonTyped
    BY <2>2, <2>3, ListedFacts DEF Init, DaemonTyped
  <2>5. CopiesTyped
    BY ListedFacts DEF Init, CopiesTyped, SyncPlaces
  <2>6. upsets \in 0..Upsets
    BY <2>3 DEF Init
  <2> QED BY <2>1, <2>4, <2>5, <2>6
<1>2. TypeOK /\ CopiesTyped /\ [Next]_vars => (TypeOK /\ CopiesTyped)'
  BY TypesStep
<1> QED BY <1>1, <1>2, PTL DEF Spec
===============================================================================
