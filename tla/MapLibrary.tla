----------------------------- MODULE MapLibrary -----------------------------
(***************************************************************************)
(* The way of a map from the operator's library to a player's folder: the  *)
(* map daemon with its manifest cache (cmd/wc3-mapd/main.go,               *)
(* internal/maplib/manifest.go) and the launcher that syncs before it      *)
(* starts the game (internal/mapsync/sync.go), with the player in the same *)
(* folder and copies of the launcher that may crash anywhere.              *)
(*                                                                         *)
(* One name stands for all: maps do not depend on each other.  A version   *)
(* of a map is a number, new with every change, and so are its hash, size  *)
(* and time together.  Files are as on Linux: a name is a link to an inode *)
(* that may be open, or linked under another name.                         *)
(***************************************************************************)
EXTENDS Naturals, FiniteSets

CONSTANTS Copies,   \* copies of the launcher that sync this folder
          Others,   \* other players' launchers, as the daemon sees them
          Changes,  \* bound: what the operator does to the library
          Upsets    \* bound: failures, crashes and what the player does

Clients == Copies \cup Others
Nobody == "nobody"

ASSUME LibraryAssumption ==
  /\ IsFiniteSet(Copies) /\ IsFiniteSet(Others) /\ Copies \cap Others = {}
  /\ Nobody \notin Clients /\ Changes \in Nat /\ Upsets \in Nat

Versions == 1..Changes
Absent == 0              \* no map of that name in the library, or listed
Torn == Changes + 1      \* what no version of the map is
NoFile == 0
Inodes == 1..(Cardinality(Copies) + 3)
Own == Cardinality(Copies) + 4   \* the inode of the player's own map

VARIABLES library,   \* the version in the library
          changes,   \* how often the operator changed it
          upsets,    \* how often something went wrong, or the player did something
          cache,     \* manifestCache: key, and what buf lists, if there is one
          mu,        \* who holds its lock
          request,   \* the daemon's handler of each client's request, with its key
          pc,        \* Sync, where each copy is
          man,       \* what the manifest it got lists
          dest,      \* the map's name in the folder: an inode, Own or NoFile
          part,      \* the name with .part
          kept,      \* the name the player gave a map that came from the library
          content,   \* what the inodes hold
          fd,        \* the inode each copy has open
          hardLinks  \* the volume has hard links

daemon == <<cache, mu, request>>
folder == <<dest, part, kept, content>>
sync == <<pc, man, fd>>
world == <<library, changes, hardLinks>>
vars == <<world, upsets, daemon, folder, sync>>

NoRequest == [at |-> "none", key |-> Absent]
NoManifest == [key |-> Absent, lists |-> Torn]

Init ==
  /\ library = Absent /\ changes = 0 /\ upsets = 0
  /\ cache = NoManifest /\ mu = Nobody
  /\ request = [c \in Clients |-> NoRequest]
  /\ pc = [l \in Copies |-> "idle"]
  /\ man = [l \in Copies |-> Absent]
  /\ dest \in {NoFile, Own} /\ part = NoFile /\ kept = NoFile
  /\ content = [i \in Inodes |-> Torn]
  /\ fd = [l \in Copies |-> NoFile]
  /\ hardLinks \in BOOLEAN
-----------------------------------------------------------------------------
(* The operator, whom nothing tells when somebody reads. *)

OperatorActs ==
  /\ changes < Changes
  /\ changes' = changes + 1
  /\ \E version \in {Absent, changes + 1} \ {library} : library' = version
  /\ UNCHANGED <<upsets, daemon, folder, sync, hardLinks>>
-----------------------------------------------------------------------------
(* The daemon: manifestCache.get, in a handler that runs to its end even if *)
(* the client is gone.                                                      *)

Handles(c, r) ==
  request' = [request EXCEPT ![c] = r]
  /\ UNCHANGED <<world, upsets, folder, fd>>

\* The answer reaches a copy that still waits for it.
Reply(c, lists) ==
  IF c \in Copies /\ pc[c] = "await"
  THEN pc' = [pc EXCEPT ![c] = "look"] /\ man' = [man EXCEPT ![c] = lists]
  ELSE UNCHANGED <<pc, man>>

\* Every map's name, size and time.
libraryKeyByName == IF library = Absent THEN Absent ELSE 1   \* mutant: names only
libraryKey == library

ReadKey(c) ==
  /\ request[c].at = "key"
  /\ Handles(c, [at |-> "lock", key |-> libraryKey])
  /\ UNCHANGED <<cache, mu, pc, man>>

FitsAlways(c) == cache # NoManifest   \* mutant: the first manifest is kept for good
Fits(c) == cache # NoManifest /\ request[c].key = cache.key

Hit(c) ==
  /\ request[c].at = "lock" /\ mu = Nobody /\ Fits(c)
  /\ Reply(c, cache.lists)
  /\ Handles(c, NoRequest)
  /\ UNCHANGED <<cache, mu>>

Miss(c) ==
  /\ request[c].at = "lock" /\ mu = Nobody /\ ~Fits(c)
  /\ mu' = c
  /\ Handles(c, [request[c] EXCEPT !.at = "scan"])
  /\ UNCHANGED <<cache, pc, man>>

\* ScanDir lists the folder and then sums each map; one that is gone by then is
\* left out.  The result is cached under the key of the request.
Stores(c, lists, key) ==
  /\ cache' = [key |-> key, lists |-> lists]
  /\ mu' = Nobody
  /\ Reply(c, lists)
  /\ Handles(c, NoRequest)

List(c) ==
  /\ request[c].at = "scan"
  /\ IF library = Absent
     THEN Stores(c, Absent, request[c].key)
     ELSE /\ Handles(c, [request[c] EXCEPT !.at = "sum"])
          /\ UNCHANGED <<cache, mu, pc, man>>

Sum(c) ==
  /\ request[c].at = "sum"
  /\ Stores(c, library, request[c].key)

OtherAsks(c) ==
  /\ c \in Others /\ request[c] = NoRequest
  /\ Handles(c, [at |-> "key", key |-> Absent])
  /\ UNCHANGED <<cache, mu, pc, man>>
-----------------------------------------------------------------------------
(* Sync and downloadOne. *)

Goes(l, where) == pc' = [pc EXCEPT ![l] = where]
Quiet == UNCHANGED <<world, upsets, cache, mu>>
Upset ==
  /\ upsets < Upsets /\ upsets' = upsets + 1
  /\ UNCHANGED <<world, cache, mu>>

Ask(l) ==
  /\ pc[l] = "idle" /\ request[l] = NoRequest
  /\ Goes(l, "await")
  /\ request' = [request EXCEPT ![l] = [at |-> "key", key |-> Absent]]
  /\ UNCHANGED <<folder, man, fd>> /\ Quiet

\* fetchManifest or the download fails, or the copy is cancelled.
NetworkFails(l) ==
  /\ pc[l] \in {"await", "get"}
  /\ Goes(l, "idle")
  /\ UNCHANGED <<request, folder, man, fd>> /\ Upset

\* namesIn: a name that is there is left alone, whatever is behind it.
Look(l) ==
  /\ pc[l] = "look"
  /\ Goes(l, IF dest # NoFile \/ man[l] = Absent THEN "idle" ELSE "get")
  /\ UNCHANGED <<request, folder, man, fd>> /\ Quiet

\* What the daemon answers for the map: the file of that name as it is now.
Served == library

\* The body is verified in full before it is written: it is what the manifest lists,
\* or skipped, because the map changed, is gone, or changed on the way.
GetAnything(l) ==   \* mutant: no check of size and hash
  /\ pc[l] = "get"
  /\ Served # Absent
  /\ \E body \in {Served, Torn} : man' = [man EXCEPT ![l] = body]
  /\ Goes(l, "clear")
  /\ UNCHANGED <<request, folder, fd>> /\ Quiet
Get(l) ==
  /\ pc[l] = "get"
  /\ Goes(l, IF man[l] = Served THEN "clear" ELSE "idle")
  /\ UNCHANGED <<request, folder, man, fd>> /\ Quiet
-----------------------------------------------------------------------------
(* writeNew. *)

Writes(l, where) ==
  Goes(l, where) /\ UNCHANGED <<request, man, kept>> /\ Quiet
Stops(l) ==
  /\ Goes(l, "idle") /\ fd' = [fd EXCEPT ![l] = NoFile]
  /\ UNCHANGED <<request, man, folder>> /\ Upset

ClearNot(l) ==   \* mutant: what an interrupted run left is written over
  /\ pc[l] = "clear"
  /\ Writes(l, "open") /\ UNCHANGED <<dest, part, content, fd>>
ClearPart(l) ==
  /\ pc[l] = "clear"
  /\ part' = NoFile
  /\ Writes(l, "open") /\ UNCHANGED <<dest, content, fd>>

\* WriteFile opens the file, or makes it, and truncates it ...
Unused == Inodes \ ({dest, part, kept} \cup {fd[l] : l \in Copies})
OpenPart(l) ==
  /\ pc[l] = "open"
  /\ \E i \in IF part = NoFile THEN {CHOOSE j \in Unused : TRUE} ELSE {part} :
       /\ part' = i /\ fd' = [fd EXCEPT ![l] = i]
       /\ content' = [content EXCEPT ![i] = Torn]
  /\ Writes(l, "write") /\ UNCHANGED dest

\* ... and writes it, or not, with the disk full.  Over another version that a second
\* copy wrote meanwhile it leaves a mixture if that one is longer.
Write(l) ==
  /\ pc[l] = "write"
  /\ \E body \in {man[l]} \cup (IF content[fd[l]] \in Versions \ {man[l]} THEN {Torn} ELSE {}) :
       content' = [content EXCEPT ![fd[l]] = body]
  /\ fd' = [fd EXCEPT ![l] = NoFile]
  /\ Writes(l, "link") /\ UNCHANGED <<dest, part>>

WriteFails(l) == pc[l] = "write" /\ Stops(l)

\* os.Link fails if dest is there; and if part is not, or on a volume without hard
\* links, which leads to the fallback.
LinkOver(l) ==   \* mutant: a rename instead of the link
  /\ pc[l] = "link"
  /\ dest' = part /\ part' = NoFile
  /\ Writes(l, "idle") /\ UNCHANGED <<content, fd>>
Link(l) ==
  /\ pc[l] = "link"
  /\ IF hardLinks /\ part # NoFile /\ dest = NoFile
     THEN dest' = part /\ Writes(l, "tidy")
     ELSE Writes(l, IF dest # NoFile THEN "tidy" ELSE "stat") /\ UNCHANGED dest
  /\ UNCHANGED <<part, content, fd>>

Stat(l) ==
  /\ pc[l] = "stat"
  /\ Writes(l, IF dest # NoFile THEN "tidy" ELSE "rename")
  /\ UNCHANGED <<dest, part, content, fd>>

\* A rename of a file to another name of the same file does nothing.
Rename(l) ==
  /\ pc[l] = "rename"
  /\ IF part = NoFile
     THEN Writes(l, "tidy") /\ UNCHANGED <<dest, part>>
     ELSE /\ Writes(l, "idle")
          /\ dest' = part /\ part' = IF part = dest THEN part ELSE NoFile
  /\ UNCHANGED <<content, fd>>

Tidy(l) ==
  /\ pc[l] = "tidy"
  /\ part' = NoFile
  /\ Writes(l, "idle") /\ UNCHANGED <<dest, content, fd>>

\* The copy is killed, anywhere.
Crash(l) == pc[l] # "idle" /\ Stops(l)
-----------------------------------------------------------------------------
\* The player saves a map of that name, over whatever is there, deletes it, or gives
\* the library's map another name.
PlayerActs ==
  /\ \/ dest' \in {Own, NoFile} \ {dest} /\ UNCHANGED kept
     \/ dest \in Inodes /\ kept' = dest /\ dest' = NoFile
  /\ UNCHANGED <<part, content, request, sync>> /\ Upset

Serves(c) == ReadKey(c) \/ Hit(c) \/ Miss(c) \/ List(c) \/ Sum(c)
Fetches(l) == Look(l) \/ Get(l)
Publishes(l) ==
  \/ ClearPart(l) \/ OpenPart(l) \/ Write(l) \/ Link(l) \/ Stat(l) \/ Rename(l) \/ Tidy(l)

Next ==
  \/ \E c \in Clients : Serves(c) \/ OtherAsks(c)
  \/ \E l \in Copies :
       Ask(l) \/ NetworkFails(l) \/ Fetches(l) \/ Publishes(l) \/ WriteFails(l) \/ Crash(l)
  \/ OperatorActs \/ PlayerActs

Spec == Init /\ [][Next]_vars

\* Handlers and copies run, and the player starts the launcher again and again.
FairSpec ==
  /\ Spec
  /\ \A c \in Clients : WF_vars(Serves(c))
  /\ \A l \in Copies : WF_vars(Ask(l)) /\ WF_vars(Fetches(l)) /\ WF_vars(Publishes(l))
-----------------------------------------------------------------------------
(* Properties. *)

\* The variables have their types, and nobody but the scan has the lock.
TypeOK ==
  /\ library \in {Absent} \cup Versions /\ changes \in 0..Changes /\ upsets \in 0..Upsets
  /\ cache = NoManifest \/ cache \in [key : {Absent} \cup Versions, lists : {Absent} \cup Versions]
  /\ request \in [Clients -> [at : {"none", "key", "lock", "scan", "sum"},
                            key : {Absent} \cup Versions]]
  /\ \A c \in Clients : request[c].at \in {"scan", "sum"} <=> mu = c
  /\ pc \in [Copies -> {"idle", "await", "look", "get", "clear", "open", "write", "link",
                       "stat", "rename", "tidy"}]
  /\ man \in [Copies -> {Absent} \cup Versions]
  /\ dest \in Inodes \cup {NoFile, Own} /\ {part, kept} \subseteq Inodes \cup {NoFile}
  /\ content \in [Inodes -> Versions \cup {Torn}]
  /\ fd \in [Copies -> Inodes \cup {NoFile}] /\ hardLinks \in BOOLEAN

\* A map that appears in the folder is complete and one the manifest listed, wherever
\* a run was killed or failed: the next one would take any file of that name for the
\* map and never fetch it again (sync.go: writeNew "publishes data as dest atomically").
PublishedWhole == dest \in Inodes => content[dest] \in Versions

\* What is the player's is never touched: a map of the same name, although it may be
\* saved at any moment of the download, on a volume with hard links; and a map from
\* the library that the player has given another name, although an interrupted run
\* may have left its .part as a second link to it (sync.go: writeNew).
NeverClobbers ==
  [][/\ hardLinks /\ dest = Own /\ dest' # Own => UNCHANGED pc
     /\ kept # NoFile => content'[kept] = content[kept]]_vars

\* A cached manifest whose key is that of the library lists the map that is there, with
\* its present version, although key and scan are at different times and the operator
\* may change the library between them (main.go of wc3-mapd: the key is read first).
\* About a map that is not there it says nothing: without it the library has a key it
\* may have had before.
ListedAsIs ==
  cache # NoManifest /\ cache.key = libraryKey /\ library # Absent => cache.lists = library

\* A map that stays in the library comes into the folder of a player who starts the
\* launcher often enough, whatever was skipped, killed or cached before.
Arrives == <>[](library # Absent) => []<>(dest # NoFile)

=============================================================================
