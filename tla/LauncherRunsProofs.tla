-------------------------- MODULE LauncherRunsProofs --------------------------
(***************************************************************************)
(* For any builds, servers and tokens and any number of files: the types   *)
(* of LauncherRuns, what the version marker tells of the loader's files,   *)
(* and that settings last.                                                 *)
(***************************************************************************)
EXTENDS LauncherRuns, TLAPS

\* A run is one of a build; it has that build's file beside it or none.
Runs ==
  /\ pc # "idle" => me \in Downloads
  /\ beside \in {ShippedOf[d] : d \in Downloads} \cup {NoFile}
  /\ flags \in Asides \cup {NoSettings}

\* The marker's word: unless another extraction was cut off, every file is of its version.
Marked ==
  /\ marker # 0 /\ cut \in {0, marker} => \A f \in 1..Files : files[f] = marker
  /\ pc \in {"idle", "seed", "setUp", "install", "bundle"} => unzipped = 0
  /\ pc = "unzip" =>
       /\ cut = BundleOf[me] /\ marker # cut
       /\ \A f \in 1..unzipped : files[f] = cut
  /\ pc \in {"copy", "connect", "play"} => marker = BundleOf[me]

\* Settings that name a server.
Real(s) == s.server \notin {"", "placeholder"}

\* What was given is in the per-user file until it is lost, and every run that is told
\* nothing else reads it there.
Kept ==
  /\ given # NoSettings => Real(given)
  /\ given # NoSettings /\ ~lost => perUser = given
  /\ pc \in {"seed", "setUp"} /\ given # NoSettings /\ ~lost => Real(conf)
  /\ /\ pc # "idle" /\ flags = NoSettings /\ ~Readable(beside)
     /\ given # NoSettings /\ ~lost
     => Real(conf) /\ conf.server = given.server /\ (given.token # "" => conf.token = given.token)

IInv == TypeOK /\ Runs /\ Marked
-----------------------------------------------------------------------------
(* Types. *)

\* What the operators on settings return.
LEMMA OrTyped ==
  ASSUME NEW s \in Settings, NEW t \in Settings
  PROVE  Or(s, t) \in Settings
BY DEF Or, Settings

\* No settings are settings too, that name no server.
LEMMA Nothing == NoSettings \in Settings /\ ~Real(NoSettings)
BY DEF NoSettings, Settings, Real

\* What is read from the files are settings.
LEMMA LoadTyped ==
  ASSUME NEW near \in Settings \cup {NoFile, Malformed},
         perUser \in Settings \cup {NoFile, Malformed}
  PROVE  loadFileConfig(near) \in Settings
BY Nothing DEF loadFileConfig, Readable

\* No version is zero, the mark of no file.
LEMMA VersionsNonzero ==
  /\ 0 \notin Versions
  /\ \A d \in Downloads : BundleOf[d] \in Versions
BY BuildsAssumption DEF Versions

\* The number of files that Ensure has extracted stays in its range.
LEMMA Counting ==
  /\ 0 \in 0..Files
  /\ \A n \in 0..Files : n < Files => n + 1 \in 0..Files
<1>1. Files \in Nat
  BY BuildsAssumption
<1> QED BY <1>1

\* What may be beside a binary.
LEMMA FilesBeside ==
  \A near \in {ShippedOf[d] : d \in Downloads} \cup {NoFile} :
    near \in Settings \cup {NoFile, Malformed}
<1>1. \A d \in Downloads : ShippedOf[d] \in Settings \cup {NoFile, Malformed}
  BY BuildsAssumption
<1> QED BY <1>1, Zenon

\* The flags of Go's type bool.
Flags == {tty, asked, lost} \subseteq BOOLEAN

\* The rest of TypeOK.
Typed ==
  /\ perUser \in Settings \cup {NoFile, Malformed}
  /\ gateway \in Servers \cup {"", "placeholder", "loopback"}
  /\ marker \in Versions \cup {0} /\ files \in [1..Files -> Versions \cup {0}]
  /\ stable \in Downloads \cup {Nobody} /\ me \in Downloads \cup {Nobody}
  /\ pc \in SetUp \cup {"idle", "seed", "setUp"}
  /\ beside \in Settings \cup {NoFile, Malformed} /\ flags \in Settings
  /\ conf \in Settings /\ given \in Settings
  /\ unzipped \in 0..Files /\ cut \in Versions \cup {0}

\* The parts of the type invariant.
LEMMA TypeParts == TypeOK <=> Typed /\ Flags
BY Zenon DEF TypeOK, Typed, Flags

\* Every step keeps the flags Booleans.
LEMMA FlagsStep ==
  ASSUME Flags, [Next]_vars
  PROVE  Flags'
<1> DEFINE AsIs == UNCHANGED <<tty, asked, lost>>
<1>0. AsIs => Flags'
  BY Zenon DEF Flags
<1>1. CASE \/ AlreadyConfigured \/ NobodyToAsk \/ Installs \/ AlreadyCurrent
           \/ StartExtraction \/ extractFile \/ WriteMarker \/ ensureStableLauncher
           \/ ConfigureRelay \/ ConfigureDirect \/ UNCHANGED vars
  <2>1. AsIs
    BY <1>1, Zenon DEF AlreadyConfigured, NobodyToAsk, Installs, AlreadyCurrent, StartExtraction,
       extractFile, WriteMarker, ensureStableLauncher, ConfigureRelay, ConfigureDirect,
       Goes, identity, setup, history, vars
  <2> QED BY <2>1, <1>0
<1>2. CASE GameEnds \/ Stops \/ StopsWriting
  <2>1. tty' = TRUE /\ asked' = FALSE /\ lost' = lost
    BY <1>2, Zenon DEF GameEnds, Stops, StopsWriting, Ends, history
  <2> QED BY <2>1, Zenon DEF Flags
<1>3. CASE (\E d \in Downloads : StartDownload(d)) \/ StartStable
  <2>1. tty' \in BOOLEAN /\ asked' = asked /\ lost' = lost
    BY <1>3, Zenon DEF StartDownload, StartStable, Start, history
  <2> QED BY <2>1, Zenon DEF Flags
<1>4. CASE seedPerUserConfig \/ adoptExistingGateway \/ PlayerDeletesConfig
  <2>1. tty' = tty /\ asked' = asked
    BY <1>4, Zenon DEF seedPerUserConfig, adoptExistingGateway, PlayerDeletesConfig, Goes, identity, setup
  <2>2. lost' = lost \/ lost' = TRUE \/ lost' = FALSE
    BY <1>4, Zenon DEF seedPerUserConfig, adoptExistingGateway, PlayerDeletesConfig, Saves
  <2> QED BY <2>1, <2>2, Zenon DEF Flags
<1>5. CASE maybeInteractiveSetup
  <2>1. tty' = tty /\ asked' = TRUE
    BY <1>5, Zenon DEF maybeInteractiveSetup, Goes, identity
  <2>2. lost' = lost \/ lost' = TRUE \/ lost' = FALSE
    BY <1>5, Zenon DEF maybeInteractiveSetup, Saves
  <2> QED BY <2>1, <2>2, Zenon DEF Flags
<1> QED BY <1>1, <1>2, <1>3, <1>4, <1>5, Zenon DEF Next

\* What Saves can leave in the per-user file.
LEMMA SavesTyped ==
  ASSUME perUser \in Settings \cup {NoFile, Malformed},
         NEW s \in Settings, Saves(s)
  PROVE  perUser' \in Settings \cup {NoFile, Malformed}
BY DEF Saves

\* A run starts with settings and with a file its build has.
LEMMA StartTyped ==
  ASSUME Typed, NEW build \in Downloads, NEW near \in Settings \cup {NoFile, Malformed},
         Start(build, near)
  PROVE  Typed'
<1>1. PICK aside \in Asides :
        /\ flags' = aside
        /\ conf' = Or(aside, Or(loadFileConfig(near), BakedOf[build]))
  BY DEF Start
<1>2. aside \in Settings /\ BakedOf[build] \in Settings
  BY BuildsAssumption
<1>3. loadFileConfig(near) \in Settings
  BY LoadTyped DEF Typed
<1>4. conf' \in Settings
  BY <1>1, <1>2, <1>3, OrTyped
<1>5. pc' = "seed" /\ me' = build /\ beside' = near
  BY DEF Start
<1>6. UNCHANGED <<perUser, gateway, marker, files, stable, unzipped, given, cut>>
  BY DEF Start, disk, history
<1> QED BY <1>1, <1>2, <1>4, <1>5, <1>6 DEF Typed

\* Every step keeps the types and the run one of a build.
LEMMA TypesStep ==
  ASSUME Typed, Runs, [Next]_vars
  PROVE  Typed' /\ Runs'
<1> USE DEF Typed, Runs
<1>1. CASE \/ AlreadyConfigured \/ NobodyToAsk \/ Installs \/ AlreadyCurrent \/ ensureStableLauncher
           \/ ConfigureRelay \/ ConfigureDirect
  <2>1. /\ pc # "idle" /\ pc' \in SetUp
        /\ UNCHANGED <<perUser, marker, files, me, beside, flags, conf, unzipped, given, cut>>
    BY <1>1 DEF AlreadyConfigured, NobodyToAsk, Installs, AlreadyCurrent, ensureStableLauncher,
       ConfigureRelay, ConfigureDirect, Goes, SetUp, disk, identity, setup, history
  <2>2. gateway' \in {gateway, "loopback", conf.server} /\ stable' \in {stable, me}
    BY <1>1 DEF AlreadyConfigured, NobodyToAsk, Installs, AlreadyCurrent, ensureStableLauncher,
       ConfigureRelay, ConfigureDirect, disk
  <2>3. conf.server \in Servers \cup {"", "placeholder"}
    BY DEF Settings
  <2> QED BY <2>1, <2>2, <2>3
<1>2. CASE StartExtraction \/ extractFile \/ WriteMarker
  <2>1. me \in Downloads /\ BundleOf[me] \in Versions
    BY <1>2, VersionsNonzero DEF StartExtraction, extractFile, WriteMarker
  <2>2. /\ pc # "idle" /\ pc' \in SetUp
        /\ UNCHANGED <<perUser, gateway, stable, me, beside, flags, conf, given>>
    BY <1>2 DEF StartExtraction, extractFile, WriteMarker, Goes, SetUp, disk, identity, setup, history
  <2>3. marker' \in {marker, BundleOf[me]} /\ cut' \in {cut, BundleOf[me], 0}
    BY <1>2 DEF StartExtraction, extractFile, WriteMarker, disk, history
  <2>4. files' \in [1..Files -> Versions \cup {0}] /\ unzipped' \in 0..Files
    <3>1. CASE extractFile
      <4>1. unzipped' = unzipped + 1 /\ unzipped < Files
        BY <3>1 DEF extractFile
      <4>2. unzipped' \in 0..Files
        BY <4>1, Counting
      <4>3. files' = [files EXCEPT ![unzipped'] = BundleOf[me]]
        BY <3>1 DEF extractFile
      <4> QED BY <4>2, <4>3, <2>1
    <3>2. CASE StartExtraction \/ WriteMarker
      BY <3>2 DEF StartExtraction, WriteMarker, disk
    <3> QED BY <1>2, <3>1, <3>2
  <2> QED BY <2>1, <2>2, <2>3, <2>4
<1>3. CASE GameEnds \/ Stops \/ StopsWriting
  <2>1. /\ pc' = "idle" /\ me' = Nobody /\ beside' = NoFile /\ flags' = NoSettings
        /\ conf' = NoSettings /\ unzipped' = 0
        /\ UNCHANGED <<perUser, gateway, stable, given, cut>>
    BY <1>3 DEF GameEnds, Stops, StopsWriting, Ends, disk, history
  <2>2. marker' \in {marker, 0} /\ files' \in [1..Files -> Versions \cup {0}]
    <3>1. CASE GameEnds \/ Stops
      BY <3>1 DEF GameEnds, Stops, disk
    <3>2. CASE StopsWriting
      BY <3>2 DEF StopsWriting
    <3> QED BY <1>3, <3>1, <3>2
  <2>3. unzipped' \in 0..Files
    BY <2>1, Counting
  <2>4. NoFile \in Settings \cup {NoFile, Malformed} /\ Nobody \in Downloads \cup {Nobody}
    OBVIOUS
  <2>5. Typed'
    BY <2>1, <2>2, <2>3, <2>4, Nothing
  <2>6. Runs'
    BY <2>1
  <2> QED BY <2>5, <2>6
<1>4. CASE (\E d \in Downloads : StartDownload(d)) \/ StartStable
  <2>1. PICK build \in Downloads, near \in {ShippedOf[d] : d \in Downloads} \cup {NoFile} :
          Start(build, near)
    BY <1>4 DEF StartDownload, StartStable
  <2>2. near \in Settings \cup {NoFile, Malformed}
    BY FilesBeside
  <2>3. Typed'
    BY <2>1, <2>2, StartTyped
  <2>4. Runs'
    BY <2>1 DEF Start
  <2> QED BY <2>3, <2>4
<1>5. CASE seedPerUserConfig
  <2>1. UNCHANGED <<gateway, marker, files, stable, me, beside, flags, conf, unzipped, cut>>
    BY <1>5 DEF seedPerUserConfig, Goes, identity, setup
  <2>2. pc # "idle" /\ pc' = "setUp"
    BY <1>5 DEF seedPerUserConfig, Goes
  <2>3. Ships => beside \in Settings
    BY DEF Ships, Readable
  <2>4. given' \in Settings /\ perUser' \in Settings \cup {NoFile, Malformed}
    BY <1>5, <2>3, SavesTyped DEF seedPerUserConfig
  <2> QED BY <2>1, <2>2, <2>4
<1>6. CASE adoptExistingGateway
  <2>1. UNCHANGED <<gateway, marker, files, stable, me, beside, flags, unzipped, cut>>
    BY <1>6 DEF adoptExistingGateway, Goes, identity
  <2>2. pc # "idle" /\ pc' = "install"
    BY <1>6 DEF adoptExistingGateway, Goes
  <2>3. conf' \in Settings
    <3>1. PICK token \in Tokens \cup {""} :
            conf' = [server |-> gateway, token |-> IF token # "" THEN token ELSE conf.token]
      BY <1>6 DEF adoptExistingGateway
    <3>2. gateway \in Servers \cup {"", "placeholder"}
      BY <1>6 DEF adoptExistingGateway, ExistingGateway
    <3> QED BY <3>1, <3>2 DEF Settings
  <2>4. given' \in Settings /\ perUser' \in Settings \cup {NoFile, Malformed}
    <3>1. CASE gateway = "placeholder"
      BY <1>6, <2>3, <3>1 DEF adoptExistingGateway
    <3>2. CASE gateway # "placeholder"
      BY <1>6, <2>3, <3>2 DEF adoptExistingGateway, Saves
    <3> QED BY <3>1, <3>2
  <2> QED BY <2>1, <2>2, <2>3, <2>4 DEF SetUp
<1>7. CASE maybeInteractiveSetup
  <2>1. UNCHANGED <<gateway, marker, files, stable, me, beside, flags, unzipped, cut>>
    BY <1>7 DEF maybeInteractiveSetup, Goes, identity
  <2>2. pc # "idle" /\ pc' = "install"
    BY <1>7 DEF maybeInteractiveSetup, Goes
  <2>3. CASE UNCHANGED <<conf, perUser, given>>
    BY <2>1, <2>2, <2>3 DEF SetUp
  <2>4. CASE \E answer \in [server : Servers, token : Tokens \cup {""}] :
               Saves(answer) /\ given' = answer /\ conf' = Or(answer, conf)
    <3>1. PICK answer \in Settings : Saves(answer) /\ given' = answer /\ conf' = Or(answer, conf)
      BY <2>4 DEF Settings
    <3>2. conf' \in Settings /\ given' \in Settings
      BY <3>1, OrTyped
    <3>3. perUser' \in Settings \cup {NoFile, Malformed}
      BY <3>1, SavesTyped
    <3> QED BY <2>1, <2>2, <3>2, <3>3 DEF SetUp
  <2> QED BY <1>7, <2>3, <2>4 DEF maybeInteractiveSetup
<1>8. CASE PlayerDeletesConfig
  <2>1. /\ perUser' = NoFile /\ given' = given
        /\ UNCHANGED <<gateway, marker, files, stable, pc, me, beside, flags, conf, unzipped, cut>>
    BY <1>8 DEF PlayerDeletesConfig, identity, setup
  <2> QED BY <2>1
<1>9. CASE UNCHANGED vars
  <2>1. UNCHANGED <<perUser, gateway, marker, files, stable, pc, me, beside, flags, conf, given,
                    unzipped, cut>>
    BY <1>9 DEF vars, disk, identity, setup, history
  <2>2. Typed'
    BY <2>1
  <2>3. Runs'
    BY <2>1
  <2> QED BY <2>2, <2>3
<1> QED BY <1>1, <1>2, <1>3, <1>4, <1>5, <1>6, <1>7, <1>8, <1>9, Zenon DEF Next

-----------------------------------------------------------------------------
(* The loader's files. *)

\* Every step keeps what the marker tells.
LEMMA MarkedStep ==
  ASSUME Typed, Runs, Marked, [Next]_vars
  PROVE  Marked'
<1> DEFINE Before == {"idle", "seed", "setUp", "install", "bundle"}
           After == {"copy", "connect", "play"}
<1>1. CASE \/ seedPerUserConfig \/ AlreadyConfigured \/ adoptExistingGateway
           \/ maybeInteractiveSetup \/ NobodyToAsk \/ Installs \/ AlreadyCurrent
           \/ ensureStableLauncher \/ ConfigureRelay \/ ConfigureDirect
  <2>1. UNCHANGED <<marker, files, unzipped, cut, me>>
    BY <1>1 DEF seedPerUserConfig, AlreadyConfigured, adoptExistingGateway, maybeInteractiveSetup,
       NobodyToAsk, Installs, AlreadyCurrent, ensureStableLauncher, ConfigureRelay,
       ConfigureDirect, Goes, disk, identity, history
  <2>2. /\ pc' # "unzip"
        /\ pc' \in Before => pc \in Before
        /\ pc' \in After => pc \in After \/ marker = BundleOf[me]
    BY <1>1 DEF seedPerUserConfig, AlreadyConfigured, adoptExistingGateway, maybeInteractiveSetup,
       NobodyToAsk, Installs, AlreadyCurrent, ensureStableLauncher, ConfigureRelay,
       ConfigureDirect, Goes
  <2> QED BY <2>1, <2>2 DEF Marked
<1>2. CASE (\E d \in Downloads : StartDownload(d)) \/ StartStable
  <2>1. UNCHANGED <<marker, files, unzipped, cut>> /\ pc = "idle" /\ pc' = "seed"
    BY <1>2 DEF StartDownload, StartStable, Start, disk, history
  <2> QED BY <2>1 DEF Marked
<1>3. CASE GameEnds \/ Stops
  <2>1. UNCHANGED <<marker, files, cut>> /\ pc' = "idle" /\ unzipped' = 0
    BY <1>3 DEF GameEnds, Stops, Ends, disk, history
  <2> QED BY <2>1 DEF Marked
<1>4. CASE StartExtraction
  <2>1. me \in Downloads /\ unzipped = 0 /\ BundleOf[me] # 0
    BY <1>4, VersionsNonzero DEF StartExtraction, Runs, Marked
  <2>2. /\ pc' = "unzip" /\ cut' = BundleOf[me] /\ marker # BundleOf[me]
        /\ UNCHANGED <<marker, files, me, unzipped>>
    BY <1>4 DEF StartExtraction, Goes, disk, identity
  <2> QED BY <2>1, <2>2 DEF Marked
<1>5. CASE extractFile
  <2>1. /\ me \in Downloads /\ cut = BundleOf[me] /\ marker # cut
        /\ \A f \in 1..unzipped : files[f] = cut
    BY <1>5 DEF extractFile, Runs, Marked
  <2>2. /\ pc' = "unzip" /\ UNCHANGED <<marker, cut, me>>
        /\ unzipped' = unzipped + 1 /\ unzipped < Files
        /\ files' = [files EXCEPT ![unzipped'] = BundleOf[me]]
    BY <1>5 DEF extractFile, Goes, identity, history
  <2>3. cut # 0
    BY <2>1, VersionsNonzero
  <2>4. \A f \in 1..unzipped' : files'[f] = cut
    <3>1. unzipped \in 0..Files /\ files \in [1..Files -> Versions \cup {0}] /\ Files \in Nat
      BY BuildsAssumption DEF Typed
    <3> SUFFICES ASSUME NEW f \in 1..unzipped'
                 PROVE  files'[f] = cut
      OBVIOUS
    <3>2. f \in 1..Files
      BY <2>2, <3>1
    <3>3. CASE f = unzipped'
      BY <2>1, <2>2, <3>1, <3>2, <3>3
    <3>4. CASE f # unzipped'
      <4>1. f \in 1..unzipped
        BY <2>2, <3>1, <3>4
      <4> QED BY <2>1, <2>2, <3>1, <3>2, <3>4, <4>1
    <3> QED BY <3>3, <3>4
  <2> QED BY <2>1, <2>2, <2>3, <2>4 DEF Marked
<1>6. CASE WriteMarker
  <2>1. /\ me \in Downloads /\ cut = BundleOf[me]
        /\ \A f \in 1..Files : files[f] = cut
    BY <1>6 DEF WriteMarker, Runs, Marked
  <2>2. /\ pc' = "copy" /\ cut' = 0 /\ marker' = BundleOf[me]
        /\ UNCHANGED <<files, me>>
    BY <1>6 DEF WriteMarker, Goes, identity
  <2> QED BY <2>1, <2>2 DEF Marked
<1>7. CASE StopsWriting
  <2>1. cut # 0 /\ cut # marker
    BY <1>7, VersionsNonzero DEF StopsWriting, Runs, Marked
  <2>2. pc' = "idle" /\ cut' = cut /\ marker' \in {marker, 0} /\ unzipped' = 0
    BY <1>7 DEF StopsWriting, Ends, history
  <2> QED BY <2>1, <2>2 DEF Marked
<1>8. CASE PlayerDeletesConfig \/ UNCHANGED vars
  BY <1>8 DEF PlayerDeletesConfig, vars, disk, identity, history, Marked
<1> QED BY <1>1, <1>2, <1>3, <1>4, <1>5, <1>6, <1>7, <1>8, Zenon DEF Next

\* The first run finds an empty machine.
LEMMA InitIInv == Init => IInv
<1> SUFFICES ASSUME Init PROVE IInv
  OBVIOUS
<1>1. Typed
  BY Nothing, Counting DEF Init, Typed
<1>2. Flags
  <2>1. tty = TRUE /\ asked = FALSE /\ lost = FALSE
    BY Zenon DEF Init
  <2> QED BY <2>1, Zenon DEF Flags
<1>3. Runs /\ Marked
  BY DEF Init, Runs, Marked
<1> QED BY <1>1, <1>2, <1>3, TypeParts DEF IInv

\* The invariant is kept by every step.
LEMMA NextIInv ==
  ASSUME IInv, [Next]_vars
  PROVE  IInv'
<1>1. Typed /\ Flags /\ Runs /\ Marked
  BY TypeParts DEF IInv
<1>2. Typed' /\ Runs' /\ Marked' /\ Flags'
  BY <1>1, TypesStep, MarkedStep, FlagsStep
<1>3. TypeOK'
  BY <1>2, Zenon DEF TypeOK, Typed, Flags
<1> QED BY <1>2, <1>3 DEF IInv

\* So the invariant holds always.
LEMMA Invariant == Spec => []IInv
BY InitIInv, NextIInv, PTL DEF Spec

\* For any builds and servers the variables keep their types; in particular the launcher
\* never takes this machine, which the relay way leaves in the registry, for the server
\* (client.go: parseGateway).
THEOREM TypeCorrect == Spec => []TypeOK
<1>1. IInv => TypeOK
  BY DEF IInv
<1> QED BY <1>1, Invariant, PTL

\* However the runs of any builds are ordered and killed, a game starts with a whole
\* loader of its own build, unless the extraction of another build's was cut off
\* (bundle.go: Ensure).
THEOREM BundleWholeAlways == Spec => []BundleWhole
<1>1. IInv => BundleWhole
  <2> SUFFICES ASSUME IInv, pc = "play", cut \in {0, BundleOf[me]}
               PROVE  \A f \in 1..Files : files[f] = BundleOf[me]
    BY DEF BundleWhole
  <2>1. me \in Downloads /\ marker = BundleOf[me]
    BY DEF IInv, Runs, Marked
  <2>2. marker # 0
    BY <2>1, VersionsNonzero
  <2> QED BY <2>1, <2>2 DEF IInv, Marked
<1> QED BY <1>1, Invariant, PTL

-----------------------------------------------------------------------------
(* Settings last. *)

\* A file that ships beside a binary names a server, as hack/package-preconfigured.sh makes
\* sure of ("set WC3_SERVER to your PvPGN + relay host"), and nobody gives a launcher the
\* placeholder as its server.  Without the first neither theorem holds: a file with a token
\* only hides the per-user one (loadFileConfig returns the first it finds), and the run is
\* not configured, whatever was saved.
WholeSettings ==
  /\ \A d \in Downloads : Readable(ShippedOf[d]) => Real(ShippedOf[d])
  /\ \A aside \in Asides : aside.server # "placeholder"

\* Settings that name a server are not one of the two that stand for no file.
LEMMA RealReadable ==
  ASSUME NEW s \in Settings, Real(s)
  PROVE  Readable(s)
<1>1. s.server \in Servers
  BY DEF Real, Settings
<1>2. s.server # "no file" /\ s.server # "malformed"
  BY <1>1, ServersAssumption
<1>3. NoFile.server = "no file" /\ Malformed.server = "malformed"
  BY DEF NoFile, Malformed
<1> QED BY <1>2, <1>3 DEF Readable

\* To be configured is to have a real server.
LEMMA ConfiguredIsReal == isConfigured <=> Real(conf)
BY DEF isConfigured, Real

\* Field by field, the first that is not empty.
LEMMA OrReads ==
  ASSUME NEW s, NEW t
  PROVE  /\ Or(s, t).server = IF s.server # "" THEN s.server ELSE t.server
         /\ Or(s, t).token = IF s.token # "" THEN s.token ELSE t.token
BY DEF Or

\* A run that finds what was given in the per-user file has a server, and this one if it
\* is told nothing else.
LEMMA StartReads ==
  ASSUME Typed, WholeSettings,
         NEW build \in Downloads, NEW near \in Settings \cup {NoFile, Malformed},
         Readable(near) => Real(near),
         Real(perUser), perUser \in Settings,
         NEW aside \in Asides
  PROVE  LET read == Or(aside, Or(loadFileConfig(near), BakedOf[build])) IN
           /\ Real(read)
           /\ aside = NoSettings /\ ~Readable(near) =>
                /\ read.server = perUser.server
                /\ perUser.token # "" => read.token = perUser.token
<1> DEFINE file == loadFileConfig(near)
<1>1. Real(file)
  BY RealReadable DEF loadFileConfig
<1>2. ~Readable(near) => file = perUser
  BY RealReadable DEF loadFileConfig
<1>3. aside.server # "placeholder"
  BY DEF WholeSettings
<1> HIDE DEF file
<1> DEFINE below == Or(file, BakedOf[build])
           read == Or(aside, below)
<1>4. below.server = file.server /\ (file.token # "" => below.token = file.token)
  BY <1>1, OrReads DEF Real
<1> HIDE DEF below
<1>5. /\ read.server = IF aside.server # "" THEN aside.server ELSE below.server
      /\ read.token = IF aside.token # "" THEN aside.token ELSE below.token
  BY OrReads
<1> HIDE DEF read
<1>6. Real(read)
  BY <1>1, <1>3, <1>4, <1>5 DEF Real
<1>7. aside = NoSettings =>
        /\ read.server = file.server
        /\ file.token # "" => read.token = file.token
  <2>1. NoSettings.server = "" /\ NoSettings.token = ""
    BY DEF NoSettings
  <2> QED BY <1>4, <1>5, <2>1, Zenon
<1>8. read = Or(aside, Or(loadFileConfig(near), BakedOf[build]))
  BY DEF read, below, file
<1> QED BY <1>2, <1>6, <1>7, <1>8, Zenon

\* Steps that leave the files and the settings alone keep it.
LEMMA KeptElsewhere ==
  ASSUME Kept, UNCHANGED <<perUser, given, lost>>,
         pc' # "idle" =>
           /\ pc # "idle" /\ UNCHANGED <<conf, beside, flags>>
           /\ pc' \in {"seed", "setUp"} => pc \in {"seed", "setUp"}
  PROVE  Kept'
BY DEF Kept, Real, Readable

\* Every step keeps what was given.
LEMMA KeptStep ==
  ASSUME Typed, Runs, Kept, WholeSettings, [Next]_vars
  PROVE  Kept'
<1> DEFINE Held == given # NoSettings /\ ~lost
<1>0. Readable(beside) => Real(beside)
  BY DEF Runs, WholeSettings, Readable
<1>1. CASE \/ AlreadyConfigured \/ NobodyToAsk \/ Installs \/ AlreadyCurrent \/ StartExtraction
           \/ extractFile \/ WriteMarker \/ ensureStableLauncher
           \/ ConfigureRelay \/ ConfigureDirect
  <2>1. /\ UNCHANGED <<perUser, given, lost, conf, beside, flags>>
        /\ pc # "idle" /\ pc' \notin {"seed", "setUp"}
    BY <1>1 DEF AlreadyConfigured, NobodyToAsk, Installs, AlreadyCurrent, StartExtraction,
       extractFile, WriteMarker, ensureStableLauncher, ConfigureRelay, ConfigureDirect,
       Goes, disk, identity, setup, history
  <2> QED BY <2>1, KeptElsewhere
<1>2. CASE GameEnds \/ Stops \/ StopsWriting
  <2>1. UNCHANGED <<perUser, given, lost>> /\ pc' = "idle"
    BY <1>2 DEF GameEnds, Stops, StopsWriting, Ends, disk, history
  <2> QED BY <2>1, KeptElsewhere
<1>3. CASE UNCHANGED vars
  <2>1. UNCHANGED <<perUser, given, lost, conf, beside, flags, pc>>
    BY <1>3 DEF vars, disk, identity, setup, history
  <2> QED BY <2>1, KeptElsewhere
<1>4. CASE (\E d \in Downloads : StartDownload(d)) \/ StartStable
  <2>1. PICK build \in Downloads, near \in {ShippedOf[d] : d \in Downloads} \cup {NoFile} :
          Start(build, near)
    <3>1. CASE \E d \in Downloads : StartDownload(d)
      BY <3>1 DEF StartDownload
    <3>2. CASE StartStable
      BY <3>2 DEF StartStable, Typed
    <3> QED BY <1>4, <3>1, <3>2
  <2>2. near \in Settings \cup {NoFile, Malformed} /\ (Readable(near) => Real(near))
    BY FilesBeside DEF WholeSettings, Readable
  <2>3. PICK aside \in Asides :
          /\ flags' = aside /\ beside' = near /\ pc' = "seed"
          /\ conf' = Or(aside, Or(loadFileConfig(near), BakedOf[build]))
    BY <2>1 DEF Start
  <2>4. UNCHANGED <<perUser, given, lost>>
    BY <2>1 DEF Start, disk, history
  <2>5. CASE Held
    <3>1. perUser = given /\ Real(given) /\ given \in Settings
      BY <2>5 DEF Kept, Typed
    <3>2. /\ Real(conf')
          /\ aside = NoSettings /\ ~Readable(near) =>
               /\ conf'.server = given.server
               /\ given.token # "" => conf'.token = given.token
      BY <2>2, <2>3, <3>1, StartReads
    <3> QED BY <2>3, <2>4, <2>5, <3>1, <3>2 DEF Kept, Real, Readable
  <2>6. CASE ~Held
    BY <2>4, <2>6 DEF Kept, Real
  <2> QED BY <2>5, <2>6
<1>5. CASE seedPerUserConfig
  <2>1. pc = "seed" /\ pc' = "setUp" /\ UNCHANGED <<conf, beside, flags>>
    BY <1>5 DEF seedPerUserConfig, Goes, identity, setup
  <2>2. CASE isConfigured /\ Ships
    <3>1. given' = beside /\ Readable(beside) /\ Real(beside) /\ Real(conf)
      BY <1>5, <1>0, <2>2, ConfiguredIsReal DEF seedPerUserConfig, Ships
    <3>2. perUser' = beside \/ lost' = TRUE
      BY <1>5, <2>2 DEF seedPerUserConfig, Saves, Mirrors
    <3> QED BY <2>1, <3>1, <3>2 DEF Kept, Real, Readable
  <2>3. CASE isConfigured /\ ~Ships /\ ~Readable(perUser)
    <3>1. given' = conf /\ Real(conf)
      BY <1>5, <2>3, ConfiguredIsReal DEF seedPerUserConfig
    <3>2. perUser' = conf \/ lost' = TRUE
      BY <1>5, <2>3 DEF seedPerUserConfig, Saves
    <3> QED BY <2>1, <3>1, <3>2 DEF Kept, Real
  <2>4. CASE ~isConfigured \/ (~Ships /\ Readable(perUser))
    <3>1. UNCHANGED <<perUser, given, lost>>
      BY <1>5, <2>4 DEF seedPerUserConfig
    <3> QED BY <2>1, <3>1, KeptElsewhere
  <2> QED BY <2>2, <2>3, <2>4
<1>6. CASE adoptExistingGateway
  <2>1. pc = "setUp" /\ pc' = "install" /\ ~Real(conf)
    BY <1>6, ConfiguredIsReal DEF adoptExistingGateway, Goes
  <2>2. ~Held
    BY <2>1 DEF Kept
  <2>3. CASE gateway = "placeholder"
    <3>1. UNCHANGED <<given, lost>>
      BY <1>6, <2>3 DEF adoptExistingGateway
    <3> QED BY <2>1, <2>2, <3>1 DEF Kept, Real
  <2>4. CASE gateway # "placeholder"
    <3>1. PICK token : conf' = [server |-> gateway,
                                token |-> IF token # "" THEN token ELSE conf.token]
      BY <1>6, Zenon DEF adoptExistingGateway
    <3>2. conf'.server = gateway
      BY <3>1
    <3>3. given' = conf'
      BY <1>6, <2>4, Zenon DEF adoptExistingGateway
    <3>4. Real(given')
      BY <1>6, <2>4, <3>2, <3>3 DEF adoptExistingGateway, ExistingGateway, Real
    <3>5. perUser' = conf' \/ lost' = TRUE
      BY <1>6, <2>4 DEF adoptExistingGateway, Saves
    <3> QED BY <2>1, <3>2, <3>3, <3>4, <3>5 DEF Kept, Real
  <2> QED BY <2>3, <2>4
<1>7. CASE maybeInteractiveSetup
  <2>1. pc = "setUp" /\ pc' = "install" /\ ~Real(conf)
    BY <1>7, ConfiguredIsReal DEF maybeInteractiveSetup, Goes
  <2>2. ~Held
    BY <2>1 DEF Kept
  <2>3. CASE UNCHANGED <<conf, perUser, given, lost>>
    BY <2>1, <2>2, <2>3 DEF Kept, Real
  <2>4. CASE \E answer \in [server : Servers, token : Tokens \cup {""}] :
               Saves(answer) /\ given' = answer /\ conf' = Or(answer, conf)
    <3>1. PICK answer \in [server : Servers, token : Tokens \cup {""}] :
            Saves(answer) /\ given' = answer /\ conf' = Or(answer, conf)
      BY <2>4
    <3>2. Real(answer)
      BY ServersAssumption DEF Real
    <3>3. /\ conf'.server = answer.server
          /\ answer.token # "" => conf'.token = answer.token
      BY <3>1, <3>2 DEF Or, Real
    <3>4. perUser' = answer \/ lost' = TRUE
      BY <3>1 DEF Saves
    <3> QED BY <2>1, <3>1, <3>2, <3>3, <3>4 DEF Kept, Real
  <2> QED BY <1>7, <2>3, <2>4 DEF maybeInteractiveSetup
<1>8. CASE PlayerDeletesConfig
  <2>1. lost' = TRUE /\ given' = given
    BY <1>8 DEF PlayerDeletesConfig
  <2> QED BY <2>1 DEF Kept, Real
<1> QED BY <1>1, <1>2, <1>3, <1>4, <1>5, <1>6, <1>7, <1>8, Zenon DEF Next

\* What was given is kept from the first run on.
LEMMA KeptInvariant ==
  ASSUME WholeSettings
  PROVE  Spec => [](IInv /\ Kept)
<1>1. Init => IInv /\ Kept
  <2>1. Init => Kept
    BY DEF Init, Kept
  <2> QED BY <2>1, InitIInv
<1>2. IInv /\ Kept /\ [Next]_vars => (IInv /\ Kept)'
  <2> SUFFICES ASSUME IInv, Kept, [Next]_vars PROVE IInv' /\ Kept'
    OBVIOUS
  <2>1. Typed /\ Runs
    BY TypeParts DEF IInv
  <2> QED BY <2>1, NextIInv, KeptStep
<1> QED BY <1>1, <1>2, PTL DEF Spec

\* Settings last, for any builds that ship whole settings or none, in whatever order they
\* run and wherever they are killed: what was given and saved is what every later run
\* uses that is told nothing newer (runtimeconfig.go: seedPerUserConfig, saveFileConfig).
THEOREM SettingsKept ==
  ASSUME WholeSettings
  PROVE  Spec => []SettingsLast
<1>1. Kept => SettingsLast
  <2> SUFFICES ASSUME Kept PROVE SettingsLast
    OBVIOUS
  <2>1. pc \in SetUp \cup {"setUp"} => pc # "idle"
    BY DEF SetUp
  <2> QED BY <2>1, ConfiguredIsReal DEF Kept, SettingsLast
<1> QED BY <1>1, KeptInvariant, PTL

\* With such builds the player is asked for the server once, until what was answered is
\* lost (main.go: run).
THEOREM AsksOnce ==
  ASSUME WholeSettings
  PROVE  Spec => AskedOnce
<1>1. ASSUME Kept, [Next]_vars
      PROVE  [asked' /\ ~asked => given = NoSettings \/ lost]_vars
  <2>1. CASE maybeInteractiveSetup
    <3>1. pc = "setUp" /\ ~Real(conf)
      BY <2>1, ConfiguredIsReal DEF maybeInteractiveSetup
    <3>2. ~(given # NoSettings /\ ~lost)
      BY <1>1, <3>1 DEF Kept
    <3> QED BY <3>2, Zenon
  <2>2. CASE ~maybeInteractiveSetup
    <3>1. asked' = asked \/ asked' = FALSE
      BY <1>1, <2>2, Zenon DEF Next, StartDownload, StartStable, Start, seedPerUserConfig,
         AlreadyConfigured, adoptExistingGateway, NobodyToAsk, Installs, AlreadyCurrent,
         StartExtraction, extractFile, WriteMarker, ensureStableLauncher, ConfigureRelay,
         ConfigureDirect, GameEnds, Stops, StopsWriting, PlayerDeletesConfig, Ends, setup, vars
    <3> QED BY <3>1, Zenon
  <2> QED BY <2>1, <2>2, Zenon
<1>2. Kept /\ [Next]_vars => [asked' /\ ~asked => given = NoSettings \/ lost]_vars
  BY <1>1
<1> QED BY <1>2, KeptInvariant, PTL DEF Spec, AskedOnce

=============================================================================
