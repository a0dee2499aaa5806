---------------------------- MODULE LauncherRuns ----------------------------
(***************************************************************************)
(* The runs of the launcher on one machine, one after the other: the       *)
(* downloads the player has kept and the copy behind the desktop icon,     *)
(* each with its own bundle and settings, over what they leave behind: the *)
(* per-user config, the gateway in the game's registry, the loader's files *)
(* with their version marker (main.go: run; runtimeconfig.go;              *)
(* internal/bundle/bundle.go; internal/client).  A run may be killed or    *)
(* fail anywhere, and writes that are not atomic are then cut short.       *)
(*                                                                         *)
(* Settings are a server and a token, which stands for the cert pin as     *)
(* well; "" is a setting that is not there.                                *)
(***************************************************************************)
EXTENDS Naturals

CONSTANTS Downloads,  \* the builds the player has
          BundleOf,   \* bundleVersion of each
          BakedOf,    \* the settings compiled into it
          ShippedOf,  \* what wc3-launcher.json beside it holds
          Servers,    \* real servers
          Tokens,     \* tokens, other than ""
          Asides,     \* the flags or environment of a run
          Files       \* bound: files in the bundle

Settings == [server : Servers \cup {"", "placeholder"}, token : Tokens \cup {""}]
NoFile == [server |-> "no file", token |-> ""]
Malformed == [server |-> "malformed", token |-> ""]
NoSettings == [server |-> "", token |-> ""]
Readable(file) == file \notin {NoFile, Malformed}

ASSUME BuildsAssumption ==
  /\ BundleOf \in [Downloads -> Nat \ {0}] /\ BakedOf \in [Downloads -> Settings]
  /\ ShippedOf \in [Downloads -> Settings \cup {NoFile, Malformed}]
  /\ Asides \subseteq Settings /\ Files \in Nat

\* A real server is none of the names that stand for something else.
ASSUME ServersAssumption ==
  Servers \cap {"", "placeholder", "loopback", "no file", "malformed"} = {}

Versions == {BundleOf[d] : d \in Downloads}
Nobody == "nobody"

VARIABLES perUser,  \* the per-user config file
          gateway,  \* the host in the registry, or ""
          marker,   \* .bundle-version, 0 if it is not there or empty
          files,    \* the version each file of the loader is of, 0 if torn
          stable,   \* the build of the copy in the game folder
          pc,       \* the step this run is at
          me,       \* the build that runs
          beside,   \* the config file beside it
          flags,    \* its flags and environment
          tty,      \* stdin is a terminal
          conf,     \* serverHost and relayToken
          asked,    \* it has asked for the server
          unzipped, \* the files Ensure has extracted
          given,    \* history: the last settings meant to last
          lost,     \* history: they were not saved, or deleted by the player
          cut       \* history: the version of an extraction that did not end

disk == <<perUser, gateway, marker, files, stable>>
identity == <<me, beside, flags, tty>>
setup == <<conf, asked>>
history == <<given, lost, cut>>
vars == <<disk, pc, identity, setup, unzipped, history>>

Init ==
  /\ perUser = NoFile
  /\ gateway \in Servers \cup {""}   \* an older launcher may have written it
  /\ marker = 0 /\ files = [f \in 1..Files |-> 0] /\ stable = Nobody
  /\ pc = "idle" /\ me = Nobody /\ beside = NoFile /\ flags = NoSettings /\ tty = TRUE
  /\ conf = NoSettings /\ asked = FALSE /\ unzipped = 0
  /\ given = NoSettings /\ lost = FALSE /\ cut = 0

Goes(to) == pc' = to /\ UNCHANGED identity
\* A run that ends forgets what it had in memory.
Ends ==
  /\ pc' = "idle" /\ me' = Nobody /\ beside' = NoFile /\ flags' = NoSettings /\ tty' = TRUE
  /\ conf' = NoSettings /\ asked' = FALSE /\ unzipped' = 0
-----------------------------------------------------------------------------
(* Settings. *)

Or(s, t) ==   \* firstNonEmpty, field by field
  [server |-> IF s.server # "" THEN s.server ELSE t.server,
   token |-> IF s.token # "" THEN s.token ELSE t.token]

OnlyBeside(near) ==   \* mutant: the per-user file is forgotten
  IF Readable(near) THEN near ELSE NoSettings
\* The first file that can be read, beside the binary or the per-user one.
loadFileConfig(near) ==
  IF Readable(near) THEN near ELSE IF Readable(perUser) THEN perUser ELSE NoSettings

isConfigured == conf.server \notin {"", "placeholder"}

Start(build, near) ==
  /\ pc = "idle"
  /\ \E aside \in Asides, terminal \in BOOLEAN :
       /\ pc' = "seed" /\ me' = build /\ beside' = near /\ flags' = aside /\ tty' = terminal
       /\ conf' = Or(aside, Or(loadFileConfig(near), BakedOf[build]))
  /\ UNCHANGED <<disk, asked, unzipped, history>>

StartDownload(d) == Start(d, ShippedOf[d])
StartStable == stable # Nobody /\ Start(stable, NoFile)

\* saveFileConfig truncates and then writes.  It succeeds, or fails and the run goes on,
\* or the run is killed, which may be at the next step as well.
Saves(settings) ==
  \/ perUser' = settings /\ lost' = FALSE
  \/ perUser' \in {perUser, Malformed} /\ lost' = TRUE

Ships == Readable(beside) /\ beside.server # ""
MirrorsOnce == ~Readable(perUser)   \* mutant: the first settings stay
\* A file beside the binary is the newer word; without one the player's is left alone.
Mirrors == perUser # beside

seedPerUserConfig ==
  /\ pc = "seed" /\ Goes("setUp")
  /\ \/ /\ isConfigured /\ Ships /\ given' = beside
        /\ IF Mirrors THEN Saves(beside) ELSE lost' = FALSE /\ UNCHANGED perUser
     \/ /\ isConfigured /\ ~Ships /\ ~Readable(perUser) /\ given' = conf
        /\ Saves(conf)
     \/ /\ ~isConfigured \/ (~Ships /\ Readable(perUser))
        /\ UNCHANGED <<perUser, given, lost>>
  /\ UNCHANGED <<gateway, marker, files, stable, setup, unzipped, cut>>

\* parseGateway: a host, and not Blizzard's or this machine.
ExistingGateway == gateway \notin {"", "loopback"}

AlreadyConfigured ==
  /\ pc = "setUp" /\ isConfigured /\ Goes("install")
  /\ UNCHANGED <<disk, setup, unzipped, history>>

\* The player may give a token for the server that is taken over.
adoptExistingGateway ==
  /\ pc = "setUp" /\ ~isConfigured /\ ExistingGateway /\ Goes("install")
  /\ \E token \in IF tty THEN Tokens \cup {""} ELSE {""} :
       conf' = [server |-> gateway, token |-> IF token # "" THEN token ELSE conf.token]
  /\ IF gateway = "placeholder"   \* saved as well, but nothing anybody gave
     THEN perUser' \in {conf', perUser, Malformed} /\ UNCHANGED <<given, lost>>
     ELSE Saves(conf') /\ given' = conf'
  /\ UNCHANGED <<gateway, marker, files, stable, asked, unzipped, cut>>

maybeInteractiveSetup ==
  /\ pc = "setUp" /\ ~isConfigured /\ ~ExistingGateway /\ tty /\ Goes("install")
  /\ asked' = TRUE
  /\ \/ UNCHANGED <<conf, perUser, given, lost>>   \* nothing entered
     \/ \E answer \in [server : Servers, token : Tokens \cup {""}] :
          /\ Saves(answer) /\ given' = answer
          /\ conf' = Or(answer, conf)
  /\ UNCHANGED <<gateway, marker, files, stable, unzipped, cut>>

NobodyToAsk ==
  /\ pc = "setUp" /\ ~isConfigured /\ ~ExistingGateway /\ ~tty /\ Goes("install")
  /\ UNCHANGED <<disk, setup, unzipped, history>>
-----------------------------------------------------------------------------
(* Installing: prerequisites and Blizzard's installers, then the bundle. *)

Installs ==
  /\ pc = "install" /\ Goes("bundle")
  /\ UNCHANGED <<disk, setup, unzipped, history>>

AlreadyCurrent ==
  /\ pc = "bundle" /\ marker = BundleOf[me] /\ Goes("copy")
  /\ UNCHANGED <<disk, setup, unzipped, history>>

StartExtractionMarked ==   \* mutant: the marker is written before the files
  /\ pc = "bundle" /\ marker # BundleOf[me] /\ Goes("unzip")
  /\ marker' = BundleOf[me] /\ cut' = BundleOf[me]
  /\ UNCHANGED <<perUser, gateway, files, stable, setup, unzipped, given, lost>>
StartExtraction ==
  /\ pc = "bundle" /\ marker # BundleOf[me] /\ Goes("unzip")
  /\ cut' = BundleOf[me]
  /\ UNCHANGED <<disk, setup, unzipped, given, lost>>

extractFile ==
  /\ pc = "unzip" /\ unzipped < Files /\ Goes("unzip")
  /\ unzipped' = unzipped + 1
  /\ files' = [files EXCEPT ![unzipped'] = BundleOf[me]]
  /\ UNCHANGED <<perUser, gateway, marker, stable, setup, history>>

WriteMarker ==
  /\ pc = "unzip" /\ unzipped = Files /\ Goes("copy")
  /\ marker' = BundleOf[me] /\ cut' = 0
  /\ UNCHANGED <<perUser, gateway, files, stable, setup, unzipped, given, lost>>

\* The copy for the icon goes through a temporary file; its failure is passed over.
ensureStableLauncher ==
  /\ pc = "copy" /\ Goes("connect")
  /\ stable' \in {me, stable}
  /\ UNCHANGED <<perUser, gateway, marker, files, setup, unzipped, history>>
-----------------------------------------------------------------------------
(* Connecting. *)

\* A relay that answers, which only a real server has, makes this machine the gateway.
ConfigureRelay ==
  /\ pc = "connect" /\ isConfigured /\ Goes("play")
  /\ gateway' = "loopback"
  /\ UNCHANGED <<perUser, marker, files, stable, setup, unzipped, history>>

\* --direct, or the relay cannot be reached, or refuses this launcher.
ConfigureDirect ==
  /\ pc = "connect" /\ Goes("play")
  /\ gateway' = conf.server
  /\ UNCHANGED <<perUser, marker, files, stable, setup, unzipped, history>>

GameEnds == pc = "play" /\ Ends /\ UNCHANGED <<disk, history>>

\* The run fails or is killed, at a step that has written nothing yet ...
Stops == pc \notin {"idle", "play"} /\ Ends /\ UNCHANGED <<disk, history>>

\* ... or in the middle of a file or of the marker.
StopsWriting ==
  /\ pc = "unzip" /\ Ends
  /\ IF unzipped < Files
     THEN files' = [files EXCEPT ![unzipped + 1] = 0] /\ UNCHANGED marker
     ELSE marker' = 0 /\ UNCHANGED files
  /\ UNCHANGED <<perUser, gateway, stable, history>>

\* "Delete that file to run setup again."
PlayerDeletesConfig ==
  /\ pc = "idle" /\ perUser # NoFile
  /\ perUser' = NoFile /\ lost' = TRUE
  /\ UNCHANGED <<gateway, marker, files, stable, pc, identity, setup, unzipped, given, cut>>
-----------------------------------------------------------------------------
Next ==
  \/ (\E d \in Downloads : StartDownload(d)) \/ StartStable
  \/ seedPerUserConfig
  \/ AlreadyConfigured \/ adoptExistingGateway \/ maybeInteractiveSetup \/ NobodyToAsk
  \/ Installs \/ AlreadyCurrent \/ StartExtraction \/ extractFile \/ WriteMarker
  \/ ensureStableLauncher
  \/ ConfigureRelay \/ ConfigureDirect \/ GameEnds
  \/ Stops \/ StopsWriting \/ PlayerDeletesConfig

Spec == Init /\ [][Next]_vars
-----------------------------------------------------------------------------
(* Properties. *)

SetUp == {"install", "bundle", "unzip", "copy", "connect", "play"}

\* The variables have their types; in particular this machine, which is what the relay
\* way leaves in the registry, is never taken over as the server, and never saved
\* (client.go: parseGateway).
TypeOK ==
  /\ perUser \in Settings \cup {NoFile, Malformed}
  /\ gateway \in Servers \cup {"", "placeholder", "loopback"}
  /\ marker \in Versions \cup {0} /\ files \in [1..Files -> Versions \cup {0}]
  /\ stable \in Downloads \cup {Nobody} /\ me \in Downloads \cup {Nobody}
  /\ pc \in SetUp \cup {"idle", "seed", "setUp"}
  /\ beside \in Settings \cup {NoFile, Malformed} /\ flags \in Settings
  /\ conf \in Settings /\ given \in Settings
  /\ {tty, asked, lost} \subseteq BOOLEAN
  /\ unzipped \in 0..Files /\ cut \in Versions \cup {0}

\* Settings last.  What a download shipped, the player answered or an older launcher had
\* is what every later run uses that is told nothing newer, from the icon or another
\* folder, through any order of builds, so that nobody is asked for it again, as long as it
\* was saved and not deleted; in particular a rotated token reaches the icon
\* (runtimeconfig.go: seedPerUserConfig, saveFileConfig).
SettingsLast ==
  /\ pc \in SetUp \cup {"setUp"} /\ flags = NoSettings /\ ~Readable(beside)
  /\ given # NoSettings /\ ~lost
  =>
    /\ isConfigured /\ conf.server = given.server
    /\ given.token # "" => conf.token = given.token

\* The player is asked once, while there is nothing saved: "the answer persists to the
\* config dir, so this happens only once, even after a later launcher download"
\* (main.go:119-121; runtimeconfig.go: maybeInteractiveSetup).
AskedOnce == [][asked' /\ ~asked => given = NoSettings \/ lost]_vars

\* The game is started with a whole loader of the build that starts it, but for one
\* case: the extraction of another build's was cut off, and this build's marker is still
\* there (bundle.go: Ensure takes the marker's word).  A build whose own extraction was
\* cut off extracts again.
BundleWhole ==
  pc = "play" => \/ \A f \in 1..Files : files[f] = BundleOf[me]
                 \/ cut \notin {0, BundleOf[me]}

\* A run without a server that has a terminal asks for one: "If nothing else is
\* configured it asks for the server address" (README.md:76-77).
AsksIfNotConfigured ==
  pc \in SetUp /\ tty /\ ~isConfigured => asked

=============================================================================
