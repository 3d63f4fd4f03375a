--------------------------- MODULE ProfileProofs ---------------------------
(* Theorems about Profile, for every set of peers and threads. *)
EXTENDS Profile, TLAPS

TrustFile == [owner : Identity, list : List]

AnyContent == Identity \cup Settings \cup TrustFile \cup {None, Torn}

\* Of a state of the profile directory: only the settings are ever torn.
FilesOK(files) ==
    /\ files \in [File -> AnyContent]
    /\ files["identity"] \in Identity \cup {None}
    /\ files["trust"] \in TrustFile \cup {None}
    /\ files["config"] \in Settings \cup {None, Torn}

Job ==
    [file : {"identity"}, content : Identity] \cup [file : {"trust"}, content : TrustFile]
       \cup [file : {"config"}, content : Settings]

AppOK ==
    /\ unflushed \subseteq File /\ unsaved \subseteq File
    /\ app \in {"off", "unlock", "running"} /\ state \in {"Missing", "Present"}
    /\ making \in Identity \cup {None} /\ self \in Identity \cup {None}
    /\ trust \in List /\ config \in Settings
    /\ generated \in 0..MaxIdentity /\ replaced \in BOOLEAN

TypeInv ==
    /\ FilesOK(disk) /\ FilesOK(kept)
    /\ job \in [Actor -> Job \cup {None}]
    /\ AppOK

\* Which saves are under way: of what is in memory, under the identity in use.
\* Nothing changes what is being saved before the save has ended.
JobsOK ==
    /\ app = "off" => \A a \in Actor : job[a] = None
    /\ app = "unlock" => \A a \in Thread : job[a] = None
    /\ app = "unlock" /\ making = None => job[GUI] = None
    /\ app = "running" => \A a \in Actor : job[a] # None =>
          \/ job[a] = Pending("trust", Owned(self, trust))
          \/ a = GUI /\ job[a] = Pending("config", config)

\* How far the creation of an identity has come.
MakingOK ==
    making # None =>
        /\ app = "unlock"
        /\ \/ job[GUI] = Pending("identity", making)
           \/ job[GUI] = Pending("config", config) /\ disk["identity"] = making
           \/ /\ job[GUI] = Pending("trust", Owned(making, Nobody)) /\ disk["identity"] = making
              /\ trust = Nobody
           \/ job[GUI] = None /\ disk["identity"] = making /\ disk["trust"] = Owned(making, trust)

RunningOK ==
    app = "running" => self # None /\ EngineMatchesDisk

\* There is no older copy of a file that is not there.
NothingBehind == \A f \in File : disk[f] = None => kept[f] = None

\* The identities the profile knows of, those a power failure can bring back included.
Known ==
    {id \in Identity : \/ id \in {disk["identity"], kept["identity"], making}
                       \/ \E file \in {disk["trust"], kept["trust"]} : file # None /\ file.owner = id}

OneIdentity == ~replaced => \A id, other \in Known : id = other

ListOnDisk == IF disk["trust"] = None THEN Nobody ELSE disk["trust"].list

ListSaved == "trust" \notin unsaved => trust = ListOnDisk

ConfigSaved == "config" \notin unsaved => config = LoadedConfig

Inv ==
    /\ TypeInv
    /\ JobsOK /\ MakingOK /\ RunningOK
    /\ NothingBehind /\ OneIdentity
    /\ ListSaved /\ ConfigSaved

-----------------------------------------------------------------------------
(* Types *)

LEMMA TypeInvMeans == TypeInv => TypeOK
<1> SUFFICES ASSUME TypeInv PROVE TypeOK
  OBVIOUS
<1>1. ASSUME NEW files, FilesOK(files), NEW f \in File
      PROVE  files[f] \in Content(f) \cup {None, Torn} /\ (files[f] = Torn => f = "config")
  <2>1. CASE f = "identity"
    BY <1>1, <2>1, ProfileAssumption DEF FilesOK, Content
  <2>2. CASE f = "trust"
    BY <1>1, <2>2, ProfileAssumption DEF FilesOK, Content, TrustFile
  <2>3. CASE f = "config"
    BY <1>1, <2>3 DEF FilesOK, Content
  <2> QED BY <2>1, <2>2, <2>3 DEF File
<1>2. ASSUME NEW a \in Actor, job[a] # None
      PROVE  job[a].file \in File /\ job[a].content \in Content(job[a].file)
  <2>1. job[a] \in Job
    BY <1>2 DEF TypeInv
  <2> QED BY <2>1 DEF Job, File, Content, TrustFile
<1> QED BY <1>1, <1>2 DEF TypeInv, TypeOK, AppOK

LEMMA SavesTyped ==
    /\ \A id \in Identity : Pending("identity", id) \in Job \ {None}
    /\ \A file \in TrustFile : Pending("trust", file) \in Job \ {None}
    /\ \A settings \in Settings : Pending("config", settings) \in Job \ {None}
<1>1. ASSUME NEW id \in Identity PROVE Pending("identity", id) \in Job \ {None}
  <2>1. Pending("identity", id) \in [file : {"identity"}, content : Identity]
    BY DEF Pending
  <2> QED BY <2>1, ProfileAssumption DEF Job
<1>2. ASSUME NEW file \in TrustFile PROVE Pending("trust", file) \in Job \ {None}
  <2>1. Pending("trust", file) \in [file : {"trust"}, content : TrustFile]
    BY DEF Pending
  <2> QED BY <2>1, ProfileAssumption DEF Job, TrustFile
<1>3. ASSUME NEW settings \in Settings PROVE Pending("config", settings) \in Job \ {None}
  <2>1. Pending("config", settings) \in [file : {"config"}, content : Settings]
    BY DEF Pending
  <2> QED BY <2>1, ProfileAssumption DEF Job
<1> QED BY <1>1, <1>2, <1>3

LEMMA OwnedTyped ==
    ASSUME NEW id \in Identity, NEW list \in List
    PROVE  /\ Owned(id, list) \in TrustFile \ {None, Torn}
           /\ Owned(id, list).owner = id /\ Owned(id, list).list = list
BY ProfileAssumption DEF Owned, TrustFile

\* A save that begins takes its place and leaves the others alone.
LEMMA BeginsJob ==
    ASSUME TypeInv, NEW a \in Actor, NEW f, NEW content,
           Pending(f, content) \in Job, Begins(a, f, content)
    PROVE  /\ job' \in [Actor -> Job \cup {None}]
           /\ job'[a] = Pending(f, content)
           /\ \A b \in Actor \ {a} : job'[b] = job[b]
<1> DEFINE new == Pending(f, content)
<1>1. new \in Job /\ job' = [job EXCEPT ![a] = new]
  BY DEF Begins
<1>2. job \in [Actor -> Job \cup {None}]
  BY DEF TypeInv
<1> HIDE DEF new
<1>3. job' \in [Actor -> Job \cup {None}] /\ job'[a] = new /\ \A b \in Actor \ {a} : job'[b] = job[b]
  BY <1>1, <1>2
<1> QED BY <1>3 DEF new

LEMMA EndsJob ==
    ASSUME TypeInv, NEW a \in Actor, job' = [job EXCEPT ![a] = None]
    PROVE  /\ job' \in [Actor -> Job \cup {None}]
           /\ job'[a] = None
           /\ \A b \in Actor \ {a} : job'[b] = job[b]
<1>1. job \in [Actor -> Job \cup {None}]
  BY DEF TypeInv
<1> QED BY <1>1

\* What the rename of each file changes.
LEMMA RenamesFile ==
    ASSUME TypeInv, NEW f \in File, NEW content, Renames(f, content)
    PROVE  /\ disk'[f] = content
           /\ \A g \in File \ {f} : disk'[g] = disk[g]
           /\ unflushed' \subseteq File
           /\ FilesOK(kept') /\ kept' = kept
           /\ \/ f = "identity" /\ content \in Identity
              \/ f = "trust" /\ content \in TrustFile
              \/ f = "config" /\ content \in Settings
              => FilesOK(disk')
<1>1. disk \in [File -> AnyContent] /\ FilesOK(disk) /\ FilesOK(kept) /\ unflushed \subseteq File
  BY DEF TypeInv, FilesOK, AppOK
<1>2. disk' = [disk EXCEPT ![f] = content] /\ unflushed' = unflushed \cup {f} /\ kept' = kept
  BY DEF Renames
<1>3. disk'[f] = content /\ \A g \in File \ {f} : disk'[g] = disk[g]
  BY <1>1, <1>2
<1>4. content \in AnyContent => disk' \in [File -> AnyContent]
  BY <1>1, <1>2
<1>5. content \in Identity \cup Settings \cup TrustFile => content \in AnyContent
  BY DEF AnyContent
<1>6. "identity" \in File /\ "trust" \in File /\ "config" \in File
  BY DEF File
<1>7. ASSUME f = "identity", content \in Identity PROVE FilesOK(disk')
  BY <1>1, <1>3, <1>4, <1>5, <1>6, <1>7 DEF FilesOK
<1>8. ASSUME f = "trust", content \in TrustFile PROVE FilesOK(disk')
  BY <1>1, <1>3, <1>4, <1>5, <1>6, <1>8 DEF FilesOK
<1>9. ASSUME f = "config", content \in Settings PROVE FilesOK(disk')
  BY <1>1, <1>3, <1>4, <1>5, <1>6, <1>9 DEF FilesOK
<1> QED BY <1>1, <1>2, <1>3, <1>7, <1>8, <1>9

-----------------------------------------------------------------------------
(* The initial states *)

LEMMA InvInit == Init => Inv
<1> SUFFICES ASSUME Init PROVE Inv
  OBVIOUS
<1>1. disk = [f \in File |-> None] /\ kept = [f \in File |-> None]
  BY DEF Init
<1>2. /\ disk["identity"] = None /\ disk["trust"] = None /\ disk["config"] = None
      /\ kept["identity"] = None /\ kept["trust"] = None /\ kept["config"] = None
  BY <1>1 DEF File
<1>3. FilesOK(disk) /\ FilesOK(kept)
  BY <1>1, <1>2 DEF FilesOK, AnyContent
<1>4. TypeInv
  <2>1. job \in [Actor -> Job \cup {None}]
    BY DEF Init
  <2>2. trust \in List /\ config \in Settings
    BY DEF Init, List, Nobody, Settings
  <2>3. 0 \in 0..MaxIdentity
    BY ProfileAssumption
  <2>4. AppOK
    BY <2>2, <2>3 DEF Init, AppOK
  <2> QED BY <1>3, <2>1, <2>4 DEF TypeInv
<1>5. JobsOK /\ MakingOK /\ RunningOK
  BY DEF Init, JobsOK, MakingOK, RunningOK
<1>6. NothingBehind
  BY <1>1 DEF NothingBehind
<1>7. OneIdentity
  <2>1. Known = {}
    BY <1>2, ProfileAssumption DEF Known, Init
  <2> QED BY <2>1 DEF OneIdentity
<1>8. ListSaved /\ ConfigSaved
  BY <1>2 DEF Init, ListSaved, ConfigSaved, ListOnDisk, LoadedConfig, Whole
<1> QED BY <1>4, <1>5, <1>6, <1>7, <1>8 DEF Inv

-----------------------------------------------------------------------------
(* The steps *)

\* No step lets the profile know of another identity, except Create.
LEMMA KnownGrowsNot ==
    ASSUME Inv, UNCHANGED replaced,
           making' \in {making, None},
           {disk'["identity"], kept'["identity"]} \subseteq
               {disk["identity"], kept["identity"], making, None},
           \A file \in {disk'["trust"], kept'["trust"]} :
               \/ file \in {disk["trust"], kept["trust"], None}
               \/ file # None /\ file.owner \in {disk["identity"], making}
    PROVE  OneIdentity'
<1>1. None \notin Identity
  BY ProfileAssumption
<1>2. Known' \subseteq Known
  BY <1>1 DEF Known
<1> QED BY <1>2 DEF OneIdentity, Inv

\* A step that leaves the files and what is in memory alone.
LEMMA FilesStay ==
    ASSUME Inv, UNCHANGED <<diskVars, memoryVars, unsaved>>
    PROVE  /\ FilesOK(disk') /\ FilesOK(kept') /\ NothingBehind'
           /\ ListSaved' /\ ConfigSaved'
BY DEF Inv, TypeInv, FilesOK, NothingBehind, ListSaved, ConfigSaved, ListOnDisk, LoadedConfig, Whole,
       diskVars, memoryVars

LEMMA KnownStays ==
    ASSUME Inv, UNCHANGED <<diskVars, replaced>>, making' \in {making, None}
    PROVE  OneIdentity'
BY KnownGrowsNot DEF diskVars

LEMMA LaunchInv == ASSUME Inv, NEW readable \in BOOLEAN, Launch(readable) PROVE Inv'
<1> USE DEF Launch, appVars
<1>1. TypeInv'
  BY FilesStay DEF Inv, TypeInv, AppOK, diskVars, memoryVars
<1>2. JobsOK' /\ MakingOK' /\ RunningOK'
  BY DEF Inv, JobsOK, MakingOK, RunningOK, Actor
<1> QED BY <1>1, <1>2, FilesStay, KnownStays DEF Inv

LEMMA CreateInv == ASSUME Inv, Create PROVE Inv'
<1> USE DEF Create
<1>1. making' = generated' /\ making' \in Identity /\ generated' \in 0..MaxIdentity
  BY ProfileAssumption DEF Inv, TypeInv, AppOK, Identity
<1>2. Pending("identity", generated') \in Job \ {None} /\ GUI \in Actor
  BY <1>1, SavesTyped DEF Actor
<1>3. /\ job' \in [Actor -> Job \cup {None}]
      /\ job'[GUI] = Pending("identity", making')
      /\ \A b \in Actor \ {GUI} : job'[b] = job[b]
  BY <1>1, <1>2, BeginsJob DEF Inv
<1>4. TypeInv'
  <2>1. replaced' \in BOOLEAN
    OBVIOUS
  <2> QED BY <1>1, <1>3, <2>1, FilesStay DEF Inv, TypeInv, AppOK, diskVars, memoryVars
<1>5. JobsOK'
  BY <1>1, <1>3, ProfileAssumption DEF Inv, JobsOK, Actor
<1>6. MakingOK' /\ RunningOK'
  BY <1>3 DEF Inv, MakingOK, RunningOK
<1>7. OneIdentity'
  <2> SUFFICES ASSUME ~replaced' PROVE \A id, other \in Known' : id = other
    BY DEF OneIdentity
  <2>1. disk["identity"] = None /\ disk["trust"] = None
    OBVIOUS
  <2>2. kept["identity"] = None /\ kept["trust"] = None
    BY <2>1 DEF Inv, NothingBehind, File
  <2>3. disk' = disk /\ kept' = kept
    BY DEF diskVars
  <2>4. Known' \subseteq {making'}
    BY <2>1, <2>2, <2>3, ProfileAssumption DEF Known
  <2> QED BY <2>4
<1> QED BY <1>4, <1>5, <1>6, <1>7, FilesStay DEF Inv

\* While an identity is being created the other actors do nothing.
LEMMA WhileMaking ==
    ASSUME Inv, making # None
    PROVE  /\ making \in Identity /\ app = "unlock"
           /\ \A b \in Actor \ {GUI} : job[b] = None
           /\ GUI \in Actor /\ GUI \notin Thread
BY ProfileAssumption DEF Inv, TypeInv, AppOK, JobsOK, MakingOK, Actor

LEMMA GiveUpInv ==
    ASSUME Inv, making # None, GiveUp, UNCHANGED <<diskVars, app, state, self, generated, memoryVars,
                                                   unsaved, replaced>>
    PROVE  Inv'
<1>1. GUI \in Actor /\ app = "unlock" /\ making' = None
  BY WhileMaking DEF GiveUp
<1>2. job' \in [Actor -> Job \cup {None}] /\ \A a \in Actor : job'[a] = None
  BY <1>1, EndsJob, WhileMaking DEF GiveUp, Inv
<1>3. TypeInv'
  BY <1>1, <1>2, FilesStay DEF Inv, TypeInv, AppOK, diskVars, memoryVars
<1>4. JobsOK' /\ MakingOK' /\ RunningOK'
  BY <1>1, <1>2 DEF JobsOK, MakingOK, RunningOK, Actor
<1> QED BY <1>1, <1>3, <1>4, FilesStay, KnownStays DEF Inv

LEMMA LoadedConfigTyped ==
    /\ TypeInv => LoadedConfig \in Settings
    /\ TypeInv' => LoadedConfig' \in Settings
BY DEF TypeInv, FilesOK, LoadedConfig, Whole, Settings

\* Renaming a file whose content is there leaves no older copy behind it.
LEMMA RenamesOverAll ==
    ASSUME Inv, NEW f \in File, NEW content, content # None, Renames(f, content)
    PROVE  NothingBehind'
BY RenamesFile DEF Inv, NothingBehind

LEMMA FileNames == "identity" \in File /\ "trust" \in File /\ "config" \in File
BY DEF File

LEMMA IdentitySavedInv ==
    ASSUME Inv, NEW ok \in BOOLEAN, IdentitySaved(ok) PROVE Inv'
<1> USE DEF IdentitySaved
<1>1. making # None
  OBVIOUS
<1>2. CASE ~ok
  BY <1>1, <1>2, GiveUpInv DEF GiveUp, memoryVars
<1>3. CASE ok
  <2>1. /\ Renames("identity", making) /\ config' = LoadedConfig
        /\ Begins(GUI, "config", config') /\ making' = making
        /\ UNCHANGED <<app, state, self, generated, trust, unsaved, replaced>>
    BY <1>3
  <2> HIDE DEF IdentitySaved
  <2>2. making \in Identity /\ app = "unlock" /\ GUI \in Actor /\ GUI \notin Thread
    BY <1>1, WhileMaking
  <2>3. TypeInv
    BY DEF Inv
  <2>4. /\ disk'["identity"] = making
        /\ disk'["trust"] = disk["trust"] /\ disk'["config"] = disk["config"]
        /\ unflushed' \subseteq File /\ FilesOK(kept') /\ kept' = kept /\ FilesOK(disk')
    BY <2>1, <2>2, <2>3, RenamesFile, FileNames
  <2>5. config' \in Settings
    BY <2>1, <2>3, LoadedConfigTyped
  <2>6. Pending("config", config') \in Job
    BY <2>5, SavesTyped
  <2>7. /\ job' \in [Actor -> Job \cup {None}]
        /\ job'[GUI] = Pending("config", config')
        /\ \A b \in Actor \ {GUI} : job'[b] = job[b]
    BY <2>1, <2>2, <2>3, <2>6, BeginsJob
  <2>8. TypeInv'
    BY <2>1, <2>3, <2>4, <2>5, <2>7 DEF TypeInv, AppOK
  <2>9. JobsOK'
    BY <1>1, <2>1, <2>2, <2>7 DEF Inv, JobsOK, Actor
  <2>10. MakingOK' /\ RunningOK'
    BY <1>1, <2>1, <2>2, <2>4, <2>7 DEF MakingOK, RunningOK
  <2>11. NothingBehind'
    BY <1>1, <2>1, RenamesOverAll, FileNames
  <2>12. OneIdentity'
    BY <2>1, <2>4, KnownGrowsNot
  <2>13. ListSaved'
    BY <2>1, <2>4 DEF Inv, ListSaved, ListOnDisk
  <2>14. ConfigSaved'
    BY <2>1, <2>4 DEF ConfigSaved, LoadedConfig, Whole
  <2> QED BY <2>8, <2>9, <2>10, <2>11, <2>12, <2>13, <2>14 DEF Inv
<1> QED BY <1>2, <1>3

\* The save a creation is in tells how far it has come.
LEMMA MakingJob ==
    ASSUME Inv, making # None, job[GUI] # None
    PROVE  /\ job[GUI].file = "config" =>
                  job[GUI] = Pending("config", config) /\ disk["identity"] = making
           /\ job[GUI].file = "trust" =>
                  /\ job[GUI] = Pending("trust", Owned(making, Nobody))
                  /\ disk["identity"] = making /\ trust = Nobody
BY DEF Inv, MakingOK, Pending

LEMMA NobodyTyped == Nobody \in List
BY DEF Nobody, List

LEMMA SettingsSavedInv ==
    ASSUME Inv, NEW ok \in BOOLEAN, SettingsSaved(ok) PROVE Inv'
<1> USE DEF SettingsSaved
<1>1. /\ making # None /\ job[GUI] # None /\ job[GUI].file = "config"
      /\ IF ok THEN Renames("config", job[GUI].content) ELSE UNCHANGED diskVars
      /\ trust' = Nobody
      /\ Begins(GUI, "trust", Owned(making, Nobody))
      /\ unsaved' = unsaved \cup {"trust"}
      /\ UNCHANGED <<app, state, making, self, generated, config, replaced>>
  BY DEF appVars
<1> HIDE DEF SettingsSaved
<1>2. making \in Identity /\ app = "unlock" /\ GUI \in Actor /\ GUI \notin Thread
  BY <1>1, WhileMaking
<1>3. TypeInv /\ config \in Settings
  BY DEF Inv, TypeInv, AppOK
<1>4. job[GUI].content = config /\ disk["identity"] = making
  BY <1>1, MakingJob DEF Pending
<1>5. /\ disk'["identity"] = making /\ disk'["trust"] = disk["trust"]
      /\ IF ok THEN disk'["config"] = config ELSE disk'["config"] = disk["config"]
      /\ unflushed' \subseteq File /\ FilesOK(kept') /\ kept' = kept /\ FilesOK(disk')
      /\ NothingBehind'
  <2>1. CASE ok
    <3>1. Renames("config", config)
      BY <1>1, <1>4, <2>1
    <3>2. config # None
      BY <1>3, ProfileAssumption
    <3>3. "config" \in File
      BY FileNames
    <3>4. /\ disk'["config"] = config /\ \A g \in File \ {"config"} : disk'[g] = disk[g]
          /\ unflushed' \subseteq File /\ FilesOK(kept') /\ kept' = kept /\ FilesOK(disk')
      BY <1>3, <3>1, <3>3, RenamesFile
    <3>5. NothingBehind'
      BY <3>1, <3>2, <3>3, RenamesOverAll
    <3> QED BY <1>4, <2>1, <3>4, <3>5, FileNames
  <2>2. CASE ~ok
    BY <1>1, <1>3, <1>4, <2>2 DEF diskVars, TypeInv, AppOK, FilesOK, NothingBehind, Inv
  <2> QED BY <2>1, <2>2
<1>6. Pending("trust", Owned(making, Nobody)) \in Job
  BY <1>2, SavesTyped, OwnedTyped, NobodyTyped
<1>7. /\ job' \in [Actor -> Job \cup {None}]
      /\ job'[GUI] = Pending("trust", Owned(making, Nobody))
      /\ \A b \in Actor \ {GUI} : job'[b] = job[b]
  BY <1>1, <1>2, <1>3, <1>6, BeginsJob
<1>8. TypeInv'
  BY <1>1, <1>3, <1>5, <1>7, NobodyTyped, FileNames DEF TypeInv, AppOK
<1>9. JobsOK'
  BY <1>1, <1>2, <1>7 DEF Inv, JobsOK, Actor
<1>10. MakingOK' /\ RunningOK'
  BY <1>1, <1>2, <1>5, <1>7 DEF MakingOK, RunningOK
<1>11. OneIdentity'
  BY <1>1, <1>4, <1>5, KnownGrowsNot
<1>12. ListSaved'
  BY <1>1 DEF ListSaved
<1>13. ConfigSaved'
  <2>1. config \notin {None, Torn}
    BY <1>3, ProfileAssumption
  <2> QED BY <1>1, <1>5, <2>1 DEF Inv, ConfigSaved, LoadedConfig, Whole
<1> QED BY <1>5, <1>8, <1>9, <1>10, <1>11, <1>12, <1>13 DEF Inv

LEMMA TrustSavedInv ==
    ASSUME Inv, NEW ok \in BOOLEAN, TrustSaved(ok) PROVE Inv'
<1> USE DEF TrustSaved
<1>1. making # None /\ job[GUI] # None /\ job[GUI].file = "trust"
  OBVIOUS
<1>2. CASE ~ok
  BY <1>1, <1>2, GiveUpInv DEF GiveUp
<1>3. CASE ok
  <2>1. /\ Renames("trust", job[GUI].content)
        /\ job' = [job EXCEPT ![GUI] = None]
        /\ unsaved' = unsaved \ {"trust"}
        /\ UNCHANGED <<app, state, making, self, generated, trust, config, replaced>>
    BY <1>3 DEF memoryVars
  <2> HIDE DEF TrustSaved
  <2>2. making \in Identity /\ app = "unlock" /\ GUI \in Actor /\ GUI \notin Thread
    BY <1>1, WhileMaking
  <2>3. TypeInv
    BY DEF Inv
  <2> DEFINE list == Owned(making, Nobody)
  <2>4. job[GUI].content = list /\ disk["identity"] = making /\ trust = Nobody
    BY <1>1, MakingJob DEF Pending
  <2>5. list \in TrustFile \ {None, Torn} /\ list.owner = making /\ list.list = Nobody
    BY <2>2, OwnedTyped, NobodyTyped
  <2>6. Renames("trust", list)
    BY <2>1, <2>4
  <2>7. /\ disk'["identity"] = making /\ disk'["trust"] = list /\ disk'["config"] = disk["config"]
        /\ unflushed' \subseteq File /\ FilesOK(kept') /\ kept' = kept /\ FilesOK(disk')
    <3> HIDE DEF list
    <3>1. "trust" \in File
      BY FileNames
    <3>2. /\ disk'["trust"] = list /\ \A g \in File \ {"trust"} : disk'[g] = disk[g]
          /\ unflushed' \subseteq File /\ FilesOK(kept') /\ kept' = kept /\ FilesOK(disk')
      BY <2>3, <2>5, <2>6, <3>1, RenamesFile
    <3> QED BY <2>4, <3>2, FileNames
  <2>8. NothingBehind'
    BY <2>5, <2>6, RenamesOverAll, FileNames
  <2>9. job' \in [Actor -> Job \cup {None}] /\ \A a \in Actor : job'[a] = None
    BY <1>1, <2>1, <2>2, <2>3, EndsJob, WhileMaking
  <2>10. TypeInv'
    BY <2>1, <2>3, <2>7, <2>9 DEF TypeInv, AppOK
  <2>11. JobsOK'
    BY <2>9, <2>2 DEF JobsOK, Actor
  <2>12. MakingOK' /\ RunningOK'
    BY <1>1, <2>1, <2>2, <2>4, <2>7, <2>9 DEF MakingOK, RunningOK
  <2>13. OneIdentity'
    BY <1>1, <2>1, <2>4, <2>5, <2>7, KnownGrowsNot
  <2>14. ListSaved'
    BY <2>1, <2>4, <2>5, <2>7 DEF ListSaved, ListOnDisk
  <2>15. ConfigSaved'
    BY <2>1, <2>7 DEF Inv, ConfigSaved, LoadedConfig, Whole
  <2> QED BY <2>8, <2>10, <2>11, <2>12, <2>13, <2>14, <2>15 DEF Inv
<1> QED BY <1>2, <1>3

LEMMA StartNewInv ==
    ASSUME Inv, NEW ok \in BOOLEAN, StartNew(ok) PROVE Inv'
<1> USE DEF StartNew
<1>1. making # None /\ job[GUI] = None /\ making' = None
  OBVIOUS
<1>2. /\ making \in Identity /\ app = "unlock" /\ GUI \in Actor
      /\ \A a \in Actor : job[a] = None
  BY <1>1, WhileMaking
<1>3. disk["identity"] = making /\ disk["trust"] = Owned(making, trust)
  <2>1. /\ Pending("identity", making) # None /\ Pending("config", config) # None
        /\ Pending("trust", Owned(making, Nobody)) # None
    BY <1>2, SavesTyped, OwnedTyped, NobodyTyped DEF Inv, TypeInv, AppOK
  <2> QED BY <1>1, <2>1 DEF Inv, MakingOK
<1>4. disk["trust"].owner = making
  BY <1>2, <1>3, OwnedTyped DEF Inv, TypeInv, AppOK
<1>5. UNCHANGED <<diskVars, job, memoryVars, unsaved, replaced>>
  OBVIOUS
<1>6. \/ app' = "running" /\ self' = making
      \/ app' = "unlock" /\ self' = self
  BY <1>2
<1>7. TypeInv'
  BY <1>2, <1>5, <1>6, FilesStay DEF Inv, TypeInv, AppOK, diskVars, memoryVars
<1>8. JobsOK' /\ MakingOK'
  BY <1>1, <1>2, <1>5, <1>6 DEF JobsOK, MakingOK, Actor
<1>9. RunningOK'
  BY <1>1, <1>3, <1>4, <1>5, <1>6 DEF RunningOK, EngineMatchesDisk, diskVars
<1> QED BY <1>1, <1>5, <1>7, <1>8, <1>9, FilesStay, KnownStays DEF Inv

-----------------------------------------------------------------------------
LEMMA OpenMeans ==
    ASSUME Inv, Open
    PROVE  /\ self' = disk["identity"] /\ self' \in Identity
           /\ trust' = ListOnDisk /\ trust' \in List
           /\ disk["trust"] # None => disk["trust"].owner = self'
           /\ config' = LoadedConfig
<1> USE DEF Open
<1>1. /\ \E id \in Identity : IdentityLoads(id) /\ self' = id
      /\ \E list \in List : Loads(disk["identity"], list) /\ trust' = list
      /\ config' = LoadedConfig
  OBVIOUS
<1> HIDE DEF Open
<1>2. self' = disk["identity"] /\ self' \in Identity
  BY <1>1 DEF IdentityLoads
<1>3. PICK list \in List : Loads(disk["identity"], list) /\ trust' = list
  BY <1>1
<1>4. CASE disk["trust"] = None /\ list = Nobody
  BY <1>1, <1>2, <1>3, <1>4 DEF ListOnDisk
<1>5. CASE Whole("trust") /\ disk["trust"] = Owned(disk["identity"], list)
  <2>1. disk["trust"].list = list /\ disk["trust"].owner = disk["identity"]
    BY <1>2, <1>5, OwnedTyped
  <2> QED BY <1>1, <1>2, <1>3, <1>5, <2>1 DEF ListOnDisk, Whole
<1> QED BY <1>3, <1>4, <1>5 DEF Loads

LEMMA OpenInv == ASSUME Inv, Open PROVE Inv'
<1>1. /\ self' = disk["identity"] /\ self' \in Identity
      /\ trust' = ListOnDisk /\ trust' \in List
      /\ disk["trust"] # None => disk["trust"].owner = self'
      /\ config' = LoadedConfig
  BY OpenMeans
<1>2. /\ app = "unlock" /\ app' = "running" /\ making = None /\ unsaved' = {}
      /\ UNCHANGED <<disk, kept, unflushed, job, state, making, generated, replaced>>
  BY DEF Open, diskVars
<1>3. \A a \in Actor : job[a] = None
  BY <1>2 DEF Inv, JobsOK, Actor
<1>4. TypeInv'
  <2>1. config' \in Settings
    BY <1>1, LoadedConfigTyped DEF Inv
  <2> QED BY <1>1, <1>2, <2>1 DEF Inv, TypeInv, AppOK, FilesOK
<1>5. JobsOK' /\ MakingOK'
  BY <1>2, <1>3 DEF JobsOK, MakingOK
<1>6. RunningOK'
  BY <1>1, <1>2, ProfileAssumption DEF RunningOK, EngineMatchesDisk
<1>7. NothingBehind' /\ ListSaved' /\ ConfigSaved'
  BY <1>1, <1>2 DEF Inv, NothingBehind, ListSaved, ConfigSaved, ListOnDisk, LoadedConfig, Whole
<1>8. OneIdentity'
  BY <1>2, KnownStays DEF diskVars
<1> QED BY <1>4, <1>5, <1>6, <1>7, <1>8 DEF Inv

\* The mutex: a save of the trust list begins only when no other one is under
\* way, so the list that is being saved is the one in memory.
LEMMA ChangesInv ==
    ASSUME Inv, NEW a \in Actor, NEW list \in List, Changes(a, list) PROVE Inv'
<1>1. /\ app = "running" /\ job[a] = None /\ Free("trust")
      /\ trust' = list /\ Begins(a, "trust", Owned(self, list))
      /\ unsaved' = IF list = trust THEN unsaved ELSE unsaved \cup {"trust"}
      /\ UNCHANGED <<disk, kept, unflushed, app, state, making, self, generated, config, replaced>>
  BY DEF Changes, diskVars, appVars
<1>2. TypeInv /\ self \in Identity /\ making = None
  BY <1>1 DEF Inv, TypeInv, AppOK, RunningOK, MakingOK
<1>3. Pending("trust", Owned(self, list)) \in Job
  BY <1>2, SavesTyped, OwnedTyped
<1>4. /\ job' \in [Actor -> Job \cup {None}]
      /\ job'[a] = Pending("trust", Owned(self, list))
      /\ \A b \in Actor \ {a} : job'[b] = job[b]
  BY <1>1, <1>2, <1>3, BeginsJob
<1>5. TypeInv'
  BY <1>1, <1>2, <1>4 DEF TypeInv, AppOK, FilesOK, File
<1>6. JobsOK'
  <2>1. ASSUME NEW b \in Actor \ {a}, job[b] # None
        PROVE  b = GUI /\ job[b] = Pending("config", config)
    <3>1. job[b].file # "trust"
      BY <1>1, <2>1 DEF Free
    <3> QED BY <1>1, <2>1, <3>1 DEF Inv, JobsOK, Pending
  <2> QED BY <1>1, <1>4, <2>1 DEF JobsOK
<1>7. MakingOK' /\ RunningOK'
  BY <1>1, <1>2 DEF Inv, MakingOK, RunningOK, EngineMatchesDisk
<1>8. NothingBehind' /\ ListSaved' /\ ConfigSaved'
  BY <1>1 DEF Inv, NothingBehind, ListSaved, ConfigSaved, ListOnDisk, LoadedConfig, Whole
<1>9. OneIdentity'
  BY <1>1, KnownStays DEF diskVars
<1> QED BY <1>5, <1>6, <1>7, <1>8, <1>9 DEF Inv

LEMMA WithTyped ==
    ASSUME Inv, NEW d \in Device, NEW entry \in {"unknown", "trusted", "blocked"}
    PROVE  With(d, entry) \in List
BY DEF With, Inv, TypeInv, AppOK, List

LEMMA ListStepsInv ==
    ASSUME Inv,
           \/ \E d \in Device, blocked \in BOOLEAN : SetBlocked(d, blocked)
           \/ \E d \in Device : Forget(d)
           \/ \E w \in Thread : Touch(w)
           \/ \E w \in Thread, d \in Device : Pair(w, d)
    PROVE  Inv'
<1>1. GUI \in Actor /\ \A w \in Thread : w \in Actor
  BY DEF Actor
<1>2. ASSUME NEW d \in Device, NEW blocked \in BOOLEAN, SetBlocked(d, blocked) PROVE Inv'
  <2> DEFINE entry == IF trust[d] = "unknown" THEN "unknown" ELSE IF blocked THEN "blocked" ELSE "trusted"
  <2>1. entry \in {"unknown", "trusted", "blocked"}
    OBVIOUS
  <2> HIDE DEF entry
  <2>2. With(d, entry) \in List
    BY <2>1, WithTyped
  <2>3. Changes(GUI, With(d, entry))
    BY <1>2 DEF SetBlocked, entry
  <2> QED BY <1>1, <2>2, <2>3, ChangesInv
<1>3. ASSUME NEW d \in Device, Forget(d) PROVE Inv'
  BY <1>1, <1>3, WithTyped, ChangesInv DEF Forget
<1>4. ASSUME NEW w \in Thread, Touch(w) PROVE Inv'
  <2>1. trust \in List
    BY DEF Inv, TypeInv, AppOK
  <2> QED BY <1>1, <1>4, <2>1, ChangesInv DEF Touch
<1>5. ASSUME NEW w \in Thread, NEW d \in Device, Pair(w, d) PROVE Inv'
  BY <1>1, <1>5, WithTyped, ChangesInv DEF Pair
<1> QED BY <1>2, <1>3, <1>4, <1>5

LEMMA UpdateConfigInv ==
    ASSUME Inv, NEW settings \in Settings, UpdateConfig(settings) PROVE Inv'
<1>1. /\ app = "running" /\ job[GUI] = None
      /\ config' = settings /\ Begins(GUI, "config", settings)
      /\ unsaved' = IF settings = config THEN unsaved ELSE unsaved \cup {"config"}
      /\ UNCHANGED <<disk, kept, unflushed, app, state, making, self, generated, trust, replaced>>
  BY DEF UpdateConfig, diskVars, appVars
<1>2. TypeInv /\ making = None
  BY <1>1 DEF Inv, MakingOK
<1>3. Pending("config", settings) \in Job /\ GUI \in Actor
  BY SavesTyped DEF Actor
<1>4. /\ job' \in [Actor -> Job \cup {None}]
      /\ job'[GUI] = Pending("config", settings)
      /\ \A b \in Actor \ {GUI} : job'[b] = job[b]
  BY <1>1, <1>2, <1>3, BeginsJob
<1>5. TypeInv'
  BY <1>1, <1>2, <1>4 DEF TypeInv, AppOK, FilesOK, File
<1>6. JobsOK'
  <2>1. ASSUME NEW b \in Actor \ {GUI}, job[b] # None
        PROVE  job[b] = Pending("trust", Owned(self, trust))
    BY <1>1, <2>1 DEF Inv, JobsOK
  <2> QED BY <1>1, <1>4, <2>1 DEF JobsOK
<1>7. MakingOK' /\ RunningOK'
  BY <1>1, <1>2 DEF Inv, MakingOK, RunningOK, EngineMatchesDisk
<1>8. NothingBehind' /\ ListSaved' /\ ConfigSaved'
  BY <1>1 DEF Inv, NothingBehind, ListSaved, ConfigSaved, ListOnDisk, LoadedConfig, Whole
<1>9. OneIdentity'
  BY <1>1, KnownStays DEF diskVars
<1> QED BY <1>5, <1>6, <1>7, <1>8, <1>9 DEF Inv

\* A save of the trust list that ends well: the file has the list in memory.
LEMMA EndTrustInv ==
    ASSUME Inv, NEW a \in Actor, EndSave(a, TRUE), job[a] = Pending("trust", Owned(self, trust))
    PROVE  Inv'
<1> DEFINE list == Owned(self, trust)
<1>1. /\ app = "running"
      /\ job' = [job EXCEPT ![a] = None]
      /\ Renames(job[a].file, job[a].content) /\ unsaved' = unsaved \ {job[a].file}
      /\ UNCHANGED <<app, state, making, self, generated, trust, config, replaced>>
  BY DEF EndSave, appVars, memoryVars
<1>2. job[a].file = "trust" /\ job[a].content = list
  BY DEF Pending
<1>3. /\ TypeInv /\ making = None /\ self \in Identity /\ trust \in List
      /\ disk["identity"] = self /\ (disk["trust"] = None \/ disk["trust"].owner = self)
  BY <1>1 DEF Inv, TypeInv, AppOK, MakingOK, RunningOK, EngineMatchesDisk
<1>4. list \in TrustFile \ {None, Torn} /\ list.owner = self /\ list.list = trust
  BY <1>3, OwnedTyped
<1> HIDE DEF list
<1>5. Renames("trust", list) /\ unsaved' = unsaved \ {"trust"} /\ "trust" \in File
  BY <1>1, <1>2, FileNames
<1>6. /\ disk'["trust"] = list /\ \A g \in File \ {"trust"} : disk'[g] = disk[g]
      /\ unflushed' \subseteq File /\ FilesOK(kept') /\ kept' = kept /\ FilesOK(disk')
  BY <1>3, <1>4, <1>5, RenamesFile
<1>7. disk'["identity"] = self /\ disk'["config"] = disk["config"]
  BY <1>3, <1>6, FileNames
<1>8. /\ job' \in [Actor -> Job \cup {None}] /\ job'[a] = None
      /\ \A b \in Actor \ {a} : job'[b] = job[b]
  BY <1>1, <1>3, EndsJob
<1>9. TypeInv'
  BY <1>1, <1>3, <1>5, <1>6, <1>8 DEF TypeInv, AppOK
<1>10. JobsOK'
  BY <1>1, <1>8 DEF Inv, JobsOK
<1>11. MakingOK' /\ RunningOK'
  BY <1>1, <1>3, <1>4, <1>6, <1>7 DEF Inv, MakingOK, RunningOK, EngineMatchesDisk
<1>12. NothingBehind'
  BY <1>4, <1>5, RenamesOverAll
<1>13. OneIdentity'
  BY <1>1, <1>3, <1>4, <1>6, <1>7, KnownGrowsNot
<1>14. ListSaved'
  BY <1>1, <1>4, <1>6 DEF ListSaved, ListOnDisk
<1>15. ConfigSaved'
  BY <1>1, <1>5, <1>7 DEF Inv, ConfigSaved, LoadedConfig, Whole
<1> QED BY <1>9, <1>10, <1>11, <1>12, <1>13, <1>14, <1>15 DEF Inv

LEMMA EndConfigInv ==
    ASSUME Inv, NEW a \in Actor, EndSave(a, TRUE), job[a] = Pending("config", config)
    PROVE  Inv'
<1>1. /\ app = "running"
      /\ job' = [job EXCEPT ![a] = None]
      /\ Renames(job[a].file, job[a].content) /\ unsaved' = unsaved \ {job[a].file}
      /\ UNCHANGED <<app, state, making, self, generated, trust, config, replaced>>
  BY DEF EndSave, appVars, memoryVars
<1>2. job[a].file = "config" /\ job[a].content = config
  BY DEF Pending
<1>3. TypeInv /\ making = None /\ config \in Settings /\ config \notin {None, Torn}
  BY <1>1, ProfileAssumption DEF Inv, TypeInv, AppOK, MakingOK
<1>4. Renames("config", config) /\ unsaved' = unsaved \ {"config"} /\ "config" \in File
  BY <1>1, <1>2, FileNames
<1>5. /\ disk'["config"] = config /\ \A g \in File \ {"config"} : disk'[g] = disk[g]
      /\ unflushed' \subseteq File /\ FilesOK(kept') /\ kept' = kept /\ FilesOK(disk')
  BY <1>3, <1>4, RenamesFile
<1>6. disk'["identity"] = disk["identity"] /\ disk'["trust"] = disk["trust"]
  BY <1>5, FileNames
<1>7. /\ job' \in [Actor -> Job \cup {None}] /\ job'[a] = None
      /\ \A b \in Actor \ {a} : job'[b] = job[b]
  BY <1>1, <1>3, EndsJob
<1>8. TypeInv'
  BY <1>1, <1>3, <1>4, <1>5, <1>7 DEF TypeInv, AppOK
<1>9. JobsOK'
  BY <1>1, <1>7 DEF Inv, JobsOK
<1>10. MakingOK' /\ RunningOK'
  BY <1>1, <1>3, <1>6 DEF Inv, MakingOK, RunningOK, EngineMatchesDisk
<1>11. NothingBehind'
  BY <1>3, <1>4, RenamesOverAll
<1>12. OneIdentity'
  BY <1>1, <1>5, <1>6, KnownGrowsNot
<1>13. ListSaved'
  BY <1>1, <1>4, <1>6 DEF Inv, ListSaved, ListOnDisk
<1>14. ConfigSaved'
  BY <1>1, <1>3, <1>5 DEF ConfigSaved, LoadedConfig, Whole
<1> QED BY <1>8, <1>9, <1>10, <1>11, <1>12, <1>13, <1>14 DEF Inv

LEMMA EndSaveInv ==
    ASSUME Inv, NEW a \in Actor, NEW ok \in BOOLEAN, EndSave(a, ok) PROVE Inv'
<1>1. CASE ok
  <2>1. ok = TRUE
    BY <1>1
  <2>2. \/ job[a] = Pending("trust", Owned(self, trust))
        \/ job[a] = Pending("config", config)
    BY DEF EndSave, Inv, JobsOK
  <2> QED BY <2>1, <2>2, EndTrustInv, EndConfigInv
<1>2. CASE ~ok
  <2>1. /\ app = "running" /\ job' = [job EXCEPT ![a] = None]
        /\ UNCHANGED <<diskVars, appVars, memoryVars, unsaved, replaced>>
    BY <1>2 DEF EndSave
  <2>2. /\ job' \in [Actor -> Job \cup {None}] /\ job'[a] = None
        /\ \A b \in Actor \ {a} : job'[b] = job[b]
    BY <2>1, EndsJob DEF Inv
  <2>3. TypeInv'
    BY <2>1, <2>2, FilesStay DEF Inv, TypeInv, AppOK, diskVars, memoryVars, appVars
  <2>4. JobsOK'
    BY <2>1, <2>2 DEF Inv, JobsOK, appVars, memoryVars
  <2>5. MakingOK' /\ RunningOK'
    BY <2>1 DEF Inv, MakingOK, RunningOK, EngineMatchesDisk, appVars, diskVars
  <2>6. making' = making
    BY <2>1 DEF appVars
  <2> QED BY <2>1, <2>3, <2>4, <2>5, <2>6, FilesStay, KnownStays DEF Inv
<1> QED BY <1>1, <1>2

-----------------------------------------------------------------------------
LEMMA ProcessEndsInv ==
    ASSUME Inv, ProcessEnds
    PROVE  /\ job' \in [Actor -> Job \cup {None}]
           /\ JobsOK' /\ MakingOK' /\ RunningOK'
<1>1. app' = "off" /\ making' = None /\ job' = [a \in Actor |-> None]
  BY DEF ProcessEnds
<1> QED BY <1>1 DEF JobsOK, MakingOK, RunningOK

LEMMA StopInv == ASSUME Inv, Stop PROVE Inv'
<1>1. /\ ProcessEnds /\ app' = "off" /\ making' = None /\ self' = None
      /\ UNCHANGED <<diskVars, unsaved, state, generated, memoryVars, replaced>>
  BY DEF Stop, ProcessEnds
<1>2. TypeInv'
  BY <1>1, ProcessEndsInv, FilesStay DEF Inv, TypeInv, AppOK, diskVars, memoryVars
<1> QED BY <1>1, <1>2, ProcessEndsInv, FilesStay, KnownStays DEF Inv

LEMMA FlushInv == ASSUME Inv, NEW f \in File, Flush(f) PROVE Inv'
<1>1. /\ kept' = [kept EXCEPT ![f] = disk[f]] /\ unflushed' = unflushed \ {f}
      /\ UNCHANGED <<disk, job, app, state, making, self, generated, trust, config, unsaved, replaced>>
  BY DEF Flush, appVars, memoryVars
<1>2. /\ kept \in [File -> AnyContent] /\ disk \in [File -> AnyContent]
      /\ FilesOK(disk) /\ FilesOK(kept)
  BY DEF Inv, TypeInv, FilesOK
<1>3. \A g \in File : kept'[g] \in {kept[g], disk[g]}
  BY <1>1, <1>2
<1>4. kept' \in [File -> AnyContent] /\ kept'[f] = disk[f] /\ \A g \in File \ {f} : kept'[g] = kept[g]
  BY <1>1, <1>2
<1>5. FilesOK(kept')
  BY <1>2, <1>3, <1>4, FileNames DEF FilesOK
<1>6. TypeInv'
  BY <1>1, <1>5 DEF Inv, TypeInv, AppOK, FilesOK
<1>7. JobsOK' /\ MakingOK' /\ RunningOK'
  BY <1>1 DEF Inv, JobsOK, MakingOK, RunningOK, EngineMatchesDisk
<1>8. NothingBehind'
  BY <1>1, <1>4 DEF Inv, NothingBehind
<1>9. OneIdentity'
  BY <1>1, <1>3, KnownGrowsNot, FileNames
<1>10. ListSaved' /\ ConfigSaved'
  BY <1>1 DEF Inv, ListSaved, ConfigSaved, ListOnDisk, LoadedConfig, Whole
<1> QED BY <1>6, <1>7, <1>8, <1>9, <1>10 DEF Inv

LEMMA PowerFailsInv == ASSUME Inv, PowerFails PROVE Inv'
<1> DEFINE after(id, list, c) == [identity |-> id, trust |-> list, config |-> c]
<1>1. PICK id \in Survives("identity"), list \in Survives("trust"), c \in Survives("config") :
          disk' = after(id, list, c)
  BY DEF PowerFails
<1>2. /\ kept' = disk' /\ unflushed' = {} /\ ProcessEnds
      /\ unsaved' = unsaved \cup {f \in File : disk'[f] # disk[f]}
      /\ app' = "off" /\ making' = None /\ self' = None
      /\ UNCHANGED <<state, generated, trust, config, replaced>>
  BY DEF PowerFails, ProcessEnds, memoryVars
<1>3. /\ id \in {disk["identity"], kept["identity"]}
      /\ list \in {disk["trust"], kept["trust"]}
      /\ c \in {disk["config"], kept["config"], Torn}
  BY <1>1 DEF Survives, Synced
<1>4. disk'["identity"] = id /\ disk'["trust"] = list /\ disk'["config"] = c
  BY <1>1
<1>5. FilesOK(disk)  /\ FilesOK(kept)
  BY DEF Inv, TypeInv
<1>6. FilesOK(disk')
  <2>1. id \in AnyContent /\ list \in AnyContent /\ c \in AnyContent
    BY <1>3, <1>5 DEF FilesOK, AnyContent
  <2>2. disk' \in [File -> AnyContent]
    BY <1>1, <2>1 DEF File
  <2> QED BY <1>3, <1>4, <1>5, <2>2 DEF FilesOK
<1>7. TypeInv'
  BY <1>2, <1>6, ProcessEndsInv DEF Inv, TypeInv, AppOK
<1>8. NothingBehind'
  BY <1>2 DEF NothingBehind
<1>9. OneIdentity'
  BY <1>2, <1>3, <1>4, KnownGrowsNot
<1>10. ListSaved'
  <2>1. "trust" \notin unsaved' => "trust" \notin unsaved /\ disk'["trust"] = disk["trust"]
    BY <1>2, FileNames
  <2> QED BY <1>2, <2>1 DEF Inv, ListSaved, ListOnDisk
<1>11. ConfigSaved'
  <2>1. "config" \notin unsaved' => "config" \notin unsaved /\ disk'["config"] = disk["config"]
    BY <1>2, FileNames
  <2> QED BY <1>2, <2>1 DEF Inv, ConfigSaved, LoadedConfig, Whole
<1> QED BY <1>2, <1>7, <1>8, <1>9, <1>10, <1>11, ProcessEndsInv DEF Inv

LEMMA DeleteInv == ASSUME Inv, NEW f \in File, Delete(f) PROVE Inv'
<1>1. /\ app # "running" /\ making = None /\ f \in {"identity", "trust"}
      /\ disk' = [disk EXCEPT ![f] = None] /\ kept' = [kept EXCEPT ![f] = None]
      /\ unflushed' = unflushed \ {f} /\ unsaved' = unsaved \cup {f}
      /\ UNCHANGED <<job, app, state, making, self, generated, trust, config, replaced>>
  BY DEF Delete, appVars, memoryVars
<1>2. /\ kept \in [File -> AnyContent] /\ disk \in [File -> AnyContent]
      /\ FilesOK(disk) /\ FilesOK(kept)
  BY DEF Inv, TypeInv, FilesOK
<1>3. None \in AnyContent
  BY DEF AnyContent
<1>4. /\ kept' \in [File -> AnyContent] /\ disk' \in [File -> AnyContent]
      /\ disk'[f] = None /\ kept'[f] = None
      /\ \A g \in File \ {f} : disk'[g] = disk[g] /\ kept'[g] = kept[g]
  BY <1>1, <1>2, <1>3
<1>5. FilesOK(disk') /\ FilesOK(kept')
  BY <1>2, <1>4, FileNames DEF FilesOK
<1>6. TypeInv'
  BY <1>1, <1>5 DEF Inv, TypeInv, AppOK
<1>7. JobsOK' /\ MakingOK' /\ RunningOK'
  BY <1>1 DEF Inv, JobsOK, MakingOK, RunningOK
<1>8. NothingBehind'
  BY <1>4 DEF Inv, NothingBehind
<1>9. OneIdentity'
  BY <1>1, <1>4, KnownGrowsNot, FileNames
<1>10. ListSaved'
  BY <1>1, <1>4, FileNames DEF Inv, ListSaved, ListOnDisk
<1>11. ConfigSaved'
  <2>1. disk'["config"] = disk["config"]
    BY <1>1, <1>4, FileNames
  <2> QED BY <1>1, <2>1 DEF Inv, ConfigSaved, LoadedConfig, Whole
<1> QED BY <1>6, <1>7, <1>8, <1>9, <1>10, <1>11 DEF Inv

-----------------------------------------------------------------------------
(* The invariant and the theorems *)

LEMMA InvNext == Inv /\ [Next]_vars => Inv'
<1> SUFFICES ASSUME Inv, [Next]_vars PROVE Inv'
  OBVIOUS
<1>1. CASE UNCHANGED vars
  <2>1. UNCHANGED <<diskVars, memoryVars, unsaved>> /\ UNCHANGED <<job, appVars, replaced>>
    BY <1>1 DEF vars
  <2>2. TypeInv'
    BY <2>1, FilesStay DEF Inv, TypeInv, AppOK, diskVars, memoryVars, appVars
  <2>3. JobsOK' /\ MakingOK' /\ RunningOK'
    BY <2>1 DEF Inv, JobsOK, MakingOK, RunningOK, EngineMatchesDisk, diskVars, memoryVars, appVars
  <2>4. making' = making
    BY <2>1 DEF appVars
  <2> QED BY <2>1, <2>2, <2>3, <2>4, FilesStay, KnownStays DEF Inv
<1>2. CASE Unlock
  BY <1>2, LaunchInv, CreateInv, OpenInv, IdentitySavedInv, SettingsSavedInv, TrustSavedInv, StartNewInv
     DEF Unlock
<1>3. CASE Engine
  <2>1. CASE \E a \in Actor, ok \in BOOLEAN : EndSave(a, ok)
    BY <2>1, EndSaveInv
  <2>2. CASE \E settings \in Settings : UpdateConfig(settings)
    BY <2>2, UpdateConfigInv
  <2> QED BY <1>3, <2>1, <2>2, ListStepsInv DEF Engine
<1>4. CASE World
  BY <1>4, StopInv, PowerFailsInv, FlushInv, DeleteInv DEF World
<1> QED BY <1>1, <1>2, <1>3, <1>4 DEF Next

LEMMA Invariant == Spec => []Inv
BY InvInit, InvNext, PTL DEF Spec

\* A file of the profile is absent or of its kind whatever is cut off where,
\* and only settings.json, which is renamed without being synced, is ever torn.
THEOREM TypeCorrect == Spec => []TypeOK
<1>1. Inv => TypeOK
  BY TypeInvMeans DEF Inv
<1> QED BY <1>1, Invariant, PTL

\* The engine runs under the identity on disk, beside a trust list that was
\* written under it (Unlock::create_identity and open_identity in app.rs).
THEOREM RunsOnItsProfile == Spec => []EngineMatchesDisk
<1>1. Inv => EngineMatchesDisk
  BY DEF Inv, RunningOK, EngineMatchesDisk
<1> QED BY <1>1, Invariant, PTL

\* The order in which create_identity writes its files, each with a rename
\* (write_private_file in keystore.rs), leaves a profile that can be opened
\* wherever it is cut off, unless it was made over the files of an older one.
THEOREM CanBeOpened == Spec => []ProfileOpens
<1>1. Inv => ProfileOpens
  <2> SUFFICES ASSUME Inv, disk["identity"] # None, ~replaced
               PROVE  disk["identity"] # Torn /\ \E list \in List : Loads(disk["identity"], list)
    BY DEF ProfileOpens
  <2> DEFINE id == disk["identity"]  file == disk["trust"]
  <2>1. id \in Identity /\ file \in TrustFile \cup {None} /\ id # Torn
    BY ProfileAssumption DEF Inv, TypeInv, FilesOK
  <2>2. CASE file = None
    BY <2>1, <2>2, NobodyTyped DEF Loads
  <2>3. CASE file # None
    <3>1. file.owner \in Identity /\ file.list \in List /\ file = Owned(file.owner, file.list)
      BY <2>1, <2>3 DEF TrustFile, Owned
    <3>2. id \in Known /\ file.owner \in Known
      BY <2>1, <2>3, <3>1 DEF Known
    <3>3. file.owner = id
      BY <3>2 DEF Inv, OneIdentity
    <3>4. file # Torn
      BY <2>1, <2>3, ProfileAssumption DEF TrustFile
    <3>5. disk["trust"] = Owned(disk["identity"], file.list)
      BY <3>1, <3>3
    <3>6. Loads(disk["identity"], file.list)
      BY <2>3, <3>4, <3>5 DEF Loads, Whole
    <3> QED BY <2>1, <3>1, <3>6
  <2> QED BY <2>1, <2>2, <2>3
<1> QED BY <1>1, Invariant, PTL

\* A device that was forgotten or blocked is still so after a restart
\* (TrustStore::load brings back what TrustStore::save wrote last), and none
\* that was paired is lost: what the saves of several threads wrote last is
\* the list in memory, since each is made under the mutex of the list.
THEOREM ListComesBack == Spec => ListSurvives
<1>1. Inv /\ [Next]_vars => [Open => trust' = trust \/ "trust" \in unsaved]_vars
  <2> SUFFICES ASSUME Inv, Open PROVE trust' = trust \/ "trust" \in unsaved
    OBVIOUS
  <2> QED BY OpenMeans DEF Inv, ListSaved
<1> QED BY <1>1, Invariant, PTL DEF Spec, ListSurvives

\* On the unlock screen the settings change only to what was saved of them
\* before, when that save succeeded and the power held (Config::load in
\* config.rs, called by create_identity and open_identity).
THEOREM SettingsComeBack == Spec => SettingsSurvive
<1>1. Inv /\ [Next]_vars => [app = "unlock" => config' = config \/ "config" \in unsaved]_vars
  <2> SUFFICES ASSUME Inv, Next, app = "unlock" PROVE config' = config \/ "config" \in unsaved
    OBVIOUS
  <2>1. CASE config' = LoadedConfig
    BY <2>1 DEF Inv, ConfigSaved
  <2>2. CASE Unlock
    BY <2>1, <2>2 DEF Unlock, Launch, Create, Open, IdentitySaved, SettingsSaved, TrustSaved, StartNew,
                      memoryVars
  <2>3. CASE Engine
    BY <2>3 DEF Engine, EndSave, SetBlocked, Forget, Touch, Pair, Changes, UpdateConfig, memoryVars
  <2>4. CASE World
    BY <2>4 DEF World, Stop, PowerFails, ProcessEnds, Flush, Delete, memoryVars
  <2> QED BY <2>2, <2>3, <2>4 DEF Next
<1> QED BY <1>1, Invariant, PTL DEF Spec, SettingsSurvive

=============================================================================
