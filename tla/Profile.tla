------------------------------- MODULE Profile -------------------------------
(***************************************************************************)
(* What the desktop program keeps in its profile directory: the identity   *)
(* (security/keystore.rs), the trust list (security/trust.rs) and the      *)
(* settings (config.rs), from the unlock screen (app.rs) to the engine     *)
(* that changes them while it runs (engine/mod.rs).                        *)
(*                                                                         *)
(* The GUI thread creates and opens the profile and changes the trust list *)
(* and the settings; connection threads save the trust list when a paired  *)
(* device says Hello and when a pairing completes.  The process may end at *)
(* any moment (on_exit does not wait for its threads either), and so may   *)
(* the power: a rename is then undone unless the system had written it     *)
(* out, and a file renamed without being synced may be torn.               *)
(*                                                                         *)
(* A save writes a temporary file of its own and renames it: only the      *)
(* rename can be observed, so a save is pending until it is renamed or     *)
(* fails.  Passphrases and the cryptography are left out: the trust list   *)
(* can be read only under the identity it was written with.                *)
(***************************************************************************)
EXTENDS Naturals

CONSTANTS
    Device,       \* the peers that may be in the trust list
    Thread,       \* the connection threads that save it
    GUI,
    None,
    Torn,         \* a file that is there and cannot be parsed
    MaxIdentity   \* bound: identities generated

Actor == Thread \cup {GUI}

File == {"identity", "trust", "config"}

Identity == 1..MaxIdentity

List == [Device -> {"unknown", "trusted", "blocked"}]

Settings == {"default", "restricted"}

ASSUME ProfileAssumption ==
    /\ MaxIdentity \in Nat
    /\ GUI \notin Thread
    /\ \A x \in {None, Torn} : /\ x \notin Identity /\ x \notin Settings
                               /\ x \notin [owner : Identity, list : List]
    /\ None \notin [file : {"identity"}, content : Identity]
    /\ None \notin [file : {"trust"}, content : [owner : Identity, list : List]]
    /\ None \notin [file : {"config"}, content : Settings]
    /\ None # Torn

VARIABLES
    disk,        \* file -> what reading it gives
    kept,        \* file -> what it was when the system last wrote it out
    unflushed,   \* files renamed since then
    job,         \* actor -> the save it is in: a file and its new content
    app,         \* "off", on the "unlock" screen, or "running"
    state,       \* the KeystoreState the unlock screen was built with
    making,      \* the identity create_identity is at work on
    self,        \* the identity the engine runs under
    trust,       \* the trust list in memory (while off: as it was last)
    config,      \* the settings in memory (while off: as they were last)
    generated,   \* identities generated so far
    unsaved,     \* history: files that differ from memory for a known reason
    replaced     \* history: an identity was created over what an older one left

diskVars   == <<disk, kept, unflushed>>
memoryVars == <<trust, config>>
appVars    == <<app, state, making, self, generated>>
vars       == <<diskVars, job, appVars, memoryVars, unsaved, replaced>>

Nobody == [d \in Device |-> "unknown"]

Init ==
    /\ disk = [f \in File |-> None]
    /\ kept = disk
    /\ unflushed = {}
    /\ job = [a \in Actor |-> None]
    /\ app = "off" /\ state = "Missing" /\ making = None /\ self = None
    /\ trust = Nobody
    /\ config = "default"
    /\ generated = 0
    /\ unsaved = {}
    /\ replaced = FALSE

-----------------------------------------------------------------------------
(* Saving a file *)

Synced_Nothing == {}

\* write_private_file syncs the temporary file before the rename, Config::save
\* does not.
Synced == {"identity", "trust"}

Whole(f) == disk[f] \notin {None, Torn}

\* A thread holds the mutex of what is in the file while it saves it.
Free_NoLock(f) == TRUE

Free(f) == \A a \in Actor : job[a] # None => job[a].file # f

Pending(f, content) == [file |-> f, content |-> content]

Owned(id, list) == [owner |-> id, list |-> list]

Begins(a, f, content) == job' = [job EXCEPT ![a] = Pending(f, content)]

\* The rename.
Renames(f, content) ==
    /\ disk' = [disk EXCEPT ![f] = content]
    /\ unflushed' = unflushed \cup {f}
    /\ UNCHANGED kept

\* A save of the running engine ends; its errors are ignored.
EndSave(a, ok) ==
    /\ app = "running" /\ job[a] # None
    /\ job' = [job EXCEPT ![a] = None]
    /\ IF ok THEN Renames(job[a].file, job[a].content) /\ unsaved' = unsaved \ {job[a].file}
       ELSE UNCHANGED <<diskVars, unsaved>>
    /\ UNCHANGED <<appVars, memoryVars, replaced>>

-----------------------------------------------------------------------------
(* The unlock screen *)

\* Unlock::new.  Input: whether the identity can be read now: a file that
\* cannot is taken for a missing one.
Launch(readable) ==
    /\ app = "off"
    /\ app' = "unlock"
    /\ state' = IF readable /\ Whole("identity") THEN "Present" ELSE "Missing"
    /\ UNCHANGED <<diskVars, job, making, self, generated, memoryVars, unsaved, replaced>>

\* Config::load: anything but a good file gives the defaults.
LoadedConfig == IF Whole("config") THEN disk["config"] ELSE "default"

\* create_identity: a new key, which is saved first.
Create ==
    /\ app = "unlock" /\ state = "Missing" /\ making = None
    /\ generated < MaxIdentity
    /\ generated' = generated + 1
    /\ making' = generated'
    /\ Begins(GUI, "identity", generated')
    /\ replaced' = (replaced \/ disk["identity"] # None \/ disk["trust"] # None)
    /\ UNCHANGED <<diskVars, app, state, self, memoryVars, unsaved>>

\* It fails: the error is shown, and the screen stays as it was built.
GiveUp == making' = None /\ job' = [job EXCEPT ![GUI] = None]

IdentitySaved_IgnoresErrors(ok) ==
    /\ making # None /\ job[GUI] # None /\ job[GUI].file = "identity"
    /\ IF ok THEN Renames("identity", making) ELSE UNCHANGED diskVars
    /\ config' = LoadedConfig
    /\ Begins(GUI, "config", config')
    /\ UNCHANGED <<app, state, making, self, generated, trust, unsaved, replaced>>

IdentitySaved_DefaultConfig(ok) ==
    /\ making # None /\ job[GUI] # None /\ job[GUI].file = "identity"
    /\ IF ok
       THEN /\ Renames("identity", making)
            /\ config' = "default"
            /\ Begins(GUI, "config", config')
            /\ UNCHANGED making
       ELSE GiveUp /\ UNCHANGED <<diskVars, config>>
    /\ UNCHANGED <<app, state, self, generated, trust, unsaved, replaced>>

\* The identity is on disk: the settings are loaded and saved with the new name.
IdentitySaved(ok) ==
    /\ making # None /\ job[GUI] # None /\ job[GUI].file = "identity"
    /\ IF ok
       THEN /\ Renames("identity", making)
            /\ config' = LoadedConfig
            /\ Begins(GUI, "config", config')
            /\ UNCHANGED making
       ELSE GiveUp /\ UNCHANGED <<diskVars, config>>
    /\ UNCHANGED <<app, state, self, generated, trust, unsaved, replaced>>

\* Whether that worked or not, an empty trust list is saved under the new key.
SettingsSaved(ok) ==
    /\ making # None /\ job[GUI] # None /\ job[GUI].file = "config"
    /\ IF ok THEN Renames("config", job[GUI].content) ELSE UNCHANGED diskVars
    /\ trust' = Nobody
    /\ Begins(GUI, "trust", Owned(making, trust'))
    /\ unsaved' = unsaved \cup {"trust"}
    /\ UNCHANGED <<appVars, config, replaced>>

TrustSaved(ok) ==
    /\ making # None /\ job[GUI] # None /\ job[GUI].file = "trust"
    /\ IF ok
       THEN /\ Renames("trust", job[GUI].content)
            /\ job' = [job EXCEPT ![GUI] = None]
            /\ unsaved' = unsaved \ {"trust"}
            /\ UNCHANGED making
       ELSE GiveUp /\ UNCHANGED <<diskVars, unsaved>>
    /\ UNCHANGED <<app, state, self, generated, memoryVars, replaced>>

\* Running::start at the end of create_identity; the engine may fail to start.
StartNew(ok) ==
    /\ making # None /\ job[GUI] = None
    /\ making' = None
    /\ IF ok THEN app' = "running" /\ self' = making ELSE UNCHANGED <<app, self>>
    /\ UNCHANGED <<diskVars, job, state, generated, memoryVars, unsaved, replaced>>

\* TrustStore::load: no file is an empty list, a file that cannot be decrypted
\* under the identity is an error.
Loads(id, list) ==
    \/ disk["trust"] = None /\ list = Nobody
    \/ Whole("trust") /\ disk["trust"] = Owned(id, list)

\* Identity::load: the key of a file that can be parsed and decrypted.
IdentityLoads(id) == Whole("identity") /\ disk["identity"] = id

\* open_identity; when a step of it fails nothing has changed.
Open ==
    /\ app = "unlock" /\ state = "Present" /\ making = None
    /\ \E id \in Identity : IdentityLoads(id) /\ self' = id
    /\ \E list \in List : Loads(disk["identity"], list) /\ trust' = list
    /\ config' = LoadedConfig
    /\ app' = "running"
    /\ unsaved' = {}
    /\ UNCHANGED <<diskVars, job, state, making, generated, replaced>>

-----------------------------------------------------------------------------
(* The engine.  The trust list is changed and saved in one critical section. *)

Changes(a, list) ==
    /\ app = "running" /\ job[a] = None
    /\ Free("trust")
    /\ trust' = list
    /\ Begins(a, "trust", Owned(self, list))
    /\ unsaved' = IF list = trust THEN unsaved ELSE unsaved \cup {"trust"}
    /\ UNCHANGED <<diskVars, appVars, config, replaced>>

With(d, entry) == [trust EXCEPT ![d] = entry]

\* Engine::forget, Engine::set_blocked: an absent entry stays absent.
Forget(d) == Changes(GUI, With(d, "unknown"))

SetBlocked(d, blocked) ==
    Changes(GUI, With(d, IF trust[d] = "unknown" THEN "unknown"
                         ELSE IF blocked THEN "blocked" ELSE "trusted"))

\* Hello of a paired device: its name and the time are refreshed, the list is
\* saved.
Touch(w) == Changes(w, trust)

\* try_finalize_pairing (a full list is left to Pairing).
Pair(w, d) == Changes(w, With(d, "trusted"))

\* Engine::update_config
UpdateConfig(settings) ==
    /\ app = "running" /\ job[GUI] = None
    /\ config' = settings
    /\ Begins(GUI, "config", settings)
    /\ unsaved' = IF settings = config THEN unsaved ELSE unsaved \cup {"config"}
    /\ UNCHANGED <<diskVars, appVars, trust, replaced>>

-----------------------------------------------------------------------------
(* The world *)

ProcessEnds ==
    /\ app' = "off" /\ making' = None /\ self' = None
    /\ job' = [a \in Actor |-> None]
    /\ UNCHANGED <<state, generated, memoryVars, replaced>>

\* The program is closed, killed or crashes.
Stop ==
    /\ app # "off"
    /\ ProcessEnds
    /\ UNCHANGED <<diskVars, unsaved>>

\* The system writes out what it has of a file.
Flush(f) ==
    /\ f \in unflushed
    /\ kept' = [kept EXCEPT ![f] = disk[f]]
    /\ unflushed' = unflushed \ {f}
    /\ UNCHANGED <<disk, job, appVars, memoryVars, unsaved, replaced>>

\* What may be left of a file when the power fails.
Survives(f) ==
    IF f \notin unflushed THEN {disk[f]}
    ELSE {disk[f], kept[f]} \cup IF f \in Synced THEN {} ELSE {Torn}

PowerFails ==
    /\ unflushed # {}
    /\ \E id \in Survives("identity"), list \in Survives("trust"), c \in Survives("config") :
          disk' = [identity |-> id, trust |-> list, config |-> c]
    /\ kept' = disk'
    /\ unflushed' = {}
    /\ unsaved' = unsaved \cup {f \in File : disk'[f] # disk[f]}
    /\ ProcessEnds

\* The user deletes identity.json or trust.json, as the documents advise.
Delete(f) ==
    /\ app # "running" /\ making = None
    /\ f \in {"identity", "trust"} /\ disk[f] # None
    /\ disk' = [disk EXCEPT ![f] = None]
    /\ kept' = [kept EXCEPT ![f] = None]
    /\ unflushed' = unflushed \ {f}
    /\ unsaved' = unsaved \cup {f}
    /\ UNCHANGED <<job, appVars, memoryVars, replaced>>

-----------------------------------------------------------------------------
Unlock ==
    \/ \E readable \in BOOLEAN : Launch(readable)
    \/ Create \/ Open
    \/ \E ok \in BOOLEAN : IdentitySaved(ok) \/ SettingsSaved(ok) \/ TrustSaved(ok) \/ StartNew(ok)

Engine ==
    \/ \E a \in Actor, ok \in BOOLEAN : EndSave(a, ok)
    \/ \E d \in Device, blocked \in BOOLEAN : SetBlocked(d, blocked)
    \/ \E d \in Device : Forget(d)
    \/ \E w \in Thread : Touch(w)
    \/ \E w \in Thread, d \in Device : Pair(w, d)
    \/ \E settings \in Settings : UpdateConfig(settings)

World ==
    \/ Stop \/ PowerFails
    \/ \E f \in File : Flush(f) \/ Delete(f)

Next == Unlock \/ Engine \/ World

Spec == Init /\ [][Next]_vars

-----------------------------------------------------------------------------
(* Properties *)

Content(f) ==
    CASE f = "identity" -> Identity
      [] f = "trust"    -> [owner : Identity, list : List]
      [] f = "config"   -> Settings

\* Types; of all the files only the settings are ever torn.
TypeOK ==
    /\ \A f \in File :
          /\ disk[f] \in Content(f) \cup {None, Torn}
          /\ kept[f] \in Content(f) \cup {None, Torn}
          /\ Torn \in {disk[f], kept[f]} => f = "config"
    /\ unflushed \subseteq File /\ unsaved \subseteq File
    /\ \A a \in Actor : job[a] # None => job[a].file \in File /\ job[a].content \in Content(job[a].file)
    /\ app \in {"off", "unlock", "running"} /\ state \in {"Missing", "Present"}
    /\ making \in Identity \cup {None} /\ self \in Identity \cup {None}
    /\ trust \in List /\ config \in Settings
    /\ generated \in 0..MaxIdentity /\ replaced \in BOOLEAN

\* The engine never runs under a key the next start will not find, and never
\* beside a trust list that start could not read: what two users confirmed is
\* not confirmed for an identity that is gone with the process.
EngineMatchesDisk ==
    app = "running" =>
        /\ disk["identity"] = self
        /\ disk["trust"] = None \/ disk["trust"].owner = self

\* Wherever the program or the power is cut off, the profile can be opened
\* again: only an identity created over what an older one left (its file was
\* deleted or unreadable, or a creation before it did not get to the end) can
\* end up beside a trust list that it cannot decrypt.
ProfileOpens ==
    disk["identity"] # None /\ ~replaced =>
        /\ disk["identity"] # Torn
        /\ \E list \in List : Loads(disk["identity"], list)

\* A restart brings back the trust list as it was: a device that was forgotten
\* or blocked does not return, and none is lost, unless the last save did not
\* succeed, the power failed before it was written out, or the user deleted it.
ListSurvives ==
    [][Open => trust' = trust \/ "trust" \in unsaved]_vars

\* Settings the user made stricter are not loosened by a restart, nor by a new
\* identity, except after a failed save or a power failure (which may tear the
\* file: then the defaults return).
SettingsSurvive ==
    [][app = "unlock" => config' = config \/ "config" \in unsaved]_vars
=============================================================================
