----------------------------- MODULE Persistence -----------------------------
(***************************************************************************)
(* The life of one node's process and its persistence file:                *)
(*                                                                         *)
(*   network/persistence.ts  saveSnapshot(), loadSnapshot(), the periodic  *)
(*                           save                                          *)
(*   network/server.ts       start() up to where it serves, shutdown()     *)
(*                                                                         *)
(* Every await is a point where anything else may happen: a save captures  *)
(* the store at once, then opens (and truncates) the temporary file, then  *)
(* has written it, then renames it.  All saves use the same temporary      *)
(* file.  What a process holds open follows a rename: `fd' says under      *)
(* which name the file a save writes to can be found now.                  *)
(*                                                                         *)
(* The store is a function from keys to values.  Of CacheStore it keeps    *)
(* what a client can tell: a set makes room for its key if the store is    *)
(* full, whoever the policy picks, and a value set with a TTL may expire   *)
(* at any time.  What fills the store is left to the module that extends   *)
(* this one.                                                               *)
(***************************************************************************)
EXTENDS Naturals, FiniteSets

CONSTANTS
    Keys, Values,
    Mortal,     \* the values that are set with a TTL
    MaxEntries, \* INKCACHE_MAX_ENTRIES
    Absent,     \* no entry
    Torn,       \* the content of a file that is no valid JSON
    NoFile,
    Signals,    \* the signals that may arrive: SIGINT, SIGTERM
    Timer,      \* the save that the interval of startAutoPersist() started
    MaxStarts   \* bound: how often the process is started

ASSUME PersistenceAssumption ==
    /\ IsFiniteSet(Keys) /\ Absent \notin Values /\ Mortal \subseteq Values
    /\ MaxEntries \in Nat \ {0}
    /\ {Torn, NoFile} \cap [Keys -> Values \cup {Absent}] = {} /\ Torn # NoFile
    /\ Timer \notin Signals
    /\ MaxStarts \in Nat

VARIABLES
    phase,       \* "down", "loading", "syncing" or "serving" (it listens)
    store,
    autosave,    \* persistHandle's interval is running
    saves,       \* the saveSnapshot() calls, of the timer and of each signal
    shutdowns,   \* the shutdown() calls: what each awaits
    path, tmp,   \* the contents of the two files
    starts,
    overlapped,  \* history: the file stems from a save that was under way at
                 \* the same time as another
    early,       \* history: a final save is made of a store not loaded yet
    removed,     \* history: keys that left the store since the process started
    since,       \* history: for each shutdown() what the final saves captured,
                 \* from its own on
    failed,      \* history: the shutdown() calls whose final save failed
    ended        \* history: the shutdown() call that has ended the process

processVars == <<phase, autosave, shutdowns, starts>>
diskVars == <<path, tmp>>
shutdownHistory == <<since, failed, ended>>
persistHistory == <<overlapped, early, removed, shutdownHistory>>
persistVars == <<processVars, store, saves, diskVars, persistHistory>>

Stores == [Keys -> Values \cup {Absent}]
Empty == [k \in Keys |-> Absent]
Held(s) == {k \in Keys : s[k] # Absent}

(* The rows set in a store s, were there room for all of them. *)
Overlay(s, rows) == [k \in Keys |-> IF rows[k] # Absent THEN rows[k] ELSE s[k]]

(* What a store of capacity max holds after the keys `set' have been set,   *)
(* one after the other: of the keys wanted as many as fit, one of those set *)
(* among them.                                                              *)
Fitting(wanted, set, max) ==
    {kept \in SUBSET Held(wanted) :
        /\ Cardinality(kept) = IF Cardinality(Held(wanted)) < max
                               THEN Cardinality(Held(wanted)) ELSE max
        /\ set # {} => kept \cap set # {}}

Stored(wanted, set, max) ==
    {[k \in Keys |-> IF k \in kept THEN wanted[k] ELSE Absent] : kept \in Fitting(wanted, set, max)}

Saves == Signals \cup {Timer}
Idle == [step |-> "idle", payload |-> Empty, fd |-> "none", clash |-> FALSE, shared |-> FALSE]
SaveStates ==
    [step : {"idle", "captured", "opened", "written"}, payload : Stores,
     fd : {"none", "tmp", "path", "gone"}, clash : BOOLEAN, shared : BOOLEAN]

PersistInit ==
    /\ phase = "down" /\ store = Empty /\ autosave = FALSE
    /\ saves = [s \in Saves |-> Idle]
    /\ shutdowns = [s \in Signals |-> "none"]
    /\ path = NoFile /\ tmp = NoFile
    /\ starts = 0
    /\ overlapped = FALSE /\ early = FALSE /\ removed = {}
    /\ since = [s \in Signals |-> {}] /\ failed = {} /\ ended = {}

-----------------------------------------------------------------------------
(* start(). *)

StartProcess ==
    /\ phase = "down" /\ starts < MaxStarts
    /\ phase' = "loading"
    /\ starts' = starts + 1
    /\ early' = FALSE /\ removed' = {}
    /\ since' = [s \in Signals |-> {}] /\ failed' = {} /\ ended' = {}
    /\ UNCHANGED <<store, autosave, saves, shutdowns, diskVars, overlapped>>

(* The keys of `wanted' that are not in the store after the step. *)
Leave(wanted) == removed' = removed \cup {k \in Held(wanted) : store'[k] = Absent}

(* Mutant: every row is taken for malformed and skipped. *)
RowsNone(file) == Empty

(* The rows of the file; one that is missing or torn has none. *)
Rows(file) == IF file \in {NoFile, Torn} THEN Empty ELSE file

(* start() after its first await: loadSnapshot() sets what the rows say,    *)
(* the interval is started, then a replica syncs.                           *)
loadSnapshot ==
    /\ phase = "loading"
    /\ store' \in Stored(Overlay(store, Rows(path)), Held(Rows(path)), MaxEntries)
    /\ Leave(Overlay(store, Rows(path)))
    /\ autosave' = TRUE
    /\ phase' = "syncing"
    /\ UNCHANGED <<saves, shutdowns, diskVars, starts, overlapped, early, shutdownHistory>>

(* A value that was set with a TTL expires. *)
Expire(k) ==
    /\ store[k] \in Mortal
    /\ store' = [store EXCEPT ![k] = Absent]
    /\ Leave(store)
    /\ UNCHANGED <<processVars, saves, diskVars, overlapped, early, shutdownHistory>>

-----------------------------------------------------------------------------
(* saveSnapshot(). *)

Busy(s) == saves[s].step # "idle"

(* Up to the first await.  (`shared' is for the history only.) *)
Capture(s) ==
    LET others == {t \in Saves \ {s} : Busy(t)} IN
    saves' = [t \in Saves |->
        IF t = s THEN [Idle EXCEPT !.step = "captured", !.payload = store, !.shared = others # {}]
        ELSE IF t \in others THEN [saves[t] EXCEPT !.shared = TRUE]
        ELSE saves[t]]

(* The interval; a save is over before the next one is due. *)
Autosave ==
    /\ autosave /\ ~Busy(Timer)
    /\ Capture(Timer)
    /\ UNCHANGED <<processVars, store, diskVars, persistHistory>>

Writing(s) == saves[s].step = "opened"

(* Mutant: the snapshot is written over the old one, without a temporary    *)
(* file.                                                                    *)
OpenTmpInPlace(s) ==
    /\ saves[s].step = "captured"
    /\ path' = Torn
    /\ saves' = [saves EXCEPT ![s] = [@ EXCEPT !.step = "opened", !.fd = "path"]]
    /\ UNCHANGED <<processVars, store, tmp, persistHistory>>

(* writeFile() opens the file, creating or truncating it.  Two saves that   *)
(* write to it at the same time spoil each other's content.                 *)
OpenTmp(s) ==
    LET others == {t \in Saves \ {s} : Writing(t) /\ saves[t].fd = "tmp"} IN
    /\ saves[s].step = "captured"
    /\ tmp' = Torn
    /\ saves' = [t \in Saves |->
           IF t = s THEN [saves[s] EXCEPT !.step = "opened", !.fd = "tmp", !.clash = others # {}]
           ELSE IF t \in others THEN [saves[t] EXCEPT !.clash = TRUE]
           ELSE saves[t]]
    /\ UNCHANGED <<processVars, store, path, persistHistory>>

(* writeFile() is done. *)
WriteTmp(s) ==
    /\ Writing(s)
    /\ saves' = [saves EXCEPT ![s].step = "written"]
    /\ \E content \in {saves[s].payload} \cup (IF saves[s].clash THEN {Torn} ELSE {}) :
          /\ tmp' = IF saves[s].fd = "tmp" THEN content ELSE tmp
          /\ path' = IF saves[s].fd = "path" THEN content ELSE path
    /\ UNCHANGED <<processVars, store, persistHistory>>

(* The process is gone, and with it whatever it was doing. *)
Down ==
    /\ phase' = "down"
    /\ store' = Empty
    /\ autosave' = FALSE
    /\ saves' = [s \in Saves |-> Idle]
    /\ shutdowns' = [s \in Signals |-> "none"]
    /\ UNCHANGED starts

(* The save s is over, `ok' if it did not fail.  The rest of shutdown() for *)
(* a final save: if the server does not listen yet the process exits at     *)
(* once, otherwise the server is closed first.                              *)
SaveEnds(s, ok, others) ==
    /\ failed' = IF s \in Signals /\ ~ok THEN failed \cup {s} ELSE failed
    /\ UNCHANGED since
    /\ \/ /\ s \in Signals /\ phase # "serving"
          /\ Down
          /\ ended' = {s}
       \/ /\ s \in Signals /\ phase = "serving"
          /\ shutdowns' = [shutdowns EXCEPT ![s] = "close"]
          /\ saves' = [others EXCEPT ![s] = Idle]
          /\ UNCHANGED <<phase, store, autosave, starts, ended>>
       \/ /\ s = Timer
          /\ saves' = [others EXCEPT ![s] = Idle]
          /\ UNCHANGED <<processVars, store, ended>>

(* rename(): the temporary file takes the place of the old one, and who     *)
(* still writes to either holds on to it.                                   *)
Renamed == [t \in Saves |->
    [saves[t] EXCEPT !.fd = CASE @ = "tmp" -> "path" [] @ = "path" -> "gone" [] OTHER -> @]]

Rename(s) ==
    /\ saves[s].step = "written" /\ tmp # NoFile
    /\ path' = tmp /\ tmp' = NoFile
    /\ SaveEnds(s, TRUE, Renamed)
    /\ overlapped' = saves[s].shared
    /\ UNCHANGED <<early, removed>>

(* The write or the rename fails, or another save has renamed the file      *)
(* away; it is only warned about.                                           *)
SaveFails(s) ==
    /\ Busy(s)
    /\ SaveEnds(s, FALSE, saves)
    /\ UNCHANGED <<diskVars, overlapped, early, removed>>

saveSnapshot(s) == OpenTmp(s) \/ WriteTmp(s) \/ Rename(s) \/ SaveFails(s)

-----------------------------------------------------------------------------
(* shutdown(), once for every signal; a second signal starts a second one. *)

(* Up to the end of its first await, announceToGateway(). *)
Signal(s) ==
    /\ phase # "down" /\ shutdowns[s] = "none"
    /\ shutdowns' = [shutdowns EXCEPT ![s] = "deregister"]
    /\ UNCHANGED <<phase, autosave, starts, store, saves, diskVars, persistHistory>>

(* The history of a final save that begins: it is the first of its own call *)
(* and a later one of every call that has begun its own.                    *)
SaveBegins(s) ==
    /\ since' = [t \in Signals |-> IF t = s \/ since[t] # {} THEN since[t] \cup {store} ELSE {}]
    /\ early' = (early \/ phase = "loading")

(* Mutant: the interval is not stopped. *)
FinalSaveTimerRunning(s) ==
    /\ shutdowns[s] = "deregister"
    /\ shutdowns' = [shutdowns EXCEPT ![s] = "save"]
    /\ Capture(s)
    /\ SaveBegins(s)
    /\ UNCHANGED <<phase, autosave, starts, store, diskVars, overlapped, removed, failed, ended>>

(* The timers are stopped; a periodic save that was begun goes on. *)
FinalSave(s) ==
    /\ shutdowns[s] = "deregister"
    /\ shutdowns' = [shutdowns EXCEPT ![s] = "save"]
    /\ autosave' = FALSE
    /\ Capture(s)
    /\ SaveBegins(s)
    /\ UNCHANGED <<phase, starts, store, diskVars, overlapped, removed, failed, ended>>

(* The server has closed its connections, or has not within five seconds. *)
Exit(s) ==
    /\ shutdowns[s] = "close"
    /\ Down
    /\ ended' = {s}
    /\ UNCHANGED <<diskVars, overlapped, early, removed, since, failed>>

(* The process is killed.  (Nothing is flushed to the disk: what a machine  *)
(* that fails leaves of the files is not modelled.)                         *)
Kill ==
    /\ phase # "down"
    /\ Down
    /\ UNCHANGED <<diskVars, persistHistory>>

-----------------------------------------------------------------------------

PersistTypeOK ==
    /\ phase \in {"down", "loading", "syncing", "serving"}
    /\ store \in Stores
    /\ autosave \in BOOLEAN
    /\ saves \in [Saves -> SaveStates]
    /\ shutdowns \in [Signals -> {"none", "deregister", "save", "close"}]
    /\ path \in Stores \cup {Torn, NoFile}
    /\ tmp \in Stores \cup {Torn, NoFile}
    /\ starts \in 0 .. MaxStarts
    /\ overlapped \in BOOLEAN /\ early \in BOOLEAN
    /\ removed \subseteq Keys
    /\ since \in [Signals -> SUBSET Stores]
    /\ failed \subseteq Signals /\ ended \subseteq Signals

(* saveSnapshot() writes to a temporary file first: wherever the process is *)
(* killed the file is whole, as long as no two saves were under way at the  *)
(* same time: then one can rename the file the other has just truncated.    *)
TornOnlyByOverlap == path = Torn => overlapped

OnDisk(file, k) == file \notin {Torn, NoFile} /\ file[k] # Absent

(* No save takes a key from the file that did not leave the store, over any *)
(* number of restarts, unless two saves overlapped or a signal arrived      *)
(* before the file was loaded.                                              *)
FileKeepsKeys ==
    [][\A k \in Keys : OnDisk(path, k) /\ ~OnDisk(path', k) =>
           overlapped' \/ early' \/ k \in removed']_persistVars

(* shutdown(): "so whatever changed since the last periodic tick isn't      *)
(* silently lost on an otherwise-clean shutdown".  When a shutdown() whose  *)
(* own final save did not fail ends the process, the file is what that save *)
(* captured or a later final save, and not an older state, however many     *)
(* signals arrived and whichever of their saves this exit cuts short;       *)
(* unless two saves overlapped, or a signal arrived before the file was     *)
(* loaded.                                                                  *)
CleanExitSaves ==
    \A s \in ended \ failed : ~overlapped /\ ~early => path \in since[s]

=============================================================================
