-------------------------- MODULE ReplicationProofs --------------------------
(***************************************************************************)
(* Proofs about Replication and the Persistence it extends, for any number *)
(* of keys, signals, starts and writes, and stores of any capacity: the    *)
(* types; that a file is torn only when saves overlapped; that a shutdown() *)
(* that ends the process leaves what it saved, or what was saved later;    *)
(* that no save loses a key; and on which keys a replica can differ from   *)
(* its primary.                                                            *)
(***************************************************************************)
EXTENDS Replication, TLAPS

(* A save that shares its time with no other. *)
Alone(s) == Busy(s) /\ ~saves[s].shared

(* Final saves that were begun. *)
Final == {s \in Signals : shutdowns[s] \notin {"none", "deregister"}}

(* Saves at the same time know of each other; who holds a file is at work.  *)
SharersKnow ==
    /\ \A s, t \in Saves : s # t /\ Busy(s) /\ Busy(t) => saves[s].shared
    /\ \A s \in Saves : saves[s].fd # "none" => Busy(s)

(* A save that is alone has the temporary file for itself. *)
AloneOwnsTmp ==
    \A s \in Saves : Alone(s) =>
        /\ ~saves[s].clash
        /\ saves[s].step \in {"opened", "written"} => saves[s].fd = "tmp"
        /\ saves[s].step = "written" => tmp = saves[s].payload

(* The file itself is written to only after it was renamed under a save.    *)
LateWriterOverlaps == \A s \in Saves : saves[s].fd = "path" => overlapped

(* The invariant of the files. *)
FileInv == SharersKnow /\ AloneOwnsTmp /\ LateWriterOverlaps /\ TornOnlyByOverlap

(* What runs in which phase. *)
PhaseInv ==
    /\ phase = "down" =>
          ~autosave /\ (\A s \in Saves : ~Busy(s)) /\ \A s \in Signals : shutdowns[s] = "none"
    /\ phase = "loading" => ~autosave /\ ~Busy(Timer)
    /\ \A s \in Signals : Busy(s) <=> shutdowns[s] = "save"
    /\ ended # {} => phase = "down"
    /\ ~early /\ Final # {} => ~autosave /\ phase # "loading"

(* What a final save captured counts for every shutdown() that has begun    *)
(* its own by then; so one that is alone counts for all of them.  A periodic *)
(* save is not alone with them.                                             *)
SinceInv ==
    /\ \A s \in Final : since[s] # {}
    /\ \A t \in Signals : Busy(t) => saves[t].payload \in since[t]
    /\ \A t \in Signals : Alone(t) => \A s \in Final : saves[t].payload \in since[s]
    /\ ~early /\ Final # {} => ~Alone(Timer)

(* Once its final save has not failed, the file counts for a shutdown() *)
(* until saves overlap.                                                 *)
SavedInv ==
    \A s \in Final \ failed : ~Busy(s) /\ ~overlapped /\ ~early => path \in since[s]

(* The invariant of the end of a process. *)
ExitInv == PhaseInv /\ SinceInv /\ SavedInv /\ CleanExitSaves

(* The keys of the process: those in its store, and those taken from it. *)
KnownKeys == {k \in Keys : store[k] # Absent} \cup removed

(* The keys that can be read from a file. *)
FileKeys(file) == {k \in Keys : OnDisk(file, k)}

(* What is on its way to the file has no key the process does not know of,  *)
(* and a save that is alone has every key of the file that was not removed. *)
KeysInv ==
    /\ \A s \in Saves : Busy(s) => FileKeys(saves[s].payload) \subseteq KnownKeys
    /\ (\E s \in Saves : saves[s].step \in {"opened", "written"}) => FileKeys(tmp) \subseteq KnownKeys
    /\ phase \in {"syncing", "serving"} => FileKeys(path) \subseteq KnownKeys
    /\ ~early => \A s \in Saves : Alone(s) =>
          FileKeys(path) \subseteq FileKeys(saves[s].payload) \cup removed

(* The calls under way are numbered in the order of the writes. *)
Numbered ==
    /\ \A op \in wire : op.nr <= changes
    /\ \A op, other \in wire : op.nr = other.nr => op = other

(* The answer of a sync is what the primary holds, but for what was written *)
(* since, and what it evicted or let expire.                                *)
AnswerHolds ==
    sync.answer # NoFile =>
        \A k \in Keys \ sync.crossed : sync.answer[k] = primary[k] \/ k \in lostThere

(* Neither a sync nor the word of a primary belongs to a process that has not *)
(* loaded its file.                                                         *)
NothingTaken ==
    phase \in {"down", "loading"} => sync = NoSync /\ \A k \in Keys : word[k] # "taken"

(* A key that is lost is gone. *)
LostAreGone ==
    /\ \A k \in lostThere : primary[k] = Absent
    /\ \A k \in lostHere : word[k] = "taken" => store[k] = Absent

(* The invariant of what a replica was told. *)
WordInv == Numbered /\ AnswerHolds /\ NothingTaken /\ LostAreGone /\ DiffersOnlyWhereMissed

-----------------------------------------------------------------------------
(* Types. *)

(* The empty store and the idle save are of their types. *)
LEMMA EmptyType == Empty \in Stores /\ Idle \in SaveStates
<1>1. Empty \in Stores
  BY DEF Empty, Stores
<1>2. Idle \in SaveStates
  BY <1>1 DEF Idle, SaveStates
<1> QED BY <1>1, <1>2

(* The marks for a torn and for a missing file are no stores. *)
LEMMA NotAStore == /\ Torn \notin Stores /\ NoFile \notin Stores /\ Torn # NoFile
                   /\ Absent \notin Values
BY PersistenceAssumption DEF Stores

(* What a store holds after some keys were set is what they and it held, or *)
(* nothing.                                                                 *)
LEMMA StoredFacts ==
    ASSUME NEW wanted \in Stores, NEW set, NEW max, NEW s \in Stored(wanted, set, max)
    PROVE  s \in Stores /\ \A k \in Keys : s[k] \in {wanted[k], Absent}
BY DEF Stored, Stores

LEMMA OverlayType ==
    ASSUME NEW s \in Stores, NEW rows \in Stores
    PROVE  Overlay(s, rows) \in Stores
BY DEF Overlay, Stores

LEMMA RowsType ==
    ASSUME NEW file \in Stores \cup {Torn, NoFile}
    PROVE  Rows(file) \in Stores
BY EmptyType DEF Rows

(* An operation applied to a store gives a store: it holds what the operation *)
(* says of its keys, what it held of the others, or nothing.                *)
LEMMA AppliedFacts ==
    ASSUME NEW s \in Stores, NEW op \in Ops, NEW max, NEW t \in Applied(s, op, max)
    PROVE  /\ t \in Stores /\ op.keys \subseteq Keys
           /\ Apply(s, op) \in Stores
           /\ \A k \in Keys : Apply(s, op)[k] = IF k \in op.keys THEN op.value ELSE s[k]
           /\ \A k \in Keys : t[k] \in {Apply(s, op)[k], Absent}
           /\ op.value = Absent => t = Apply(s, op)
<1>1. op.value \in Values \cup {Absent} /\ op.keys \subseteq Keys
  BY ReplicationAssumption DEF Ops
<1>2. /\ Apply(s, op) \in Stores
      /\ \A k \in Keys : Apply(s, op)[k] = IF k \in op.keys THEN op.value ELSE s[k]
  BY <1>1 DEF Apply, Stores
<1>3. CASE op.value = Absent
  BY <1>1, <1>2, <1>3 DEF Applied
<1>4. CASE op.value # Absent
  BY <1>1, <1>2, <1>4, StoredFacts DEF Applied
<1> QED BY <1>3, <1>4

(* Keys that are gone are keys. *)
LEMMA GoneFacts ==
    ASSUME NEW before, NEW wanted, NEW now
    PROVE  /\ Gone(before, wanted, now) \subseteq Keys
           /\ \A k \in Keys : k \in Gone(before, wanted, now) <=>
                  now[k] = Absent /\ (k \in before \/ wanted[k] # Absent)
BY DEF Gone

(* The files and the histories are of their type, and so are the parts of a *)
(* process.                                                                 *)
DiskTypeOK ==
    /\ path \in Stores \cup {Torn, NoFile}
    /\ tmp \in Stores \cup {Torn, NoFile}

HistoryTypeOK ==
    /\ overlapped \in BOOLEAN /\ early \in BOOLEAN
    /\ removed \subseteq Keys
    /\ since \in [Signals -> SUBSET Stores]
    /\ failed \subseteq Signals /\ ended \subseteq Signals

ProcessTypeOK ==
    /\ phase \in {"down", "loading", "syncing", "serving"}
    /\ autosave \in BOOLEAN
    /\ shutdowns \in [Signals -> {"none", "deregister", "save", "close"}]
    /\ starts \in 0 .. MaxStarts

(* What syncFromPrimary() goes through. *)
SyncStates == [attempt : 0 .. maxAttempts, answer : Stores \cup {NoFile}, crossed : SUBSET Keys]

(* PersistTypeOK in its parts, before and after a step. *)
LEMMA PersistTypeParts ==
    /\ PersistTypeOK <=>
           /\ ProcessTypeOK /\ DiskTypeOK /\ HistoryTypeOK
           /\ store \in Stores /\ saves \in [Saves -> SaveStates]
    /\ PersistTypeOK' <=>
           /\ ProcessTypeOK' /\ DiskTypeOK' /\ HistoryTypeOK'
           /\ store' \in Stores /\ saves' \in [Saves -> SaveStates]
BY DEF PersistTypeOK, ProcessTypeOK, DiskTypeOK, HistoryTypeOK

(* The initial states are of the right type. *)
LEMMA InitTypeOK == Init => TypeOK
<1> SUFFICES ASSUME Init PROVE TypeOK
  OBVIOUS
<1> USE DEF Init, PersistInit
<1>1. saves \in [Saves -> SaveStates] /\ store \in Stores /\ primary \in Stores
  BY EmptyType
<1>2. ProcessTypeOK
  <2>1. starts \in 0 .. MaxStarts
    BY PersistenceAssumption
  <2>2. autosave \in BOOLEAN
    OBVIOUS
  <2> QED BY <2>1, <2>2 DEF ProcessTypeOK
<1>3. DiskTypeOK
  BY DEF DiskTypeOK
<1>4. HistoryTypeOK
  BY DEF HistoryTypeOK
<1>5. wire \subseteq Ops /\ lostThere \subseteq Keys /\ lostHere \subseteq Keys
  OBVIOUS
<1>6. sync \in SyncStates
  BY ReplicationAssumption DEF NoSync, SyncStates
<1>7. changes \in 0 .. MaxChanges
  BY ReplicationAssumption
<1>8. word \in [Keys -> Words]
  BY DEF Words
<1> QED BY <1>1, <1>2, <1>3, <1>4, <1>5, <1>6, <1>7, <1>8, PersistTypeParts DEF TypeOK, SyncStates

(* saveSnapshot(): the types of the saves when one begins, ends, or goes on, *)
(* and of the process when it is gone.                                      *)
LEMMA CaptureType ==
    ASSUME PersistTypeOK, NEW s \in Saves, Capture(s)
    PROVE  saves' \in [Saves -> SaveStates]
<1> USE DEF PersistTypeOK
<1>1. \A b \in BOOLEAN :
          [Idle EXCEPT !.step = "captured", !.payload = store, !.shared = b] \in SaveStates
  BY EmptyType DEF SaveStates
<1>2. \A t \in Saves : [saves[t] EXCEPT !.shared = TRUE] \in SaveStates
  BY DEF SaveStates
<1> QED BY <1>1, <1>2 DEF Capture

LEMMA DownType ==
    ASSUME PersistTypeOK, Down
    PROVE  ProcessTypeOK' /\ store' \in Stores /\ saves' \in [Saves -> SaveStates]
<1>1. store' \in Stores /\ saves' \in [Saves -> SaveStates]
  BY EmptyType DEF Down
<1>2. shutdowns' \in [Signals -> {"none", "deregister", "save", "close"}]
  BY DEF Down
<1>3. autosave' \in BOOLEAN
  BY DEF Down
<1>4. ProcessTypeOK'
  BY <1>2, <1>3 DEF Down, PersistTypeOK, ProcessTypeOK
<1> QED BY <1>1, <1>4

LEMMA SaveEndsType ==
    ASSUME PersistTypeOK, NEW s \in Saves, NEW ok \in BOOLEAN,
           NEW others \in [Saves -> SaveStates], SaveEnds(s, ok, others)
    PROVE  /\ ProcessTypeOK' /\ store' \in Stores /\ saves' \in [Saves -> SaveStates]
           /\ since' = since /\ failed' \subseteq Signals /\ ended' \subseteq Signals
<1>0. since' = since /\ failed' \subseteq Signals
  BY DEF SaveEnds, PersistTypeOK
<1>1. CASE s \in Signals /\ phase # "serving" /\ Down /\ ended' = {s}
  BY <1>0, <1>1, DownType
<1>2. CASE /\ s \in Signals /\ phase = "serving"
           /\ shutdowns' = [shutdowns EXCEPT ![s] = "close"]
           /\ saves' = [others EXCEPT ![s] = Idle]
           /\ UNCHANGED <<phase, store, autosave, starts, ended>>
  <2>1. shutdowns' \in [Signals -> {"none", "deregister", "save", "close"}]
    BY <1>2 DEF PersistTypeOK
  <2>2. ProcessTypeOK'
    BY <1>2, <2>1 DEF PersistTypeOK, ProcessTypeOK
  <2>3. saves' \in [Saves -> SaveStates]
    BY <1>2, EmptyType
  <2> QED BY <1>0, <1>2, <2>2, <2>3 DEF PersistTypeOK
<1>3. CASE /\ s = Timer /\ saves' = [others EXCEPT ![s] = Idle]
           /\ UNCHANGED <<processVars, store, ended>>
  <2>1. saves' \in [Saves -> SaveStates]
    BY <1>3, EmptyType
  <2> QED BY <1>0, <1>3, <2>1 DEF PersistTypeOK, ProcessTypeOK, processVars
<1> QED BY <1>1, <1>2, <1>3 DEF SaveEnds

LEMMA SaveType ==
    ASSUME PersistTypeOK, NEW s \in Saves, saveSnapshot(s)
    PROVE  PersistTypeOK'
<1> USE DEF PersistTypeOK
<1>1. CASE OpenTmp(s)
  <2>1. \A t \in Saves : [saves[t] EXCEPT !.clash = TRUE] \in SaveStates
    BY DEF SaveStates
  <2>2. \A b \in BOOLEAN :
            [saves[s] EXCEPT !.step = "opened", !.fd = "tmp", !.clash = b] \in SaveStates
    BY DEF SaveStates
  <2>3. saves' \in [Saves -> SaveStates]
    BY <1>1, <2>1, <2>2 DEF OpenTmp
  <2>4. DiskTypeOK'
    BY <1>1 DEF OpenTmp, DiskTypeOK
  <2> QED BY <1>1, <2>3, <2>4 DEF OpenTmp, DiskTypeOK, processVars, persistHistory, shutdownHistory
<1>2. CASE WriteTmp(s)
  <2>1. saves' \in [Saves -> SaveStates]
    BY ZenonT(30), <1>2 DEF WriteTmp, SaveStates
  <2>2. saves[s].payload \in Stores
    BY DEF SaveStates
  <2>3. DiskTypeOK'
    BY <1>2, <2>2 DEF WriteTmp, DiskTypeOK
  <2> QED BY <1>2, <2>1, <2>3 DEF WriteTmp, DiskTypeOK, processVars, persistHistory, shutdownHistory
<1>3. CASE Rename(s)
  <2>1. Renamed \in [Saves -> SaveStates]
    BY DEF Renamed, SaveStates
  <2>2. SaveEnds(s, TRUE, Renamed)
    BY <1>3 DEF Rename
  <2>3. /\ ProcessTypeOK' /\ store' \in Stores /\ saves' \in [Saves -> SaveStates]
        /\ since' = since /\ failed' \subseteq Signals /\ ended' \subseteq Signals
    BY <2>1, <2>2, SaveEndsType
  <2>4. saves[s].shared \in BOOLEAN
    BY DEF SaveStates
  <2>5. HistoryTypeOK' /\ DiskTypeOK'
    BY <1>3, <2>3, <2>4 DEF Rename, HistoryTypeOK, DiskTypeOK
  <2> QED BY <2>3, <2>5, PersistTypeParts
<1>4. CASE SaveFails(s)
  <2>1. SaveEnds(s, FALSE, saves)
    BY <1>4 DEF SaveFails
  <2>2. /\ ProcessTypeOK' /\ store' \in Stores /\ saves' \in [Saves -> SaveStates]
        /\ since' = since /\ failed' \subseteq Signals /\ ended' \subseteq Signals
    BY <2>1, SaveEndsType
  <2>3. HistoryTypeOK' /\ DiskTypeOK'
    BY <1>4, <2>2 DEF SaveFails, HistoryTypeOK, DiskTypeOK, diskVars
  <2> QED BY <2>2, <2>3, PersistTypeParts
<1> QED BY <1>1, <1>2, <1>3, <1>4 DEF saveSnapshot

(* Every step of the process keeps the types. *)
LEMMA PersistStepType ==
    ASSUME PersistTypeOK,
           \/ StartProcess \/ loadSnapshot \/ Autosave \/ Kill
           \/ \E s \in Saves : saveSnapshot(s)
           \/ \E s \in Signals : Signal(s) \/ FinalSave(s) \/ Exit(s)
    PROVE  PersistTypeOK'
<1>0. starts < MaxStarts => starts + 1 \in 0 .. MaxStarts
  <2>1. starts \in 0 .. MaxStarts /\ MaxStarts \in Nat
    BY PersistenceAssumption DEF PersistTypeOK
  <2> QED BY <2>1
<1> USE PersistTypeParts
<1>1. CASE StartProcess
  <2>1. starts' \in 0 .. MaxStarts
    BY <1>0, <1>1 DEF StartProcess
  <2>2. ProcessTypeOK'
    BY <1>1, <2>1 DEF StartProcess, ProcessTypeOK
  <2>3. HistoryTypeOK'
    BY <1>1 DEF StartProcess, HistoryTypeOK
  <2> QED BY <1>1, <2>2, <2>3 DEF StartProcess, DiskTypeOK, diskVars
<1>2. CASE loadSnapshot
  <2>1. store' \in Stores
    BY <1>2, RowsType, OverlayType, StoredFacts DEF loadSnapshot, DiskTypeOK
  <2>2. ProcessTypeOK'
    BY <1>2 DEF loadSnapshot, ProcessTypeOK
  <2>3. removed' \subseteq Keys
    BY <1>2 DEF loadSnapshot, Leave, Held, HistoryTypeOK
  <2> QED BY <1>2, <2>1, <2>2, <2>3 DEF loadSnapshot, DiskTypeOK, HistoryTypeOK, diskVars,
                                        shutdownHistory
<1>3. CASE Autosave
  <2>1. saves' \in [Saves -> SaveStates]
    BY <1>3, CaptureType DEF Autosave, Saves
  <2> QED BY <1>3, <2>1 DEF Autosave, ProcessTypeOK, DiskTypeOK, HistoryTypeOK,
                            processVars, diskVars, persistHistory, shutdownHistory
<1>4. CASE Kill
  <2>1. ProcessTypeOK' /\ store' \in Stores /\ saves' \in [Saves -> SaveStates]
    BY <1>4, DownType DEF Kill
  <2> QED BY <1>4, <2>1 DEF Kill, DiskTypeOK, HistoryTypeOK, diskVars, persistHistory,
                            shutdownHistory
<1>5. ASSUME NEW s \in Saves, saveSnapshot(s) PROVE PersistTypeOK'
  BY <1>5, SaveType
<1>6. ASSUME NEW s \in Signals, Signal(s) PROVE PersistTypeOK'
  <2>1. ProcessTypeOK'
    BY <1>6 DEF Signal, ProcessTypeOK
  <2> QED BY <1>6, <2>1 DEF Signal, DiskTypeOK, HistoryTypeOK, diskVars, persistHistory,
                            shutdownHistory
<1>7. ASSUME NEW s \in Signals, FinalSave(s) PROVE PersistTypeOK'
  <2>1. saves' \in [Saves -> SaveStates]
    BY <1>7, CaptureType DEF FinalSave, Saves
  <2>2. ProcessTypeOK'
    BY <1>7 DEF FinalSave, ProcessTypeOK
  <2>3. early' \in BOOLEAN
    BY <1>7 DEF FinalSave, SaveBegins
  <2>4. since' \in [Signals -> SUBSET Stores]
    BY <1>7 DEF FinalSave, SaveBegins, HistoryTypeOK
  <2>5. HistoryTypeOK'
    BY <1>7, <2>3, <2>4 DEF FinalSave, HistoryTypeOK
  <2> QED BY <1>7, <2>1, <2>2, <2>5 DEF FinalSave, DiskTypeOK, diskVars
<1>8. ASSUME NEW s \in Signals, Exit(s) PROVE PersistTypeOK'
  <2>1. ProcessTypeOK' /\ store' \in Stores /\ saves' \in [Saves -> SaveStates]
    BY <1>8, DownType DEF Exit
  <2>2. HistoryTypeOK'
    BY <1>8 DEF Exit, HistoryTypeOK
  <2> QED BY <1>8, <2>1, <2>2 DEF Exit, DiskTypeOK, diskVars
<1> QED BY <1>1, <1>2, <1>3, <1>4, <1>5, <1>6, <1>7, <1>8

(* The steps of the process and its files, as Replication takes them. *)
PersistStep ==
    \/ StartProcess \/ loadSnapshot \/ Autosave \/ Kill
    \/ \E s \in Saves : saveSnapshot(s)
    \/ \E s \in Signals : Signal(s) \/ FinalSave(s) \/ Exit(s)

(* Next, with the four write handlers as one kind of step. *)
LEMMA NextSteps ==
    ASSUME TypeOK, Next
    PROVE  \/ Stays(PersistStep)
           \/ \E k \in Keys : ExpireHere(k) \/ ExpireThere(k)
           \/ \E op \in Ops : Write(op)
           \/ \E entries \in Stores : Restore(entries)
           \/ \E op \in wire : Deliver(op) \/ Lose(op)
           \/ Ask \/ Snapshot \/ SyncDone \/ SyncFails
           \/ \E newStore \in Stores : LeaderElected(newStore)
<1>0. ASSUME NEW op, Write(op) PROVE changes + 1 \in 1 .. MaxChanges
  BY <1>0, ReplicationAssumption DEF Write, TypeOK
<1>1. ASSUME NEW k \in Keys, NEW v \in Values, Set(k, v) PROVE \E op \in Ops : Write(op)
  BY <1>0, <1>1 DEF Set, Ops
<1>2. ASSUME NEW k \in Keys, Delete(k) PROVE \E op \in Ops : Write(op)
  BY <1>0, <1>2 DEF Delete, Ops
<1>3. ASSUME NEW prefixSet \in PrefixSets, Invalidate(prefixSet) PROVE \E op \in Ops : Write(op)
  BY <1>0, <1>3 DEF Invalidate, Ops
<1>4. ASSUME Flush PROVE \E op \in Ops : Write(op)
  BY <1>0, <1>4 DEF Flush, Ops
<1> QED BY <1>1, <1>2, <1>3, <1>4 DEF Next, ReplicaNext, SaveNext, PersistStep, Stays

(* The values syncFromPrimary() goes through, and what follows it in start(). *)
LEMMA SyncTypes ==
    ASSUME TypeOK
    PROVE  /\ sync \in SyncStates /\ NoSync \in SyncStates
           /\ \A a \in Stores \cup {NoFile} : [sync EXCEPT !.answer = a] \in SyncStates
           /\ \A n \in 0 .. maxAttempts : [NoSync EXCEPT !.attempt = n] \in SyncStates
           /\ [sync EXCEPT !.attempt = 1] \in SyncStates
           /\ \A S \in SUBSET Keys : Cross(S) => sync' \in SyncStates
BY ReplicationAssumption DEF TypeOK, NoSync, SyncStates, Cross

LEMMA ListenType ==
    ASSUME PersistTypeOK, Listen, UNCHANGED <<autosave, shutdowns, starts>>
    PROVE  ProcessTypeOK'
BY DEF Listen, PersistTypeOK, ProcessTypeOK

(* A step that leaves the process alone keeps its types. *)
LEMMA PersistSame ==
    ASSUME PersistTypeOK, UNCHANGED persistVars
    PROVE  PersistTypeOK'
BY DEF PersistTypeOK, persistVars, processVars, diskVars, persistHistory, shutdownHistory

(* Every step of the replica and its primary keeps the types. *)
LEMMA NextTypeOK == TypeOK /\ [Next]_vars => TypeOK'
<1> SUFFICES ASSUME TypeOK, [Next]_vars PROVE TypeOK'
  OBVIOUS
<1> USE PersistTypeParts, SyncTypes, PersistSame
<1>0. changes < MaxChanges => changes + 1 \in 0 .. MaxChanges
  BY ReplicationAssumption DEF TypeOK
<1>00. /\ \A S : [k \in Keys |-> IF k \in S THEN "sent" ELSE word[k]] \in [Keys -> Words]
       /\ "missed" \in Words /\ "taken" \in Words /\ "sent" \in Words
       /\ \A k \in Keys : word[k] \in Words
  BY DEF TypeOK, Words
<1>1. CASE Stays(PersistStep)
  <2>1. PersistTypeOK'
    BY <1>1, PersistStepType DEF Stays, PersistStep, TypeOK
  <2>2. word' \in [Keys -> Words] /\ sync' \in SyncStates
    BY <1>00, <1>1 DEF Stays
  <2> QED BY <1>1, <2>1, <2>2 DEF Stays, TypeOK, SyncStates, lost
<1>2. ASSUME NEW op \in Ops, Write(op) PROVE TypeOK'
  <2>1. primary' \in Stores /\ op.keys \subseteq Keys
    BY <1>2, AppliedFacts DEF Write, TypeOK
  <2>2. sync' \in SyncStates /\ word' \in [Keys -> Words] /\ lostThere' \subseteq Keys
    BY <1>00, <1>2, <2>1, GoneFacts DEF Write
  <2>3. wire' \subseteq Ops
    BY <1>2 DEF Write, TypeOK, forwardToReplicas
  <2> QED BY <1>0, <1>2, <2>1, <2>2, <2>3 DEF Write, TypeOK, SyncStates
<1>3. ASSUME NEW entries \in Stores, Restore(entries) PROVE TypeOK'
  <2>1. primary' \in Stores
    BY <1>3, OverlayType, StoredFacts DEF Restore, TypeOK
  <2>2. sync' \in SyncStates /\ word' \in [Keys -> Words] /\ lostThere' \subseteq Keys
    <3>1. Held(entries) \subseteq Keys
      BY DEF Held
    <3> QED BY <1>00, <1>3, <3>1, GoneFacts DEF Restore
  <2> QED BY <1>0, <1>3, <2>1, <2>2 DEF Restore, TypeOK, SyncStates
<1>4. ASSUME NEW op \in wire, Deliver(op) PROVE TypeOK'
  <2>1. store' \in Stores
    BY <1>4, AppliedFacts DEF Deliver, TypeOK
  <2>2. word' \in [Keys -> Words] /\ lostHere' \subseteq Keys
    BY <1>00, <1>4, GoneFacts DEF Deliver
  <2>3. HistoryTypeOK'
    BY <1>4 DEF Deliver, Leave, Held, TypeOK, HistoryTypeOK, shutdownHistory
  <2> QED BY <1>4, <2>1, <2>2, <2>3 DEF Deliver, TypeOK, ProcessTypeOK, DiskTypeOK,
                                        processVars, diskVars
<1>5. ASSUME NEW op \in wire, Lose(op) PROVE TypeOK'
  <2>1. word' \in [Keys -> Words]
    BY <1>00, <1>5 DEF Lose
  <2> QED BY <1>5, <2>1 DEF Lose, TypeOK, lost
<1>6. CASE Ask
  BY <1>6 DEF Ask, TypeOK, SyncStates, lost
<1>7. CASE Snapshot
  BY <1>7 DEF Snapshot, TypeOK, SyncStates, lost
<1>8. CASE SyncDone
  <2>1. sync.answer \in Stores
    BY <1>8 DEF SyncDone, TypeOK
  <2>2. store' \in Stores
    BY <1>8, <2>1, OverlayType, StoredFacts DEF SyncDone, TypeOK
  <2>3. ProcessTypeOK'
    BY <1>8, ListenType DEF SyncDone, TypeOK
  <2>4. word' \in [Keys -> Words] /\ lostHere' \subseteq Keys
    BY <1>00, <1>8, GoneFacts DEF SyncDone, Brought
  <2>5. HistoryTypeOK'
    BY <1>8 DEF SyncDone, Leave, Held, TypeOK, HistoryTypeOK, shutdownHistory
  <2> QED BY <1>8, <2>2, <2>3, <2>4, <2>5 DEF SyncDone, TypeOK, SyncStates, DiskTypeOK, diskVars
<1>9. CASE SyncFails
  <2>1. ProcessTypeOK'
    BY <1>9, ListenType DEF SyncFails, TypeOK, ProcessTypeOK
  <2>2. sync' \in SyncStates
    BY <1>9, ReplicationAssumption DEF SyncFails, SyncStates
  <2> QED BY <1>9, <2>1, <2>2 DEF SyncFails, TypeOK, SyncStates, DiskTypeOK, HistoryTypeOK,
                                  diskVars, persistHistory, shutdownHistory, lost
<1>10. ASSUME NEW newStore \in Stores, LeaderElected(newStore) PROVE TypeOK'
  <2>1. word' \in [Keys -> Words]
    BY <1>00, <1>10 DEF LeaderElected
  <2> QED BY <1>0, <1>10, <2>1 DEF LeaderElected, TypeOK, SyncStates
<1>11. ASSUME NEW k \in Keys, ExpireHere(k) PROVE TypeOK'
  <2>1. store' \in Stores
    BY <1>11 DEF ExpireHere, Expire, TypeOK, Stores
  <2>2. HistoryTypeOK'
    BY <1>11 DEF ExpireHere, Expire, Leave, Held, TypeOK, HistoryTypeOK, shutdownHistory
  <2> QED BY <1>11, <2>1, <2>2 DEF ExpireHere, Expire, TypeOK, ProcessTypeOK, DiskTypeOK,
                                   processVars, diskVars
<1>12. ASSUME NEW k \in Keys, ExpireThere(k) PROVE TypeOK'
  <2>1. primary' \in Stores
    BY <1>12 DEF ExpireThere, TypeOK, Stores
  <2> QED BY <1>12, <2>1 DEF ExpireThere, TypeOK
<1>13. CASE UNCHANGED vars
  BY <1>13 DEF vars, replVars, lost, TypeOK
<1> QED BY <1>1, <1>2, <1>3, <1>4, <1>5, <1>6, <1>7, <1>8, <1>9, <1>10, <1>11, <1>12, <1>13, NextSteps

(* TypeOK holds in every reachable state: in particular the attempts of     *)
(* syncFromPrimary() stay within maxAttempts, and only operations that the  *)
(* write handlers forward are ever on the wire.                             *)
THEOREM TypeCorrect == Spec => []TypeOK
BY InitTypeOK, NextTypeOK, PTL DEF Spec

-----------------------------------------------------------------------------
(* What the steps of a save do, save by save. *)

(* A save that begins shares its time with the ones under way, and they with *)
(* it.                                                                      *)
LEMMA CaptureFacts ==
    ASSUME PersistTypeOK, NEW s \in Saves, Capture(s)
    PROVE  /\ saves'[s].step = "captured" /\ saves'[s].payload = store
           /\ saves'[s].fd = "none" /\ saves'[s].clash = FALSE
           /\ saves'[s].shared <=> \E t \in Saves : t # s /\ Busy(t)
           /\ \A t \in Saves \ {s} :
                 /\ saves'[t].step = saves[t].step /\ saves'[t].payload = saves[t].payload
                 /\ saves'[t].fd = saves[t].fd /\ saves'[t].clash = saves[t].clash
                 /\ Busy(t) => saves'[t].shared
                 /\ ~Busy(t) => saves'[t] = saves[t]
BY EmptyType DEF PersistTypeOK, Capture, SaveStates, Idle

(* A process that is gone saves nothing. *)
LEMMA DownFacts ==
    ASSUME Down
    PROVE  \A s \in Saves : saves'[s] = Idle
BY DEF Down

(* What an idle save holds. *)
LEMMA IdleFacts ==
    /\ Idle.step = "idle" /\ Idle.fd = "none" /\ Idle.payload = Empty
    /\ ~Idle.clash /\ ~Idle.shared
BY DEF Idle

(* writeFile() opens the file: whoever writes to it at that time is spoiled. *)
LEMMA OpenTmpFacts ==
    ASSUME PersistTypeOK, NEW s \in Saves, OpenTmp(s)
    PROVE  /\ saves[s].step = "captured" /\ saves'[s].step = "opened" /\ saves'[s].fd = "tmp"
           /\ saves'[s].clash <=> \E t \in Saves : t # s /\ Writing(t) /\ saves[t].fd = "tmp"
           /\ \A t \in Saves \ {s} :
                 /\ saves'[t].step = saves[t].step /\ saves'[t].fd = saves[t].fd
                 /\ (saves'[t].clash <=> saves[t].clash) \/ Writing(t)
           /\ \A t \in Saves :
                 /\ saves'[t].payload = saves[t].payload /\ saves'[t].shared = saves[t].shared
BY DEF PersistTypeOK, OpenTmp, SaveStates

(* writeFile() ends: the content is the payload, or torn after a clash. *)
LEMMA WriteTmpFacts ==
    ASSUME PersistTypeOK, NEW s \in Saves, WriteTmp(s)
    PROVE  /\ saves[s].step = "opened" /\ saves'[s].step = "written"
           /\ \A t \in Saves \ {s} : saves'[t].step = saves[t].step
           /\ \A t \in Saves :
                 /\ saves'[t].payload = saves[t].payload /\ saves'[t].shared = saves[t].shared
                 /\ saves'[t].fd = saves[t].fd /\ saves'[t].clash = saves[t].clash
           /\ \E content \in Stores \cup {Torn} :
                 /\ content = saves[s].payload \/ (saves[s].clash /\ content = Torn)
                 /\ tmp' = IF saves[s].fd = "tmp" THEN content ELSE tmp
                 /\ path' = IF saves[s].fd = "path" THEN content ELSE path
<1>1. saves[s].payload \in Stores
  BY DEF PersistTypeOK, SaveStates
<1>2. \E content \in Stores \cup {Torn} :
          /\ content = saves[s].payload \/ (saves[s].clash /\ content = Torn)
          /\ tmp' = IF saves[s].fd = "tmp" THEN content ELSE tmp
          /\ path' = IF saves[s].fd = "path" THEN content ELSE path
  <2>1. PICK content \in {saves[s].payload} \cup (IF saves[s].clash THEN {Torn} ELSE {}) :
            /\ tmp' = IF saves[s].fd = "tmp" THEN content ELSE tmp
            /\ path' = IF saves[s].fd = "path" THEN content ELSE path
    BY DEF WriteTmp
  <2>2. content = saves[s].payload \/ (saves[s].clash /\ content = Torn)
    <3>1. CASE saves[s].clash
      BY <2>1, <3>1
    <3>2. CASE ~saves[s].clash
      BY <2>1, <3>2
    <3> QED BY <3>1, <3>2
  <2>3. content \in Stores \cup {Torn}
    BY <1>1, <2>2
  <2> QED BY <2>1, <2>2, <2>3
<1>3. saves' = [saves EXCEPT ![s].step = "written"] /\ saves[s].step = "opened"
  BY DEF WriteTmp, Writing
<1>4. /\ saves[s].step = "opened" /\ saves'[s].step = "written"
      /\ \A t \in Saves \ {s} : saves'[t].step = saves[t].step
      /\ \A t \in Saves :
            /\ saves'[t].payload = saves[t].payload /\ saves'[t].shared = saves[t].shared
            /\ saves'[t].fd = saves[t].fd /\ saves'[t].clash = saves[t].clash
  BY <1>3 DEF PersistTypeOK, SaveStates
<1> QED BY <1>2, <1>4

(* rename() changes nothing but the names of the open files. *)
LEMMA RenamedFacts ==
    ASSUME PersistTypeOK
    PROVE  \A t \in Saves :
               /\ Renamed[t].step = saves[t].step /\ Renamed[t].payload = saves[t].payload
               /\ Renamed[t].shared = saves[t].shared /\ Renamed[t].clash = saves[t].clash
               /\ Renamed[t].fd = CASE saves[t].fd = "tmp" -> "path"
                                    [] saves[t].fd = "path" -> "gone"
                                    [] OTHER -> saves[t].fd
BY DEF PersistTypeOK, Renamed, SaveStates

(* A save that ends is idle; the others are as they were, or the process is *)
(* gone with all of them.                                                   *)
LEMMA SaveEndsFacts ==
    ASSUME NEW s \in Saves, NEW others, DOMAIN others = Saves,
           SaveEnds(s, TRUE, others) \/ SaveEnds(s, FALSE, others)
    PROVE  /\ saves'[s] = Idle
           /\ \/ \A t \in Saves : saves'[t] = Idle
              \/ \A t \in Saves \ {s} : saves'[t] = others[t]
<1>1. CASE Down
  BY <1>1, DownFacts
<1>2. CASE saves' = [others EXCEPT ![s] = Idle]
  BY <1>2
<1> QED BY <1>1, <1>2 DEF SaveEnds

-----------------------------------------------------------------------------
(* The file. *)

(* No save is under way at first, and there is no file. *)
LEMMA FileInvInit == Init => FileInv
BY EmptyType, IdleFacts, NotAStore DEF Init, PersistInit, FileInv, SharersKnow, AloneOwnsTmp,
     LateWriterOverlaps, TornOnlyByOverlap, Alone, Busy

(* FileInv speaks of the saves and of the files only. *)
LEMMA FileInvSame ==
    ASSUME FileInv, UNCHANGED <<saves, diskVars, overlapped>>
    PROVE  FileInv'
BY DEF FileInv, SharersKnow, AloneOwnsTmp, LateWriterOverlaps, TornOnlyByOverlap,
     Alone, Busy, diskVars

(* A file that is whole stays whole when the process is gone. *)
LEMMA FileInvDown ==
    ASSUME FileInv, \A s \in Saves : saves'[s] = Idle, path' = Torn => overlapped'
    PROVE  FileInv'
BY IdleFacts DEF FileInv, SharersKnow, AloneOwnsTmp, LateWriterOverlaps, TornOnlyByOverlap,
     Alone, Busy

(* FileInv is kept when a save begins, when it opens the temporary file, when *)
(* it has written it, when it renames it and when it fails.                 *)
LEMMA FileInvCapture ==
    ASSUME PersistTypeOK, FileInv, NEW s \in Saves, Capture(s), UNCHANGED <<diskVars, overlapped>>
    PROVE  FileInv'
<1> USE CaptureFacts DEF FileInv, Busy, Alone
<1>1. SharersKnow'
  <2>1. ASSUME NEW t \in Saves, NEW u \in Saves, t # u, Busy(t)', Busy(u)' PROVE saves'[t].shared
    <3>1. CASE t = s
      <4>1. u # s /\ Busy(u)
        BY ZenonT(30), <2>1, <3>1
      <4> QED BY <3>1, <4>1
    <3>2. CASE t # s
      BY <2>1, <3>2
    <3> QED BY <3>1, <3>2
  <2>2. ASSUME NEW t \in Saves, saves'[t].fd # "none" PROVE Busy(t)'
    BY ZenonT(30), <2>2 DEF SharersKnow
  <2> QED BY <2>1, <2>2 DEF SharersKnow
<1>2. AloneOwnsTmp'
  <2> SUFFICES ASSUME NEW t \in Saves, Alone(t)'
               PROVE  /\ ~saves'[t].clash
                      /\ saves'[t].step \in {"opened", "written"} => saves'[t].fd = "tmp"
                      /\ saves'[t].step = "written" => tmp' = saves'[t].payload
    BY DEF AloneOwnsTmp
  <2>1. CASE t = s
    BY <2>1
  <2>2. CASE t # s
    <3>1. Busy(t) /\ saves'[t].shared
      BY <2>2
    <3> QED BY <3>1
  <2> QED BY <2>1, <2>2
<1>3. LateWriterOverlaps'
  BY ZenonT(30) DEF LateWriterOverlaps
<1>4. TornOnlyByOverlap'
  BY DEF TornOnlyByOverlap, diskVars
<1> QED BY <1>1, <1>2, <1>3, <1>4

LEMMA FileInvOpenTmp ==
    ASSUME PersistTypeOK, FileInv, NEW s \in Saves, OpenTmp(s)
    PROVE  FileInv'
<1> USE OpenTmpFacts DEF FileInv, Busy, Alone
<1>1. SharersKnow'
  BY DEF SharersKnow
<1>2. AloneOwnsTmp'
  BY DEF AloneOwnsTmp, SharersKnow, Writing
<1>3. LateWriterOverlaps'
  BY DEF LateWriterOverlaps, OpenTmp, persistHistory
<1>4. TornOnlyByOverlap'
  BY DEF TornOnlyByOverlap, OpenTmp, persistHistory
<1> QED BY <1>1, <1>2, <1>3, <1>4

LEMMA FileInvWriteTmp ==
    ASSUME PersistTypeOK, FileInv, NEW s \in Saves, WriteTmp(s)
    PROVE  FileInv'
<1> USE WriteTmpFacts DEF FileInv, Busy, Alone
<1>1. SharersKnow'
  BY DEF SharersKnow
<1>2. AloneOwnsTmp'
  BY DEF AloneOwnsTmp, SharersKnow
<1>3. LateWriterOverlaps'
  BY DEF LateWriterOverlaps, WriteTmp, persistHistory
<1>4. TornOnlyByOverlap'
  BY DEF TornOnlyByOverlap, LateWriterOverlaps, WriteTmp, persistHistory
<1> QED BY <1>1, <1>2, <1>3, <1>4

LEMMA FileInvRename ==
    ASSUME PersistTypeOK, FileInv, NEW s \in Saves, Rename(s)
    PROVE  FileInv'
<1>0. /\ saves[s].step = "written" /\ path' = tmp /\ tmp' = NoFile
      /\ overlapped' = saves[s].shared /\ SaveEnds(s, TRUE, Renamed)
  BY DEF Rename
<1>1. /\ saves'[s] = Idle
      /\ (\A t \in Saves : saves'[t] = Idle) \/ \A t \in Saves \ {s} : saves'[t] = Renamed[t]
  <2>1. DOMAIN Renamed = Saves
    BY DEF Renamed
  <2> QED BY ZenonT(30), <1>0, <2>1, SaveEndsFacts
<1>2. path' = Torn => overlapped'
  <2>1. saves[s].payload \in Stores
    BY DEF PersistTypeOK, SaveStates
  <2>2. saves[s].payload # Torn
    BY <2>1, NotAStore
  <2> QED BY <1>0, <2>2 DEF FileInv, AloneOwnsTmp, Alone, Busy
<1>3. CASE \A t \in Saves : saves'[t] = Idle
  BY <1>2, <1>3, FileInvDown
<1>4. CASE \A t \in Saves \ {s} : saves'[t] = Renamed[t]
  <2> USE <1>0, <1>1, <1>4, RenamedFacts, IdleFacts DEF FileInv, Busy, Alone
  <2>1. SharersKnow'
    BY DEF SharersKnow
  <2>2. AloneOwnsTmp'
    BY DEF AloneOwnsTmp, SharersKnow
  <2>3. LateWriterOverlaps'
    BY DEF LateWriterOverlaps, SharersKnow
  <2> QED BY <1>2, <2>1, <2>2, <2>3 DEF TornOnlyByOverlap
<1> QED BY <1>1, <1>3, <1>4

LEMMA FileInvSaveFails ==
    ASSUME PersistTypeOK, FileInv, NEW s \in Saves, SaveFails(s)
    PROVE  FileInv'
<1>1. /\ saves'[s] = Idle /\ UNCHANGED <<diskVars, overlapped>>
      /\ (\A t \in Saves : saves'[t] = Idle) \/ \A t \in Saves \ {s} : saves'[t] = saves[t]
  BY SaveEndsFacts DEF SaveFails, PersistTypeOK
<1>2. CASE \A t \in Saves : saves'[t] = Idle
  BY <1>1, <1>2, FileInvDown DEF FileInv, TornOnlyByOverlap, diskVars
<1>3. CASE \A t \in Saves \ {s} : saves'[t] = saves[t]
  BY <1>1, <1>3, IdleFacts DEF FileInv, SharersKnow, AloneOwnsTmp, LateWriterOverlaps,
       TornOnlyByOverlap, Alone, Busy, diskVars
<1> QED BY <1>1, <1>2, <1>3

(* FileInv is kept by every step of the process. *)
LEMMA FileInvStep ==
    ASSUME PersistTypeOK, FileInv, PersistStep
    PROVE  FileInv'
<1>1. CASE StartProcess
  BY <1>1, FileInvSame DEF StartProcess
<1>2. CASE loadSnapshot
  BY <1>2, FileInvSame DEF loadSnapshot, persistHistory
<1>3. CASE Autosave
  BY <1>3, FileInvCapture DEF Autosave, Saves, persistHistory
<1>4. CASE Kill
  BY <1>4, FileInvDown, DownFacts DEF Kill, diskVars, persistHistory, FileInv, TornOnlyByOverlap
<1>5. ASSUME NEW s \in Saves, saveSnapshot(s) PROVE FileInv'
  BY <1>5, FileInvOpenTmp, FileInvWriteTmp, FileInvRename, FileInvSaveFails DEF saveSnapshot
<1>6. ASSUME NEW s \in Signals, Signal(s) PROVE FileInv'
  BY <1>6, FileInvSame DEF Signal, persistHistory
<1>7. ASSUME NEW s \in Signals, FinalSave(s) PROVE FileInv'
  BY <1>7, FileInvCapture DEF FinalSave, Saves
<1>8. ASSUME NEW s \in Signals, Exit(s) PROVE FileInv'
  BY <1>8, FileInvDown, DownFacts DEF Exit, diskVars, FileInv, TornOnlyByOverlap
<1> QED BY <1>1, <1>2, <1>3, <1>4, <1>5, <1>6, <1>7, <1>8 DEF PersistStep

(* What the other steps of a replica leave alone: they touch its store, and *)
(* a sync that ends lets start() go on.                                     *)
Aside ==
    /\ UNCHANGED <<autosave, shutdowns, saves, diskVars, overlapped, early, shutdownHistory>>
    /\ phase' = phase \/ (phase = "syncing" /\ phase' = "serving")

(* Every step is one of the process, or leaves its saves and files alone. *)
LEMMA NextAside ==
    ASSUME TypeOK, [Next]_vars
    PROVE  PersistStep \/ Aside
<1> USE DEF Aside, persistVars, processVars, persistHistory
<1>1. ASSUME NEW op \in Ops, Write(op) PROVE Aside
  BY <1>1 DEF Write
<1>2. ASSUME NEW entries \in Stores, Restore(entries) PROVE Aside
  BY <1>2 DEF Restore
<1>3. ASSUME NEW op \in wire, Deliver(op) \/ Lose(op) PROVE Aside
  BY <1>3 DEF Deliver, Lose
<1>4. ASSUME Ask \/ Snapshot \/ SyncDone \/ SyncFails PROVE Aside
  BY <1>4 DEF Ask, Snapshot, SyncDone, SyncFails, Listen
<1>5. ASSUME NEW newStore \in Stores, LeaderElected(newStore) PROVE Aside
  BY <1>5 DEF LeaderElected
<1>6. ASSUME NEW k \in Keys, ExpireHere(k) \/ ExpireThere(k) PROVE Aside
  BY <1>6 DEF ExpireHere, ExpireThere, Expire
<1>7. ASSUME UNCHANGED vars PROVE Aside
  BY <1>7 DEF vars
<1>8. ASSUME Stays(PersistStep) PROVE PersistStep
  BY <1>8 DEF Stays
<1> QED BY <1>1, <1>2, <1>3, <1>4, <1>5, <1>6, <1>7, <1>8, NextSteps

(* FileInv is inductive. *)
LEMMA FileInvNext ==
    ASSUME TypeOK, FileInv, [Next]_vars
    PROVE  FileInv'
<1>1. CASE PersistStep
  BY <1>1, FileInvStep DEF TypeOK
<1>2. CASE Aside
  BY <1>2, FileInvSame DEF Aside
<1> QED BY <1>1, <1>2, NextAside

(* saveSnapshot(): at whatever point the process is killed, and however often *)
(* it is started again, the file is torn only if two saves overlapped.      *)
THEOREM FileTornOnlyByOverlap == Spec => []TornOnlyByOverlap
<1>1. FileInv => TornOnlyByOverlap
  BY DEF FileInv
<1> QED BY <1>1, FileInvInit, FileInvNext, TypeCorrect, PTL DEF Spec

-----------------------------------------------------------------------------
(* The end of a process. *)

(* A save that opens or writes its file stays busy, with its payload. *)
LEMMA WritingFacts ==
    ASSUME PersistTypeOK, NEW s \in Saves, OpenTmp(s) \/ WriteTmp(s)
    PROVE  /\ Busy(s)
           /\ \A t \in Saves : /\ Busy(t)' <=> Busy(t)
                               /\ saves'[t].payload = saves[t].payload
                               /\ saves'[t].shared = saves[t].shared
           /\ UNCHANGED <<phase, autosave, shutdowns, store, overlapped, early, removed,
                          since, failed, ended>>
<1> USE DEF Busy, processVars, persistHistory, shutdownHistory
<1>1. CASE OpenTmp(s)
  <2>1. \A t \in Saves : Busy(t)' <=> Busy(t)
    BY <1>1, OpenTmpFacts
  <2>2. UNCHANGED <<phase, autosave, shutdowns, store, overlapped, early, removed, since, failed, ended>>
    BY <1>1 DEF OpenTmp
  <2> QED BY <1>1, <2>1, <2>2, OpenTmpFacts
<1>2. CASE WriteTmp(s)
  <2>1. \A t \in Saves : Busy(t)' <=> Busy(t)
    BY <1>2, WriteTmpFacts
  <2>2. UNCHANGED <<phase, autosave, shutdowns, store, overlapped, early, removed, since, failed, ended>>
    BY <1>2 DEF WriteTmp
  <2> QED BY <1>2, <2>1, <2>2, WriteTmpFacts
<1> QED BY <1>1, <1>2

(* A save that ends takes the process with it, or leaves the other saves as *)
(* they are.                                                                *)
Over(s) ==
    /\ ~Busy(s)'
    /\ \A t \in Saves \ {s} : /\ Busy(t)' <=> Busy(t)
                              /\ saves'[t].payload = saves[t].payload
                              /\ saves'[t].shared = saves[t].shared
    /\ UNCHANGED <<phase, autosave, store, ended>>

(* rename() or a failure ends a save: with the process, or alone. *)
LEMMA EndFacts ==
    ASSUME PersistTypeOK, NEW s \in Saves, Rename(s) \/ SaveFails(s)
    PROVE  /\ Busy(s) /\ UNCHANGED <<early, removed, since>>
           /\ failed' = IF s \in Signals /\ SaveFails(s) /\ ~Rename(s) THEN failed \cup {s} ELSE failed
           /\ \/ s \in Signals /\ phase # "serving" /\ Down
              \/ s \in Signals /\ phase = "serving" /\ Over(s)
              \/ s = Timer /\ Over(s) /\ UNCHANGED shutdowns
<1>1. ASSUME NEW others, DOMAIN others = Saves,
             \A t \in Saves : /\ others[t].step = saves[t].step
                              /\ others[t].payload = saves[t].payload
                              /\ others[t].shared = saves[t].shared,
             saves' = [others EXCEPT ![s] = Idle],
             UNCHANGED <<phase, autosave, store, ended>>
      PROVE  Over(s)
  BY <1>1, IdleFacts DEF Over, Busy
<1>2. CASE Rename(s)
  <2>1. DOMAIN Renamed = Saves
    BY DEF Renamed
  <2>2. \/ s \in Signals /\ phase # "serving" /\ Down
        \/ s \in Signals /\ phase = "serving" /\ Over(s)
        \/ s = Timer /\ Over(s) /\ UNCHANGED shutdowns
    BY <1>1, <1>2, <2>1, RenamedFacts DEF Rename, SaveEnds, processVars
  <2> QED BY <1>2, <2>2 DEF Rename, Busy, SaveEnds
<1>3. CASE SaveFails(s)
  <2>1. DOMAIN saves = Saves
    BY DEF PersistTypeOK
  <2>2. \/ s \in Signals /\ phase # "serving" /\ Down
        \/ s \in Signals /\ phase = "serving" /\ Over(s)
        \/ s = Timer /\ Over(s) /\ UNCHANGED shutdowns
    BY <1>1, <1>3, <2>1 DEF SaveFails, SaveEnds, processVars
  <2> QED BY <1>3, <2>2 DEF SaveFails, SaveEnds, Rename
<1> QED BY <1>2, <1>3

(* PhaseInv holds at first. *)
LEMMA PhaseInvInit == Init => PhaseInv
<1> SUFFICES ASSUME Init PROVE PhaseInv
  OBVIOUS
<1>1. \A s \in Saves : ~Busy(s)
  BY IdleFacts DEF Init, PersistInit, Busy
<1>2. phase = "down" /\ ~autosave /\ ended = {} /\ \A s \in Signals : shutdowns[s] = "none"
  BY DEF Init, PersistInit
<1> QED BY <1>1, <1>2 DEF PhaseInv, Final, Saves

(* PhaseInv holds of a process that is gone. *)
LEMMA PhaseInvDown ==
    ASSUME Down
    PROVE  PhaseInv'
BY DownFacts, IdleFacts DEF Down, PhaseInv, Busy, Final, Saves

(* PhaseInv is kept by every step of the process, and by the others. *)
LEMMA PhaseInvStep ==
    ASSUME PersistTypeOK, PhaseInv, PersistStep
    PROVE  PhaseInv'
<1> USE DEF PhaseInv
<1>1. CASE StartProcess
  BY <1>1 DEF StartProcess, Busy, Final, Saves
<1>2. CASE loadSnapshot
  BY <1>2 DEF loadSnapshot, Busy, Final, Saves, shutdownHistory
<1>3. CASE Autosave
  <2>1. \A t \in Signals : Busy(t)' <=> Busy(t)
    <3>1. Timer \in Saves /\ Signals \subseteq Saves \ {Timer}
      BY PersistenceAssumption DEF Saves
    <3>2. \A t \in Saves \ {Timer} : saves'[t].step = saves[t].step
      BY <1>3, <3>1, CaptureFacts DEF Autosave
    <3> QED BY <3>1, <3>2 DEF Busy
  <2>2. UNCHANGED <<phase, autosave, shutdowns, early, ended>> /\ autosave
    BY <1>3 DEF Autosave, processVars, persistHistory, shutdownHistory
  <2> QED BY <2>1, <2>2 DEF Final
<1>4. CASE Kill
  BY <1>4, PhaseInvDown DEF Kill
<1>5. ASSUME NEW s \in Saves, OpenTmp(s) \/ WriteTmp(s) PROVE PhaseInv'
  <2>1. /\ \A t \in Saves : Busy(t)' <=> Busy(t)
        /\ UNCHANGED <<phase, autosave, shutdowns, early, ended>>
    BY <1>5, WritingFacts
  <2> QED BY <2>1 DEF Final, Saves
<1>6. ASSUME NEW s \in Saves, Rename(s) \/ SaveFails(s) PROVE PhaseInv'
  <2>1. Busy(s) /\ UNCHANGED early
    BY <1>6, EndFacts
  <2>2. CASE Down
    BY <2>2, PhaseInvDown
  <2>3. CASE s = Timer /\ Over(s) /\ UNCHANGED shutdowns
    BY <2>1, <2>3, PersistenceAssumption DEF Over, Final, Saves
  <2>4. CASE s \in Signals /\ phase = "serving" /\ Over(s) /\ ~Down
    <3>1. shutdowns[s] = "save"
      BY <2>1, <2>4
    <3>2. /\ \A t \in Signals \ {s} : shutdowns'[t] = shutdowns[t]
          /\ shutdowns'[s] = "close"
      BY <1>6, <2>4, PersistenceAssumption DEF Rename, SaveFails, SaveEnds, PersistTypeOK
    <3>3. ~early' /\ Final' # {} => ~autosave' /\ phase' # "loading"
      BY <2>1, <2>4, <3>1 DEF Over, Final
    <3>4. \A t \in Signals : Busy(t)' <=> shutdowns'[t] = "save"
      BY <2>4, <3>2 DEF Over, Saves
    <3> QED BY <2>4, <3>3, <3>4 DEF Over
  <2> QED BY <1>6, <2>2, <2>3, <2>4, EndFacts
<1>7. ASSUME NEW s \in Signals, Signal(s) PROVE PhaseInv'
  <2>1. /\ \A t \in Signals : shutdowns'[t] = IF t = s THEN "deregister" ELSE shutdowns[t]
        /\ phase # "down" /\ shutdowns[s] = "none"
        /\ UNCHANGED <<phase, autosave, saves, early, ended>>
    BY <1>7 DEF Signal, PersistTypeOK, persistHistory, shutdownHistory
  <2> QED BY <2>1 DEF Final, Busy
<1>8. ASSUME NEW s \in Signals, FinalSave(s) PROVE PhaseInv'
  <2>1. /\ \A t \in Signals : shutdowns'[t] = IF t = s THEN "save" ELSE shutdowns[t]
        /\ ~autosave' /\ shutdowns[s] = "deregister"
        /\ UNCHANGED <<phase, ended>>
    BY <1>8 DEF FinalSave, PersistTypeOK
  <2>2. ~early' => ~early /\ phase # "loading"
    BY <1>8 DEF FinalSave, SaveBegins
  <2>3. \A t \in Saves : Busy(t)' <=> (t = s \/ Busy(t))
    <3>1. s \in Saves
      BY DEF Saves
    <3>2. /\ saves'[s].step = "captured"
          /\ \A t \in Saves \ {s} : saves'[t].step = saves[t].step
      BY <1>8, <3>1, CaptureFacts DEF FinalSave
    <3> QED BY <3>2 DEF Busy
  <2>4. phase # "down" /\ Timer # s
    BY <2>1, PersistenceAssumption
  <2> QED BY <2>1, <2>2, <2>3, <2>4 DEF Final, Saves
<1>9. ASSUME NEW s \in Signals, Exit(s) PROVE PhaseInv'
  BY <1>9, PhaseInvDown DEF Exit
<1> QED BY <1>1, <1>2, <1>3, <1>4, <1>5, <1>6, <1>7, <1>8, <1>9 DEF PersistStep, saveSnapshot

LEMMA PhaseInvNext ==
    ASSUME TypeOK, PhaseInv, [Next]_vars
    PROVE  PhaseInv'
<1>1. CASE PersistStep
  BY <1>1, PhaseInvStep DEF TypeOK
<1>2. CASE Aside
  BY <1>2 DEF Aside, PhaseInv, Busy, Final, Saves, shutdownHistory
<1> QED BY <1>1, <1>2, NextAside

(* SinceInv and SavedInv hold at first, and of a process that is gone. *)
LEMMA SinceInvInit == Init => SinceInv /\ SavedInv
BY IdleFacts DEF Init, PersistInit, SinceInv, SavedInv, Alone, Busy, Final, Saves

LEMMA SinceInvDown ==
    ASSUME Down
    PROVE  SinceInv' /\ SavedInv'
BY DownFacts, IdleFacts DEF Down, SinceInv, SavedInv, Alone, Busy, Final, Saves

(* They speak of the saves, the shutdowns and the file only. *)
LEMMA SinceInvSame ==
    ASSUME SinceInv, SavedInv, UNCHANGED <<saves, shutdowns, path, overlapped, early, since, failed>>
    PROVE  SinceInv' /\ SavedInv'
BY DEF SinceInv, SavedInv, Alone, Busy, Final

(* A final save that begins counts for its own shutdown() and for those that *)
(* have begun theirs; what was under way is alone no more.                  *)
LEMMA SinceInvFinalSave ==
    ASSUME PersistTypeOK, PhaseInv, SinceInv, SavedInv, NEW s \in Signals, FinalSave(s)
    PROVE  SinceInv' /\ SavedInv'
<1>0. s \in Saves /\ s # Timer /\ Timer \in Saves
  BY PersistenceAssumption DEF Saves
<1>1. /\ Busy(s)' /\ saves'[s].payload = store
      /\ \A t \in Saves \ {s} : /\ saves'[t].payload = saves[t].payload
                                /\ Busy(t)' <=> Busy(t)
                                /\ ~Alone(t)'
  BY <1>0, CaptureFacts DEF FinalSave, Busy, Alone
<1>2. Final' = Final \cup {s} /\ s \notin Final
  BY DEF FinalSave, PersistTypeOK, Final
<1>3. /\ \A t \in Signals : since'[t] = IF t = s \/ since[t] # {} THEN since[t] \cup {store} ELSE {}
      /\ early => early'
      /\ UNCHANGED <<path, overlapped, failed>>
  BY DEF FinalSave, SaveBegins, diskVars
<1>4. Final' \subseteq Signals /\ \A t \in Final' : store \in since'[t] /\ since[t] \subseteq since'[t]
  BY <1>2, <1>3 DEF SinceInv, Final
<1>5. SinceInv'
  <2>1. \A t \in Final' : since'[t] # {}
    BY <1>4
  <2>2. ASSUME NEW t \in Signals, Busy(t)' PROVE saves'[t].payload \in since'[t]
    <3>1. CASE t = s
      BY <1>1, <1>2, <1>4, <3>1
    <3>2. CASE t # s
      <4>1. Busy(t) /\ saves'[t].payload = saves[t].payload
        BY <1>1, <2>2, <3>2 DEF Saves, Busy
      <4>2. saves[t].payload \in since[t]
        BY <4>1 DEF SinceInv
      <4> QED BY <1>3, <4>1, <4>2
    <3> QED BY <3>1, <3>2
  <2>3. ASSUME NEW t \in Signals, Alone(t)', NEW u \in Final' PROVE saves'[t].payload \in since'[u]
    BY <1>1, <1>4, <2>3 DEF Saves, Alone, Busy
  <2>4. ~Alone(Timer)'
    BY <1>0, <1>1 DEF Alone, Busy
  <2> QED BY <2>1, <2>2, <2>3, <2>4 DEF SinceInv
<1>6. SavedInv'
  <2> SUFFICES ASSUME NEW t \in Final' \ failed', ~Busy(t)', ~overlapped', ~early'
               PROVE  path' \in since'[t]
    BY DEF SavedInv
  <2>1. t # s /\ t \in Final \ failed /\ ~Busy(t)
    BY <1>1, <1>2, <1>3 DEF Final, Saves, Busy
  <2>2. path \in since[t]
    BY <1>3, <2>1 DEF SavedInv
  <2> QED BY <1>3, <1>4, <2>2
<1> QED BY <1>5, <1>6

(* The save that ends alone leaves in the file what counts for every        *)
(* shutdown() that has begun its own; one that shared its time overlaps.    *)
LEMMA SinceInvEnds ==
    ASSUME PersistTypeOK, FileInv, PhaseInv, SinceInv, SavedInv,
           NEW s \in Saves, Rename(s) \/ SaveFails(s)
    PROVE  SinceInv' /\ SavedInv'
<1>1. /\ Busy(s) /\ UNCHANGED <<early, since>>
      /\ failed' = IF s \in Signals /\ SaveFails(s) /\ ~Rename(s) THEN failed \cup {s} ELSE failed
  BY EndFacts
<1>2. CASE Down
  BY <1>2, SinceInvDown
<1>3. CASE ~Down
  <2>1. Over(s)
    BY <1>3, EndFacts
  <2>2. Final' = Final /\ (s \in Signals => s \in Final)
    <3>1. CASE s = Timer
      BY <1>3, <3>1, EndFacts, PersistenceAssumption DEF Final
    <3>2. CASE s \in Signals
      <4>1. shutdowns[s] = "save"
        BY <1>1, <3>2 DEF PhaseInv
      <4>2. shutdowns' = [shutdowns EXCEPT ![s] = "close"]
        BY <1>3, <3>2, PersistenceAssumption DEF Rename, SaveFails, SaveEnds
      <4> QED BY <4>1, <4>2 DEF Final, PersistTypeOK
    <3> QED BY <3>1, <3>2 DEF Saves
  <2>3. SinceInv'
    <3>1. \A t \in Saves : /\ Busy(t)' => Busy(t) /\ saves'[t].payload = saves[t].payload
                           /\ Alone(t)' => Alone(t)
      BY <2>1 DEF Over, Alone
    <3> QED BY <1>1, <2>2, <3>1, PersistenceAssumption DEF SinceInv, Saves, Final, Alone, Busy
  <2>4. SavedInv'
    <3> SUFFICES ASSUME NEW t \in Final' \ failed', ~Busy(t)', ~overlapped', ~early'
                 PROVE  path' \in since'[t]
      BY DEF SavedInv
    <3>0. t \in Final /\ t \in Signals /\ t \notin failed
      BY <1>1, <2>2 DEF Final
    <3>1. CASE Rename(s)
      <4>1. Alone(s) /\ path' = saves[s].payload
        <5>1. ~saves[s].shared /\ saves[s].step = "written" /\ path' = tmp
          BY <3>1 DEF Rename
        <5> QED BY <1>1, <5>1 DEF Alone, FileInv, AloneOwnsTmp
      <4>2. s # Timer
        BY <1>1, <3>0, <4>1 DEF SinceInv
      <4> QED BY <1>1, <3>0, <4>1, <4>2 DEF SinceInv, Saves
    <3>2. CASE SaveFails(s) /\ ~Rename(s)
      <4>1. t # s
        BY <1>1, <3>0, <3>2
      <4>2. ~Busy(t) /\ UNCHANGED <<path, overlapped>>
        BY <2>1, <3>0, <3>2, <4>1 DEF SaveFails, diskVars, Over, Saves
      <4> QED BY <1>1, <3>0, <4>2 DEF SavedInv
    <3> QED BY <3>1, <3>2
  <2> QED BY <2>3, <2>4
<1> QED BY <1>2, <1>3

(* They are kept by every step. *)
LEMMA SinceInvStep ==
    ASSUME PersistTypeOK, FileInv, PhaseInv, SinceInv, SavedInv, PersistStep
    PROVE  SinceInv' /\ SavedInv'
<1>1. CASE StartProcess
  <2>1. /\ \A s \in Saves : ~Busy(s)
        /\ \A s \in Signals : shutdowns[s] = "none"
    BY <1>1 DEF StartProcess, PhaseInv
  <2> QED BY <1>1, <2>1 DEF StartProcess, SinceInv, SavedInv, Alone, Busy, Final, Saves
<1>2. CASE loadSnapshot
  <2>1. UNCHANGED <<saves, path, overlapped, early, since, failed, shutdowns>>
    BY <1>2 DEF loadSnapshot, diskVars, shutdownHistory
  <2> QED BY <2>1, SinceInvSame
<1>3. CASE Autosave
  <2>0. Timer \in Saves /\ Signals \subseteq Saves \ {Timer}
    BY PersistenceAssumption DEF Saves
  <2>1. \A t \in Signals : /\ saves'[t].payload = saves[t].payload
                           /\ Busy(t)' <=> Busy(t)
                           /\ Alone(t)' => Alone(t)
    BY <1>3, <2>0, CaptureFacts DEF Autosave, Alone, Busy
  <2>2. early \/ Final = {}
    BY <1>3 DEF PhaseInv, Autosave
  <2>3. UNCHANGED <<shutdowns, early, since, failed, path, overlapped>>
    BY <1>3 DEF Autosave, processVars, diskVars, persistHistory, shutdownHistory
  <2>4. Final' = Final /\ Final \subseteq Signals
    BY <2>3 DEF Final
  <2> QED BY <2>1, <2>2, <2>3, <2>4 DEF SinceInv, SavedInv
<1>4. CASE Kill
  BY <1>4, SinceInvDown DEF Kill
<1>5. ASSUME NEW s \in Saves, OpenTmp(s) \/ WriteTmp(s) PROVE SinceInv' /\ SavedInv'
  <2>1. /\ \A t \in Saves : /\ Busy(t)' <=> Busy(t)
                            /\ saves'[t].payload = saves[t].payload
                            /\ saves'[t].shared = saves[t].shared
        /\ UNCHANGED <<shutdowns, overlapped, early, since, failed>>
    BY <1>5, WritingFacts
  <2>2. ~overlapped => path' = path
    <3>1. CASE OpenTmp(s)
      BY <3>1 DEF OpenTmp
    <3>2. CASE WriteTmp(s)
      BY <3>2, WriteTmpFacts DEF FileInv, LateWriterOverlaps
    <3> QED BY <1>5, <3>1, <3>2
  <2>3. Final' = Final /\ Final \subseteq Signals /\ Timer \in Saves
    BY <2>1 DEF Final, Saves
  <2>4. SinceInv'
    BY <2>1, <2>3 DEF SinceInv, Alone, Saves
  <2>5. SavedInv'
    BY <2>1, <2>2, <2>3 DEF SavedInv, Saves
  <2> QED BY <2>4, <2>5
<1>6. ASSUME NEW s \in Saves, Rename(s) \/ SaveFails(s) PROVE SinceInv' /\ SavedInv'
  BY <1>6, SinceInvEnds
<1>7. ASSUME NEW s \in Signals, Signal(s) PROVE SinceInv' /\ SavedInv'
  <2>1. /\ \A t \in Signals : shutdowns'[t] = IF t = s THEN "deregister" ELSE shutdowns[t]
        /\ shutdowns[s] = "none"
        /\ UNCHANGED <<saves, path, overlapped, early, since, failed>>
    BY <1>7 DEF Signal, PersistTypeOK, diskVars, persistHistory, shutdownHistory
  <2>2. Final' = Final
    BY <2>1 DEF Final
  <2> QED BY <2>1, <2>2 DEF SinceInv, SavedInv, Alone, Busy
<1>8. ASSUME NEW s \in Signals, FinalSave(s) PROVE SinceInv' /\ SavedInv'
  BY <1>8, SinceInvFinalSave
<1>9. ASSUME NEW s \in Signals, Exit(s) PROVE SinceInv' /\ SavedInv'
  BY <1>9, SinceInvDown DEF Exit
<1> QED BY <1>1, <1>2, <1>3, <1>4, <1>5, <1>6, <1>7, <1>8, <1>9 DEF PersistStep, saveSnapshot

LEMMA SinceInvNext ==
    ASSUME TypeOK, FileInv, PhaseInv, SinceInv, SavedInv, [Next]_vars
    PROVE  SinceInv' /\ SavedInv'
<1>1. CASE PersistStep
  BY <1>1, SinceInvStep DEF TypeOK
<1>2. CASE Aside
  BY <1>2, SinceInvSame DEF Aside, diskVars, shutdownHistory
<1> QED BY <1>1, <1>2, NextAside

(* A shutdown() ends the process behind its own final save, with what was   *)
(* saved then or later in the file.                                         *)
LEMMA CleanExitStep ==
    ASSUME PersistTypeOK, FileInv, PhaseInv, SinceInv, SavedInv, CleanExitSaves, PersistStep
    PROVE  CleanExitSaves'
<1>0. phase # "down" => ended = {}
  BY DEF PhaseInv
<1>1. CASE StartProcess
  BY <1>1 DEF StartProcess, CleanExitSaves
<1>2. CASE loadSnapshot
  BY <1>2 DEF loadSnapshot, CleanExitSaves, diskVars, shutdownHistory
<1>3. CASE Autosave
  BY <1>3 DEF Autosave, CleanExitSaves, diskVars, persistHistory, shutdownHistory
<1>4. CASE Kill
  BY <1>4 DEF Kill, CleanExitSaves, diskVars, persistHistory, shutdownHistory
<1>5. ASSUME NEW s \in Saves, OpenTmp(s) \/ WriteTmp(s) PROVE CleanExitSaves'
  <2>1. ended' = ended /\ Busy(s)
    BY <1>5, WritingFacts
  <2>2. ended = {}
    BY <2>1 DEF PhaseInv
  <2> QED BY <2>1, <2>2 DEF CleanExitSaves
<1>6. ASSUME NEW s \in Saves, Rename(s) \/ SaveFails(s) PROVE CleanExitSaves'
  <2>1. /\ Busy(s) /\ UNCHANGED <<early, since>>
        /\ failed' = IF s \in Signals /\ SaveFails(s) /\ ~Rename(s) THEN failed \cup {s} ELSE failed
    BY <1>6, EndFacts
  <2>2. ended = {}
    BY <2>1 DEF PhaseInv
  <2>3. CASE ended' = ended
    BY <2>2, <2>3 DEF CleanExitSaves
  <2>4. CASE ended' = {s} /\ s \in Signals
    <3> SUFFICES ASSUME s \notin failed', ~overlapped', ~early' PROVE path' \in since'[s]
      BY <2>4 DEF CleanExitSaves
    <3>1. Rename(s)
      BY <1>6, <2>1, <2>4
    <3>2. ~saves[s].shared /\ saves[s].step = "written" /\ path' = tmp
      BY <3>1 DEF Rename
    <3>3. path' = saves[s].payload
      BY <2>1, <3>2 DEF Alone, FileInv, AloneOwnsTmp
    <3> QED BY <2>1, <2>4, <3>3 DEF SinceInv
  <2> QED BY <1>6, <2>3, <2>4 DEF Rename, SaveFails, SaveEnds
<1>7. ASSUME NEW s \in Signals, Signal(s) PROVE CleanExitSaves'
  BY <1>7 DEF Signal, CleanExitSaves, diskVars, persistHistory, shutdownHistory
<1>8. ASSUME NEW s \in Signals, FinalSave(s) PROVE CleanExitSaves'
  <2>1. phase # "down" /\ ended' = ended
    BY <1>8 DEF FinalSave, PhaseInv
  <2> QED BY <1>0, <2>1 DEF CleanExitSaves
<1>9. ASSUME NEW s \in Signals, Exit(s) PROVE CleanExitSaves'
  <2> SUFFICES ASSUME s \notin failed, ~overlapped, ~early PROVE path \in since[s]
    BY <1>9 DEF Exit, CleanExitSaves, diskVars
  <2>1. s \in Final /\ ~Busy(s)
    BY <1>9 DEF Exit, Final, PhaseInv
  <2> QED BY <2>1 DEF SavedInv
<1> QED BY <1>1, <1>2, <1>3, <1>4, <1>5, <1>6, <1>7, <1>8, <1>9 DEF PersistStep, saveSnapshot

(* ExitInv holds at first. *)
LEMMA ExitInvInit == Init => ExitInv
BY PhaseInvInit, SinceInvInit DEF ExitInv, CleanExitSaves, Init, PersistInit

(* ExitInv is inductive, together with FileInv. *)
LEMMA ExitInvNext ==
    ASSUME TypeOK, FileInv, ExitInv, [Next]_vars
    PROVE  ExitInv'
<1> USE DEF ExitInv
<1>1. CleanExitSaves'
  <2>1. CASE PersistStep
    BY <2>1, CleanExitStep DEF TypeOK
  <2>2. CASE Aside
    BY <2>2 DEF Aside, CleanExitSaves, diskVars, shutdownHistory
  <2> QED BY <2>1, <2>2, NextAside
<1> QED BY <1>1, PhaseInvNext, SinceInvNext

(* shutdown(): when one whose own final save did not fail ends the process, *)
(* the file holds what that save captured or a later final save, for any    *)
(* number of signals and whatever saves the exit cuts short; unless saves   *)
(* overlapped or a signal came before the file was loaded.                  *)
THEOREM CleanExit == Spec => []CleanExitSaves
<1>1. ExitInv => CleanExitSaves
  BY DEF ExitInv
<1> QED BY <1>1, ExitInvInit, FileInvInit, FileInvNext, ExitInvNext, TypeCorrect, PTL DEF Spec

-----------------------------------------------------------------------------
(* The keys in the file. *)

(* The keys of a torn file, of none, and of one that can be read. *)
LEMMA FileKeysFacts ==
    /\ FileKeys(Torn) = {} /\ FileKeys(NoFile) = {}
    /\ \A file \in Stores : FileKeys(file) = {k \in Keys : file[k] # Absent}
BY NotAStore DEF FileKeys, OnDisk

(* Outside the start and the end of a process no key is forgotten. *)
Remembers == KnownKeys \subseteq KnownKeys' /\ removed \subseteq removed'

(* A step that leaves the store alone forgets no key. *)
LEMMA RemembersSame ==
    ASSUME UNCHANGED <<store, removed>>
    PROVE  Remembers
BY DEF Remembers, KnownKeys

(* A step that notes what it takes from the store, or from what it sets in  *)
(* the store, forgets no key.                                               *)
LEMMA RemembersLeave ==
    ASSUME NEW wanted, Leave(wanted), \A k \in Keys : store[k] # Absent => wanted[k] # Absent
    PROVE  Remembers /\ Held(wanted) \subseteq KnownKeys'
BY DEF Remembers, KnownKeys, Leave, Held

(* Nor does a delivered operation forget one: what it removes it notes.     *)
LEMMA RemembersAside ==
    ASSUME TypeOK, [Next]_vars
    PROVE  PersistStep \/ (Aside /\ Remembers)
<1> USE DEF persistVars, persistHistory
<1>1. ASSUME NEW op \in Ops, Write(op) PROVE UNCHANGED <<store, removed>>
  BY <1>1 DEF Write
<1>2. ASSUME NEW entries \in Stores, Restore(entries) PROVE UNCHANGED <<store, removed>>
  BY <1>2 DEF Restore
<1>3. ASSUME NEW op \in wire, Lose(op) PROVE UNCHANGED <<store, removed>>
  BY <1>3 DEF Lose
<1>4. ASSUME NEW op \in wire, Deliver(op) PROVE Remembers
  <2>1. CASE op.value = Absent
    BY <1>4, <2>1, RemembersLeave DEF Deliver
  <2>2. CASE op.value # Absent
    <3>1. \A k \in Keys : store[k] # Absent => Apply(store, op)[k] # Absent
      BY <2>2 DEF Apply
    <3> QED BY <1>4, <2>2, <3>1, RemembersLeave DEF Deliver
  <2> QED BY <2>1, <2>2
<1>5. ASSUME Ask \/ Snapshot \/ SyncFails PROVE UNCHANGED <<store, removed>>
  BY <1>5 DEF Ask, Snapshot, SyncFails
<1>6. ASSUME SyncDone PROVE Remembers
  <2>1. \A k \in Keys : store[k] # Absent => Overlay(store, sync.answer)[k] # Absent
    BY DEF Overlay
  <2> QED BY <1>6, <2>1, RemembersLeave DEF SyncDone
<1>7. ASSUME NEW newStore \in Stores, LeaderElected(newStore) PROVE UNCHANGED <<store, removed>>
  BY <1>7 DEF LeaderElected
<1>8. ASSUME NEW k \in Keys, ExpireHere(k) PROVE Remembers
  BY <1>8, RemembersLeave DEF ExpireHere, Expire
<1>9. ASSUME NEW k \in Keys, ExpireThere(k) PROVE UNCHANGED <<store, removed>>
  BY <1>9 DEF ExpireThere
<1>10. ASSUME UNCHANGED vars PROVE UNCHANGED <<store, removed>>
  BY <1>10 DEF vars
<1>11. ASSUME Stays(PersistStep) PROVE PersistStep
  BY <1>11 DEF Stays
<1> QED BY <1>1, <1>2, <1>3, <1>4, <1>5, <1>6, <1>7, <1>8, <1>9, <1>10, <1>11, NextSteps, NextAside,
           RemembersSame

(* KeysInv holds at first. *)
LEMMA KeysInvInit == Init => KeysInv
<1> SUFFICES ASSUME Init PROVE KeysInv
  OBVIOUS
<1>1. \A s \in Saves : saves[s].step = "idle"
  BY IdleFacts DEF Init, PersistInit
<1> QED BY <1>1 DEF Init, PersistInit, KeysInv, Alone, Busy

(* KeysInv holds of a process that is gone. *)
LEMMA KeysInvDown ==
    ASSUME Down
    PROVE  KeysInv'
<1>1. \A s \in Saves : saves'[s].step = "idle"
  BY DownFacts, IdleFacts
<1> QED BY <1>1 DEF Down, KeysInv, Alone, Busy

(* A save that begins captures every key of the file that was not removed:  *)
(* the file was loaded before.                                              *)
LEMMA KeysInvCapture ==
    ASSUME PersistTypeOK, KeysInv, NEW s \in Saves, Capture(s),
           UNCHANGED <<phase, store, diskVars, removed>>,
           early => early', ~early' => phase \in {"syncing", "serving"}
    PROVE  KeysInv'
<1>1. KnownKeys' = KnownKeys
  BY DEF KnownKeys
<1>2. FileKeys(store) \subseteq KnownKeys
  BY FileKeysFacts DEF PersistTypeOK, KnownKeys
<1>3. \A t \in Saves : Busy(t)' => FileKeys(saves'[t].payload) \subseteq KnownKeys
  <2> SUFFICES ASSUME NEW t \in Saves, Busy(t)' PROVE FileKeys(saves'[t].payload) \subseteq KnownKeys
    OBVIOUS
  <2>1. CASE t = s
    BY <1>2, <2>1, CaptureFacts
  <2>2. CASE t # s
    <3>1. saves'[t].step = saves[t].step /\ saves'[t].payload = saves[t].payload
      BY ZenonT(30), <2>2, CaptureFacts
    <3> QED BY <3>1 DEF KeysInv, Busy
  <2> QED BY <2>1, <2>2
<1>4. (\E t \in Saves : saves'[t].step \in {"opened", "written"}) => FileKeys(tmp) \subseteq KnownKeys
  BY CaptureFacts DEF KeysInv
<1>5. ASSUME ~early', NEW t \in Saves, Alone(t)'
      PROVE  FileKeys(path) \subseteq FileKeys(saves'[t].payload) \cup removed
  <2>1. t = s
    <3> SUFFICES ASSUME t # s PROVE FALSE
      OBVIOUS
    <3>1. CASE Busy(t)
      BY <1>5, <3>1, CaptureFacts DEF Alone
    <3>2. CASE ~Busy(t)
      BY <1>5, <3>2, CaptureFacts DEF Alone, Busy
    <3> QED BY <3>1, <3>2
  <2>2. FileKeys(saves'[t].payload) = {k \in Keys : store[k] # Absent}
    BY <2>1, CaptureFacts, FileKeysFacts DEF PersistTypeOK
  <2> QED BY <1>5, <2>2 DEF KeysInv, KnownKeys
<1> QED BY <1>1, <1>3, <1>4, <1>5 DEF KeysInv, diskVars

(* A save that is alone does not write to the file itself. *)
LEMMA KeysInvWriteTmp ==
    ASSUME PersistTypeOK, FileInv, KeysInv, NEW s \in Saves, WriteTmp(s)
    PROVE  KeysInv'
<1>1. /\ Busy(s) /\ KnownKeys' = KnownKeys
      /\ \A t \in Saves : /\ Busy(t)' <=> Busy(t)
                          /\ saves'[t].payload = saves[t].payload
                          /\ saves'[t].shared = saves[t].shared
      /\ UNCHANGED <<phase, early, removed>>
  BY WritingFacts DEF KnownKeys
<1>2. PICK content \in Stores \cup {Torn} :
          /\ content = saves[s].payload \/ (saves[s].clash /\ content = Torn)
          /\ tmp' = IF saves[s].fd = "tmp" THEN content ELSE tmp
          /\ path' = IF saves[s].fd = "path" THEN content ELSE path
  BY WriteTmpFacts
<1>3. FileKeys(content) \subseteq KnownKeys
  BY <1>1, <1>2, FileKeysFacts DEF KeysInv
<1>4. FileKeys(tmp') \subseteq KnownKeys
  <2>1. FileKeys(tmp) \subseteq KnownKeys
    BY WriteTmpFacts DEF KeysInv
  <2> QED BY <1>2, <1>3, <2>1
<1>5. phase \in {"syncing", "serving"} => FileKeys(path') \subseteq KnownKeys
  BY <1>2, <1>3 DEF KeysInv
<1>6. ASSUME ~early, NEW t \in Saves, Alone(t)
      PROVE  FileKeys(path') \subseteq FileKeys(saves[t].payload) \cup removed
  <2>1. t = s
    BY <1>1, <1>6 DEF Alone, FileInv, SharersKnow
  <2>2. saves[s].fd = "tmp"
    BY <1>6, <2>1, WriteTmpFacts DEF FileInv, AloneOwnsTmp
  <2> QED BY <1>2, <1>6, <2>2 DEF KeysInv
<1> QED BY <1>1, <1>4, <1>5, <1>6 DEF KeysInv, Alone

(* A save that ends leaves no other one alone. *)
LEMMA KeysInvEnds ==
    ASSUME PersistTypeOK, FileInv, KeysInv, NEW s \in Saves, Rename(s) \/ SaveFails(s)
    PROVE  KeysInv'
<1>1. CASE Down
  BY <1>1, KeysInvDown
<1>2. CASE Over(s)
  <2>1. KnownKeys' = KnownKeys /\ UNCHANGED <<early, removed, phase>> /\ Busy(s)
    BY <1>2, EndFacts DEF Over, KnownKeys
  <2>2. \A t \in Saves : Busy(t)' => FileKeys(saves'[t].payload) \subseteq KnownKeys
    BY <1>2 DEF Over, KeysInv
  <2>3. CASE Rename(s)
    <3>1. FileKeys(path') \subseteq KnownKeys /\ FileKeys(tmp') \subseteq KnownKeys
      BY <2>3, FileKeysFacts DEF Rename, KeysInv
    <3>2. \A t \in Saves : ~Alone(t)'
      BY <1>2, <2>1 DEF Over, Alone, FileInv, SharersKnow
    <3> QED BY <2>1, <2>2, <3>1, <3>2 DEF KeysInv
  <2>4. CASE SaveFails(s)
    <3>1. UNCHANGED <<path, tmp>>
      BY <2>4 DEF SaveFails, diskVars
    <3>2. ASSUME NEW t \in Saves, saves'[t].step \in {"opened", "written"}
          PROVE  FileKeys(tmp) \subseteq KnownKeys
      <4>1. saves'[t] = saves[t]
        BY ZenonT(30), <2>4, <3>2, SaveEndsFacts, IdleFacts DEF SaveFails, PersistTypeOK
      <4> QED BY <3>2, <4>1 DEF KeysInv
    <3>3. \A t \in Saves : Alone(t)' => Alone(t) /\ saves'[t].payload = saves[t].payload
      BY <1>2 DEF Over, Alone
    <3> QED BY <2>1, <2>2, <3>1, <3>2, <3>3 DEF KeysInv
  <2> QED BY <2>3, <2>4
<1> QED BY <1>1, <1>2, EndFacts

(* KeysInv is kept by every step of the process, and by the others. *)
LEMMA KeysInvStep ==
    ASSUME PersistTypeOK, FileInv, PhaseInv, KeysInv, PersistStep
    PROVE  KeysInv'
<1>1. CASE StartProcess
  <2>1. \A s \in Saves : saves[s].step = "idle"
    BY <1>1 DEF StartProcess, PhaseInv, Busy
  <2> QED BY <1>1, <2>1 DEF StartProcess, KeysInv, Alone, Busy
<1>2. CASE loadSnapshot
  <2>0. \A k \in Keys : store[k] # Absent => Overlay(store, Rows(path))[k] # Absent
    BY DEF Overlay
  <2>1. KnownKeys \subseteq KnownKeys' /\ Held(Overlay(store, Rows(path))) \subseteq KnownKeys'
    BY <1>2, <2>0, RemembersLeave DEF loadSnapshot, Remembers
  <2>2. FileKeys(path) \subseteq KnownKeys'
    <3>1. CASE path \in {Torn, NoFile}
      BY <3>1, FileKeysFacts
    <3>2. CASE path \notin {Torn, NoFile}
      <4>1. path \in Stores /\ Rows(path) = path
        BY <3>2 DEF PersistTypeOK, Rows
      <4>2. FileKeys(path) \subseteq Held(Overlay(store, Rows(path)))
        BY <4>1, FileKeysFacts DEF Overlay, Held
      <4> QED BY <2>1, <4>2
    <3> QED BY <3>1, <3>2
  <2>3. removed \subseteq removed'
    BY <1>2 DEF loadSnapshot, Leave
  <2>4. UNCHANGED <<saves, path, tmp, early>> /\ phase = "loading"
    BY <1>2 DEF loadSnapshot, diskVars
  <2> QED BY <2>1, <2>2, <2>3, <2>4 DEF KeysInv, Alone, Busy
<1>3. CASE Autosave
  <2>1. phase \in {"syncing", "serving"}
    BY <1>3 DEF Autosave, PhaseInv, PersistTypeOK
  <2> QED BY <1>3, <2>1, KeysInvCapture DEF Autosave, Saves, processVars, persistHistory
<1>4. CASE Kill
  BY <1>4, KeysInvDown DEF Kill
<1>5. ASSUME NEW s \in Saves, OpenTmp(s) PROVE KeysInv'
  <2>1. /\ KnownKeys' = KnownKeys
        /\ \A t \in Saves : /\ Busy(t)' <=> Busy(t)
                            /\ saves'[t].payload = saves[t].payload
                            /\ saves'[t].shared = saves[t].shared
        /\ UNCHANGED <<phase, early, removed>>
    BY <1>5, WritingFacts DEF KnownKeys
  <2>2. path' = path /\ tmp' = Torn
    BY <1>5 DEF OpenTmp
  <2> QED BY <2>1, <2>2, FileKeysFacts DEF KeysInv, Alone
<1>6. ASSUME NEW s \in Saves, WriteTmp(s) PROVE KeysInv'
  BY <1>6, KeysInvWriteTmp
<1>7. ASSUME NEW s \in Saves, Rename(s) \/ SaveFails(s) PROVE KeysInv'
  BY <1>7, KeysInvEnds
<1>8. ASSUME NEW s \in Signals, Signal(s) PROVE KeysInv'
  BY <1>8 DEF Signal, KeysInv, KnownKeys, Alone, Busy, diskVars, persistHistory
<1>9. ASSUME NEW s \in Signals, FinalSave(s) PROVE KeysInv'
  <2>1. phase # "down"
    BY <1>9 DEF FinalSave, PhaseInv
  <2>2. (early => early') /\ (~early' => phase # "loading")
    BY <1>9 DEF FinalSave, SaveBegins
  <2>3. phase \in {"down", "loading", "syncing", "serving"}
    BY DEF PersistTypeOK
  <2> QED BY <1>9, <2>1, <2>2, <2>3, KeysInvCapture DEF FinalSave, Saves
<1>10. ASSUME NEW s \in Signals, Exit(s) PROVE KeysInv'
  BY <1>10, KeysInvDown DEF Exit
<1> QED BY <1>1, <1>2, <1>3, <1>4, <1>5, <1>6, <1>7, <1>8, <1>9, <1>10 DEF PersistStep, saveSnapshot

LEMMA KeysInvNext ==
    ASSUME TypeOK, FileInv, PhaseInv, KeysInv, [Next]_vars
    PROVE  KeysInv'
<1>1. CASE PersistStep
  BY <1>1, KeysInvStep DEF TypeOK
<1>2. CASE Aside /\ Remembers
  BY <1>2 DEF Aside, Remembers, KeysInv, Alone, Busy, diskVars
<1> QED BY <1>1, <1>2, RemembersAside

(* One step takes from the file no key that was not taken from the store. *)
LEMMA StepKeepsKeys ==
    ASSUME TypeOK, FileInv, PhaseInv, KeysInv, [Next]_vars,
           NEW k \in Keys, OnDisk(path, k), ~OnDisk(path', k)
    PROVE  overlapped' \/ early' \/ k \in removed'
<1>1. path' # path
  OBVIOUS
<1>2. PICK s \in Saves : WriteTmp(s) \/ Rename(s)
  BY <1>1, NextAside DEF PersistStep, Aside, StartProcess, loadSnapshot, Autosave, Kill, saveSnapshot,
        OpenTmp, SaveFails, Signal, FinalSave, Exit, diskVars
<1>3. CASE WriteTmp(s)
  <2>1. saves[s].fd = "path"
    BY <1>1, <1>3, WriteTmpFacts DEF TypeOK
  <2> QED BY <1>3, <2>1, WritingFacts DEF TypeOK, FileInv, LateWriterOverlaps
<1>4. CASE Rename(s)
  <2>1. CASE saves[s].shared
    BY <1>4, <2>1 DEF Rename
  <2>2. CASE ~saves[s].shared /\ ~early
    <3>1. Alone(s)
      BY <1>4, <2>2 DEF Rename, Alone, Busy
    <3>2. path' = saves[s].payload
      BY <1>4, <3>1 DEF Rename, FileInv, AloneOwnsTmp
    <3>3. k \in FileKeys(path) /\ k \notin FileKeys(path')
      BY DEF FileKeys
    <3> QED BY <1>4, <2>2, <3>1, <3>2, <3>3 DEF KeysInv, Rename
  <2>3. CASE early
    BY <1>4, <2>3 DEF Rename
  <2> QED BY <2>1, <2>2, <2>3
<1> QED BY <1>2, <1>3, <1>4

(* FileKeepsKeys: no save loses a key that was not removed, over any number of *)
(* restarts, unless saves overlapped or a signal came before the file was   *)
(* loaded.                                                                  *)
THEOREM SavesKeepKeys == Spec => FileKeepsKeys
<1>1. TypeOK /\ FileInv /\ PhaseInv /\ KeysInv /\ [Next]_vars =>
          [\A k \in Keys : OnDisk(path, k) /\ ~OnDisk(path', k) =>
               overlapped' \/ early' \/ k \in removed']_persistVars
  BY StepKeepsKeys
<1>2. ExitInv => PhaseInv
  BY DEF ExitInv
<1> QED BY <1>1, <1>2, ExitInvInit, FileInvInit, FileInvNext, ExitInvNext, KeysInvInit, KeysInvNext,
           TypeCorrect, PTL DEF Spec, FileKeepsKeys

-----------------------------------------------------------------------------
(* What a replica was told. *)

(* A store keeps a key that it is not told about, or loses it. *)
LEMMA GoneOrKept ==
    ASSUME NEW before, NEW wanted, NEW now, NEW k \in Keys, now[k] \in {wanted[k], Absent},
           k \in before => wanted[k] = Absent
    PROVE  /\ now[k] = wanted[k] \/ k \in Gone(before, wanted, now)
           /\ k \in before => k \in Gone(before, wanted, now)
BY DEF Gone

(* What the operations of the primary do to its history, key by key. *)
LEMMA WriteFacts ==
    ASSUME TypeOK, WordInv, NEW op \in Ops, Write(op), NEW k \in Keys
    PROVE  /\ k \in op.keys => primary'[k] = op.value \/ k \in lostThere'
           /\ k \notin op.keys => primary'[k] = primary[k] \/ k \in lostThere'
           /\ k \notin op.keys /\ k \in lostThere => k \in lostThere'
<1>1. /\ primary \in Stores /\ primary' \in Applied(primary, op, PrimaryEntries)
      /\ lostThere' = Gone(lostThere \ op.keys, Apply(primary, op), primary')
  BY DEF Write, TypeOK
<1>2. /\ Apply(primary, op)[k] = IF k \in op.keys THEN op.value ELSE primary[k]
      /\ primary'[k] \in {Apply(primary, op)[k], Absent}
  BY <1>1, AppliedFacts
<1>3. k \in lostThere => primary[k] = Absent
  BY DEF WordInv, LostAreGone
<1> QED BY <1>1, <1>2, <1>3, GoneOrKept

LEMMA RestoreFacts ==
    ASSUME TypeOK, WordInv, NEW entries \in Stores, Restore(entries), NEW k \in Keys \ Held(entries)
    PROVE  /\ primary'[k] = primary[k] \/ k \in lostThere'
           /\ k \in lostThere => k \in lostThere'
<1>1. /\ primary' \in Stored(Overlay(primary, entries), Held(entries), PrimaryEntries)
      /\ lostThere' = Gone(lostThere, Overlay(primary, entries), primary')
      /\ Overlay(primary, entries) \in Stores
  BY OverlayType DEF Restore, TypeOK
<1>2. Overlay(primary, entries)[k] = primary[k]
  BY DEF Overlay, Held
<1>3. primary'[k] \in {Overlay(primary, entries)[k], Absent}
  BY <1>1, StoredFacts
<1>4. k \in lostThere => primary[k] = Absent
  BY DEF WordInv, LostAreGone
<1> QED BY <1>1, <1>2, <1>3, <1>4, GoneOrKept

(* Numbered: a new call has the highest number. *)
LEMMA NumberedNext ==
    ASSUME TypeOK, WordInv, [Next]_vars
    PROVE  Numbered'
<1> USE DEF WordInv, Numbered
<1>0. changes \in Nat /\ \A op \in wire : op.nr \in Nat
  BY ReplicationAssumption DEF TypeOK, Ops
<1>1. CASE Stays(PersistStep)
  BY <1>1 DEF Stays
<1>2. ASSUME NEW op \in Ops, Write(op) PROVE Numbered'
  <2>1. wire' = wire \cup {op} /\ op.nr = changes + 1 /\ changes' = changes + 1
    BY <1>2 DEF Write, forwardToReplicas
  <2> QED BY <1>0, <2>1
<1>3. ASSUME NEW entries \in Stores, Restore(entries) PROVE Numbered'
  BY <1>0, <1>3 DEF Restore
<1>4. ASSUME NEW op \in wire, Deliver(op) \/ Lose(op) PROVE Numbered'
  BY <1>4 DEF Deliver, Lose
<1>5. ASSUME NEW newStore \in Stores, LeaderElected(newStore) PROVE Numbered'
  BY <1>0, <1>5 DEF LeaderElected
<1>6. ASSUME NEW k \in Keys, ExpireHere(k) \/ ExpireThere(k) PROVE Numbered'
  BY <1>6 DEF ExpireHere, ExpireThere
<1>7. CASE Ask \/ Snapshot \/ SyncDone \/ SyncFails
  BY <1>7 DEF Ask, Snapshot, SyncDone, SyncFails
<1>8. CASE UNCHANGED vars
  BY <1>8 DEF vars, replVars
<1> QED BY <1>1, <1>2, <1>3, <1>4, <1>5, <1>6, <1>7, <1>8, NextSteps

(* AnswerHolds: what is written behind the answer is noted. *)
LEMMA AnswerHoldsNext ==
    ASSUME TypeOK, WordInv, [Next]_vars
    PROVE  AnswerHolds'
<1>0. AnswerHolds
  BY DEF WordInv
<1>1. ASSUME sync'.answer = NoFile PROVE AnswerHolds'
  BY <1>1 DEF AnswerHolds
<1>2. ASSUME UNCHANGED <<sync, primary>>, lostThere \subseteq lostThere' PROVE AnswerHolds'
  BY <1>0, <1>2 DEF AnswerHolds
<1>3. ASSUME NEW S \in SUBSET Keys, Cross(S), sync.answer # NoFile
      PROVE  sync'.answer = sync.answer /\ sync'.crossed = sync.crossed \cup S
  BY <1>3 DEF Cross, TypeOK
<1>30. ASSUME NEW S \in SUBSET Keys, Cross(S), sync.answer = NoFile
      PROVE  sync'.answer = NoFile
  BY <1>30 DEF Cross, TypeOK
<1>4. NoSync.answer = NoFile
  BY DEF NoSync
<1>5. CASE Stays(PersistStep)
  BY <1>1, <1>2, <1>4, <1>5 DEF Stays, lost
<1>6. ASSUME NEW op \in Ops, Write(op) PROVE AnswerHolds'
  <2>1. op.keys \subseteq Keys /\ Cross(op.keys)
    BY <1>6, ReplicationAssumption DEF Ops, Write
  <2>2. CASE sync.answer = NoFile
    BY <1>1, <1>30, <2>1, <2>2
  <2>3. CASE sync.answer # NoFile
    BY <1>0, <1>3, <1>6, <2>1, <2>3, WriteFacts DEF AnswerHolds
  <2> QED BY <2>2, <2>3
<1>7. ASSUME NEW entries \in Stores, Restore(entries) PROVE AnswerHolds'
  <2>1. Held(entries) \subseteq Keys /\ Cross(Held(entries))
    BY <1>7 DEF Held, Restore
  <2>2. CASE sync.answer = NoFile
    BY <1>1, <1>30, <2>1, <2>2
  <2>3. CASE sync.answer # NoFile
    BY <1>0, <1>3, <1>7, <2>1, <2>3, RestoreFacts DEF AnswerHolds
  <2> QED BY <2>2, <2>3
<1>8. ASSUME NEW op \in wire, Deliver(op) \/ Lose(op) PROVE AnswerHolds'
  BY <1>2, <1>8 DEF Deliver, Lose, lost
<1>9. CASE Ask
  BY <1>1, <1>4, <1>9 DEF Ask, TypeOK
<1>10. CASE Snapshot
  BY <1>10 DEF Snapshot, TypeOK, AnswerHolds
<1>11. CASE SyncDone
  BY <1>1, <1>4, <1>11 DEF SyncDone
<1>12. CASE SyncFails
  BY <1>1, <1>12 DEF SyncFails, NoSync
<1>13. ASSUME NEW newStore \in Stores, LeaderElected(newStore) PROVE AnswerHolds'
  BY <1>1, <1>4, <1>13 DEF LeaderElected, TypeOK
<1>14. ASSUME NEW k \in Keys, ExpireHere(k) PROVE AnswerHolds'
  BY <1>2, <1>14 DEF ExpireHere
<1>15. ASSUME NEW k \in Keys, ExpireThere(k) PROVE AnswerHolds'
  <2>1. /\ sync' = sync /\ lostThere' = lostThere \cup {k}
        /\ \A j \in Keys \ {k} : primary'[j] = primary[j]
    BY <1>15 DEF ExpireThere, TypeOK, Stores
  <2> QED BY <1>0, <2>1 DEF AnswerHolds
<1>16. CASE UNCHANGED vars
  BY <1>2, <1>16 DEF vars, replVars, lost
<1> QED BY <1>5, <1>6, <1>7, <1>8, <1>9, <1>10, <1>11, <1>12, <1>13, <1>14, <1>15, <1>16, NextSteps

(* NothingTaken: a process that is gone is told again. *)
LEMMA NothingTakenNext ==
    ASSUME TypeOK, WordInv, [Next]_vars
    PROVE  NothingTaken'
<1> USE DEF NothingTaken
<1>0. NothingTaken
  BY DEF WordInv
<1>1. CASE Stays(PersistStep)
  <2>1. phase' = "down" \/ phase' = phase \/ phase = "down" \/ phase' = "syncing"
    BY <1>1, WritingFacts, EndFacts DEF Stays, PersistStep, TypeOK, StartProcess, loadSnapshot,
         Autosave, Kill, saveSnapshot, Over, Down, Signal, FinalSave, Exit, processVars
  <2>2. CASE phase' = "down"
    BY <1>1, <2>2 DEF Stays
  <2>3. CASE phase' # "down"
    BY <1>0, <1>1, <2>1, <2>3 DEF Stays
  <2> QED BY <2>2, <2>3
<1>2. ASSUME phase' = phase \/ phase' \notin {"down", "loading"},
             phase \in {"down", "loading"} =>
                 sync' = NoSync /\ \A k \in Keys : word'[k] # "taken"
      PROVE  NothingTaken'
  BY <1>2
<1>3. \A S : Cross(S) /\ sync = NoSync => sync' = NoSync
  BY DEF Cross, NoSync
<1>4. ASSUME NEW op \in Ops, Write(op) PROVE NothingTaken'
  BY <1>0, <1>2, <1>3, <1>4 DEF Write, persistVars, processVars
<1>5. ASSUME NEW entries \in Stores, Restore(entries) PROVE NothingTaken'
  BY <1>0, <1>2, <1>3, <1>5 DEF Restore, persistVars, processVars
<1>6. ASSUME NEW op \in wire, Deliver(op) PROVE NothingTaken'
  BY <1>2, <1>6 DEF Deliver, processVars
<1>7. ASSUME NEW op \in wire, Lose(op) PROVE NothingTaken'
  BY <1>0, <1>2, <1>7 DEF Lose, persistVars, processVars
<1>8. CASE Ask
  BY <1>2, <1>8 DEF Ask, persistVars, processVars
<1>9. CASE Snapshot \/ SyncDone \/ SyncFails
  <2>1. sync # NoSync
    BY <1>9, ReplicationAssumption DEF Snapshot, SyncDone, SyncFails, NoSync, TypeOK
  <2>2. phase' = phase \/ phase' = "serving"
    BY <1>9 DEF Snapshot, SyncDone, SyncFails, Listen, persistVars, processVars
  <2> QED BY <1>0, <1>2, <2>1, <2>2
<1>10. ASSUME NEW newStore \in Stores, LeaderElected(newStore) PROVE NothingTaken'
  BY <1>2, <1>10 DEF LeaderElected, persistVars, processVars
<1>11. ASSUME NEW k \in Keys, ExpireHere(k) \/ ExpireThere(k) PROVE NothingTaken'
  BY <1>0, <1>2, <1>11 DEF ExpireHere, ExpireThere, Expire, persistVars, processVars
<1>12. CASE UNCHANGED vars
  BY <1>0, <1>2, <1>12 DEF vars, replVars, persistVars, processVars
<1> QED BY <1>1, <1>4, <1>5, <1>6, <1>7, <1>8, <1>9, <1>10, <1>11, <1>12, NextSteps

(* What the replica holds of a key that it was told of, as it takes in an   *)
(* operation or the answer of a sync.                                       *)
LEMMA DeliverFacts ==
    ASSUME TypeOK, WordInv, NEW op \in wire, Deliver(op), NEW k \in Keys
    PROVE  /\ k \in op.keys => store'[k] = op.value \/ k \in lostHere'
           /\ k \notin op.keys /\ word[k] = "taken" =>
                 /\ store'[k] = store[k] \/ k \in lostHere'
                 /\ k \in lostHere => k \in lostHere'
<1>1. /\ store \in Stores /\ op \in Ops /\ store' \in Applied(store, op, MaxEntries)
      /\ lostHere' = Gone(lostHere \ op.keys, Apply(store, op), store')
  BY DEF Deliver, TypeOK, PersistTypeOK
<1>2. /\ Apply(store, op)[k] = IF k \in op.keys THEN op.value ELSE store[k]
      /\ store'[k] \in {Apply(store, op)[k], Absent}
  BY <1>1, AppliedFacts
<1>3. k \in lostHere /\ word[k] = "taken" => store[k] = Absent
  BY DEF WordInv, LostAreGone
<1>4. CASE k \in op.keys
  BY <1>1, <1>2, <1>4, GoneOrKept
<1>5. CASE k \notin op.keys /\ word[k] = "taken"
  BY <1>1, <1>2, <1>3, <1>5, GoneOrKept
<1> QED BY <1>4, <1>5

LEMMA SyncDoneFacts ==
    ASSUME TypeOK, WordInv, SyncDone, NEW k \in Keys
    PROVE  /\ sync.answer[k] # Absent => store'[k] = sync.answer[k] \/ k \in lostHere'
           /\ sync.answer[k] = Absent /\ (store[k] = Absent \/ word[k] = "taken") =>
                 /\ store'[k] = store[k] \/ k \in lostHere'
                 /\ word[k] = "taken" /\ k \in lostHere => k \in lostHere'
<1> DEFINE wanted == Overlay(store, sync.answer)
<1>1. /\ sync.answer \in Stores /\ store \in Stores
      /\ store' \in Stored(wanted, Held(sync.answer), MaxEntries)
      /\ lostHere' = Gone(lostHere, wanted, store')
  BY DEF SyncDone, TypeOK, PersistTypeOK
<1>2. wanted[k] = IF sync.answer[k] # Absent THEN sync.answer[k] ELSE store[k]
  BY DEF Overlay
<1>3. store'[k] \in {wanted[k], Absent}
  BY <1>1, OverlayType, StoredFacts
<1>4. k \in lostHere /\ word[k] = "taken" => store[k] = Absent
  BY DEF WordInv, LostAreGone
<1>5. k \in Gone(lostHere, wanted, store') <=>
          store'[k] = Absent /\ (k \in lostHere \/ wanted[k] # Absent)
  BY GoneFacts
<1> HIDE DEF wanted
<1> QED BY <1>1, <1>2, <1>3, <1>4, <1>5

(* LostAreGone: a key that comes back is not lost any more. *)
LEMMA LostAreGoneNext ==
    ASSUME TypeOK, WordInv, [Next]_vars
    PROVE  LostAreGone'
<1> USE DEF LostAreGone
<1>0. LostAreGone /\ NothingTaken /\ lostThere \subseteq Keys /\ lostHere \subseteq Keys
  BY DEF WordInv, TypeOK
<1>1. CASE Stays(PersistStep)
  <2>1. UNCHANGED <<primary, lost>>
    BY <1>1 DEF Stays
  <2>2. ASSUME NEW k \in lostHere, word'[k] = "taken" PROVE store'[k] = Absent
    <3>1. k \in Keys /\ phase' # "down" /\ word[k] = "taken"
      BY <1>0, <1>1, <2>2 DEF Stays
    <3>2. phase \notin {"down", "loading"}
      BY <1>0, <3>1 DEF NothingTaken
    <3>3. store' = store
      BY <1>1, <3>1, <3>2, WritingFacts, EndFacts DEF Stays, PersistStep, TypeOK, StartProcess,
           loadSnapshot, Autosave, Kill, saveSnapshot, Over, Down, Signal, FinalSave, Exit
    <3> QED BY <1>0, <2>2, <3>1, <3>3
  <2> QED BY <1>0, <2>1, <2>2 DEF lost
<1>2. ASSUME NEW op \in Ops, Write(op) PROVE LostAreGone'
  <2>1. /\ lostThere' = Gone(lostThere \ op.keys, Apply(primary, op), primary')
        /\ UNCHANGED <<store, lostHere>>
        /\ \A k \in Keys : word'[k] = "taken" => word[k] = "taken"
    BY <1>2 DEF Write, persistVars
  <2> QED BY <1>0, <2>1 DEF Gone
<1>3. ASSUME NEW entries \in Stores, Restore(entries) PROVE LostAreGone'
  <2>1. /\ lostThere' = Gone(lostThere, Overlay(primary, entries), primary')
        /\ UNCHANGED <<store, lostHere>>
        /\ \A k \in Keys : word'[k] = "taken" => word[k] = "taken"
    BY <1>3 DEF Restore, persistVars
  <2> QED BY <1>0, <2>1 DEF Gone
<1>4. ASSUME NEW op \in wire, Deliver(op) PROVE LostAreGone'
  BY <1>0, <1>4 DEF Deliver, Gone
<1>5. ASSUME NEW op \in wire, Lose(op) PROVE LostAreGone'
  BY <1>0, <1>5 DEF Lose, persistVars, lost
<1>6. CASE Ask \/ Snapshot
  BY <1>0, <1>6 DEF Ask, Snapshot, persistVars, lost
<1>7. CASE SyncDone
  BY <1>0, <1>7 DEF SyncDone, Gone
<1>8. CASE SyncFails
  BY <1>0, <1>8 DEF SyncFails, lost
<1>9. ASSUME NEW newStore \in Stores, LeaderElected(newStore) PROVE LostAreGone'
  BY <1>0, <1>9 DEF LeaderElected, persistVars
<1>10. ASSUME NEW k \in Keys, ExpireHere(k) PROVE LostAreGone'
  BY <1>0, <1>10 DEF ExpireHere, Expire, TypeOK, PersistTypeOK, Stores
<1>11. ASSUME NEW k \in Keys, ExpireThere(k) PROVE LostAreGone'
  BY <1>0, <1>11 DEF ExpireThere, TypeOK, Stores, persistVars
<1>12. CASE UNCHANGED vars
  BY <1>0, <1>12 DEF vars, replVars, persistVars, lost
<1> QED BY <1>1, <1>2, <1>3, <1>4, <1>5, <1>6, <1>7, <1>8, <1>9, <1>10, <1>11, <1>12, NextSteps

(* A word that is still to come is on its way: a new call has the latest    *)
(* word on its keys, and only a call that is over takes it away.            *)
LEMMA OnItsWayNext ==
    ASSUME TypeOK, WordInv, [Next]_vars, NEW k \in Keys, word'[k] = "sent"
    PROVE  OnItsWay(k)'
<1> USE DEF OnItsWay, Latest
<1>0. /\ word[k] = "sent" => OnItsWay(k)
      /\ \A op \in wire : op.nr <= changes /\ op.nr \in Nat
      /\ \A op, other \in wire : op.nr = other.nr => op = other
      /\ changes \in Nat /\ word \in [Keys -> Words]
  BY ReplicationAssumption DEF WordInv, Numbered, DiffersOnlyWhereMissed, TypeOK, Ops
<1>1. ASSUME UNCHANGED <<primary, wire>>, k \in lostThere => k \in lostThere', word[k] = "sent"
      PROVE  OnItsWay(k)'
  BY <1>0, <1>1
<1>2. CASE Stays(PersistStep)
  BY <1>1, <1>2 DEF Stays, lost
<1>3. ASSUME NEW op \in Ops, Write(op) PROVE OnItsWay(k)'
  <2>1. wire' = wire \cup {op} /\ op.nr = changes + 1
        /\ word' = [j \in Keys |-> IF j \in op.keys THEN "sent" ELSE word[j]]
    BY <1>3 DEF Write, forwardToReplicas
  <2>2. CASE k \in op.keys
    <3>1. op.value = primary'[k] \/ k \in lostThere'
      BY <1>3, <2>2, WriteFacts
    <3>2. \A later \in wire' : k \in later.keys => later.nr <= op.nr
      BY <1>0, <2>1
    <3> QED BY <2>1, <2>2, <3>1, <3>2
  <2>3. CASE k \notin op.keys
    <3>1. PICK q \in wire : /\ k \in q.keys /\ Latest(q, k)
                            /\ q.value = primary[k] \/ k \in lostThere
      BY <1>0, <2>1, <2>3
    <3>2. q.value = primary'[k] \/ k \in lostThere'
      BY <1>3, <2>3, <3>1, WriteFacts
    <3>3. \A later \in wire' : k \in later.keys => later.nr <= q.nr
      BY <2>1, <2>3, <3>1
    <3> QED BY <2>1, <3>1, <3>2, <3>3
  <2> QED BY <2>2, <2>3
<1>4. ASSUME NEW entries \in Stores, Restore(entries) PROVE OnItsWay(k)'
  <2>1. k \notin Held(entries) /\ word[k] = "sent" /\ wire' = wire
    BY <1>4 DEF Restore, Held
  <2> QED BY <1>0, <1>4, <2>1, RestoreFacts
<1>5. ASSUME NEW op \in wire, Deliver(op) \/ Lose(op) PROVE OnItsWay(k)'
  <2>1. /\ word[k] = "sent" /\ ~(k \in op.keys /\ Latest(op, k))
        /\ wire' = wire \ {op} /\ UNCHANGED <<primary, lostThere>>
    <3>1. CASE Deliver(op)
      BY <1>0, <3>1 DEF Deliver
    <3>2. CASE Lose(op)
      BY <1>0, <3>2 DEF Lose, lost
    <3> QED BY <1>5, <3>1, <3>2
  <2> QED BY <1>0, <2>1
<1>6. CASE Ask \/ Snapshot \/ SyncFails
  BY <1>1, <1>6 DEF Ask, Snapshot, SyncFails, lost
<1>7. CASE SyncDone
  BY <1>1, <1>7 DEF SyncDone, Brought
<1>8. ASSUME NEW newStore \in Stores, LeaderElected(newStore) PROVE FALSE
  BY <1>8 DEF LeaderElected
<1>9. ASSUME NEW j \in Keys, ExpireHere(j) PROVE OnItsWay(k)'
  BY <1>1, <1>9 DEF ExpireHere
<1>10. ASSUME NEW j \in Keys, ExpireThere(j) PROVE OnItsWay(k)'
  <2>1. /\ wire' = wire /\ word[k] = "sent"
        /\ primary'[k] = primary[k] \/ k \in lostThere'
        /\ k \in lostThere => k \in lostThere'
    BY <1>10 DEF ExpireThere, TypeOK, Stores
  <2> QED BY <1>0, <2>1
<1>11. CASE UNCHANGED vars
  BY <1>1, <1>11 DEF vars, replVars, lost
<1> QED BY <1>2, <1>3, <1>4, <1>5, <1>6, <1>7, <1>8, <1>9, <1>10, <1>11, NextSteps

(* A word that was the latest to arrive is the primary's. *)
LEMMA TakenNext ==
    ASSUME TypeOK, WordInv, [Next]_vars, NEW k \in Keys, word'[k] = "taken"
    PROVE  store'[k] = primary'[k] \/ k \in lostThere' \cup lostHere'
<1>0. /\ word[k] = "taken" => store[k] = primary[k] \/ k \in lostThere \cup lostHere
      /\ word[k] = "sent" => OnItsWay(k)
      /\ word \in [Keys -> Words]
  BY DEF WordInv, DiffersOnlyWhereMissed, TypeOK
<1>1. ASSUME word[k] = "taken", primary'[k] = primary[k] \/ k \in lostThere',
             store'[k] = store[k] \/ k \in lostHere',
             k \in lostThere => k \in lostThere', k \in lostHere => k \in lostHere'
      PROVE  store'[k] = primary'[k] \/ k \in lostThere' \cup lostHere'
  BY <1>0, <1>1
<1>2. CASE Stays(PersistStep)
  <2>1. phase' # "down" /\ word[k] = "taken" /\ UNCHANGED <<primary, lost>>
    BY <1>2 DEF Stays
  <2>2. phase \notin {"down", "loading"}
    BY <2>1 DEF WordInv, NothingTaken
  <2>3. store' = store
    BY <1>2, <2>1, <2>2, WritingFacts, EndFacts DEF Stays, PersistStep, TypeOK, StartProcess,
         loadSnapshot, Autosave, Kill, saveSnapshot, Over, Down, Signal, FinalSave, Exit
  <2> QED BY <1>1, <2>1, <2>3 DEF lost
<1>3. ASSUME NEW op \in Ops, Write(op) PROVE word[k] = "taken" /\ k \notin op.keys
  BY <1>3 DEF Write
<1>4. ASSUME NEW op \in Ops, Write(op) PROVE UNCHANGED <<store, lostHere>>
  BY <1>4 DEF Write, persistVars
<1>5. ASSUME NEW entries \in Stores, Restore(entries)
      PROVE  word[k] = "taken" /\ k \notin Held(entries) /\ UNCHANGED <<store, lostHere>>
  BY <1>5 DEF Restore, Held, persistVars
<1>6. ASSUME NEW op \in wire, Deliver(op)
      PROVE  store'[k] = primary'[k] \/ k \in lostThere' \cup lostHere'
  <2>1. UNCHANGED <<primary, lostThere>>
    BY <1>6 DEF Deliver
  <2>2. CASE k \notin op.keys
    <3>1. word[k] = "taken"
      BY <1>6, <2>2 DEF Deliver
    <3> QED BY <1>1, <1>6, <2>1, <2>2, <3>1, DeliverFacts
  <2>3. CASE k \in op.keys
    <3>1. word[k] = "sent" /\ Latest(op, k)
      BY <1>0, <1>6, <2>3 DEF Deliver, Words
    <3>2. PICK q \in wire : /\ k \in q.keys /\ Latest(q, k)
                            /\ q.value = primary[k] \/ k \in lostThere
      BY <1>0, <3>1 DEF OnItsWay
    <3>3. q = op
      <4>1. op.nr <= q.nr /\ q.nr <= op.nr /\ op.nr \in Nat /\ q.nr \in Nat
        BY <2>3, <3>1, <3>2 DEF Latest, TypeOK, Ops
      <4>2. op.nr = q.nr
        BY <4>1
      <4> QED BY <4>2 DEF WordInv, Numbered
    <3> QED BY <1>6, <2>1, <2>3, <3>2, <3>3, DeliverFacts
  <2> QED BY <2>2, <2>3
<1>7. ASSUME NEW op \in wire, Lose(op) PROVE word[k] = "taken" /\ UNCHANGED <<store, primary, lost>>
  BY <1>7 DEF Lose, persistVars
<1>8. ASSUME Ask \/ Snapshot \/ SyncFails
      PROVE  word[k] = "taken" /\ UNCHANGED <<store, primary, lost>>
  BY <1>8 DEF Ask, Snapshot, SyncFails, persistVars
<1>9. CASE SyncDone
  <2>1. /\ UNCHANGED <<primary, lostThere>> /\ word'[k] = Brought(k)
        /\ k \notin sync.crossed => sync.answer[k] = primary[k] \/ k \in lostThere
    BY <1>9 DEF SyncDone, WordInv, AnswerHolds
  <2>2. CASE word[k] = "sent"
    BY <2>1, <2>2 DEF Brought
  <2>3. CASE word[k] # "sent" /\ sync.answer[k] # Absent
    BY <1>9, <2>1, <2>3, SyncDoneFacts DEF Brought
  <2>4. CASE word[k] = "taken" /\ sync.answer[k] = Absent
    BY <1>1, <1>9, <2>1, <2>4, SyncDoneFacts
  <2>5. CASE word[k] = "missed" /\ sync.answer[k] = Absent
    <3>1. store[k] = Absent /\ k \notin sync.crossed
      BY <2>1, <2>5 DEF Brought
    <3> QED BY <1>9, <2>1, <2>5, <3>1, SyncDoneFacts
  <2> QED BY <1>0, <2>2, <2>3, <2>4, <2>5 DEF Words
<1>10. ASSUME NEW newStore \in Stores, LeaderElected(newStore) PROVE FALSE
  BY <1>10 DEF LeaderElected
<1>11. ASSUME NEW j \in Keys, ExpireHere(j)
       PROVE  store'[k] = primary'[k] \/ k \in lostThere' \cup lostHere'
  <2>1. /\ word[k] = "taken" /\ UNCHANGED <<primary, lostThere>>
        /\ store'[k] = store[k] \/ k \in lostHere'
        /\ lostHere \subseteq lostHere'
    BY <1>11 DEF ExpireHere, Expire, TypeOK, PersistTypeOK, Stores
  <2> QED BY <1>1, <2>1
<1>12. ASSUME NEW j \in Keys, ExpireThere(j)
       PROVE  store'[k] = primary'[k] \/ k \in lostThere' \cup lostHere'
  <2>1. /\ word[k] = "taken" /\ UNCHANGED <<store, lostHere>>
        /\ primary'[k] = primary[k] \/ k \in lostThere'
        /\ lostThere \subseteq lostThere'
    BY <1>12 DEF ExpireThere, TypeOK, Stores, persistVars
  <2> QED BY <1>1, <2>1
<1>13. ASSUME UNCHANGED vars PROVE word[k] = "taken" /\ UNCHANGED <<store, primary, lost>>
  BY <1>13 DEF vars, replVars, persistVars
<1> QED BY <1>1, <1>2, <1>3, <1>4, <1>5, <1>6, <1>7, <1>8, <1>9, <1>10, <1>11, <1>12, <1>13,
           NextSteps, WriteFacts, RestoreFacts DEF lost

(* WordInv is inductive. *)
LEMMA WordInvNext ==
    ASSUME TypeOK, WordInv, [Next]_vars
    PROVE  WordInv'
<1>1. DiffersOnlyWhereMissed'
  BY OnItsWayNext, TakenNext DEF DiffersOnlyWhereMissed
<1> QED BY <1>1, NumberedNext, AnswerHoldsNext, NothingTakenNext, LostAreGoneNext DEF WordInv

LEMMA WordInvInit == Init => WordInv
BY DEF Init, PersistInit, WordInv, Numbered, AnswerHolds, NothingTaken, LostAreGone,
       DiffersOnlyWhereMissed, NoSync

(* Replication: on each key a replica agrees with its primary once the      *)
(* latest call about it has arrived, until the key is gone at one of them,  *)
(* for any number of keys, writes, lost and overtaken calls, syncs, and for *)
(* stores of any capacity.                                                  *)
THEOREM ReplicaDiffers == Spec => []DiffersOnlyWhereMissed
<1>1. WordInv => DiffersOnlyWhereMissed
  BY DEF WordInv
<1> QED BY <1>1, WordInvInit, WordInvNext, TypeCorrect, PTL DEF Spec
=============================================================================
