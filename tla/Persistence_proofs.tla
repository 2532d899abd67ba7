-------------------------- MODULE Persistence_proofs --------------------------
(* What holds of a node and its files for any number of changes, starts,     *)
(* crashes and failed writes.                                                *)
EXTENDS Persistence, TLAPS

\* The values of the files and of what may become of them.
FilesTyped(d, s) ==
    /\ d \in [File -> Int] /\ \A f \in File : d[f] \in Stored(f)
    /\ s \in [File -> SUBSET Int] /\ \A f \in File : s[f] \subseteq Stored(f)

\* Values written, synced or left by a power loss are of the right kind.
LEMMA FilesType ==
    ASSUME TypeOK, Next
    PROVE  FilesTyped(disk', survivors')
<1>1. FilesTyped(disk, survivors)
    BY DEF TypeOK, FilesTyped
<1>2. \A f \in File : Stored(f) \subseteq Int
    BY PersistenceBounds DEF Stored, Absent
<1>3. ASSUME NEW f \in File, write_bytes_atomic(f) PROVE FilesTyped(disk', survivors')
    <2>1. contents(f) \in Stored(f)
        BY PersistenceBounds DEF contents, Stored, Stakes, TypeOK
    <2>2. /\ disk' = [disk EXCEPT ![f] = contents(f)]
          /\ survivors' = [survivors EXCEPT ![f] = @ \cup {contents(f)}]
        BY <1>3 DEF write_bytes_atomic
    <2> QED BY <1>1, <1>2, <2>1, <2>2 DEF FilesTyped
<1>4. CASE fsync_data_dir
    BY <1>1, <1>4 DEF fsync_data_dir, FilesTyped
<1>5. CASE fsync_keys_dir
    BY <1>1, <1>5 DEF fsync_keys_dir, FilesTyped, File
<1>6. CASE power_loss
    <2>1. /\ disk' \in [File -> UNION {survivors[f] : f \in File}]
          /\ \A f \in File : disk'[f] \in survivors[f]
          /\ survivors' = [f \in File |-> {disk'[f]}]
        BY <1>6 DEF power_loss
    <2>2. \A f \in File : disk'[f] \in Stored(f) /\ disk'[f] \in Int
        BY <1>1, <1>2, <2>1 DEF FilesTyped
    <2> QED BY <2>1, <2>2 DEF FilesTyped
<1>7. CASE UNCHANGED <<disk, survivors>>
    BY <1>1, <1>7
<1> QED BY <1>3, <1>4, <1>5, <1>6, <1>7
        DEF Next, save_step, save_error, change_chain, persist_worker_begins, persist_worker_saves,
            start_fresh, start_restored, start_refused, stop_begins, stop_cancels_worker,
            stop_raises, stop_saves, process_crash

\* The types are inductive.
LEMMA NextType == TypeOK /\ [Next]_vars => TypeOK'
<1> SUFFICES ASSUME TypeOK, [Next]_vars PROVE TypeOK'
    OBVIOUS
<1>1. CASE UNCHANGED vars
    BY <1>1 DEF vars, TypeOK
<1>2. CASE Next
    <2>1. FilesTyped(disk', survivors')
        BY <1>2, FilesType
    <2>2. /\ chain' \in 0 .. MaxChanges /\ identity' \in 0 .. MaxStarts
          /\ saved' \in {Absent} \cup (0 .. MaxChanges)
          /\ changes' \in 0 .. MaxChanges /\ starts' \in 0 .. MaxStarts
          /\ crashes' \in 0 .. MaxCrashes /\ failures' \in 0 .. MaxFailures
          /\ faults' \in Nat
        <3>1. CASE start_restored
            <4>1. disk["chain"] \in 0 .. MaxChanges
                BY <3>1, PersistenceBounds
                   DEF start_restored, loads, TypeOK, Stored, File, DataFile
            <4>2. key_at_start \in 0 .. MaxStarts
                <5>1. disk["key"] \in {Absent} \cup (0 .. MaxStarts)
                    BY DEF TypeOK, Stored, File
                <5>2. starts' \in 0 .. MaxStarts
                    BY <3>1, PersistenceBounds DEF start_restored, starting, TypeOK
                <5> QED BY <5>1, <5>2 DEF key_at_start
            <4> QED BY <3>1, <4>1, <4>2, PersistenceBounds DEF start_restored, starting, TypeOK
        <3>2. CASE \E f \in File : write_bytes_atomic(f)
            BY <3>2, PersistenceBounds DEF write_bytes_atomic, node, counters, TypeOK
        <3>3. CASE fsync_data_dir \/ fsync_keys_dir
            BY <3>3, PersistenceBounds DEF fsync_data_dir, fsync_keys_dir, node, counters, TypeOK
        <3>4. CASE save_error
            BY <3>4, PersistenceBounds DEF save_error, TypeOK
        <3>5. CASE change_chain
            BY <3>5, PersistenceBounds DEF change_chain, TypeOK
        <3>6. CASE persist_worker_begins \/ persist_worker_saves
            BY <3>6, PersistenceBounds DEF persist_worker_begins, persist_worker_saves, node, counters, TypeOK
        <3>7. CASE start_fresh \/ start_refused
            BY <3>7, PersistenceBounds DEF start_fresh, start_refused, starting, TypeOK
        <3>8. CASE stop_begins \/ stop_cancels_worker \/ stop_raises \/ stop_saves
            BY <3>8, PersistenceBounds DEF stop_begins, stop_cancels_worker, stop_raises, stop_saves, counters, TypeOK
        <3>9. CASE process_crash \/ power_loss
            BY <3>9, PersistenceBounds DEF process_crash, power_loss, forget, TypeOK
        <3> QED BY <1>2, <3>1, <3>2, <3>3, <3>4, <3>5, <3>6, <3>7, <3>8, <3>9 DEF Next, save_step
    <2>3. phase' \in Phase /\ task' \in TaskState
        BY <1>2
           DEF Next, save_step, write_bytes_atomic, fsync_data_dir, fsync_keys_dir, save_error,
               change_chain, schedule_persist, persist_worker_begins, persist_worker_saves,
               start_fresh, start_restored, start_refused, stop_begins, stop_cancels_worker,
               stop_raises, stop_saves, process_crash, power_loss, forget, node, TypeOK, Phase,
               TaskState
    <2>4. pending' \in BOOLEAN
        BY <1>2
           DEF Next, save_step, write_bytes_atomic, fsync_data_dir, fsync_keys_dir, save_error,
               change_chain, schedule_persist, persist_worker_begins, persist_worker_saves,
               start_fresh, start_restored, start_refused, stop_begins, stop_cancels_worker,
               stop_raises, stop_saves, process_crash, power_loss, forget, node, TypeOK
    <2>5. saver' \in Saver /\ step' \in Step /\ (saver' = "none" <=> step' = "idle")
        BY <1>2
           DEF Next, save_step, write_bytes_atomic, after, fsync_data_dir, fsync_keys_dir,
               save_error, change_chain, persist_worker_begins, persist_worker_saves, begin_save,
               start_fresh, start_restored, start_refused, stop_begins, stop_cancels_worker,
               stop_raises, stop_saves, process_crash, power_loss, forget, TypeOK, Saver, Step,
               File, DataFile
    <2> QED BY <2>1, <2>2, <2>3, <2>4, <2>5 DEF TypeOK, FilesTyped
<1> QED BY <1>1, <1>2

\* The initial state is well typed.
LEMMA InitType == Init => TypeOK
<1> SUFFICES ASSUME Init PROVE TypeOK
    OBVIOUS
<1>1. /\ disk \in [File -> Int] /\ \A f \in File : disk[f] \in Stored(f)
      /\ survivors \in [File -> SUBSET Int] /\ \A f \in File : survivors[f] \subseteq Stored(f)
    BY DEF Init, Stored, Absent
<1>2. /\ phase \in Phase /\ pending \in BOOLEAN /\ task \in TaskState
      /\ saver \in Saver /\ step \in Step /\ (saver = "none" <=> step = "idle")
    BY DEF Init, Phase, TaskState, Saver, Step
<1>3. /\ chain \in 0 .. MaxChanges /\ identity \in 0 .. MaxStarts
      /\ changes \in 0 .. MaxChanges /\ starts \in 0 .. MaxStarts
      /\ crashes \in 0 .. MaxCrashes /\ failures \in 0 .. MaxFailures
      /\ faults \in Nat /\ saved \in {Absent} \cup (0 .. MaxChanges)
    BY PersistenceBounds DEF Init
<1> QED BY <1>1, <1>2, <1>3 DEF TypeOK

\* What a save writes, a power loss leaves and load returns stays within the
\* kinds of values the node handles; a save is under way exactly when it has
\* a next step.
THEOREM TypeCorrect == Spec => []TypeOK
BY InitType, NextType, PTL DEF Spec

-----------------------------------------------------------------------------
(* Saved chains survive *)

\* The files a save has already replaced hold the chain of the node, and
\* after the directory was synced nothing else can come back.
SaveProgress ==
    /\ step \in {"stakes", "meta", "key", "sync_data", "sync_keys"} => disk["chain"] = chain
    /\ step \in {"key", "sync_data", "sync_keys"} => disk["meta"] = chain
    /\ step = "sync_keys" => /\ survivors["chain"] = {chain}
                             /\ survivors["meta"] = {chain}

\* No copy of chain.json or meta.json that can still turn up, and no chain in
\* the memory of a node that is up, is older than the last completed save.
\* NothingSavedIsLost alone is not inductive: a start takes its chain from
\* the disk, and the disk takes its contents from what a power loss spared.
Durable ==
    /\ disk["chain"] \in survivors["chain"] /\ disk["meta"] \in survivors["meta"]
    /\ \A v \in survivors["chain"] \cup survivors["meta"] : saved <= v /\ v <= changes
    /\ phase \in Live \cup {"starting"} => saved <= chain
    /\ chain <= changes
    /\ saver # "none" => phase \in Live \cup {"starting"}
    /\ saver = "worker" => phase \in Live
    /\ saver \in {"init", "stop"} => task = "none"
    /\ task \in {"created", "sleeping", "cancelling"} => phase \in Live
    /\ SaveProgress

\* Every step keeps it.
LEMMA NextDurable == TypeOK /\ Durable /\ [Next]_vars => Durable'
<1> SUFFICES ASSUME TypeOK, Durable, [Next]_vars PROVE Durable'
    OBVIOUS
<1> USE DEF SaveProgress, Live
<1>1. /\ chain \in Int /\ saved \in Int /\ changes \in Int
      /\ disk \in [File -> Int] /\ survivors \in [File -> SUBSET Int]
      /\ "chain" \in File /\ "meta" \in File /\ "key" \in File
      /\ (saver = "none" <=> step = "idle")
    BY PersistenceBounds DEF TypeOK, Absent, File, DataFile
<1>2. ASSUME NEW f \in File, write_bytes_atomic(f) PROVE Durable'
    <2>1. f \in {"chain", "stakes", "meta", "key"}
        BY DEF File, DataFile
    <2>2. /\ saver # "none" /\ step = f /\ step' = after(f)
          /\ disk' = [disk EXCEPT ![f] = contents(f)]
          /\ survivors' = [survivors EXCEPT ![f] = @ \cup {contents(f)}]
          /\ phase' = phase /\ chain' = chain /\ saver' = saver /\ saved' = saved /\ task' = task
          /\ changes' = changes
        BY <1>2 DEF write_bytes_atomic, node, counters
    <2>3. saved <= chain /\ chain <= changes
        BY <2>2 DEF Durable
    <2>4. CASE f = "chain"
        BY <1>1, <2>2, <2>3, <2>4 DEF Durable, contents, after
    <2>5. CASE f = "stakes"
        BY <1>1, <2>2, <2>3, <2>5 DEF Durable, contents, after
    <2>6. CASE f = "meta"
        BY <1>1, <2>2, <2>3, <2>6 DEF Durable, contents, after
    <2>7. CASE f = "key"
        BY <1>1, <2>2, <2>3, <2>7 DEF Durable, contents, after
    <2> QED BY <2>1, <2>4, <2>5, <2>6, <2>7
<1>3. CASE fsync_data_dir
    <2>1. /\ survivors'["chain"] = {disk["chain"]} /\ survivors'["meta"] = {disk["meta"]}
        BY <1>1, <1>3 DEF fsync_data_dir, File, DataFile
    <2> QED BY <1>1, <1>3, <2>1 DEF fsync_data_dir, node, counters, Durable
<1>4. CASE fsync_keys_dir
    <2>1. survivors'["chain"] = survivors["chain"] /\ survivors'["meta"] = survivors["meta"]
        BY <1>1, <1>4 DEF fsync_keys_dir
    <2> QED BY <1>1, <1>4, <2>1 DEF fsync_keys_dir, counters, Durable
<1>5. CASE save_error
    BY <1>1, <1>5 DEF save_error, Durable
<1>6. CASE change_chain
    BY <1>1, <1>6 DEF change_chain, schedule_persist, Durable
<1>7. CASE persist_worker_begins
    BY <1>1, <1>7 DEF persist_worker_begins, counters, Durable
<1>8. CASE persist_worker_saves
    BY <1>1, <1>8 DEF persist_worker_saves, begin_save, node, counters, Durable
<1>9. CASE start_fresh
    BY <1>1, <1>9 DEF start_fresh, starting, begin_save, Durable, Absent, TypeOK
<1>10. CASE start_restored
    <2>1. /\ chain' = disk["chain"] /\ phase' = "running" /\ step = "idle" /\ task' = "none"
          /\ UNCHANGED <<saver, step, disk, survivors, saved, changes>>
        BY <1>1, <1>10 DEF start_restored, starting, Durable
    <2>2. saved <= disk["chain"] /\ disk["chain"] <= changes
        BY DEF Durable
    <2> QED BY <1>1, <2>1, <2>2 DEF Durable
<1>11. CASE start_refused
    BY <1>1, <1>11 DEF start_refused, starting, Durable
<1>12. CASE stop_begins \/ stop_cancels_worker \/ stop_raises
    BY <1>1, <1>12 DEF stop_begins, stop_cancels_worker, stop_raises, counters, Durable
<1>13. CASE stop_saves
    BY <1>1, <1>13 DEF stop_saves, begin_save, counters, Durable
<1>14. CASE process_crash
    BY <1>1, <1>14 DEF process_crash, forget, Durable, TypeOK
<1>15. CASE power_loss
    <2>1. /\ disk'["chain"] \in survivors["chain"] /\ disk'["meta"] \in survivors["meta"]
          /\ survivors'["chain"] = {disk'["chain"]} /\ survivors'["meta"] = {disk'["meta"]}
        BY <1>1, <1>15 DEF power_loss
    <2> QED BY <1>1, <1>15, <2>1 DEF power_loss, forget, Durable, TypeOK
<1>16. CASE UNCHANGED vars
    BY <1>16 DEF vars, Durable
<1> QED BY <1>2, <1>3, <1>4, <1>5, <1>6, <1>7, <1>8, <1>9, <1>10, <1>11, <1>12, <1>13, <1>14,
           <1>15, <1>16 DEF Next, save_step

\* It holds of a new node.
LEMMA DurableAlways == Spec => [](TypeOK /\ Durable)
<1>1. Init => Durable
    BY PersistenceBounds DEF Init, Durable, SaveProgress, Live, Absent, File, DataFile
<1> QED BY <1>1, InitType, NextType, NextDurable, PTL DEF Spec

\* What was saved once is there after any number of crashes, power losses,
\* failed writes and restarts: a node that is up never holds less.
THEOREM SavedChainsSurvive == Spec => []NothingSavedIsLost
<1>1. TypeOK /\ Durable => NothingSavedIsLost
    BY PersistenceBounds DEF Durable, NothingSavedIsLost, TypeOK, Absent
<1> QED BY <1>1, DurableAlways, PTL

-----------------------------------------------------------------------------
(* As long as no save was cut short *)

\* The files of a node that has never saved.
Untouched ==
    /\ phase = "down"
    /\ \A f \in File : disk[f] = Absent /\ survivors[f] = {Absent}

\* The files after a save that has returned: load accepts them, the key is
\* there, and a power loss changes nothing.
Complete ==
    /\ loads /\ disk["key"] # Absent
    /\ \A f \in File : survivors[f] = {disk[f]}

\* A save that goes on has replaced the files before its next step, and has
\* synced data_dir before it comes to the keys.
SaveCompletes ==
    /\ step \in {"meta", "key", "sync_data", "sync_keys"} => disk["stakes"] = Stakes
    /\ step \in {"sync_data", "sync_keys"} => disk["key"] = identity
    /\ step = "sync_keys" => \A f \in DataFile : survivors[f] = {disk[f]}

\* What holds until a write fails or a crash interrupts a save: between two
\* saves the files are untouched or complete.  The three properties below
\* need each other: a stop leaves complete files because the worker has not
\* failed, a start finds its key because every stop and crash left complete
\* files.
Uncut ==
    faults = 0 =>
        /\ saver = "none" => Untouched \/ Complete
        /\ saver # "none" => SaveCompletes
        /\ phase = "starting" => saver = "init"
        /\ phase \in Live => disk["key"] = identity
        /\ phase = "stopped" => disk["chain"] = chain
        /\ phase # "refused" /\ task # "failed"

\* Every step keeps it.
LEMMA NextUncut == TypeOK /\ Durable /\ Uncut /\ [Next]_vars => Uncut'
<1> SUFFICES ASSUME TypeOK, Durable, Uncut, [Next]_vars, faults' = 0
             PROVE  /\ saver' = "none" => Untouched' \/ Complete'
                    /\ saver' # "none" => SaveCompletes'
                    /\ phase' = "starting" => saver' = "init"
                    /\ phase' \in Live => disk'["key"] = identity'
                    /\ phase' = "stopped" => disk'["chain"] = chain'
                    /\ phase' # "refused" /\ task' # "failed"
    BY DEF Uncut
<1>1. /\ File = {"chain", "stakes", "meta", "key"} /\ DataFile = {"chain", "stakes", "meta"}
      /\ disk \in [File -> Int] /\ survivors \in [File -> SUBSET Int]
      /\ chain \in Nat /\ identity \in Nat /\ faults \in Nat
      /\ (saver = "none" <=> step = "idle")
    BY PersistenceBounds DEF TypeOK, File, DataFile
<1>2. faults = 0
    <2>1. CASE save_error
        BY <1>1, <2>1 DEF save_error
    <2>2. CASE process_crash \/ power_loss
        BY <1>1, <2>2 DEF process_crash, power_loss, forget
    <2>3. CASE faults' = faults
        BY <2>3
    <2> QED BY <2>1, <2>2, <2>3
            DEF Next, vars, save_step, write_bytes_atomic, fsync_data_dir, fsync_keys_dir,
                change_chain, persist_worker_begins, persist_worker_saves, start_fresh,
                start_restored, start_refused, stop_begins, stop_cancels_worker, stop_raises,
                stop_saves, counters
<1> USE <1>1, <1>2 DEF Uncut, Live
<1>3. ASSUME NEW f \in File, write_bytes_atomic(f) PROVE Uncut'
    <2>1. /\ saver # "none" /\ step = f /\ step' = after(f)
          /\ disk' = [disk EXCEPT ![f] = contents(f)]
          /\ phase' = phase /\ chain' = chain /\ identity' = identity /\ task' = task
          /\ saver' = saver
        BY <1>3 DEF write_bytes_atomic, node
    <2>2. phase \in {"running", "stopping", "awaiting", "starting"}
        BY <2>1 DEF Durable
    <2>3. disk'["key"] = disk["key"] \/ disk'["key"] = identity
        BY <2>1 DEF contents
    <2>4. SaveCompletes'
        BY <2>1 DEF SaveCompletes, contents, after, Stakes
    <2> QED BY <2>1, <2>2, <2>3, <2>4
<1>4. CASE fsync_data_dir
    <2>1. /\ saver # "none" /\ step = "sync_data" /\ step' = "sync_keys" /\ disk' = disk
          /\ \A f \in DataFile : survivors'[f] = {disk[f]}
          /\ phase' = phase /\ chain' = chain /\ identity' = identity /\ task' = task
          /\ saver' = saver
        BY <1>4 DEF fsync_data_dir, node
    <2>2. SaveCompletes'
        BY <2>1 DEF SaveCompletes
    <2> QED BY <2>1, <2>2
<1>5. CASE fsync_keys_dir
    <2>1. /\ saver # "none" /\ step = "sync_keys" /\ disk' = disk /\ saver' = "none"
          /\ survivors' = [survivors EXCEPT !["key"] = {disk["key"]}]
          /\ chain' = chain /\ identity' = identity
          /\ phase' = IF saver = "init" THEN "running"
                      ELSE IF saver = "stop" THEN "stopped" ELSE phase
          /\ task' \in {task, "sleeping", "done"}
        BY <1>5 DEF fsync_keys_dir
    <2>2. /\ disk["chain"] = chain /\ disk["meta"] = chain
        BY <2>1 DEF Durable, SaveProgress
    <2>3. SaveCompletes
        BY <2>1
    <2>4. Complete'
        BY <2>1, <2>2, <2>3 DEF Complete, loads, SaveCompletes, Absent
    <2>5. disk["key"] = identity
        BY <2>1, <2>3 DEF SaveCompletes
    <2> QED BY <2>1, <2>2, <2>4, <2>5 DEF Durable
<1>6. CASE save_error
    BY <1>6 DEF save_error
<1>7. CASE change_chain \/ persist_worker_begins
    <2>1. /\ saver = "none" /\ UNCHANGED <<phase, identity, saver, disk, survivors>>
          /\ phase \in Live /\ task' # "failed"
        BY <1>7 DEF change_chain, persist_worker_begins, schedule_persist, counters, Durable
    <2> QED BY <2>1 DEF Untouched, Complete, loads
<1>8. CASE persist_worker_saves \/ stop_saves
    <2>1. /\ saver = "none" /\ saver' # "none" /\ step' = "chain" /\ phase \in Live
          /\ UNCHANGED <<phase, identity, disk>> /\ task' # "failed"
        BY <1>8 DEF persist_worker_saves, stop_saves, begin_save, node, Durable
    <2> QED BY <2>1 DEF SaveCompletes
<1>9. CASE start_fresh
    BY <1>9 DEF start_fresh, begin_save, SaveCompletes
<1>10. CASE start_restored
    <2>1. /\ phase \in {"down", "stopped"} /\ loads /\ phase' = "running" /\ task' = "none"
          /\ identity' = key_at_start /\ UNCHANGED <<saver, disk, survivors>>
        BY <1>10 DEF start_restored, starting
    <2>2. saver = "none" /\ Complete
        BY <2>1 DEF Durable, Untouched, loads
    <2>3. identity' = disk["key"]
        BY <2>1, <2>2 DEF key_at_start, Complete
    <2> QED BY <2>1, <2>2, <2>3 DEF Complete, loads
<1>11. CASE start_refused
    <2>1. /\ phase \in {"down", "stopped"} /\ disk["meta"] # Absent /\ ~ loads
        BY <1>11 DEF start_refused, starting
    <2>2. saver = "none"
        BY <2>1 DEF Durable
    <2> QED BY <2>1, <2>2 DEF Untouched, Complete
<1>12. CASE stop_begins \/ stop_cancels_worker \/ stop_raises
    <2>1. /\ saver = "none" /\ phase \in Live /\ phase' \in Live /\ task' # "failed"
          /\ UNCHANGED <<identity, saver, disk, survivors>>
        BY <1>12 DEF stop_begins, stop_cancels_worker, stop_raises
    <2> QED BY <2>1 DEF Untouched, Complete, loads
<1>13. CASE process_crash \/ power_loss
    <2>1. /\ saver = "none" /\ saver' = "none" /\ phase' = "down" /\ task' = "none"
        BY <1>13 DEF process_crash, power_loss, forget
    <2>2. disk' = disk /\ survivors' = survivors
        <3>1. \A f \in File : survivors[f] = {disk[f]}
            BY <2>1 DEF Untouched, Complete
        <3>2. CASE power_loss
            <4>1. /\ disk' \in [File -> UNION {survivors[f] : f \in File}]
                  /\ \A f \in File : disk'[f] \in survivors[f]
                  /\ survivors' = [f \in File |-> {disk'[f]}]
                BY <3>2 DEF power_loss
            <4>2. \A f \in File : disk'[f] = disk[f]
                BY <3>1, <4>1
            <4>3. disk' = disk
                BY <4>1, <4>2
            <4> QED BY <3>1, <4>1, <4>3
        <3> QED BY <1>13, <3>2 DEF process_crash
    <2> QED BY <2>1, <2>2 DEF Untouched, Complete, loads
<1>14. CASE UNCHANGED vars
    BY <1>14 DEF vars, Untouched, Complete, SaveCompletes, loads
<1> QED BY <1>3, <1>4, <1>5, <1>6, <1>7, <1>8, <1>9, <1>10, <1>11, <1>12, <1>13, <1>14
        DEF Next, save_step

\* A new node has no files.
LEMMA UncutAlways == Spec => [](TypeOK /\ Durable /\ Uncut)
<1>1. Init => Uncut
    BY DEF Init, Uncut, Untouched, Live, File, DataFile
<1> QED BY <1>1, DurableAlways, NextUncut, PTL DEF Spec

\* No sequence of complete saves, stops, starts and crashes between saves
\* makes load refuse the files of a node.
THEOREM NeverRefusedUncut == Spec => []RefusedOnlyAfterFault
<1>1. TypeOK /\ Uncut => RefusedOnlyAfterFault
    BY DEF TypeOK, Uncut, RefusedOnlyAfterFault
<1> QED BY <1>1, UncutAlways, PTL

\* stop leaves the chain of the node on disk, whatever arrived while it was
\* under way.
THEOREM StopSaves == Spec => []StoppedIsSaved
<1>1. Durable /\ Uncut => StoppedIsSaved
    BY DEF Durable, Live, Uncut, StoppedIsSaved, Untouched, Complete
<1> QED BY <1>1, UncutAlways, PTL

\* The identity a peer has seen once is the identity after every restart.
THEOREM IdentityIsKept == Spec => []IdentityKept
<1>1. Uncut => IdentityKept
    BY DEF Uncut, IdentityKept
<1> QED BY <1>1, UncutAlways, PTL

=============================================================================
