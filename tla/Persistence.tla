----------------------------- MODULE Persistence -----------------------------
(***************************************************************************)
(* How one node keeps its chain on disk: the debounced worker, start and   *)
(* stop of network/node.py, and save and load of persistence/store.py.     *)
(*                                                                         *)
(* save runs without suspension, so no other task of the node moves while  *)
(* it is under way; but it replaces several files one after the other, any *)
(* of these steps may fail, and the process or the machine may stop        *)
(* between two of them.  A file is replaced by a rename, which is atomic,  *)
(* but which a power loss may still undo until its directory is synced.    *)
(*                                                                         *)
(* A chain is represented by the number of the change that produced it (0: *)
(* the empty chain), a key by the number of the start that generated it.   *)
(***************************************************************************)
EXTENDS Integers

CONSTANTS MaxChanges, MaxStarts, MaxCrashes, MaxFailures    \* bounds

ASSUME PersistenceBounds ==
    MaxChanges \in Nat /\ MaxStarts \in Nat /\ MaxCrashes \in Nat /\ MaxFailures \in Nat

VARIABLES
    phase,      \* where the node is between its constructor and the end of stop
    chain,      \* blockchain.chain
    identity,   \* the P2P identity key in use
    pending,    \* _persist_pending
    task,       \* state of _persist_task
    saver,      \* who is inside _persist_state
    step,       \* the step of save that comes next
    disk,       \* what the files hold; for meta.json, the chain of its checksum
    survivors,  \* what each file may hold after a power loss
    saved,      \* the chain of the last save that returned
    changes, starts, crashes, failures,     \* numbers of each so far
    faults      \* failed writes, and crashes inside a save

vars == <<phase, chain, identity, pending, task, saver, step, disk, survivors, saved,
          changes, starts, crashes, failures, faults>>

node == <<phase, chain, identity, pending, task>>
counters == <<changes, starts, crashes, failures, faults>>

\* chain.json, genesis_stakes.json and meta.json lie in data_dir, the keys in
\* a directory of their own.
DataFile == {"chain", "stakes", "meta"}
File == DataFile \cup {"key"}

Absent == -1
Stakes == 0         \* the genesis stakes of a node do not change

Phase == {"down", "starting", "running", "stopping", "awaiting", "stopped", "refused"}
TaskState == {"none", "created", "sleeping", "cancelling", "done", "failed"}
Saver == {"none", "init", "worker", "stop"}
Step == File \cup {"idle", "sync_data", "sync_keys"}

Live == {"running", "stopping", "awaiting"}

Init ==
    /\ phase = "down" /\ chain = 0 /\ identity = 0
    /\ pending = FALSE /\ task = "none"
    /\ saver = "none" /\ step = "idle"
    /\ disk = [f \in File |-> Absent]
    /\ survivors = [f \in File |-> {Absent}]
    /\ saved = Absent
    /\ changes = 0 /\ starts = 0 /\ crashes = 0 /\ failures = 0 /\ faults = 0

-----------------------------------------------------------------------------
(* Saving *)

begin_save(who) == saver' = who /\ step' = "chain"

\* What save puts into a file.
contents(f) ==
    IF f = "stakes" THEN Stakes ELSE IF f = "key" THEN identity ELSE chain

\* The order of the steps.
after(f) ==
    IF f = "chain" THEN "stakes"
    ELSE IF f = "stakes" THEN "meta"
    ELSE IF f = "meta" THEN "key" ELSE "sync_data"

write_bytes_atomic(f) ==
    /\ saver # "none" /\ step = f
    /\ disk' = [disk EXCEPT ![f] = contents(f)]
    /\ survivors' = [survivors EXCEPT ![f] = @ \cup {contents(f)}]
    /\ step' = after(f)
    /\ UNCHANGED <<node, saver, saved, counters>>

\* Mutant: the directory is not synced.
fsync_data_dir_skipped ==
    /\ saver # "none" /\ step = "sync_data"
    /\ step' = "sync_keys"
    /\ UNCHANGED <<node, saver, disk, survivors, saved, counters>>

fsync_data_dir ==
    /\ saver # "none" /\ step = "sync_data"
    /\ survivors' = [f \in File |-> IF f \in DataFile THEN {disk[f]} ELSE survivors[f]]
    /\ step' = "sync_keys"
    /\ UNCHANGED <<node, saver, disk, saved, counters>>

\* The keys directory is synced and save returns to its caller: the
\* constructor, the worker's loop, or stop.
fsync_keys_dir ==
    /\ saver # "none" /\ step = "sync_keys"
    /\ survivors' = [survivors EXCEPT !["key"] = {disk["key"]}]
    /\ saved' = chain
    /\ saver' = "none" /\ step' = "idle"
    /\ phase' = IF saver = "init" THEN "running"
                ELSE IF saver = "stop" THEN "stopped" ELSE phase
    /\ task' = IF saver # "worker" THEN task ELSE IF pending THEN "sleeping" ELSE "done"
    /\ pending' = IF saver = "worker" THEN FALSE ELSE pending
    /\ UNCHANGED <<chain, identity, disk, counters>>

\* A write fails, or the serialised chain is over max_chain_file_bytes:
\* ChainStoreError ends the constructor, the worker or stop.
save_error ==
    /\ saver # "none" /\ step \in File
    /\ failures < MaxFailures /\ failures' = failures + 1
    /\ faults' = faults + 1
    /\ saver' = "none" /\ step' = "idle"
    /\ phase' = IF saver = "init" THEN "down"
                ELSE IF saver = "stop" THEN "stopped" ELSE phase
    /\ task' = IF saver = "worker" THEN "failed" ELSE task
    /\ UNCHANGED <<chain, identity, pending, disk, survivors, saved, changes, starts, crashes>>

-----------------------------------------------------------------------------
(* The chain changes, and the worker saves it *)

\* Mutant: a worker that has finished counts as running.
schedule_persist_once ==
    /\ pending' = TRUE
    /\ task' = IF task = "none" THEN "created" ELSE task

schedule_persist ==
    /\ pending' = TRUE
    /\ task' = IF task \in {"none", "done", "failed"} THEN "created" ELSE task

\* An own block, a received block or another chain.
change_chain ==
    /\ phase \in Live /\ saver = "none"
    /\ changes < MaxChanges /\ changes' = changes + 1
    /\ chain' = changes'
    /\ schedule_persist
    /\ UNCHANGED <<phase, identity, saver, step, disk, survivors, saved,
                   starts, crashes, failures, faults>>

\* The worker's first step: it resets the flag and sleeps.
persist_worker_begins ==
    /\ task = "created" /\ saver = "none"
    /\ task' = "sleeping" /\ pending' = FALSE
    /\ UNCHANGED <<phase, chain, identity, saver, step, disk, survivors, saved, counters>>

\* The debounce time is over.
persist_worker_saves ==
    /\ task = "sleeping" /\ saver = "none"
    /\ begin_save("worker")
    /\ UNCHANGED <<node, disk, survivors, saved, counters>>

-----------------------------------------------------------------------------
(* Start *)

starting == /\ phase \in {"down", "stopped"}
            /\ starts < MaxStarts /\ starts' = starts + 1

\* Mutant: a missing or different chain file is not noticed.
loads_unchecked == disk["meta"] # Absent

\* load accepts what is on disk.
loads ==
    /\ disk["meta"] # Absent
    /\ disk["chain"] = disk["meta"]
    /\ disk["stakes"] = Stakes

\* Mutant: a node whose files do not load starts as a new one.
start_fresh_anyway ==
    /\ starting /\ ~ loads
    /\ phase' = "starting" /\ chain' = 0 /\ identity' = starts'
    /\ pending' = FALSE /\ task' = "none"
    /\ begin_save("init")
    /\ UNCHANGED <<disk, survivors, saved, changes, crashes, failures, faults>>

\* No meta.json: a new node, which saves its empty chain and its new key
\* before the constructor returns.
start_fresh ==
    /\ starting /\ disk["meta"] = Absent
    /\ phase' = "starting" /\ chain' = 0 /\ identity' = starts'
    /\ pending' = FALSE /\ task' = "none"
    /\ begin_save("init")
    /\ UNCHANGED <<disk, survivors, saved, changes, crashes, failures, faults>>

\* Mutant: the stored key is not used.
key_always_new == starts'

\* The key in use after a start: the stored one, or a new one, which is not
\* saved before the next save.
key_at_start == IF disk["key"] = Absent THEN starts' ELSE disk["key"]

start_restored ==
    /\ starting /\ loads
    /\ phase' = "running" /\ chain' = disk["chain"] /\ identity' = key_at_start
    /\ pending' = FALSE /\ task' = "none"
    /\ UNCHANGED <<saver, step, disk, survivors, saved, changes, crashes, failures, faults>>

\* load raises ChainStoreError: the node does not start, now or later.
start_refused ==
    /\ starting /\ disk["meta"] # Absent /\ ~ loads
    /\ phase' = "refused"
    /\ UNCHANGED <<chain, identity, pending, task, saver, step, disk, survivors, saved,
                   changes, crashes, failures, faults>>

-----------------------------------------------------------------------------
(* Stop *)

\* stop runs; until it comes to the worker, other tasks go on.
stop_begins ==
    /\ phase = "running" /\ saver = "none"
    /\ phase' = "stopping"
    /\ UNCHANGED <<chain, identity, pending, task, saver, step, disk, survivors, saved, counters>>

\* A worker that is waiting is cancelled, and stop waits for it to end.
stop_cancels_worker ==
    /\ phase = "stopping" /\ saver = "none" /\ task \in {"created", "sleeping"}
    /\ phase' = "awaiting" /\ task' = "cancelling" /\ pending' = FALSE
    /\ UNCHANGED <<chain, identity, saver, step, disk, survivors, saved, counters>>

\* Awaiting a worker that has failed raises its ChainStoreError out of stop.
stop_raises ==
    /\ phase = "stopping" /\ saver = "none" /\ task = "failed"
    /\ phase' = "stopped" /\ pending' = FALSE
    /\ UNCHANGED <<chain, identity, task, saver, step, disk, survivors, saved, counters>>

\* Mutant: stop does not save.
stop_without_save ==
    /\ saver = "none"
    /\ \/ phase = "awaiting"
       \/ phase = "stopping" /\ task \in {"none", "done"}
    /\ phase' = "stopped" /\ pending' = FALSE /\ task' = "none"
    /\ UNCHANGED <<chain, identity, saver, step, disk, survivors, saved, counters>>

\* The worker is gone (cancelled, finished or never started): the final save.
stop_saves ==
    /\ saver = "none"
    /\ \/ phase = "awaiting"
       \/ phase = "stopping" /\ task \in {"none", "done"}
    /\ pending' = FALSE /\ task' = "none"
    /\ begin_save("stop")
    /\ UNCHANGED <<phase, chain, identity, disk, survivors, saved, counters>>

-----------------------------------------------------------------------------
(* Crashes *)

\* What dies with the process.
forget ==
    /\ crashes < MaxCrashes /\ crashes' = crashes + 1
    /\ faults' = IF saver = "none" THEN faults ELSE faults + 1
    /\ phase' = IF phase = "refused" THEN phase ELSE "down"
    /\ chain' = 0 /\ identity' = 0
    /\ pending' = FALSE /\ task' = "none" /\ saver' = "none" /\ step' = "idle"
    /\ UNCHANGED <<saved, changes, starts, failures>>

process_crash ==
    /\ phase \in Live \cup {"starting"}
    /\ forget
    /\ UNCHANGED <<disk, survivors>>

power_loss ==
    /\ forget
    /\ disk' \in {d \in [File -> UNION {survivors[f] : f \in File}] :
                      \A f \in File : d[f] \in survivors[f]}
    /\ survivors' = [f \in File |-> {disk'[f]}]

-----------------------------------------------------------------------------

save_step ==
    \/ \E f \in File : write_bytes_atomic(f)
    \/ fsync_data_dir
    \/ fsync_keys_dir

Next ==
    \/ save_step \/ save_error
    \/ change_chain \/ persist_worker_begins \/ persist_worker_saves
    \/ start_fresh \/ start_restored \/ start_refused
    \/ stop_begins \/ stop_cancels_worker \/ stop_raises \/ stop_saves
    \/ process_crash \/ power_loss

Spec == Init /\ [][Next]_vars

\* The event loop runs the worker, and a save that has begun goes on.
Fairness ==
    /\ WF_vars(save_step)
    /\ WF_vars(persist_worker_begins) /\ WF_vars(persist_worker_saves)
    /\ WF_vars(stop_cancels_worker \/ stop_raises \/ stop_saves)

FairSpec == Spec /\ Fairness

-----------------------------------------------------------------------------
(* Properties *)

Stored(f) == {Absent} \cup (IF f = "key" THEN 0 .. MaxStarts ELSE 0 .. MaxChanges)

TypeOK ==
    /\ phase \in Phase
    /\ chain \in 0 .. MaxChanges /\ identity \in 0 .. MaxStarts
    /\ pending \in BOOLEAN /\ task \in TaskState
    /\ saver \in Saver /\ step \in Step /\ (saver = "none" <=> step = "idle")
    /\ disk \in [File -> Int] /\ \A f \in File : disk[f] \in Stored(f)
    /\ survivors \in [File -> SUBSET Int] /\ \A f \in File : survivors[f] \subseteq Stored(f)
    /\ saved \in {Absent} \cup (0 .. MaxChanges)
    /\ changes \in 0 .. MaxChanges /\ starts \in 0 .. MaxStarts
    /\ crashes \in 0 .. MaxCrashes /\ failures \in 0 .. MaxFailures
    /\ faults \in Nat

\* A chain whose save has returned is not lost: whatever crashes, power
\* losses and failed writes followed, a node that is up holds that chain or a
\* later one.
NothingSavedIsLost == phase \in Live => chain >= saved

\* A node is refused its own files only after a save was cut short; no
\* sequence of complete saves, stops, starts and crashes leads there.
RefusedOnlyAfterFault == phase = "refused" => faults > 0

\* When no save was cut short, stop leaves the chain of the node on disk, and
\* load would accept it, even when blocks arrive while stop is under way.
StoppedIsSaved ==
    phase = "stopped" /\ faults = 0 => loads /\ disk["chain"] = chain

\* When no save was cut short, the key in use is the one on disk: a node has
\* the same identity after every restart.
IdentityKept == phase \in Live /\ faults = 0 => disk["key"] = identity

\* A change reaches the disk without further changes: the worker is never
\* missing or asleep for good.  (It does not try again after a failed write.)
EventuallySaved ==
    \A v \in 1 .. MaxChanges :
        phase \in Live /\ chain = v
            ~> \/ loads /\ disk["chain"] >= v
               \/ task = "failed"
               \/ phase \in {"down", "stopped"}

\* A node that has saved its chain before can be started again.
RestartLoads == saved # Absent => phase # "refused"

=============================================================================
