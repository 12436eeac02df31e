------------------------------ MODULE WriteQueue ------------------------------
(***************************************************************************)
(* The debounced write queue (perf/writeQueue.js) and the recovery of its  *)
(* files at boot (safeRead in server.js).  The content of a file is a      *)
(* version: 0 is what a server starts with that finds nothing.  Time is    *)
(* counted in ticks; a timer fires before the tick after its due time.     *)
(***************************************************************************)
EXTENDS Naturals

CONSTANTS
    File,        \* the JSON files
    Debounce,    \* DEBOUNCE_MS, in ticks
    MaxWait,     \* MAX_WAIT_MS, in ticks
    MaxVersion,  \* bound on the changes of a file
    Faults,      \* "write": a write may fail, "copy": restoring .bak may fail
    Missing,     \* there is no such file
    Bad,         \* the file does not parse
    None         \* no entry in the pending map

ASSUME QueueAssumption ==
    /\ {Debounce, MaxWait} \subseteq Nat \ {0}
    /\ Debounce <= MaxWait
    /\ MaxVersion \in Nat
    /\ {Missing, Bad} \cap Nat = {} /\ Missing # Bad
    /\ None \notin [data: Nat, left: Nat, age: Nat]

VARIABLES
    phase,    \* running, stopping (flushAll), stopped, or down after a crash
    mem,      \* the objects in memory
    pending,  \* file -> data to write, ticks left, ticks since first queued
    disk,     \* the files
    bak       \* their .bak copies

\* History: ticks the oldest change not in the file has waited, whether the
\* last write failed, and the generation before the one written last.
VARIABLES unsaved, failed, floor

history == <<unsaved, failed, floor>>
queueVars == <<phase, mem, pending, disk, bak, history>>

Readable(content) == content \notin {Missing, Bad}

-----------------------------------------------------------------------------
(* safeRead, writeNow and queueWrite                                                 *)

\* safeRead: the .bak is only tried when the file is there and does not parse.
Recovers(f) == disk[f] = Bad /\ Readable(bak[f])

SafeRead(f) ==
    CASE Readable(disk[f]) -> disk[f]
      [] Recovers(f)       -> bak[f]
      [] OTHER             -> 0

\* Mutant: no backup is taken.
BackedUpNever(f) == {bak[f]}

\* The .bak after copyFileSync; a copy that fails leaves a partial one.
BackedUp(f) ==
    IF disk[f] = Missing THEN {bak[f]}
    ELSE {disk[f]} \cup (IF "write" \in Faults THEN {Bad} ELSE {})

\* writeNow: backup, temporary file, rename; an error is logged, not thrown.
WriteNow(f, data) ==
    /\ \E b \in BackedUp(f) : bak' = [bak EXCEPT ![f] = b]
    /\ \/ /\ disk' = [disk EXCEPT ![f] = data]
          /\ unsaved' = [unsaved EXCEPT ![f] = 0]
          /\ failed' = [failed EXCEPT ![f] = FALSE]
          /\ floor' = [floor EXCEPT ![f] =
                           IF Readable(disk[f]) THEN disk[f] ELSE @]
       \/ /\ "write" \in Faults
          /\ failed' = [failed EXCEPT ![f] = TRUE]
          /\ UNCHANGED <<disk, unsaved, floor>>

Delay(age) ==
    IF age + Debounce >= MaxWait THEN MaxWait - age ELSE Debounce

\* Every handler that changes an object saves it.
Change(f) ==
    /\ phase = "running"
    /\ mem[f] < MaxVersion
    /\ mem' = [mem EXCEPT ![f] = @ + 1]

\* Mutant: every save restarts the wait.
SaveLaterAfresh(f) ==
    /\ Change(f)
    /\ pending' = [pending EXCEPT ![f] =
                     [data |-> mem'[f], left |-> Debounce, age |-> 0]]
    /\ UNCHANGED <<phase, disk, bak, history>>

\* queueWrite, debounced.
SaveLater(f) ==
    LET age == IF pending[f] = None THEN 0 ELSE pending[f].age IN
    /\ Change(f)
    /\ pending' = [pending EXCEPT ![f] =
                     [data |-> mem'[f], left |-> Delay(age), age |-> age]]
    /\ UNCHANGED <<phase, disk, bak, history>>

\* Mutant: the timer of an older save stays armed.
SaveNowBeside(f) ==
    /\ Change(f)
    /\ WriteNow(f, mem'[f])
    /\ UNCHANGED <<phase, pending>>

\* queueWrite with immediate: TRUE.
SaveNow(f) ==
    /\ Change(f)
    /\ pending' = [pending EXCEPT ![f] = None]
    /\ WriteNow(f, mem'[f])
    /\ UNCHANGED phase

WritePending(f) ==
    /\ pending[f] # None
    /\ pending' = [pending EXCEPT ![f] = None]
    /\ WriteNow(f, pending[f].data)
    /\ UNCHANGED <<phase, mem>>

TimerFires(f) ==
    /\ phase = "running"
    /\ WritePending(f)
    /\ pending[f].left = 0

Older(e) == IF e = None THEN None
            ELSE [e EXCEPT !.left = @ - 1, !.age = @ + 1]

Tick ==
    /\ phase = "running"
    /\ \A f \in File : pending[f] # None => pending[f].left > 0
    /\ pending' = [f \in File |-> Older(pending[f])]
    /\ unsaved' = [f \in File |->
                     IF mem[f] # SafeRead(f) /\ unsaved[f] <= MaxWait
                     THEN unsaved[f] + 1 ELSE unsaved[f]]
    /\ UNCHANGED <<phase, mem, disk, bak, failed, floor>>

-----------------------------------------------------------------------------
(* Shutdown, crash and boot                                                *)

\* SIGINT and SIGTERM
Signal ==
    /\ phase = "running"
    /\ phase' = "stopping"
    /\ UNCHANGED <<mem, pending, disk, bak, history>>

\* flushAll takes the files one after the other.
Flush(f) ==
    /\ phase = "stopping"
    /\ WritePending(f)

\* Mutant: exit does not wait for the flush.
ExitAtOnce ==
    /\ phase = "stopping"
    /\ phase' = "stopped"
    /\ UNCHANGED <<mem, pending, disk, bak, history>>

Exit ==
    /\ phase = "stopping"
    /\ \A f \in File : pending[f] = None
    /\ phase' = "stopped"
    /\ UNCHANGED <<mem, pending, disk, bak, history>>

\* The process is killed, perhaps between the steps of writeNow: the rename
\* is atomic, the copy to .bak is not.
Crash ==
    /\ phase \in {"running", "stopping"}
    /\ phase' = "down"
    /\ \/ UNCHANGED bak
       \/ \E f \in File :
            /\ phase = "running" \/ pending[f] # None
            /\ disk[f] # Missing
            /\ \E b \in {disk[f], Bad} : bak' = [bak EXCEPT ![f] = b]
    /\ UNCHANGED <<mem, pending, disk, history>>

\* A power loss may leave a file that does not parse, but not both copies.
Corrupt(f) ==
    /\ phase = "down"
    /\ Readable(disk[f]) /\ Readable(bak[f])
    /\ disk' = [disk EXCEPT ![f] = Bad]
    /\ UNCHANGED <<phase, mem, pending, bak, history>>

\* The file that does not parse is renamed, then .bak copied in its place.
Restored(f) ==
    IF ~Recovers(f) THEN {disk[f]}
    ELSE {bak[f]} \cup (IF "copy" \in Faults THEN {Missing} ELSE {})

Boot ==
    /\ phase \in {"stopped", "down"}
    /\ phase' = "running"
    /\ mem' = [f \in File |-> SafeRead(f)]
    /\ disk' \in {d \in [File -> UNION {Restored(f) : f \in File}] :
                    \A f \in File : d[f] \in Restored(f)}
    /\ pending' = [f \in File |-> None]
    /\ unsaved' = [f \in File |-> 0]
    /\ failed' = [f \in File |-> FALSE]
    /\ UNCHANGED <<bak, floor>>

QueueInit ==
    /\ phase = "stopped"
    /\ mem = [f \in File |-> 0]
    /\ pending = [f \in File |-> None]
    /\ disk = [f \in File |-> Missing]
    /\ bak = [f \in File |-> Missing]
    /\ unsaved = [f \in File |-> 0]
    /\ failed = [f \in File |-> FALSE]
    /\ floor = [f \in File |-> 0]

QueueNext ==
    \/ \E f \in File : SaveLater(f) \/ SaveNow(f) \/ TimerFires(f)
    \/ \E f \in File : Flush(f) \/ Corrupt(f)
    \/ Tick
    \/ Signal
    \/ Exit
    \/ Crash
    \/ Boot

QueueSpec == QueueInit /\ [][QueueNext]_queueVars
-----------------------------------------------------------------------------
(* Properties                                                              *)

Entry == [data: 0..MaxVersion, left: 0..Debounce, age: 0..MaxWait]
Content == 0..MaxVersion \cup {Missing, Bad}

\* Every variable has its shape; no pending write is older than MAX_WAIT_MS
\* or further away than DEBOUNCE_MS.
TypeOK ==
    /\ phase \in {"running", "stopping", "stopped", "down"}
    /\ mem \in [File -> 0..MaxVersion]
    /\ pending \in [File -> Entry \cup {None}]
    /\ disk \in [File -> Content]
    /\ bak \in [File -> Content]
    /\ unsaved \in [File -> 0..MaxWait + 1]
    /\ failed \in [File -> BOOLEAN]
    /\ floor \in [File -> 0..MaxVersion]

\* However often a file is saved, no change is missing from it for longer than
\* MAX_WAIT_MS, unless its last write failed: a crash loses no more than that.
LossBounded ==
    \A f \in File : unsaved[f] <= MaxWait \/ failed[f]

\* A save that was queued earlier never overwrites a later one.
DiskMovesForward ==
    [][\A f \in File : Readable(disk[f]) /\ Readable(disk'[f])
                          => disk'[f] >= disk[f]]_queueVars

\* An orderly shutdown loses no change of a file whose writes succeed.
ShutdownLosesNothing ==
    phase = "stopped" =>
        \A f \in File : mem[f] = SafeRead(f) \/ failed[f]

\* Whatever the crash and the file it corrupted, a server comes up with the
\* last write of each file or the one before.
AtMostOneGenerationLost ==
    \A f \in File : phase = "running" => mem[f] >= floor[f]
=============================================================================
