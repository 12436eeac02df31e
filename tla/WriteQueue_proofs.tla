--------------------------- MODULE WriteQueue_proofs ---------------------------
(***************************************************************************)
(* Machine-checked safety of WriteQueue, for any files, delay and ceiling. *)
(* Types and the age of a pending write hold under any faults; what is on  *)
(* disk is proved for servers whose recoveries succeed ("copy" \notin      *)
(* Faults): TLC shows what a recovery that is cut off costs.               *)
(***************************************************************************)
EXTENDS WriteQueue, TLAPS

\* No timer is due after the ceiling.
Timely ==
    \A f \in File : pending[f] # None =>
        pending[f].age + pending[f].left <= MaxWait

TypeInv == TypeOK /\ Timely

\* What waits is the content of memory, and unless a write failed it waits
\* since the first save that was queued.
Waiting(f) ==
    pending[f] # None =>
        /\ pending[f].data = mem[f]
        /\ failed[f] \/ unsaved[f] <= pending[f].age

\* What does not wait is in the file, unless its write failed.
Saved(f) ==
    pending[f] = None /\ ~failed[f] => unsaved[f] = 0 /\ mem[f] = SafeRead(f)

\* No copy is older than the generation before the last write, and only a
\* power loss leaves a file that does not parse, never both copies.
Copies(f) ==
    /\ Readable(disk[f]) => floor[f] <= disk[f]
    /\ Readable(bak[f]) => floor[f] <= bak[f]
    /\ disk[f] = Missing => floor[f] = 0
    /\ disk[f] = Bad => phase = "down" /\ Readable(bak[f])

\* While the server is up, memory is ahead of the file.
Ahead(f) == Readable(disk[f]) => disk[f] <= mem[f]

QueueInv ==
    /\ TypeInv
    /\ LossBounded
    /\ \A f \in File : Copies(f)
    /\ phase # "down" => \A f \in File : Waiting(f) /\ Saved(f) /\ Ahead(f)

-----------------------------------------------------------------------------
(* Types                                                                   *)

LEMMA ContentFacts ==
    /\ \A c \in Content : Readable(c) <=> c \in 0..MaxVersion
    /\ 0..MaxVersion \subseteq Content
    /\ Missing \in Content /\ Bad \in Content
    /\ ~Readable(Missing) /\ ~Readable(Bad)
BY QueueAssumption DEF Content, Readable

LEMMA SafeReadTyped ==
    ASSUME TypeOK, NEW f \in File
    PROVE  SafeRead(f) \in 0..MaxVersion
<1>1. 0 \in 0..MaxVersion
  BY QueueAssumption
<1>2. disk[f] \in Content /\ bak[f] \in Content
  BY DEF TypeOK
<1> QED BY <1>1, <1>2, ContentFacts DEF SafeRead, Recovers

LEMMA EntryTyped ==
    ASSUME NEW d \in 0..MaxVersion, NEW l \in 0..Debounce, NEW g \in 0..MaxWait
    PROVE  /\ [data |-> d, left |-> l, age |-> g] \in Entry
           /\ [data |-> d, left |-> l, age |-> g] # None
<1>1. [data |-> d, left |-> l, age |-> g] \in [data: Nat, left: Nat, age: Nat]
  BY QueueAssumption
<1> QED BY <1>1, QueueAssumption DEF Entry

\* writeNow keeps the shapes of what it touches.
LEMMA WriteNowTyped ==
    ASSUME TypeOK, NEW f \in File, NEW v \in 0..MaxVersion, WriteNow(f, v)
    PROVE  /\ disk' \in [File -> Content]
           /\ bak' \in [File -> Content]
           /\ unsaved' \in [File -> 0..MaxWait + 1]
           /\ failed' \in [File -> BOOLEAN]
           /\ floor' \in [File -> 0..MaxVersion]
<1>1. bak' \in [File -> Content]
  <2>1. BackedUp(f) \subseteq Content
    BY ContentFacts DEF BackedUp, TypeOK
  <2> QED BY <2>1 DEF WriteNow, TypeOK
<1>2. CASE /\ disk' = [disk EXCEPT ![f] = v]
           /\ unsaved' = [unsaved EXCEPT ![f] = 0]
           /\ failed' = [failed EXCEPT ![f] = FALSE]
           /\ floor' = [floor EXCEPT ![f] =
                            IF Readable(disk[f]) THEN disk[f] ELSE @]
  <2>1. disk[f] \in Content /\ v \in Content
    BY ContentFacts DEF TypeOK
  <2>2. floor' \in [File -> 0..MaxVersion]
    BY <1>2, <2>1, ContentFacts DEF TypeOK
  <2>3. 0 \in 0..MaxWait + 1
    BY QueueAssumption
  <2> QED BY <1>1, <1>2, <2>1, <2>2, <2>3 DEF TypeOK
<1>3. CASE failed' = [failed EXCEPT ![f] = TRUE]
           /\ UNCHANGED <<disk, unsaved, floor>>
  BY <1>1, <1>3 DEF TypeOK
<1> QED BY <1>2, <1>3 DEF WriteNow

LEMMA InitTyped == QueueInit => TypeInv
BY QueueAssumption, ContentFacts DEF QueueInit, TypeInv, TypeOK, Timely

LEMMA DelayBounds ==
    ASSUME NEW age \in 0..MaxWait
    PROVE  Delay(age) \in 0..Debounce /\ age + Delay(age) <= MaxWait
BY QueueAssumption DEF Delay

\* A save typed, with or without delay.
LEMMA SaveTyped ==
    ASSUME TypeInv, NEW f \in File, SaveLater(f) \/ SaveNow(f)
    PROVE  TypeInv'
<1> USE DEF TypeInv
<1>1. mem' \in [File -> 0..MaxVersion] /\ mem'[f] \in 0..MaxVersion
  BY QueueAssumption DEF SaveLater, SaveNow, Change, TypeOK
<1>2. CASE SaveLater(f)
  <2> DEFINE age == IF pending[f] = None THEN 0 ELSE pending[f].age
  <2>1. age \in 0..MaxWait
    BY QueueAssumption DEF TypeOK, Entry
  <2> DEFINE e == [data |-> mem'[f], left |-> Delay(age), age |-> age]
  <2>2. pending' = [pending EXCEPT ![f] = e]
    BY <1>2 DEF SaveLater
  <2>3. e.age + e.left <= MaxWait
    BY <2>1, DelayBounds
  <2>4. e \in Entry
    BY <1>1, <2>1, DelayBounds, EntryTyped
  <2> HIDE DEF e
  <2>5. pending' \in [File -> Entry \cup {None}] /\ Timely'
    BY <2>2, <2>3, <2>4 DEF TypeOK, Timely
  <2> QED BY <1>1, <1>2, <2>5 DEF SaveLater, Change, TypeOK, history
<1>3. CASE SaveNow(f)
  <2>1. pending' \in [File -> Entry \cup {None}] /\ Timely'
    BY <1>3 DEF SaveNow, TypeOK, Timely
  <2>2. WriteNow(f, mem'[f])
    BY <1>3 DEF SaveNow
  <2> HIDE DEF TypeInv
  <2>3. TypeOK
    BY DEF TypeInv
  <2> QED BY <1>1, <1>3, <2>1, <2>2, <2>3, WriteNowTyped
          DEF SaveNow, Change, TypeOK, TypeInv
<1> QED BY <1>2, <1>3

LEMMA WritePendingTyped ==
    ASSUME TypeInv, NEW f \in File, WritePending(f), UNCHANGED phase
    PROVE  TypeInv'
<1>1. pending[f].data \in 0..MaxVersion
  BY DEF WritePending, TypeInv, TypeOK, Entry
<1>2. pending' \in [File -> Entry \cup {None}] /\ Timely'
  BY DEF WritePending, TypeInv, TypeOK, Timely
<1>3. WriteNow(f, pending[f].data) /\ mem' = mem
  BY DEF WritePending
<1> QED BY <1>1, <1>2, <1>3, WriteNowTyped DEF TypeInv, TypeOK

LEMMA TickTyped == TypeInv /\ Tick => TypeInv'
<1> SUFFICES ASSUME TypeInv, Tick PROVE TypeInv'
  OBVIOUS
<1>1. ASSUME NEW f \in File
      PROVE  /\ pending'[f] = Older(pending[f])
             /\ pending'[f] \in Entry \cup {None}
             /\ pending'[f] # None =>
                    pending'[f].age + pending'[f].left <= MaxWait
  <2>1. pending'[f] = Older(pending[f])
    BY DEF Tick
  <2>2. CASE pending[f] = None
    BY <2>1, <2>2 DEF Older
  <2>3. CASE pending[f] # None
    <3> DEFINE e == pending[f]
    <3>1. e \in Entry /\ e.left > 0 /\ e.age + e.left <= MaxWait
      BY <2>3 DEF Tick, TypeInv, TypeOK, Timely
    <3>2. pending'[f] = [data |-> e.data, left |-> e.left - 1, age |-> e.age + 1]
      BY <2>1, <2>3, <3>1 DEF Older, Entry
    <3>3. e.left - 1 \in 0..Debounce /\ e.age + 1 \in 0..MaxWait
      BY <3>1, QueueAssumption DEF Entry
    <3> QED BY <2>1, <3>1, <3>2, <3>3, QueueAssumption DEF Entry
  <2> QED BY <2>2, <2>3
<1>2. DOMAIN pending' = File /\ pending' = [f \in File |-> pending'[f]]
  BY DEF Tick
<1>3. pending' \in [File -> Entry \cup {None}] /\ Timely'
  BY <1>1, <1>2 DEF Timely
<1>4. unsaved' \in [File -> 0..MaxWait + 1]
  BY QueueAssumption DEF Tick, TypeInv, TypeOK
<1> QED BY <1>3, <1>4 DEF Tick, TypeInv, TypeOK

LEMMA BootTyped == TypeInv /\ Boot => TypeInv'
<1> SUFFICES ASSUME TypeInv, Boot PROVE TypeInv'
  OBVIOUS
<1>1. mem' \in [File -> 0..MaxVersion]
  BY SafeReadTyped DEF Boot, TypeInv
<1>2. \A f \in File : Restored(f) \subseteq Content
  BY ContentFacts DEF Restored, TypeInv, TypeOK
<1>3. disk' \in [File -> Content]
  BY <1>2 DEF Boot
<1> QED BY <1>1, <1>3, QueueAssumption DEF Boot, TypeInv, TypeOK, Timely

LEMMA CrashTyped == TypeInv /\ Crash => TypeInv'
<1> SUFFICES ASSUME TypeInv, Crash PROVE TypeInv'
  OBVIOUS
<1>1. bak' \in [File -> Content]
  BY ContentFacts DEF Crash, TypeInv, TypeOK
<1> QED BY <1>1 DEF Crash, TypeInv, TypeOK, Timely, history

LEMMA StepTyped == TypeInv /\ [QueueNext]_queueVars => TypeInv'
<1> SUFFICES ASSUME TypeInv, [QueueNext]_queueVars PROVE TypeInv'
  OBVIOUS
<1>1. ASSUME NEW f \in File, SaveLater(f) \/ SaveNow(f) PROVE TypeInv'
  BY <1>1, SaveTyped
<1>2. ASSUME NEW f \in File, TimerFires(f) \/ Flush(f) PROVE TypeInv'
  BY <1>2, WritePendingTyped DEF TimerFires, Flush, WritePending
<1>3. ASSUME NEW f \in File, Corrupt(f) PROVE TypeInv'
  BY <1>3, ContentFacts DEF Corrupt, TypeInv, TypeOK, Timely, history
<1>4. CASE Signal \/ Exit
  BY <1>4 DEF Signal, Exit, TypeInv, TypeOK, Timely, history
<1>5. CASE UNCHANGED queueVars
  BY <1>5 DEF queueVars, history, TypeInv, TypeOK, Timely
<1> QED BY <1>1, <1>2, <1>3, <1>4, <1>5, TickTyped, CrashTyped, BootTyped
        DEF QueueNext

\* However saves, timers and signals interleave, no entry of the pending map
\* waits longer than MAX_WAIT_MS or is due later than DEBOUNCE_MS from now.
THEOREM QueueTypeCorrect == QueueSpec => []TypeOK
<1>1. TypeInv => TypeOK
  BY DEF TypeInv
<1> QED BY <1>1, InitTyped, StepTyped, PTL DEF QueueSpec

-----------------------------------------------------------------------------
(* What is on disk                                                         *)

\* Recoveries succeed.
NoCopyFault == "copy" \notin Faults

LEMMA InitQueueInv == QueueInit => QueueInv
<1> SUFFICES ASSUME QueueInit PROVE QueueInv
  OBVIOUS
<1>1. LossBounded /\ \A f \in File : Copies(f) /\ Waiting(f) /\ Saved(f) /\ Ahead(f)
  BY QueueAssumption, ContentFacts
  DEF QueueInit, LossBounded, Copies, Waiting, Saved, Ahead, SafeRead, Recovers
<1> QED BY <1>1, InitTyped DEF QueueInv

\* Each file keeps its invariant through a write of memory's content, and the
\* other files are left alone.
LEMMA WriteNowKeeps ==
    ASSUME QueueInv, TypeInv', NEW f \in File,
           phase # "down", phase' = phase,
           mem' \in [File -> 0..MaxVersion], mem[f] <= mem'[f],
           \A g \in File \ {f} : mem'[g] = mem[g],
           pending' = [pending EXCEPT ![f] = None],
           WriteNow(f, mem'[f])
    PROVE  QueueInv' /\ (Readable(disk[f]) => disk[f] <= disk'[f] \/ disk'[f] = disk[f])
<1> DEFINE v == mem'[f]
<1>1. v \in 0..MaxVersion /\ v \in Content /\ Readable(v)
  BY ContentFacts
<1>2. TypeOK
  BY DEF QueueInv, TypeInv
<1>3. /\ Copies(f) /\ Waiting(f) /\ Saved(f) /\ Ahead(f)
      /\ disk[f] # Bad
      /\ disk[f] \in Content /\ bak[f] \in Content
      /\ mem[f] \in 0..MaxVersion /\ floor[f] \in 0..MaxVersion
  BY <1>2 DEF QueueInv, Copies, TypeOK
<1>4. bak'[f] \in {Bad, disk[f]} \/ (disk[f] = Missing /\ bak'[f] = bak[f])
  BY <1>2 DEF WriteNow, BackedUp, TypeOK
<1>5. \A g \in File \ {f} :
        /\ disk'[g] = disk[g] /\ bak'[g] = bak[g] /\ pending'[g] = pending[g]
        /\ unsaved'[g] = unsaved[g] /\ failed'[g] = failed[g] /\ floor'[g] = floor[g]
  BY <1>2 DEF WriteNow, TypeOK
<1>6. pending'[f] = None
  BY <1>2 DEF TypeOK
<1>7. CASE /\ disk'[f] = v /\ unsaved'[f] = 0 /\ failed'[f] = FALSE
           /\ floor'[f] = IF Readable(disk[f]) THEN disk[f] ELSE floor[f]
  <2>1. Copies(f)'
    <3>1. floor'[f] <= v
      <4>1. CASE Readable(disk[f])
        BY <1>1, <1>3, <1>7, <4>1, ContentFacts, QueueAssumption DEF Ahead
      <4>2. CASE ~Readable(disk[f])
        <5>1. floor[f] = 0
          BY <1>3, <4>2 DEF Copies, Readable
        <5> QED BY <1>1, <1>7, <4>2, <5>1, QueueAssumption
      <4> QED BY <4>1, <4>2
    <3>2. Readable(bak'[f]) => floor'[f] <= bak'[f]
      BY <1>3, <1>4, <1>7, ContentFacts DEF Copies
    <3>3. v # Missing /\ v # Bad
      BY <1>1 DEF Readable
    <3> QED BY <1>7, <3>1, <3>2, <3>3 DEF Copies
  <2>2. SafeRead(f)' = v
    <3>1. Readable(disk'[f]) /\ ~(disk'[f] = Bad)
      BY <1>1, <1>7 DEF Readable
    <3> QED BY <1>7, <3>1 DEF SafeRead, Recovers
  <2>3. Waiting(f)' /\ Saved(f)' /\ Ahead(f)'
    BY <1>1, <1>6, <1>7, <2>2 DEF Waiting, Saved, Ahead
  <2>4. unsaved'[f] <= MaxWait
    BY <1>7, QueueAssumption
  <2>5. Readable(disk[f]) => disk[f] <= disk'[f]
    BY <1>1, <1>3, <1>7, ContentFacts DEF Ahead
  <2> QED BY <1>5, <2>1, <2>3, <2>4, <2>5
          DEF QueueInv, LossBounded, Copies, Waiting, Saved, Ahead, SafeRead, Recovers
<1>8. CASE failed'[f] = TRUE /\ disk'[f] = disk[f] /\ floor'[f] = floor[f]
  <2>1. Copies(f)'
    BY <1>3, <1>4, <1>8, ContentFacts DEF Copies
  <2>2. Waiting(f)' /\ Saved(f)'
    BY <1>6, <1>8 DEF Waiting, Saved
  <2>3. Ahead(f)'
    BY <1>1, <1>3, <1>8, ContentFacts DEF Ahead
  <2> QED BY <1>5, <1>8, <2>1, <2>2, <2>3
          DEF QueueInv, LossBounded, Copies, Waiting, Saved, Ahead, SafeRead, Recovers
<1> QED BY <1>2, <1>7, <1>8 DEF WriteNow, TypeOK

LEMMA SaveKeeps ==
    ASSUME QueueInv, TypeInv', NEW f \in File, SaveLater(f) \/ SaveNow(f)
    PROVE  QueueInv' /\ (Readable(disk[f]) => disk[f] <= disk'[f] \/ disk'[f] = disk[f])
<1>1. TypeOK
  BY DEF QueueInv, TypeInv
<1>2. /\ mem[f] <= mem'[f] /\ phase = "running" /\ phase' = phase
      /\ \A g \in File \ {f} : mem'[g] = mem[g]
      /\ mem' \in [File -> 0..MaxVersion]
  BY <1>1, QueueAssumption DEF SaveLater, SaveNow, Change, TypeOK, TypeInv
<1>3. CASE SaveNow(f)
  BY <1>2, <1>3, WriteNowKeeps DEF SaveNow
<1>4. CASE SaveLater(f)
  <2> DEFINE age == IF pending[f] = None THEN 0 ELSE pending[f].age
  <2> DEFINE e == [data |-> mem'[f], left |-> Delay(age), age |-> age]
  <2>1. pending' = [pending EXCEPT ![f] = e]
    BY <1>4 DEF SaveLater
  <2>2. e.data = mem'[f] /\ e.age = age
    OBVIOUS
  <2>3. age \in 0..MaxWait
    BY <1>1, QueueAssumption DEF TypeOK, Entry
  <2>4. e # None
    BY <1>2, <2>3, DelayBounds, EntryTyped
  <2>5. failed[f] \/ unsaved[f] <= age
    BY <1>1, <1>2, QueueAssumption DEF QueueInv, Waiting, Saved, TypeOK
  <2> HIDE DEF e
  <2>6. /\ pending'[f] = e
        /\ \A g \in File \ {f} : pending'[g] = pending[g]
    BY <1>1, <2>1 DEF TypeOK
  <2>7. UNCHANGED <<phase, disk, bak, unsaved, failed, floor>>
    BY <1>4 DEF SaveLater, history
  <2>8. Waiting(f)' /\ Saved(f)'
    BY <2>2, <2>4, <2>5, <2>6, <2>7 DEF Waiting, Saved
  <2>9. Ahead(f)'
    <3>1. disk[f] \in Content /\ mem[f] \in Nat /\ mem'[f] \in Nat
      BY <1>1, <1>2, QueueAssumption DEF TypeOK
    <3> QED BY <1>2, <2>7, <3>1, ContentFacts DEF QueueInv, Ahead
  <2> QED BY <1>2, <2>6, <2>7, <2>8, <2>9
          DEF QueueInv, LossBounded, Copies, Waiting, Saved, Ahead, SafeRead, Recovers
<1> QED BY <1>3, <1>4

LEMMA WritePendingKeeps ==
    ASSUME QueueInv, TypeInv', NEW f \in File, WritePending(f), phase # "down"
    PROVE  QueueInv' /\ (Readable(disk[f]) => disk[f] <= disk'[f] \/ disk'[f] = disk[f])
<1>1. pending[f].data = mem[f] /\ mem' = mem /\ phase' = phase
  BY DEF QueueInv, Waiting, WritePending
<1>2. mem' \in [File -> 0..MaxVersion] /\ mem[f] <= mem'[f]
  BY <1>1, QueueAssumption DEF QueueInv, TypeInv, TypeOK
<1> QED BY <1>1, <1>2, WriteNowKeeps DEF WritePending

LEMMA TickKeeps == QueueInv /\ TypeInv' /\ Tick => QueueInv'
<1> SUFFICES ASSUME QueueInv, TypeInv', Tick PROVE QueueInv'
  OBVIOUS
<1>1. UNCHANGED <<phase, mem, disk, bak, failed, floor>> /\ phase = "running"
  BY DEF Tick
<1>2. ASSUME NEW f \in File
      PROVE  Waiting(f)' /\ Saved(f)' /\ (unsaved'[f] <= MaxWait \/ failed'[f])
  <2>1. /\ Waiting(f) /\ Saved(f)
        /\ unsaved[f] \in 0..MaxWait + 1
        /\ pending[f] \in Entry \cup {None}
        /\ unsaved[f] <= MaxWait \/ failed[f]
    BY <1>1 DEF QueueInv, TypeInv, TypeOK, LossBounded
  <2>2. /\ pending'[f] = Older(pending[f])
        /\ unsaved'[f] = IF mem[f] # SafeRead(f) /\ unsaved[f] <= MaxWait
                         THEN unsaved[f] + 1 ELSE unsaved[f]
    BY DEF Tick
  <2>3. CASE pending[f] = None
    <3>1. pending'[f] = None
      BY <2>2, <2>3 DEF Older
    <3>2. failed[f] \/ (unsaved'[f] = 0 /\ mem[f] = SafeRead(f))
      BY <2>1, <2>2, <2>3 DEF Saved
    <3> QED BY <1>1, <3>1, <3>2, QueueAssumption
            DEF Waiting, Saved, SafeRead, Recovers
  <2>4. CASE pending[f] # None
    <3> DEFINE e == pending[f]
    <3>1. e \in Entry /\ e.left > 0 /\ e.age + e.left <= MaxWait
      BY <2>1, <2>4 DEF Tick, QueueInv, TypeInv, Timely
    <3>2. pending'[f].data = e.data /\ pending'[f].age = e.age + 1
      BY <2>2, <2>4, <3>1 DEF Older, Entry
    <3>3. pending'[f] # None
      <4>1. pending'[f] = [data |-> e.data, left |-> e.left - 1, age |-> e.age + 1]
        BY <2>2, <2>4, <3>1 DEF Older, Entry
      <4>2. e.left - 1 \in 0..Debounce /\ e.age + 1 \in 0..MaxWait
        BY <3>1, QueueAssumption DEF Entry
      <4> QED BY <3>1, <4>1, <4>2, EntryTyped DEF Entry
    <3>4. failed[f] \/ unsaved[f] <= e.age
      BY <2>1, <2>4 DEF Waiting
    <3>5. failed[f] \/ unsaved'[f] <= e.age + 1
      BY <2>1, <2>2, <3>1, <3>4 DEF Entry
    <3>6. e.age + 1 <= MaxWait
      BY <3>1, QueueAssumption DEF Entry
    <3>7. failed[f] \/ unsaved'[f] <= MaxWait
      <4>1. unsaved'[f] \in Nat
        BY <2>1, <2>2, QueueAssumption
      <4> QED BY <3>1, <3>5, <3>6, <4>1, QueueAssumption DEF Entry
    <3> QED BY <1>1, <2>1, <2>4, <3>2, <3>3, <3>5, <3>7 DEF Waiting, Saved
  <2> QED BY <2>3, <2>4
<1> QED BY <1>1, <1>2 DEF QueueInv, LossBounded, Copies, Ahead

LEMMA CrashKeeps == QueueInv /\ TypeInv' /\ Crash => QueueInv'
<1> SUFFICES ASSUME QueueInv, TypeInv', Crash PROVE QueueInv'
  OBVIOUS
<1>1. /\ phase # "down" /\ phase' = "down"
      /\ UNCHANGED <<mem, pending, disk, unsaved, failed, floor>>
  BY DEF Crash, history
<1>2. ASSUME NEW f \in File PROVE bak'[f] \in {bak[f], disk[f], Bad}
  BY DEF Crash, QueueInv, TypeInv, TypeOK
<1>3. ASSUME NEW f \in File PROVE Copies(f)'
  BY <1>1, <1>2, ContentFacts DEF QueueInv, Copies
<1> QED BY <1>1, <1>3 DEF QueueInv, LossBounded

LEMMA CorruptKeeps ==
    ASSUME QueueInv, TypeInv', NEW f \in File, Corrupt(f)
    PROVE  QueueInv'
<1>1. /\ phase = "down" /\ Readable(bak[f])
      /\ UNCHANGED <<phase, mem, pending, bak, unsaved, failed, floor>>
      /\ \A g \in File \ {f} : disk'[g] = disk[g]
      /\ disk'[f] = Bad
  BY DEF Corrupt, history, QueueInv, TypeInv, TypeOK
<1>2. ASSUME NEW g \in File PROVE Copies(g)'
  BY <1>1, ContentFacts, QueueAssumption DEF QueueInv, Copies
<1> QED BY <1>1, <1>2 DEF QueueInv, LossBounded

\* The step that needs recoveries to succeed.
LEMMA BootKeeps ==
    ASSUME NoCopyFault, QueueInv, TypeInv', Boot
    PROVE  QueueInv' /\ \A f \in File : Readable(disk[f]) => disk'[f] = disk[f]
<1>1. ASSUME NEW f \in File
      PROVE  /\ Copies(f)' /\ Waiting(f)' /\ Saved(f)' /\ Ahead(f)'
             /\ unsaved'[f] <= MaxWait
             /\ Readable(disk[f]) => disk'[f] = disk[f]
  <2>1. /\ mem'[f] = SafeRead(f) /\ pending'[f] = None /\ unsaved'[f] = 0
        /\ failed'[f] = FALSE /\ bak'[f] = bak[f] /\ floor'[f] = floor[f]
        /\ phase' = "running"
        /\ disk'[f] = IF Recovers(f) THEN bak[f] ELSE disk[f]
    BY DEF Boot, Restored, NoCopyFault
  <2>2. Copies(f) /\ disk[f] \in Content /\ bak[f] \in Content
    BY DEF QueueInv, TypeInv, TypeOK
  <2>3. CASE disk[f] = Bad
    <3>1. Recovers(f) /\ disk'[f] = bak[f] /\ Readable(disk'[f])
      BY <2>1, <2>2, <2>3 DEF Copies, Recovers
    <3>2. ~Readable(disk[f])
      BY <2>3, ContentFacts
    <3>3. mem'[f] = bak[f]
      BY <2>1, <3>1, <3>2 DEF SafeRead
    <3>4. SafeRead(f)' = disk'[f]
      <4>1. ~(disk'[f] = Bad)
        BY <3>1 DEF Readable
      <4> QED BY <3>1, <4>1 DEF SafeRead, Recovers
    <3>5. Copies(f)'
      BY <2>1, <2>2, <3>1, ContentFacts DEF Copies
    <3>6. mem'[f] \in 0..MaxVersion
      BY <2>2, <3>1, <3>3, ContentFacts
    <3> QED BY <2>1, <3>1, <3>2, <3>3, <3>4, <3>5, <3>6, QueueAssumption
            DEF Waiting, Saved, Ahead
  <2>4. CASE disk[f] # Bad
    <3>1. ~Recovers(f) /\ disk'[f] = disk[f]
      BY <2>1, <2>4 DEF Recovers
    <3>2. SafeRead(f)' = SafeRead(f)
      BY <2>1, <3>1 DEF SafeRead, Recovers
    <3>3. Copies(f)'
      BY <2>1, <2>2, <2>4, <3>1 DEF Copies
    <3>4. Ahead(f)'
      BY <2>1, <2>2, <3>1, ContentFacts, QueueAssumption DEF Ahead, SafeRead
    <3> QED BY <2>1, <3>1, <3>2, <3>3, <3>4, QueueAssumption DEF Waiting, Saved
  <2> QED BY <2>3, <2>4
<1> QED BY <1>1 DEF QueueInv, LossBounded

LEMMA StepQueueInv ==
    ASSUME NoCopyFault, QueueInv, [QueueNext]_queueVars
    PROVE  /\ QueueInv'
           /\ \A f \in File : Readable(disk[f]) =>
                  disk[f] <= disk'[f] \/ disk'[f] = disk[f] \/ ~Readable(disk'[f])
<1> DEFINE Forward(f) ==
        Readable(disk[f]) =>
            disk[f] <= disk'[f] \/ disk'[f] = disk[f] \/ ~Readable(disk'[f])
<1>0. TypeInv'
  BY StepTyped DEF QueueInv
<1>1. ASSUME NEW f \in File,
             \/ SaveLater(f) \/ SaveNow(f)
             \/ WritePending(f) /\ phase # "down"
      PROVE  QueueInv' /\ \A g \in File : Forward(g)
  <2>1. QueueInv' /\ Forward(f)
    BY <1>0, <1>1, SaveKeeps, WritePendingKeeps
  <2>2. \A g \in File \ {f} : disk'[g] = disk[g]
    BY <1>1 DEF SaveLater, SaveNow, WritePending, WriteNow, QueueInv, TypeInv, TypeOK
  <2> QED BY <2>1, <2>2
<1>2. ASSUME NEW f \in File, TimerFires(f) \/ Flush(f)
      PROVE  WritePending(f) /\ phase # "down"
  BY <1>2 DEF TimerFires, Flush
<1>3. CASE Tick \/ Crash
  BY <1>0, <1>3, TickKeeps, CrashKeeps DEF Tick, Crash
<1>4. ASSUME NEW f \in File, Corrupt(f)
      PROVE  QueueInv' /\ \A g \in File : Forward(g)
  <2>1. QueueInv'
    BY <1>0, <1>4, CorruptKeeps
  <2>2. \A g \in File : disk'[g] \in {disk[g], Bad}
    BY <1>4 DEF Corrupt, QueueInv, TypeInv, TypeOK
  <2> QED BY <2>1, <2>2, ContentFacts
<1>5. CASE Boot
  BY <1>0, <1>5, BootKeeps
<1>6. CASE Signal \/ Exit \/ UNCHANGED queueVars
  <2>1. /\ UNCHANGED <<mem, pending, disk, bak, unsaved, failed, floor>>
        /\ phase' = phase \/ (phase # "down" /\ phase' # "down")
    BY <1>6 DEF Signal, Exit, queueVars, history
  <2> QED BY <1>0, <2>1
          DEF QueueInv, LossBounded, Copies, Waiting, Saved, Ahead, SafeRead, Recovers
<1> QED BY <1>1, <1>2, <1>3, <1>4, <1>5, <1>6 DEF QueueNext

-----------------------------------------------------------------------------
(* The theorems                                                            *)

\* On a server whose recoveries succeed, no change is missing from its file
\* for longer than MAX_WAIT_MS unless a write failed: the blast radius of a
\* crash, however the saves of the file are spaced.
THEOREM LossAlwaysBounded == NoCopyFault /\ QueueSpec => []LossBounded
<1>1. QueueInv => LossBounded
  BY DEF QueueInv
<1>2. NoCopyFault /\ QueueInv /\ [QueueNext]_queueVars => QueueInv'
  BY StepQueueInv
<1>3. CASE NoCopyFault
  BY <1>1, <1>2, <1>3, InitQueueInv, PTL DEF QueueSpec
<1> QED BY <1>3

\* On such a server a crash costs a file at most its last write, whichever of
\* its two copies the crash made unreadable.
THEOREM OneGenerationAtMost == NoCopyFault /\ QueueSpec => []AtMostOneGenerationLost
<1>1. QueueInv => AtMostOneGenerationLost
  <2> SUFFICES ASSUME QueueInv, NEW f \in File, phase = "running"
               PROVE  mem[f] >= floor[f]
    BY DEF AtMostOneGenerationLost
  <2>1. Copies(f) /\ Ahead(f)
    BY DEF QueueInv
  <2>2. /\ disk[f] \in Content /\ mem[f] \in 0..MaxVersion
        /\ floor[f] \in 0..MaxVersion
    BY DEF QueueInv, TypeInv, TypeOK
  <2>3. disk[f] # Bad
    BY <2>1 DEF Copies
  <2>4. CASE disk[f] = Missing
    BY <2>1, <2>2, <2>4, QueueAssumption DEF Copies
  <2>5. CASE Readable(disk[f])
    BY <2>1, <2>2, <2>5, ContentFacts, QueueAssumption DEF Copies, Ahead
  <2> QED BY <2>3, <2>4, <2>5 DEF Readable
<1>2. NoCopyFault /\ QueueInv /\ [QueueNext]_queueVars => QueueInv'
  BY StepQueueInv
<1>3. CASE NoCopyFault
  BY <1>1, <1>2, <1>3, InitQueueInv, PTL DEF QueueSpec
<1> QED BY <1>3

\* On such a server an orderly shutdown loses nothing whose write succeeded.
THEOREM ShutdownKeepsAll == NoCopyFault /\ QueueSpec => []ShutdownLosesNothing
<1> DEFINE Flushed == phase = "stopped" => \A f \in File : pending[f] = None
<1>1. QueueInit => Flushed
  BY DEF QueueInit
<1>2. Flushed /\ [QueueNext]_queueVars => Flushed'
  BY DEF QueueNext, SaveLater, SaveNow, TimerFires, Flush, WritePending, Corrupt,
         Tick, Signal, Exit, Crash, Boot, Change, queueVars
<1>3. QueueInv /\ Flushed => ShutdownLosesNothing
  BY DEF QueueInv, Saved, ShutdownLosesNothing
<1>4. NoCopyFault /\ QueueInv /\ [QueueNext]_queueVars => QueueInv'
  BY StepQueueInv
<1>5. CASE NoCopyFault
  <2> HIDE DEF Flushed
  <2> QED BY <1>1, <1>2, <1>3, <1>4, <1>5, InitQueueInv, PTL DEF QueueSpec
<1> QED BY <1>5

\* On such a server no write, timer or recovery replaces the content of a file
\* by an older one.
THEOREM FilesMoveForward == NoCopyFault /\ QueueSpec => DiskMovesForward
<1> DEFINE Forward ==
        \A f \in File : Readable(disk[f]) /\ Readable(disk'[f])
                            => disk'[f] >= disk[f]
<1>1. NoCopyFault /\ QueueInv /\ [QueueNext]_queueVars => QueueInv'
  BY StepQueueInv
<1>2. ASSUME NoCopyFault, QueueInv, [QueueNext]_queueVars
      PROVE  Forward
  <2> SUFFICES ASSUME NEW f \in File, Readable(disk[f]), Readable(disk'[f])
               PROVE  disk'[f] >= disk[f]
    OBVIOUS
  <2>1. disk[f] <= disk'[f] \/ disk'[f] = disk[f]
    BY <1>2, StepQueueInv
  <2>2. disk[f] \in Content
    BY <1>2 DEF QueueInv, TypeInv, TypeOK
  <2>3. disk'[f] \in Content
    BY <1>2, StepQueueInv DEF QueueInv, TypeInv, TypeOK
  <2> QED BY <2>1, <2>2, <2>3, ContentFacts, QueueAssumption
<1>3. CASE NoCopyFault
  BY <1>1, <1>2, <1>3, InitQueueInv, PTL DEF QueueSpec, DiskMovesForward
<1> QED BY <1>3
=============================================================================
