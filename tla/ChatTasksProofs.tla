---------------------------- MODULE ChatTasksProofs ----------------------------
(***************************************************************************)
(* Safety of the registry of detached chat asks for any number of keys,    *)
(* tasks, slots and retained entries.                                      *)
(***************************************************************************)
EXTENDS ChatTasks, FiniteSetTheorems, TLAPS

Stages == {"none", "created", "queued", "generating", "settling", "ended"}

Causes == {"cancel", "timer"}

UnderWay == {"queued", "generating", "settling"}

Types == /\ tasks \subseteq Created
         /\ byKey \in [Keys -> 0 .. MaxTasks]
         /\ key \in Seq(Keys) /\ Len(key) <= MaxTasks
         /\ stage \in [Ids -> Stages]
         /\ hits \in [Ids -> SUBSET Causes]
         /\ error \in [Ids -> {"none", "failed", "timeout", "cancelled"}]
         /\ doneAt \in [Ids -> Nat]
         /\ aged \subseteq Ids
         /\ cancelling \subseteq Created
         /\ phase \in {"open", "closing", "returned", "closed"}
         /\ gathered \subseteq Created

(* An entry whose key somebody else took, or nobody, is over or gone.      *)
Claims == /\ \A i \in Created : byKey[key[i]] = i <=> i \in tasks /\ ~Done(i)
          /\ \A k \in Keys : byKey[k] # 0 => byKey[k] \in Created /\ key[byKey[k]] = k

(* What an entry says about its task.  The timer hits tasks that are under *)
(* way, so one that ended without a stamp was cancelled.                   *)
Entry(i) == /\ stage[i] = "none" <=> i \notin Created
            /\ Done(i) => stage[i] = "ended"
            /\ i \in aged => Done(i)
            /\ "timer" \in hits[i] => stage[i] \in UnderWay
            /\ stage[i] = "ended" /\ ~Done(i) => hits[i] # {}
            /\ i \in Created /\ stage[i] # "ended" => i \in tasks

(* aclose() waits for whatever was unfinished when it began.               *)
Gathering == /\ phase = "closing" => \A i \in tasks : Done(i) \/ i \in gathered
             /\ phase \in {"returned", "closed"} => /\ \A i \in Created : stage[i] = "ended"
                                                    /\ \A i \in tasks : Done(i)

CInv == /\ Types
        /\ Claims
        /\ Cardinality(tasks) <= Capacity
        /\ \A i \in Ids : Entry(i)
        /\ Gathering

-----------------------------------------------------------------------------
LEMMA Basics ==
    ASSUME CInv
    PROVE  /\ Len(key) \in Nat /\ MaxTasks \in Nat /\ Capacity \in Nat /\ Created \subseteq Ids
           /\ \A i \in Created : key[i] \in Keys /\ i # 0
           /\ IsFiniteSet(tasks) /\ Cardinality(tasks) \in Nat
           /\ Now \in Nat \ {0}
<1>1. /\ Len(key) \in Nat /\ MaxTasks \in Nat /\ Capacity \in Nat /\ Created \subseteq Ids
      /\ \A i \in Created : key[i] \in Keys /\ i # 0
  BY ChatAssumption DEF CInv, Types, Created, Ids
<1>2. IsFiniteSet(Created)
  BY <1>1, FS_Interval DEF Created
<1>3. IsFiniteSet(tasks) /\ Cardinality(tasks) \in Nat
  BY <1>2, FS_Subset, FS_CardinalityType DEF CInv, Types
<1>4. {i \in Created : Done(i)} \subseteq Created
  OBVIOUS
<1>5. Cardinality({i \in Created : Done(i)}) \in Nat
  BY <1>2, <1>4, FS_Subset, FS_CardinalityType
<1> QED BY <1>1, <1>3, <1>5 DEF Now

(* Entries that go make room.                                              *)
LEMMA Fewer ==
    ASSUME CInv, NEW S, S \subseteq tasks
    PROVE  IsFiniteSet(S) /\ Cardinality(S) \in Nat /\ Cardinality(S) <= Capacity
           /\ Cardinality(S) <= Cardinality(tasks)
<1>1. IsFiniteSet(S) /\ Cardinality(S) <= Cardinality(tasks) /\ Cardinality(S) \in Nat
  BY Basics, FS_Subset, FS_CardinalityType
<1> QED BY <1>1, Basics DEF CInv

(* A key is claimed by an unfinished entry, if by any.                     *)
LEMMA Claimant ==
    ASSUME CInv, NEW k \in Keys, byKey[k] # 0
    PROVE  byKey[k] \in tasks /\ ~Done(byKey[k]) /\ byKey[k] \notin aged
<1>1. byKey[k] \in Created /\ key[byKey[k]] = k
  BY DEF CInv, Claims
<1>2. byKey[k] \in tasks /\ ~Done(byKey[k])
  BY <1>1 DEF CInv, Claims
<1> QED BY <1>1, <1>2, Basics DEF CInv, Entry

LEMMA OldUnlink ==
    ASSUME CInv, NEW gone, \A i \in gone : Done(i) /\ i # 0
    PROVE  Unlink(gone) = byKey
<1>1. \A k \in Keys : byKey[k] \notin gone
  BY Claimant
<1> QED BY <1>1 DEF Unlink, CInv, Types

LEMMA InvInit == Init => CInv
<1> SUFFICES ASSUME Init PROVE CInv
  OBVIOUS
<1> USE ChatAssumption DEF Init, Created, Done
<1>1. Types
  BY DEF Types, Stages, Causes, Ids
<1>2. Cardinality(tasks) = 0
  BY FS_EmptySet
<1>3. Claims /\ Gathering
  BY DEF Claims, Gathering
<1>4. \A i \in Ids : Entry(i)
  BY DEF Entry
<1> QED BY <1>1, <1>2, <1>3, <1>4 DEF CInv

-----------------------------------------------------------------------------
(* Requests.                                                               *)
LEMMA DropKeeps ==
    ASSUME CInv, NEW gone, gone \subseteq aged, Drop(gone),
           UNCHANGED <<key, taskVars, aged, cancelling, closeVars>>
    PROVE  CInv'
<1>1. UNCHANGED <<key, stage, hits, error, doneAt, aged, cancelling, phase, gathered>>
  BY DEF taskVars, closeVars
<1>2. \A i \in gone : Done(i) /\ i # 0
  BY ChatAssumption DEF CInv, Types, Entry, Ids
<1>3. byKey' = byKey /\ tasks' = tasks \ gone
  BY <1>2, OldUnlink DEF Drop
<1>4. Created' = Created /\ \A i : Done(i)' = Done(i)
  BY <1>1 DEF Created, Done
<1>5. Types'
  BY <1>1, <1>3, <1>4 DEF CInv, Types
<1>6. Claims'
  BY <1>1, <1>2, <1>3, <1>4 DEF CInv, Claims
<1>7. Cardinality(tasks') <= Capacity
  BY <1>3, Fewer
<1>8. (\A i \in Ids : Entry(i))'
  BY <1>1, <1>2, <1>3, <1>4 DEF CInv, Entry
<1>9. Gathering'
  BY <1>1, <1>3, <1>4 DEF CInv, Gathering
<1> QED BY <1>5, <1>6, <1>7, <1>8, <1>9 DEF CInv

LEMMA CreateKeeps ==
    ASSUME CInv, NEW k \in Keys, Create(k)
    PROVE  CInv'
<1> DEFINE kept == tasks \ aged
           room == kept \ Evicted(kept)
           i == Len(key) + 1
<1>1. /\ phase = "open" /\ i \in Ids /\ Cardinality(room) < Capacity
      /\ tasks' = room \cup {i} /\ byKey' = [Unlink(tasks \ room) EXCEPT ![k] = i]
      /\ key' = Append(key, k) /\ stage' = [stage EXCEPT ![i] = "created"]
      /\ UNCHANGED <<hits, error, doneAt, aged, cancelling, phase, gathered>>
      /\ ~InFlight(k)
  BY DEF Create, closeVars
<1>2. room \subseteq tasks /\ \A j \in tasks \ room : Done(j) /\ j # 0
  BY Basics DEF Evicted, CInv, Types, Entry
<1> HIDE DEF room
<1>3. byKey[k] = 0
  BY <1>1, Claimant DEF InFlight
<1>4. byKey' = [byKey EXCEPT ![k] = i]
  BY <1>1, <1>2, OldUnlink
<1>5. i \notin Created /\ Created' = Created \cup {i} /\ i # 0
      /\ key'[i] = k /\ \A j \in Created : key'[j] = key[j]
  BY <1>1, Basics DEF Created, CInv, Types
<1>6. stage[i] = "none" /\ ~Done(i)
  BY <1>1, <1>5 DEF CInv, Entry
<1>7. \A j : Done(j)' = Done(j)
  BY <1>1 DEF Done
<1>8. Types'
  <2>1. key' \in Seq(Keys) /\ Len(key') <= MaxTasks
    BY <1>1 DEF CInv, Types, Ids
  <2>2. byKey' \in [Keys -> 0 .. MaxTasks]
    <3>1. i \in 0 .. MaxTasks
      BY <1>1, Basics DEF Ids
    <3> HIDE DEF i
    <3> QED BY <1>4, <3>1 DEF CInv, Types
  <2> HIDE DEF i
  <2> QED BY <1>1, <1>2, <1>5, <2>1, <2>2 DEF CInv, Types, Stages
<1> HIDE DEF i
<1>9. Claims'
  <2>1. \A h \in Keys : byKey'[h] = IF h = k THEN i ELSE byKey[h]
    BY <1>4 DEF CInv, Types
  <2>2. ASSUME NEW j \in Created' PROVE byKey'[key'[j]] = j <=> j \in tasks' /\ ~Done(j)'
    <3>1. CASE j = i
      BY <1>1, <1>5, <1>6, <1>7, <2>1, <3>1
    <3>2. CASE j # i
      <4>1. j \in Created /\ key'[j] = key[j] /\ key[j] \in Keys /\ j # 0
        BY <1>5, <2>2, <3>2, Basics
      <4>2. j \in tasks' /\ ~Done(j)' <=> j \in tasks /\ ~Done(j)
        BY <1>1, <1>2, <1>7, <3>2
      <4> QED BY <1>3, <2>1, <3>2, <4>1, <4>2 DEF CInv, Claims
    <3> QED BY <3>1, <3>2
  <2>3. ASSUME NEW h \in Keys, byKey'[h] # 0 PROVE byKey'[h] \in Created' /\ key'[byKey'[h]] = h
    BY <1>5, <2>1, <2>3 DEF CInv, Claims
  <2> QED BY <2>2, <2>3 DEF Claims
<1>10. Cardinality(tasks') <= Capacity
  <2>1. IsFiniteSet(room) /\ Cardinality(room) \in Nat
    BY <1>2, Fewer
  <2>2. i \notin room
    BY <1>2, <1>5 DEF CInv, Types
  <2>3. Cardinality(room \cup {i}) = Cardinality(room) + 1
    BY <2>1, <2>2, FS_AddElement
  <2> QED BY <1>1, <2>1, <2>3, Basics
<1>11. ASSUME NEW j \in Ids PROVE Entry(j)'
  <2>1. CASE j = i
    BY <1>1, <1>5, <1>6, <1>7, <2>1 DEF CInv, Types, Entry, UnderWay
  <2>2. CASE j # i
    <3>1. stage'[j] = stage[j] /\ (j \in Created' <=> j \in Created)
      BY <1>1, <1>5, <2>2 DEF CInv, Types
    <3>2. ~Done(j) /\ j \in tasks => j \in tasks'
      BY <1>1, <1>2
    <3> QED BY <1>1, <1>7, <3>1, <3>2 DEF CInv, Entry
  <2> QED BY <2>1, <2>2
<1>12. Gathering'
  BY <1>1 DEF Gathering
<1> QED BY <1>8, <1>9, <1>10, <1>11, <1>12 DEF CInv

(* More causes for a task to unwind.                                       *)
LEMMA HitKeeps ==
    ASSUME CInv, UNCHANGED <<registryVars, stage, error, doneAt, aged, phase, gathered>>,
           cancelling' \subseteq Created, hits' \in [Ids -> SUBSET Causes],
           \A i \in Ids : /\ hits[i] \subseteq hits'[i]
                          /\ "timer" \in hits'[i] => "timer" \in hits[i] \/ stage[i] \in UnderWay
    PROVE  CInv'
<1>1. Created' = Created /\ \A i : Done(i)' = Done(i)
  BY DEF Created, Done, registryVars
<1>2. Types' /\ Claims' /\ Cardinality(tasks') <= Capacity /\ Gathering'
  BY <1>1 DEF CInv, Types, Claims, Gathering, registryVars
<1>3. ASSUME NEW i \in Ids PROVE Entry(i)'
  BY <1>1 DEF CInv, Entry, registryVars
<1> QED BY <1>2, <1>3 DEF CInv

-----------------------------------------------------------------------------
(* Tasks.                                                                  *)
LEMMA StepKeeps ==
    ASSUME CInv, NEW i \in Created, NEW to \in Stages \ {"none"}, Step(i, to),
           stage[i] # "ended",
           "timer" \notin hits[i],
           to = "ended" => hits[i] # {}
    PROVE  CInv'
<1>1. /\ stage' = [stage EXCEPT ![i] = to]
      /\ UNCHANGED <<tasks, byKey, key, hits, error, doneAt, aged, cancelling, phase, gathered>>
  BY DEF Step, registryVars, closeVars
<1>2. Created' = Created /\ i \in Ids /\ \A j : Done(j)' = Done(j)
  BY <1>1, Basics DEF Created, Done
<1>3. Types' /\ Claims' /\ Cardinality(tasks') <= Capacity
  BY <1>1, <1>2 DEF CInv, Types, Claims
<1>4. ASSUME NEW j \in Ids PROVE Entry(j)'
  BY <1>1, <1>2 DEF CInv, Types, Entry
<1>5. Gathering'
  BY <1>1, <1>2 DEF CInv, Gathering
<1> QED BY <1>3, <1>4, <1>5 DEF CInv

(* A task that ends stamps its entry, which gives its key back.            *)
LEMMA StampKeeps ==
    ASSUME CInv, NEW i \in Created, ~Done(i),
           NEW how \in {"none", "failed", "timeout", "cancelled"}, Stamp(i, how),
           UNCHANGED <<tasks, key, aged, closeVars>>, cancelling' \subseteq Created
    PROVE  CInv'
<1>1. /\ stage' = [stage EXCEPT ![i] = "ended"] /\ error' = [error EXCEPT ![i] = how]
      /\ doneAt' = [doneAt EXCEPT ![i] = Now] /\ hits' = [hits EXCEPT ![i] = {}]
      /\ UNCHANGED <<phase, gathered>>
  BY DEF Stamp, closeVars
<1>2. \A k \in Keys : byKey'[k] = IF byKey[k] = i THEN 0 ELSE byKey[k]
  BY DEF Stamp, Unlink
<1>3. Created' = Created /\ i \in Ids /\ i # 0
  BY Basics DEF Created
<1>4. \A j \in Ids : Done(j)' <=> j = i \/ Done(j)
  BY <1>1, <1>3, Basics DEF CInv, Types, Done
<1>5. Types'
  <2>1. byKey' \in [Keys -> 0 .. MaxTasks]
    BY ChatAssumption DEF Stamp, Unlink, CInv, Types
  <2>2. doneAt' \in [Ids -> Nat]
    BY <1>1, Basics DEF CInv, Types
  <2> QED BY <1>1, <1>3, <2>1, <2>2 DEF CInv, Types, Stages
<1>6. Claims'
  <2>1. ASSUME NEW j \in Created PROVE byKey'[key[j]] = j <=> j \in tasks /\ ~Done(j)'
    <3>1. key[j] \in Keys /\ j # 0 /\ j \in Ids
      BY Basics
    <3> QED BY <1>2, <1>4, <3>1 DEF CInv, Claims
  <2>2. \A k \in Keys : byKey'[k] # 0 => byKey'[k] \in Created /\ key[byKey'[k]] = k
    BY <1>2 DEF CInv, Claims
  <2> QED BY <1>3, <2>1, <2>2 DEF Claims
<1>7. Cardinality(tasks') <= Capacity
  BY DEF CInv
<1>8. ASSUME NEW j \in Ids PROVE Entry(j)'
  BY <1>1, <1>3, <1>4 DEF CInv, Types, Entry
<1>9. Gathering'
  <2>1. \A j \in tasks : j \in Ids
    BY Basics DEF CInv, Types
  <2>2. \A j \in Created : stage[j] = "ended" => stage'[j] = "ended"
    BY <1>1, Basics DEF CInv, Types
  <2> QED BY <1>1, <1>3, <1>4, <2>1, <2>2 DEF CInv, Gathering
<1> QED BY <1>5, <1>6, <1>7, <1>8, <1>9 DEF CInv

LEMMA AgeKeeps ==
    ASSUME CInv, Age
    PROVE  CInv'
<1>1. /\ UNCHANGED <<tasks, byKey, key, stage, hits, error, doneAt, cancelling, phase, gathered>>
      /\ \E i \in tasks : Done(i) /\ aged' = aged \cup {i}
  BY DEF Age, registryVars, taskVars, closeVars
<1>2. PICK i \in tasks : Done(i) /\ aged' = aged \cup {i}
  BY <1>1
<1>3. Created' = Created /\ i \in Ids /\ \A j : Done(j)' = Done(j)
  BY <1>1, Basics DEF Created, Done, CInv, Types
<1>4. Types' /\ Claims' /\ Cardinality(tasks') <= Capacity /\ Gathering'
  BY <1>1, <1>2, <1>3 DEF CInv, Types, Claims, Gathering
<1>5. ASSUME NEW j \in Ids PROVE Entry(j)'
  BY <1>1, <1>2, <1>3 DEF CInv, Entry
<1> QED BY <1>4, <1>5 DEF CInv

-----------------------------------------------------------------------------
(* aclose().                                                               *)
LEMMA CloseKeeps ==
    ASSUME CInv, Close
    PROVE  CInv'
<1>1. /\ phase' = "closing" /\ gathered' = Unfinished
      /\ UNCHANGED <<tasks, byKey, key, stage, error, doneAt, aged, cancelling>>
      /\ hits' = [i \in Ids |-> IF i \in Unfinished THEN hits[i] \cup {"cancel"} ELSE hits[i]]
  BY DEF Close, Hit, registryVars
<1>2. Created' = Created /\ \A i : Done(i)' = Done(i)
  BY <1>1 DEF Created, Done
<1>3. Types'
  <2>1. hits' \in [Ids -> SUBSET Causes]
    BY <1>1 DEF CInv, Types, Causes
  <2> QED BY <1>1, <1>2, <2>1 DEF CInv, Types, Unfinished
<1>4. Claims' /\ Cardinality(tasks') <= Capacity
  BY <1>1, <1>2 DEF CInv, Claims
<1>5. ASSUME NEW i \in Ids PROVE Entry(i)'
  <2>1. hits[i] \subseteq hits'[i] /\ ("timer" \in hits'[i] => "timer" \in hits[i])
    BY <1>1
  <2> QED BY <1>1, <1>2, <2>1 DEF CInv, Entry
<1>6. Gathering'
  BY <1>1, <1>2 DEF Gathering, Unfinished
<1> QED BY <1>3, <1>4, <1>5, <1>6 DEF CInv

(* All tasks it waited for have ended; the rest of the registry is done.   *)
LEMMA AllGathered ==
    ASSUME CInv, CloseReturns
    PROVE  /\ {i \in gathered : ~Done(i)} \subseteq Created /\ Unfinished \subseteq gathered
           /\ \A i \in Created : stage[i] = "ended"
<1>1. phase = "closing" /\ \A i \in gathered : stage[i] = "ended"
  BY DEF CloseReturns
<1>2. Unfinished \subseteq gathered
  BY <1>1 DEF CInv, Gathering, Unfinished
<1>3. ASSUME NEW i \in Created PROVE stage[i] = "ended"
  BY <1>1, <1>2, Basics DEF CInv, Entry, Unfinished
<1> QED BY <1>2, <1>3 DEF CInv, Types

LEMMA CloseReturnsKeeps ==
    ASSUME CInv, CloseReturns
    PROVE  CInv'
<1> DEFINE unstamped == {i \in gathered : ~Done(i)}
<1>1. /\ phase' = "returned" /\ gathered' = {} /\ byKey' = Unlink(unstamped)
      /\ error' = [i \in Ids |-> IF i \in unstamped THEN "cancelled" ELSE error[i]]
      /\ doneAt' = [i \in Ids |-> IF i \in unstamped THEN Now ELSE doneAt[i]]
      /\ hits' = [i \in Ids |-> IF i \in unstamped THEN {} ELSE hits[i]]
      /\ UNCHANGED <<tasks, key, stage, aged, cancelling>>
  BY DEF CloseReturns
<1>2. /\ unstamped \subseteq Created /\ Unfinished \subseteq unstamped
      /\ \A i \in Created : stage[i] = "ended"
      /\ tasks \subseteq Created
  BY AllGathered DEF Unfinished, CInv, Types
<1> HIDE DEF unstamped
<1>3. Created' = Created /\ Created \subseteq Ids
  BY <1>1, Basics DEF Created
<1>4. \A i \in Ids : Done(i)' <=> i \in unstamped \/ Done(i)
  BY <1>1, Basics DEF Done
<1>5. \A i \in tasks : Done(i)'
  BY <1>2, <1>3, <1>4 DEF Unfinished
<1>6. \A k \in Keys : byKey'[k] = 0
  <2>1. \A k \in Keys : byKey[k] # 0 => byKey[k] \in Unfinished
    BY Claimant DEF Unfinished
  <2> QED BY <1>1, <1>2, <2>1 DEF Unlink
<1>7. Types'
  <2>1. byKey' \in [Keys -> 0 .. MaxTasks]
    BY <1>1, <1>6, ChatAssumption DEF Unlink
  <2>2. doneAt' \in [Ids -> Nat] /\ hits' \in [Ids -> SUBSET Causes]
        /\ error' \in [Ids -> {"none", "failed", "timeout", "cancelled"}]
    BY <1>1, Basics DEF CInv, Types
  <2> QED BY <1>1, <1>2, <1>3, <2>1, <2>2 DEF CInv, Types
<1>8. Claims'
  <2>1. \A i \in Created : key[i] \in Keys /\ i # 0
    BY Basics
  <2> QED BY <1>1, <1>2, <1>3, <1>5, <1>6, <2>1 DEF Claims
<1>9. Cardinality(tasks') <= Capacity
  BY <1>1 DEF CInv
<1>10. ASSUME NEW i \in Ids PROVE Entry(i)'
  BY <1>1, <1>2, <1>3, <1>4 DEF CInv, Entry
<1>11. Gathering'
  BY <1>1, <1>2, <1>3, <1>5 DEF Gathering
<1> QED BY <1>7, <1>8, <1>9, <1>10, <1>11 DEF CInv

(* aclose() has left the unbinding nothing to drop.                        *)
LEMMA NothingToDrop ==
    ASSUME CInv, Unbind
    PROVE  tasks' = tasks /\ byKey' = byKey
<1>1. Unfinished = {}
  BY DEF Unbind, CInv, Gathering, Unfinished
<1> QED BY <1>1, OldUnlink DEF Unbind, Drop

LEMMA UnbindKeeps ==
    ASSUME CInv, Unbind
    PROVE  CInv'
<1>1. /\ phase = "returned" /\ phase' = "closed"
      /\ UNCHANGED <<tasks, byKey, key, stage, hits, error, doneAt, aged, cancelling, gathered>>
  BY NothingToDrop DEF Unbind, taskVars
<1>2. Created' = Created /\ \A i : Done(i)' = Done(i)
  BY <1>1 DEF Created, Done
<1>3. Types' /\ Claims' /\ Cardinality(tasks') <= Capacity /\ Gathering'
  BY <1>1, <1>2 DEF CInv, Types, Claims, Gathering
<1>4. ASSUME NEW i \in Ids PROVE Entry(i)'
  BY <1>1, <1>2 DEF CInv, Entry
<1> QED BY <1>3, <1>4 DEF CInv

-----------------------------------------------------------------------------
LEMMA RequestKeeps ==
    ASSUME CInv, NEW k \in Keys, Attach(k) \/ Create(k) \/ Refuse(k)
    PROVE  CInv'
<1>1. CASE Attach(k) \/ Refuse(k)
  BY <1>1, DropKeeps DEF Attach, Refuse
<1> QED BY <1>1, CreateKeeps

LEMMA LookKeeps == CInv /\ Look => CInv'
BY DropKeeps DEF Look

LEMMA CancelKeeps ==
    ASSUME CInv, NEW i \in Created, Cancel(i) \/ CancelReturns(i) \/ CancelKilled(i) \/ JobDeadline(i)
    PROVE  CInv'
<1>1. cancelling \subseteq Created /\ hits \in [Ids -> SUBSET Causes] /\ i \in Ids
  BY Basics DEF CInv, Types
<1>2. ASSUME Cancel(i) \/ JobDeadline(i) PROVE CInv'
  <2>1. /\ UNCHANGED <<registryVars, stage, error, doneAt, aged, phase, gathered>>
        /\ cancelling' \subseteq Created
    BY <1>1, <1>2 DEF Cancel, JobDeadline, closeVars
  <2>2. PICK by \in Causes : Hit({i}, by) /\ (by = "timer" => stage[i] \in UnderWay)
    BY <1>2 DEF Cancel, JobDeadline, Causes, UnderWay
  <2>3. hits' \in [Ids -> SUBSET Causes]
    BY <1>1, <2>2 DEF Hit
  <2>4. \A j \in Ids : /\ hits[j] \subseteq hits'[j]
                       /\ "timer" \in hits'[j] => "timer" \in hits[j] \/ stage[j] \in UnderWay
    BY <1>1, <2>2 DEF Hit
  <2> QED BY <2>1, <2>3, <2>4, HitKeeps
<1>3. CASE CancelKilled(i) \/ (CancelReturns(i) /\ Done(i))
  <2>1. /\ UNCHANGED <<registryVars, stage, hits, error, doneAt, aged, phase, gathered>>
        /\ cancelling' \subseteq Created
    BY <1>1, <1>3 DEF CancelKilled, CancelReturns, registryVars, taskVars, closeVars
  <2> QED BY <1>1, <2>1, HitKeeps
<1>4. CASE CancelReturns(i) /\ ~Done(i)
  <2>1. Stamp(i, "cancelled") /\ UNCHANGED <<tasks, key, aged, closeVars>> /\ cancelling' \subseteq Created
    BY <1>1, <1>4 DEF CancelReturns
  <2> QED BY <1>4, <2>1, StampKeeps
<1> QED BY <1>2, <1>3, <1>4

LEMMA WorkKeeps ==
    ASSUME CInv, NEW i \in Created, Work(i)
    PROVE  CInv'
<1>1. i \in Ids /\ Entry(i) /\ hits[i] \subseteq Causes
  BY Basics DEF CInv, Types
<1>2. CASE FirstStep(i) \/ NeverStarts(i) \/ Generate(i) \/ Answer(i)
  <2>1. PICK to \in Stages \ {"none"} : Step(i, to) /\ (to = "ended" => hits[i] # {})
    BY <1>2 DEF FirstStep, NeverStarts, Generate, Answer, Stages
  <2>2. stage[i] # "ended" /\ "timer" \notin hits[i]
    BY <1>1, <1>2 DEF FirstStep, NeverStarts, Generate, Answer, CanAcquire, Entry, UnderWay
  <2> QED BY <2>1, <2>2, StepKeeps
<1>3. CASE UnwindQueued(i) \/ ExpireAtGate(i) \/ Fail(i) \/ UnwindGenerating(i) \/ Settled(i)
  <2>1. PICK how \in {"none", "failed", "timeout", "cancelled"} : Finish(i, how)
    BY <1>3 DEF UnwindQueued, ExpireAtGate, Fail, UnwindGenerating, Settled, Verdict
  <2>2. ~Done(i)
    BY <1>1, <1>3 DEF UnwindQueued, ExpireAtGate, CanAcquire, Fail, UnwindGenerating, Settled, Entry
  <2>3. Stamp(i, how) /\ UNCHANGED <<tasks, key, aged, closeVars>> /\ cancelling' \subseteq Created
    BY <2>1 DEF Finish, CInv, Types
  <2> QED BY <2>2, <2>3, StampKeeps
<1> QED BY <1>2, <1>3 DEF Work

LEMMA InvNext == CInv /\ [Next]_vars => CInv'
<1> SUFFICES ASSUME CInv, [Next]_vars PROVE CInv'
  OBVIOUS
<1>1. CASE \E k \in Known : Attach(k) \/ Create(k) \/ Refuse(k)
  BY <1>1, RequestKeeps DEF Known
<1>2. CASE \E i \in Created : \/ Cancel(i) \/ CancelReturns(i) \/ CancelKilled(i)
                              \/ JobDeadline(i) \/ Work(i)
  BY <1>2, CancelKeeps, WorkKeeps
<1>3. CASE UNCHANGED vars
  BY <1>3, HitKeeps DEF vars, taskVars, closeVars, CInv, Types
<1> QED BY <1>1, <1>2, <1>3, LookKeeps, AgeKeeps, CloseKeeps, CloseReturnsKeeps, UnbindKeeps DEF Next

THEOREM Invariance == Spec => []CInv
<1> QED BY InvInit, InvNext, PTL DEF Spec

-----------------------------------------------------------------------------
(* A key is claimed by its unfinished entry and by nothing else, however   *)
(* entries expire, are evicted, cancelled or replaced; and the registry is *)
(* never fuller than max_tasks.                                            *)
THEOREM ClaimsAreExact == Spec => []ClaimExact
<1>1. CInv => ClaimExact
  BY DEF CInv, Claims, ClaimExact
<1> QED BY <1>1, Invariance, PTL

(* After aclose() no task of the registry runs and every entry is stamped. *)
THEOREM CloseEndsEverything == Spec => []NothingOutlivesClose
<1>1. CInv => NothingOutlivesClose
  BY DEF CInv, Gathering, NothingOutlivesClose
<1> QED BY <1>1, Invariance, PTL

(* An entry is stamped by the step that ends its task, by the cancel() of  *)
(* a task that never started, or by aclose().                              *)
LEMMA StampedBy ==
    ASSUME CInv, [Next]_vars, doneAt' # doneAt
    PROVE  \/ CloseReturns
           \/ \E i \in Created, how \in {"none", "failed", "timeout", "cancelled"} :
                /\ Stamp(i, how)
                /\ "cancel" \in hits[i] => how \in {"cancelled", "failed"}
                /\ how = "cancelled" => "cancel" \in hits[i]
<1> DEFINE Fair(i, how) == /\ "cancel" \in hits[i] => how \in {"cancelled", "failed"}
                           /\ how = "cancelled" => "cancel" \in hits[i]
           Stamped == \E i \in Created, how \in {"none", "failed", "timeout", "cancelled"} :
                          Stamp(i, how) /\ Fair(i, how)
<1> USE DEF taskVars
<1>1. ASSUME NEW k \in Known, Attach(k) \/ Create(k) \/ Refuse(k) PROVE FALSE
  BY <1>1 DEF Attach, Create, Refuse
<1>2. ASSUME Look \/ Age \/ Close \/ Unbind \/ UNCHANGED vars PROVE FALSE
  BY <1>2 DEF Look, Age, Close, Unbind, vars
<1>3. ASSUME NEW i \in Created, Cancel(i) \/ CancelKilled(i) \/ JobDeadline(i) PROVE FALSE
  BY <1>3 DEF Cancel, CancelKilled, JobDeadline
<1>4. ASSUME NEW i \in Created PROVE Entry(i) /\ hits[i] \subseteq Causes
  BY Basics DEF CInv, Types
<1>5. ASSUME NEW i \in Created, CancelReturns(i) PROVE Stamped
  <2>1. stage[i] = "ended" /\ ~Done(i) /\ Stamp(i, "cancelled")
    BY <1>5 DEF CancelReturns
  <2>2. "cancel" \in hits[i]
    BY <1>4, <2>1 DEF Entry, Causes, UnderWay
  <2> QED BY <2>1, <2>2
<1>6. ASSUME NEW i \in Created, Work(i) PROVE Stamped
  <2>1. ~(FirstStep(i) \/ NeverStarts(i) \/ Generate(i) \/ Answer(i))
    BY DEF FirstStep, NeverStarts, Generate, Answer, Step
  <2>2. CASE UnwindQueued(i) \/ UnwindGenerating(i) \/ (Settled(i) /\ hits[i] # {})
    <3>1. Stamp(i, Verdict(i))
      BY <2>2 DEF UnwindQueued, UnwindGenerating, Settled, Finish
    <3>2. CASE "cancel" \in hits[i]
      BY <3>1, <3>2 DEF Verdict
    <3>3. CASE "cancel" \notin hits[i]
      BY <3>1, <3>3 DEF Verdict
    <3> QED BY <3>2, <3>3
  <2>3. CASE ExpireAtGate(i)
    BY <2>3 DEF ExpireAtGate, CanAcquire, Finish
  <2>4. CASE Fail(i)
    BY <2>4 DEF Fail, Finish
  <2>5. CASE Settled(i) /\ hits[i] = {}
    BY <2>5 DEF Settled, Finish
  <2> QED BY <1>6, <2>1, <2>2, <2>3, <2>4, <2>5 DEF Work
<1> HIDE DEF Stamped
<1>7. CloseReturns \/ Stamped
  BY <1>1, <1>2, <1>3, <1>5, <1>6 DEF Next
<1> QED BY <1>7 DEF Stamped

(* What a user cancels is reported as cancelled or failed, and what nobody *)
(* cancels never as cancelled.                                             *)
THEOREM CancellationIsReported == Spec => CancelledIsReported
<1> DEFINE Report(i) == ~Done(i) /\ Done(i)' =>
               /\ "cancel" \in hits[i] => error'[i] \in {"cancelled", "failed"}
               /\ error'[i] = "cancelled" => "cancel" \in hits[i]
<1>1. ASSUME CInv, CloseReturns, NEW i \in Created PROVE Report(i)
  <2>1. /\ i \in Ids /\ stage[i] = "ended" /\ Entry(i) /\ hits[i] \subseteq Causes
        /\ Done(i)' /\ ~Done(i) => error'[i] = "cancelled"
    BY <1>1, AllGathered, Basics DEF CInv, Types, CloseReturns, Done
  <2> QED BY <2>1 DEF Entry, Causes, UnderWay
<1>2. ASSUME CInv, NEW i \in Created, NEW how \in {"none", "failed", "timeout", "cancelled"},
             Stamp(i, how),
             "cancel" \in hits[i] => how \in {"cancelled", "failed"},
             how = "cancelled" => "cancel" \in hits[i]
      PROVE  \A j \in Created : Report(j)
  <2>1. \A j \in Created : /\ j # i => (Done(j)' <=> Done(j))
                           /\ error'[j] = IF j = i THEN how ELSE error[j]
    BY <1>2, Basics DEF CInv, Types, Stamp, Done
  <2> QED BY <1>2, <2>1
<1>3. ASSUME CInv, [Next]_vars, doneAt' = doneAt, NEW i \in Created PROVE Report(i)
  BY <1>3 DEF Done
<1>4. CInv /\ [Next]_vars => \A i \in Created : Report(i)
  BY <1>1, <1>2, <1>3, StampedBy
<1> HIDE DEF Report
<1>5. CInv /\ [Next]_vars => [\A i \in Created : Report(i)]_vars
  BY <1>4
<1> USE DEF Report
<1> QED BY <1>5, Invariance, PTL DEF Spec, CancelledIsReported

(* Entries leave when they expire or, finished and the oldest there is, to *)
(* make room in a full registry.                                           *)
THEOREM OldestAnswersGoFirst == Spec => AnswersKept
<1> DEFINE MayGo(i) == /\ Done(i)
                       /\ \/ i \in aged
                          \/ /\ Cardinality(tasks \ aged) = Capacity
                             /\ Older(i, tasks) \cap tasks' = {}
<1>1. ASSUME CInv, NEW gone, gone \subseteq aged, Drop(gone), NEW i \in tasks \ tasks' PROVE MayGo(i)
  BY <1>1, Basics DEF CInv, Types, Entry, Drop
<1>2. ASSUME CInv, NEW k \in Keys, Create(k), NEW i \in tasks \ tasks' PROVE MayGo(i)
  <2> DEFINE kept == tasks \ aged
  <2>1. tasks' = (kept \ Evicted(kept)) \cup {Len(key) + 1}
    BY <1>2 DEF Create
  <2>2. CASE i \in aged
    BY <1>2, <2>2, Basics DEF CInv, Types, Entry
  <2>3. CASE i \notin aged
    <3>1. i \in Evicted(kept) /\ i \in tasks
      BY <1>2, <2>1, <2>3
    <3>2. Done(i) /\ Capacity + Cardinality(Older(i, kept)) <= Cardinality(kept)
      BY <3>1 DEF Evicted
    <3>3. /\ IsFiniteSet(Older(i, kept)) /\ Cardinality(Older(i, kept)) \in Nat
          /\ Cardinality(kept) <= Capacity /\ Cardinality(kept) \in Nat
      BY <1>2, Fewer DEF Older
    <3>4. Cardinality(kept) = Capacity /\ Cardinality(Older(i, kept)) = 0
      BY <1>2, <3>2, <3>3, Basics
    <3>5. Older(i, kept) = {}
      BY <3>3, <3>4, FS_EmptySet
    <3>6. Len(key) + 1 \notin tasks
      BY <1>2, Basics DEF CInv, Types, Created
    <3>7. Older(i, tasks) \cap tasks' = {}
      BY <2>1, <3>5, <3>6 DEF Older
    <3> QED BY <3>2, <3>4, <3>7
  <2> QED BY <2>2, <2>3
<1>3. ASSUME CInv, [Next]_vars
      PROVE  \/ tasks' = tasks
             \/ \E gone \in SUBSET aged : Drop(gone)
             \/ \E k \in Keys : Create(k)
  <2> USE DEF registryVars
  <2>1. ASSUME NEW k \in Known, Attach(k) \/ Refuse(k) PROVE Drop(aged)
    BY <2>1 DEF Attach, Refuse
  <2>2. Look => \E gone \in SUBSET aged : Drop(gone)
    BY DEF Look
  <2>3. CASE Age \/ Close \/ UNCHANGED vars
    BY <2>3 DEF Age, Close, vars
  <2>4. ASSUME NEW i \in Created, Cancel(i) \/ CancelReturns(i) \/ CancelKilled(i) \/ JobDeadline(i)
        PROVE  tasks' = tasks
    BY <2>4 DEF Cancel, CancelReturns, CancelKilled, JobDeadline
  <2>5. ASSUME NEW i \in Created, Work(i) PROVE tasks' = tasks
    BY <2>5 DEF Work, FirstStep, NeverStarts, UnwindQueued, Generate, ExpireAtGate, Answer, Fail,
                UnwindGenerating, Settled, Step, Finish
  <2>6. CASE CloseReturns \/ Unbind
    BY <1>3, <2>6, NothingToDrop DEF CloseReturns
  <2> QED BY <1>3, <2>1, <2>2, <2>3, <2>4, <2>5, <2>6 DEF Next, Known
<1>4. ASSUME CInv, [Next]_vars, NEW i \in tasks \ tasks' PROVE MayGo(i)
  BY <1>1, <1>2, <1>3, <1>4
<1>5. CInv /\ [Next]_vars => [\A i \in tasks \ tasks' : MayGo(i)]_vars
  BY <1>4
<1> QED BY <1>5, Invariance, PTL DEF Spec, AnswersKept

===============================================================================
