------------------------ MODULE CookiePersistenceProofs ------------------------
(***************************************************************************)
(* Proofs about CookiePersistence for any number of clients, cookies,      *)
(* values and saves, and for every site PersistenceAssumption allows.      *)
(***************************************************************************)
EXTENDS CookiePersistenceRefinement, TLAPS

-----------------------------------------------------------------------------
(* Type correctness.                                                       *)

(* Loaded jars are jars.                                                   *)
LEMMA TypeInit == Init => TypeOK
  BY PersistenceAssumption
  DEF Init, TypeOK, Jars, Values, Generations, Rungs, NoRung, NoAuthor

(* A jar that a client takes over is a jar, and leaves one in its history. *)
LEMMA SetLiveType ==
  ASSUME TypeOK, NEW k \in Clients, NEW jar \in Jars, SetLive(k, jar)
  PROVE  /\ live' \in [Clients -> Jars]
         /\ held' \in [Clients -> [Cookies -> SUBSET Generations]]
  <1>1. live' \in [Clients -> Jars]
    BY DEF TypeOK, SetLive
  <1>2. [c \in Cookies |-> held[k][c] \cup ({jar[c]} \ {Absent})]
            \in [Cookies -> SUBSET Generations]
    BY DEF TypeOK, Jars, Values
  <1>3. held' \in [Clients -> [Cookies -> SUBSET Generations]]
    BY <1>2 DEF TypeOK, SetLive
  <1> QED BY <1>1, <1>3

(* What a merge stores and what it leaves as baseline are jars.            *)
LEMMA MergeType ==
  ASSUME NEW doc \in Jars, NEW jar \in Jars, NEW base \in Jars
  PROVE  Merged(doc, jar, base) \in Jars /\ NextBaseline(doc, jar, base) \in Jars
  BY DEF Merged, NextBaseline, Jars

(* Every operation of a client keeps the types.                            *)
LEMMA LoopType ==
  ASSUME TypeOK, NEW k \in Clients, Loop(k)
  PROVE  TypeOK'
  <1> USE PersistenceAssumption
  <1>1. CASE PrepareOpen(k)
    <2>1. status' \in [Clients -> {"loaded", "open", "closing", "closed"}]
      BY <1>1 DEF PrepareOpen, TypeOK
    <2>2. /\ known' \in [Clients -> {"uninitialized", "ready", "failed"}]
          /\ baseline' \in [Clients -> Jars]
      <3>1. CASE UNCHANGED <<known, baseline>>
        BY <3>1 DEF TypeOK
      <3>2. CASE Ready(k, disk)
        BY <3>2 DEF Ready, TypeOK
      <3>3. CASE known' = [known EXCEPT ![k] = "failed"] /\ UNCHANGED baseline
        BY <3>3 DEF TypeOK
      <3> QED BY <1>1, <3>1, <3>2, <3>3 DEF PrepareOpen
    <2> QED BY <1>1, <2>1, <2>2 DEF PrepareOpen, TypeOK
  <1>2. CASE SaveCookies(k)
    <2>1. live[k] \in Jars /\ seq[k] \in Nat
      BY DEF TypeOK
    <2>2. Save(k, seq[k]) \in JobSet
      BY <2>1 DEF Save, JobSet
    <2>3. jobs' \in SUBSET JobSet
      BY <1>2, <2>2 DEF SaveCookies, TypeOK
    <2>4. \A j \in jobs' : j.seq < seq'[j.client]
      BY <1>2, <2>1 DEF SaveCookies, Save, TypeOK, JobSet
    <2> QED BY <1>2, <2>1, <2>3, <2>4 DEF SaveCookies, TypeOK
  <1>3. CASE Close(k)
    <2>1. live[k] \in Jars /\ seq[k] \in Nat
      BY DEF TypeOK
    <2>2. Save(k, seq[k]) \in JobSet
      BY <2>1 DEF Save, JobSet
    <2>3. jobs' \in SUBSET JobSet
      BY <1>3, <2>2 DEF Close, TypeOK
    <2>4. \A j \in jobs' : j.seq < seq'[j.client]
      BY <1>3, <2>1 DEF Close, Save, TypeOK, JobSet
    <2>5. ladder' \in [Clients -> Rungs]
      BY <1>3 DEF Close, TypeOK, Rungs
    <2> QED BY <1>3, <2>1, <2>3, <2>4, <2>5 DEF Close, TypeOK
  <1>4. CASE Closed(k)
    BY <1>4 DEF Closed, TypeOK
  <1>5. ASSUME NEW c \in Cookies, Rotate(k, c) PROVE TypeOK'
    <2>1. PICK v \in {fresh + 1, Absent} : SetLive(k, [live[k] EXCEPT ![c] = v])
      BY <1>5 DEF Rotate
    <2>2. fresh + 1 \in Generations
      BY <1>5 DEF Rotate, TypeOK, Generations
    <2>3. [live[k] EXCEPT ![c] = v] \in Jars
      BY <2>2 DEF TypeOK, Jars, Values
    <2>4. /\ live' \in [Clients -> Jars]
          /\ held' \in [Clients -> [Cookies -> SUBSET Generations]]
      BY <2>1, <2>3, SetLiveType
    <2> QED BY <1>5, <2>2, <2>4 DEF Rotate, TypeOK
  <1>6. CASE SampleProfile(k)
    <2>1. [kind |-> "reload", before |-> live[k], sample |-> disk] \in Rungs
      BY DEF TypeOK, Rungs
    <2> QED BY <1>6, <2>1 DEF SampleProfile, TypeOK
  <1>7. CASE InstallProfile(k)
    <2>1. ladder[k].kind = "reload" => ladder[k].sample \in Jars
      BY DEF TypeOK, Rungs, NoRung
    <2>2. ladder' \in [Clients -> Rungs]
      BY <1>7 DEF InstallProfile, TypeOK, Rungs
    <2>3. CASE live[k] = ladder[k].before /\ seq[k] < site.saves[k]
      <3>1. ladder[k].sample \in Jars /\ seq[k] \in Nat
        BY <1>7, <2>1 DEF InstallProfile, TypeOK
      <3>2. Adoption(k, seq[k], ladder[k].sample) \in JobSet
        BY <3>1 DEF Adoption, JobSet
      <3>3. /\ live' \in [Clients -> Jars]
            /\ held' \in [Clients -> [Cookies -> SUBSET Generations]]
        BY <1>7, <2>3, <3>1, SetLiveType DEF InstallProfile
      <3>4. jobs' \in SUBSET JobSet
        BY <1>7, <2>3, <3>2 DEF InstallProfile, TypeOK
      <3>5. \A j \in jobs' : j.seq < seq'[j.client]
        <4>1. \A j \in jobs : j.client \in Clients /\ j.seq \in Nat /\ j.seq < seq[j.client]
          BY DEF TypeOK, JobSet
        <4>2. /\ seq' = [seq EXCEPT ![k] = @ + 1]
              /\ jobs' = jobs \cup {Adoption(k, seq[k], ladder[k].sample)}
          BY <1>7, <2>3 DEF InstallProfile
        <4>3. /\ \A j \in jobs : j.seq < seq'[j.client]
              /\ seq[k] < seq'[k]
          BY <3>1, <4>1, <4>2 DEF TypeOK
        <4> QED BY <4>2, <4>3 DEF Adoption
      <3>6. seq' \in [Clients -> Nat] /\ \A l \in Clients : applied[l] < seq'[l]
        <4>1. seq' = [seq EXCEPT ![k] = @ + 1]
          BY <1>7, <2>3 DEF InstallProfile
        <4> QED BY <4>1 DEF TypeOK
      <3> QED BY <1>7, <2>2, <2>3, <3>3, <3>4, <3>5, <3>6 DEF InstallProfile, TypeOK
    <2>4. CASE ~(live[k] = ladder[k].before /\ seq[k] < site.saves[k])
      BY <1>7, <2>2, <2>4 DEF InstallProfile, TypeOK
    <2> QED BY <2>3, <2>4
  <1>8. CASE Remint(k)
    <2>1. fresh + 1 \in Generations
      BY <1>8 DEF Remint, TypeOK, Generations
    <2>2. disk' \in Jars
      BY <1>8, <2>1 DEF Remint, Jars, Values
    <2>3. [kind |-> "reminted"] \in Rungs
      BY DEF Rungs
    <2>4. author' \in [Cookies -> [client : Clients \cup {Nobody}, seq : Nat]]
      BY <1>8 DEF Remint, NoAuthor
    <2> QED BY <1>8, <2>1, <2>2, <2>3, <2>4 DEF Remint, TypeOK
  <1>9. CASE LoadReminted(k)
    <2>1. [kind |-> "loaded", sample |-> disk] \in Rungs
      BY DEF TypeOK, Rungs
    <2> QED BY <1>9, <2>1 DEF LoadReminted, TypeOK
  <1>10. CASE InstallReminted(k)
    <2>1. ladder[k].kind = "loaded" => ladder[k].sample \in Jars
      BY DEF TypeOK, Rungs, NoRung
    <2>2. /\ live' \in [Clients -> Jars]
          /\ held' \in [Clients -> [Cookies -> SUBSET Generations]]
      BY <1>10, <2>1, SetLiveType DEF InstallReminted
    <2>3. ladder' \in [Clients -> Rungs]
      BY <1>10 DEF InstallReminted, TypeOK, Rungs
    <2> QED BY <1>10, <2>2, <2>3 DEF InstallReminted, TypeOK
  <1> QED BY <1>1, <1>2, <1>3, <1>4, <1>5, <1>6, <1>7, <1>8, <1>9, <1>10 DEF Loop

(* Every step of a worker thread keeps the types.                          *)
LEMMA WorkerType ==
  ASSUME TypeOK, NEW j \in jobs, Worker(j)
  PROVE  TypeOK'
  <1> USE PersistenceAssumption
  <1> DEFINE k == j.client
  <1>0. /\ j \in JobSet /\ k \in Clients /\ j.seq \in Nat /\ j.jar \in Jars
        /\ j.doc \in Jars /\ j.seq < seq[k] /\ disk \in Jars /\ baseline[k] \in Jars
    BY DEF TypeOK, JobSet
  <1>1. CASE StartSave(j)
    <2>1. [j EXCEPT !.pc = "merging", !.doc = j.doc] \in JobSet
      BY <1>0 DEF JobSet
    <2>2. jobs' \in SUBSET JobSet
      BY <1>1, <2>1 DEF StartSave, Advance, TypeOK
    <2>3. \A i \in jobs' : i.seq < seq[i.client]
      BY <1>0, <1>1 DEF StartSave, Advance, TypeOK, JobSet
    <2> QED BY <1>1, <2>2, <2>3 DEF StartSave, TypeOK
  <1>2. CASE ReadDocument(j)
    <2>1. [j EXCEPT !.pc = "holding", !.doc = disk] \in JobSet
      BY <1>0 DEF JobSet
    <2>2. jobs' \in SUBSET JobSet
      BY <1>2, <2>1 DEF ReadDocument, Advance, TypeOK
    <2>3. \A i \in jobs' : i.seq < seq[i.client]
      BY <1>0, <1>2 DEF ReadDocument, Advance, TypeOK, JobSet
    <2> QED BY <1>2, <2>2, <2>3 DEF ReadDocument, TypeOK
  <1>3. CASE Commit(j)
    <2>1. /\ disk' = Merged(j.doc, j.jar, baseline[k])
          /\ Ready(k, NextBaseline(j.doc, j.jar, baseline[k]))
          /\ applied' = [applied EXCEPT ![k] = j.seq]
      BY <1>3 DEF Commit
    <2>2. Merged(j.doc, j.jar, baseline[k]) \in Jars
          /\ NextBaseline(j.doc, j.jar, baseline[k]) \in Jars
      BY <1>0, MergeType
    <2>3. /\ known' \in [Clients -> {"uninitialized", "ready", "failed"}]
          /\ baseline' \in [Clients -> Jars]
      BY <1>0, <2>1, <2>2 DEF Ready, TypeOK
    <2>4. [client |-> k, seq |-> j.seq] \in [client : Clients \cup {Nobody}, seq : Nat]
      BY <1>0
    <2>5. author' \in [Cookies -> [client : Clients \cup {Nobody}, seq : Nat]]
      BY <1>3, <2>4 DEF Commit, TypeOK
    <2>6. applied' \in [Clients -> Int] /\ \A l \in Clients : applied'[l] < seq[l]
      BY <1>0, <2>1 DEF TypeOK
    <2> QED BY <1>3, <2>1, <2>2, <2>3, <2>5, <2>6 DEF Commit, TypeOK
  <1>4. CASE CommitFails(j)
    BY <1>4 DEF CommitFails, TypeOK
  <1>5. CASE Adopt(j)
    <2>1. CASE disk = j.jar
      <3>1. /\ known' \in [Clients -> {"uninitialized", "ready", "failed"}]
            /\ baseline' \in [Clients -> Jars]
        BY <1>0, <1>5, <2>1 DEF Adopt, Ready, TypeOK
      <3>2. applied' \in [Clients -> Int] /\ \A l \in Clients : applied'[l] < seq[l]
        BY <1>0, <1>5, <2>1 DEF Adopt, TypeOK
      <3>3. [client |-> k, seq |-> j.seq] \in [client : Clients \cup {Nobody}, seq : Nat]
        BY <1>0
      <3>4. author' \in [Cookies -> [client : Clients \cup {Nobody}, seq : Nat]]
        BY <1>5, <2>1, <3>3 DEF Adopt, TypeOK
      <3> QED BY <1>5, <3>1, <3>2, <3>4 DEF Adopt, TypeOK
    <2>2. CASE disk # j.jar
      BY <1>5, <2>2 DEF Adopt, TypeOK
    <2> QED BY <2>1, <2>2
  <1> QED BY <1>1, <1>2, <1>3, <1>4, <1>5 DEF Worker

(* Every reachable state has the types TypeOK gives; the numbers applied   *)
(* and handed to threads are numbers that were given out.                  *)
THEOREM TypeCorrect == Spec => []TypeOK
  <1>1. TypeOK /\ [Next]_vars => TypeOK'
    <2> SUFFICES ASSUME TypeOK, [Next]_vars PROVE TypeOK'
      OBVIOUS
    <2>1. CASE UNCHANGED vars
      BY <2>1 DEF vars, TypeOK
    <2> QED BY <2>1, LoopType, WorkerType DEF Next
  <1> QED BY <1>1, TypeInit, PTL DEF Spec

-----------------------------------------------------------------------------
(* The inductive invariant.                                                *)

(* One thread at a time is past the save lock of its client, one at a time *)
(* holds the storage lock, and what it read is what is stored.             *)
Locks == /\ \A i, j \in jobs : /\ i.client = j.client
                               /\ i.pc # "queued" /\ j.pc # "queued"
                               => i = j
         /\ \A i, j \in jobs : i.pc = "holding" /\ j.pc = "holding" => i = j
         /\ DocumentCurrent

(* Every value a client or a thread of it compares or writes with was in   *)
(* its jar.                                                                *)
Seen(k, jar) == \A c \in Cookies : jar[c] \in held[k][c] \cup {Absent}

Provenance == /\ \A k \in Clients : Seen(k, live[k])
              /\ \A k \in Clients \ site.bare : known[k] = "ready" /\ Seen(k, baseline[k])
              /\ \A j \in jobs : Seen(j.client, j.jar)

(* A thread past the save lock is not older than what was applied, and     *)
(* nothing stored is newer.                                                *)
Applied(c) == /\ author[c].client \in Clients =>
                     author[c].seq <= applied[author[c].client]
              /\ author[c].client = Nobody => author[c].seq = 0

Order == /\ \A j \in jobs : j.pc # "queued" => applied[j.client] <= j.seq
         /\ \A c \in Cookies : Applied(c)

IInv == TypeOK /\ Locks /\ Provenance /\ Order

LEMMA InvInit == Init => IInv
  <1> SUFFICES ASSUME Init PROVE IInv
    OBVIOUS
  <1>1. TypeOK
    BY TypeInit
  <1>2. Locks
    BY DEF Init, Locks, DocumentCurrent
  <1>3. Provenance
    BY DEF Init, Provenance, Seen
  <1>4. Order
    BY PersistenceAssumption DEF Init, Applied, Order, NoAuthor
  <1> QED BY <1>1, <1>2, <1>3, <1>4 DEF IInv

(* A jar that a client takes over is seen, and what was seen stays so.     *)
LEMMA SetLiveSeen ==
  ASSUME TypeOK, NEW k \in Clients, NEW jar \in Jars, SetLive(k, jar)
  PROVE  /\ live' = [live EXCEPT ![k] = jar]
         /\ \A l \in Clients, c \in Cookies : held[l][c] \subseteq held'[l][c]
         /\ \A c \in Cookies : jar[c] \in held'[k][c] \cup {Absent}
  BY DEF TypeOK, SetLive

(* What an operation of a client's loop may do: it hands out at most one   *)
(* save or adoption, of the jar it leaves, writes the profile only while   *)
(* nobody holds the storage lock, and prepares a baseline only if the      *)
(* client has none.                                                        *)
LoopFrame(k) ==
    /\ \A j \in jobs' : j \in jobs \/ (j.pc = "queued" /\ j.client = k /\ j.jar = live'[k])
    /\ disk' = disk \/ \A j \in jobs : j.pc # "holding"
    /\ \A l \in Clients, c \in Cookies : held[l][c] \subseteq held'[l][c]
    /\ \A c \in Cookies : live'[k][c] \in held'[k][c] \cup {Absent}
    /\ \A l \in Clients \ {k} : live'[l] = live[l]
    /\ \A l \in Clients : known[l] = "ready" =>
           known'[l] = "ready" /\ baseline'[l] = baseline[l]
    /\ site' = site /\ applied' = applied
    /\ author' = author \/ author' = [c \in Cookies |-> NoAuthor]

LEMMA LoopFrames ==
  ASSUME TypeOK, Provenance, NEW k \in Clients, Loop(k)
  PROVE  LoopFrame(k)
  <1>0. \A c \in Cookies : live[k][c] \in held[k][c] \cup {Absent}
    BY DEF Provenance, Seen
  <1>1. CASE PrepareOpen(k)
    <2>1. \A l \in Clients : known[l] = "ready" =>
             known'[l] = "ready" /\ baseline'[l] = baseline[l]
      <3>1. CASE UNCHANGED <<known, baseline>>
        BY <3>1
      <3>2. CASE known[k] = "uninitialized" /\ Ready(k, disk)
        BY <3>2 DEF Ready, TypeOK
      <3>3. CASE known' = [known EXCEPT ![k] = "failed"] /\ known[k] = "uninitialized"
                 /\ UNCHANGED baseline
        BY <3>3 DEF TypeOK
      <3> QED BY <1>1, <3>1, <3>2, <3>3 DEF PrepareOpen
    <2> QED BY <1>0, <1>1, <2>1 DEF PrepareOpen, LoopFrame
  <1>2. CASE SaveCookies(k)
    BY <1>0, <1>2 DEF SaveCookies, Save, LoopFrame
  <1>3. CASE Close(k)
    BY <1>0, <1>3 DEF Close, Save, LoopFrame
  <1>4. CASE Closed(k)
    BY <1>0, <1>4 DEF Closed, LoopFrame
  <1>5. ASSUME NEW c \in Cookies, Rotate(k, c) PROVE LoopFrame(k)
    <2>1. PICK v \in {fresh + 1, Absent} : SetLive(k, [live[k] EXCEPT ![c] = v])
      BY <1>5 DEF Rotate
    <2>2. [live[k] EXCEPT ![c] = v] \in Jars
      BY <1>5, PersistenceAssumption DEF Rotate, TypeOK, Jars, Values, Generations
    <2> QED BY <1>5, <2>1, <2>2, SetLiveSeen DEF Rotate, LoopFrame, TypeOK
  <1>6. CASE SampleProfile(k)
    BY <1>0, <1>6 DEF SampleProfile, LoopFrame
  <1>7. CASE InstallProfile(k)
    <2>1. CASE live[k] = ladder[k].before /\ seq[k] < site.saves[k]
      <3>1. ladder[k].sample \in Jars
        BY <1>7 DEF InstallProfile, TypeOK, Rungs, NoRung
      <3>2. SetLive(k, ladder[k].sample)
        BY <1>7, <2>1 DEF InstallProfile
      <3> QED BY <1>7, <2>1, <3>1, <3>2, SetLiveSeen
              DEF InstallProfile, Adoption, LoopFrame, TypeOK
    <2>2. CASE ~(live[k] = ladder[k].before /\ seq[k] < site.saves[k])
      BY <1>0, <1>7, <2>2 DEF InstallProfile, LoopFrame
    <2> QED BY <2>1, <2>2
  <1>8. CASE Remint(k)
    BY <1>0, <1>8 DEF Remint, LoopFrame
  <1>9. CASE LoadReminted(k)
    BY <1>0, <1>9 DEF LoadReminted, LoopFrame
  <1>10. CASE InstallReminted(k)
    <2>1. ladder[k].sample \in Jars
      BY <1>10 DEF InstallReminted, TypeOK, Rungs, NoRung
    <2> QED BY <1>10, <2>1, SetLiveSeen DEF InstallReminted, LoopFrame, TypeOK
  <1> QED BY <1>1, <1>2, <1>3, <1>4, <1>5, <1>6, <1>7, <1>8, <1>9, <1>10 DEF Loop

(* Such a step keeps the invariant.                                        *)
LEMMA LoopInv ==
  ASSUME IInv, NEW k \in Clients, Loop(k)
  PROVE  IInv'
  <1>0. TypeOK /\ Locks /\ Provenance /\ Order /\ LoopFrame(k)
    BY LoopFrames DEF IInv
  <1>1. TypeOK'
    BY <1>0, LoopType
  <1>2. Locks'
    BY <1>0 DEF LoopFrame, Locks, DocumentCurrent
  <1>3. Provenance'
    <2>1. \A l \in Clients : Seen(l, live[l])'
      BY <1>0 DEF LoopFrame, Provenance, Seen
    <2>2. \A l \in (Clients \ site.bare)' : known'[l] = "ready" /\ Seen(l, baseline[l])'
      BY <1>0 DEF LoopFrame, Provenance, Seen
    <2>3. \A j \in jobs' : Seen(j.client, j.jar)'
      <3> SUFFICES ASSUME NEW j \in jobs', NEW c \in Cookies
                   PROVE  j.jar[c] \in held'[j.client][c] \cup {Absent}
        BY DEF Seen
      <3>1. CASE j \in jobs
        <4>1. j.client \in Clients
          BY <1>0, <3>1 DEF TypeOK, JobSet
        <4> QED BY <1>0, <3>1, <4>1 DEF LoopFrame, Provenance, Seen
      <3>2. CASE j.client = k /\ j.jar = live'[k]
        BY <1>0, <3>2 DEF LoopFrame
      <3> QED BY <1>0, <3>1, <3>2 DEF LoopFrame
    <2> QED BY <2>1, <2>2, <2>3 DEF Provenance
  <1>4. Order'
    <2>1. \A j \in jobs' : j.pc # "queued" => applied'[j.client] <= j.seq
      BY <1>0 DEF LoopFrame, Applied, Order
    <2>2. \A c \in Cookies : Applied(c)'
      <3>1. CASE author' = author
        BY <1>0, <3>1 DEF LoopFrame, Applied, Order
      <3>2. CASE author' = [c \in Cookies |-> NoAuthor]
        BY <3>2, PersistenceAssumption DEF NoAuthor, Applied
      <3> QED BY <1>0, <3>1, <3>2 DEF LoopFrame
    <2> QED BY <2>1, <2>2 DEF Order
  <1> QED BY <1>1, <1>2, <1>3, <1>4 DEF IInv

(* Without the sentinel all clients are in one process, so a free storage  *)
(* lock is held by nobody.                                                 *)
LEMMA NoHolder ==
  ASSUME TypeOK, NEW k \in Clients, StorageLockFree(k)
  PROVE  \A j \in jobs : j.pc # "holding"
  <1>1. site.flock \/ \A i, l \in Clients : site.proc[i] = site.proc[l]
    BY PersistenceAssumption DEF TypeOK
  <1>2. \A j \in jobs : j.client \in Clients
    BY DEF TypeOK, JobSet
  <1> QED BY <1>1, <1>2 DEF StorageLockFree

(* A thread that passes the save lock or reads the document is replaced by *)
(* itself, further on.                                                     *)
LEMMA AdvanceJobs ==
  ASSUME TypeOK, NEW j \in jobs, NEW doc, NEW pc, jobs' = Advance(j, pc, doc)
  PROVE  \A i \in jobs' : \/ i \in jobs \ {j}
                          \/ /\ i.client = j.client /\ i.seq = j.seq /\ i.jar = j.jar
                             /\ i.pc = pc /\ i.doc = doc
                             /\ \A h \in jobs' : h \in jobs \ {j} \/ h = i
  BY DEF TypeOK, JobSet, Advance

LEMMA StartSaveInv ==
  ASSUME IInv, NEW j \in jobs, StartSave(j)
  PROVE  (Locks /\ Provenance /\ Order)'
  <1>0. TypeOK /\ Locks /\ Provenance /\ Order
    BY DEF IInv
  <1>1. \A i \in jobs : i.client \in Clients
    BY <1>0 DEF TypeOK, JobSet
  <1>2. \A i \in jobs' : \/ i \in jobs \ {j}
                        \/ /\ i.client = j.client /\ i.seq = j.seq /\ i.jar = j.jar
                           /\ i.pc = "merging" /\ ~Skips(j)
                           /\ \A h \in jobs' : h \in jobs \ {j} \/ h = i
    BY <1>0, AdvanceJobs DEF StartSave
  <1>3. UNCHANGED <<site, disk, live, known, baseline, applied, held, author>>
    BY DEF StartSave
  <1>4. \A i \in jobs : i.client = j.client => i.pc = "queued"
    BY DEF StartSave, SaveLockFree
  <1>5. Locks'
    BY <1>0, <1>2, <1>3, <1>4 DEF Locks, DocumentCurrent
  <1>6. Provenance'
    BY <1>0, <1>1, <1>2, <1>3 DEF Provenance, Seen
  <1>7. ~Skips(j) => applied[j.client] <= j.seq
    BY <1>0, <1>1 DEF Skips, TypeOK, JobSet
  <1>8. Order'
    BY <1>0, <1>2, <1>3, <1>7 DEF Applied, Order
  <1> QED BY <1>5, <1>6, <1>8

LEMMA ReadDocumentInv ==
  ASSUME IInv, NEW j \in jobs, ReadDocument(j)
  PROVE  (Locks /\ Provenance /\ Order)'
  <1>0. TypeOK /\ Locks /\ Provenance /\ Order
    BY DEF IInv
  <1>1. \A i \in jobs : i.client \in Clients
    BY <1>0 DEF TypeOK, JobSet
  <1>2. \A i \in jobs' : \/ i \in jobs \ {j}
                        \/ /\ i.client = j.client /\ i.seq = j.seq /\ i.jar = j.jar
                           /\ i.pc = "holding" /\ i.doc = disk
                           /\ \A h \in jobs' : h \in jobs \ {j} \/ h = i
    BY <1>0, AdvanceJobs DEF ReadDocument
  <1>3. UNCHANGED <<site, disk, live, known, baseline, applied, held, author>>
    BY DEF ReadDocument
  <1>4. j.pc = "merging" /\ \A i \in jobs : i.pc # "holding"
    BY <1>0, <1>1, NoHolder DEF ReadDocument
  <1>5. Locks'
    BY <1>0, <1>2, <1>3, <1>4 DEF Locks, DocumentCurrent
  <1>6. Provenance'
    BY <1>0, <1>1, <1>2, <1>3 DEF Provenance, Seen
  <1>7. Order'
    BY <1>0, <1>2, <1>3, <1>4 DEF Applied, Order
  <1> QED BY <1>5, <1>6, <1>7

(* The committing thread is the only one past the save lock of its client  *)
(* and the only holder of the storage lock.                                *)
LEMMA CommitInv ==
  ASSUME IInv, NEW j \in jobs, Commit(j)
  PROVE  (Locks /\ Provenance /\ Order)'
  <1> DEFINE k == j.client
             next == NextBaseline(j.doc, j.jar, baseline[k])
  <1>0. TypeOK /\ Locks /\ Provenance /\ Order
    BY DEF IInv
  <1>1. /\ \A i \in jobs : i.client \in Clients /\ i.seq \in Nat
        /\ j.jar \in Jars /\ j.doc \in Jars /\ baseline[k] \in Jars
    BY <1>0 DEF TypeOK, JobSet
  <1>2. /\ j.pc = "holding" /\ jobs' = jobs \ {j}
        /\ UNCHANGED <<site, live, held>>
        /\ known' = [known EXCEPT ![k] = "ready"]
        /\ baseline' = [baseline EXCEPT ![k] = next]
        /\ applied' = [applied EXCEPT ![k] = j.seq]
        /\ \A c \in Cookies : author'[c] \in {author[c], [client |-> k, seq |-> j.seq]}
    BY DEF Commit, Ready
  <1>3. Locks'
    BY <1>0, <1>2 DEF Locks, DocumentCurrent
  <1>4. Provenance'
    <2>1. \A l \in Clients : Seen(l, live[l])'
      BY <1>0, <1>2 DEF Provenance, Seen
    <2>2. \A i \in jobs' : Seen(i.client, i.jar)'
      BY <1>0, <1>2 DEF Provenance, Seen
    <2>3. ASSUME NEW l \in Clients \ site.bare PROVE known'[l] = "ready" /\ Seen(l, baseline[l])'
      <3>1. CASE l = k
        <4>1. Seen(k, baseline[k]) /\ Seen(k, j.jar)
          BY <1>0, <3>1 DEF Provenance
        <4>2. Seen(k, next)
          BY <4>1 DEF Seen, NextBaseline
        <4> QED BY <1>0, <1>1, <1>2, <3>1, <4>2 DEF Seen, TypeOK
      <3>2. CASE l # k
        BY <1>0, <1>2, <3>2 DEF Provenance, Seen, TypeOK
      <3> QED BY <3>1, <3>2
    <2> QED BY <1>2, <2>1, <2>2, <2>3 DEF Provenance
  <1>5. Order'
    <2>1. \A i \in jobs' : i.pc # "queued" => i.client # k /\ i \in jobs
      BY <1>0, <1>2 DEF Locks
    <2>2. applied[k] <= j.seq /\ applied'[k] = j.seq /\ applied[k] \in Int
      BY <1>0, <1>1, <1>2 DEF Order, TypeOK
    <2>3. \A l \in Clients : l # k => applied'[l] = applied[l]
      BY <1>0, <1>2 DEF TypeOK
    <2>4. \A i \in jobs' : i.pc # "queued" => applied'[i.client] <= i.seq
      BY <1>0, <1>1, <2>1, <2>3 DEF Order
    <2>5. ASSUME NEW c \in Cookies
          PROVE  Applied(c)'
      <3>1. CASE author'[c] = author[c]
        <4>1. author[c].seq \in Nat
          BY <1>0 DEF TypeOK
        <4>2. \A l \in Clients : /\ applied[l] \in Int /\ applied'[l] \in Int
                                 /\ applied[l] <= applied'[l]
          BY <1>0, <1>1, <2>2, <2>3 DEF TypeOK
        <4>3. Applied(c)
          BY <1>0, <2>5 DEF Order
        <4> QED BY <3>1, <4>1, <4>2, <4>3 DEF Applied
      <3>2. CASE author'[c] = [client |-> k, seq |-> j.seq]
        BY <1>1, <2>2, <3>2, PersistenceAssumption DEF Applied
      <3> QED BY <1>2, <3>1, <3>2
    <2> QED BY <2>4, <2>5 DEF Order
  <1> QED BY <1>3, <1>4, <1>5

LEMMA AdoptInv ==
  ASSUME IInv, NEW j \in jobs, Adopt(j)
  PROVE  (Locks /\ Provenance /\ Order)'
  <1> DEFINE k == j.client
  <1>0. TypeOK /\ Locks /\ Provenance /\ Order
    BY DEF IInv
  <1>1. \A i \in jobs : i.client \in Clients /\ i.seq \in Nat
    BY <1>0 DEF TypeOK, JobSet
  <1>2. /\ jobs' = jobs \ {j}
        /\ UNCHANGED <<site, disk, live, held>>
        /\ \A i \in jobs : i.client = k => i.pc = "queued"
    BY DEF Adopt, SaveLockFree
  <1>3. Locks'
    BY <1>0, <1>2 DEF Locks, DocumentCurrent
  <1>4. CASE disk # j.jar
    <2>1. UNCHANGED <<known, baseline, applied, author>>
      BY <1>4 DEF Adopt
    <2>2. Provenance' /\ Order'
      BY <1>0, <1>2, <2>1 DEF Provenance, Seen, Applied, Order
    <2> QED BY <1>3, <2>2
  <1>5. CASE disk = j.jar
    <2>1. /\ known' = [known EXCEPT ![k] = "ready"]
          /\ baseline' = [baseline EXCEPT ![k] = j.jar]
          /\ applied' = [applied EXCEPT ![k] = IF @ < j.seq THEN j.seq ELSE @]
          /\ \A c \in Cookies : author'[c] \in {author[c], [client |-> k, seq |-> j.seq]}
      BY <1>5 DEF Adopt, Ready
    <2>2. Provenance'
      <3>1. \A l \in Clients : Seen(l, live[l])'
        BY <1>0, <1>2 DEF Provenance, Seen
      <3>2. \A i \in jobs' : Seen(i.client, i.jar)'
        BY <1>0, <1>2 DEF Provenance, Seen
      <3>3. Seen(k, j.jar)
        BY <1>0 DEF Provenance
      <3>4. \A l \in Clients \ site.bare : known'[l] = "ready" /\ Seen(l, baseline[l])'
        BY <1>0, <1>1, <1>2, <2>1, <3>3 DEF Provenance, Seen, TypeOK
      <3> QED BY <1>2, <3>1, <3>2, <3>4 DEF Provenance
    <2>3. Order'
      <3>1. /\ applied[k] \in Int /\ applied[k] <= applied'[k] /\ j.seq <= applied'[k]
            /\ applied'[k] \in Int
        BY <1>0, <1>1, <2>1 DEF TypeOK
      <3>2. \A l \in Clients : l # k => applied'[l] = applied[l]
        BY <1>0, <2>1 DEF TypeOK
      <3>3. \A i \in jobs' : i.pc # "queued" => applied'[i.client] <= i.seq
        BY <1>0, <1>1, <1>2, <3>2 DEF Order
      <3>4. ASSUME NEW c \in Cookies
            PROVE  Applied(c)'
        <4>1. CASE author'[c] = author[c]
          <5>1. author[c].seq \in Nat
            BY <1>0 DEF TypeOK
          <5>2. \A l \in Clients : /\ applied[l] \in Int /\ applied'[l] \in Int
                                   /\ applied[l] <= applied'[l]
            BY <1>0, <3>1, <3>2 DEF TypeOK
          <5>3. Applied(c)
            BY <1>0, <3>4 DEF Order
          <5> QED BY <4>1, <5>1, <5>2, <5>3 DEF Applied
        <4>2. CASE author'[c] = [client |-> k, seq |-> j.seq]
          BY <1>1, <3>1, <4>2, PersistenceAssumption DEF Applied
        <4> QED BY <2>1, <4>1, <4>2
      <3> QED BY <3>3, <3>4 DEF Order
    <2> QED BY <1>3, <2>2, <2>3
  <1> QED BY <1>4, <1>5

LEMMA WorkerInv ==
  ASSUME IInv, NEW j \in jobs, Worker(j)
  PROVE  IInv'
  <1>1. TypeOK'
    BY WorkerType DEF IInv
  <1>2. CASE CommitFails(j)
    BY <1>1, <1>2 DEF CommitFails, IInv, Locks, DocumentCurrent, Provenance, Seen, Applied, Order
  <1>3. CASE StartSave(j) \/ ReadDocument(j) \/ Commit(j) \/ Adopt(j)
    BY <1>1, <1>3, StartSaveInv, ReadDocumentInv, CommitInv, AdoptInv DEF IInv
  <1> QED BY <1>2, <1>3 DEF Worker

LEMMA InvStep == IInv /\ [Next]_vars => IInv'
  <1> SUFFICES ASSUME IInv, [Next]_vars PROVE IInv'
    OBVIOUS
  <1>1. CASE UNCHANGED vars
    BY <1>1 DEF vars, IInv, TypeOK, Locks, DocumentCurrent, Provenance, Seen, Applied, Order
  <1> QED BY <1>1, LoopInv, WorkerInv DEF Next

LEMMA Invariance == Spec => []IInv
  BY InvInit, InvStep, PTL DEF Spec

-----------------------------------------------------------------------------
(* The document a thread read under the lock is the one its commit         *)
(* replaces.                                                               *)
THEOREM DocumentIsCurrent == Spec => []DocumentCurrent
  <1>1. IInv => DocumentCurrent
    BY DEF IInv, Locks
  <1> QED BY <1>1, Invariance, PTL

(* No client's baseline vouches for a value its jar never held.            *)
THEOREM BaselineIsHeld == Spec => []BaselineHeld
  <1>1. IInv => BaselineHeld
    BY DEF IInv, Provenance, Seen, BaselineHeld
  <1> QED BY <1>1, Invariance, PTL

(* No save replaces a value its client has not seen, for any number of     *)
(* clients, processes, cookies and saves.                                  *)
THEOREM NothingUnseenOverwritten == Spec => NoUnseenOverwrite
  <1>1. ASSUME IInv, NEW j \in jobs, j.client \notin site.bare, Commit(j),
               NEW c \in Cookies, disk'[c] # disk[c]
        PROVE  disk[c] \in held[j.client][c] \cup {Absent}
    <2> DEFINE base == baseline[j.client]
    <2>1. /\ j.doc = disk
          /\ Seen(j.client, base) /\ Seen(j.client, j.jar)
      BY <1>1 DEF IInv, Locks, DocumentCurrent, Provenance, Commit, TypeOK, JobSet
    <2>2. disk'[c] = IF c \in Changed(j.jar, base) \ Rejected(j.doc, j.jar, base)
                     THEN j.jar[c] ELSE j.doc[c]
      BY <1>1 DEF Commit, Merged
    <2>3. disk[c] \in {Absent, base[c], j.jar[c]}
      BY <1>1, <2>1, <2>2 DEF Changed, Rejected
    <2> QED BY <1>1, <2>1, <2>3 DEF Seen
  <1>2. IInv => (\A j \in jobs : j.client \notin site.bare /\ Commit(j) =>
                    \A c \in Cookies : disk'[c] # disk[c] =>
                        disk[c] \in held[j.client][c] \cup {Absent})
    BY <1>1
  <1> QED BY <1>2, Invariance, PTL DEF NoUnseenOverwrite

(* Of two observations of one client the newer one stays.                  *)
THEOREM NewestStays == Spec => NewestObservationStays
  <1>1. ASSUME IInv, [Next]_vars, NEW c \in Cookies, author'[c].client = author[c].client
        PROVE  author'[c].seq >= author[c].seq
    <2>0. TypeOK /\ Provenance /\ Locks /\ Order
      BY <1>1 DEF IInv
    <2>1. author[c].seq \in Nat /\ author[c].client \in Clients \cup {Nobody}
      BY <2>0 DEF TypeOK
    <2>2. CASE author'[c] = author[c]
      BY <2>1, <2>2
    <2>3. ASSUME NEW k \in Clients, Loop(k) PROVE author'[c].seq >= author[c].seq
      <3>1. LoopFrame(k)
        BY <2>0, <2>3, LoopFrames
      <3>2. CASE author'[c] = NoAuthor
        <4>1. author'[c].client = Nobody /\ author'[c].seq = 0
          BY <3>2 DEF NoAuthor
        <4>2. author[c].seq = 0
          BY <1>1, <2>0, <4>1 DEF Applied, Order
        <4> QED BY <4>1, <4>2
      <3> QED BY <2>2, <3>1, <3>2 DEF LoopFrame
    <2>4. ASSUME NEW j \in jobs, Commit(j) PROVE author'[c].seq >= author[c].seq
      <3>1. CASE author'[c] = [client |-> j.client, seq |-> j.seq]
        <4>1. /\ author[c].client = j.client /\ j.client \in Clients
              /\ j.pc = "holding" /\ j.seq \in Nat
          BY <1>1, <2>0, <2>4, <3>1 DEF Commit, TypeOK, JobSet
        <4>2. applied[j.client] <= j.seq /\ author[c].seq <= applied[j.client]
              /\ applied[j.client] \in Int
          <5>1. applied[j.client] <= j.seq
            BY <2>0, <2>4, <4>1 DEF Order
          <5>2. author[c].seq <= applied[author[c].client]
            BY <2>0, <4>1 DEF Applied, Order
          <5>3. applied[j.client] \in Int
            BY <2>0, <4>1 DEF TypeOK
          <5> QED BY <4>1, <5>1, <5>2, <5>3
        <4> QED BY <2>1, <3>1, <4>1, <4>2
      <3> QED BY <2>2, <2>4, <3>1 DEF Commit
    <2>5. ASSUME NEW j \in jobs, Adopt(j) PROVE author'[c].seq >= author[c].seq
      <3>1. j.seq \in Nat
        BY <2>0 DEF TypeOK, JobSet
      <3> QED BY <1>1, <2>1, <2>2, <2>5, <3>1 DEF Adopt
    <2>6. CASE UNCHANGED author
      BY <2>2, <2>6
    <2> QED BY <1>1, <2>3, <2>4, <2>5, <2>6
            DEF Next, Worker, vars, StartSave, ReadDocument, CommitFails
  <1>2. IInv /\ [Next]_vars => (\A c \in Cookies :
            author'[c].client = author[c].client => author'[c].seq >= author[c].seq)
    BY <1>1
  <1> QED BY <1>2, Invariance, PTL DEF Spec, NewestObservationStays

(* The stored value a client vouched for last is its baseline.             *)
Own == \A c \in Cookies : author[c].client \in Clients =>
           LET k == author[c].client
           IN  known[k] = "ready" /\ baseline[k][c] = disk[c]

LEMMA OwnStep == IInv /\ Own /\ [Next]_vars => Own'
  <1> SUFFICES ASSUME IInv, Own, [Next]_vars PROVE Own'
    OBVIOUS
  <1>0. TypeOK /\ Provenance /\ DocumentCurrent /\ Nobody \notin Clients
    BY PersistenceAssumption DEF IInv, Locks
  <1>1. ASSUME NEW k \in Clients, Loop(k) PROVE Own'
    <2>1. \A l \in Clients : known[l] = "ready" =>
             known'[l] = "ready" /\ baseline'[l] = baseline[l]
      BY <1>0, <1>1, LoopFrames DEF LoopFrame
    <2>2. CASE Remint(k)
      BY <1>0, <2>2 DEF Remint, NoAuthor, Own
    <2>3. CASE ~Remint(k)
      <3>1. disk' = disk /\ author' = author
        BY <1>1, <2>3 DEF Loop, PrepareOpen, SaveCookies, Close, Closed, Rotate, SampleProfile,
           InstallProfile, LoadReminted, InstallReminted
      <3> QED BY <2>1, <3>1 DEF Own
    <2> QED BY <2>2, <2>3
  <1>2. ASSUME NEW j \in jobs, Commit(j) PROVE Own'
    <2> DEFINE k == j.client
               base == baseline[k]
               wins == Changed(j.jar, base) \ Rejected(j.doc, j.jar, base)
               next == NextBaseline(j.doc, j.jar, base)
    <2>1. k \in Clients /\ j.doc = disk
      BY <1>0, <1>2 DEF Commit, DocumentCurrent, TypeOK, JobSet
    <2>2. /\ \A c \in Cookies : disk'[c] = IF c \in wins THEN j.jar[c] ELSE j.doc[c]
          /\ \A c \in Cookies : author'[c] = IF c \in wins THEN [client |-> k, seq |-> j.seq]
                                             ELSE author[c]
      BY <1>2 DEF Commit, Merged
    <2>3. /\ known'[k] = "ready" /\ baseline'[k] = next
          /\ \A l \in Clients \ {k} : known'[l] = known[l] /\ baseline'[l] = baseline[l]
      BY <1>0, <1>2, <2>1 DEF Commit, Ready, TypeOK
    <2>4. \A c \in Cookies :
             next[c] = IF c \in Rejected(j.doc, j.jar, base) THEN base[c] ELSE j.jar[c]
      BY DEF NextBaseline
    <2>5. ASSUME NEW c \in Cookies, author'[c].client \in Clients
          PROVE  known'[author'[c].client] = "ready"
                 /\ baseline'[author'[c].client][c] = disk'[c]
      <3>1. CASE c \in wins
        BY <2>2, <2>3, <2>4, <3>1
      <3>2. CASE c \notin wins
        <4>1. author'[c] = author[c] /\ disk'[c] = disk[c]
          BY <2>1, <2>2, <3>2
        <4>2. known[author[c].client] = "ready" /\ baseline[author[c].client][c] = disk[c]
          BY <2>5, <4>1 DEF Own
        <4>3. next[c] = base[c]
          BY <2>4, <3>2 DEF Changed
        <4> QED BY <2>3, <2>5, <4>1, <4>2, <4>3
      <3> QED BY <3>1, <3>2
    <2> QED BY <2>5 DEF Own
  <1>3. ASSUME NEW j \in jobs, Adopt(j) PROVE Own'
    <2> DEFINE k == j.client
    <2>1. k \in Clients /\ disk' = disk
      BY <1>0, <1>3 DEF Adopt, TypeOK, JobSet
    <2>2. CASE disk = j.jar
      <3>1. /\ known'[k] = "ready" /\ baseline'[k] = disk
            /\ \A l \in Clients \ {k} : known'[l] = known[l] /\ baseline'[l] = baseline[l]
            /\ \A c \in Cookies : author'[c].client = k
        BY <1>0, <1>3, <2>1, <2>2 DEF Adopt, Ready, TypeOK
      <3> QED BY <2>1, <3>1 DEF Own
    <2>3. CASE disk # j.jar
      BY <1>3, <2>1, <2>3 DEF Adopt, Own
    <2> QED BY <2>2, <2>3
  <1>4. ASSUME UNCHANGED <<disk, known, baseline, author>> PROVE Own'
    BY <1>4 DEF Own
  <1> QED BY <1>1, <1>2, <1>3, <1>4
          DEF Next, Worker, vars, StartSave, ReadDocument, CommitFails

(* What a client stored or took over last does not turn away its own later *)
(* rotation, for any number of siblings, recovered clients included.       *)
THEOREM OwnIsStored == Spec => OwnRotationStored
  <1>1. Init => Own
    BY PersistenceAssumption DEF Init, Own, NoAuthor
  <1>2. ASSUME IInv, Own, NEW j \in jobs, Commit(j),
               NEW c \in Rejected(j.doc, j.jar, baseline[j.client])
        PROVE  author[c].client # j.client
    <2>1. j.doc = disk /\ j.client \in Clients
      BY <1>2 DEF IInv, Locks, DocumentCurrent, Commit, TypeOK, JobSet
    <2>2. c \in Cookies /\ j.doc[c] # baseline[j.client][c]
      BY <1>2 DEF Rejected, Changed
    <2> QED BY <1>2, <2>1, <2>2 DEF Own
  <1>3. IInv /\ Own => (\A j \in jobs : Commit(j) =>
            \A c \in Rejected(j.doc, j.jar, baseline[j.client]) : author[c].client # j.client)
    BY <1>2
  <1> QED BY <1>1, <1>3, OwnStep, Invariance, PTL DEF Spec, OwnRotationStored

-----------------------------------------------------------------------------
(* Saves are atomic: CookiePersistence implements AtomicProfile.           *)

(* A client has a baseline, or failed to read one, before it hands out     *)
(* anything, every observation has a number of its own, and only saves of  *)
(* a client with a baseline get past its save lock.                        *)
Numbered == \A i, j \in jobs : i.client = j.client /\ i.seq = j.seq => i = j

Opened(k) == /\ known[k] = "uninitialized" => status[k] = "loaded"
             /\ status[k] = "loaded" => ladder[k] = NoRung /\ \A j \in jobs : j.client # k

Started(j) == j.pc # "queued" => j.kind = "save" /\ known[j.client] # "failed"

Asking == /\ Numbered
          /\ \A k \in Clients : Opened(k)
          /\ \A j \in jobs : Started(j)

(* A job that is handed out is numbered after those before it.             *)
LEMMA JobAdded ==
  ASSUME TypeOK, Numbered, NEW j, j.client \in Clients, j.seq = seq[j.client], jobs' = jobs \cup {j}
  PROVE  Numbered'
  <1>1. \A i \in jobs : i.client = j.client => i.seq # j.seq
    BY DEF TypeOK, JobSet
  <1> QED BY <1>1 DEF Numbered

LEMMA LoopAsks ==
  ASSUME TypeOK, Asking, NEW k \in Clients, Loop(k)
  PROVE  Asking'
  <1> USE DEF Asking
  <1>1. CASE PrepareOpen(k)
    <2>1. /\ status[k] # "open" /\ jobs' = jobs /\ ladder' = ladder
          /\ status' = [status EXCEPT ![k] = "open"]
      BY <1>1 DEF PrepareOpen
    <2>2. \A l \in Clients \ {k} : known'[l] = known[l] /\ status'[l] = status[l]
      BY <1>1, <2>1 DEF PrepareOpen, Ready, TypeOK
    <2>3. /\ status'[k] = "open" /\ known'[k] # "uninitialized"
          /\ known[k] # "uninitialized" => known'[k] = known[k]
      BY <1>1, <2>1 DEF PrepareOpen, Ready, TypeOK
    <2>4. known[k] = "uninitialized" => \A j \in jobs : j.client # k
      BY DEF Opened
    <2>5. \A l \in Clients : Opened(l)'
      BY <2>1, <2>2, <2>3 DEF Opened
    <2>6. \A j \in jobs : Started(j)'
      BY <2>2, <2>3, <2>4 DEF Started, TypeOK, JobSet
    <2> QED BY <2>1, <2>5, <2>6 DEF Numbered
  <1>2. CASE SaveCookies(k) \/ Close(k)
    <2>1. /\ status[k] = "open" /\ known' = known /\ jobs' = jobs \cup {Save(k, seq[k])}
          /\ status' \in {status, [status EXCEPT ![k] = "closing"]}
          /\ ladder' \in {ladder, [ladder EXCEPT ![k] = NoRung]}
      BY <1>2 DEF SaveCookies, Close
    <2>2. Numbered'
      BY <2>1, JobAdded DEF Save
    <2>3. \A l \in Clients : Opened(l)'
      BY <2>1 DEF Opened, Save, TypeOK
    <2>4. \A j \in jobs' : Started(j)'
      BY <2>1 DEF Started, Save
    <2> QED BY <2>2, <2>3, <2>4
  <1>3. CASE Closed(k)
    BY <1>3 DEF Closed, Numbered, Opened, Started, TypeOK
  <1>4. CASE InstallProfile(k)
    <2>1. /\ ladder[k].kind = "reload" /\ known' = known /\ status' = status
          /\ ladder' = [ladder EXCEPT ![k] = NoRung]
          /\ jobs' = jobs \/ jobs' = jobs \cup {Adoption(k, seq[k], ladder[k].sample)}
      BY <1>4 DEF InstallProfile
    <2>2. status[k] # "loaded"
      BY <2>1 DEF Opened, NoRung
    <2>3. Numbered'
      BY <2>1, JobAdded DEF Adoption, Numbered
    <2>4. \A l \in Clients : Opened(l)'
      BY <2>1, <2>2 DEF Opened, Adoption, TypeOK
    <2>5. \A j \in jobs' : Started(j)'
      BY <2>1 DEF Started, Adoption
    <2> QED BY <2>3, <2>4, <2>5
  <1>5. CASE SampleProfile(k) \/ Remint(k) \/ LoadReminted(k) \/ InstallReminted(k)
    <2>1. /\ UNCHANGED <<known, status, jobs>> /\ status[k] # "loaded"
          /\ \A l \in Clients \ {k} : ladder'[l] = ladder[l]
      BY <1>5 DEF SampleProfile, Remint, LoadReminted, InstallReminted, Opened, NoRung, TypeOK
    <2> QED BY <2>1 DEF Numbered, Opened, Started
  <1>6. ASSUME NEW c \in Cookies, Rotate(k, c) PROVE Asking'
    BY <1>6 DEF Rotate, Numbered, Opened, Started
  <1> QED BY <1>1, <1>2, <1>3, <1>4, <1>5, <1>6 DEF Loop

LEMMA WorkerAsks ==
  ASSUME TypeOK, Asking, NEW j \in jobs, Worker(j)
  PROVE  Asking'
  <1> USE DEF Asking
  <1>1. j.client \in Clients /\ \A i \in jobs : i.client \in Clients
    BY DEF TypeOK, JobSet
  <1>2. UNCHANGED <<status, ladder>>
    BY DEF Worker, StartSave, ReadDocument, Commit, CommitFails, Adopt
  <1>3. ASSUME NEW pc, NEW doc, jobs' = Advance(j, pc, doc), known' = known,
               j.kind = "save", known[j.client] # "failed"
        PROVE  Asking'
    <2>1. \A i \in jobs' : \/ i \in jobs \ {j}
                           \/ /\ i.client = j.client /\ i.seq = j.seq /\ i.kind = j.kind
                              /\ \A h \in jobs' : h \in jobs \ {j} \/ h = i
      BY <1>3 DEF TypeOK, JobSet, Advance
    <2>2. Numbered'
      BY <2>1 DEF Numbered
    <2>3. \A k \in Clients : Opened(k)'
      BY <1>2, <1>3, <2>1 DEF Opened
    <2>4. \A i \in jobs' : Started(i)'
      BY <1>3, <2>1 DEF Started
    <2> QED BY <2>2, <2>3, <2>4
  <1>4. ASSUME jobs' = jobs \ {j},
               \/ known' = known
               \/ known' = [known EXCEPT ![j.client] = "ready"]
        PROVE  Asking'
    <2>1. \A k \in Clients : known'[k] = known[k] \/ (k = j.client /\ known'[k] = "ready")
      BY <1>4 DEF TypeOK
    <2> QED BY <1>1, <1>2, <1>4, <2>1 DEF Numbered, Opened, Started
  <1>5. CASE StartSave(j)
    BY <1>3, <1>4, <1>5 DEF StartSave, Skips
  <1>6. CASE ReadDocument(j)
    BY <1>3, <1>6 DEF ReadDocument, Started
  <1>7. CASE Commit(j) \/ CommitFails(j) \/ Adopt(j)
    BY <1>4, <1>7 DEF Commit, CommitFails, Adopt, Ready
  <1> QED BY <1>5, <1>6, <1>7 DEF Worker

LEMMA AskingInvariant == Spec => []Asking
  <1>1. Init => Asking
    BY DEF Init, Asking, Numbered, Opened, Started
  <1>2. TypeOK /\ Asking /\ [Next]_vars => Asking'
    <2> SUFFICES ASSUME TypeOK, Asking, [Next]_vars PROVE Asking'
      OBVIOUS
    <2>1. CASE UNCHANGED vars
      BY <2>1 DEF vars, Asking, Numbered, Opened, Started
    <2> QED BY <2>1, LoopAsks, WorkerAsks DEF Next
  <1> QED BY <1>1, <1>2, TypeCorrect, PTL DEF Spec

(* A job that is done is one observation less, and a thread that gets on   *)
(* is the same observation.                                                *)
LEMMA JobRemoved ==
  ASSUME Numbered, NEW j \in jobs, jobs' = jobs \ {j}
  PROVE  Observation(j) \in Asked /\ Asked' = Asked \ {Observation(j)}
  BY DEF Numbered, Asked, Observation

LEMMA JobAdvanced ==
  ASSUME TypeOK, NEW j \in jobs, NEW pc, NEW doc, jobs' = Advance(j, pc, doc)
  PROVE  Asked' = Asked
  <1>1. Observation([j EXCEPT !.pc = pc, !.doc = doc]) = Observation(j)
    BY DEF TypeOK, JobSet, Observation
  <1> QED BY <1>1 DEF Asked, Advance

LEMMA CommitMaps ==
  ASSUME IInv, Asking, NEW j \in jobs, Commit(j)
  PROVE  Atomic!Save(Observation(j))
  <1> DEFINE k == j.client
             base == baseline[k]
             o == Observation(j)
  <1>1. /\ j.doc = disk /\ j.kind = "save" /\ known[k] # "failed" /\ applied[k] <= j.seq
        /\ k \in Clients
    BY DEF Commit, IInv, Locks, DocumentCurrent, Order, Asking, Started, TypeOK, JobSet
  <1>2. o.client = k /\ o.kind = j.kind /\ o.seq = j.seq /\ o.jar = j.jar
    BY DEF Observation
  <1>3. \A c \in Cookies : /\ Atomic!Conflict(o, c) <=> c \in Rejected(j.doc, j.jar, base)
                           /\ Atomic!Stores(o, c) <=>
                                 c \in Changed(j.jar, base) \ Rejected(j.doc, j.jar, base)
    BY <1>1, <1>2 DEF Atomic!Conflict, Atomic!Stores, Changed, Rejected
  <1>4. disk' = [c \in Cookies |-> IF Atomic!Stores(o, c) THEN o.jar[c] ELSE disk[c]]
    <2>1. disk' = Merged(j.doc, j.jar, base)
      BY DEF Commit
    <2> QED BY <1>1, <1>2, <1>3, <2>1 DEF Merged
  <1>5. baseline' = [baseline EXCEPT ![k] =
                        [c \in Cookies |-> IF Atomic!Conflict(o, c) THEN @[c] ELSE o.jar[c]]]
    <2>1. baseline' = [baseline EXCEPT ![k] = NextBaseline(j.doc, j.jar, base)]
      BY DEF Commit, Ready
    <2>2. NextBaseline(j.doc, j.jar, base) =
             [c \in Cookies |-> IF Atomic!Conflict(o, c) THEN base[c] ELSE o.jar[c]]
      BY <1>2, <1>3 DEF NextBaseline
    <2> QED BY <2>1, <2>2
  <1>6. Asked' = Asked \ {o}
    BY JobRemoved DEF Commit, Asking
  <1>7. /\ known' = [known EXCEPT ![k] = "ready"]
        /\ applied' = [applied EXCEPT ![k] = j.seq]
        /\ seq' = seq
    BY DEF Commit, Ready
  <1> HIDE DEF o
  <1> QED BY <1>1, <1>2, <1>4, <1>5, <1>6, <1>7 DEF Atomic!Save, o

LEMMA WorkerMaps ==
  ASSUME IInv, Asking, NEW j \in jobs, Worker(j)
  PROVE  Atomic!Next \/ UNCHANGED Atomic!vars
  <1> DEFINE o == Observation(j)
  <1>0. TypeOK /\ Numbered
    BY DEF IInv, Asking
  <1>1. CASE jobs' = jobs \ {j} /\ UNCHANGED <<disk, known, baseline, applied, seq>>
    <2>1. Atomic!Drop(o) /\ o \in Asked
      BY <1>0, <1>1, JobRemoved DEF Atomic!Drop
    <2> QED BY <2>1 DEF Atomic!Next
  <1>2. CASE StartSave(j)
    <2>1. CASE Skips(j)
      BY <1>1, <1>2, <2>1 DEF StartSave
    <2>2. CASE ~Skips(j)
      BY <1>0, <1>2, <2>2, JobAdvanced DEF StartSave, Atomic!vars
    <2> QED BY <2>1, <2>2
  <1>3. CASE ReadDocument(j)
    BY <1>0, <1>3, JobAdvanced DEF ReadDocument, Atomic!vars
  <1>4. CASE Commit(j)
    BY <1>0, <1>4, CommitMaps, JobRemoved DEF Commit, Atomic!Next
  <1>5. CASE CommitFails(j)
    BY <1>1, <1>5 DEF CommitFails
  <1>6. CASE Adopt(j)
    <2>1. CASE disk = j.jar
      <3>1. Atomic!Adopt(o) /\ o \in Asked
        BY <1>0, <1>6, <2>1, JobRemoved DEF Adopt, Ready, Observation, Atomic!Adopt
      <3> QED BY <3>1 DEF Atomic!Next
    <2>2. CASE disk # j.jar
      BY <1>1, <1>6, <2>2 DEF Adopt
    <2> QED BY <2>1, <2>2
  <1> QED BY <1>2, <1>3, <1>4, <1>5, <1>6 DEF Worker

LEMMA LoopMaps ==
  ASSUME TypeOK, NEW k \in Clients, Loop(k)
  PROVE  Atomic!Next \/ UNCHANGED Atomic!vars
  <1>1. CASE jobs' = jobs /\ UNCHANGED <<disk, known, baseline, applied, seq>>
    BY <1>1 DEF Atomic!vars, Asked
  <1>2. CASE PrepareOpen(k)
    <2>1. CASE UNCHANGED <<known, baseline>>
      BY <1>1, <1>2, <2>1 DEF PrepareOpen
    <2>2. CASE known[k] = "uninitialized" /\ ~UNCHANGED <<known, baseline>>
      <3>1. Atomic!Load(k)
        BY <1>2, <2>2 DEF PrepareOpen, Ready, Atomic!Load, Asked
      <3> QED BY <3>1 DEF Atomic!Next
    <2> QED BY <1>2, <2>1, <2>2 DEF PrepareOpen
  <1>3. ASSUME NEW j, j.client = k, j.kind \in {"save", "adopt"}, j.seq = seq[k], j.jar \in Jars,
               jobs' = jobs \cup {j}, seq' = [seq EXCEPT ![k] = @ + 1],
               UNCHANGED <<disk, known, baseline, applied>>
        PROVE  Atomic!Next
    <2>1. Atomic!Ask(k, j.kind, j.jar)
      BY <1>3 DEF Atomic!Ask, Asked, Observation
    <2>2. j.jar \in Atomic!Jars
      BY <1>3 DEF Jars, Atomic!Jars
    <2> QED BY <1>3, <2>1, <2>2 DEF Atomic!Next
  <1>4. CASE SaveCookies(k) \/ Close(k)
    <2>1. live[k] \in Jars
      BY DEF TypeOK
    <2> QED BY <1>3, <1>4, <2>1 DEF SaveCookies, Close, Save
  <1>5. CASE InstallProfile(k)
    <2>1. ladder[k].sample \in Jars
      BY <1>5 DEF InstallProfile, TypeOK, Rungs, NoRung
    <2> QED BY <1>1, <1>3, <1>5, <2>1 DEF InstallProfile, Adoption
  <1>6. CASE Remint(k)
    <2>1. disk' \in Atomic!Jars
      <3>1. fresh + 1 \in Values
        BY <1>6, PersistenceAssumption DEF Remint, TypeOK, Values, Generations
      <3> QED BY <1>6, <3>1 DEF Remint, Atomic!Jars
    <2>2. Atomic!Replace(disk')
      BY <1>6 DEF Remint, Atomic!Replace, Asked
    <2> QED BY <2>1, <2>2 DEF Atomic!Next
  <1>7. CASE Closed(k) \/ SampleProfile(k) \/ LoadReminted(k) \/ InstallReminted(k)
             \/ \E c \in Cookies : Rotate(k, c)
    BY <1>1, <1>7 DEF Closed, SampleProfile, LoadReminted, InstallReminted, Rotate
  <1> QED BY <1>2, <1>4, <1>5, <1>6, <1>7 DEF Loop

(* However threads and processes interleave, every save and every adoption *)
(* acts in one step on the profile of that moment, never after a newer one *)
(* of its client, or not at all.                                           *)
THEOREM Atomicity == Spec => SavesAreAtomic
  <1>1. Init => Atomic!Init
    <2> SUFFICES ASSUME Init PROVE Atomic!Init
      OBVIOUS
    <2>1. Asked = {}
      BY DEF Init, Asked
    <2> QED BY <2>1 DEF Init, Atomic!Init
  <1>2. IInv /\ Asking /\ [Next]_vars => [Atomic!Next]_(Atomic!vars)
    <2> SUFFICES ASSUME IInv, Asking, [Next]_vars PROVE Atomic!Next \/ UNCHANGED Atomic!vars
      OBVIOUS
    <2>1. CASE UNCHANGED vars
      BY <2>1 DEF vars, Atomic!vars, Asked
    <2> QED BY <2>1, LoopMaps, WorkerMaps DEF IInv, Next
  <1> QED BY <1>1, <1>2, Invariance, AskingInvariant, PTL DEF Spec, SavesAreAtomic, Atomic!Spec

=============================================================================
