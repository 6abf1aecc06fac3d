--------------------------- MODULE CookiePersistence ---------------------------
(***************************************************************************)
(* How the clients that share one profile file save their cookies          *)
(* (src/src/notebooklm/_web/transport/cookie_persistence.py), through      *)
(* ProfileStore.merge_cookie_observation (_auth/profile_store.py), the     *)
(* three-way merge (_auth/cookie_merge.py) and the storage lock            *)
(* (_auth/storage_lock.py).                                                *)
(*                                                                         *)
(* A client keeps a live jar, which the server's responses rotate, and the *)
(* baseline its next save is compared with.  The event loop numbers a save *)
(* and copies the jar; a worker thread does the rest, so saves reach the   *)
(* save lock in any order, and cancelling the task that awaits a save (the *)
(* keepalive task at close) leaves its thread running.  Each process has a *)
(* thread lock for the file, and all of them a lock on a sentinel file: on *)
(* a file system without flock a save goes on under the thread lock alone. *)
(*                                                                         *)
(* A cookie is an identity and its value; attributes, dotted and bare      *)
(* domains and rows of foreign domains are abstracted.  The saver callback *)
(* of v0.x (_save_v0_callback) is not modelled.  Lock acquisition that     *)
(* gives up after 90 s (msvcrt only) is not modelled.                      *)
(***************************************************************************)
EXTENDS Integers, FiniteSets

CONSTANTS Clients,    \* clients over the same profile
          Reminting,  \* clients with a recovery command, browser or master token
          Cookies,    \* cookie identities of the profile
          Absent,     \* the value of a cookie that is not there
          Nobody,     \* no client
          Sites,      \* how the clients may run: see PersistenceAssumption
          MaxFresh    \* bound on the values the server hands out

Generations == 0 .. MaxFresh
Values == Generations \cup {Absent}
Jars == [Cookies -> Values]

(* A site says whether flock works, in which process each client runs, who *)
(* was given cookies without the snapshot of their load, and bounds the    *)
(* numbered operations of each client.  Without flock only clients of one  *)
(* process exclude one another: the code warns that savers of other        *)
(* processes are then on their own.                                        *)
ASSUME PersistenceAssumption ==
    /\ MaxFresh \in Nat
    /\ Absent \notin Generations /\ Nobody \notin Clients
    /\ Reminting \subseteq Clients
    /\ \A s \in Sites : \/ s.flock
                        \/ \A k, l \in Clients : s.proc[k] = s.proc[l]

VARIABLES site,      \* where the clients run
          disk,      \* the cookies of storage_state.json
          fresh,     \* last value the server handed out
          status,    \* status[k]: the client
          live,      \* live[k]: the kernel's jar
          known,     \* known[k]: the kind of _PathSaveState.baseline
          baseline,  \* its jar, if it is ready
          applied,   \* _PathSaveState.last_applied_sequence
          seq,       \* _save_seq: the next number
          ladder,    \* ladder[k]: the recovery rung under way
          jobs,      \* saves and adoptions handed to worker threads
          held,      \* history: the values each client's jar has held
          author     \* history: the client and number that last vouched for a value

vars == <<site, disk, fresh, status, live, known, baseline, applied, seq,
          ladder, jobs, held, author>>

NoRung == [kind |-> "none"]
NoAuthor == [client |-> Nobody, seq |-> 0]

Save(k, n) == [client |-> k, kind |-> "save", seq |-> n, jar |-> live[k],
               doc |-> live[k], pc |-> "queued"]
Adoption(k, n, expected) == [client |-> k, kind |-> "adopt", seq |-> n,
                             jar |-> expected, doc |-> expected, pc |-> "queued"]

-----------------------------------------------------------------------------
(* decide_cookie_merge: a cookie that differs from the baseline is written *)
(* unless the stored row holds a third value.                              *)
Changed(jar, base) == {c \in Cookies : jar[c] # base[c]}

Rejected(doc, jar, base) ==
    {c \in Changed(jar, base) : doc[c] \notin {Absent, base[c], jar[c]}}

Merged(doc, jar, base) ==
    [c \in Cookies |-> IF c \in Changed(jar, base) \ Rejected(doc, jar, base)
                       THEN jar[c] ELSE doc[c]]

(* Fault: what a save writes does not become the baseline.                 *)
FaultNextBaseline(doc, jar, base) ==
    [c \in Cookies |-> IF c \in Changed(jar, base) THEN base[c] ELSE jar[c]]

(* _next_baseline: a rejected cookie keeps its old baseline.               *)
NextBaseline(doc, jar, base) ==
    [c \in Cookies |-> IF c \in Rejected(doc, jar, base) THEN base[c] ELSE jar[c]]

(* The save lock of a client, the thread lock of a process, the sentinel.  *)
SaveLockFree(k) == \A j \in jobs : j.client = k => j.pc = "queued"

(* Fault: the thread lock alone, also where flock works.                   *)
FaultStorageLockFree(k) ==
    \A j \in jobs : j.pc = "holding" => site.proc[j.client] # site.proc[k]

StorageLockFree(k) ==
    \A j \in jobs : j.pc = "holding" =>
        ~site.flock /\ site.proc[j.client] # site.proc[k]

Advance(j, pc, doc) == (jobs \ {j}) \cup {[j EXCEPT !.pc = pc, !.doc = doc]}

-----------------------------------------------------------------------------
(* Every client has loaded the profile and is assembled: the snapshot of   *)
(* the load is its baseline, if its AuthTokens carry one.                  *)
Init == /\ site \in Sites
        /\ disk = [c \in Cookies |-> 0]
        /\ fresh = 0
        /\ status = [k \in Clients |-> "loaded"]
        /\ live = [k \in Clients |-> disk]
        /\ known = [k \in Clients |-> IF k \in site.bare THEN "uninitialized" ELSE "ready"]
        /\ baseline = [k \in Clients |-> disk]
        /\ applied = [k \in Clients |-> -1]
        /\ seq = [k \in Clients |-> 0]
        /\ ladder = [k \in Clients |-> NoRung]
        /\ jobs = {}
        /\ held = [k \in Clients |-> [c \in Cookies |-> {0}]]
        /\ author = [c \in Cookies |-> NoAuthor]

(* The jar of client k becomes jar.                                        *)
SetLive(k, jar) ==
    /\ live' = [live EXCEPT ![k] = jar]
    /\ held' = [held EXCEPT ![k] = [c \in Cookies |-> @[c] \cup ({jar[c]} \ {Absent})]]

(* The baseline of client k becomes ReadyBaseline(jar).                    *)
Ready(k, jar) == /\ known' = [known EXCEPT ![k] = "ready"]
                 /\ baseline' = [baseline EXCEPT ![k] = jar]

(* _prepare_open_baseline: only a client without a baseline reads one; a   *)
(* read that fails disables its saves.                                     *)
PrepareOpen(k) ==
    /\ status[k] = "loaded" \/ (status[k] = "closed" /\ seq[k] < site.saves[k])
    /\ status' = [status EXCEPT ![k] = "open"]
    /\ \/ known[k] # "uninitialized" /\ UNCHANGED <<known, baseline>>
       \/ known[k] = "uninitialized" /\ Ready(k, disk)
       \/ /\ known[k] = "uninitialized"
          /\ known' = [known EXCEPT ![k] = "failed"]
          /\ UNCHANGED baseline
    /\ UNCHANGED <<site, disk, fresh, live, applied, seq, ladder, jobs,
                   held, author>>

(* A response of the server sets a cookie, or deletes it.                  *)
Rotate(k, c) ==
    /\ status[k] = "open"
    /\ fresh < MaxFresh
    /\ fresh' = fresh + 1
    /\ \E v \in {fresh + 1, Absent} : SetLive(k, [live[k] EXCEPT ![c] = v])
    /\ UNCHANGED <<site, disk, status, known, baseline, applied, seq, ladder, jobs,
                   author>>

(* _save_canonical up to its await.                                        *)
SaveCookies(k) ==
    /\ status[k] = "open"
    /\ seq[k] < site.saves[k]
    /\ seq' = [seq EXCEPT ![k] = @ + 1]
    /\ jobs' = jobs \cup {Save(k, seq[k])}
    /\ UNCHANGED <<site, disk, fresh, status, live, known, baseline, applied, ladder,
                   held, author>>

(* prepare_close stops the keepalive and the refresh task, not the threads *)
(* they wait for; close_resources saves once more and waits for it.        *)
Close(k) ==
    /\ status[k] = "open"
    /\ seq[k] < site.saves[k]
    /\ status' = [status EXCEPT ![k] = "closing"]
    /\ seq' = [seq EXCEPT ![k] = @ + 1]
    /\ jobs' = jobs \cup {Save(k, seq[k])}
    /\ ladder' = [ladder EXCEPT ![k] = NoRung]
    /\ UNCHANGED <<site, disk, fresh, live, known, baseline, applied, held, author>>

Closed(k) ==
    /\ status[k] = "closing"
    /\ \A j \in jobs : j.client = k => j.seq # seq[k] - 1
    /\ status' = [status EXCEPT ![k] = "closed"]
    /\ UNCHANGED <<site, disk, fresh, live, known, baseline, applied, seq, ladder,
                   jobs, held, author>>

-----------------------------------------------------------------------------
FaultSkips(j) == known[j.client] = "failed"

(* _save, in a worker thread: the save lock, the order and the baseline.   *)
Skips(j) == j.seq < applied[j.client] \/ known[j.client] = "failed"

StartSave(j) ==
    /\ j.kind = "save" /\ j.pc = "queued"
    /\ SaveLockFree(j.client)
    /\ jobs' = IF Skips(j) THEN jobs \ {j} ELSE Advance(j, "merging", j.doc)
    /\ UNCHANGED <<site, disk, fresh, status, live, known, baseline, applied, seq,
                   ladder, held, author>>

(* _under_blocking_cookie_lock, and the read of the document under it.     *)
ReadDocument(j) ==
    /\ j.pc = "merging"
    /\ StorageLockFree(j.client)
    /\ jobs' = Advance(j, "holding", disk)
    /\ UNCHANGED <<site, disk, fresh, status, live, known, baseline, applied, seq,
                   ladder, held, author>>

(* The merge is committed, and the result advances order and baseline.     *)
Commit(j) ==
    /\ j.pc = "holding"
    /\ LET k == j.client
           base == baseline[k]
           wins == Changed(j.jar, base) \ Rejected(j.doc, j.jar, base)
       IN  /\ disk' = Merged(j.doc, j.jar, base)
           /\ Ready(k, NextBaseline(j.doc, j.jar, base))
           /\ applied' = [applied EXCEPT ![k] = j.seq]
           /\ author' = [c \in Cookies |-> IF c \in wins
                                           THEN [client |-> k, seq |-> j.seq]
                                           ELSE author[c]]
    /\ jobs' = jobs \ {j}
    /\ UNCHANGED <<site, fresh, status, live, seq, ladder, held>>

(* HARD_FAILURE: the document cannot be read or written.                   *)
CommitFails(j) ==
    /\ j.pc = "holding"
    /\ jobs' = jobs \ {j}
    /\ UNCHANGED <<site, disk, fresh, status, live, known, baseline, applied, seq,
                   ladder, held, author>>

FaultAdopt(j) ==
    /\ j.kind = "adopt" /\ j.pc = "queued"
    /\ SaveLockFree(j.client)
    /\ jobs' = jobs \ {j}
    /\ Ready(j.client, disk)
    /\ applied' = [applied EXCEPT ![j.client] = IF @ < j.seq THEN j.seq ELSE @]
    /\ UNCHANGED <<site, disk, fresh, status, live, seq, ladder, held, author>>

(* _adopt, in a worker thread: the sampled profile becomes the baseline if *)
(* the file still holds it.                                                *)
Adopt(j) ==
    /\ j.kind = "adopt" /\ j.pc = "queued"
    /\ SaveLockFree(j.client)
    /\ jobs' = jobs \ {j}
    /\ LET k == j.client
       IN  IF disk = j.jar
           THEN /\ Ready(k, disk)
                /\ applied' = [applied EXCEPT ![k] = IF @ < j.seq THEN j.seq ELSE @]
                /\ author' = [c \in Cookies |->
                                 IF author[c].client = k /\ author[c].seq > j.seq
                                 THEN author[c]
                                 ELSE [client |-> k, seq |-> j.seq]]
           ELSE UNCHANGED <<known, baseline, applied, author>>
    /\ UNCHANGED <<site, disk, fresh, status, live, seq, ladder, held>>

-----------------------------------------------------------------------------
(* try_storage_cookie_reload: the server refused the jar; the profile is   *)
(* sampled in a thread ...                                                 *)
SampleProfile(k) ==
    /\ status[k] = "open"
    /\ ladder[k] = NoRung
    /\ ladder' = [ladder EXCEPT ![k] = [kind |-> "reload", before |-> live[k],
                                        sample |-> disk]]
    /\ UNCHANGED <<site, disk, fresh, status, live, known, baseline, applied, seq,
                   jobs, held, author>>

(* ... and, unless a response changed the jar in the meantime, replaces    *)
(* the jar and asks for the adoption of the sample.                        *)
InstallProfile(k) ==
    /\ ladder[k].kind = "reload"
    /\ ladder' = [ladder EXCEPT ![k] = NoRung]
    /\ IF live[k] = ladder[k].before /\ seq[k] < site.saves[k]
       THEN /\ SetLive(k, ladder[k].sample)
            /\ seq' = [seq EXCEPT ![k] = @ + 1]
            /\ jobs' = jobs \cup {Adoption(k, seq[k], ladder[k].sample)}
       ELSE UNCHANGED <<live, held, seq, jobs>>
    /\ UNCHANGED <<site, disk, fresh, status, known, baseline, applied, author>>

(* The deeper rungs (refresh command, headless browser, master token)      *)
(* replace the profile under the bounded lock, which they refuse to do     *)
(* without ...                                                             *)
Remint(k) ==
    /\ k \in Reminting
    /\ status[k] = "open"
    /\ ladder[k] = NoRung
    /\ fresh < MaxFresh
    /\ site.flock /\ \A j \in jobs : j.pc # "holding"
    /\ fresh' = fresh + 1
    /\ disk' = [c \in Cookies |-> fresh + 1]
    /\ author' = [c \in Cookies |-> NoAuthor]
    /\ ladder' = [ladder EXCEPT ![k] = [kind |-> "reminted"]]
    /\ UNCHANGED <<site, status, live, known, baseline, applied, seq, jobs, held>>

(* ... and load it into the jar, without adopting it.                      *)
LoadReminted(k) ==
    /\ ladder[k].kind = "reminted"
    /\ ladder' = [ladder EXCEPT ![k] = [kind |-> "loaded", sample |-> disk]]
    /\ UNCHANGED <<site, disk, fresh, status, live, known, baseline, applied, seq,
                   jobs, held, author>>

InstallReminted(k) ==
    /\ ladder[k].kind = "loaded"
    /\ SetLive(k, ladder[k].sample)
    /\ ladder' = [ladder EXCEPT ![k] = NoRung]
    /\ UNCHANGED <<site, disk, fresh, status, known, baseline, applied, seq, jobs,
                   author>>

Worker(j) == StartSave(j) \/ ReadDocument(j) \/ Commit(j) \/ CommitFails(j) \/ Adopt(j)

Loop(k) == \/ PrepareOpen(k) \/ SaveCookies(k) \/ Close(k) \/ Closed(k)
           \/ (\E c \in Cookies : Rotate(k, c))
           \/ SampleProfile(k) \/ InstallProfile(k)
           \/ Remint(k) \/ LoadReminted(k) \/ InstallReminted(k)

Next == \/ \E k \in Clients : Loop(k)
        \/ \E j \in jobs : Worker(j)

Spec == Init /\ [][Next]_vars

-----------------------------------------------------------------------------
Rungs == {NoRung, [kind |-> "reminted"]}
         \cup [kind : {"loaded"}, sample : Jars]
         \cup [kind : {"reload"}, before : Jars, sample : Jars]

JobSet == [client : Clients, kind : {"save", "adopt"}, seq : Nat, jar : Jars,
           doc : Jars, pc : {"queued", "merging", "holding"}]

TypeOK == /\ site \in Sites
          /\ disk \in Jars
          /\ fresh \in Generations
          /\ status \in [Clients -> {"loaded", "open", "closing", "closed"}]
          /\ live \in [Clients -> Jars]
          /\ known \in [Clients -> {"uninitialized", "ready", "failed"}]
          /\ baseline \in [Clients -> Jars]
          /\ applied \in [Clients -> Int]
          /\ seq \in [Clients -> Nat]
          /\ ladder \in [Clients -> Rungs]
          /\ jobs \in SUBSET JobSet
          /\ held \in [Clients -> [Cookies -> SUBSET Generations]]
          /\ author \in [Cookies -> [client : Clients \cup {Nobody}, seq : Nat]]
          /\ \A k \in Clients : applied[k] < seq[k]
          /\ \A j \in jobs : j.seq < seq[j.client]

(* A client's baseline names only values its own jar has held: it never    *)
(* vouches for a sibling's write that the client did not take over         *)
(* (cookie_persistence.py, _adopt_reloaded_baseline: adopting unmatched    *)
(* provenance would authorize the live jar to overwrite that update).      *)
BaselineHeld ==
    \A k \in Clients \ site.bare :
        known[k] = "ready" =>
            \A c \in Cookies : baseline[k][c] \in held[k][c] \cup {Absent}

(* The document a thread has read under the lock is still the one on disk: *)
(* nobody wrote between the read and the commit.                           *)
DocumentCurrent == \A j \in jobs : j.pc = "holding" => j.doc = disk

(* A save never replaces a value its client has not had in its own jar: a  *)
(* stale jar does not overwrite a sibling's newer cookie                   *)
(* (docs/auth-cookie-lifecycle.md).                                        *)
NoUnseenOverwrite ==
    [][\A j \in jobs : j.client \notin site.bare /\ Commit(j) =>
           \A c \in Cookies : disk'[c] # disk[c] =>
               disk[c] \in held[j.client][c] \cup {Absent}]_vars

(* Of two observations of one client the newer one stays: neither an       *)
(* earlier save whose thread came late, nor a jar that was refused before  *)
(* the client adopted the profile, is written over it.                     *)
NewestObservationStays ==
    [][\A c \in Cookies : author'[c].client = author[c].client =>
           author'[c].seq >= author[c].seq]_vars

(* A client is never in its own way: what its own save stored last, or     *)
(* what it took over from the profile last, does not turn away its later   *)
(* rotation, whatever its siblings do meanwhile                            *)
(* (tests/unit/test_auth_session.py: a reload must let the following       *)
(* Set-Cookie pass the comparison).                                        *)
OwnRotationStored ==
    [][\A j \in jobs : Commit(j) =>
           \A c \in Rejected(j.doc, j.jar, baseline[j.client]) :
               author[c].client # j.client]_vars

(* The same of every value that was in the client's jar, those included    *)
(* that a refresh command, a browser or a master token brought, unless its *)
(* adoption is still on its way.                                           *)
TurnedAway(j) ==
    {c \in Rejected(j.doc, j.jar, baseline[j.client]) :
        /\ j.jar[c] = live[j.client][c]
        /\ j.doc[c] \in held[j.client][c]
        /\ ~ \E a \in jobs : /\ a.client = j.client /\ a.kind = "adopt"
                             /\ a.jar[c] = j.doc[c]}

ReloadedRotationStored ==
    [][\A j \in jobs : site.bare = {} /\ Commit(j) => TurnedAway(j) = {}]_vars

=============================================================================
