-------------------------------- MODULE Scan --------------------------------
(***************************************************************************)
(* Share indexing: index::scan with its hashing jobs, do_scan around it    *)
(* (filestrd/src/main.rs), and the ScanCtl operations of filestrd/src/     *)
(* state.rs that begin, cancel, pause and resume it.                       *)
(*                                                                         *)
(* A scan is a task.  Beginning one cancels the token of the one before,   *)
(* but that one still runs until it looks at its token, and both write the *)
(* same live index.  Every file is its own share root here, so a file is   *)
(* shared when it is in the configuration.  A version of a file stands for *)
(* its content.  Its stamp is its size and its mtime in whole seconds: an  *)
(* edit of the same size within the second, or one that sets the mtime     *)
(* back, leaves a stamp the file had before.                               *)
(***************************************************************************)
EXTENDS Naturals, FiniteSets

CONSTANTS
    Files,        \* files under share roots, one per root
    MaxVersion,   \* bound on how often a file changes
    MaxScans,     \* bound on the scans begun, the startup scan included
    Concurrency,  \* hashing jobs at a time (available_parallelism)
    Histories,    \* the stamps that the successive versions of a file may have
    Requests      \* what is asked of the daemon: begin, cancel, pause, edit

Versions == 1..MaxVersion

\* Stamp 0 is an mtime of 0, which is also what an unreadable one becomes.
Stamps == 0..MaxVersion

ASSUME ScanAssumption ==
    /\ IsFiniteSet(Files)
    /\ Requests \subseteq {"begin", "cancel", "pause", "edit"}
    /\ MaxVersion \in Nat \ {0}
    /\ MaxScans \in Nat \ {0}
    /\ Concurrency \in Nat \ {0}
    /\ Histories \subseteq [Versions -> Stamps]

VARIABLES
    config,    \* the shared files
    version,   \* version[f]: what f is on the disk now
    stamp,     \* stamp[f][v]: the stamp of its version v
    live,      \* State::index: how often the Vec holds each entry
    cache,     \* index.bin, as the last save left it
    thumbs,    \* the cached thumbnails, by content
    newest,    \* the scan whose token and progress ScanCtl holds
    task,      \* task[s]: where scan s is, and its locals
    cancelled, \* the scans whose CancellationToken is cancelled
    paused,    \* the scans whose ScanProgress is paused
    done,      \* done[s]: ScanProgress::done
    clobbered  \* history: scans whose published index another scan wrote to

vars == <<config, version, stamp, live, cache, thumbs, newest, task, cancelled, paused,
          done, clobbered>>

Scans == 1..MaxScans

\* What the walk saw of a file, what hashing it gave, and what is kept of both.
Sighting == [file: Files, seen: Stamps]
Entry == [file: Files, seen: Stamps, hash: Versions]

Stamp(f) == stamp[f][version[f]]

Content(e) == <<e.file, e.hash>>
Served == {e \in Entry : live[e] > 0}

PcDone == {"idle", "done", "bailed"}
Pc == PcDone \cup {"begun", "publish", "head", "enter", "select", "push", "snapshot", "prune"}

Locals == [pc: Pc,
           prev: SUBSET Entry,       \* the reuse baseline
           late: BOOLEAN,            \* ... is read from the index by the task
           reused: SUBSET Entry,     \* entries the walk kept without hashing
           pending: SUBSET Sighting, \* still to hash
           jobs: {J \in SUBSET Sighting : Cardinality(J) <= Concurrency},
           results: SUBSET Entry,    \* hashed, not joined yet
           joined: {J \in SUBSET Entry : Cardinality(J) <= 1}, \* waiting for the lock
           skipped: SUBSET Files,    \* files whose import failed
           launched: BOOLEAN,        \* done_launching
           sawPaused: BOOLEAN,       \* `paused`, loaded at the loop head
           woken: BOOLEAN,           \* the Notified of this select has fired
           snap: SUBSET Entry]       \* do_scan's snapshot

Fresh == [pc |-> "idle", prev |-> {}, late |-> FALSE, reused |-> {}, pending |-> {}, jobs |-> {},
          results |-> {}, joined |-> {}, skipped |-> {}, launched |-> FALSE,
          sawPaused |-> FALSE, woken |-> FALSE, snap |-> {}]

Alive(s) == task[s].pc \notin PcDone

\* ScanProgress::active goes false when the loop ends.
Active(s) == Alive(s) /\ task[s].pc \notin {"snapshot", "prune"}

\* The daemon starts with the cache of an earlier run, every entry true when it
\* was written, the thumbnails that run left, and an empty index.
Init ==
    /\ config \in SUBSET Files
    /\ version = [f \in Files |-> 1]
    /\ stamp \in [Files -> Histories]
    /\ live = [e \in Entry |-> 0]
    /\ \E S \in SUBSET Files :
          cache = {[file |-> f, seen |-> stamp[f][1], hash |-> 1] : f \in S}
    /\ thumbs = {Content(e) : e \in cache}
    /\ newest = 1
    /\ task = [s \in Scans |->
                  IF s = 1 THEN [Fresh EXCEPT !.pc = "begun", !.prev = cache] ELSE Fresh]
    /\ cancelled = {}
    /\ paused = {}
    /\ done = [s \in Scans |-> 0]
    /\ clobbered = {}

-----------------------------------------------------------------------------
(* The control side.                                                       *)

CancelOld == cancelled' = cancelled \cup {newest}

\* State::begin_scan, from a request that changed the configuration (share add
\* or remove), from `rescan`, or from SIGHUP.  `share add` has read the index
\* before, rescan_now reads it after (Walk).
BeginScan ==
    /\ "begin" \in Requests /\ newest < MaxScans
    /\ newest' = newest + 1
    /\ CancelOld
    /\ config' \in {config} \cup {config \cup {f} : f \in Files} \cup {config \ {f} : f \in Files}
    /\ \E late \in BOOLEAN :
          task' = [task EXCEPT ![newest + 1] =
                      [Fresh EXCEPT !.pc = "begun", !.late = late,
                                    !.prev = IF late THEN {} ELSE Served]]
    /\ UNCHANGED <<version, stamp, live, cache, thumbs, paused, done, clobbered>>

\* State::cancel_scan
CancelScan ==
    /\ "cancel" \in Requests /\ newest \notin cancelled
    /\ cancelled' = cancelled \cup {newest}
    /\ task' = [task EXCEPT ![newest].woken = (@ \/ task[newest].pc = "select")]
    /\ UNCHANGED <<config, version, stamp, live, cache, thumbs, newest, paused, done, clobbered>>

\* State::pause_scan
PauseScan ==
    /\ "pause" \in Requests
    /\ Active(newest) /\ newest \notin paused
    /\ paused' = paused \cup {newest}
    /\ UNCHANGED <<config, version, stamp, live, cache, thumbs, newest, task, cancelled,
                   done, clobbered>>

\* State::resume_scan: notify_waiters reaches the select that is waiting now
\* and leaves nothing for a later one.
ResumeScan ==
    /\ Active(newest) /\ newest \in paused
    /\ paused' = paused \ {newest}
    /\ task' = [task EXCEPT ![newest].woken = (@ \/ task[newest].pc = "select")]
    /\ UNCHANGED <<config, version, stamp, live, cache, thumbs, newest, cancelled, done, clobbered>>

\* Somebody edits a file.
EditFile(f) ==
    /\ "edit" \in Requests
    /\ version[f] < MaxVersion
    /\ version' = [version EXCEPT ![f] = @ + 1]
    /\ UNCHANGED <<config, stamp, live, cache, thumbs, newest, task, cancelled, paused, done, clobbered>>

-----------------------------------------------------------------------------
(* The scan task.                                                          *)

\* Writing the live index from scan s spoils what every other scan published.
Clobber(s) ==
    clobbered' = clobbered \cup
        {o \in Scans \ {s} : task[o].pc \notin {"idle", "begun", "publish"}}

\* Mutant: the fast path goes by the path alone.
Unchanged_PathOnly(prev, f) == {e \in prev : e.file = f}

\* The walk: a file whose path, size and mtime match its baseline entry keeps
\* that entry, unless its mtime is 0; every other one is to be hashed.
Unchanged(prev, f) == {e \in prev : e.file = f /\ e.seen = Stamp(f) /\ Stamp(f) # 0}

Keep(prev, f) == {[e EXCEPT !.seen = Stamp(f)] : e \in Unchanged(prev, f)}

\* prev_by_path has one entry per path: of several, the last in the Vec.
OnePerFile(entries) ==
    {K \in SUBSET entries :
        \A f \in {e.file : e \in entries} : Cardinality({e \in K : e.file = f}) = 1}

Walk(s) ==
    /\ task[s].pc = "begun"
    /\ LET prev == IF task[s].late THEN Served ELSE task[s].prev
       IN  \E keep \in OnePerFile(UNION {Keep(prev, f) : f \in config}) :
              /\ task' = [task EXCEPT ![s] =
                    [@ EXCEPT !.pc = "publish",
                              !.prev = {},
                              !.late = FALSE,
                              !.reused = keep,
                              !.pending = {[file |-> f, seen |-> Stamp(f)] :
                                              f \in config \ {e.file : e \in keep}}]]
              /\ done' = [done EXCEPT ![s] = Cardinality(keep)]
    /\ UNCHANGED <<config, version, stamp, live, cache, thumbs, newest, cancelled, paused, clobbered>>

\* `*live.write().await = Index { files: reused }`
Publish(s) ==
    /\ task[s].pc = "publish"
    /\ live' = [e \in Entry |-> IF e \in task[s].reused THEN 1 ELSE 0]
    /\ Clobber(s)
    /\ task' = [task EXCEPT ![s].pc = "head", ![s].reused = {}]
    /\ UNCHANGED <<config, version, stamp, cache, thumbs, newest, cancelled, paused, done>>

\* Mutant: the loop ends with the last launch and does not drain the jobs.
LoopHead_NoDrain(s) ==
    /\ task[s].pc = "head"
    /\ IF task[s].launched
       THEN task' = [task EXCEPT ![s].pc = IF s \in cancelled THEN "bailed" ELSE "snapshot"]
       ELSE task' = [task EXCEPT ![s].pc = "enter", ![s].sawPaused = s \in paused]
    /\ UNCHANGED <<config, version, stamp, live, cache, thumbs, newest, cancelled, paused,
                   done, clobbered>>

\* The head of the loop: leave it, or load `paused`.
LoopHead(s) ==
    /\ task[s].pc = "head"
    /\ IF task[s].launched /\ task[s].jobs = {} /\ task[s].results = {}
       THEN task' = [task EXCEPT ![s].pc = IF s \in cancelled THEN "bailed" ELSE "snapshot"]
       ELSE task' = [task EXCEPT ![s].pc = "enter", ![s].sawPaused = s \in paused]
    /\ UNCHANGED <<config, version, stamp, live, cache, thumbs, newest, cancelled, paused,
                   done, clobbered>>

\* select! creates its futures: from here on a notify_waiters reaches this loop.
EnterSelect(s) ==
    /\ task[s].pc = "enter"
    /\ task' = [task EXCEPT ![s].pc = "select", ![s].woken = FALSE]
    /\ UNCHANGED <<config, version, stamp, live, cache, thumbs, newest, cancelled, paused,
                   done, clobbered>>

\* Mutant: a paused loop waits for the resume only.
SelectCancelled_NotPaused(s) ==
    /\ task[s].pc = "select"
    /\ s \in cancelled /\ ~task[s].sawPaused
    /\ task' = [task EXCEPT ![s] = [@ EXCEPT !.pc = "bailed", !.jobs = {}, !.results = {},
                                             !.pending = {}]]
    /\ UNCHANGED <<config, version, stamp, live, cache, thumbs, newest, cancelled, paused,
                   done, clobbered>>

\* select!, biased: the token first; it shuts the jobs down and ends the scan.
SelectCancelled(s) ==
    /\ task[s].pc = "select"
    /\ s \in cancelled
    /\ task' = [task EXCEPT ![s] = [@ EXCEPT !.pc = "bailed", !.jobs = {}, !.results = {},
                                             !.pending = {}]]
    /\ UNCHANGED <<config, version, stamp, live, cache, thumbs, newest, cancelled, paused,
                   done, clobbered>>

\* Mutant: every finished job is taken at once.
SelectJoin_All(s) ==
    /\ task[s].pc = "select" /\ s \notin cancelled
    /\ task[s].results # {}
    /\ task' = [task EXCEPT ![s] = [task[s] EXCEPT !.pc = "push", !.results = {},
                                                   !.joined = @ \cup task[s].results]]
    /\ UNCHANGED <<config, version, stamp, live, cache, thumbs, newest, cancelled, paused,
                   done, clobbered>>

\* Then a finished job, whose entry waits for the index lock ...
SelectJoin(s) ==
    /\ task[s].pc = "select" /\ s \notin cancelled
    /\ \E e \in task[s].results :
          task' = [task EXCEPT ![s] = [task[s] EXCEPT !.pc = "push", !.results = @ \ {e},
                                                      !.joined = {e}]]
    /\ UNCHANGED <<config, version, stamp, live, cache, thumbs, newest, cancelled, paused,
                   done, clobbered>>

\* ... or one whose import failed, which is skipped ...
SelectJoinFailed(s) ==
    /\ task[s].pc = "select" /\ s \notin cancelled
    /\ \E j \in task[s].jobs :
          task' = [task EXCEPT ![s] = [task[s] EXCEPT !.pc = "head", !.jobs = @ \ {j},
                                                      !.skipped = @ \cup {j.file}]]
    /\ UNCHANGED <<config, version, stamp, live, cache, thumbs, newest, cancelled, paused,
                   done, clobbered>>

\* ... then the next launch, when a permit is free and the scan was not paused ...
CanLaunch(s) ==
    /\ ~task[s].launched /\ ~task[s].sawPaused
    /\ Cardinality(task[s].jobs) < Concurrency

\* Mutant: done_launching is never set.
SelectLaunch_NeverDone(s) ==
    /\ task[s].pc = "select" /\ s \notin cancelled /\ task[s].results = {}
    /\ CanLaunch(s)
    /\ IF task[s].pending = {}
       THEN task' = [task EXCEPT ![s].pc = "head"]
       ELSE \E p \in task[s].pending :
               task' = [task EXCEPT ![s] = [task[s] EXCEPT !.pc = "head", !.pending = @ \ {p},
                                                           !.jobs = @ \cup {p}]]
    /\ UNCHANGED <<config, version, stamp, live, cache, thumbs, newest, cancelled, paused,
                   done, clobbered>>

SelectLaunch(s) ==
    /\ task[s].pc = "select" /\ s \notin cancelled /\ task[s].results = {}
    /\ CanLaunch(s)
    /\ IF task[s].pending = {}
       THEN task' = [task EXCEPT ![s].pc = "head", ![s].launched = TRUE]
       ELSE \E p \in task[s].pending :
               task' = [task EXCEPT ![s] = [task[s] EXCEPT !.pc = "head", !.pending = @ \ {p},
                                                           !.jobs = @ \cup {p}]]
    /\ UNCHANGED <<config, version, stamp, live, cache, thumbs, newest, cancelled, paused,
                   done, clobbered>>

\* ... and last the wake-up of a paused loop.
SelectResumed(s) ==
    /\ task[s].pc = "select" /\ s \notin cancelled /\ task[s].results = {}
    /\ task[s].sawPaused /\ ~task[s].launched /\ task[s].woken
    /\ task' = [task EXCEPT ![s].pc = "head"]
    /\ UNCHANGED <<config, version, stamp, live, cache, thumbs, newest, cancelled, paused,
                   done, clobbered>>

\* The joined entry is appended to the index and counted.
Push(s) ==
    /\ task[s].pc = "push"
    /\ live' = [e \in Entry |-> IF e \in task[s].joined THEN live[e] + 1 ELSE live[e]]
    /\ done' = [done EXCEPT ![s] = @ + 1]
    /\ Clobber(s)
    /\ task' = [task EXCEPT ![s].pc = "head", ![s].joined = {}]
    /\ UNCHANGED <<config, version, stamp, cache, thumbs, newest, cancelled, paused>>

\* A hashing job imports the file as it is now, with the size and mtime of the
\* walk, and caches its cover under the hash.
FinishJob(s, j) ==
    /\ j \in task[s].jobs
    /\ LET e == [file |-> j.file, seen |-> j.seen, hash |-> version[j.file]]
       IN  /\ task' = [task EXCEPT ![s] = [task[s] EXCEPT !.jobs = @ \ {j},
                                                          !.results = @ \cup {e}]]
           /\ thumbs' = thumbs \cup {Content(e)}
    /\ UNCHANGED <<config, version, stamp, live, cache, newest, cancelled, paused, done, clobbered>>

\* do_scan: a snapshot of the live index, saved ...
Snapshot(s) ==
    /\ task[s].pc = "snapshot"
    /\ cache' = Served
    /\ task' = [task EXCEPT ![s].pc = "prune", ![s].snap = Served]
    /\ UNCHANGED <<config, version, stamp, live, thumbs, newest, cancelled, paused, done, clobbered>>

\* ... and then the thumbnails it does not name deleted.
Prune(s) ==
    /\ task[s].pc = "prune"
    /\ thumbs' = thumbs \cap {Content(e) : e \in task[s].snap}
    /\ task' = [task EXCEPT ![s].pc = "done", ![s].snap = {}]
    /\ UNCHANGED <<config, version, stamp, live, cache, newest, cancelled, paused, done, clobbered>>

Step(s) ==
    \/ Walk(s) \/ Publish(s) \/ LoopHead(s) \/ EnterSelect(s)
    \/ SelectCancelled(s) \/ SelectJoin(s) \/ SelectJoinFailed(s)
    \/ SelectLaunch(s) \/ SelectResumed(s)
    \/ Push(s) \/ Snapshot(s) \/ Prune(s)

Next ==
    \/ BeginScan \/ CancelScan \/ PauseScan \/ ResumeScan
    \/ \E f \in Files : EditFile(f)
    \/ \E s \in Scans : Step(s)
    \/ \E s \in Scans : \E j \in task[s].jobs : FinishJob(s, j)

Spec == Init /\ [][Next]_vars

\* The runtime keeps polling every task that can make progress, and hashing a
\* file takes finite time.  Nobody is obliged to resume, cancel or rescan.
FairSpec ==
    /\ Spec
    /\ \A s \in Scans : WF_vars(Step(s))
    /\ \A s \in Scans : WF_vars(\E j \in task[s].jobs : FinishJob(s, j))

-----------------------------------------------------------------------------
TypeOK ==
    /\ config \in SUBSET Files
    /\ version \in [Files -> Versions]
    /\ stamp \in [Files -> [Versions -> Stamps]]
    /\ live \in [Entry -> Nat]
    /\ cache \in SUBSET Entry
    /\ thumbs \in SUBSET (Files \X Versions)
    /\ newest \in Scans
    /\ task \in [Scans -> Locals]
    /\ cancelled \in SUBSET Scans
    /\ paused \in SUBSET Scans
    /\ done \in [Scans -> Nat]
    /\ clobbered \in SUBSET Scans

\* No earlier version of f had the stamp that it has now.
FreshlyStamped(f) == \A v \in 1..(version[f] - 1) : stamp[f][v] # Stamp(f)

\* The mtime fast path: an entry, live or in the cache a restart will trust,
\* that agrees with the file's size and mtime has the hash of its content,
\* whatever was edited between the walk, the hashing and the next scan, unless
\* an earlier version of the file had that size and mtime.
ReuseIsSound ==
    \A e \in Served \cup cache :
        e.seen = Stamp(e.file) /\ FreshlyStamped(e.file) => e.hash = version[e.file]

\* A scan that ran to its end, and whose index no superseded scan wrote to,
\* left every shared file it could import indexed exactly once and nothing else.
SettledIndexIsExact ==
    /\ task[newest].pc \in {"snapshot", "prune", "done"}
    /\ newest \notin clobbered
    => /\ {e.file : e \in Served} = config \ task[newest].skipped
       /\ \A e \in Served :
             live[e] = 1 /\ \A o \in Served : o.file = e.file => o = e

\* cancel_scan, begin_scan and index::scan: a scan told to stop, by hand or by
\* the next one, unwinds even when it is paused, and one that nobody pauses gets
\* to its end, whatever imports fail.
ScansEnd ==
    \A s \in Scans :
        /\ (s \in cancelled) ~> ~Alive(s)
        /\ [](s \notin paused) => (Alive(s) ~> ~Alive(s))

\* index.rs, the paused branch of the loop ("wake when resumed ... and
\* re-evaluate"): a scan that is not paused gets to its end, or is paused again.
UnpausedScanEnds ==
    \A s \in Scans : (Alive(s) /\ s \notin paused) ~> (~Alive(s) \/ s \in paused)

\* main.rs, do_scan: what a superseded scan leaves in the index is only partial
\* until the next scan, so when that one is done every file it could import is
\* served.
CompletedScanServesAll ==
    task[newest].pc = "done" =>
        config \ task[newest].skipped \subseteq {e.file : e \in Served}
=============================================================================
