----------------------------- MODULE ScanProofs -----------------------------
(***************************************************************************)
(* Proofs about Scan, for any files, edits, scans and number of hashing    *)
(* jobs: its types, that an entry is reused only while it is true, and     *)
(* that a scan nobody wrote over leaves the index exact.                   *)
(***************************************************************************)
EXTENDS Scan, FiniteSetTheorems, TLAPS

-----------------------------------------------------------------------------
(* The inductive invariant.                                                *)

Entries(t) == t.prev \cup t.reused \cup t.results \cup t.joined \cup t.snap
ToHash(t) == t.pending \cup t.jobs

\* What was hashed was there no earlier than what the walk saw, and is no newer
\* than what is there now.
Sound(e) ==
    /\ e.hash <= version[e.file]
    /\ \E v \in 1..e.hash : stamp[e.file][v] = e.seen

Past(j) == \E v \in 1..version[j.file] : stamp[j.file][v] = j.seen

AllSound ==
    /\ \A e \in Served \cup cache : Sound(e)
    /\ \A s \in Scans : /\ \A e \in Entries(task[s]) : Sound(e)
                        /\ \A j \in ToHash(task[s]) : Past(j)

\* Where a task holds what: nothing before its walk, an entry of its own only
\* while it waits for the lock, nothing to hash after the last launch, nothing
\* at all after the loop.
Tidy(t) ==
    /\ t.pc \in {"idle", "begun", "publish"} =>
          t.jobs = {} /\ t.results = {} /\ t.skipped = {} /\ ~t.launched
    /\ t.pc # "push" => t.joined = {}
    /\ t.launched => t.pending = {}
    /\ t.pc \in {"snapshot", "prune", "done"} => t.launched /\ t.jobs = {} /\ t.results = {}

OnePer(S) == \A a, b \in S : a.file = b.file => a = b
FilesOf(S) == {e.file : e \in S}

\* Every file of C is at one place: in the index V, hashed, to be hashed, or
\* among those that failed.
Parted(t, V, C) ==
    LET have == V \cup t.results \cup t.joined
    IN  /\ OnePer(have) /\ OnePer(ToHash(t))
        /\ V \cap (t.results \cup t.joined) = {} /\ t.results \cap t.joined = {}
        /\ t.pending \cap t.jobs = {}
        /\ FilesOf(have) \cap FilesOf(ToHash(t)) = {}
        /\ t.skipped \cap (FilesOf(have) \cup FilesOf(ToHash(t))) = {}
        /\ C = t.skipped \cup FilesOf(have) \cup FilesOf(ToHash(t))

\* Of the newest scan this holds from its walk on, of the live index from its
\* publication until another scan writes to it.
NewestIsParted ==
    /\ task[newest].pc = "publish" => Parted(task[newest], task[newest].reused, config)
    /\ task[newest].pc \notin {"idle", "begun", "publish", "bailed"} /\ newest \notin clobbered
       => /\ Parted(task[newest], Served, config)
          /\ \A e \in Served : live[e] = 1

IInv == TypeOK /\ AllSound /\ (\A s \in Scans : Tidy(task[s])) /\ NewestIsParted

-----------------------------------------------------------------------------
(* Finite sets, and the shape of a task.                                   *)

LEMMA EntriesAreFinite ==
    /\ IsFiniteSet(Entry)
    /\ \A S \in SUBSET Entry : IsFiniteSet(S) /\ Cardinality(S) \in Nat
<1>1. IsFiniteSet(Files) /\ IsFiniteSet(Versions) /\ IsFiniteSet(Stamps)
  BY ScanAssumption, FS_Interval DEF Versions, Stamps
<1>2. IsFiniteSet(Files \X (Stamps \X Versions))
  BY <1>1, FS_Product
<1>3. [e \in Entry |-> <<e.file, <<e.seen, e.hash>>>>]
         \in Injection(Entry, Files \X (Stamps \X Versions))
  BY DEF Entry, Injection, IsInjective
<1>4. IsFiniteSet(Entry)
  BY <1>2, <1>3, FS_Injection
<1>5. \A S \in SUBSET Entry : IsFiniteSet(S)
  BY <1>4, FS_Subset
<1> QED BY <1>4, <1>5, FS_CardinalityType

LEMMA SightingsAreFinite == \A S \in SUBSET Sighting : IsFiniteSet(S)
<1>1. IsFiniteSet(Files) /\ IsFiniteSet(Versions) /\ IsFiniteSet(Stamps)
  BY ScanAssumption, FS_Interval DEF Versions, Stamps
<1>2. IsFiniteSet(Files \X Stamps)
  BY <1>1, FS_Product
<1>3. [j \in Sighting |-> <<j.file, j.seen>>] \in Injection(Sighting, Files \X Stamps)
  BY DEF Sighting, Injection, IsInjective
<1>4. IsFiniteSet(Sighting)
  BY <1>2, <1>3, FS_Injection
<1> QED BY <1>4, FS_Subset

FewJobs == {J \in SUBSET Sighting : Cardinality(J) <= Concurrency}
FewJoined == {J \in SUBSET Entry : Cardinality(J) <= 1}

LEMMA LocalsAre ==
    Locals = [pc: Pc, prev: SUBSET Entry, late: BOOLEAN, reused: SUBSET Entry,
              pending: SUBSET Sighting, jobs: FewJobs, results: SUBSET Entry,
              joined: FewJoined, skipped: SUBSET Files, launched: BOOLEAN,
              sawPaused: BOOLEAN, woken: BOOLEAN, snap: SUBSET Entry]
BY DEF Locals, FewJobs, FewJoined

LEMMA FewOfThem ==
    /\ {} \in FewJobs /\ {} \in FewJoined
    /\ \A e \in Entry : {e} \in FewJoined
    /\ \A J \in FewJobs : \A j : J \ {j} \in FewJobs
    /\ \A J \in FewJobs : \A j \in Sighting :
          Cardinality(J) < Concurrency => J \cup {j} \in FewJobs
<1>1. Concurrency \in Nat /\ Cardinality({}) = 0
  BY ScanAssumption, FS_EmptySet
<1>2. {} \in FewJobs /\ {} \in FewJoined
  BY <1>1 DEF FewJobs, FewJoined
<1>3. \A e \in Entry : {e} \in FewJoined
  <2>1. \A e : Cardinality({e}) = 1
    BY FS_Singleton
  <2> QED BY <2>1 DEF FewJoined
<1>4. ASSUME NEW J \in FewJobs, NEW j
      PROVE  J \ {j} \in FewJobs
  <2>1. J \in SUBSET Sighting /\ Cardinality(J) <= Concurrency
    BY DEF FewJobs
  <2>2. IsFiniteSet(J)
    BY <2>1, SightingsAreFinite
  <2>3. Cardinality(J \ {j}) <= Cardinality(J) /\ Cardinality(J \ {j}) \in Nat
    <3>1. J \ {j} \in SUBSET J
      OBVIOUS
    <3>2. Cardinality(J \ {j}) <= Cardinality(J) /\ IsFiniteSet(J \ {j})
      BY <2>2, <3>1, FS_Subset
    <3> QED BY <3>2, FS_CardinalityType
  <2>4. Cardinality(J) \in Nat
    BY <2>2, FS_CardinalityType
  <2> QED BY <1>1, <2>1, <2>3, <2>4 DEF FewJobs
<1>5. ASSUME NEW J \in FewJobs, NEW j \in Sighting, Cardinality(J) < Concurrency
      PROVE  J \cup {j} \in FewJobs
  <2>1. J \in SUBSET Sighting
    BY DEF FewJobs
  <2>2. IsFiniteSet(J)
    BY <2>1, SightingsAreFinite
  <2>3. Cardinality(J) \in Nat
    BY <2>2, FS_CardinalityType
  <2>4. Cardinality(J \cup {j}) = IF j \in J THEN Cardinality(J) ELSE Cardinality(J) + 1
    BY <2>2, FS_AddElement
  <2> QED BY <1>1, <1>5, <2>1, <2>3, <2>4 DEF FewJobs
<1> QED BY <1>2, <1>3, <1>4, <1>5

LEMMA TaskType ==
    ASSUME NEW x \in Locals
    PROVE  /\ x.pc \in Pc
           /\ x.prev \subseteq Entry /\ x.reused \subseteq Entry /\ x.results \subseteq Entry
           /\ x.joined \subseteq Entry /\ x.snap \subseteq Entry
           /\ x.pending \subseteq Sighting /\ x.jobs \subseteq Sighting
           /\ x.skipped \subseteq Files
           /\ x.launched \in BOOLEAN /\ x.woken \in BOOLEAN
           /\ x.jobs \in FewJobs /\ x.joined \in FewJoined
BY LocalsAre DEF FewJobs, FewJoined

LEMMA Types ==
    ASSUME IInv
    PROVE  /\ config \in SUBSET Files /\ version \in [Files -> Versions]
           /\ stamp \in [Files -> [Versions -> Stamps]]
           /\ live \in [Entry -> Nat] /\ cache \in SUBSET Entry /\ Served \in SUBSET Entry
           /\ thumbs \in SUBSET (Files \X Versions) /\ newest \in Scans
           /\ task \in [Scans -> Locals] /\ DOMAIN task = Scans
           /\ \A s \in Scans : task[s] \in Locals /\ Tidy(task[s])
           /\ cancelled \in SUBSET Scans /\ paused \in SUBSET Scans
           /\ done \in [Scans -> Nat] /\ clobbered \in SUBSET Scans
BY DEF IInv, TypeOK, Served

LEMMA StampedNow ==
    ASSUME IInv, NEW f \in Files
    PROVE  Stamp(f) \in Stamps /\ version[f] \in 1..version[f]
<1>1. /\ version \in [Files -> Versions]
      /\ stamp \in [Files -> [Versions -> Stamps]]
  BY Types
<1>2. version[f] \in Versions /\ stamp[f] \in [Versions -> Stamps]
  BY <1>1
<1>3. Stamp(f) \in Stamps
  BY <1>2 DEF Stamp
<1>4. version[f] \in 1..version[f]
  BY <1>2 DEF Versions
<1> QED BY <1>3, <1>4

LEMMA OneTask ==
    ASSUME IInv, NEW s \in Scans, NEW y, task' = [task EXCEPT ![s] = y]
    PROVE  task'[s] = y /\ \A o \in Scans \ {s} : task'[o] = task[o]
BY Types

\* What the rest of the system needs of a step of one task for the invariant.
LEMMA TaskKeeps ==
    ASSUME IInv, NEW s \in Scans, NEW y \in Locals, task' = [task EXCEPT ![s] = y], Tidy(y),
           \A e \in Entries(y) : Sound(e), \A j \in ToHash(y) : Past(j),
           \A e \in Served' \cup cache' : Sound(e), NewestIsParted',
           config' \in SUBSET Files, version' = version, stamp' = stamp, newest' \in Scans,
           live' \in [Entry -> Nat], cache' \in SUBSET Entry,
           thumbs' \in SUBSET (Files \X Versions), done' \in [Scans -> Nat],
           cancelled' \in SUBSET Scans, paused' \in SUBSET Scans, clobbered' \in SUBSET Scans
    PROVE  IInv'
<1>1. task'[s] = y /\ \A o \in Scans \ {s} : task'[o] = task[o]
  BY OneTask
<1>2. TypeOK'
  <2>1. /\ version \in [Files -> Versions] /\ stamp \in [Files -> [Versions -> Stamps]]
        /\ task' \in [Scans -> Locals]
    BY Types
  <2> QED BY <2>1 DEF TypeOK
<1>3. \A o \in Scans : Tidy(task'[o])
  BY <1>1, Types
<1>4. AllSound'
  <2>1. \A e : Sound(e) => Sound(e)'
    BY DEF Sound
  <2>2. \A j : Past(j) => Past(j)'
    BY DEF Past
  <2>3. ASSUME NEW o \in Scans
        PROVE  /\ \A e \in Entries(task'[o]) : Sound(e)
               /\ \A j \in ToHash(task'[o]) : Past(j)
    <3>1. CASE o = s
      BY <1>1, <3>1
    <3>2. CASE o # s
      BY <1>1, <3>2 DEF IInv, AllSound
    <3> QED BY <3>1, <3>2
  <2> QED BY <2>1, <2>2, <2>3 DEF AllSound, Entries, ToHash
<1> QED BY <1>2, <1>3, <1>4 DEF IInv, Tidy

\* A step of a scan that is not the newest leaves what that one published, or
\* marks it.
LEMMA OthersKeepParted ==
    ASSUME IInv, NEW s \in Scans \ {newest}, NEW y, task' = [task EXCEPT ![s] = y],
           UNCHANGED <<config, newest>>,
           (live' = live /\ clobbered' = clobbered) \/ Clobber(s)
    PROVE  NewestIsParted'
<1>1. newest \in Scans /\ task'[newest] = task[newest]
  BY Types, OneTask
<1>2. CASE live' = live /\ clobbered' = clobbered
  <2>1. Served' = Served
    BY <1>2 DEF Served
  <2> QED BY <1>1, <1>2, <2>1 DEF IInv, NewestIsParted, Parted, ToHash
<1>3. CASE Clobber(s)
  <2>1. newest \notin clobbered' => task[newest].pc \in {"idle", "begun", "publish"}
    BY <1>1, <1>3 DEF Clobber
  <2> QED BY <1>1, <2>1 DEF IInv, NewestIsParted, Parted, ToHash
<1> QED BY <1>2, <1>3

\* A step of one task that does not write the live index and of what it holds
\* forgets nothing, unless it gives up.
Quiet(x, y) ==
    /\ y \in Locals /\ Tidy(y)
    /\ y.pc = "publish" <=> x.pc = "publish"
    /\ y.reused = x.reused
    /\ y.pc \notin {"idle", "begun", "bailed"} =>
          /\ x.pc \notin {"idle", "begun", "bailed"}
          /\ \A V, C : Parted(x, V, C) => Parted(y, V, C)

LEMMA QuietKeeps ==
    ASSUME IInv, NEW s \in Scans, NEW y, Quiet(task[s], y), task' = [task EXCEPT ![s] = y],
           \A e \in Entries(y) : Sound(e), \A j \in ToHash(y) : Past(j),
           UNCHANGED <<config, version, stamp, live, newest, done, clobbered>>,
           cache' \subseteq Served \cup cache, thumbs' \in SUBSET (Files \X Versions),
           cancelled' \in SUBSET Scans, paused' \in SUBSET Scans
    PROVE  IInv'
<1>1. Served' = Served
  BY DEF Served
<1>2. NewestIsParted'
  <2>1. CASE s # newest
    BY <2>1, OthersKeepParted
  <2>2. CASE s = newest
    <3>1. newest' = newest /\ task'[newest] = y /\ config' = config /\ live' = live
      BY <2>2, OneTask
    <3>2. y.pc = "publish" => Parted(y, y.reused, config)
      BY <2>2 DEF Quiet, IInv, NewestIsParted
    <3>3. y.pc \notin {"idle", "begun", "publish", "bailed"} /\ newest \notin clobbered
          => Parted(y, Served, config) /\ \A e \in Served : live[e] = 1
      BY <2>2 DEF Quiet, IInv, NewestIsParted
    <3> QED BY <1>1, <3>1, <3>2, <3>3 DEF NewestIsParted, Parted, ToHash
  <2> QED BY <2>1, <2>2
<1>3. /\ config' \in SUBSET Files /\ newest' \in Scans /\ live' \in [Entry -> Nat]
      /\ cache' \in SUBSET Entry /\ done' \in [Scans -> Nat] /\ clobbered' \in SUBSET Scans
  BY Types
<1>4. \A e \in Served' \cup cache' : Sound(e)
  BY <1>1 DEF IInv, AllSound
<1> QED BY <1>2, <1>3, <1>4, TaskKeeps DEF Quiet

\* What a task held was sound.
LEMMA Held ==
    ASSUME IInv, NEW s \in Scans
    PROVE  /\ task[s] \in Locals /\ Tidy(task[s])
           /\ \A e \in Entries(task[s]) : Sound(e)
           /\ \A j \in ToHash(task[s]) : Past(j)
BY Types DEF IInv, AllSound

-----------------------------------------------------------------------------
(* Steps that only move the task on.                                       *)

Alike(x, y) ==
    /\ y \in Locals
    /\ y.prev = x.prev /\ y.reused = x.reused /\ y.pending = x.pending /\ y.jobs = x.jobs
    /\ y.results = x.results /\ y.joined = x.joined /\ y.skipped = x.skipped
    /\ y.launched = x.launched /\ y.snap = x.snap

LEMMA AlikeIsQuiet ==
    ASSUME NEW x, NEW y, Alike(x, y), Tidy(y), y.pc = "publish" <=> x.pc = "publish",
           y.pc \notin {"idle", "begun", "bailed"} => x.pc \notin {"idle", "begun", "bailed"}
    PROVE  /\ Quiet(x, y)
           /\ Entries(y) = Entries(x) /\ ToHash(y) = ToHash(x)
<1>1. Entries(y) = Entries(x) /\ ToHash(y) = ToHash(x)
  BY DEF Alike, Entries, ToHash
<1>2. \A V, C : Parted(x, V, C) => Parted(y, V, C)
  BY <1>1 DEF Alike, Parted
<1> QED BY <1>1, <1>2 DEF Alike, Quiet

LEMMA AlikeKeeps ==
    ASSUME IInv, NEW s \in Scans, NEW y, Alike(task[s], y), Tidy(y),
           task' = [task EXCEPT ![s] = y],
           y.pc = "publish" <=> task[s].pc = "publish",
           y.pc \notin {"idle", "begun", "bailed"}
               => task[s].pc \notin {"idle", "begun", "bailed"},
           UNCHANGED <<config, version, stamp, live, cache, thumbs, newest, done, clobbered>>,
           cancelled' \in SUBSET Scans, paused' \in SUBSET Scans
    PROVE  IInv'
<1>1. Quiet(task[s], y) /\ Entries(y) = Entries(task[s]) /\ ToHash(y) = ToHash(task[s])
  BY AlikeIsQuiet
<1>2. /\ \A e \in Entries(y) : Sound(e)
      /\ \A j \in ToHash(y) : Past(j)
  BY <1>1, Held
<1>3. cache' \subseteq Served \cup cache /\ thumbs' \in SUBSET (Files \X Versions)
  BY Types
<1> QED BY <1>1, <1>2, <1>3, QuietKeeps

LEMMA Woken ==
    ASSUME NEW x \in Locals, NEW w \in BOOLEAN
    PROVE  /\ Alike(x, [x EXCEPT !.woken = w])
           /\ [x EXCEPT !.woken = w].pc = x.pc
BY LocalsAre DEF Alike

\* A task whose pc moves, and one whose record of the pause or of a wakeup is written as well.
MovedTo(x, pc) == [x EXCEPT !.pc = pc]

SawPause(x, pc, b) == [x EXCEPT !.pc = pc, !.sawPaused = b]

WithWoken(x, pc, b) == [x EXCEPT !.pc = pc, !.woken = b]

LEMMA MovedOn ==
    ASSUME NEW x \in Locals, NEW pc \in Pc
    PROVE  Alike(x, MovedTo(x, pc)) /\ MovedTo(x, pc).pc = pc
BY LocalsAre DEF Alike, MovedTo

LEMMA MovedOnWith ==
    ASSUME NEW x \in Locals, NEW pc \in Pc, NEW b \in BOOLEAN
    PROVE  /\ Alike(x, SawPause(x, pc, b)) /\ SawPause(x, pc, b).pc = pc
           /\ Alike(x, WithWoken(x, pc, b)) /\ WithWoken(x, pc, b).pc = pc
<1>1. SawPause(x, pc, b).pc = pc /\ WithWoken(x, pc, b).pc = pc
  BY LocalsAre DEF SawPause, WithWoken
<1>2. Alike(x, SawPause(x, pc, b))
  BY LocalsAre DEF Alike, SawPause
<1>3. Alike(x, WithWoken(x, pc, b))
  BY LocalsAre DEF Alike, WithWoken
<1> QED BY <1>1, <1>2, <1>3

LEMMA WakeKeeps ==
    ASSUME IInv, CancelScan \/ ResumeScan
    PROVE  IInv'
<1> DEFINE x == task[newest]
           w == x.woken \/ x.pc = "select"
           y == [x EXCEPT !.woken = w]
<1>1. x \in Locals /\ Tidy(x) /\ newest \in Scans
  BY Types
<1>2. w \in BOOLEAN
  OBVIOUS
<1>3. Alike(x, y) /\ y.pc = x.pc
  BY <1>1, <1>2, Woken
<1>4. Tidy(y)
  BY <1>1, <1>3 DEF Tidy, Alike
<1>5. task' = [task EXCEPT ![newest] = y]
  BY <1>1 DEF CancelScan, ResumeScan
<1>6. /\ UNCHANGED <<config, version, stamp, live, cache, thumbs, newest, done, clobbered>>
      /\ cancelled' \in SUBSET Scans /\ paused' \in SUBSET Scans
  BY Types DEF CancelScan, ResumeScan
<1> QED
  <2> HIDE DEF y
  <2> QED BY <1>1, <1>3, <1>4, <1>5, <1>6, AlikeKeeps

\* Nothing happens to the tasks.
LEMMA StillKeeps ==
    ASSUME IInv, PauseScan \/ UNCHANGED vars
    PROVE  IInv'
<1> DEFINE x == task[newest]
<1>1. x \in Locals /\ Tidy(x) /\ newest \in Scans
  BY Types
<1>2. Alike(x, x)
  BY <1>1 DEF Alike
<1>3. task' = [task EXCEPT ![newest] = x]
  BY <1>1, Types DEF PauseScan, vars
<1>4. /\ UNCHANGED <<config, version, stamp, live, cache, thumbs, newest, done, clobbered>>
      /\ cancelled' \in SUBSET Scans /\ paused' \in SUBSET Scans
  BY Types DEF PauseScan, vars
<1> QED
  <2> HIDE DEF x
  <2>1. x = task[newest]
    BY DEF x
  <2> QED BY <1>1, <1>2, <1>3, <1>4, <2>1, AlikeKeeps

LEMMA LoopHeadKeeps ==
    ASSUME IInv, NEW s \in Scans, LoopHead(s)
    PROVE  IInv'
<1> DEFINE x == task[s]
<1>1. x \in Locals /\ Tidy(x) /\ x.pc = "head"
  BY Types DEF LoopHead
<1>2. /\ UNCHANGED <<config, version, stamp, live, cache, thumbs, newest, done, clobbered>>
      /\ cancelled' \in SUBSET Scans /\ paused' \in SUBSET Scans
  BY Types DEF LoopHead
<1>3. CASE x.launched /\ x.jobs = {} /\ x.results = {}
  <2> DEFINE pc == IF s \in cancelled THEN "bailed" ELSE "snapshot"
             y == MovedTo(x, pc)
  <2>1. pc \in Pc /\ pc \in {"bailed", "snapshot"}
    BY DEF Pc, PcDone
  <2> HIDE DEF pc
  <2>2. Alike(x, y) /\ y.pc = pc
    BY <1>1, <2>1, MovedOn
  <2>3. task' = [task EXCEPT ![s] = y]
    BY <1>3 DEF LoopHead, pc, MovedTo
  <2>4. Tidy(y)
    BY <1>1, <1>3, <2>1, <2>2 DEF Tidy, Alike
  <2> HIDE DEF y
  <2> QED BY <1>1, <1>2, <2>1, <2>2, <2>3, <2>4, AlikeKeeps
<1>4. CASE ~(x.launched /\ x.jobs = {} /\ x.results = {})
  <2> DEFINE b == s \in paused
             y == SawPause(x, "enter", b)
  <2>1. "enter" \in Pc /\ b \in BOOLEAN
    BY DEF Pc
  <2> HIDE DEF b
  <2>2. Alike(x, y) /\ y.pc = "enter"
    BY <1>1, <2>1, MovedOnWith
  <2>3. task' = [task EXCEPT ![s] = y]
    BY <1>4 DEF LoopHead, SawPause, b
  <2>4. Tidy(y)
    BY <1>1, <2>2 DEF Tidy, Alike
  <2> HIDE DEF y
  <2> QED BY <1>1, <1>2, <2>2, <2>3, <2>4, AlikeKeeps
<1> QED BY <1>3, <1>4

LEMMA EnterSelectKeeps ==
    ASSUME IInv, NEW s \in Scans, EnterSelect(s)
    PROVE  IInv'
<1> DEFINE x == task[s]
           y == WithWoken(x, "select", FALSE)
<1>1. x \in Locals /\ Tidy(x) /\ x.pc = "enter"
  BY Types DEF EnterSelect
<1>2. /\ UNCHANGED <<config, version, stamp, live, cache, thumbs, newest, done, clobbered>>
      /\ cancelled' \in SUBSET Scans /\ paused' \in SUBSET Scans
      /\ task' = [task EXCEPT ![s] = y]
  BY Types DEF EnterSelect, WithWoken
<1>3. "select" \in Pc /\ FALSE \in BOOLEAN
  BY DEF Pc
<1>4. Alike(x, y) /\ y.pc = "select"
  BY <1>1, <1>3, MovedOnWith
<1>5. Tidy(y)
  BY <1>1, <1>4 DEF Tidy, Alike
<1> HIDE DEF y
<1> QED BY <1>1, <1>2, <1>4, <1>5, AlikeKeeps

LEMMA SelectResumedKeeps ==
    ASSUME IInv, NEW s \in Scans, SelectResumed(s)
    PROVE  IInv'
<1> DEFINE x == task[s]
           y == MovedTo(x, "head")
<1>1. x \in Locals /\ Tidy(x) /\ x.pc = "select"
  BY Types DEF SelectResumed
<1>2. /\ UNCHANGED <<config, version, stamp, live, cache, thumbs, newest, done, clobbered>>
      /\ cancelled' \in SUBSET Scans /\ paused' \in SUBSET Scans
      /\ task' = [task EXCEPT ![s] = y]
  BY Types DEF SelectResumed, MovedTo
<1>3. "head" \in Pc
  BY DEF Pc
<1>4. Alike(x, y) /\ y.pc = "head"
  BY <1>1, <1>3, MovedOn
<1>5. Tidy(y)
  BY <1>1, <1>4 DEF Tidy, Alike
<1> HIDE DEF y
<1> QED BY <1>1, <1>2, <1>4, <1>5, AlikeKeeps

-----------------------------------------------------------------------------
(* Steps in which a file moves from one place to another.                  *)

LEMMA SelectCancelledKeeps ==
    ASSUME IInv, NEW s \in Scans, SelectCancelled(s)
    PROVE  IInv'
<1> DEFINE x == task[s]
           y == [x EXCEPT !.pc = "bailed", !.jobs = {}, !.results = {}, !.pending = {}]
<1>1. x \in Locals /\ Tidy(x) /\ x.pc = "select"
  BY Types DEF SelectCancelled
<1>2. /\ UNCHANGED <<config, version, stamp, live, cache, thumbs, newest, done, clobbered>>
      /\ cancelled' \in SUBSET Scans /\ paused' \in SUBSET Scans
      /\ task' = [task EXCEPT ![s] = y]
  BY Types DEF SelectCancelled
<1>3. "bailed" \in Pc /\ {} \in FewJobs
  BY FewOfThem DEF Pc, PcDone
<1>4. /\ y \in Locals /\ y.pc = "bailed" /\ y.jobs = {} /\ y.results = {} /\ y.pending = {}
      /\ y.prev = x.prev /\ y.reused = x.reused /\ y.joined = x.joined /\ y.snap = x.snap
      /\ y.skipped = x.skipped /\ y.launched = x.launched
  BY <1>1, <1>3, LocalsAre
<1> HIDE DEF y
<1>5. Tidy(y)
  BY <1>1, <1>4 DEF Tidy
<1>6. Quiet(x, y)
  BY <1>1, <1>4, <1>5 DEF Quiet
<1>7. (\A e \in Entries(y) : Sound(e)) /\ \A j \in ToHash(y) : Past(j)
  BY <1>4, Held DEF Entries, ToHash
<1>8. cache' \subseteq Served \cup cache /\ thumbs' \in SUBSET (Files \X Versions)
  BY <1>2, Types
<1> QED BY <1>2, <1>6, <1>7, <1>8, QuietKeeps

LEMMA SelectJoinKeeps ==
    ASSUME IInv, NEW s \in Scans, SelectJoin(s)
    PROVE  IInv'
<1> DEFINE x == task[s]
<1>1. /\ x \in Locals /\ Tidy(x) /\ x.pc = "select"
      /\ UNCHANGED <<config, version, stamp, live, cache, thumbs, newest, done, clobbered>>
      /\ cancelled' \in SUBSET Scans /\ paused' \in SUBSET Scans
  BY Types DEF SelectJoin
<1>2. PICK e \in x.results :
          task' = [task EXCEPT ![s] = [x EXCEPT !.pc = "push", !.results = @ \ {e},
                                                !.joined = {e}]]
  BY DEF SelectJoin
<1> DEFINE y == [x EXCEPT !.pc = "push", !.results = @ \ {e}, !.joined = {e}]
<1>3. task' = [task EXCEPT ![s] = y]
  BY <1>2
<1>4. x.results \ {e} \in SUBSET Entry /\ {e} \in FewJoined
  BY <1>1, <1>2, TaskType, FewOfThem
<1>5. /\ y \in Locals /\ y.pc = "push" /\ y.jobs = x.jobs /\ y.results = x.results \ {e}
      /\ y.pending = x.pending /\ y.prev = x.prev /\ y.reused = x.reused /\ y.joined = {e}
      /\ y.snap = x.snap /\ y.skipped = x.skipped /\ y.launched = x.launched
  <2> DEFINE R == x.results \ {e}
             J == {e}
  <2>1. x \in Locals /\ R \in SUBSET Entry /\ J \in FewJoined
    BY <1>1, <1>4
  <2>2. y = [x EXCEPT !.pc = "push", !.results = R, !.joined = J]
    OBVIOUS
  <2> HIDE DEF x, y, R, J
  <2>3. /\ y \in Locals /\ y.pc = "push" /\ y.jobs = x.jobs /\ y.results = R
        /\ y.pending = x.pending /\ y.prev = x.prev /\ y.reused = x.reused
        /\ y.joined = J /\ y.snap = x.snap /\ y.skipped = x.skipped
        /\ y.launched = x.launched
    BY <2>1, <2>2, LocalsAre DEF Pc
  <2> QED BY <2>3 DEF R, J
<1> HIDE DEF y
<1>6. x.joined = {}
  BY <1>1 DEF Tidy
<1>7. Tidy(y)
  BY <1>1, <1>5 DEF Tidy
<1>8. y.results \cup y.joined = x.results \cup x.joined /\ y.results \cap y.joined = {}
  BY <1>2, <1>5, <1>6
<1>9. ToHash(y) = ToHash(x)
  BY <1>5 DEF ToHash
<1>10. \A V, C : Parted(x, V, C) => Parted(y, V, C)
  <2>1. ASSUME NEW V, NEW C, Parted(x, V, C)
        PROVE  Parted(y, V, C)
    <3>1. V \cup y.results \cup y.joined = V \cup x.results \cup x.joined
      BY <1>8
    <3> QED BY <1>5, <1>8, <1>9, <2>1, <3>1 DEF Parted
  <2> QED BY <2>1
<1>11. Quiet(x, y)
  BY <1>1, <1>5, <1>7, <1>10 DEF Quiet
<1>12. (\A a \in Entries(y) : Sound(a)) /\ \A j \in ToHash(y) : Past(j)
  BY <1>5, <1>8, <1>9, Held DEF Entries
<1>13. cache' \subseteq Served \cup cache /\ thumbs' \in SUBSET (Files \X Versions)
  BY <1>1, Types
<1> QED BY <1>1, <1>3, <1>11, <1>12, <1>13, QuietKeeps

LEMMA SelectJoinFailedKeeps ==
    ASSUME IInv, NEW s \in Scans, SelectJoinFailed(s)
    PROVE  IInv'
<1> DEFINE x == task[s]
<1>1. /\ x \in Locals /\ Tidy(x) /\ x.pc = "select"
      /\ UNCHANGED <<config, version, stamp, live, cache, thumbs, newest, done, clobbered>>
      /\ cancelled' \in SUBSET Scans /\ paused' \in SUBSET Scans
  BY Types DEF SelectJoinFailed
<1>2. PICK j \in x.jobs :
          task' = [task EXCEPT ![s] = [x EXCEPT !.pc = "head", !.jobs = @ \ {j},
                                                !.skipped = @ \cup {j.file}]]
  BY DEF SelectJoinFailed
<1> DEFINE y == [x EXCEPT !.pc = "head", !.jobs = @ \ {j}, !.skipped = @ \cup {j.file}]
<1>3. task' = [task EXCEPT ![s] = y]
  BY <1>2
<1>4. /\ x.jobs \ {j} \in FewJobs
      /\ x.skipped \cup {j.file} \in SUBSET Files
  <2>1. j \in Sighting /\ x.skipped \in SUBSET Files /\ x.jobs \in FewJobs
    BY <1>1, TaskType
  <2> QED BY <2>1, FewOfThem DEF Sighting
<1>5. /\ y \in Locals /\ y.pc = "head" /\ y.jobs = x.jobs \ {j} /\ y.results = x.results
      /\ y.pending = x.pending /\ y.prev = x.prev /\ y.reused = x.reused
      /\ y.joined = x.joined /\ y.snap = x.snap /\ y.skipped = x.skipped \cup {j.file}
      /\ y.launched = x.launched
  <2> DEFINE J == x.jobs \ {j}
             K == x.skipped \cup {j.file}
  <2>1. x \in Locals /\ J \in FewJobs /\ K \in SUBSET Files
    BY <1>1, <1>4
  <2>2. y = [x EXCEPT !.pc = "head", !.jobs = J, !.skipped = K]
    OBVIOUS
  <2> HIDE DEF x, y, J, K
  <2>3. /\ y \in Locals /\ y.pc = "head" /\ y.jobs = J /\ y.results = x.results
        /\ y.pending = x.pending /\ y.prev = x.prev /\ y.reused = x.reused
        /\ y.joined = x.joined /\ y.snap = x.snap /\ y.skipped = K
        /\ y.launched = x.launched
    BY <2>1, <2>2, LocalsAre DEF Pc
  <2> QED BY <2>3 DEF J, K
<1> HIDE DEF y
<1>6. Tidy(y)
  BY <1>1, <1>5 DEF Tidy
<1>7. \A V, C : Parted(x, V, C) => Parted(y, V, C)
  <2>1. ASSUME NEW V, NEW C, Parted(x, V, C)
        PROVE  Parted(y, V, C)
    <3> DEFINE have == V \cup x.results \cup x.joined
    <3>1. /\ OnePer(have) /\ OnePer(ToHash(x))
          /\ V \cap (x.results \cup x.joined) = {} /\ x.results \cap x.joined = {}
          /\ x.pending \cap x.jobs = {}
          /\ FilesOf(have) \cap FilesOf(ToHash(x)) = {}
          /\ x.skipped \cap (FilesOf(have) \cup FilesOf(ToHash(x))) = {}
          /\ C = x.skipped \cup FilesOf(have) \cup FilesOf(ToHash(x))
      BY <2>1 DEF Parted
    <3>2. j \in ToHash(x) /\ ToHash(y) = ToHash(x) \ {j}
      BY <1>5, <3>1 DEF ToHash
    <3>3. FilesOf(ToHash(y)) = FilesOf(ToHash(x)) \ {j.file} /\ j.file \in FilesOf(ToHash(x))
      BY <3>1, <3>2 DEF FilesOf, OnePer
    <3>4. OnePer(ToHash(y)) /\ y.pending \cap y.jobs = {}
      BY <1>5, <3>1, <3>2 DEF OnePer
    <3>5. have = V \cup y.results \cup y.joined
      BY <1>5
    <3>6. /\ V \cap (y.results \cup y.joined) = {} /\ y.results \cap y.joined = {}
          /\ y.skipped = x.skipped \cup {j.file}
      BY <1>5, <3>1
    <3> DEFINE F == FilesOf(have)
               T == FilesOf(ToHash(x))
    <3>7. /\ F \cap T = {} /\ x.skipped \cap (F \cup T) = {} /\ C = x.skipped \cup F \cup T
          /\ j.file \in T
      BY <3>1, <3>3
    <3>8. FilesOf(ToHash(y)) = T \ {j.file} /\ F = FilesOf(V \cup y.results \cup y.joined)
      BY <3>3, <3>5
    <3>9. OnePer(V \cup y.results \cup y.joined)
      BY <3>1, <3>5
    <3> HIDE DEF have, F, T, x
    <3>10. /\ F \cap (T \ {j.file}) = {}
           /\ y.skipped \cap (F \cup (T \ {j.file})) = {}
           /\ C = y.skipped \cup F \cup (T \ {j.file})
      BY <3>6, <3>7
    <3> QED BY <3>4, <3>6, <3>8, <3>9, <3>10 DEF Parted
  <2> QED BY <2>1
<1>8. Quiet(x, y)
  BY <1>1, <1>5, <1>6, <1>7 DEF Quiet
<1>9. (\A a \in Entries(y) : Sound(a)) /\ \A i \in ToHash(y) : Past(i)
  BY <1>5, Held DEF Entries, ToHash
<1>10. cache' \subseteq Served \cup cache /\ thumbs' \in SUBSET (Files \X Versions)
  BY <1>1, Types
<1> QED BY <1>1, <1>3, <1>8, <1>9, <1>10, QuietKeeps

LEMMA SelectLaunchKeeps ==
    ASSUME IInv, NEW s \in Scans, SelectLaunch(s)
    PROVE  IInv'
<1> DEFINE x == task[s]
<1>1. /\ x \in Locals /\ Tidy(x) /\ x.pc = "select" /\ ~x.launched
      /\ Cardinality(x.jobs) < Concurrency
      /\ UNCHANGED <<config, version, stamp, live, cache, thumbs, newest, done, clobbered>>
      /\ cancelled' \in SUBSET Scans /\ paused' \in SUBSET Scans
      /\ cache' \subseteq Served \cup cache /\ thumbs' \in SUBSET (Files \X Versions)
  BY Types DEF SelectLaunch, CanLaunch
<1>2. CASE x.pending = {}
  <2> DEFINE y == [x EXCEPT !.pc = "head", !.launched = TRUE]
  <2>1. task' = [task EXCEPT ![s] = y]
    BY <1>2 DEF SelectLaunch
  <2>2. /\ y \in Locals /\ y.pc = "head" /\ y.jobs = x.jobs /\ y.results = x.results
        /\ y.pending = x.pending /\ y.prev = x.prev /\ y.reused = x.reused
        /\ y.joined = x.joined /\ y.snap = x.snap /\ y.skipped = x.skipped
        /\ y.launched = TRUE
    BY <1>1, LocalsAre DEF Pc
  <2> HIDE DEF y
  <2>3. Tidy(y)
    BY <1>1, <1>2, <2>2 DEF Tidy
  <2>4. ToHash(y) = ToHash(x) /\ Entries(y) = Entries(x)
    BY <2>2 DEF ToHash, Entries
  <2>5. \A V, C : Parted(x, V, C) => Parted(y, V, C)
    BY <2>2, <2>4 DEF Parted
  <2>6. Quiet(x, y)
    BY <1>1, <2>2, <2>3, <2>5 DEF Quiet
  <2>7. (\A a \in Entries(y) : Sound(a)) /\ \A j \in ToHash(y) : Past(j)
    BY <2>4, Held
  <2> QED BY <1>1, <2>1, <2>6, <2>7, QuietKeeps
<1>3. CASE x.pending # {}
  <2>1. PICK p \in x.pending :
            task' = [task EXCEPT ![s] = [x EXCEPT !.pc = "head", !.pending = @ \ {p},
                                                  !.jobs = @ \cup {p}]]
    BY <1>3 DEF SelectLaunch
  <2> DEFINE y == [x EXCEPT !.pc = "head", !.pending = @ \ {p}, !.jobs = @ \cup {p}]
  <2>2. task' = [task EXCEPT ![s] = y]
    BY <2>1
  <2>3. x.pending \ {p} \in SUBSET Sighting /\ x.jobs \cup {p} \in FewJobs
    <3>1. p \in Sighting /\ x.jobs \in FewJobs
      BY <1>1, TaskType
    <3> QED BY <1>1, <3>1, TaskType, FewOfThem
  <2>4. /\ y \in Locals /\ y.pc = "head" /\ y.jobs = x.jobs \cup {p} /\ y.results = x.results
        /\ y.pending = x.pending \ {p} /\ y.prev = x.prev /\ y.reused = x.reused
        /\ y.joined = x.joined /\ y.snap = x.snap /\ y.skipped = x.skipped
        /\ y.launched = x.launched
    <3> DEFINE P == x.pending \ {p}
               J == x.jobs \cup {p}
    <3>1. x \in Locals /\ J \in FewJobs /\ P \in SUBSET Sighting
      BY <1>1, <2>3
    <3>2. y = [x EXCEPT !.pc = "head", !.pending = P, !.jobs = J]
      OBVIOUS
    <3> HIDE DEF x, y, J, P
    <3>3. /\ y \in Locals /\ y.pc = "head" /\ y.jobs = J /\ y.results = x.results
          /\ y.pending = P /\ y.prev = x.prev /\ y.reused = x.reused
          /\ y.joined = x.joined /\ y.snap = x.snap /\ y.skipped = x.skipped
          /\ y.launched = x.launched
      BY <3>1, <3>2, LocalsAre DEF Pc
    <3> QED BY <3>3 DEF J, P
  <2> HIDE DEF y
  <2>5. Tidy(y)
    BY <1>1, <2>4 DEF Tidy
  <2>6. ToHash(y) = ToHash(x) /\ Entries(y) = Entries(x)
    BY <2>4 DEF ToHash, Entries
  <2>7. \A V, C : Parted(x, V, C) => Parted(y, V, C)
    <3>1. x.pending \cap x.jobs = {} => y.pending \cap y.jobs = {}
      BY <2>4
    <3> QED BY <2>4, <2>6, <3>1 DEF Parted
  <2>8. Quiet(x, y)
    BY <1>1, <2>4, <2>5, <2>7 DEF Quiet
  <2>9. (\A a \in Entries(y) : Sound(a)) /\ \A j \in ToHash(y) : Past(j)
    BY <2>6, Held
  <2> QED BY <1>1, <2>2, <2>8, <2>9, QuietKeeps
<1> QED BY <1>2, <1>3

\* The file is hashed as it is now, which is no older than what the walk saw.
LEMMA FinishJobKeeps ==
    ASSUME IInv, NEW s \in Scans, NEW j \in task[s].jobs, FinishJob(s, j)
    PROVE  IInv'
<1> DEFINE x == task[s]
           e == [file |-> j.file, seen |-> j.seen, hash |-> version[j.file]]
           y == [x EXCEPT !.jobs = @ \ {j}, !.results = @ \cup {e}]
<1>1. /\ x \in Locals /\ Tidy(x) /\ j \in Sighting /\ x.jobs \in FewJobs
      /\ x.results \in SUBSET Entry /\ version \in [Files -> Versions]
  BY Types, TaskType
<1>2. /\ UNCHANGED <<config, version, stamp, live, cache, newest, done, clobbered>>
      /\ cancelled' \in SUBSET Scans /\ paused' \in SUBSET Scans
      /\ cache' \subseteq Served \cup cache
      /\ task' = [task EXCEPT ![s] = y] /\ thumbs' = thumbs \cup {Content(e)}
  BY Types DEF FinishJob
<1>3. e \in Entry /\ e.file = j.file /\ e.seen = j.seen /\ e.hash = version[j.file]
  BY <1>1 DEF Entry, Sighting
<1>4. Content(e) \in Files \X Versions
  BY <1>1, <1>3 DEF Content, Entry
<1>5. thumbs' \in SUBSET (Files \X Versions)
  BY <1>2, <1>4, Types
<1>6. Sound(e)
  <2>1. Past(j)
    BY Held DEF ToHash
  <2>2. version[j.file] \in Nat
    BY <1>1 DEF Sighting, Versions
  <2> QED BY <1>3, <2>1, <2>2 DEF Sound, Past
<1> HIDE DEF e
<1>7. /\ y \in Locals /\ y.pc = x.pc /\ y.jobs = x.jobs \ {j} /\ y.results = x.results \cup {e}
      /\ y.pending = x.pending /\ y.prev = x.prev /\ y.reused = x.reused
      /\ y.joined = x.joined /\ y.snap = x.snap /\ y.skipped = x.skipped
      /\ y.launched = x.launched
  <2> DEFINE J == x.jobs \ {j}
             R == x.results \cup {e}
  <2>1. x \in Locals /\ J \in FewJobs /\ R \in SUBSET Entry
    BY <1>1, <1>3, FewOfThem
  <2>2. y = [x EXCEPT !.jobs = J, !.results = R]
    OBVIOUS
  <2> HIDE DEF x, y, J, R
  <2>3. /\ y \in Locals /\ y.pc = x.pc /\ y.jobs = J /\ y.results = R
        /\ y.pending = x.pending /\ y.prev = x.prev /\ y.reused = x.reused
        /\ y.joined = x.joined /\ y.snap = x.snap /\ y.skipped = x.skipped
        /\ y.launched = x.launched
    BY <2>1, <2>2, LocalsAre
  <2> QED BY <2>3 DEF J, R
<1> HIDE DEF y
<1>8. x.pc \notin {"idle", "begun", "publish", "snapshot", "prune", "done"}
  BY <1>1 DEF Tidy
<1>9. Tidy(y)
  BY <1>1, <1>7, <1>8 DEF Tidy
<1>10. \A V, C : Parted(x, V, C) => Parted(y, V, C)
  <2>1. ASSUME NEW V, NEW C, Parted(x, V, C)
        PROVE  Parted(y, V, C)
    <3> DEFINE have == V \cup x.results \cup x.joined
               here == V \cup y.results \cup y.joined
    <3>1. /\ OnePer(have) /\ OnePer(ToHash(x))
          /\ V \cap (x.results \cup x.joined) = {} /\ x.results \cap x.joined = {}
          /\ x.pending \cap x.jobs = {}
          /\ FilesOf(have) \cap FilesOf(ToHash(x)) = {}
          /\ x.skipped \cap (FilesOf(have) \cup FilesOf(ToHash(x))) = {}
          /\ C = x.skipped \cup FilesOf(have) \cup FilesOf(ToHash(x))
      BY <2>1 DEF Parted
    <3>2. j \in ToHash(x) /\ ToHash(y) = ToHash(x) \ {j}
      BY <1>7, <3>1 DEF ToHash
    <3>3. j.file \in FilesOf(ToHash(x)) /\ FilesOf(ToHash(y)) = FilesOf(ToHash(x)) \ {j.file}
      BY <3>1, <3>2 DEF FilesOf, OnePer
    <3>4. here = have \cup {e} /\ FilesOf(here) = FilesOf(have) \cup {j.file}
      BY <1>3, <1>7 DEF FilesOf
    <3>5. e \notin have /\ \A a \in have : a.file # j.file
      BY <1>3, <3>1, <3>3 DEF FilesOf
    <3>6. /\ V \cap (y.results \cup y.joined) = {} /\ y.results \cap y.joined = {}
      BY <1>7, <3>1, <3>5
    <3>7. OnePer(here)
      BY <1>3, <3>1, <3>4, <3>5 DEF OnePer
    <3>8. OnePer(ToHash(y)) /\ y.pending \cap y.jobs = {}
      BY <1>7, <3>1, <3>2 DEF OnePer
    <3> HIDE DEF have
    <3>9. /\ FilesOf(here) \cap FilesOf(ToHash(y)) = {}
          /\ y.skipped \cap (FilesOf(here) \cup FilesOf(ToHash(y))) = {}
          /\ C = y.skipped \cup FilesOf(here) \cup FilesOf(ToHash(y))
      BY <1>7, <3>1, <3>3, <3>4
    <3> QED BY <3>6, <3>7, <3>8, <3>9 DEF Parted
  <2> QED BY <2>1
<1>11. Quiet(x, y)
  BY <1>1, <1>7, <1>8, <1>9, <1>10 DEF Quiet
<1>12. (\A a \in Entries(y) : Sound(a)) /\ \A i \in ToHash(y) : Past(i)
  BY <1>6, <1>7, Held DEF Entries, ToHash
<1> QED BY <1>2, <1>5, <1>11, <1>12, QuietKeeps

LEMMA EndKeeps ==
    ASSUME IInv, NEW s \in Scans, Snapshot(s) \/ Prune(s)
    PROVE  IInv'
<1> DEFINE x == task[s]
           pc == IF x.pc = "snapshot" THEN "prune" ELSE "done"
           snap == IF x.pc = "snapshot" THEN Served ELSE {}
           y == [x EXCEPT !.pc = pc, !.snap = snap]
<1>1. x \in Locals /\ Tidy(x) /\ x.pc \in {"snapshot", "prune"}
  BY Types DEF Snapshot, Prune
<1>2. /\ UNCHANGED <<config, version, stamp, live, newest, done, clobbered>>
      /\ cancelled' \in SUBSET Scans /\ paused' \in SUBSET Scans
      /\ cache' \subseteq Served \cup cache /\ thumbs' \in SUBSET (Files \X Versions)
  BY Types DEF Snapshot, Prune
<1>3. task' = [task EXCEPT ![s] = y]
  BY DEF Snapshot, Prune
<1>4. /\ pc \in Pc /\ pc \in {"prune", "done"}
      /\ snap \in SUBSET Entry /\ \A a \in snap : Sound(a)
  BY Types DEF Pc, PcDone, IInv, AllSound
<1> HIDE DEF pc, snap
<1>5. /\ y \in Locals /\ y.pc = pc /\ y.jobs = x.jobs /\ y.results = x.results
      /\ y.pending = x.pending /\ y.prev = x.prev /\ y.reused = x.reused
      /\ y.joined = x.joined /\ y.snap = snap /\ y.skipped = x.skipped
      /\ y.launched = x.launched
  BY <1>1, <1>4, LocalsAre
<1> HIDE DEF y
<1>6. Tidy(y)
  BY <1>1, <1>4, <1>5 DEF Tidy
<1>7. \A V, C : Parted(x, V, C) => Parted(y, V, C)
  BY <1>5 DEF Parted, ToHash
<1>8. Quiet(x, y)
  BY <1>1, <1>4, <1>5, <1>6, <1>7 DEF Quiet
<1>9. (\A a \in Entries(y) : Sound(a)) /\ \A j \in ToHash(y) : Past(j)
  BY <1>4, <1>5, Held DEF Entries, ToHash
<1> QED BY <1>2, <1>3, <1>8, <1>9, QuietKeeps

-----------------------------------------------------------------------------
(* The walk, and what writes to the live index.                            *)

\* What the walk keeps is part of its baseline, for shared files, one entry each.
LEMMA KeptByWalk ==
    ASSUME IInv, NEW prev \in SUBSET Entry,
           NEW keep \in OnePerFile(UNION {Keep(prev, f) : f \in config})
    PROVE  keep \subseteq prev /\ OnePer(keep) /\ FilesOf(keep) \subseteq config
<1> DEFINE K == UNION {Keep(prev, f) : f \in config}
<1>1. ASSUME NEW k \in K
      PROVE  k \in prev /\ k.file \in config
  <2>1. PICK f \in config : k \in Keep(prev, f)
    OBVIOUS
  <2>2. PICK e \in Unchanged(prev, f) : k = [e EXCEPT !.seen = Stamp(f)]
    BY <2>1 DEF Keep
  <2>3. e \in prev /\ e \in Entry /\ e.file = f /\ e.seen = Stamp(f)
    BY DEF Unchanged
  <2>4. [e EXCEPT !.seen = Stamp(f)] = e
    BY <2>3 DEF Entry
  <2> QED BY <2>2, <2>3, <2>4
<1>2. /\ keep \in SUBSET K
      /\ \A f \in {e.file : e \in K} : Cardinality({e \in keep : e.file = f}) = 1
  BY DEF OnePerFile
<1> HIDE DEF K
<1>3. keep \subseteq prev /\ FilesOf(keep) \subseteq config
  BY <1>1, <1>2 DEF FilesOf
<1>4. ASSUME NEW a \in keep, NEW b \in keep, a.file = b.file
      PROVE  a = b
  <2> DEFINE S == {e \in keep : e.file = a.file}
  <2>1. Cardinality(S) = 1
    BY <1>2
  <2>2. S \in SUBSET Entry
    BY <1>3
  <2>3. IsFiniteSet(S)
    BY <2>2, EntriesAreFinite
  <2>4. a \in S /\ b \in S
    BY <1>4
  <2> HIDE DEF S
  <2>5. \E z : S = {z}
    BY <2>1, <2>3, FS_Singleton
  <2> QED BY <2>4, <2>5
<1> QED BY <1>3, <1>4 DEF OnePer

LEMMA WalkKeeps ==
    ASSUME IInv, NEW s \in Scans, Walk(s)
    PROVE  IInv'
<1> DEFINE x == task[s]
           prev == IF x.late THEN Served ELSE x.prev
<1>1. x \in Locals /\ Tidy(x) /\ x.pc = "begun"
  BY Types DEF Walk
<1>2. /\ prev \in SUBSET Entry /\ \A e \in prev : Sound(e)
      /\ config \in SUBSET Files /\ version \in [Files -> Versions]
  BY <1>1, Types, TaskType, Held DEF Entries, IInv, AllSound
<1>3. PICK keep \in OnePerFile(UNION {Keep(prev, f) : f \in config}) :
          /\ task' = [task EXCEPT ![s] =
                [@ EXCEPT !.pc = "publish",
                          !.prev = {},
                          !.late = FALSE,
                          !.reused = keep,
                          !.pending = {[file |-> f, seen |-> Stamp(f)] :
                                          f \in config \ {e.file : e \in keep}}]]
          /\ done' = [done EXCEPT ![s] = Cardinality(keep)]
  BY DEF Walk
<1> DEFINE P == {[file |-> f, seen |-> Stamp(f)] : f \in config \ {e.file : e \in keep}}
           y == [x EXCEPT !.pc = "publish", !.prev = {}, !.late = FALSE, !.reused = keep,
                          !.pending = P]
<1>4. task' = [task EXCEPT ![s] = y]
  BY <1>3
<1> HIDE DEF prev
<1>5. keep \subseteq prev /\ OnePer(keep) /\ FilesOf(keep) \subseteq config
  BY <1>2, KeptByWalk
<1>6. keep \in SUBSET Entry /\ P \in SUBSET Sighting
  <2>1. \A f \in Files : Stamp(f) \in Stamps
    BY StampedNow
  <2> HIDE DEF prev
  <2> QED BY <1>2, <1>5, <2>1 DEF Sighting
<1>7. OnePer(P) /\ FilesOf(P) = config \ FilesOf(keep)
  <2>1. OnePer(P)
    BY DEF OnePer
  <2>2. FilesOf(P) = config \ FilesOf(keep)
    <3>1. \A j \in P : j.file \in config \ FilesOf(keep)
      BY DEF FilesOf
    <3>2. ASSUME NEW f \in config \ FilesOf(keep)
          PROVE  f \in FilesOf(P)
      <4>1. [file |-> f, seen |-> Stamp(f)] \in P
        BY DEF FilesOf
      <4> HIDE DEF P
      <4>2. [file |-> f, seen |-> Stamp(f)].file = f
        OBVIOUS
      <4> QED BY <4>1, <4>2 DEF FilesOf
    <3> HIDE DEF P
    <3>3. FilesOf(P) \subseteq config \ FilesOf(keep)
      <4>1. ASSUME NEW f \in FilesOf(P)
            PROVE  f \in config \ FilesOf(keep)
        <5>1. PICK j \in P : f = j.file
          BY DEF FilesOf
        <5> QED BY <3>1, <5>1
      <4> QED BY <4>1
    <3> QED BY <3>2, <3>3
  <2> QED BY <2>1, <2>2
<1>8. \A j \in P : Past(j)
  <2>1. ASSUME NEW f \in Files
        PROVE  Past([file |-> f, seen |-> Stamp(f)])
    BY StampedNow DEF Past, Stamp
  <2> QED BY <1>2, <2>1
<1> HIDE DEF P
<1>9. /\ y \in Locals /\ y.pc = "publish" /\ y.jobs = x.jobs /\ y.results = x.results
      /\ y.pending = P /\ y.prev = {} /\ y.reused = keep
      /\ y.joined = x.joined /\ y.snap = x.snap /\ y.skipped = x.skipped
      /\ y.launched = x.launched
  BY <1>1, <1>6, LocalsAre DEF Pc
<1> HIDE DEF y
<1>10. x.jobs = {} /\ x.results = {} /\ x.joined = {} /\ x.skipped = {} /\ ~x.launched
  BY <1>1 DEF Tidy
<1>11. Tidy(y)
  BY <1>9, <1>10 DEF Tidy
<1>12. Parted(y, keep, config)
  <2>1. keep \cup y.results \cup y.joined = keep /\ ToHash(y) = P
    BY <1>9, <1>10 DEF ToHash
  <2> QED BY <1>5, <1>7, <1>9, <1>10, <2>1 DEF Parted
<1>13. /\ UNCHANGED <<config, version, stamp, live, cache, thumbs, newest, cancelled, paused, clobbered>>
       /\ done' \in [Scans -> Nat]
  <2>1. Cardinality(keep) \in Nat
    BY <1>6, EntriesAreFinite
  <2> QED BY <1>3, <2>1, Types DEF Walk
<1>14. NewestIsParted'
  <2>1. CASE s = newest
    <3>1. newest' = newest /\ task'[newest] = y /\ config' = config
      BY <1>4, <1>13, <2>1, OneTask
    <3> QED BY <1>9, <1>12, <3>1 DEF NewestIsParted, Parted, ToHash
  <2>2. CASE s # newest
    BY <1>4, <1>13, <2>2, OthersKeepParted
  <2> QED BY <2>1, <2>2
<1>15. (\A e \in Entries(y) : Sound(e)) /\ \A j \in ToHash(y) : Past(j)
  <2>1. \A e \in x.snap : Sound(e)
    BY Held DEF Entries
  <2> QED BY <1>2, <1>5, <1>8, <1>9, <1>10, <2>1 DEF Entries, ToHash
<1>16. \A e \in Served' \cup cache' : Sound(e)
  BY <1>13 DEF IInv, AllSound, Served
<1> QED BY <1>4, <1>9, <1>11, <1>13, <1>14, <1>15, <1>16, Types, TaskKeeps

LEMMA PublishKeeps ==
    ASSUME IInv, NEW s \in Scans, Publish(s)
    PROVE  IInv'
<1> DEFINE x == task[s]
           y == [x EXCEPT !.pc = "head", !.reused = {}]
<1>1. x \in Locals /\ Tidy(x) /\ x.pc = "publish" /\ x.reused \in SUBSET Entry
  BY Types, TaskType DEF Publish
<1>2. /\ UNCHANGED <<config, version, stamp, cache, thumbs, newest, cancelled, paused, done>>
      /\ task' = [task EXCEPT ![s] = y] /\ Clobber(s)
      /\ live' = [e \in Entry |-> IF e \in x.reused THEN 1 ELSE 0]
  BY DEF Publish
<1>3. Served' = x.reused /\ live' \in [Entry -> Nat] /\ \A e \in x.reused : live'[e] = 1
  BY <1>1, <1>2 DEF Served
<1>4. /\ y \in Locals /\ y.pc = "head" /\ y.jobs = x.jobs /\ y.results = x.results
      /\ y.pending = x.pending /\ y.prev = x.prev /\ y.reused = {}
      /\ y.joined = x.joined /\ y.snap = x.snap /\ y.skipped = x.skipped
      /\ y.launched = x.launched
  BY <1>1, LocalsAre DEF Pc
<1> HIDE DEF y
<1>5. Tidy(y)
  BY <1>1, <1>4 DEF Tidy
<1>6. NewestIsParted'
  <2>1. CASE s = newest
    <3>1. newest' = newest /\ task'[newest] = y /\ config' = config
      BY <1>2, <2>1, OneTask
    <3>2. Parted(x, x.reused, config)
      BY <1>1, <2>1 DEF IInv, NewestIsParted
    <3>3. Parted(y, x.reused, config)
      BY <1>4, <3>2 DEF Parted, ToHash
    <3> QED BY <1>3, <1>4, <3>1, <3>3 DEF NewestIsParted, Parted, ToHash
  <2>2. CASE s # newest
    BY <1>2, <2>2, OthersKeepParted
  <2> QED BY <2>1, <2>2
<1>7. (\A e \in Entries(y) : Sound(e)) /\ \A j \in ToHash(y) : Past(j)
  BY <1>4, Held DEF Entries, ToHash
<1>8. \A e \in Served' \cup cache' : Sound(e)
  BY <1>2, <1>3, Held DEF IInv, AllSound, Entries
<1>9. clobbered' \in SUBSET Scans
  BY <1>2, Types DEF Clobber
<1> QED BY <1>2, <1>3, <1>4, <1>5, <1>6, <1>7, <1>8, <1>9, Types, TaskKeeps

LEMMA PushKeeps ==
    ASSUME IInv, NEW s \in Scans, Push(s)
    PROVE  IInv'
<1> DEFINE x == task[s]
           y == [x EXCEPT !.pc = "head", !.joined = {}]
<1>1. x \in Locals /\ Tidy(x) /\ x.pc = "push" /\ x.joined \in SUBSET Entry
  BY Types, TaskType DEF Push
<1>2. /\ UNCHANGED <<config, version, stamp, cache, thumbs, newest, cancelled, paused>>
      /\ task' = [task EXCEPT ![s] = y] /\ Clobber(s)
      /\ live' = [e \in Entry |-> IF e \in x.joined THEN live[e] + 1 ELSE live[e]]
      /\ done' = [done EXCEPT ![s] = @ + 1]
  BY DEF Push
<1>3. live \in [Entry -> Nat]
  BY Types
<1>4. Served' = Served \cup x.joined /\ live' \in [Entry -> Nat]
  BY <1>1, <1>2, <1>3 DEF Served
<1>5. /\ y \in Locals /\ y.pc = "head" /\ y.jobs = x.jobs /\ y.results = x.results
      /\ y.pending = x.pending /\ y.prev = x.prev /\ y.reused = x.reused
      /\ y.joined = {} /\ y.snap = x.snap /\ y.skipped = x.skipped
      /\ y.launched = x.launched
  <2>1. "head" \in Pc /\ {} \in FewJoined
    BY FewOfThem DEF Pc
  <2> QED BY <1>1, <2>1, LocalsAre
<1> HIDE DEF y
<1>6. Tidy(y)
  BY <1>1, <1>5 DEF Tidy
<1>7. NewestIsParted'
  <2>1. CASE s = newest
    <3>1. newest' = newest /\ task'[newest] = y /\ config' = config
      BY <1>2, <2>1, OneTask
    <3>2. SUFFICES ASSUME newest \notin clobbered'
                   PROVE  /\ Parted(y, Served \cup x.joined, config)
                          /\ \A e \in Served \cup x.joined : live'[e] = 1
      BY <1>4, <1>5, <3>1 DEF NewestIsParted, Parted, ToHash
    <3>3. newest \notin clobbered
      BY <1>2, <3>2 DEF Clobber
    <3>4. Parted(x, Served, config) /\ \A e \in Served : live[e] = 1
      BY <1>1, <2>1, <3>3 DEF IInv, NewestIsParted
    <3>5. Served \cap x.joined = {} /\ x.results \cap x.joined = {}
      BY <3>4 DEF Parted
    <3>6. Parted(y, Served \cup x.joined, config)
      <4>1. (Served \cup x.joined) \cup y.results \cup y.joined
               = Served \cup x.results \cup x.joined
        BY <1>5
      <4>2. /\ (Served \cup x.joined) \cap (y.results \cup y.joined) = {}
            /\ y.results \cap y.joined = {}
        BY <1>5, <3>4, <3>5 DEF Parted
      <4>3. ToHash(y) = ToHash(x)
        BY <1>5 DEF ToHash
      <4> QED BY <1>5, <3>4, <4>1, <4>2, <4>3 DEF Parted
    <3>7. \A e \in x.joined : live[e] = 0
      BY <1>1, <1>3, <3>5 DEF Served
    <3>8. \A e \in Served \cup x.joined : e \in Entry
      BY <1>1, Types
    <3>9. \A e \in Served \cup x.joined : live'[e] = 1
      BY <1>2, <3>4, <3>5, <3>7, <3>8
    <3> QED BY <3>6, <3>9
  <2>2. CASE s # newest
    BY <1>2, <2>2, OthersKeepParted
  <2> QED BY <2>1, <2>2
<1>8. (\A e \in Entries(y) : Sound(e)) /\ \A j \in ToHash(y) : Past(j)
  BY <1>5, Held DEF Entries, ToHash
<1>9. \A e \in Served' \cup cache' : Sound(e)
  BY <1>2, <1>4, Held DEF IInv, AllSound, Entries
<1>10. clobbered' \in SUBSET Scans /\ done' \in [Scans -> Nat]
  <2>1. done \in [Scans -> Nat] /\ clobbered \in SUBSET Scans
    BY Types
  <2> QED BY <1>2, <2>1 DEF Clobber
<1> QED BY <1>2, <1>4, <1>5, <1>6, <1>7, <1>8, <1>9, <1>10, Types, TaskKeeps

-----------------------------------------------------------------------------
(* What others do, and the invariant.                                      *)

LEMMA FreshTask ==
    ASSUME NEW prev \in SUBSET Entry, NEW late \in BOOLEAN, NEW y,
           \/ y = [Fresh EXCEPT !.pc = "begun", !.late = late, !.prev = prev]
           \/ y = [Fresh EXCEPT !.pc = "begun", !.prev = prev]
    PROVE  y \in Locals /\ y.pc = "begun" /\ Tidy(y) /\ Entries(y) = prev /\ ToHash(y) = {}
<1>1. {} \in FewJobs /\ {} \in FewJoined /\ "begun" \in Pc /\ "idle" \in Pc
  BY FewOfThem DEF Pc, PcDone
<1>2. Fresh \in Locals
  BY <1>1, LocalsAre DEF Fresh
<1>3. /\ Fresh.reused = {} /\ Fresh.pending = {} /\ Fresh.jobs = {} /\ Fresh.results = {}
      /\ Fresh.joined = {} /\ Fresh.skipped = {} /\ Fresh.launched = FALSE /\ Fresh.snap = {}
  BY DEF Fresh
<1>4. /\ y \in Locals /\ y.pc = "begun" /\ y.prev = prev
      /\ y.reused = {} /\ y.pending = {} /\ y.jobs = {} /\ y.results = {}
      /\ y.joined = {} /\ y.skipped = {} /\ y.launched = FALSE /\ y.snap = {}
  BY <1>1, <1>2, <1>3, LocalsAre
<1> QED BY <1>4 DEF Tidy, Entries, ToHash

LEMMA BeginScanKeeps ==
    ASSUME IInv, BeginScan
    PROVE  IInv'
<1> DEFINE s == newest + 1
<1>1. newest \in Scans /\ newest < MaxScans /\ MaxScans \in Nat
  BY Types, ScanAssumption DEF BeginScan
<1>2. s \in Scans
  BY <1>1 DEF Scans
<1>3. PICK late \in BOOLEAN :
          task' = [task EXCEPT ![newest + 1] =
                      [Fresh EXCEPT !.pc = "begun", !.late = late,
                                    !.prev = IF late THEN {} ELSE Served]]
  BY DEF BeginScan
<1> DEFINE prev == IF late THEN {} ELSE Served
           y == [Fresh EXCEPT !.pc = "begun", !.late = late, !.prev = prev]
<1>4. task' = [task EXCEPT ![s] = y]
  BY <1>3
<1>5. prev \in SUBSET Entry /\ \A e \in prev : Sound(e)
  BY Types DEF IInv, AllSound
<1> HIDE DEF prev
<1>6. y \in Locals /\ y.pc = "begun" /\ Tidy(y) /\ Entries(y) = prev /\ ToHash(y) = {}
  <2>1. y = [Fresh EXCEPT !.pc = "begun", !.late = late, !.prev = prev]
    OBVIOUS
  <2> HIDE DEF y
  <2> QED BY <1>5, <2>1, FreshTask
<1>7. /\ UNCHANGED <<version, stamp, live, cache, thumbs, paused, done, clobbered>>
      /\ newest' = s /\ cancelled' = cancelled \cup {newest}
      /\ config' \in {config} \cup {config \cup {f} : f \in Files}
                       \cup {config \ {f} : f \in Files}
  BY DEF BeginScan, CancelOld
<1> HIDE DEF s, y
<1>8. task'[s] = y
  BY <1>2, <1>4, OneTask
<1>9. NewestIsParted'
  BY <1>6, <1>7, <1>8 DEF NewestIsParted
<1>10. (\A e \in Entries(y) : Sound(e)) /\ \A j \in ToHash(y) : Past(j)
  BY <1>5, <1>6
<1>11. \A e \in Served' \cup cache' : Sound(e)
  BY <1>7 DEF IInv, AllSound, Served
<1>12. config' \in SUBSET Files
  BY <1>7, Types
<1>13. cancelled' \in SUBSET Scans
  BY <1>1, <1>7, Types
<1>14. newest' \in Scans
  BY <1>2, <1>7
<1> QED BY <1>2, <1>4, <1>6, <1>7, <1>9, <1>10, <1>11, <1>12, <1>13, <1>14, Types, TaskKeeps

\* The file is newer than whatever was hashed of it.
LEMMA EditFileKeeps ==
    ASSUME IInv, NEW f \in Files, EditFile(f)
    PROVE  IInv'
<1>1. /\ version \in [Files -> Versions] /\ version[f] < MaxVersion /\ MaxVersion \in Nat
      /\ version' = [version EXCEPT ![f] = @ + 1]
      /\ UNCHANGED <<config, stamp, live, cache, thumbs, newest, task, cancelled, paused, done, clobbered>>
  BY Types, ScanAssumption DEF EditFile
<1>2. version' \in [Files -> Versions]
  BY <1>1 DEF Versions
<1>3. \A g \in Files : version[g] \in Nat /\ version'[g] \in Nat /\ version[g] <= version'[g]
  BY <1>1 DEF Versions
<1>4. \A e \in Entry : Sound(e) => Sound(e)'
  BY <1>1, <1>3 DEF Sound, Entry, Versions
<1>5. \A j \in Sighting : Past(j) => Past(j)'
  BY <1>1, <1>3 DEF Past, Sighting
<1>6. TypeOK'
  BY <1>1, <1>2 DEF IInv, TypeOK
<1>7. AllSound'
  <2>1. Served' = Served /\ Served \in SUBSET Entry /\ cache \in SUBSET Entry
    BY <1>1, Types DEF Served
  <2>2. ASSUME NEW s \in Scans
        PROVE  /\ \A e \in Entries(task[s]) : Sound(e)'
               /\ \A j \in ToHash(task[s]) : Past(j)'
    <3>1. task[s] \in Locals
      BY Types
    <3>2. Entries(task[s]) \subseteq Entry /\ ToHash(task[s]) \subseteq Sighting
      BY <3>1, TaskType DEF Entries, ToHash
    <3> QED BY <1>4, <1>5, <3>2, Held
  <2>3. \A e \in Served \cup cache : Sound(e)'
    BY <1>4, <2>1 DEF IInv, AllSound
  <2> QED BY <1>1, <2>1, <2>2, <2>3 DEF AllSound, Entries, ToHash
<1>8. NewestIsParted'
  BY <1>1 DEF IInv, NewestIsParted, Parted, ToHash, Served
<1>9. \A s \in Scans : Tidy(task'[s])
  BY <1>1 DEF IInv
<1> QED BY <1>6, <1>7, <1>8, <1>9 DEF IInv, Tidy

LEMMA InitKeeps == Init => IInv
<1> SUFFICES ASSUME Init
             PROVE  IInv
  OBVIOUS
<1>1. /\ 1 \in Scans /\ 1 \in Versions
  BY ScanAssumption DEF Scans, Versions
<1>2. PICK S \in SUBSET Files :
            cache = {[file |-> f, seen |-> stamp[f][1], hash |-> 1] : f \in S}
  BY DEF Init
<1>13. stamp \in [Files -> [Versions -> Stamps]]
  BY ScanAssumption DEF Init
<1>3. ASSUME NEW e \in cache
      PROVE  e \in Entry /\ e.seen = stamp[e.file][1] /\ e.hash = 1 /\ e.file \in Files
  <2>1. PICK f \in S : e = [file |-> f, seen |-> stamp[f][1], hash |-> 1]
    BY <1>2
  <2>2. stamp[f][1] \in Stamps
    BY <1>1, <1>13
  <2> QED BY <1>1, <2>1, <2>2 DEF Entry
<1>4. \A e \in cache : Sound(e)
  <2>1. \A f \in Files : version[f] = 1
    BY DEF Init
  <2> QED BY <1>3, <2>1 DEF Sound
<1>5. Served = {} /\ live \in [Entry -> Nat]
  <2>1. live = [e \in Entry |-> 0]
    BY DEF Init
  <2>2. live \in [Entry -> Nat] /\ \A e \in Entry : live[e] = 0
    BY <2>1
  <2> QED BY <2>2 DEF Served
<1> DEFINE y == [Fresh EXCEPT !.pc = "begun", !.prev = cache]
<1>6. y \in Locals /\ y.pc = "begun" /\ Tidy(y) /\ Entries(y) = cache /\ ToHash(y) = {}
  <2>1. y = [Fresh EXCEPT !.pc = "begun", !.prev = cache]
    OBVIOUS
  <2>2. FALSE \in BOOLEAN
    OBVIOUS
  <2> HIDE DEF y
  <2> QED BY <1>3, <2>1, <2>2, FreshTask
<1>7. /\ Fresh \in Locals /\ Tidy(Fresh) /\ Entries(Fresh) = {} /\ ToHash(Fresh) = {}
  <2>1. {} \in FewJobs /\ {} \in FewJoined /\ "idle" \in Pc
    BY FewOfThem DEF Pc, PcDone
  <2>2. Fresh \in Locals
    BY <2>1, LocalsAre DEF Fresh
  <2> QED BY <2>2 DEF Fresh, Tidy, Entries, ToHash
<1>8. task = [s \in Scans |-> IF s = 1 THEN y ELSE Fresh] /\ newest = 1
  BY DEF Init
<1> HIDE DEF y
<1>9. TypeOK
  <2>1. thumbs \in SUBSET (Files \X Versions)
    <3>1. thumbs = {<<e.file, e.hash>> : e \in cache}
      BY DEF Init, Content
    <3> QED BY <1>1, <1>3, <3>1
  <2>2. version \in [Files -> Versions] /\ task \in [Scans -> Locals]
    BY <1>1, <1>6, <1>7, <1>8 DEF Init
  <2> QED BY <1>1, <1>3, <1>5, <1>8, <1>13, <2>1, <2>2 DEF Init, TypeOK
<1>10. AllSound
  BY <1>4, <1>5, <1>6, <1>7, <1>8 DEF AllSound
<1>11. \A s \in Scans : Tidy(task[s])
  BY <1>6, <1>7, <1>8
<1>12. NewestIsParted
  BY <1>1, <1>6, <1>8 DEF NewestIsParted
<1> QED BY <1>9, <1>10, <1>11, <1>12 DEF IInv

LEMMA NextKeeps == IInv /\ [Next]_vars => IInv'
<1> SUFFICES ASSUME IInv, [Next]_vars
             PROVE  IInv'
  OBVIOUS
<1>1. CASE BeginScan
  BY <1>1, BeginScanKeeps
<1>2. CASE CancelScan \/ ResumeScan
  BY <1>2, WakeKeeps
<1>3. CASE PauseScan \/ UNCHANGED vars
  BY <1>3, StillKeeps
<1>4. ASSUME NEW f \in Files, EditFile(f)
      PROVE  IInv'
  BY <1>4, EditFileKeeps
<1>5. ASSUME NEW s \in Scans, Step(s)
      PROVE  IInv'
  <2>1. CASE Walk(s) \/ Publish(s) \/ Push(s)
    BY <2>1, WalkKeeps, PublishKeeps, PushKeeps
  <2>2. CASE LoopHead(s) \/ EnterSelect(s) \/ SelectResumed(s)
    BY <2>2, LoopHeadKeeps, EnterSelectKeeps, SelectResumedKeeps
  <2>3. CASE SelectCancelled(s) \/ SelectJoin(s) \/ SelectJoinFailed(s) \/ SelectLaunch(s)
    BY <2>3, SelectCancelledKeeps, SelectJoinKeeps, SelectJoinFailedKeeps, SelectLaunchKeeps
  <2>4. CASE Snapshot(s) \/ Prune(s)
    BY <2>4, EndKeeps
  <2> QED BY <1>5, <2>1, <2>2, <2>3, <2>4 DEF Step
<1>6. ASSUME NEW s \in Scans, NEW j \in task[s].jobs, FinishJob(s, j)
      PROVE  IInv'
  BY <1>6, FinishJobKeeps
<1> QED BY <1>1, <1>2, <1>3, <1>4, <1>5, <1>6 DEF Next

THEOREM Invariant == Spec => []IInv
BY InitKeeps, NextKeeps, PTL DEF Spec

-----------------------------------------------------------------------------
(* What follows.                                                           *)

\* index::scan never has more hashing jobs than the semaphore has permits, nor
\* more than one joined entry waiting for the index lock.
THEOREM TypeCorrect == Spec => []TypeOK
<1>1. IInv => TypeOK
  BY DEF IInv
<1> QED BY <1>1, Invariant, PTL

\* The mtime fast path of index::scan: an entry of the live index or of the saved
\* one that has the file's size and mtime has the hash of its content, whatever
\* is edited between the walk, the hashing and the next scan, and however scans
\* write over each other, unless an earlier version of the file had that size and
\* mtime.  The import is later than the walk, so the hash is of a version no older
\* than the one whose mtime the entry has, and that is the last one.
THEOREM ReuseSound == Spec => []ReuseIsSound
<1>1. IInv => ReuseIsSound
  <2> SUFFICES ASSUME IInv, NEW e \in Served \cup cache,
                      e.seen = Stamp(e.file), FreshlyStamped(e.file)
               PROVE  e.hash = version[e.file]
    BY DEF ReuseIsSound
  <2>1. e \in Entry
    BY Types
  <2>2. e.hash \in Nat /\ e.file \in Files
    BY <2>1 DEF Entry, Versions
  <2>3. version[e.file] \in Nat
    BY <2>2, StampedNow, Types DEF Versions
  <2>4. e.hash <= version[e.file] /\ \E v \in 1..e.hash : stamp[e.file][v] = e.seen
    BY DEF IInv, AllSound, Sound
  <2>5. PICK v \in 1..e.hash : stamp[e.file][v] = e.seen
    BY <2>4
  <2>6. v \notin 1..(version[e.file] - 1)
    BY <2>5 DEF FreshlyStamped
  <2> QED BY <2>2, <2>3, <2>4, <2>5, <2>6
<1> QED BY <1>1, Invariant, PTL

\* index::scan end to end, with its walk, launches, joins and pushes interleaved
\* with the jobs and with other scans: a scan that ran to its end, and whose
\* index no superseded scan wrote to, left every shared file it could import
\* indexed exactly once and nothing else.
THEOREM IndexExact == Spec => []SettledIndexIsExact
<1>1. IInv => SettledIndexIsExact
  <2> SUFFICES ASSUME IInv, task[newest].pc \in {"snapshot", "prune", "done"},
                      newest \notin clobbered
               PROVE  /\ {e.file : e \in Served} = config \ task[newest].skipped
                      /\ \A e \in Served :
                            live[e] = 1 /\ \A o \in Served : o.file = e.file => o = e
    BY DEF SettledIndexIsExact
  <2> DEFINE x == task[newest]
  <2>1. x \in Locals /\ Tidy(x)
    BY Types
  <2>2. x.jobs = {} /\ x.results = {} /\ x.pending = {} /\ x.joined = {}
    BY <2>1 DEF Tidy
  <2>3. Parted(x, Served, config) /\ \A e \in Served : live[e] = 1
    BY DEF IInv, NewestIsParted
  <2> HIDE DEF x
  <2>4. Served \cup x.results \cup x.joined = Served /\ ToHash(x) = {}
    BY <2>2 DEF ToHash
  <2>5. FilesOf(ToHash(x)) = {}
    BY <2>4 DEF FilesOf
  <2>6. /\ OnePer(Served) /\ config = x.skipped \cup FilesOf(Served)
        /\ x.skipped \cap FilesOf(Served) = {}
    BY <2>3, <2>4, <2>5 DEF Parted
  <2>7. FilesOf(Served) = config \ x.skipped
    BY <2>6
  <2> QED BY <2>3, <2>6, <2>7 DEF OnePer, FilesOf, x
<1> QED BY <1>1, Invariant, PTL
=============================================================================
