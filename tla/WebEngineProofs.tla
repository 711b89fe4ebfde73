--------------------------- MODULE WebEngineProofs ---------------------------
(* Proofs about module WebEngine, for any engines and files, any number of     *)
(* attempts, and any bounds.                                                   *)
EXTENDS WebEngine, FiniteSetTheorems, SequenceTheorems, TLAPS

Copies == {"none", "part", "whole"}
JobSet == [file : Files, kept : BOOLEAN, left : 1..Attempts, got : 0..Pieces, entry : Nat,
           at : {"fetch", "pause", "stream", "done", "failed", "broken"}]
EntrySet == [file : Files, loaded : Nat, done : BOOLEAN]
InitSet == [owner : Engines, job : 0..MaxLoads, fs : [Files -> Copies],
            at : {"load", "compile", "ready", "stuck", "refused"}]
StartSet(i, j) ==
  [at : {"none", "loading", "starting", "running", "refused", "over"}, init : 0..i, pack : 0..j,
   own : BOOLEAN]

-----------------------------------------------------------------------------
(* The inductive invariant.                                                    *)

\* Only the engine's own file is handed on raw, and who waits for a retry has one left; a
\* job has an entry from its response on.
JobWell(v) ==
  /\ (v.kept <=> v.file # Wasm)
  /\ v.at = "pause" => v.left > 1
  /\ v.at \in {"fetch", "pause", "failed"} => v.entry = 0

\* What an entry counts came in by a job, one that has ended if the entry is done; and
\* what has an entry was asked for.
JobsWell ==
  /\ \A j \in 1..Len(jobs) : JobWell(jobs[j]) /\ loadingFiles[jobs[j].file] # 0
  /\ \A x \in 1..Len(entries) :
       /\ entries[x].done => \E j \in 1..Len(jobs) : jobs[j].entry = x /\ jobs[j].at = "done"
       /\ entries[x].loaded # 0 => \E j \in 1..Len(jobs) : jobs[j].entry = x
  /\ \A f \in Files : loadingFiles[f] # 0 => \E j \in 1..Len(jobs) : jobs[j].file = f

BuildingAt == {"load", "compile"}

\* The promises the engines share: what is being built is the last module asked for, and
\* an engine that has a module and has not run it holds initPromise with it.
PromisesShared ==
  /\ loadPromise # 0 => jobs[loadPromise].file = Wasm
  /\ initPromise \in {0, Len(inits)}
  /\ \A i \in 1..Len(inits) :
       /\ inits[i].at # "refused" => inits[i].job \in 1..Len(jobs)
       /\ inits[i].at \in BuildingAt => i = initPromise /\ start[inits[i].owner].at # "running"
  /\ \A e \in Engines :
       /\ rtenv[e] # 0 => inits[rtenv[e]].owner = e /\ inits[rtenv[e]].at = "ready"
       /\ rtenv[e] # 0 /\ start[e].at # "running" => rtenv[e] = initPromise
       /\ start[e].at = "running" => rtenv[e] # 0

\* A start waits for a pack of its own; while it holds initPromise with a module that it
\* asked for, nobody else can run one, and a pack that has come in waits in the list.
PackWaits(e) ==
  /\ jobs[start[e].pack].file = Pack
  /\ start[e].at = "starting" => jobs[start[e].pack].at = "done"
  /\ start[e].own =>
       /\ initPromise # 0 /\ inits[initPromise].owner = e
       /\ jobs[start[e].pack].at = "done" => preloadedFiles[Pack] # "none"
PacksWait == \A e \in Engines : Underway(e) /\ start[e].pack # 0 => PackWaits(e)

\* A game has some of its pack, and a pack is cut off only where two downloads of it were
\* counted on one entry.
MainsHavePack ==
  \A e \in Engines :
    start[e].at = "running" /\ start[e].pack # 0 /\ start[e].own => inits[rtenv[e]].fs[Pack] # "none"
PartsShared ==
  /\ preloadedFiles[Pack] = "part" => CountedTogether(Pack)
  /\ \A i \in 1..Len(inits) : inits[i].fs[Pack] = "part" => CountedTogether(Pack)

\* The bounds leave room for the second init of every start.
LoadingEngines == { e \in Engines : start[e].at = "loading" }
Begun == status # ""
RoomLeft ==
  /\ IsFiniteSet(LoadingEngines)
  /\ Begun => Len(inits) + Cardinality(LoadingEngines) <= MaxInits
  /\ ~Begun => inits = <<>> /\ \A e \in Engines : start[e].at = "none"

\* What was reported is no more than what has come in.
Reported == AskedOnce => lastProgress.loaded <= Progress.loaded

Core ==
  TypeOK /\ JobsWell /\ PromisesShared /\ PacksWait /\ MainsHavePack /\ PartsShared /\ Reported
WebInv == Core /\ RoomLeft

-----------------------------------------------------------------------------
(* The downloads.                                                              *)

\* What every step does to the downloads: none is forgotten or starts again, and an entry
\* is a job's for good.
JobsKept ==
  /\ Len(jobs) <= Len(jobs')
  /\ \A j \in 1..Len(jobs) :
       /\ jobs'[j].file = jobs[j].file
       /\ jobs[j].at = "done" => jobs'[j].at = "done"
       /\ jobs[j].entry # 0 => jobs'[j].entry = jobs[j].entry
\* While no file is asked for twice, a file stays asked for and its count does not shrink,
\* though it may go over to a new entry.
CountsKept ==
  AskedOnce' =>
    \A f \in Files : loadingFiles[f] # 0 =>
      loadingFiles'[f] # 0 /\ entries[loadingFiles[f]].loaded <= entries'[loadingFiles'[f]].loaded

Counted(v) == v.entry \in 1..Len(entries) /\ entries[v.entry].file = v.file
LoaderTypes ==
  /\ jobs \in Seq(JobSet) /\ Len(jobs) <= MaxLoads
  /\ entries \in Seq(EntrySet)
  /\ loadingFiles \in [Files -> 0..Len(entries)]
  /\ \A f \in Files : loadingFiles[f] # 0 => entries[loadingFiles[f]].file = f
  /\ \A j \in 1..Len(jobs) : jobs[j].at \in {"stream", "done", "broken"} => Counted(jobs[j])
Held == preloadedFiles \in [Files -> Copies] /\ preloadedFiles[Wasm] = "none"

LEMMA LoaderParts ==
  LoaderTypeOK <=> /\ LoaderTypes
                   /\ lastProgress \in [loaded : Nat, total : Nat]
                   /\ frames \in Nat /\ Held
<1>1. /\ jobs \in Seq(JobSet) => DOMAIN jobs = 1..Len(jobs)
      /\ entries \in Seq(EntrySet) => DOMAIN entries = 1..Len(entries)
  OBVIOUS
<1> QED
  BY <1>1 DEF LoaderTypeOK, LoaderTypes, Held, Copies, JobSet, EntrySet, Tracked, Stat, Counted

LEMMA JobType == ASSUME NEW f \in Files PROVE Job(f, f # Wasm) \in JobSet /\ Entry(f) \in EntrySet
<1>1. f \in Files /\ (f # Wasm) \in BOOLEAN /\ Attempts \in 1..Attempts /\ 0 \in 0..Pieces
  BY FileAssumption
<1> QED BY <1>1 DEF Job, JobSet, Entry, EntrySet

LEMMA JobAt ==
  ASSUME LoaderTypes, NEW j \in 1..Len(jobs)
  PROVE  /\ jobs[j] \in JobSet /\ Len(jobs) \in Nat /\ Len(entries) \in Nat
         /\ jobs[j].file \in Files /\ jobs[j].kept \in BOOLEAN
         /\ jobs[j].left \in 1..Attempts /\ jobs[j].got \in 0..Pieces
         /\ jobs[j].left \in Int /\ jobs[j].got \in Int /\ jobs[j].entry \in Nat
<1>1. jobs[j] \in JobSet /\ Len(jobs) \in Nat /\ Len(entries) \in Nat
  BY DEF LoaderTypes
<1> QED BY <1>1, FileAssumption DEF JobSet

LEMMA EntryAt ==
  ASSUME LoaderTypes, NEW x \in 1..Len(entries)
  PROVE  /\ entries[x] \in EntrySet
         /\ entries[x].file \in Files /\ entries[x].loaded \in Nat /\ entries[x].done \in BOOLEAN
<1>1. entries[x] \in EntrySet
  BY DEF LoaderTypes
<1> QED BY <1>1 DEF EntrySet

\* Sequences that are extended or changed in one place.
Extension(S, s, t, u) ==
  /\ Len(s) \in Nat /\ Len(t) \in Nat /\ Len(u) = Len(s) + Len(t) /\ u \in Seq(S)
  /\ \A i \in 1..Len(s) : i \in 1..Len(u) /\ u[i] = s[i]
  /\ \A k \in 1..Len(t) : Len(s) + k \in 1..Len(u) /\ u[Len(s) + k] = t[k]
  /\ \A i \in 1..Len(u) : i \in 1..Len(s) \/ \E k \in 1..Len(t) : i = Len(s) + k

LEMMA Extended ==
  ASSUME NEW S, NEW s \in Seq(S), NEW t \in Seq(S)
  PROVE  Extension(S, s, t, s \o t)
<1>1. /\ Len(s \o t) = Len(s) + Len(t) /\ s \o t \in Seq(S) /\ Len(s) \in Nat /\ Len(t) \in Nat
      /\ \A i \in 1..Len(s) + Len(t) : (s \o t)[i] = IF i <= Len(s) THEN s[i] ELSE t[i - Len(s)]
  BY ConcatProperties
<1> DEFINE u == s \o t
<1>2. /\ Len(u) = Len(s) + Len(t) /\ Len(s) \in Nat /\ Len(t) \in Nat
      /\ \A i \in 1..Len(s) + Len(t) : u[i] = IF i <= Len(s) THEN s[i] ELSE t[i - Len(s)]
  BY <1>1
<1> HIDE DEF u
<1>3. \A i \in 1..Len(s) : i \in 1..Len(u) /\ u[i] = s[i]
  BY <1>2
<1>4. ASSUME NEW k \in 1..Len(t) PROVE Len(s) + k \in 1..Len(u) /\ u[Len(s) + k] = t[k]
  <2>1. Len(s) + k \in 1..Len(s) + Len(t) /\ ~(Len(s) + k <= Len(s)) /\ Len(s) + k - Len(s) = k
    BY <1>2
  <2> QED BY <1>2, <2>1
<1>5. ASSUME NEW i \in 1..Len(u), i \notin 1..Len(s) PROVE \E k \in 1..Len(t) : i = Len(s) + k
  <2>1. i - Len(s) \in 1..Len(t) /\ i = Len(s) + (i - Len(s))
    BY <1>2, <1>5
  <2> QED BY <2>1
<1>6. u \in Seq(S)
  BY <1>1 DEF u
<1>7. Extension(S, s, t, u)
  BY <1>2, <1>3, <1>4, <1>5, <1>6 DEF Extension
<1> QED BY <1>7 DEF u

LEMMA Replaced ==
  ASSUME NEW S, NEW s \in Seq(S), NEW w \in S, NEW i \in 1..Len(s)
  PROVE  /\ [s EXCEPT ![i] = w] \in Seq(S) /\ Len([s EXCEPT ![i] = w]) = Len(s)
         /\ [s EXCEPT ![i] = w][i] = w
         /\ \A k \in 1..Len(s) : k # i => [s EXCEPT ![i] = w][k] = s[k]
OBVIOUS

\* The files of one call are asked for after the others, each by a job of its own.
LEMMA LoadAllKeeps ==
  ASSUME LoaderTypes, JobsWell, NEW files \in Seq(Files), LoadAll(files)
  PROVE  /\ LoaderTypes' /\ JobsWell' /\ CountsKept
         /\ Len(jobs') = Len(jobs) + Len(files) /\ Len(jobs) \in Nat /\ Len(files) \in Nat
         /\ \A j \in 1..Len(jobs) : jobs'[j] = jobs[j]
         /\ \A k \in 1..Len(files) : jobs'[Len(jobs) + k] = Job(files[k], files[k] # Wasm)
<1> DEFINE new == [k \in DOMAIN files |-> Job(files[k], files[k] # Wasm)]
           made == [k \in DOMAIN files |-> Entry(files[k])]
<1>1. /\ jobs \in Seq(JobSet) /\ entries \in Seq(EntrySet)
      /\ DOMAIN files = 1..Len(files) /\ \A k \in 1..Len(files) : files[k] \in Files
      /\ Len(files) \in Nat
  BY DEF LoaderTypes
<1>2. /\ new \in Seq(JobSet) /\ Len(new) = Len(files)
      /\ made \in Seq(EntrySet) /\ Len(made) = Len(files)
  <2>1. new \in [1..Len(files) -> JobSet] /\ made \in [1..Len(files) -> EntrySet]
    BY <1>1, JobType
  <2> QED BY <1>1, <2>1
<1>3. \A k \in 1..Len(files) : new[k] = Job(files[k], files[k] # Wasm) /\ made[k] = Entry(files[k])
  BY <1>1
<1>4. jobs' = jobs \o new /\ entries' = entries \o made /\ Len(jobs) + Len(files) <= MaxLoads
  BY DEF LoadAll
<1> HIDE DEF new, made
<1>5. /\ Len(jobs) \in Nat /\ Len(jobs') = Len(jobs) + Len(files) /\ jobs' \in Seq(JobSet)
      /\ \A j \in 1..Len(jobs) : j \in 1..Len(jobs') /\ jobs'[j] = jobs[j]
      /\ \A k \in 1..Len(files) :
           Len(jobs) + k \in 1..Len(jobs') /\ jobs'[Len(jobs) + k] = Job(files[k], files[k] # Wasm)
      /\ \A j \in 1..Len(jobs') : j \in 1..Len(jobs) \/ \E k \in 1..Len(files) : j = Len(jobs) + k
  <2>1. Extension(JobSet, jobs, new, jobs \o new)
    BY <1>1, <1>2, Extended
  <2> QED BY <1>2, <1>3, <1>4, <2>1 DEF Extension
<1>6. /\ Len(entries) \in Nat /\ Len(entries') = Len(entries) + Len(files) /\ entries' \in Seq(EntrySet)
      /\ \A x \in 1..Len(entries) : x \in 1..Len(entries') /\ entries'[x] = entries[x]
      /\ \A k \in 1..Len(files) :
           Len(entries) + k \in 1..Len(entries') /\ entries'[Len(entries) + k] = Entry(files[k])
      /\ \A x \in 1..Len(entries') : x \in 1..Len(entries) \/ \E k \in 1..Len(files) : x = Len(entries) + k
  <2>1. Extension(EntrySet, entries, made, entries \o made)
    BY <1>1, <1>2, Extended
  <2> QED BY <1>2, <1>3, <1>4, <2>1 DEF Extension
<1>7. ASSUME NEW k \in 1..Len(files)
      PROVE  /\ JobWell(jobs'[Len(jobs) + k]) /\ jobs'[Len(jobs) + k].file = files[k]
             /\ jobs'[Len(jobs) + k].at = "fetch"
             /\ entries'[Len(entries) + k].file = files[k]
             /\ ~entries'[Len(entries) + k].done /\ entries'[Len(entries) + k].loaded = 0
  <2>1. /\ jobs'[Len(jobs) + k] = Job(files[k], files[k] # Wasm)
        /\ entries'[Len(entries) + k] = Entry(files[k])
    BY <1>5, <1>6
  <2>2. Job(files[k], files[k] # Wasm).kept <=> files[k] # Wasm
    BY Zenon DEF Job
  <2>3. /\ Job(files[k], files[k] # Wasm).file = files[k] /\ Job(files[k], files[k] # Wasm).at = "fetch"
        /\ Job(files[k], files[k] # Wasm).entry = 0
    BY DEF Job
  <2>4. JobWell(Job(files[k], files[k] # Wasm))
    <3>1. "fetch" # "pause"
      OBVIOUS
    <3> QED BY <2>2, <2>3, <3>1, Zenon DEF JobWell
  <2>5. Entry(files[k]).file = files[k] /\ ~Entry(files[k]).done /\ Entry(files[k]).loaded = 0
    BY DEF Entry
  <2> QED BY <2>1, <2>3, <2>4, <2>5, Zenon
<1>8. ASSUME NEW f \in Files
      PROVE  /\ loadingFiles'[f] \in 0..Len(entries')
             /\ loadingFiles'[f] # 0 => entries'[loadingFiles'[f]].file = f
             /\ loadingFiles[f] # 0 => loadingFiles'[f] # 0
             /\ (\E k \in 1..Len(files) : files[k] = f) => loadingFiles'[f] # 0
             /\ ~(\E k \in 1..Len(files) : files[k] = f) => loadingFiles'[f] = loadingFiles[f]
  <2>1. CASE \E k \in 1..Len(files) : files[k] = f
    <3> DEFINE k == CHOOSE k \in DOMAIN files : files[k] = f
    <3>1. k \in 1..Len(files) /\ files[k] = f
      BY <1>1, <2>1
    <3>2. loadingFiles'[f] = Len(entries) + k
      BY <1>1, <2>1 DEF LoadAll
    <3> HIDE DEF k
    <3>3. entries'[Len(entries) + k].file = f
      BY <1>7, <3>1
    <3>4. Len(entries) + k \in 0..Len(entries') /\ Len(entries) + k # 0
      BY <1>1, <1>6, <3>1
    <3> QED BY <2>1, <3>2, <3>3, <3>4
  <2>2. CASE ~\E k \in 1..Len(files) : files[k] = f
    <3>1. loadingFiles'[f] = loadingFiles[f]
      BY <1>1, <2>2 DEF LoadAll
    <3>2. loadingFiles[f] \in 0..Len(entries) /\ (loadingFiles[f] # 0 => entries[loadingFiles[f]].file = f)
      BY DEF LoaderTypes
    <3>3. loadingFiles[f] # 0 => loadingFiles[f] \in 1..Len(entries)
      BY <1>6, <3>2
    <3> QED BY <1>1, <1>6, <2>2, <3>1, <3>2, <3>3
  <2> QED BY <2>1, <2>2
<1>9. loadingFiles' \in [Files -> 0..Len(entries')]
  <2>1. loadingFiles' = [f \in Files |-> loadingFiles'[f]]
    BY DEF LoadAll
  <2> QED BY <1>8, <2>1, Zenon
<1>10. LoaderTypes'
  <2>1. ASSUME NEW j \in 1..Len(jobs'), jobs'[j].at \in {"stream", "done", "broken"}
        PROVE  jobs'[j].entry \in 1..Len(entries') /\ entries'[jobs'[j].entry].file = jobs'[j].file
    <3>1. j \in 1..Len(jobs)
      <4> SUFFICES ASSUME NEW k \in 1..Len(files), j = Len(jobs) + k PROVE FALSE
        BY <1>5
      <4>1. jobs'[j].at = "fetch"
        BY <1>7
      <4> QED BY <2>1, <4>1
    <3>2. jobs'[j] = jobs[j]
      BY <1>5, <3>1
    <3>3. jobs[j].entry \in 1..Len(entries) /\ entries[jobs[j].entry].file = jobs[j].file
      BY <2>1, <3>1, <3>2 DEF LoaderTypes, Counted
    <3> QED BY <1>6, <3>2, <3>3
  <2>2. \A j \in 1..Len(jobs') : jobs'[j].at \in {"stream", "done", "broken"} => Counted(jobs[j])'
    BY <2>1 DEF Counted
  <2>3. Len(jobs') <= MaxLoads
    BY <1>4, <1>5
  <2> QED BY <1>5, <1>6, <1>8, <1>9, <2>2, <2>3 DEF LoaderTypes
<1>11. JobsWell'
  <2>1. ASSUME NEW j \in 1..Len(jobs') PROVE JobWell(jobs'[j]) /\ loadingFiles'[jobs'[j].file] # 0
    <3>1. CASE j \in 1..Len(jobs)
      <4>1. jobs'[j] = jobs[j] /\ jobs[j].file \in Files
        BY <1>5, <3>1, JobAt
      <4>2. JobWell(jobs[j]) /\ loadingFiles[jobs[j].file] # 0
        BY <3>1 DEF JobsWell
      <4> QED BY <1>8, <4>1, <4>2
    <3>2. ASSUME NEW k \in 1..Len(files), j = Len(jobs) + k
          PROVE  JobWell(jobs'[j]) /\ loadingFiles'[jobs'[j].file] # 0
      <4>1. JobWell(jobs'[j]) /\ jobs'[j].file = files[k] /\ files[k] \in Files
        BY <1>1, <1>7, <3>2
      <4> QED BY <1>8, <4>1
    <3> QED BY <1>5, <3>1, <3>2
  <2>2. ASSUME NEW x \in 1..Len(entries')
        PROVE  /\ entries'[x].done => \E j \in 1..Len(jobs') : jobs'[j].entry = x /\ jobs'[j].at = "done"
               /\ entries'[x].loaded # 0 => \E j \in 1..Len(jobs') : jobs'[j].entry = x
    <3>1. CASE x \in 1..Len(entries)
      <4>1. entries'[x] = entries[x]
        BY <1>6, <3>1
      <4>2. /\ entries[x].done => \E j \in 1..Len(jobs) : jobs[j].entry = x /\ jobs[j].at = "done"
            /\ entries[x].loaded # 0 => \E j \in 1..Len(jobs) : jobs[j].entry = x
        BY <3>1 DEF JobsWell
      <4> QED BY <1>5, <4>1, <4>2
    <3>2. ASSUME NEW k \in 1..Len(files), x = Len(entries) + k
          PROVE  ~entries'[x].done /\ entries'[x].loaded = 0
      BY <1>7, <3>2
    <3> QED BY <1>6, <3>1, <3>2
  <2>3. ASSUME NEW f \in Files, loadingFiles'[f] # 0 PROVE \E j \in 1..Len(jobs') : jobs'[j].file = f
    <3>1. CASE \E k \in 1..Len(files) : files[k] = f
      BY <1>5, <1>7, <3>1
    <3>2. CASE ~\E k \in 1..Len(files) : files[k] = f
      <4>1. loadingFiles[f] # 0
        BY <1>8, <2>3, <3>2
      <4>2. PICK j \in 1..Len(jobs) : jobs[j].file = f
        BY <4>1 DEF JobsWell
      <4> QED BY <1>5, <4>2
    <3> QED BY <3>1, <3>2
  <2> QED BY <2>1, <2>2, <2>3 DEF JobsWell
<1>12. CountsKept
  <2> SUFFICES ASSUME AskedOnce', NEW f \in Files, loadingFiles[f] # 0
               PROVE  /\ loadingFiles'[f] # 0
                      /\ entries[loadingFiles[f]].loaded <= entries'[loadingFiles'[f]].loaded
    BY DEF CountsKept
  <2>1. \A i, j \in 1..Len(jobs') : jobs'[i].file = jobs'[j].file => i = j
    <3>1. DOMAIN jobs' = 1..Len(jobs')
      BY <1>5
    <3> QED BY <3>1 DEF AskedOnce
  <2>2. PICK j \in 1..Len(jobs) : jobs[j].file = f
    BY DEF JobsWell
  <2>3. ASSUME NEW k \in 1..Len(files), files[k] = f PROVE FALSE
    <3>1. jobs'[Len(jobs) + k].file = f /\ Len(jobs) + k \in 1..Len(jobs')
      BY <1>5, <1>7, <2>3
    <3>2. jobs'[j].file = f /\ j \in 1..Len(jobs')
      BY <1>5, <2>2
    <3>3. j = Len(jobs) + k
      BY <2>1, <3>1, <3>2
    <3> QED BY <1>5, <3>3
  <2>4. loadingFiles'[f] = loadingFiles[f]
    BY <1>8, <2>3
  <2>5. loadingFiles[f] \in 1..Len(entries)
    BY <1>6 DEF LoaderTypes
  <2>6. entries'[loadingFiles[f]] = entries[loadingFiles[f]] /\ entries[loadingFiles[f]].loaded \in Nat
    BY <1>6, <2>5, EntryAt
  <2> QED BY <2>4, <2>6
<1> QED BY <1>1, <1>5, <1>10, <1>11, <1>12

LEMMA LoadedAll ==
  ASSUME LoaderTypes, JobsWell, NEW files \in Seq(Files), LoadAll(files)
  PROVE  JobsKept
<1>1. /\ Len(jobs') = Len(jobs) + Len(files) /\ Len(jobs) \in Nat /\ Len(files) \in Nat
      /\ \A j \in 1..Len(jobs) : jobs'[j] = jobs[j]
  BY LoadAllKeeps
<1> QED BY <1>1 DEF JobsKept

\* What a step of download j does to it, to the entries and to what is held in memory.
JobBecomes(j, v) ==
  /\ jobs' = [jobs EXCEPT ![j] = v] /\ v \in JobSet
  /\ v.file = jobs[j].file /\ (v.kept <=> jobs[j].kept)
  /\ jobs[j].entry # 0 => v.entry = jobs[j].entry
  /\ JobWell(v) /\ jobs[j].at # "done"
  /\ v.at \in {"stream", "done", "broken"} => Counted(v)
EntryGrows(v, w) ==
  /\ entries' = [entries EXCEPT ![v.entry] = w] /\ w \in EntrySet
  /\ w.file = v.file /\ w.loaded >= entries[v.entry].loaded
  /\ w.done => entries[v.entry].done \/ v.at = "done"
EntriesBecome(v) ==
  \/ UNCHANGED <<entries, loadingFiles>>
  \/ /\ v.entry = 0 /\ entries' = Append(entries, Entry(v.file))
     /\ loadingFiles' = [loadingFiles EXCEPT ![v.file] = Len(entries) + 1]
  \/ Counted(v) /\ UNCHANGED loadingFiles /\ \E w : EntryGrows(v, w)
HeldBecomes(v) ==
  \/ ~(v.at = "done" /\ v.kept) /\ UNCHANGED preloadedFiles
  \/ /\ v.at = "done" /\ v.kept
     /\ \E c \in {"part", "whole"} :
          /\ preloadedFiles' = [preloadedFiles EXCEPT ![v.file] = c]
          /\ c = "part" => entries[v.entry].done

LEMMA JobMoves ==
  ASSUME LoaderTypes, JobsWell, NEW j \in 1..Len(jobs), JobStep(j)
  PROVE  /\ \E v : JobBecomes(j, v) /\ EntriesBecome(v) /\ HeldBecomes(v)
         /\ UNCHANGED <<lastProgress, frames>>
<1>1. /\ jobs[j] \in JobSet /\ Len(jobs) \in Nat /\ Len(entries) \in Nat
      /\ jobs[j].file \in Files /\ jobs[j].kept \in BOOLEAN
      /\ jobs[j].left \in 1..Attempts /\ jobs[j].got \in 0..Pieces
      /\ jobs[j].left \in Int /\ jobs[j].got \in Int /\ jobs[j].entry \in Nat
      /\ jobs \in Seq(JobSet) /\ entries \in Seq(EntrySet)
  BY JobAt DEF LoaderTypes
<1>2. JobWell(jobs[j]) /\ loadingFiles[jobs[j].file] # 0
  BY DEF JobsWell
<1>3. jobs[j].kept <=> jobs[j].file # Wasm
  BY <1>2 DEF JobWell
<1>4. jobs[j].at \in {"stream", "done", "broken"} => Counted(jobs[j])
  BY DEF LoaderTypes
<1>5. CASE FetchFails(j)
  <2> DEFINE at == IF jobs[j].left <= 1 THEN "failed" ELSE "pause"
             v == [jobs[j] EXCEPT !.at = at]
  <2>1. jobs' = [jobs EXCEPT ![j] = v] /\ jobs[j].at = "fetch"
    BY <1>1, <1>5 DEF FetchFails, JobSet
  <2>2. at \in {"failed", "pause"} /\ (at = "pause" => jobs[j].left > 1)
    BY <1>1
  <2> HIDE DEF at
  <2>3. v \in JobSet /\ v.at = at /\ v.left = jobs[j].left
    BY <1>1, <2>2 DEF JobSet
  <2>4. /\ v \in JobSet /\ jobs' = [jobs EXCEPT ![j] = v] /\ jobs[j].at = "fetch"
        /\ v.at \in {"failed", "pause"} /\ (v.at = "pause" => v.left > 1)
    BY <2>1, <2>2, <2>3
  <2>5. v.file = jobs[j].file /\ v.kept = jobs[j].kept /\ v.entry = jobs[j].entry
    BY <1>1 DEF JobSet
  <2> HIDE DEF v
  <2>6. UNCHANGED <<entries, loadingFiles>> /\ UNCHANGED preloadedFiles /\ UNCHANGED <<lastProgress, frames>>
    BY <1>5 DEF FetchFails
  <2>7. jobs[j].entry = 0
    BY <1>2, <2>4 DEF JobWell
  <2>8. JobWell(v)
    BY <1>3, <2>4, <2>5, <2>7 DEF JobWell
  <2>9. JobBecomes(j, v) /\ EntriesBecome(v) /\ HeldBecomes(v)
    BY <2>4, <2>5, <2>6, <2>8 DEF JobBecomes, EntriesBecome, HeldBecomes
  <2> QED BY <2>6, <2>9
<1>6. CASE RetryFetch(j)
  <2> DEFINE v == [jobs[j] EXCEPT !.at = "fetch", !.left = @ - 1]
  <2>1. jobs[j].at = "pause" /\ jobs[j].left > 1 /\ jobs[j].entry = 0
    BY <1>2, <1>6 DEF RetryFetch, JobWell
  <2>2. v \in JobSet /\ v.at = "fetch"
    <3>1. jobs[j].left - 1 \in 1..Attempts
      BY <1>1, <2>1, FileAssumption
    <3> QED BY <1>1, <3>1 DEF JobSet
  <2>3. v.file = jobs[j].file /\ v.kept = jobs[j].kept /\ v.entry = jobs[j].entry
    BY <1>1 DEF JobSet
  <2>4. jobs' = [jobs EXCEPT ![j] = v]
    BY <1>1, <1>6 DEF RetryFetch, JobSet
  <2> HIDE DEF v
  <2>5. /\ entries' = Append(entries, Entry(v.file))
        /\ loadingFiles' = [loadingFiles EXCEPT ![v.file] = Len(entries) + 1]
        /\ UNCHANGED preloadedFiles /\ UNCHANGED <<lastProgress, frames>>
    BY <1>6, <2>3 DEF RetryFetch
  <2>6. JobWell(v)
    BY <1>3, <2>1, <2>2, <2>3 DEF JobWell
  <2>7. JobBecomes(j, v) /\ EntriesBecome(v) /\ HeldBecomes(v)
    BY <2>1, <2>2, <2>3, <2>4, <2>5, <2>6 DEF JobBecomes, EntriesBecome, HeldBecomes
  <2> QED BY <2>5, <2>7
<1>7. CASE FetchAnswers(j)
  <2> DEFINE v == [jobs[j] EXCEPT !.at = "stream", !.entry = loadingFiles[jobs[j].file]]
  <2>1. /\ loadingFiles[jobs[j].file] \in 1..Len(entries)
        /\ entries[loadingFiles[jobs[j].file]].file = jobs[j].file
    BY <1>1, <1>2 DEF LoaderTypes
  <2>2. jobs[j].at = "fetch" /\ jobs[j].entry = 0
    BY <1>2, <1>7 DEF FetchAnswers, JobWell
  <2>3. loadingFiles[jobs[j].file] \in Nat
    BY <1>1, <2>1
  <2>4. v \in JobSet /\ v.at = "stream" /\ v.entry = loadingFiles[jobs[j].file]
    BY <1>1, <2>3 DEF JobSet
  <2>5. v.file = jobs[j].file /\ v.kept = jobs[j].kept
    BY <1>1 DEF JobSet
  <2>6. jobs' = [jobs EXCEPT ![j] = v]
    BY <1>1, <1>7 DEF FetchAnswers, JobSet
  <2> HIDE DEF v
  <2>7. UNCHANGED <<entries, loadingFiles>> /\ UNCHANGED preloadedFiles /\ UNCHANGED <<lastProgress, frames>>
    BY <1>7 DEF FetchAnswers
  <2>8. JobWell(v)
    BY <1>3, <2>4, <2>5 DEF JobWell
  <2>9. Counted(v)
    BY <2>1, <2>4, <2>5 DEF Counted
  <2>10. JobBecomes(j, v) /\ EntriesBecome(v) /\ HeldBecomes(v)
    BY <2>2, <2>4, <2>5, <2>6, <2>7, <2>8, <2>9 DEF JobBecomes, EntriesBecome, HeldBecomes
  <2> QED BY <2>7, <2>10
<1>8. CASE ReadFails(j)
  <2> DEFINE v == [jobs[j] EXCEPT !.at = "broken"]
  <2>1. v \in JobSet /\ jobs' = [jobs EXCEPT ![j] = v] /\ v.at = "broken" /\ jobs[j].at = "stream"
    BY <1>1, <1>8 DEF ReadFails, JobSet
  <2>2. v.file = jobs[j].file /\ v.kept = jobs[j].kept /\ v.entry = jobs[j].entry
    BY <1>1 DEF JobSet
  <2> HIDE DEF v
  <2>3. UNCHANGED <<entries, loadingFiles>> /\ UNCHANGED preloadedFiles /\ UNCHANGED <<lastProgress, frames>>
    BY <1>8 DEF ReadFails
  <2>4. JobWell(v)
    BY <1>3, <2>1, <2>2 DEF JobWell
  <2>5. Counted(v)
    BY <1>4, <2>1, <2>2 DEF Counted
  <2>6. JobBecomes(j, v) /\ EntriesBecome(v) /\ HeldBecomes(v)
    BY <2>1, <2>2, <2>3, <2>4, <2>5 DEF JobBecomes, EntriesBecome, HeldBecomes
  <2> QED BY <2>3, <2>6
<1>9. CASE ReadPiece(j)
  <2> DEFINE v == [jobs[j] EXCEPT !.got = @ + 1]
             w == [entries[jobs[j].entry] EXCEPT !.loaded = @ + 1]
  <2>1. jobs[j].at = "stream" /\ jobs[j].got < Pieces
    BY <1>9 DEF ReadPiece
  <2>2. v \in JobSet /\ v.at = "stream"
    <3>1. jobs[j].got + 1 \in 0..Pieces
      BY <1>1, <2>1, FileAssumption
    <3> QED BY <1>1, <2>1, <3>1 DEF JobSet
  <2>3. v.file = jobs[j].file /\ v.kept = jobs[j].kept /\ v.entry = jobs[j].entry
    BY <1>1 DEF JobSet
  <2>4. jobs' = [jobs EXCEPT ![j] = v]
    BY <1>1, <1>9 DEF ReadPiece, JobSet
  <2>5. Counted(jobs[j])
    BY <1>4, <2>1
  <2>6. PICK x \in 1..Len(entries) : x = jobs[j].entry
    BY <2>5 DEF Counted
  <2>7. entries[x] \in EntrySet /\ entries[x].loaded \in Nat /\ entries[x].done \in BOOLEAN
    BY EntryAt
  <2>8. w \in EntrySet /\ w.loaded = entries[x].loaded + 1 /\ w.file = entries[x].file /\ w.done = entries[x].done
    BY <2>6, <2>7 DEF EntrySet
  <2>9. entries' = [entries EXCEPT ![x] = w]
    BY <1>1, <1>9, <2>6, <2>7 DEF ReadPiece, EntrySet
  <2> HIDE DEF v, w
  <2>10. UNCHANGED loadingFiles /\ UNCHANGED preloadedFiles /\ UNCHANGED <<lastProgress, frames>>
    BY <1>9 DEF ReadPiece
  <2>11. JobWell(v) /\ Counted(v)
    BY <1>3, <2>2, <2>3, <2>5 DEF JobWell, Counted
  <2>12. w.loaded >= entries[x].loaded
    BY <2>7, <2>8
  <2>13. v.entry = x /\ w.file = v.file
    BY <2>3, <2>5, <2>6, <2>8 DEF Counted
  <2>14. EntryGrows(v, w)
    BY <2>8, <2>9, <2>12, <2>13, Zenon DEF EntryGrows
  <2>15. JobBecomes(j, v) /\ EntriesBecome(v) /\ HeldBecomes(v)
    BY <2>1, <2>2, <2>3, <2>4, <2>10, <2>11, <2>14 DEF JobBecomes, EntriesBecome, HeldBecomes
  <2> QED BY <2>10, <2>15
<1>10. CASE ReadEnd(j)
  <2> DEFINE v == [jobs[j] EXCEPT !.at = "done"]
             w == [entries[jobs[j].entry] EXCEPT !.done = TRUE]
             c == IF jobs[j].got = Pieces THEN "whole" ELSE "part"
  <2>1. jobs[j].at = "stream" /\ (jobs[j].got = Pieces \/ entries[jobs[j].entry].done)
    BY <1>10 DEF ReadEnd
  <2>2. v \in JobSet /\ v.at = "done" /\ jobs' = [jobs EXCEPT ![j] = v]
    BY <1>1, <1>10 DEF ReadEnd, JobSet
  <2>3. v.file = jobs[j].file /\ v.kept = jobs[j].kept /\ v.entry = jobs[j].entry
    BY <1>1 DEF JobSet
  <2>4. Counted(jobs[j])
    BY <1>4, <2>1
  <2>5. PICK x \in 1..Len(entries) : x = jobs[j].entry
    BY <2>4 DEF Counted
  <2>6. entries[x] \in EntrySet /\ entries[x].loaded \in Nat /\ entries[x].done \in BOOLEAN
    BY EntryAt
  <2>7. w \in EntrySet /\ w.loaded = entries[x].loaded /\ w.file = entries[x].file
    BY <2>5, <2>6 DEF EntrySet
  <2>8. entries' = [entries EXCEPT ![x] = w]
    BY <1>1, <1>10, <2>5, <2>6 DEF ReadEnd, EntrySet
  <2>9. preloadedFiles' = IF jobs[j].kept THEN [preloadedFiles EXCEPT ![jobs[j].file] = c]
                          ELSE preloadedFiles
    BY <1>10 DEF ReadEnd
  <2>10. c \in {"part", "whole"} /\ (c = "part" => entries[x].done)
    BY <2>1, <2>5
  <2> HIDE DEF v, w, c
  <2>11. UNCHANGED loadingFiles /\ UNCHANGED <<lastProgress, frames>>
    BY <1>10 DEF ReadEnd
  <2>12. JobWell(v) /\ Counted(v)
    BY <1>3, <2>2, <2>3, <2>4 DEF JobWell, Counted
  <2>13. v.entry = x /\ w.file = v.file /\ w.loaded >= entries[x].loaded
    BY <2>3, <2>4, <2>5, <2>6, <2>7 DEF Counted
  <2>14. EntryGrows(v, w)
    BY <2>2, <2>7, <2>8, <2>13, Zenon DEF EntryGrows
  <2>15. HeldBecomes(v)
    <3>1. CASE jobs[j].kept
      <4>1. preloadedFiles' = [preloadedFiles EXCEPT ![v.file] = c] /\ v.kept
        BY <2>3, <2>9, <3>1
      <4> QED BY <2>2, <2>10, <2>13, <4>1, Zenon DEF HeldBecomes
    <3>2. CASE ~jobs[j].kept
      <4>1. preloadedFiles' = preloadedFiles /\ ~v.kept
        BY <2>3, <2>9, <3>2
      <4> QED BY <4>1 DEF HeldBecomes
    <3> QED BY <3>1, <3>2
  <2>16. JobBecomes(j, v) /\ EntriesBecome(v)
    BY <2>1, <2>2, <2>3, <2>11, <2>12, <2>14 DEF JobBecomes, EntriesBecome
  <2> QED BY <2>11, <2>15, <2>16
<1> QED BY <1>5, <1>6, <1>7, <1>8, <1>9, <1>10 DEF JobStep

\* A step of one download.
LEMMA JobStepKeeps ==
  ASSUME LoaderTypeOK, JobsWell, NEW j \in 1..Len(jobs), JobStep(j)
  PROVE  /\ LoaderTypes' /\ Held' /\ JobsWell' /\ JobsKept /\ CountsKept
         /\ Len(jobs') = Len(jobs) /\ lastProgress' = lastProgress /\ frames' \in Nat
         /\ \A f \in Files : preloadedFiles[f] # "none" => preloadedFiles'[f] # "none"
         /\ \A f \in Files : preloadedFiles'[f] = "part" => preloadedFiles[f] = "part" \/ CountedTogether(f)'
         /\ \A k \in 1..Len(jobs) :
              jobs'[k].at = "done" /\ jobs[k].at # "done" /\ jobs[k].file # Wasm
                => preloadedFiles'[jobs[k].file] # "none"
<1>1. LoaderTypes /\ Held /\ lastProgress \in [loaded : Nat, total : Nat] /\ frames \in Nat
  BY LoaderParts
<1>2. /\ jobs[j] \in JobSet /\ jobs[j].file \in Files
      /\ jobs \in Seq(JobSet) /\ entries \in Seq(EntrySet) /\ Len(jobs) \in Nat /\ Len(entries) \in Nat
  BY <1>1, JobAt DEF LoaderTypes
<1>3. PICK v \in JobSet : JobBecomes(j, v) /\ EntriesBecome(v) /\ HeldBecomes(v)
  BY <1>1, JobMoves DEF JobBecomes
<1>4. UNCHANGED <<lastProgress, frames>>
  BY <1>1, JobMoves
<1>5. /\ jobs' \in Seq(JobSet) /\ Len(jobs') = Len(jobs) /\ jobs'[j] = v
      /\ \A k \in 1..Len(jobs) : k # j => jobs'[k] = jobs[k]
  <2>1. jobs' = [jobs EXCEPT ![j] = v]
    BY <1>3 DEF JobBecomes
  <2> QED BY <1>2, <2>1, Replaced
<1>6. /\ v.file = jobs[j].file /\ (v.kept <=> jobs[j].kept)
      /\ jobs[j].entry # 0 => v.entry = jobs[j].entry
      /\ JobWell(v) /\ jobs[j].at # "done"
      /\ v.at \in {"stream", "done", "broken"} => Counted(v)
      /\ v.entry \in Nat /\ v.file \in Files
  BY <1>2, <1>3 DEF JobBecomes, JobSet
<1>7. JobsKept
  <2>1. ASSUME NEW k \in 1..Len(jobs)
        PROVE  /\ jobs'[k].file = jobs[k].file
               /\ jobs[k].at = "done" => jobs'[k].at = "done"
               /\ jobs[k].entry # 0 => jobs'[k].entry = jobs[k].entry
    BY <1>5, <1>6
  <2> QED BY <1>2, <1>5, <2>1 DEF JobsKept
<1>8. \A f \in Files : loadingFiles[f] # 0 => loadingFiles[f] \in 1..Len(entries) /\ entries[loadingFiles[f]].file = f
  BY <1>1, <1>2 DEF LoaderTypes
<1>9. loadingFiles \in [Files -> 0..Len(entries)]
  BY <1>1 DEF LoaderTypes
<1>10. \A k \in 1..Len(jobs) :
         jobs'[k].at \in {"stream", "done", "broken"} => jobs'[k].entry \in 1..Len(entries) /\ entries[jobs'[k].entry].file = jobs'[k].file
  <2> SUFFICES ASSUME NEW k \in 1..Len(jobs), jobs'[k].at \in {"stream", "done", "broken"}
               PROVE  jobs'[k].entry \in 1..Len(entries) /\ entries[jobs'[k].entry].file = jobs'[k].file
    OBVIOUS
  <2>1. CASE k = j
    BY <1>5, <1>6, <2>1 DEF Counted
  <2>2. CASE k # j
    <3>1. jobs'[k] = jobs[k]
      BY <1>5, <2>2
    <3> QED BY <1>1, <3>1 DEF LoaderTypes, Counted
  <2> QED BY <2>1, <2>2
\* The entries, by what the step does to them.
<1> DEFINE Kept ==
        /\ entries' \in Seq(EntrySet) /\ Len(entries') \in Nat /\ Len(entries) <= Len(entries')
        /\ \A x \in 1..Len(entries) :
             x \in 1..Len(entries') /\ entries'[x].file = entries[x].file
             /\ entries'[x].loaded >= entries[x].loaded
        /\ \A x \in 1..Len(entries') :
             /\ entries'[x].done => \/ x \in 1..Len(entries) /\ entries[x].done
                                    \/ v.at = "done" /\ v.entry = x
             /\ entries'[x].loaded # 0 => \/ x \in 1..Len(entries) /\ entries[x].loaded # 0
                                          \/ v.entry = x
        /\ loadingFiles' \in [Files -> 0..Len(entries')]
        /\ \A f \in Files : loadingFiles[f] # 0 => loadingFiles'[f] # 0
        /\ \A f \in Files : loadingFiles'[f] # 0 => entries'[loadingFiles'[f]].file = f
        /\ \A f \in Files : loadingFiles'[f] # loadingFiles[f] => f = v.file /\ v.entry = 0
<1>11. Kept
  <2>0. \A x \in 1..Len(entries) : entries[x].loaded \in Nat
    BY <1>1, EntryAt
  <2>1. CASE UNCHANGED <<entries, loadingFiles>>
    BY <1>2, <1>8, <1>9, <2>0, <2>1
  <2>2. CASE /\ v.entry = 0 /\ entries' = Append(entries, Entry(v.file))
             /\ loadingFiles' = [loadingFiles EXCEPT ![v.file] = Len(entries) + 1]
    <3>1. Entry(v.file) \in EntrySet
      BY <1>6, JobType
    <3>2. /\ Len(entries') = Len(entries) + 1 /\ entries' \in Seq(EntrySet)
          /\ entries'[Len(entries) + 1] = Entry(v.file)
          /\ \A x \in 1..Len(entries) : x \in 1..Len(entries') /\ entries'[x] = entries[x]
      BY <1>2, <2>2, <3>1, AppendProperties
    <3>3. \A x \in 1..Len(entries') : x \in 1..Len(entries) \/ x = Len(entries) + 1
      BY <1>2, <3>2
    <3>4. ~Entry(v.file).done /\ Entry(v.file).loaded = 0 /\ Entry(v.file).file = v.file
      BY DEF Entry
    <3>5. \A f \in Files : loadingFiles'[f] = IF f = v.file THEN Len(entries) + 1 ELSE loadingFiles[f]
      BY <1>9, <2>2
    <3>6. loadingFiles' \in [Files -> 0..Len(entries')]
      <4>1. 0..Len(entries) \subseteq 0..Len(entries') /\ Len(entries) + 1 \in 0..Len(entries')
        BY <1>2, <3>2
      <4> QED BY <1>9, <2>2, <4>1
    <3>7. /\ entries' \in Seq(EntrySet) /\ Len(entries') \in Nat /\ Len(entries) <= Len(entries')
          /\ \A x \in 1..Len(entries) :
               x \in 1..Len(entries') /\ entries'[x].file = entries[x].file
               /\ entries'[x].loaded >= entries[x].loaded
      BY <1>2, <2>0, <3>2
    <3>8. \A x \in 1..Len(entries') :
             /\ entries'[x].done => x \in 1..Len(entries) /\ entries[x].done
             /\ entries'[x].loaded # 0 => x \in 1..Len(entries) /\ entries[x].loaded # 0
      BY <3>2, <3>3, <3>4
    <3>9. /\ \A f \in Files : loadingFiles[f] # 0 => loadingFiles'[f] # 0
          /\ \A f \in Files : loadingFiles'[f] # 0 => entries'[loadingFiles'[f]].file = f
          /\ \A f \in Files : loadingFiles'[f] # loadingFiles[f] => f = v.file /\ v.entry = 0
      BY <1>2, <1>8, <2>2, <3>2, <3>4, <3>5
    <3> QED BY <3>6, <3>7, <3>8, <3>9
  <2>3. ASSUME Counted(v), UNCHANGED loadingFiles, NEW w, EntryGrows(v, w) PROVE Kept
    <3>1. v.entry \in 1..Len(entries) /\ entries[v.entry].file = v.file
      BY <2>3 DEF Counted
    <3>2. /\ entries' = [entries EXCEPT ![v.entry] = w] /\ w \in EntrySet
          /\ w.file = v.file /\ w.loaded >= entries[v.entry].loaded
          /\ w.done => entries[v.entry].done \/ v.at = "done"
      BY <2>3 DEF EntryGrows
    <3>3. /\ entries' \in Seq(EntrySet) /\ Len(entries') = Len(entries) /\ entries'[v.entry] = w
          /\ \A x \in 1..Len(entries) : x # v.entry => entries'[x] = entries[x]
      BY <1>2, <3>1, <3>2, Replaced
    <3>4. ASSUME NEW x \in 1..Len(entries)
          PROVE  /\ entries'[x].file = entries[x].file /\ entries'[x].loaded >= entries[x].loaded
                 /\ entries'[x].done => entries[x].done \/ (v.at = "done" /\ v.entry = x)
                 /\ entries'[x].loaded # 0 => entries[x].loaded # 0 \/ v.entry = x
      <4>1. CASE x = v.entry
        BY <3>1, <3>2, <3>3, <4>1
      <4>2. CASE x # v.entry
        <5>1. entries'[x] = entries[x]
          BY <3>3, <4>2
        <5>2. entries'[x].loaded >= entries[x].loaded
          BY <2>0, <5>1
        <5> QED BY <5>1, <5>2, Zenon
      <4> QED BY <4>1, <4>2
    <3>5. \A f \in Files : loadingFiles[f] # 0 => entries'[loadingFiles[f]].file = f
      BY <1>8, <3>4
    <3>6. /\ Len(entries') \in Nat /\ Len(entries) <= Len(entries')
          /\ \A x \in 1..Len(entries) : x \in 1..Len(entries')
      BY <1>2, <3>3
    <3>7. \A x \in 1..Len(entries') :
             /\ entries'[x].done => \/ x \in 1..Len(entries) /\ entries[x].done
                                    \/ v.at = "done" /\ v.entry = x
             /\ entries'[x].loaded # 0 => \/ x \in 1..Len(entries) /\ entries[x].loaded # 0
                                          \/ v.entry = x
      BY <3>3, <3>4
    <3>8. /\ loadingFiles' \in [Files -> 0..Len(entries')]
          /\ \A f \in Files : loadingFiles'[f] = loadingFiles[f]
      BY <1>9, <2>3, <3>3
    <3> QED BY <2>3, <3>3, <3>4, <3>5, <3>6, <3>7, <3>8
  <2> QED BY <1>3, <2>1, <2>2, <2>3 DEF EntriesBecome
<1>12. LoaderTypes'
  <2>1. \A k \in 1..Len(jobs') : jobs'[k].at \in {"stream", "done", "broken"} => Counted(jobs[k])'
    BY <1>5, <1>10, <1>11 DEF Counted
  <2>2. Len(jobs') <= MaxLoads
    BY <1>1, <1>5 DEF LoaderTypes
  <2> QED BY <1>5, <1>11, <2>1, <2>2 DEF LoaderTypes
<1>13. JobsWell'
  <2>1. ASSUME NEW k \in 1..Len(jobs') PROVE JobWell(jobs'[k]) /\ loadingFiles'[jobs'[k].file] # 0
    <3>1. JobWell(jobs[k]) /\ loadingFiles[jobs[k].file] # 0 /\ jobs[k].file \in Files
      BY <1>1, <1>5, JobAt DEF JobsWell
    <3>2. jobs'[k].file = jobs[k].file /\ (jobs'[k] = jobs[k] \/ jobs'[k] = v)
      BY <1>5, <1>6
    <3> QED BY <1>6, <1>11, <3>1, <3>2
  <2>2. ASSUME NEW x \in 1..Len(entries')
        PROVE  /\ entries'[x].done => \E k \in 1..Len(jobs') : jobs'[k].entry = x /\ jobs'[k].at = "done"
               /\ entries'[x].loaded # 0 => \E k \in 1..Len(jobs') : jobs'[k].entry = x
    <3>1. ASSUME entries'[x].done PROVE \E k \in 1..Len(jobs') : jobs'[k].entry = x /\ jobs'[k].at = "done"
      <4>1. CASE x \in 1..Len(entries) /\ entries[x].done
        <5>1. PICK k \in 1..Len(jobs) : jobs[k].entry = x /\ jobs[k].at = "done"
          BY <4>1 DEF JobsWell
        <5>2. jobs'[k] = jobs[k]
          BY <1>5, <1>6, <5>1
        <5> QED BY <1>5, <5>1, <5>2
      <4>2. CASE v.at = "done" /\ v.entry = x
        BY <1>5, <4>2
      <4> QED BY <1>11, <3>1, <4>1, <4>2
    <3>2. ASSUME entries'[x].loaded # 0 PROVE \E k \in 1..Len(jobs') : jobs'[k].entry = x
      <4>1. CASE x \in 1..Len(entries) /\ entries[x].loaded # 0
        <5>1. PICK k \in 1..Len(jobs) : jobs[k].entry = x
          BY <4>1 DEF JobsWell
        <5>2. x # 0
          BY <1>2, <4>1
        <5>3. jobs'[k].entry = x
          BY <1>7, <5>1, <5>2 DEF JobsKept
        <5> QED BY <1>5, <5>3
      <4>2. CASE v.entry = x
        BY <1>5, <4>2
      <4> QED BY <1>11, <3>2, <4>1, <4>2
    <3> QED BY <3>1, <3>2
  <2>3. ASSUME NEW f \in Files, loadingFiles'[f] # 0 PROVE \E k \in 1..Len(jobs') : jobs'[k].file = f
    <3>1. CASE loadingFiles'[f] = loadingFiles[f]
      <4>1. PICK k \in 1..Len(jobs) : jobs[k].file = f
        BY <2>3, <3>1 DEF JobsWell
      <4> QED BY <1>5, <1>7, <4>1 DEF JobsKept
    <3>2. CASE loadingFiles'[f] # loadingFiles[f]
      BY <1>5, <1>11, <3>2
    <3> QED BY <3>1, <3>2
  <2> QED BY <2>1, <2>2, <2>3 DEF JobsWell
\* A file goes over to a new entry only from one that its only job has not come to.
<1>14. CountsKept
  <2> SUFFICES ASSUME AskedOnce', NEW f \in Files, loadingFiles[f] # 0
               PROVE  /\ loadingFiles'[f] # 0
                      /\ entries[loadingFiles[f]].loaded <= entries'[loadingFiles'[f]].loaded
    BY DEF CountsKept
  <2>1. PICK x \in 1..Len(entries) : x = loadingFiles[f] /\ entries[x].file = f /\ entries[x].loaded \in Nat
    BY <1>1, <1>8, EntryAt
  <2>2. PICK y \in 1..Len(entries') : y = loadingFiles'[f] /\ entries'[y].loaded \in Nat
    <3>1. loadingFiles'[f] \in 1..Len(entries')
      BY <1>11
    <3>2. entries'[loadingFiles'[f]] \in EntrySet
      BY <1>11, <3>1
    <3> QED BY <3>1, <3>2 DEF EntrySet
  <2>3. CASE y = x
    <3>1. entries'[x].loaded >= entries[x].loaded
      BY <1>11
    <3> QED BY <1>11, <2>1, <2>2, <2>3, <3>1
  <2>4. CASE y # x
    <3>1. f = v.file /\ v.entry = 0
      BY <1>11, <2>1, <2>2, <2>4
    <3>2. \A i, k \in 1..Len(jobs) : jobs[i].file = jobs[k].file => i = k
      <4>1. DOMAIN jobs' = 1..Len(jobs)
        BY <1>5
      <4> QED BY <1>7, <4>1 DEF AskedOnce, JobsKept
    <3>3. entries[x].loaded = 0
      <4> SUFFICES ASSUME entries[x].loaded # 0 PROVE FALSE
        OBVIOUS
      <4>1. PICK k \in 1..Len(jobs) : jobs[k].entry = x
        BY DEF JobsWell
      <4>2. x # 0
        BY <1>2
      <4>3. jobs[k].at \in {"stream", "done", "broken"}
        <5>1. JobWell(jobs[k]) /\ jobs[k] \in JobSet
          BY <1>1, JobAt DEF JobsWell
        <5> QED BY <4>1, <4>2, <5>1 DEF JobWell, JobSet
      <4>4. jobs[k].file = f
        BY <1>1, <2>1, <4>1, <4>3 DEF LoaderTypes, Counted
      <4>5. k = j
        BY <1>6, <3>1, <3>2, <4>4
      <4> QED BY <1>6, <3>1, <4>1, <4>2, <4>5
    <3> QED BY <1>11, <2>1, <2>2, <3>3
  <2> QED BY <2>3, <2>4
\* What is held in memory.
<1>15. /\ Held'
       /\ \A f \in Files : preloadedFiles[f] # "none" => preloadedFiles'[f] # "none"
       /\ \A f \in Files : preloadedFiles'[f] = "part" => preloadedFiles[f] = "part" \/ CountedTogether(f)'
       /\ v.at = "done" /\ v.file # Wasm => preloadedFiles'[v.file] # "none"
  <2>1. CASE ~(v.at = "done" /\ v.kept) /\ UNCHANGED preloadedFiles
    BY <1>1, <1>6, <2>1 DEF Held, JobWell
  <2>2. ASSUME NEW c \in {"part", "whole"}, v.at = "done" /\ v.kept,
               preloadedFiles' = [preloadedFiles EXCEPT ![v.file] = c],
               c = "part" => entries[v.entry].done
        PROVE  /\ Held'
               /\ \A f \in Files : preloadedFiles[f] # "none" => preloadedFiles'[f] # "none"
               /\ \A f \in Files : preloadedFiles'[f] = "part" => preloadedFiles[f] = "part" \/ CountedTogether(f)'
               /\ v.at = "done" /\ v.file # Wasm => preloadedFiles'[v.file] # "none"
    <3>1. \A f \in Files : preloadedFiles'[f] = IF f = v.file THEN c ELSE preloadedFiles[f]
      BY <1>1, <2>2 DEF Held
    <3>2. v.file # Wasm
      BY <1>6, <2>2 DEF JobWell
    <3>3. Held'
      <4>1. preloadedFiles' \in [Files -> Copies]
        BY <1>1, <2>2 DEF Held, Copies
      <4> QED BY <1>1, <3>1, <3>2, <4>1, FileAssumption DEF Held
    <3>4. c = "part" => CountedTogether(v.file)'
      <4> SUFFICES ASSUME c = "part" PROVE CountedTogether(v.file)'
        OBVIOUS
      <4>1. v.entry \in 1..Len(entries)
        BY <1>6, <2>2 DEF Counted
      <4>2. PICK k \in 1..Len(jobs) : jobs[k].entry = v.entry /\ jobs[k].at = "done"
        BY <2>2, <4>1 DEF JobsWell
      <4>3. k # j /\ jobs'[k] = jobs[k] /\ v.entry # 0
        BY <1>2, <1>5, <1>6, <4>1, <4>2
      <4>4. DOMAIN jobs' = 1..Len(jobs)
        BY <1>5
      <4> QED BY <1>5, <4>2, <4>3, <4>4 DEF CountedTogether
    <3>5. ASSUME NEW f \in Files, preloadedFiles'[f] = "part"
          PROVE  preloadedFiles[f] = "part" \/ CountedTogether(f)'
      <4>1. CASE f = v.file
        BY <3>1, <3>4, <3>5, <4>1
      <4>2. CASE f # v.file
        BY <3>1, <3>5, <4>2
      <4> QED BY <4>1, <4>2
    <3> QED BY <1>6, <3>1, <3>3, <3>5
  <2> QED BY <1>3, <2>1, <2>2 DEF HeldBecomes
<1>16. \A k \in 1..Len(jobs) :
         jobs'[k].at = "done" /\ jobs[k].at # "done" /\ jobs[k].file # Wasm
           => preloadedFiles'[jobs[k].file] # "none"
  BY <1>5, <1>6, <1>15
<1> QED BY <1>1, <1>4, <1>5, <1>7, <1>12, <1>13, <1>14, <1>15, <1>16

\* When the downloads stay as they are.
LEMMA JobsSame ==
  ASSUME LoaderTypes, UNCHANGED <<jobs, entries, loadingFiles>>
  PROVE  LoaderTypes' /\ JobsKept /\ CountsKept
<1>1. LoaderTypes'
  BY DEF LoaderTypes, Counted
<1>2. Len(jobs) \in Nat
  BY DEF LoaderTypes
<1>3. ASSUME NEW f \in Files, loadingFiles[f] # 0
      PROVE  entries[loadingFiles[f]].loaded <= entries[loadingFiles[f]].loaded
  <2>1. loadingFiles[f] \in 1..Len(entries)
    BY <1>3 DEF LoaderTypes
  <2>2. entries[loadingFiles[f]].loaded \in Nat
    BY <2>1, EntryAt
  <2> QED BY <2>2
<1>4. CountsKept
  BY <1>3 DEF CountsKept
<1> QED BY <1>1, <1>2, <1>4 DEF JobsKept

-----------------------------------------------------------------------------
(* What is reported.                                                           *)

PiecesLoaded == UNION { {f} \X (1..Stat(f).loaded) : f \in Tracked }

LEMMA ProgressLoaded == Progress.loaded = Cardinality(PiecesLoaded)
<1>1. PiecesOf([f \in Tracked |-> Stat(f).loaded]) = PiecesLoaded
  BY DEF PiecesOf, PiecesLoaded
<1> QED BY <1>1, Zenon DEF Progress

LEMMA PiecesFinite ==
  ASSUME NEW size, \A f \in Tracked : size[f] \in Nat
  PROVE  IsFiniteSet(PiecesOf(size)) /\ Cardinality(PiecesOf(size)) \in Nat
<1> DEFINE Parts == { {f} \X (1..size[f]) : f \in Tracked }
<1>1. IsFiniteSet(Tracked)
  <2>1. Tracked \in SUBSET Files
    BY DEF Tracked
  <2> QED BY <2>1, FileAssumption, FS_Subset
<1>2. IsFiniteSet(Parts)
  <2> DEFINE part == [f \in Tracked |-> {f} \X (1..size[f])]
  <2>1. part \in Surjection(Tracked, Parts)
    BY DEF Surjection
  <2> QED BY <1>1, <2>1, FS_Surjection
<1>3. ASSUME NEW p \in Parts PROVE IsFiniteSet(p)
  <2>1. PICK f \in Tracked : p = {f} \X (1..size[f])
    OBVIOUS
  <2>2. IsFiniteSet({f}) /\ IsFiniteSet(1..size[f])
    <3>1. size[f] \in Int /\ 1 \in Int
      OBVIOUS
    <3>2. IsFiniteSet(1..size[f])
      BY <3>1, FS_Interval
    <3> QED BY <3>2, FS_Singleton
  <2> QED BY <2>1, <2>2, FS_Product
<1>4. IsFiniteSet(UNION Parts)
  BY <1>2, <1>3, FS_UNION
<1>5. IsFiniteSet(PiecesOf(size))
  BY <1>4 DEF PiecesOf
<1> QED BY <1>5, FS_CardinalityType

LEMMA TrackedAt ==
  ASSUME LoaderTypes, NEW f \in Tracked
  PROVE  /\ f \in Files /\ loadingFiles[f] \in 1..Len(entries)
         /\ Stat(f).loaded \in Nat
<1>1. f \in Files /\ loadingFiles[f] \in 1..Len(entries)
  BY DEF Tracked, LoaderTypes
<1>2. entries[loadingFiles[f]].loaded \in Nat
  BY <1>1, EntryAt
<1> QED BY <1>1, <1>2 DEF Stat

LEMMA ProgressType ==
  ASSUME LoaderTypes
  PROVE  /\ Progress \in [loaded : Nat, total : Nat]
         /\ IsFiniteSet(PiecesLoaded) /\ Cardinality(PiecesLoaded) \in Nat
<1> DEFINE size == [f \in Tracked |-> Stat(f).loaded]
<1>1. IsFiniteSet(PiecesOf(size)) /\ Cardinality(PiecesOf(size)) \in Nat
  <2>1. \A f \in Tracked : size[f] \in Nat
    BY TrackedAt
  <2> HIDE DEF size
  <2> QED BY <2>1, PiecesFinite
<1>2. PiecesOf(size) = PiecesLoaded
  BY DEF PiecesOf, PiecesLoaded
<1>3. Cardinality(PiecesOf(FileSizes)) \in Nat
  BY PiecesFinite, FileAssumption DEF Tracked
<1>4. Progress.loaded = Cardinality(PiecesOf(size)) /\ Progress.total \in Nat
      /\ Progress = [loaded |-> Progress.loaded, total |-> Progress.total]
  BY <1>3 DEF Progress
<1> QED BY <1>1, <1>2, <1>4

\* While no file is asked for twice, no count of a file that came in is lost.
LEMMA ReportedStays ==
  ASSUME LoaderTypes, LoaderTypes', JobsKept, CountsKept, Reported,
         lastProgress.loaded \in Nat, lastProgress' = lastProgress
  PROVE  Reported'
<1> SUFFICES ASSUME AskedOnce' PROVE lastProgress.loaded <= Progress'.loaded
  BY DEF Reported
<1>1. /\ Len(jobs) \in Nat /\ Len(jobs') \in Nat /\ Len(jobs) <= Len(jobs')
      /\ DOMAIN jobs = 1..Len(jobs) /\ DOMAIN jobs' = 1..Len(jobs')
      /\ \A j \in 1..Len(jobs) : jobs'[j].file = jobs[j].file
  BY DEF LoaderTypes, JobsKept
<1>2. \A j \in 1..Len(jobs) : j \in 1..Len(jobs')
  BY <1>1
<1>3. AskedOnce
  BY <1>1, <1>2 DEF AskedOnce
<1>4. ASSUME NEW f \in Tracked
      PROVE  f \in Tracked' /\ Stat(f).loaded <= Stat(f)'.loaded /\ Stat(f)'.loaded \in Nat
  <2>1. f \in Files /\ loadingFiles[f] # 0
    BY DEF Tracked
  <2>2. loadingFiles'[f] # 0 /\ entries[loadingFiles[f]].loaded <= entries'[loadingFiles'[f]].loaded
    BY <2>1 DEF CountsKept
  <2>3. entries'[loadingFiles'[f]].loaded \in Nat
    <3>1. loadingFiles'[f] \in 1..Len(entries') /\ entries' \in Seq(EntrySet)
      BY <2>1, <2>2 DEF LoaderTypes
    <3>2. entries'[loadingFiles'[f]] \in EntrySet
      BY <3>1
    <3> QED BY <3>2 DEF EntrySet
  <2> QED BY <2>1, <2>2, <2>3 DEF Tracked, Stat
<1>5. PiecesLoaded \subseteq PiecesLoaded'
  <2> SUFFICES ASSUME NEW p \in PiecesLoaded PROVE p \in PiecesLoaded'
    OBVIOUS
  <2>1. PICK f \in Tracked : p \in {f} \X (1..Stat(f).loaded)
    BY DEF PiecesLoaded
  <2>2. Stat(f).loaded \in Nat
    BY TrackedAt
  <2>3. 1..Stat(f).loaded \subseteq 1..Stat(f)'.loaded
    BY <1>4, <2>2
  <2>4. p \in {f} \X (1..Stat(f)'.loaded) /\ f \in Tracked'
    BY <1>4, <2>1, <2>3
  <2> QED BY <2>4 DEF PiecesLoaded
<1>6. /\ IsFiniteSet(PiecesLoaded') /\ Cardinality(PiecesLoaded') \in Nat
      /\ Progress'.loaded = Cardinality(PiecesLoaded')
  <2>1. LoaderTypes' => IsFiniteSet(PiecesLoaded)' /\ (Cardinality(PiecesLoaded) \in Nat)'
    BY ProgressType, PTL
  <2>2. (Progress.loaded = Cardinality(PiecesLoaded))'
    BY ProgressLoaded, PTL
  <2> QED BY <2>1, <2>2
<1>7. Cardinality(PiecesLoaded) <= Cardinality(PiecesLoaded') /\ Cardinality(PiecesLoaded) \in Nat
  BY <1>5, <1>6, FS_Subset, ProgressType
<1>8. lastProgress.loaded <= Cardinality(PiecesLoaded)
  BY <1>3, ProgressLoaded DEF Reported
<1> QED BY <1>6, <1>7, <1>8

LEMMA FrameKeeps ==
  ASSUME LoaderTypeOK, JobsWell, Frame
  PROVE  /\ LoaderTypeOK' /\ JobsWell' /\ JobsKept /\ CountsKept /\ Reported'
         /\ UNCHANGED <<jobs, entries, loadingFiles, preloadedFiles>> /\ lastProgress' = Progress
<1>1. LoaderTypes /\ frames \in Nat /\ Held /\ Progress \in [loaded : Nat, total : Nat]
  BY LoaderParts, ProgressType
<1>2. UNCHANGED <<jobs, entries, loadingFiles, preloadedFiles>> /\ lastProgress' = Progress /\ frames' \in Nat
  BY <1>1 DEF Frame
<1>3. LoaderTypeOK' /\ JobsWell'
  BY <1>1, <1>2 DEF LoaderTypeOK, JobsWell, Tracked, Stat
<1>4. JobsKept /\ CountsKept
  BY <1>1, <1>2, JobsSame
<1>5. Progress' = Progress
  BY <1>2 DEF Progress, PiecesOf, Tracked, Stat
<1>6. Reported'
  <2>1. Progress.loaded \in Nat
    BY <1>1
  <2>2. Progress.loaded <= Progress.loaded
    BY <2>1
  <2> QED BY <1>2, <1>5, <2>2 DEF Reported
<1> QED BY <1>2, <1>3, <1>4, <1>6

-----------------------------------------------------------------------------
(* load() and init().                                                          *)

Reports == progressFunc \in Engines \cup {""}
Shown == present \in Browsers /\ status \in {"", "progress", "notice", "hidden"}
EngineTypes ==
  /\ loadPromise \in 0..Len(jobs) /\ initPromise \in 0..Len(inits)
  /\ inits \in Seq(InitSet) /\ Len(inits) <= MaxInits
  /\ \A i \in 1..Len(inits) : inits[i].at # "refused" => jobs[inits[i].job].file = Wasm
  /\ rtenv \in [Engines -> 0..Len(inits)]
  /\ start \in [Engines -> StartSet(Len(inits), Len(jobs))]
  /\ Reports /\ Shown

LEMMA TypeParts == TypeOK <=> LoaderTypeOK /\ EngineTypes
<1>1. inits \in Seq(InitSet) => DOMAIN inits = 1..Len(inits)
  OBVIOUS
<1> QED BY <1>1 DEF TypeOK, EngineTypes, Reports, Shown, InitSet, StartSet, Copies

\* What a call has asked for.
AskedFor(files) ==
  /\ LoaderTypes' /\ JobsWell' /\ JobsKept /\ CountsKept
  /\ \A j \in 1..Len(jobs) : jobs'[j] = jobs[j]
  /\ \A f \in Files : files = <<f>> =>
       /\ Len(jobs') \in 1..MaxLoads /\ Len(jobs') > Len(jobs)
       /\ jobs'[Len(jobs')].file = f /\ jobs'[Len(jobs')].at = "fetch"
LoadPromised == loadPromise # 0 => jobs[loadPromise].file = Wasm

LEMMA FilesAsked ==
  ASSUME LoaderTypes, JobsWell, NEW files \in Seq(Files), LoadAll(files)
  PROVE  AskedFor(files)
<1>1. /\ LoaderTypes' /\ JobsWell' /\ JobsKept /\ CountsKept
      /\ Len(jobs') = Len(jobs) + Len(files) /\ Len(jobs) \in Nat
      /\ \A j \in 1..Len(jobs) : jobs'[j] = jobs[j]
      /\ \A k \in 1..Len(files) : jobs'[Len(jobs) + k] = Job(files[k], files[k] # Wasm)
  BY LoadAllKeeps, LoadedAll
<1>2. ASSUME NEW f \in Files, files = <<f>>
      PROVE  /\ Len(jobs') \in 1..MaxLoads /\ Len(jobs') > Len(jobs)
             /\ jobs'[Len(jobs')].file = f /\ jobs'[Len(jobs')].at = "fetch"
  <2>1. Len(files) = 1 /\ files[1] = f /\ 1 \in 1..Len(files)
    BY <1>2
  <2>2. Len(jobs') = Len(jobs) + 1 /\ Len(jobs') <= MaxLoads
    BY <1>1, <2>1 DEF LoaderTypes
  <2>3. jobs'[Len(jobs) + 1] = Job(f, f # Wasm)
    BY <1>1, <2>1
  <2>4. jobs'[Len(jobs')].file = f /\ jobs'[Len(jobs')].at = "fetch"
    BY <2>2, <2>3 DEF Job
  <2> QED BY <1>1, <2>2, <2>4, FileAssumption
<1> QED BY <1>1, <1>2 DEF AskedFor

\* The engine's own file is asked for first, or it was before.
LEMMA LoadCalled ==
  ASSUME LoaderTypes, JobsWell, loadPromise \in 0..Len(jobs), LoadPromised, frames \in Nat,
         NEW files \in Seq(Files), CallLoad(files)
  PROVE  /\ AskedFor(files) /\ frames' \in Nat
         /\ loadPromise' \in 1..Len(jobs') /\ jobs'[loadPromise'].file = Wasm
<1>1. CASE loadPromise # 0
  <2>1. LoadAll(files) /\ loadPromise' = loadPromise /\ frames' = frames
    BY <1>1 DEF CallLoad
  <2>2. AskedFor(files)
    BY <2>1, FilesAsked
  <2>3. /\ Len(jobs') = Len(jobs) + Len(files) /\ Len(jobs) \in Nat /\ Len(files) \in Nat
        /\ \A j \in 1..Len(jobs) : jobs'[j] = jobs[j]
    BY <2>1, LoadAllKeeps
  <2> QED BY <1>1, <2>1, <2>2, <2>3 DEF LoadPromised
<1>2. CASE loadPromise = 0
  <2> DEFINE all == <<Wasm>> \o files
  <2>1. LoadAll(all) /\ loadPromise' = Len(jobs) + 1 /\ frames' = frames + 1
    BY <1>2 DEF CallLoad
  <2>2. /\ all \in Seq(Files) /\ Len(all) = 1 + Len(files) /\ Len(files) \in Nat
        /\ all[1] = Wasm /\ \A k \in 1..Len(files) : all[1 + k] = files[k]
    <3>1. <<Wasm>> \in Seq(Files) /\ Len(<<Wasm>>) = 1 /\ <<Wasm>>[1] = Wasm
      BY FileAssumption
    <3>2. /\ all \in Seq(Files) /\ Len(all) = 1 + Len(files) /\ Len(files) \in Nat
          /\ \A k \in 1..(1 + Len(files)) : all[k] = IF k <= 1 THEN <<Wasm>>[k] ELSE files[k - 1]
      BY <3>1, ConcatProperties
    <3>3. ASSUME NEW k \in 1..Len(files) PROVE all[1 + k] = files[k]
      <4>1. 1 + k \in 1..(1 + Len(files)) /\ ~(1 + k <= 1) /\ (1 + k) - 1 = k
        BY <3>2
      <4> QED BY <3>2, <4>1
    <3>4. all[1] = Wasm
      BY <3>1, <3>2
    <3> QED BY <3>2, <3>3, <3>4
  <2> HIDE DEF all
  <2>3. /\ LoaderTypes' /\ JobsWell' /\ JobsKept /\ CountsKept
        /\ Len(jobs') = Len(jobs) + (1 + Len(files)) /\ Len(jobs) \in Nat
        /\ \A j \in 1..Len(jobs) : jobs'[j] = jobs[j]
        /\ \A k \in 1..Len(all) : jobs'[Len(jobs) + k] = Job(all[k], all[k] # Wasm)
    BY <2>1, <2>2, LoadAllKeeps, LoadedAll
  <2>4. jobs'[Len(jobs) + 1].file = Wasm /\ Len(jobs) + 1 \in 1..Len(jobs')
    <3>1. jobs'[Len(jobs) + 1] = Job(Wasm, Wasm # Wasm)
      BY <2>2, <2>3
    <3> QED BY <2>2, <2>3, <3>1 DEF Job
  <2>5. ASSUME NEW f \in Files, files = <<f>>
        PROVE  /\ Len(jobs') \in 1..MaxLoads /\ Len(jobs') > Len(jobs)
               /\ jobs'[Len(jobs')].file = f /\ jobs'[Len(jobs')].at = "fetch"
    <3>1. Len(files) = 1 /\ files[1] = f /\ 1 \in 1..Len(files)
      BY <2>5
    <3>2. Len(all) = 2 /\ all[2] = f
      BY <2>2, <3>1
    <3>3. Len(jobs') = Len(jobs) + 2 /\ Len(jobs') <= MaxLoads
      BY <2>3, <3>1 DEF LoaderTypes
    <3>4. jobs'[Len(jobs) + 2] = Job(f, f # Wasm)
      BY <2>3, <3>2
    <3>5. jobs'[Len(jobs')].file = f /\ jobs'[Len(jobs')].at = "fetch"
      BY <3>3, <3>4 DEF Job
    <3> QED BY <2>3, <3>3, <3>5, FileAssumption
  <2>6. AskedFor(files)
    BY <2>3, <2>5 DEF AskedFor
  <2> QED BY <2>1, <2>4, <2>6
<1> QED BY <1>1, <1>2

\* init() makes a promise of its own or shares the one there is.
InitShared == initPromise # 0 /\ UNCHANGED <<initPromise, inits>>
InitMade(e, new) ==
  /\ initPromise = 0 /\ initPromise' = Len(inits) + 1 /\ inits' = Append(inits, new)
  /\ new \in InitSet /\ new.owner = e /\ new.at \in {"load", "refused"}
  /\ new.fs[Pack] = "none"
  /\ new.at # "refused" => new.job \in 1..Len(jobs') /\ jobs'[new.job].file = Wasm

LEMMA NewInit ==
  ASSUME NEW e \in Engines, NEW j \in 0..MaxLoads, NEW at \in {"load", "refused"}
  PROVE  /\ InitOf(e, j, at) \in InitSet /\ InitOf(e, j, at).owner = e /\ InitOf(e, j, at).at = at
         /\ InitOf(e, j, at).job = j /\ InitOf(e, j, at).fs[Pack] = "none"
<1>1. NoFiles \in [Files -> Copies] /\ NoFiles[Pack] = "none"
  BY EngineAssumption DEF NoFiles, Copies
<1> QED BY <1>1 DEF InitOf, InitSet

LEMMA InitCalled ==
  ASSUME LoaderTypes, JobsWell, loadPromise \in 0..Len(jobs), LoadPromised, frames \in Nat,
         Reports,
         NEW e \in Engines, NEW basePath \in BOOLEAN, NEW files \in Seq(Files),
         CallInit(e, basePath, files)
  PROVE  /\ AskedFor(files) /\ frames' \in Nat /\ Reports'
         /\ loadPromise' \in 0..Len(jobs') /\ LoadPromised'
         /\ InitShared \/ \E new : InitMade(e, new)
<1>1. CASE initPromise # 0 \/ (loadPromise = 0 /\ ~basePath)
  <2> SUFFICES ASSUME LoadAll(files), UNCHANGED <<loadPromise, frames, progressFunc>>
               PROVE  /\ AskedFor(files) /\ frames' \in Nat /\ Reports'
                      /\ loadPromise' \in 0..Len(jobs') /\ LoadPromised'
                      /\ InitShared \/ \E new : InitMade(e, new)
    BY <1>1 DEF CallInit
  <2>1. AskedFor(files)
    BY FilesAsked
  <2>2. /\ Len(jobs') = Len(jobs) + Len(files) /\ Len(jobs) \in Nat /\ Len(files) \in Nat
        /\ \A j \in 1..Len(jobs) : jobs'[j] = jobs[j]
    BY <1>1, LoadAllKeeps
  <2>3. loadPromise' \in 0..Len(jobs') /\ LoadPromised'
    <3>1. loadPromise' \in 0..Len(jobs')
      BY <1>1, <2>2
    <3>2. loadPromise # 0 => loadPromise \in 1..Len(jobs)
      BY <2>2
    <3> QED BY <1>1, <2>2, <3>1, <3>2 DEF LoadPromised
  <2>4. InitShared \/ \E new : InitMade(e, new)
    <3>1. CASE initPromise # 0
      BY <3>1 DEF CallInit, InitShared
    <3>2. CASE initPromise = 0 /\ loadPromise = 0 /\ ~basePath
      <4> DEFINE new == InitOf(e, 0, "refused")
      <4>1. new \in InitSet /\ new.owner = e /\ new.at = "refused" /\ new.fs[Pack] = "none"
        BY FileAssumption, NewInit
      <4>2. inits' = Append(inits, new) /\ initPromise' = Len(inits) + 1
        BY <3>2 DEF CallInit
      <4> HIDE DEF new
      <4>3. InitMade(e, new)
        BY <3>2, <4>1, <4>2 DEF InitMade
      <4> QED BY <4>3
    <3> QED BY <1>1, <3>1, <3>2
  <2>5. Reports'
    BY <1>1 DEF Reports
  <2> QED BY <1>1, <2>1, <2>3, <2>4, <2>5
<1>2. CASE /\ CallLoad(files) /\ progressFunc' = e /\ initPromise = 0
           /\ initPromise' = Len(inits) + 1 /\ inits' = Append(inits, InitOf(e, loadPromise', "load"))
  <2>1. /\ AskedFor(files) /\ frames' \in Nat
        /\ loadPromise' \in 1..Len(jobs') /\ jobs'[loadPromise'].file = Wasm
    BY <1>2, LoadCalled
  <2> DEFINE new == InitOf(e, loadPromise', "load")
  <2>2. new \in InitSet /\ new.owner = e /\ new.at = "load" /\ new.job = loadPromise' /\ new.fs[Pack] = "none"
    <3>1. Len(jobs') \in Nat /\ Len(jobs') <= MaxLoads
      BY <2>1 DEF AskedFor, LoaderTypes
    <3>2. loadPromise' \in 0..MaxLoads
      BY <2>1, <3>1, FileAssumption
    <3> QED BY <3>2, NewInit
  <2>3. inits' = Append(inits, new)
    BY <1>2
  <2> HIDE DEF new
  <2>4. InitMade(e, new)
    BY <1>2, <2>1, <2>2, <2>3 DEF InitMade
  <2>5. loadPromise' \in 0..Len(jobs')
    BY <2>1
  <2>6. Reports'
    BY <1>2 DEF Reports
  <2> QED BY <1>2, <2>1, <2>4, <2>5, <2>6 DEF LoadPromised
<1> QED BY <1>1, <1>2 DEF CallInit

-----------------------------------------------------------------------------
(* Steps that leave the engines and their modules alone.                       *)

LEMMA Parts ==
  ASSUME TypeOK
  PROVE  /\ LoaderTypes /\ LoaderTypeOK /\ EngineTypes
         /\ jobs \in Seq(JobSet) /\ Len(jobs) \in Nat
         /\ inits \in Seq(InitSet) /\ Len(inits) \in Nat
         /\ Held /\ frames \in Nat /\ lastProgress.loaded \in Nat
         /\ \A i \in 1..Len(inits) : inits[i] \in InitSet
         /\ \A e \in Engines :
              /\ rtenv[e] \in 0..Len(inits) /\ (rtenv[e] # 0 => rtenv[e] \in 1..Len(inits))
              /\ start[e] \in StartSet(Len(inits), Len(jobs))
              /\ start[e].pack \in 0..Len(jobs) /\ (start[e].pack # 0 => start[e].pack \in 1..Len(jobs))
<1>1. LoaderTypes /\ LoaderTypeOK /\ EngineTypes
  BY TypeParts, LoaderParts
<1>2. jobs \in Seq(JobSet) /\ Len(jobs) \in Nat /\ inits \in Seq(InitSet) /\ Len(inits) \in Nat
  BY <1>1 DEF LoaderTypes, EngineTypes
<1>3. Held /\ frames \in Nat /\ lastProgress.loaded \in Nat
  BY <1>1, LoaderParts
<1>4. \A i \in 1..Len(inits) : inits[i] \in InitSet
  BY <1>2
<1>5. ASSUME NEW e \in Engines
      PROVE  /\ rtenv[e] \in 0..Len(inits) /\ (rtenv[e] # 0 => rtenv[e] \in 1..Len(inits))
             /\ start[e] \in StartSet(Len(inits), Len(jobs))
             /\ start[e].pack \in 0..Len(jobs) /\ (start[e].pack # 0 => start[e].pack \in 1..Len(jobs))
  <2>1. rtenv \in [Engines -> 0..Len(inits)] /\ start \in [Engines -> StartSet(Len(inits), Len(jobs))]
    BY <1>1 DEF EngineTypes
  <2>2. rtenv[e] \in 0..Len(inits) /\ start[e] \in StartSet(Len(inits), Len(jobs))
    BY <2>1
  <2>3. start[e].pack \in 0..Len(jobs)
    BY <2>2 DEF StartSet
  <2> QED BY <1>2, <2>2, <2>3
<1> QED BY <1>1, <1>2, <1>3, <1>4, <1>5

LEMMA StartsGrow ==
  \A i \in Nat, j \in Nat, k \in Nat, l \in Nat : i <= k /\ j <= l => StartSet(i, j) \subseteq StartSet(k, l)
<1> SUFFICES ASSUME NEW i \in Nat, NEW j \in Nat, NEW k \in Nat, NEW l \in Nat, i <= k, j <= l
             PROVE StartSet(i, j) \subseteq StartSet(k, l)
  OBVIOUS
<1>1. 0..i \subseteq 0..k /\ 0..j \subseteq 0..l
  OBVIOUS
<1> QED BY <1>1 DEF StartSet

\* Two downloads that are counted together stay so.
LEMMA TogetherKept ==
  ASSUME LoaderTypes, LoaderTypes', JobsKept, CountedTogether(Pack)
  PROVE  CountedTogether(Pack)'
<1>1. DOMAIN jobs = 1..Len(jobs) /\ DOMAIN jobs' = 1..Len(jobs') /\ Len(jobs) \in Nat /\ Len(jobs') \in Nat
  BY DEF LoaderTypes
<1>2. PICK j \in 1..Len(jobs), k \in 1..Len(jobs) :
        j # k /\ jobs[j].entry = jobs[k].entry /\ jobs[j].entry # 0 /\ jobs[j].file = Pack
  BY <1>1 DEF CountedTogether
<1>3. /\ j \in 1..Len(jobs') /\ jobs'[j].entry = jobs[j].entry /\ jobs'[j].file = Pack
      /\ k \in 1..Len(jobs') /\ jobs'[k].entry = jobs[k].entry
  BY <1>1, <1>2 DEF JobsKept
<1> QED BY <1>1, <1>2, <1>3 DEF CountedTogether

\* A pack that is held stays so, one that comes in is held, and what is held is cut off
\* only where downloads of it were counted together.
HeldOn ==
  /\ preloadedFiles[Pack] # "none" => preloadedFiles'[Pack] # "none"
  /\ preloadedFiles'[Pack] = "part" => preloadedFiles[Pack] = "part" \/ CountedTogether(Pack)'
  /\ \A k \in 1..Len(jobs) :
       jobs'[k].at = "done" /\ jobs[k].at # "done" /\ jobs[k].file = Pack
         => preloadedFiles'[Pack] # "none"

\* Nothing but the downloads moves.
LEMMA EnginesStay ==
  ASSUME TypeOK, PromisesShared, PacksWait, MainsHavePack, PartsShared,
         LoaderTypes', JobsKept, UNCHANGED <<initPromise, inits, rtenv, start>>,
         loadPromise' \in 0..Len(jobs'), LoadPromised', Reports',
         Shown', HeldOn
  PROVE  EngineTypes' /\ PromisesShared' /\ PacksWait' /\ MainsHavePack' /\ PartsShared'
<1>1. /\ Len(jobs) \in Nat /\ Len(jobs') \in Nat /\ Len(jobs) <= Len(jobs')
      /\ \A j \in 1..Len(jobs) : j \in 1..Len(jobs') /\ jobs'[j].file = jobs[j].file
      /\ \A j \in 1..Len(jobs) : jobs[j].at = "done" => jobs'[j].at = "done"
  <2>1. Len(jobs) \in Nat /\ Len(jobs') \in Nat
    BY Parts DEF LoaderTypes
  <2> QED BY <2>1 DEF JobsKept
<1>2. \A i \in 1..Len(inits) :
        inits[i].at # "refused" => inits[i].job \in 1..Len(jobs) /\ jobs[inits[i].job].file = Wasm
  BY Parts DEF PromisesShared, EngineTypes
<1>3. EngineTypes'
  <2>1. start' \in [Engines -> StartSet(Len(inits'), Len(jobs'))]
    <3>1. start \in [Engines -> StartSet(Len(inits), Len(jobs))] /\ Len(inits) \in Nat
          /\ Len(inits) <= Len(inits)
      BY Parts DEF EngineTypes
    <3>2. StartSet(Len(inits), Len(jobs)) \subseteq StartSet(Len(inits), Len(jobs'))
      BY <1>1, <3>1, StartsGrow
    <3> QED BY <3>1, <3>2
  <2>2. \A i \in 1..Len(inits') : inits'[i].at # "refused" => jobs'[inits'[i].job].file = Wasm
    BY <1>1, <1>2
  <2>3. /\ initPromise' \in 0..Len(inits') /\ inits' \in Seq(InitSet) /\ Len(inits') <= MaxInits
        /\ rtenv' \in [Engines -> 0..Len(inits')]
    BY Parts DEF EngineTypes
  <2> QED BY <2>1, <2>2, <2>3 DEF EngineTypes
<1>4. PromisesShared'
  <2>1. \A i \in 1..Len(inits) : inits[i].at # "refused" => inits[i].job \in 1..Len(jobs')
    BY <1>1, <1>2
  <2> QED BY <2>1 DEF PromisesShared, LoadPromised
<1>5. PacksWait'
  <2> SUFFICES ASSUME NEW e \in Engines, Underway(e)', start[e].pack # 0
               PROVE  PackWaits(e)'
    BY DEF PacksWait
  <2>1. PICK k : k = start[e].pack
    OBVIOUS
  <2>2. k \in 1..Len(jobs) /\ Underway(e)
    BY <2>1, Parts DEF Underway
  <2>3. /\ jobs[k].file = Pack
        /\ start[e].at = "starting" => jobs[k].at = "done"
        /\ start[e].own => /\ initPromise # 0 /\ inits[initPromise].owner = e
                           /\ jobs[k].at = "done" => preloadedFiles[Pack] # "none"
    BY <2>1, <2>2 DEF PacksWait, PackWaits
  <2>4. jobs'[k].file = jobs[k].file /\ (jobs[k].at = "done" => jobs'[k].at = "done")
    BY <1>1, <2>2
  <2>5. jobs'[k].at = "done" /\ jobs[k].at # "done" => preloadedFiles'[Pack] # "none"
    BY <2>2, <2>3, <2>4 DEF HeldOn
  <2>6. preloadedFiles[Pack] # "none" => preloadedFiles'[Pack] # "none"
    BY DEF HeldOn
  <2> QED BY <2>1, <2>3, <2>4, <2>5, <2>6 DEF PackWaits
<1>6. MainsHavePack'
  BY DEF MainsHavePack
<1>7. PartsShared'
  <2>1. CountedTogether(Pack) => CountedTogether(Pack)'
    BY Parts, TogetherKept
  <2> QED BY <2>1 DEF PartsShared, HeldOn
<1> QED BY <1>3, <1>4, <1>5, <1>6, <1>7

-----------------------------------------------------------------------------
(* Steps that call init().                                                     *)

\* Engine e, which does not run, goes on with s, after a call of init().
InitStep(e, s) ==
  /\ start[e].at # "running" /\ start' = [start EXCEPT ![e] = s]
  /\ s.at \in {"loading", "starting"} /\ s \in StartSet(Len(inits'), Len(jobs'))
  /\ UNCHANGED <<rtenv, preloadedFiles, lastProgress>>
  /\ LoaderTypes' /\ JobsKept /\ CountsKept /\ \A j \in 1..Len(jobs) : jobs'[j] = jobs[j]
  /\ loadPromise' \in 0..Len(jobs') /\ LoadPromised' /\ Reports' /\ Shown'
  /\ InitShared \/ \E new : InitMade(e, new)
  /\ Len(inits') <= MaxInits

\* The promises of init() stay, and one that is new is initPromise and belongs to e.
InitNew(e, i) ==
  /\ initPromise = 0 /\ i = initPromise'
  /\ inits'[i].owner = e /\ inits'[i].at \in {"load", "refused"} /\ inits'[i].fs[Pack] = "none"
  /\ inits'[i].at # "refused" => inits'[i].job \in 1..Len(jobs') /\ jobs'[inits'[i].job].file = Wasm
InitsOn(e) ==
  /\ Len(inits) \in Nat /\ Len(inits') \in Nat /\ Len(inits) <= Len(inits')
  /\ inits' \in Seq(InitSet) /\ initPromise' \in {0, Len(inits')}
  /\ Len(inits') <= Len(inits) + 1
  /\ \A i \in 1..Len(inits) : i \in 1..Len(inits') /\ inits'[i] = inits[i]
  /\ \A i \in 1..Len(inits') : i \in 1..Len(inits) \/ InitNew(e, i)
  /\ initPromise # 0 => initPromise' = initPromise /\ Len(inits') = Len(inits)

LEMMA InitsGrow ==
  ASSUME TypeOK, PromisesShared, NEW e \in Engines, InitShared \/ \E new : InitMade(e, new)
  PROVE  InitsOn(e)
<1>1. inits \in Seq(InitSet) /\ Len(inits) \in Nat /\ initPromise \in {0, Len(inits)}
  BY Parts DEF PromisesShared
<1>2. CASE InitShared
  BY <1>1, <1>2 DEF InitShared, InitsOn
<1>3. CASE \E new : InitMade(e, new)
  <2>1. PICK new \in InitSet : InitMade(e, new)
    BY <1>3 DEF InitMade
  <2>2. /\ inits' = Append(inits, new) /\ initPromise = 0 /\ initPromise' = Len(inits) + 1
        /\ new.owner = e /\ new.at \in {"load", "refused"} /\ new.fs[Pack] = "none"
        /\ new.at # "refused" => new.job \in 1..Len(jobs') /\ jobs'[new.job].file = Wasm
    BY <2>1 DEF InitMade
  <2>3. /\ Len(inits') = Len(inits) + 1 /\ inits' \in Seq(InitSet)
        /\ inits'[Len(inits) + 1] = new
        /\ \A i \in 1..Len(inits) : inits'[i] = inits[i]
    BY <1>1, <2>2, AppendProperties
  <2>4. \A i \in 1..Len(inits') : i \in 1..Len(inits) \/ i = Len(inits) + 1
    BY <1>1, <2>3
  <2>5. /\ Len(inits') \in Nat /\ Len(inits) <= Len(inits') /\ initPromise' \in {0, Len(inits')}
        /\ Len(inits') <= Len(inits) + 1
        /\ \A i \in 1..Len(inits) : i \in 1..Len(inits')
    BY <1>1, <2>2, <2>3
  <2>6. InitNew(e, Len(inits) + 1)
    BY <2>2, <2>3 DEF InitNew
  <2> QED BY <1>1, <2>2, <2>3, <2>4, <2>5, <2>6 DEF InitsOn
<1> QED BY <1>2, <1>3

LEMMA JobsGrow ==
  ASSUME LoaderTypes, LoaderTypes', JobsKept
  PROVE  /\ Len(jobs) \in Nat /\ Len(jobs') \in Nat /\ Len(jobs) <= Len(jobs')
         /\ \A j \in 1..Len(jobs) : j \in 1..Len(jobs') /\ jobs'[j].file = jobs[j].file
<1>1. Len(jobs) \in Nat /\ Len(jobs') \in Nat
  BY DEF LoaderTypes
<1> QED BY <1>1 DEF JobsKept

LEMMA InitTypes ==
  ASSUME TypeOK, PromisesShared, NEW e \in Engines, NEW s, InitStep(e, s)
  PROVE  EngineTypes'
<1>1. /\ Len(jobs) \in Nat /\ Len(jobs') \in Nat /\ Len(jobs) <= Len(jobs')
      /\ \A j \in 1..Len(jobs) : j \in 1..Len(jobs') /\ jobs'[j].file = jobs[j].file
  BY Parts, JobsGrow DEF InitStep
<1>2. InitShared \/ \E new : InitMade(e, new)
  BY DEF InitStep
<1>3. /\ Len(inits) \in Nat /\ Len(inits') \in Nat /\ Len(inits) <= Len(inits')
      /\ inits' \in Seq(InitSet) /\ initPromise' \in {0, Len(inits')}
      /\ \A i \in 1..Len(inits) : i \in 1..Len(inits') /\ inits'[i] = inits[i]
      /\ \A i \in 1..Len(inits') :
           \/ i \in 1..Len(inits)
           \/ inits'[i].at # "refused" => jobs'[inits'[i].job].file = Wasm
  BY <1>2, InitsGrow DEF InitsOn, InitNew
<1>4. start' \in [Engines -> StartSet(Len(inits'), Len(jobs'))]
  <2>1. start \in [Engines -> StartSet(Len(inits), Len(jobs))]
    BY Parts DEF EngineTypes
  <2>2. StartSet(Len(inits), Len(jobs)) \subseteq StartSet(Len(inits'), Len(jobs'))
    BY <1>1, <1>3, StartsGrow
  <2>3. start' = [start EXCEPT ![e] = s] /\ s \in StartSet(Len(inits'), Len(jobs'))
    BY DEF InitStep
  <2> QED BY <2>1, <2>2, <2>3
<1>5. rtenv' \in [Engines -> 0..Len(inits')]
  <2>1. rtenv \in [Engines -> 0..Len(inits)] /\ rtenv' = rtenv
    BY Parts DEF EngineTypes, InitStep
  <2>2. 0..Len(inits) \subseteq 0..Len(inits')
    BY <1>3
  <2> QED BY <2>1, <2>2
<1>6. \A i \in 1..Len(inits') : inits'[i].at # "refused" => jobs'[inits'[i].job].file = Wasm
  <2>1. \A i \in 1..Len(inits) :
          inits[i].at # "refused" => inits[i].job \in 1..Len(jobs) /\ jobs[inits[i].job].file = Wasm
    BY Parts DEF PromisesShared, EngineTypes
  <2> QED BY <1>1, <1>3, <2>1
<1>7. initPromise' \in 0..Len(inits')
  BY <1>3
<1> QED BY <1>3, <1>4, <1>5, <1>6, <1>7 DEF EngineTypes, InitStep

LEMMA InitPromises ==
  ASSUME TypeOK, PromisesShared, NEW e \in Engines, NEW s, InitStep(e, s)
  PROVE  PromisesShared'
<1>1. /\ Len(jobs) \in Nat /\ Len(jobs') \in Nat /\ Len(jobs) <= Len(jobs')
      /\ \A j \in 1..Len(jobs) : j \in 1..Len(jobs')
  BY Parts, JobsGrow DEF InitStep
<1>2. InitShared \/ \E new : InitMade(e, new)
  BY DEF InitStep
<1>3. /\ Len(inits) \in Nat /\ Len(inits') \in Nat
      /\ initPromise' \in {0, Len(inits')}
      /\ \A i \in 1..Len(inits) : i \in 1..Len(inits') /\ inits'[i] = inits[i]
      /\ \A i \in 1..Len(inits') :
           \/ i \in 1..Len(inits)
           \/ /\ i = initPromise' /\ inits'[i].owner = e
              /\ inits'[i].at # "refused" => inits'[i].job \in 1..Len(jobs')
      /\ initPromise # 0 => initPromise' = initPromise
  BY <1>2, InitsGrow DEF InitsOn, InitNew
<1>4. /\ start[e].at # "running" /\ start'[e].at # "running" /\ rtenv' = rtenv
      /\ \A o \in Engines : o # e => start'[o] = start[o]
  BY Parts DEF InitStep, EngineTypes
<1>5. \A o \in Engines : start'[o].at = "running" <=> start[o].at = "running"
  BY <1>4
<1>6. ASSUME NEW i \in 1..Len(inits')
      PROVE  /\ inits'[i].at # "refused" => inits'[i].job \in 1..Len(jobs')
             /\ inits'[i].at \in BuildingAt => i = initPromise' /\ start'[inits'[i].owner].at # "running"
  <2>1. CASE i \in 1..Len(inits)
    <3>1. /\ inits[i].at # "refused" => inits[i].job \in 1..Len(jobs)
          /\ inits[i].at \in BuildingAt => i = initPromise /\ start[inits[i].owner].at # "running"
          /\ inits'[i] = inits[i] /\ i # 0 /\ inits[i].owner \in Engines
      <4>1. inits[i].owner \in Engines
        BY <2>1, Parts DEF InitSet
      <4> QED BY <1>3, <2>1, <4>1 DEF PromisesShared
    <3> QED BY <1>1, <1>3, <1>5, <3>1
  <2>2. CASE i \notin 1..Len(inits)
    BY <1>3, <1>4, <2>2
  <2> QED BY <2>1, <2>2
<1>7. ASSUME NEW o \in Engines
      PROVE  /\ rtenv'[o] # 0 => inits'[rtenv'[o]].owner = o /\ inits'[rtenv'[o]].at = "ready"
             /\ rtenv'[o] # 0 /\ start'[o].at # "running" => rtenv'[o] = initPromise'
             /\ start'[o].at = "running" => rtenv'[o] # 0
  <2>1. /\ rtenv[o] # 0 => /\ rtenv[o] \in 1..Len(inits)
                           /\ inits[rtenv[o]].owner = o /\ inits[rtenv[o]].at = "ready"
        /\ rtenv[o] # 0 /\ start[o].at # "running" => rtenv[o] = initPromise
        /\ start[o].at = "running" => rtenv[o] # 0
    BY Parts DEF PromisesShared
  <2> QED BY <1>3, <1>4, <1>5, <2>1
<1>8. LoadPromised'
  BY DEF InitStep
<1> QED BY <1>3, <1>6, <1>7, <1>8 DEF PromisesShared, LoadPromised

\* Nobody else makes a promise while a start that made one holds it.
LEMMA InitPacks ==
  ASSUME TypeOK, PromisesShared, PacksWait, MainsHavePack, PartsShared, NEW e \in Engines, NEW s,
         InitStep(e, s),
         s.pack # 0 =>
           /\ s.pack \in 1..Len(jobs') /\ jobs'[s.pack].file = Pack
           /\ s.at = "starting" => jobs'[s.pack].at = "done"
           /\ s.own => /\ initPromise' # 0 /\ inits'[initPromise'].owner = e
                       /\ jobs'[s.pack].at = "done" => preloadedFiles[Pack] # "none"
  PROVE  PacksWait' /\ MainsHavePack' /\ PartsShared'
<1>1. InitShared \/ \E new : InitMade(e, new)
  BY DEF InitStep
<1>2. /\ \A i \in 1..Len(inits) : i \in 1..Len(inits') /\ inits'[i] = inits[i]
      /\ Len(inits) \in Nat /\ initPromise \in {0, Len(inits)}
      /\ initPromise # 0 => initPromise' = initPromise
      /\ \A i \in 1..Len(inits') : i \in 1..Len(inits) \/ inits'[i].fs[Pack] = "none"
  BY <1>1, InitsGrow DEF PromisesShared, InitsOn, InitNew
<1>3. /\ start[e].at # "running" /\ start'[e] = s /\ s.at # "running" /\ rtenv' = rtenv
      /\ preloadedFiles' = preloadedFiles
      /\ \A o \in Engines : o # e => start'[o] = start[o]
      /\ \A j \in 1..Len(jobs) : jobs'[j] = jobs[j]
  BY Parts DEF InitStep, EngineTypes
<1>4. PacksWait'
  <2> SUFFICES ASSUME NEW o \in Engines, Underway(o)', start'[o].pack # 0 PROVE PackWaits(o)'
    BY DEF PacksWait
  <2>1. CASE o = e
    BY <1>3, <2>1 DEF PackWaits
  <2>2. CASE o # e
    <3>1. PICK k : k = start[o].pack
      OBVIOUS
    <3>2. start'[o] = start[o] /\ k \in 1..Len(jobs) /\ Underway(o) /\ start[o].pack # 0
      BY <1>3, <2>2, <3>1, Parts DEF Underway
    <3>3. /\ jobs[k].file = Pack /\ (start[o].at = "starting" => jobs[k].at = "done")
          /\ start[o].own => /\ initPromise # 0 /\ inits[initPromise].owner = o
                             /\ jobs[k].at = "done" => preloadedFiles[Pack] # "none"
      BY <3>1, <3>2 DEF PacksWait, PackWaits
    <3>4. jobs'[k] = jobs[k]
      BY <1>3, <3>2
    <3>5. initPromise # 0 => initPromise' = initPromise /\ inits'[initPromise] = inits[initPromise]
      BY <1>2
    <3> QED BY <1>3, <3>1, <3>2, <3>3, <3>4, <3>5 DEF PackWaits
  <2> QED BY <2>1, <2>2
<1>5. MainsHavePack'
  <2> SUFFICES ASSUME NEW o \in Engines, start'[o].at = "running", start'[o].pack # 0, start'[o].own
               PROVE  inits'[rtenv'[o]].fs[Pack] # "none"
    BY DEF MainsHavePack
  <2>1. start'[o] = start[o] /\ rtenv'[o] = rtenv[o]
    BY <1>3
  <2>2. rtenv[o] \in 1..Len(inits)
    BY <2>1, Parts DEF PromisesShared
  <2>3. inits[rtenv[o]].fs[Pack] # "none"
    BY <2>1 DEF MainsHavePack
  <2> QED BY <1>2, <2>1, <2>2, <2>3
<1>6. PartsShared'
  <2>1. CountedTogether(Pack) => CountedTogether(Pack)'
    BY Parts, TogetherKept DEF InitStep
  <2>2. \A i \in 1..Len(inits') : inits'[i].fs[Pack] = "part" => CountedTogether(Pack)
    BY <1>2 DEF PartsShared
  <2> QED BY <1>3, <2>1, <2>2 DEF PartsShared
<1> QED BY <1>4, <1>5, <1>6

LEMMA TypesTogether ==
  ASSUME LoaderTypes', lastProgress' \in [loaded : Nat, total : Nat], frames' \in Nat,
         Held', EngineTypes'
  PROVE  TypeOK'
<1>1. LoaderTypeOK' <=> /\ LoaderTypes'
                        /\ lastProgress' \in [loaded : Nat, total : Nat]
                        /\ frames' \in Nat /\ Held'
  <2>1. /\ jobs' \in Seq(JobSet) => DOMAIN jobs' = 1..Len(jobs')
        /\ entries' \in Seq(EntrySet) => DOMAIN entries' = 1..Len(entries')
    OBVIOUS
  <2> QED
    BY <2>1 DEF LoaderTypeOK, LoaderTypes, Held, Copies, JobSet, EntrySet, Tracked, Stat, Counted
<1>2. TypeOK' <=> LoaderTypeOK' /\ EngineTypes'
  BY TypeParts, PTL
<1> QED BY <1>1, <1>2

LEMMA InitCore ==
  ASSUME Core, NEW e \in Engines, NEW s, InitStep(e, s), JobsWell', frames' \in Nat,
         s.pack # 0 =>
           /\ s.pack \in 1..Len(jobs') /\ jobs'[s.pack].file = Pack
           /\ s.at = "starting" => jobs'[s.pack].at = "done"
           /\ s.own => /\ initPromise' # 0 /\ inits'[initPromise'].owner = e
                       /\ jobs'[s.pack].at = "done" => preloadedFiles[Pack] # "none"
  PROVE  Core'
<1>1. TypeOK /\ PromisesShared /\ PacksWait /\ MainsHavePack /\ PartsShared /\ Reported
  BY DEF Core
<1>2. EngineTypes' /\ PromisesShared'
  BY <1>1, InitTypes, InitPromises
<1>3. PacksWait' /\ MainsHavePack' /\ PartsShared'
  BY <1>1, InitPacks
<1>4. /\ LoaderTypes /\ LoaderTypes' /\ JobsKept /\ CountsKept /\ lastProgress' = lastProgress
      /\ preloadedFiles' = preloadedFiles /\ lastProgress.loaded \in Nat
      /\ lastProgress \in [loaded : Nat, total : Nat] /\ Held /\ Held'
  BY <1>1, Parts, LoaderParts DEF InitStep, Held
<1>5. Reported'
  BY <1>1, <1>4, ReportedStays
<1>6. TypeOK'
  BY <1>2, <1>4, TypesTogether
<1> QED BY <1>2, <1>3, <1>5, <1>6 DEF Core

LEMMA InitFacts ==
  ASSUME Core, NEW e \in Engines, NEW basePath \in BOOLEAN, NEW files \in Seq(Files),
         CallInit(e, basePath, files)
  PROVE  /\ AskedFor(files) /\ frames' \in Nat /\ Reports'
         /\ loadPromise' \in 0..Len(jobs') /\ LoadPromised'
         /\ InitShared \/ \E new : InitMade(e, new)
         /\ initPromise' \in 0..Len(inits') /\ Len(inits') \in Nat /\ Len(jobs') \in Nat
<1>1. /\ LoaderTypes /\ JobsWell /\ loadPromise \in 0..Len(jobs) /\ LoadPromised /\ frames \in Nat
      /\ Reports /\ TypeOK /\ PromisesShared
  BY Parts DEF Core, PromisesShared, LoadPromised, EngineTypes
<1>2. /\ AskedFor(files) /\ frames' \in Nat /\ Reports'
      /\ loadPromise' \in 0..Len(jobs') /\ LoadPromised'
      /\ InitShared \/ \E new : InitMade(e, new)
  BY <1>1, InitCalled
<1>3. initPromise' \in {0, Len(inits')} /\ Len(inits') \in Nat
  BY <1>1, <1>2, InitsGrow DEF InitsOn
<1>4. Len(jobs') \in Nat
  BY <1>2 DEF AskedFor, LoaderTypes
<1> QED BY <1>2, <1>3, <1>4

LEMMA FileLists == <<>> \in Seq(Files) /\ <<Pack>> \in Seq(Files) /\ \A f \in Files : <<f>> \in Seq(Files)
BY EngineAssumption

\* startGame() asks for a new pack.
LEMMA StartGameCore ==
  ASSUME Core, NEW e \in Engines, CallStartGame(e), Shown', Len(inits') <= MaxInits
  PROVE  Core'
<1> DEFINE s == [at |-> "loading", init |-> initPromise', pack |-> Len(jobs'),
                own |-> initPromise = 0]
<1>1. /\ CallInit(e, TRUE, <<Pack>>) /\ start' = [start EXCEPT ![e] = s]
      /\ UNCHANGED <<lastProgress, preloadedFiles, rtenv>> /\ start[e].at # "running"
  BY DEF CallStartGame, MayStart
<1>2. /\ AskedFor(<<Pack>>) /\ frames' \in Nat /\ Reports'
      /\ loadPromise' \in 0..Len(jobs') /\ LoadPromised'
      /\ InitShared \/ \E new : InitMade(e, new)
      /\ initPromise' \in 0..Len(inits') /\ Len(inits') \in Nat /\ Len(jobs') \in Nat
  BY <1>1, FileLists, InitFacts
<1>3. /\ Len(jobs') \in 1..MaxLoads
      /\ jobs'[Len(jobs')].file = Pack /\ jobs'[Len(jobs')].at = "fetch"
      /\ LoaderTypes' /\ JobsWell' /\ JobsKept /\ CountsKept
      /\ \A j \in 1..Len(jobs) : jobs'[j] = jobs[j]
  BY <1>2, EngineAssumption DEF AskedFor
<1>4. s \in StartSet(Len(inits'), Len(jobs')) /\ s.at = "loading" /\ s.pack = Len(jobs')
  <2>1. (initPromise = 0) \in BOOLEAN
    OBVIOUS
  <2> QED BY <1>2, <2>1 DEF StartSet
<1>0. s.own <=> initPromise = 0
  BY Zenon
<1> HIDE DEF s
<1>5. InitStep(e, s)
  BY <1>1, <1>2, <1>3, <1>4 DEF InitStep
<1>6. s.pack \in 1..Len(jobs')
  BY <1>2, <1>3, <1>4
<1>7. s.own => initPromise' # 0 /\ inits'[initPromise'].owner = e
  <2>1. initPromise = 0 => initPromise' = Len(inits) + 1 /\ \E new : InitMade(e, new)
    BY <1>2 DEF InitShared, InitMade
  <2>2. inits \in Seq(InitSet) /\ Len(inits) \in Nat
    BY Parts DEF Core
  <2>3. ASSUME NEW new, InitMade(e, new) PROVE inits'[Len(inits) + 1].owner = e
    <3>1. inits' = Append(inits, new) /\ new \in InitSet /\ new.owner = e
      BY <2>3 DEF InitMade
    <3>2. inits'[Len(inits) + 1] = new
      BY <2>2, <3>1, AppendProperties
    <3> QED BY <3>1, <3>2
  <2>4. Len(inits) + 1 # 0
    BY <2>2
  <2> QED BY <1>0, <2>1, <2>3, <2>4
<1> QED BY <1>2, <1>3, <1>4, <1>5, <1>6, <1>7, InitCore

\* start() asks for none.
LEMMA StartCore ==
  ASSUME Core, NEW e \in Engines, Start(e), Shown', Len(inits') <= MaxInits
  PROVE  Core'
<1> DEFINE s == [at |-> "starting", init |-> initPromise', pack |-> 0, own |-> FALSE]
<1>1. /\ CallInit(e, FALSE, <<>>) /\ start' = [start EXCEPT ![e] = s]
      /\ UNCHANGED <<lastProgress, preloadedFiles, rtenv>> /\ start[e].at # "running"
  BY DEF Start, MayStart
<1>2. /\ AskedFor(<<>>) /\ frames' \in Nat /\ Reports'
      /\ loadPromise' \in 0..Len(jobs') /\ LoadPromised'
      /\ InitShared \/ \E new : InitMade(e, new)
      /\ initPromise' \in 0..Len(inits') /\ Len(inits') \in Nat /\ Len(jobs') \in Nat
  BY <1>1, FileLists, InitFacts
<1>3. /\ LoaderTypes' /\ JobsWell' /\ JobsKept /\ CountsKept
      /\ \A j \in 1..Len(jobs) : jobs'[j] = jobs[j]
  BY <1>2 DEF AskedFor
<1>4. s \in StartSet(Len(inits'), Len(jobs')) /\ s.at = "starting" /\ s.pack = 0
  BY <1>2 DEF StartSet
<1> HIDE DEF s
<1>5. InitStep(e, s)
  BY <1>1, <1>2, <1>3, <1>4 DEF InitStep
<1> QED BY <1>2, <1>3, <1>4, <1>5, InitCore

\* start() called by startGame() goes on with the pack that has come in.
LEMMA AllLoadedCore ==
  ASSUME Core, NEW e \in Engines, AllLoaded(e), Shown', Len(inits') <= MaxInits
  PROVE  Core'
<1> DEFINE s == [start[e] EXCEPT !.at = "starting", !.init = initPromise']
<1>1. /\ CallInit(e, FALSE, <<>>) /\ start' = [start EXCEPT ![e] = s]
      /\ UNCHANGED <<lastProgress, preloadedFiles, rtenv>> /\ start[e].at = "loading"
      /\ Resolved(start[e].pack)
  BY DEF AllLoaded
<1>2. /\ AskedFor(<<>>) /\ frames' \in Nat /\ Reports'
      /\ loadPromise' \in 0..Len(jobs') /\ LoadPromised'
      /\ InitShared \/ \E new : InitMade(e, new)
      /\ initPromise' \in 0..Len(inits') /\ Len(inits') \in Nat /\ Len(jobs') \in Nat
  BY <1>1, FileLists, InitFacts
<1>3. /\ LoaderTypes' /\ JobsWell' /\ JobsKept /\ CountsKept
      /\ \A j \in 1..Len(jobs) : jobs'[j] = jobs[j]
  BY <1>2 DEF AskedFor
<1>4. /\ start[e] \in StartSet(Len(inits), Len(jobs)) /\ start[e].pack \in 0..Len(jobs)
      /\ start[e].pack # 0 => start[e].pack \in 1..Len(jobs)
      /\ LoaderTypes /\ Len(jobs) \in Nat
  BY Parts DEF Core
<1>5. s \in StartSet(Len(inits'), Len(jobs')) /\ s.at = "starting" /\ s.pack = start[e].pack
      /\ s.own = start[e].own
  <2>1. Len(jobs) <= Len(jobs')
    BY <1>3 DEF JobsKept
  <2>2. start[e].pack \in 0..Len(jobs')
    BY <1>2, <1>4, <2>1
  <2> QED BY <1>2, <1>4, <2>2 DEF StartSet
<1> HIDE DEF s
<1>6. InitStep(e, s)
  BY <1>1, <1>2, <1>3, <1>5 DEF InitStep
<1>7. ASSUME s.pack # 0
      PROVE  /\ s.pack \in 1..Len(jobs') /\ jobs'[s.pack].file = Pack
             /\ jobs'[s.pack].at = "done"
             /\ s.own => /\ initPromise' # 0 /\ inits'[initPromise'].owner = e
                         /\ preloadedFiles[Pack] # "none"
  <2> PICK k : k = s.pack
    OBVIOUS
  <2>1. k = start[e].pack /\ k \in 1..Len(jobs) /\ Underway(e)
    BY <1>1, <1>4, <1>5, <1>7 DEF Underway
  <2>2. /\ jobs[k].file = Pack
        /\ s.own => /\ initPromise # 0 /\ inits[initPromise].owner = e
                    /\ jobs[k].at = "done" => preloadedFiles[Pack] # "none"
    <3>1. PackWaits(e)
      BY <1>5, <1>7, <2>1 DEF Core, PacksWait
    <3>2. s.own <=> start[e].own
      BY <1>5
    <3> QED BY <2>1, <3>1, <3>2 DEF PackWaits
  <2>3. jobs[k].kept
    BY <2>1, <2>2, EngineAssumption DEF Core, JobsWell, JobWell
  <2>4. jobs[k].at = "done"
    BY <1>1, <2>1, <2>3 DEF Resolved
  <2>5. jobs'[k] = jobs[k] /\ k \in 1..Len(jobs')
    BY <1>3, <1>4, <2>1, JobsGrow
  <2>6. initPromise # 0 => initPromise' = initPromise /\ inits'[initPromise] = inits[initPromise]
    <3>1. /\ initPromise # 0 => initPromise' = initPromise
          /\ \A i \in 1..Len(inits) : inits'[i] = inits[i]
          /\ initPromise \in {0, Len(inits)} /\ Len(inits) \in Nat
      BY <1>2, InitsGrow DEF Core, PromisesShared, InitsOn
    <3> QED BY <3>1
  <2> QED BY <2>2, <2>4, <2>5, <2>6
<1> QED BY <1>2, <1>3, <1>5, <1>6, <1>7, InitCore

-----------------------------------------------------------------------------
(* Steps of the downloads and of load().                                       *)

LEMMA StayCore ==
  ASSUME Core, LoaderTypes', JobsWell', JobsKept, CountsKept, frames' \in Nat,
         UNCHANGED <<initPromise, inits, rtenv, start, lastProgress>>,
         loadPromise' \in 0..Len(jobs'), LoadPromised', Reports', Shown',
         Held', HeldOn
  PROVE  Core'
<1>1. TypeOK /\ PromisesShared /\ PacksWait /\ MainsHavePack /\ PartsShared /\ Reported
  BY DEF Core
<1>2. EngineTypes' /\ PromisesShared' /\ PacksWait' /\ MainsHavePack' /\ PartsShared'
  BY <1>1, EnginesStay
<1>3. LoaderTypes /\ lastProgress.loaded \in Nat /\ lastProgress \in [loaded : Nat, total : Nat]
  BY <1>1, Parts, LoaderParts
<1>4. Reported'
  BY <1>1, <1>3, ReportedStays
<1>5. TypeOK'
  <2>1. lastProgress' \in [loaded : Nat, total : Nat]
    BY <1>3
  <2> QED BY <1>2, <2>1, TypesTogether
<1> QED BY <1>2, <1>4, <1>5 DEF Core

\* More files are asked for, by preload() or by load().
LEMMA AskedCore ==
  ASSUME Core, NEW files \in Seq(Files), AskedFor(files), frames' \in Nat,
         UNCHANGED <<initPromise, inits, rtenv, start, lastProgress, preloadedFiles>>,
         loadPromise' \in 0..Len(jobs'), LoadPromised', Reports', Shown'
  PROVE  Core'
<1>1. /\ LoaderTypes' /\ JobsWell' /\ JobsKept /\ CountsKept
      /\ \A j \in 1..Len(jobs) : jobs'[j] = jobs[j]
  BY DEF AskedFor
<1>2. Held'
  BY Parts DEF Core, Held
<1>3. HeldOn
  BY <1>1 DEF HeldOn
<1> QED BY <1>1, <1>2, <1>3, StayCore

LEMMA CoreParts ==
  ASSUME Core
  PROVE  /\ TypeOK /\ JobsWell /\ PromisesShared /\ LoaderTypes /\ LoaderTypeOK
         /\ loadPromise \in 0..Len(jobs) /\ LoadPromised /\ frames \in Nat /\ Reports /\ Shown
         /\ Held /\ Len(jobs) \in Nat /\ Len(inits) \in Nat
BY Parts DEF Core, PromisesShared, LoadPromised, EngineTypes

LEMMA LoadCore ==
  ASSUME Core, Load
  PROVE  Core'
<1>1. CallLoad(<<>>) /\ UNCHANGED <<initPromise, inits, rtenv, start, lastProgress, preloadedFiles>>
      /\ UNCHANGED <<progressFunc, present, status>>
  BY DEF Load
<1>2. /\ AskedFor(<<>>) /\ frames' \in Nat
      /\ loadPromise' \in 1..Len(jobs') /\ jobs'[loadPromise'].file = Wasm
  BY <1>1, CoreParts, FileLists, LoadCalled
<1>3. Reports' /\ Shown'
  BY <1>1, CoreParts DEF Reports, Shown
<1>4. loadPromise' \in 0..Len(jobs') /\ LoadPromised'
  BY <1>2 DEF LoadPromised
<1> QED BY <1>1, <1>2, <1>3, <1>4, FileLists, AskedCore

LEMMA PreloadFileCore ==
  ASSUME Core, NEW f \in Files, PreloadFile(f)
  PROVE  Core'
<1>1. LoadAll(<<f>>) /\ UNCHANGED <<initPromise, inits, rtenv, start, lastProgress, preloadedFiles>>
      /\ UNCHANGED <<progressFunc, present, status>> /\ UNCHANGED <<frames, loadPromise>>
  BY DEF PreloadFile
<1>2. AskedFor(<<f>>) /\ JobsKept /\ LoaderTypes'
  <2>1. AskedFor(<<f>>)
    BY <1>1, CoreParts, FileLists, FilesAsked
  <2> QED BY <2>1 DEF AskedFor
<1>3. Reports' /\ Shown'
  BY <1>1, CoreParts DEF Reports, Shown
<1>4. loadPromise' \in 0..Len(jobs') /\ LoadPromised' /\ frames' \in Nat
  <2>1. /\ Len(jobs) \in Nat /\ Len(jobs') \in Nat /\ Len(jobs) <= Len(jobs')
        /\ \A j \in 1..Len(jobs) : j \in 1..Len(jobs') /\ jobs'[j].file = jobs[j].file
    BY <1>2, CoreParts, JobsGrow
  <2>2. loadPromise # 0 => loadPromise \in 1..Len(jobs) /\ jobs[loadPromise].file = Wasm
    BY CoreParts DEF LoadPromised
  <2>3. loadPromise' = loadPromise /\ frames' = frames /\ loadPromise \in 0..Len(jobs) /\ frames \in Nat
    BY <1>1, CoreParts
  <2> QED BY <2>1, <2>2, <2>3 DEF LoadPromised
<1> QED BY <1>1, <1>2, <1>3, <1>4, FileLists, AskedCore

LEMMA UnloadCore ==
  ASSUME Core, Unload
  PROVE  Core'
<1>1. /\ loadPromise' = 0 /\ UNCHANGED <<jobs, entries, loadingFiles, lastProgress, frames, preloadedFiles>>
      /\ UNCHANGED <<initPromise, inits, rtenv, start>> /\ UNCHANGED <<progressFunc, present, status>>
  BY DEF Unload
<1>2. LoaderTypes' /\ JobsWell' /\ JobsKept /\ CountsKept
  BY <1>1, CoreParts, JobsSame DEF JobsWell
<1>3. Reports' /\ Shown'
  BY <1>1, CoreParts DEF Reports, Shown
<1>4. loadPromise' \in 0..Len(jobs') /\ LoadPromised' /\ frames' \in Nat
  BY <1>1, CoreParts DEF LoadPromised
<1>5. Held' /\ HeldOn
  BY <1>1, CoreParts DEF Held, HeldOn
<1> QED BY <1>1, <1>2, <1>3, <1>4, <1>5, StayCore

LEMMA DownloadCore ==
  ASSUME Core, NEW j \in 1..MaxLoads, Download(j)
  PROVE  Core'
<1>1. /\ j \in 1..Len(jobs) /\ JobStep(j)
      /\ UNCHANGED <<loadPromise, initPromise, inits, rtenv, start>>
      /\ UNCHANGED <<progressFunc, present, status>>
  BY CoreParts DEF Download, engineVars, LoaderTypes
<1>2. /\ LoaderTypes' /\ Held' /\ frames' \in Nat /\ JobsWell' /\ JobsKept /\ CountsKept
      /\ Len(jobs') = Len(jobs) /\ lastProgress' = lastProgress
      /\ \A f \in Files : preloadedFiles[f] # "none" => preloadedFiles'[f] # "none"
      /\ \A f \in Files : preloadedFiles'[f] = "part" => preloadedFiles[f] = "part" \/ CountedTogether(f)'
      /\ \A k \in 1..Len(jobs) :
           jobs'[k].at = "done" /\ jobs[k].at # "done" /\ jobs[k].file # Wasm
             => preloadedFiles'[jobs[k].file] # "none"
  BY <1>1, CoreParts, JobStepKeeps
<1>3. HeldOn
  BY <1>2, EngineAssumption DEF HeldOn
<1>4. Reports' /\ Shown'
  BY <1>1, CoreParts DEF Reports, Shown
<1>5. loadPromise' \in 0..Len(jobs') /\ LoadPromised'
  <2>1. \A i \in 1..Len(jobs) : jobs'[i].file = jobs[i].file
    BY <1>2 DEF JobsKept
  <2>2. loadPromise # 0 => loadPromise \in 1..Len(jobs) /\ jobs[loadPromise].file = Wasm
    BY CoreParts DEF LoadPromised
  <2> QED BY <1>1, <1>2, <2>1, <2>2, CoreParts DEF LoadPromised
<1> QED BY <1>1, <1>2, <1>3, <1>4, <1>5, StayCore

LEMMA AnimateCore ==
  ASSUME Core, Animate
  PROVE  Core'
<1>1. /\ Frame /\ UNCHANGED <<loadPromise, initPromise, inits, rtenv, start>>
      /\ UNCHANGED <<progressFunc, present, status>>
  BY DEF Animate, engineVars
<1>2. /\ LoaderTypeOK' /\ JobsWell' /\ JobsKept /\ CountsKept /\ Reported'
      /\ UNCHANGED <<jobs, entries, loadingFiles, preloadedFiles>>
  BY <1>1, CoreParts, FrameKeeps
<1>3. LoaderTypes'
  BY <1>2, CoreParts, JobsSame
<1>4. Reports' /\ Shown'
  BY <1>1, CoreParts DEF Reports, Shown
<1>5. loadPromise' \in 0..Len(jobs') /\ LoadPromised'
  BY <1>1, <1>2, CoreParts DEF LoadPromised
<1>6. HeldOn
  BY <1>2 DEF HeldOn
<1>7. EngineTypes' /\ PromisesShared' /\ PacksWait' /\ MainsHavePack' /\ PartsShared'
  BY <1>1, <1>2, <1>3, <1>4, <1>5, <1>6, EnginesStay DEF Core
<1>8. TypeOK'
  <2>1. TypeOK' <=> LoaderTypeOK' /\ EngineTypes'
    BY TypeParts, PTL
  <2> QED BY <1>2, <1>7, <2>1
<1> QED BY <1>2, <1>7, <1>8 DEF Core

\* Nothing but what the page shows.
LEMMA PageRefusesCore ==
  ASSUME Core, PageRefuses
  PROVE  Core'
<1>1. /\ UNCHANGED <<jobs, entries, loadingFiles, lastProgress, frames, preloadedFiles>>
      /\ UNCHANGED <<loadPromise, initPromise, inits, rtenv, start>>
      /\ UNCHANGED progressFunc
  BY DEF PageRefuses
<1>2. LoaderTypes' /\ JobsWell' /\ JobsKept /\ CountsKept
  BY <1>1, CoreParts, JobsSame DEF JobsWell
<1>3. Reports'
  BY <1>1, CoreParts DEF Reports
<1>4. Shown'
  BY CoreParts, Zenon DEF PageRefuses, Shown
<1>5. loadPromise' \in 0..Len(jobs') /\ LoadPromised' /\ frames' \in Nat
  BY <1>1, CoreParts DEF LoadPromised
<1>6. Held' /\ HeldOn
  BY <1>1, CoreParts DEF Held, HeldOn
<1> QED BY <1>1, <1>2, <1>3, <1>4, <1>5, <1>6, StayCore

-----------------------------------------------------------------------------
(* Steps that leave the downloads alone.                                       *)

LEMMA QuietCore ==
  ASSUME Core, UNCHANGED <<jobs, entries, loadingFiles, lastProgress, frames>>,
         Held', EngineTypes', PromisesShared', PacksWait', MainsHavePack', PartsShared'
  PROVE  Core'
<1>1. LoaderTypes' /\ JobsWell' /\ JobsKept /\ CountsKept /\ frames' \in Nat
  BY CoreParts, JobsSame DEF JobsWell
<1>2. lastProgress \in [loaded : Nat, total : Nat] /\ lastProgress.loaded \in Nat
  BY CoreParts, LoaderParts
<1>3. lastProgress' \in [loaded : Nat, total : Nat] /\ lastProgress' = lastProgress
  BY <1>2
<1>4. Reported'
  BY <1>1, <1>2, <1>3, CoreParts, ReportedStays DEF Core
<1>5. TypeOK'
  BY <1>1, <1>3, TypesTogether
<1> QED BY <1>1, <1>4, <1>5 DEF Core

\* Module i goes on as v; one that is built becomes its engine's.
ModuleStep(i, v) ==
  /\ inits' = [inits EXCEPT ![i] = v] /\ v \in InitSet
  /\ v.owner = inits[i].owner /\ v.job = inits[i].job /\ v.fs[Pack] = inits[i].fs[Pack]
  /\ inits[i].at = v.at \/ (inits[i].at \in BuildingAt /\ v.at # "refused")
  /\ \/ rtenv' = rtenv
     \/ inits[i].at \in BuildingAt /\ v.at = "ready" /\ rtenv' = [rtenv EXCEPT ![v.owner] = i]
  /\ loadPromise' \in {0, loadPromise}
  /\ UNCHANGED <<jobs, entries, loadingFiles, lastProgress, frames, preloadedFiles>>
  /\ UNCHANGED <<initPromise, start>> /\ UNCHANGED <<progressFunc, present, status>>

LEMMA SetOne ==
  \A s \in Seq(InitSet) : \A w \in InitSet : \A i \in 1..Len(s) :
    /\ [s EXCEPT ![i] = w] \in Seq(InitSet) /\ Len([s EXCEPT ![i] = w]) = Len(s)
    /\ [s EXCEPT ![i] = w][i] = w
    /\ \A k \in 1..Len(s) : k # i => [s EXCEPT ![i] = w][k] = s[k]
OBVIOUS

LEMMA ModuleCore ==
  ASSUME Core, NEW i \in 1..Len(inits), NEW v, ModuleStep(i, v)
  PROVE  Core'
<1>1. /\ inits \in Seq(InitSet) /\ v \in InitSet /\ inits' = [inits EXCEPT ![i] = v]
      /\ v.owner = inits[i].owner /\ v.job = inits[i].job /\ v.fs[Pack] = inits[i].fs[Pack]
      /\ inits[i].at = v.at \/ (inits[i].at \in BuildingAt /\ v.at # "refused")
      /\ Len(inits) \in Nat
  BY CoreParts, Parts DEF ModuleStep, EngineTypes
<1>2. /\ inits' \in Seq(InitSet) /\ Len(inits') = Len(inits) /\ inits'[i] = v
      /\ \A k \in 1..Len(inits) : k # i => inits'[k] = inits[k]
  BY <1>1, SetOne
<1>3. /\ UNCHANGED <<jobs, entries, loadingFiles, lastProgress, frames, preloadedFiles>>
      /\ UNCHANGED <<initPromise, start>> /\ UNCHANGED <<progressFunc, present, status>>
      /\ loadPromise' \in {0, loadPromise}
  BY DEF ModuleStep
<1>4. \A k \in 1..Len(inits) :
        /\ inits'[k].owner = inits[k].owner /\ inits'[k].job = inits[k].job
        /\ inits'[k].fs[Pack] = inits[k].fs[Pack]
        /\ inits'[k].at # "refused" => inits[k].at # "refused"
        /\ inits'[k].at \in BuildingAt => inits[k].at \in BuildingAt
        /\ inits[k].at = "ready" => inits'[k].at = "ready"
  <2> SUFFICES ASSUME NEW k \in 1..Len(inits)
               PROVE  /\ inits'[k].owner = inits[k].owner /\ inits'[k].job = inits[k].job
                      /\ inits'[k].fs[Pack] = inits[k].fs[Pack]
                      /\ inits'[k].at # "refused" => inits[k].at # "refused"
                      /\ inits'[k].at \in BuildingAt => inits[k].at \in BuildingAt
                      /\ inits[k].at = "ready" => inits'[k].at = "ready"
    OBVIOUS
  <2>1. CASE k = i
    BY <1>1, <1>2, <2>1 DEF BuildingAt
  <2>2. CASE k # i
    BY <1>2, <2>2
  <2> QED BY <2>1, <2>2
<1>5. PICK o \in Engines : o = inits[i].owner
  <2>1. inits[i] \in InitSet
    BY <1>1
  <2> QED BY <2>1 DEF InitSet
<1>6. /\ \A e \in Engines : rtenv'[e] # rtenv[e] =>
           e = o /\ rtenv'[e] = i /\ inits[i].at \in BuildingAt /\ inits'[i].at = "ready"
      /\ rtenv' \in [Engines -> 0..Len(inits)]
  <2>1. rtenv \in [Engines -> 0..Len(inits)] /\ i \in 0..Len(inits)
    BY <1>1, CoreParts, Parts DEF EngineTypes
  <2>2. CASE rtenv' = rtenv
    BY <2>1, <2>2
  <2>3. CASE inits[i].at \in BuildingAt /\ v.at = "ready" /\ rtenv' = [rtenv EXCEPT ![v.owner] = i]
    <3>1. rtenv' = [rtenv EXCEPT ![o] = i]
      BY <1>1, <1>5, <2>3
    <3> QED BY <1>2, <2>1, <2>3, <3>1
  <2> QED BY <2>2, <2>3 DEF ModuleStep
<1>7. /\ \A k \in 1..Len(inits) :
           /\ inits[k].at # "refused" => inits[k].job \in 1..Len(jobs) /\ jobs[inits[k].job].file = Wasm
           /\ inits[k].at \in BuildingAt => k = initPromise /\ start[inits[k].owner].at # "running"
      /\ \A e \in Engines :
           /\ rtenv[e] # 0 => rtenv[e] \in 1..Len(inits) /\ inits[rtenv[e]].owner = e /\ inits[rtenv[e]].at = "ready"
           /\ rtenv[e] # 0 /\ start[e].at # "running" => rtenv[e] = initPromise
           /\ start[e].at = "running" => rtenv[e] # 0
      /\ initPromise \in {0, Len(inits)}
  BY Parts, CoreParts DEF PromisesShared, EngineTypes
<1>8. PromisesShared'
  <2>1. \A k \in 1..Len(inits') :
          /\ inits'[k].at # "refused" => inits'[k].job \in 1..Len(jobs')
          /\ inits'[k].at \in BuildingAt => k = initPromise' /\ start'[inits'[k].owner].at # "running"
    BY <1>2, <1>3, <1>4, <1>7
  <2>2. ASSUME NEW e \in Engines
        PROVE  /\ rtenv'[e] # 0 => inits'[rtenv'[e]].owner = e /\ inits'[rtenv'[e]].at = "ready"
               /\ rtenv'[e] # 0 /\ start'[e].at # "running" => rtenv'[e] = initPromise'
               /\ start'[e].at = "running" => rtenv'[e] # 0
    <3>1. CASE rtenv'[e] = rtenv[e]
      <4>1. rtenv[e] # 0 => inits'[rtenv[e]].owner = e /\ inits'[rtenv[e]].at = "ready"
        BY <1>4, <1>7
      <4>2. start' = start /\ initPromise' = initPromise
        BY <1>3
      <4> QED BY <1>7, <3>1, <4>1, <4>2
    <3>2. CASE rtenv'[e] # rtenv[e]
      <4>1. e = o /\ rtenv'[e] = i /\ inits[i].at \in BuildingAt /\ inits'[i].at = "ready"
        BY <1>6, <3>2
      <4>2. i = initPromise /\ start[e].at # "running" /\ inits'[i].owner = e /\ i # 0
        BY <1>4, <1>5, <1>7, <4>1
      <4> QED BY <1>3, <4>1, <4>2
    <3> QED BY <3>1, <3>2
  <2>3. loadPromise' # 0 => jobs'[loadPromise'].file = Wasm
    BY <1>3, CoreParts DEF LoadPromised
  <2>4. initPromise' \in {0, Len(inits')}
    BY <1>2, <1>3, <1>7
  <2> QED BY <2>1, <2>2, <2>3, <2>4 DEF PromisesShared
<1>9. EngineTypes'
  <2>1. loadPromise' \in 0..Len(jobs')
    BY <1>3, CoreParts
  <2>2. initPromise' \in 0..Len(inits') /\ Len(inits') <= MaxInits
        /\ start' \in [Engines -> StartSet(Len(inits'), Len(jobs'))] /\ rtenv' \in [Engines -> 0..Len(inits')]
    BY <1>2, <1>3, <1>6, CoreParts, Parts DEF EngineTypes
  <2>3. Reports' /\ Shown'
    BY <1>3, CoreParts DEF Reports, Shown
  <2>4. \A k \in 1..Len(inits') : inits'[k].at # "refused" => jobs'[inits'[k].job].file = Wasm
    BY <1>2, <1>3, <1>4, <1>7
  <2> QED BY <1>2, <2>1, <2>2, <2>3, <2>4 DEF EngineTypes
<1>10. PacksWait'
  <2> SUFFICES ASSUME NEW e \in Engines, Underway(e)', start'[e].pack # 0 PROVE PackWaits(e)'
    BY DEF PacksWait
  <2>1. start' = start /\ jobs' = jobs /\ preloadedFiles' = preloadedFiles /\ initPromise' = initPromise
    BY <1>3
  <2>2. Underway(e) /\ start[e].pack # 0
    BY <2>1 DEF Underway
  <2>3. PackWaits(e)
    BY <2>2 DEF PacksWait, Core
  <2>4. initPromise # 0 => inits'[initPromise].owner = inits[initPromise].owner
    BY <1>1, <1>4, <1>7
  <2> QED BY <2>1, <2>3, <2>4 DEF PackWaits
<1>11. MainsHavePack'
  <2> SUFFICES ASSUME NEW e \in Engines, start'[e].at = "running", start'[e].pack # 0, start'[e].own
               PROVE  inits'[rtenv'[e]].fs[Pack] # "none"
    BY DEF MainsHavePack
  <2>1. start[e].at = "running" /\ start[e].pack # 0 /\ start[e].own
    BY <1>3
  <2>2. rtenv'[e] = rtenv[e]
    BY <1>5, <1>6, <1>7, <2>1
  <2>3. rtenv[e] \in 1..Len(inits)
    BY <1>7, <2>1
  <2>4. inits[rtenv[e]].fs[Pack] # "none"
    BY <2>1 DEF MainsHavePack, Core
  <2> QED BY <1>4, <2>2, <2>3, <2>4
<1>12. PartsShared'
  <2>1. CountedTogether(Pack)' <=> CountedTogether(Pack)
    BY <1>3 DEF CountedTogether
  <2> QED BY <1>2, <1>3, <1>4, <2>1 DEF PartsShared, Core
<1>13. Held'
  BY <1>3, CoreParts DEF Held
<1> QED BY <1>3, <1>8, <1>9, <1>10, <1>11, <1>12, <1>13, CoreParts, QuietCore

LEMMA BuildingCore ==
  ASSUME Core, NEW i \in 1..MaxInits, Building(i)
  PROVE  Core'
<1>1. i \in 1..Len(inits) /\ inits[i] \in InitSet /\ inits \in Seq(InitSet)
  BY CoreParts, Parts DEF Building, EngineTypes
<1>2. CASE WasmResolved(i) \/ CompileFails(i)
  <2>1. PICK w \in {"compile", "stuck"} : inits' = [inits EXCEPT ![i].at = w] /\ inits[i].at \in BuildingAt
    BY <1>2 DEF WasmResolved, CompileFails, BuildingAt
  <2> DEFINE v == [inits[i] EXCEPT !.at = w]
  <2>2. inits' = [inits EXCEPT ![i] = v] /\ v \in InitSet /\ v.at = w
    BY <1>1, <2>1 DEF InitSet
  <2>3. v.owner = inits[i].owner /\ v.job = inits[i].job /\ v.fs = inits[i].fs
    BY <1>1 DEF InitSet
  <2> HIDE DEF v
  <2>4. /\ UNCHANGED <<jobs, entries, loadingFiles, lastProgress, frames, preloadedFiles>>
        /\ UNCHANGED <<initPromise, start>> /\ UNCHANGED <<progressFunc, present, status>>
        /\ UNCHANGED <<loadPromise, rtenv>>
    BY <1>2 DEF WasmResolved, CompileFails
  <2>5. ModuleStep(i, v)
    BY <2>1, <2>2, <2>3, <2>4 DEF ModuleStep
  <2> QED BY <1>1, <2>5, ModuleCore
<1>3. CASE EngineReady(i)
  <2> DEFINE v == [inits[i] EXCEPT !.at = "ready"]
  <2>1. inits' = [inits EXCEPT ![i] = v] /\ v \in InitSet /\ v.at = "ready"
    BY <1>1, <1>3 DEF InitSet, EngineReady
  <2>2. v.owner = inits[i].owner /\ v.job = inits[i].job /\ v.fs = inits[i].fs
    BY <1>1 DEF InitSet
  <2> HIDE DEF v
  <2>3. /\ UNCHANGED <<jobs, entries, loadingFiles, lastProgress, frames, preloadedFiles>>
        /\ UNCHANGED <<initPromise, start>> /\ UNCHANGED <<progressFunc, present, status>>
        /\ loadPromise' = 0 /\ inits[i].at \in BuildingAt
        /\ rtenv' = [rtenv EXCEPT ![inits[i].owner] = i]
    BY <1>3 DEF EngineReady, BuildingAt
  <2>4. ModuleStep(i, v)
    BY <2>1, <2>2, <2>3 DEF ModuleStep
  <2> QED BY <1>1, <2>4, ModuleCore
<1> QED BY <1>2, <1>3 DEF Building

\* Scripts do not give a file system another pack.
LEMMA CopyToFSCore ==
  ASSUME Core, NEW e \in Engines, NEW f \in Extra, CopyToFS(e, f)
  PROVE  Core'
<1> PICK i : i = rtenv[e]
  OBVIOUS
<1>1. /\ i \in 1..Len(inits) /\ inits[i] \in InitSet /\ inits \in Seq(InitSet)
      /\ f \in Files /\ f # Pack
  BY CoreParts, Parts, EngineAssumption DEF CopyToFS, EngineTypes
<1>2. inits[i].fs \in [Files -> Copies]
  BY <1>1 DEF InitSet
<1> DEFINE fs == [inits[i].fs EXCEPT ![f] = "whole"]
           v == [inits[i] EXCEPT !.fs = fs]
<1>3. fs \in [Files -> Copies] /\ fs[Pack] = inits[i].fs[Pack]
  BY <1>1, <1>2, EngineAssumption DEF Copies
<1>4. inits' = [inits EXCEPT ![i] = v]
  BY <1>1, <1>2 DEF InitSet, CopyToFS
<1> HIDE DEF fs
<1>5. v \in InitSet /\ v.fs = fs /\ v.owner = inits[i].owner /\ v.job = inits[i].job /\ v.at = inits[i].at
  BY <1>1, <1>3 DEF InitSet
<1> HIDE DEF v
<1>6. /\ UNCHANGED <<jobs, entries, loadingFiles, lastProgress, frames, preloadedFiles>>
      /\ UNCHANGED <<initPromise, start>> /\ UNCHANGED <<progressFunc, present, status>>
      /\ UNCHANGED <<loadPromise, rtenv>>
  BY DEF CopyToFS
<1>7. v.fs[Pack] = inits[i].fs[Pack]
  BY <1>3, <1>5
<1>8. ModuleStep(i, v)
  BY <1>4, <1>5, <1>6, <1>7 DEF ModuleStep
<1> QED BY <1>1, <1>8, ModuleCore

-----------------------------------------------------------------------------
(* A start that ends.                                                          *)

\* The start of engine e was refused, or its game is over.
EndStep(e, v) ==
  /\ start' = [start EXCEPT ![e] = v] /\ v \in StartSet(Len(inits), Len(jobs))
  /\ v.at \in {"refused", "over"}
  /\ \/ start[e].at # "running" /\ rtenv' = rtenv
     \/ rtenv' = [rtenv EXCEPT ![e] = 0]
  /\ UNCHANGED <<jobs, entries, loadingFiles, lastProgress, frames, preloadedFiles>>
  /\ UNCHANGED <<loadPromise, initPromise, inits>> /\ Reports' /\ Shown'

LEMMA EndCore ==
  ASSUME Core, NEW e \in Engines, NEW v, EndStep(e, v)
  PROVE  Core'
<1>1. /\ UNCHANGED <<jobs, entries, loadingFiles, lastProgress, frames, preloadedFiles>>
      /\ UNCHANGED <<loadPromise, initPromise, inits>> /\ Reports' /\ Shown'
      /\ v \in StartSet(Len(inits), Len(jobs)) /\ v.at \in {"refused", "over"}
      /\ start' = [start EXCEPT ![e] = v]
  BY DEF EndStep
<1>2. /\ start' \in [Engines -> StartSet(Len(inits), Len(jobs))]
      /\ start'[e] = v /\ \A o \in Engines : o # e => start'[o] = start[o]
  <2>1. start \in [Engines -> StartSet(Len(inits), Len(jobs))]
    BY CoreParts, Parts DEF EngineTypes
  <2> QED BY <1>1, <2>1
<1>3. /\ rtenv' \in [Engines -> 0..Len(inits)]
      /\ \A o \in Engines : o # e => rtenv'[o] = rtenv[o]
      /\ rtenv'[e] = 0 \/ (rtenv'[e] = rtenv[e] /\ start[e].at # "running")
  <2>1. rtenv \in [Engines -> 0..Len(inits)] /\ Len(inits) \in Nat
    BY CoreParts, Parts DEF EngineTypes
  <2>2. CASE start[e].at # "running" /\ rtenv' = rtenv
    BY <2>1, <2>2
  <2>3. CASE rtenv' = [rtenv EXCEPT ![e] = 0]
    BY <2>1, <2>3
  <2> QED BY <2>2, <2>3 DEF EndStep
<1>4. EngineTypes'
  BY <1>1, <1>2, <1>3, CoreParts, Parts DEF EngineTypes
<1>5. PromisesShared'
  <2>1. /\ loadPromise' # 0 => jobs'[loadPromise'].file = Wasm
        /\ initPromise' \in {0, Len(inits')}
    BY <1>1, CoreParts DEF PromisesShared
  <2>2. ASSUME NEW k \in 1..Len(inits')
        PROVE  /\ inits'[k].at # "refused" => inits'[k].job \in 1..Len(jobs')
               /\ inits'[k].at \in BuildingAt => k = initPromise' /\ start'[inits'[k].owner].at # "running"
    <3>1. k \in 1..Len(inits) /\ inits[k] \in InitSet
      BY <1>1, CoreParts, Parts
    <3>2. PICK o \in Engines : o = inits[k].owner
      BY <3>1 DEF InitSet
    <3>3. /\ inits[k].at # "refused" => inits[k].job \in 1..Len(jobs)
          /\ inits[k].at \in BuildingAt => k = initPromise /\ start[o].at # "running"
      BY <3>1, <3>2, CoreParts DEF PromisesShared
    <3>4. start[o].at # "running" => start'[o].at # "running"
      BY <1>1, <1>2
    <3> QED BY <1>1, <3>2, <3>3, <3>4
  <2>3. ASSUME NEW o \in Engines
        PROVE  /\ rtenv'[o] # 0 => inits'[rtenv'[o]].owner = o /\ inits'[rtenv'[o]].at = "ready"
               /\ rtenv'[o] # 0 /\ start'[o].at # "running" => rtenv'[o] = initPromise'
               /\ start'[o].at = "running" => rtenv'[o] # 0
    <3>1. /\ rtenv[o] # 0 => inits[rtenv[o]].owner = o /\ inits[rtenv[o]].at = "ready"
          /\ rtenv[o] # 0 /\ start[o].at # "running" => rtenv[o] = initPromise
          /\ start[o].at = "running" => rtenv[o] # 0
      BY CoreParts DEF PromisesShared
    <3>2. CASE o = e
      BY <1>1, <1>2, <1>3, <3>1, <3>2
    <3>3. CASE o # e
      BY <1>1, <1>2, <1>3, <3>1, <3>3
    <3> QED BY <3>2, <3>3
  <2> QED BY <2>1, <2>2, <2>3 DEF PromisesShared
<1>6. PacksWait'
  <2> SUFFICES ASSUME NEW o \in Engines, Underway(o)', start'[o].pack # 0 PROVE PackWaits(o)'
    BY DEF PacksWait
  <2>1. o # e
    BY <1>1, <1>2 DEF Underway
  <2>2. start'[o] = start[o] /\ Underway(o) /\ start[o].pack # 0
    BY <1>2, <2>1 DEF Underway
  <2>3. PackWaits(o)
    BY <2>2 DEF PacksWait, Core
  <2> QED BY <1>1, <2>2, <2>3 DEF PackWaits
<1>7. MainsHavePack'
  <2> SUFFICES ASSUME NEW o \in Engines, start'[o].at = "running", start'[o].pack # 0, start'[o].own
               PROVE  inits'[rtenv'[o]].fs[Pack] # "none"
    BY DEF MainsHavePack
  <2>1. o # e
    BY <1>1, <1>2
  <2>2. start'[o] = start[o] /\ rtenv'[o] = rtenv[o] /\ inits' = inits
    BY <1>1, <1>2, <1>3, <2>1
  <2> QED BY <2>2 DEF MainsHavePack, Core
<1>8. PartsShared'
  BY <1>1 DEF PartsShared, Core, CountedTogether
<1>9. Held'
  BY <1>1, CoreParts DEF Held
<1> QED BY <1>1, <1>4, <1>5, <1>6, <1>7, <1>8, <1>9, CoreParts, QuietCore

LEMMA PageShown ==
  ASSUME Shown, NEW e, NEW mode \in {"notice", "hidden"}, PageShows(e, mode), UNCHANGED present
  PROVE  Shown'
BY Zenon DEF Shown, PageShows

LEMMA ExitCore ==
  ASSUME Core, NEW e \in Engines, Exit(e)
  PROVE  Core'
<1> DEFINE v == [start[e] EXCEPT !.at = "over"]
<1>1. start \in [Engines -> StartSet(Len(inits), Len(jobs))]
  BY CoreParts, Parts DEF EngineTypes
<1>2. v \in StartSet(Len(inits), Len(jobs)) /\ v.at = "over" /\ start' = [start EXCEPT ![e] = v]
  BY <1>1 DEF Exit, StartSet
<1> HIDE DEF v
<1>3. /\ rtenv' = [rtenv EXCEPT ![e] = 0]
      /\ UNCHANGED <<jobs, entries, loadingFiles, lastProgress, frames, preloadedFiles>>
      /\ UNCHANGED <<loadPromise, initPromise, inits>> /\ UNCHANGED <<progressFunc, present, status>>
  BY DEF Exit
<1>4. Reports' /\ Shown'
  BY <1>3, CoreParts DEF Reports, Shown
<1>5. EndStep(e, v)
  BY <1>2, <1>3, <1>4 DEF EndStep
<1> QED BY <1>5, EndCore

LEMMA RefusedCore ==
  ASSUME Core, NEW e \in Engines, LoadRefused(e) \/ StartRefused(e)
  PROVE  Core'
<1> DEFINE v == [start[e] EXCEPT !.at = "refused"]
<1>1. start \in [Engines -> StartSet(Len(inits), Len(jobs))]
  BY CoreParts, Parts DEF EngineTypes
<1>2. v \in StartSet(Len(inits), Len(jobs)) /\ v.at = "refused" /\ start' = [start EXCEPT ![e] = v]
  BY <1>1 DEF LoadRefused, StartRefused, StartSet
<1> HIDE DEF v
<1>3. /\ start[e].at # "running" /\ UNCHANGED rtenv
      /\ UNCHANGED <<jobs, entries, loadingFiles, lastProgress, frames, preloadedFiles>>
      /\ UNCHANGED <<loadPromise, initPromise, inits>> /\ UNCHANGED <<progressFunc, present>>
      /\ PageShows(e, "notice")
  BY DEF LoadRefused, StartRefused
<1>4. Reports'
  BY <1>3, CoreParts DEF Reports
<1>5. Shown'
  BY <1>3, CoreParts, PageShown
<1>6. EndStep(e, v)
  BY <1>2, <1>3, <1>4, <1>5 DEF EndStep
<1> QED BY <1>6, EndCore

\* Some of what is held goes to the file system of the module that engine e is to run, and
\* its start goes on with v.
MainStep(e, w, v) ==
  /\ rtenv[e] # 0 /\ start[e].at = "starting"
  /\ inits' = [inits EXCEPT ![rtenv[e]] = w] /\ w \in InitSet
  /\ w.owner = inits[rtenv[e]].owner /\ w.job = inits[rtenv[e]].job /\ w.at = inits[rtenv[e]].at
  /\ w.fs[Pack] = "part" => inits[rtenv[e]].fs[Pack] = "part" \/ preloadedFiles[Pack] = "part"
  /\ start' = [start EXCEPT ![e] = v] /\ v \in StartSet(Len(inits), Len(jobs))
  /\ v.pack = start[e].pack /\ (v.own <=> start[e].own) /\ v.at \in {"running", "refused"}
  /\ v.at = "running" /\ preloadedFiles[Pack] # "none" => w.fs[Pack] # "none"
  /\ initPromise' = IF v.at = "running" THEN 0 ELSE initPromise
  /\ preloadedFiles' \in {preloadedFiles, NoFiles}
  /\ UNCHANGED <<jobs, entries, loadingFiles, lastProgress, frames>>
  /\ UNCHANGED <<loadPromise, rtenv>> /\ Reports' /\ Shown'

\* Only the engine that was inited last can be run, so it takes what waited for it.
LEMMA MainStepCore ==
  ASSUME Core, NEW e \in Engines, NEW w, NEW v, MainStep(e, w, v)
  PROVE  Core'
<1> PICK i : i = rtenv[e]
  OBVIOUS
<1>1. /\ i \in 1..Len(inits) /\ inits[i] \in InitSet /\ inits \in Seq(InitSet)
      /\ start[e].at = "starting" /\ i # 0
      /\ start \in [Engines -> StartSet(Len(inits), Len(jobs))] /\ Len(inits) \in Nat
  BY CoreParts, Parts DEF MainStep, EngineTypes
<1>2. i = initPromise /\ i = Len(inits) /\ inits[i].owner = e /\ inits[i].at = "ready"
  BY <1>1, CoreParts DEF PromisesShared
<1>3. inits' = [inits EXCEPT ![i] = w] /\ w \in InitSet
  BY DEF MainStep
<1>4. /\ w.owner = inits[i].owner /\ w.job = inits[i].job /\ w.at = inits[i].at
      /\ w.fs[Pack] = "part" => inits[i].fs[Pack] = "part" \/ preloadedFiles[Pack] = "part"
      /\ v.at = "running" /\ preloadedFiles[Pack] # "none" => w.fs[Pack] # "none"
  BY DEF MainStep
<1>5. /\ start' = [start EXCEPT ![e] = v] /\ v \in StartSet(Len(inits), Len(jobs))
      /\ v.at \in {"running", "refused"} /\ v.pack = start[e].pack
      /\ (v.own <=> start[e].own)
  BY DEF MainStep
<1>6. /\ UNCHANGED <<jobs, entries, loadingFiles, lastProgress, frames>>
      /\ UNCHANGED <<loadPromise, rtenv>> /\ Reports' /\ Shown'
      /\ preloadedFiles' \in {preloadedFiles, NoFiles}
      /\ initPromise' = IF v.at = "running" THEN 0 ELSE initPromise
  BY DEF MainStep
<1>7. /\ inits' \in Seq(InitSet) /\ Len(inits') = Len(inits) /\ inits'[i] = w
      /\ \A k \in 1..Len(inits) : k # i => inits'[k] = inits[k]
  BY <1>1, <1>3, SetOne
<1>8. \A k \in 1..Len(inits) :
        /\ inits'[k].owner = inits[k].owner /\ inits'[k].job = inits[k].job
        /\ inits'[k].at = inits[k].at
  <2> SUFFICES ASSUME NEW k \in 1..Len(inits)
               PROVE  /\ inits'[k].owner = inits[k].owner /\ inits'[k].job = inits[k].job
                      /\ inits'[k].at = inits[k].at
    OBVIOUS
  <2>1. CASE k = i
    BY <1>4, <1>7, <2>1
  <2>2. CASE k # i
    BY <1>7, <2>2
  <2> QED BY <2>1, <2>2
<1>9. /\ start' \in [Engines -> StartSet(Len(inits), Len(jobs))] /\ start'[e] = v
      /\ \A o \in Engines : o # e => start'[o] = start[o]
  BY <1>1, <1>5
<1>10. EngineTypes'
  <2>1. \A k \in 1..Len(inits') : inits'[k].at # "refused" => jobs'[inits'[k].job].file = Wasm
    BY <1>6, <1>7, <1>8, CoreParts, Parts DEF EngineTypes
  <2>2. initPromise' \in 0..Len(inits')
    <3>1. initPromise' = 0 \/ initPromise' = Len(inits)
      BY <1>2, <1>6
    <3> QED BY <1>1, <1>7, <3>1
  <2>4. /\ loadPromise' \in 0..Len(jobs') /\ Len(inits') <= MaxInits
        /\ rtenv' \in [Engines -> 0..Len(inits')]
    BY <1>1, <1>6, <1>7, CoreParts, Parts DEF EngineTypes
  <2>5. start' \in [Engines -> StartSet(Len(inits'), Len(jobs'))]
    BY <1>6, <1>7, <1>9
  <2> QED BY <1>6, <1>7, <2>1, <2>2, <2>4, <2>5 DEF EngineTypes
<1>11. PromisesShared'
  <2>1. loadPromise' # 0 => jobs'[loadPromise'].file = Wasm
    BY <1>6, CoreParts DEF LoadPromised
  <2>2. ASSUME NEW k \in 1..Len(inits')
        PROVE  /\ inits'[k].at # "refused" => inits'[k].job \in 1..Len(jobs')
               /\ inits'[k].at \notin BuildingAt
    <3>1. k \in 1..Len(inits)
      BY <1>7
    <3>2. /\ inits[k].at # "refused" => inits[k].job \in 1..Len(jobs)
          /\ inits[k].at \in BuildingAt => k = i
      BY <1>2, <3>1, CoreParts DEF PromisesShared
    <3>3. inits[k].at \notin BuildingAt
      BY <1>2, <3>2 DEF BuildingAt
    <3> QED BY <1>6, <1>8, <3>1, <3>2, <3>3
  <2>3. ASSUME NEW o \in Engines
        PROVE  /\ rtenv'[o] # 0 => inits'[rtenv'[o]].owner = o /\ inits'[rtenv'[o]].at = "ready"
               /\ rtenv'[o] # 0 /\ start'[o].at # "running" => rtenv'[o] = initPromise'
               /\ start'[o].at = "running" => rtenv'[o] # 0
    <3>1. /\ rtenv[o] # 0 => rtenv[o] \in 1..Len(inits) /\ inits[rtenv[o]].owner = o /\ inits[rtenv[o]].at = "ready"
          /\ rtenv[o] # 0 /\ start[o].at # "running" => rtenv[o] = i
          /\ start[o].at = "running" => rtenv[o] # 0
      BY <1>2, CoreParts, Parts DEF PromisesShared
    <3>2. rtenv'[o] = rtenv[o] /\ (rtenv[o] # 0 => inits'[rtenv[o]].owner = o /\ inits'[rtenv[o]].at = "ready")
      BY <1>6, <1>8, <3>1
    <3>3. CASE o = e
      BY <1>1, <1>2, <1>5, <1>6, <1>9, <3>2, <3>3
    <3>4. CASE o # e
      <4>1. start'[o] = start[o]
        BY <1>9, <3>4
      <4>2. rtenv[o] # 0 => start[o].at = "running"
        BY <1>2, <3>1, <3>4
      <4> QED BY <3>1, <3>2, <4>1, <4>2
    <3> QED BY <3>3, <3>4
  <2>4. initPromise' \in {0, Len(inits')}
    BY <1>2, <1>6, <1>7
  <2> QED BY <2>1, <2>2, <2>3, <2>4 DEF PromisesShared
<1>12. PacksWait'
  <2> SUFFICES ASSUME NEW o \in Engines, Underway(o)', start'[o].pack # 0 PROVE PackWaits(o)'
    BY DEF PacksWait
  <2>1. o # e
    BY <1>5, <1>9 DEF Underway
  <2>2. start'[o] = start[o] /\ Underway(o) /\ start[o].pack # 0
    BY <1>9, <2>1 DEF Underway
  <2>3. PackWaits(o)
    BY <2>2 DEF PacksWait, Core
  <2>4. ~start[o].own
    BY <1>2, <2>1, <2>3 DEF PackWaits
  <2> QED BY <1>6, <2>2, <2>3, <2>4 DEF PackWaits
<1>13. MainsHavePack'
  <2> SUFFICES ASSUME NEW o \in Engines, start'[o].at = "running", start'[o].pack # 0, start'[o].own
               PROVE  inits'[rtenv'[o]].fs[Pack] # "none"
    BY DEF MainsHavePack
  <2>1. CASE o = e
    <3>1. rtenv'[o] = i /\ start[e].pack # 0 /\ start[e].own /\ Underway(e) /\ v.at = "running"
      BY <1>1, <1>5, <1>6, <1>9, <2>1 DEF Underway
    <3>2. PackWaits(e)
      BY <3>1 DEF PacksWait, Core
    <3>3. preloadedFiles[Pack] # "none"
      BY <1>1, <3>1, <3>2 DEF PackWaits
    <3> QED BY <1>4, <1>7, <3>1, <3>3
  <2>2. CASE o # e
    <3>1. start[o].at = "running" /\ start[o].pack # 0 /\ start[o].own /\ rtenv'[o] = rtenv[o]
      BY <1>6, <1>9, <2>2
    <3>2. rtenv[o] \in 1..Len(inits) /\ inits[rtenv[o]].owner = o
      BY <3>1, CoreParts, Parts DEF PromisesShared
    <3>3. rtenv[o] # i
      BY <1>2, <2>2, <3>2
    <3>4. inits[rtenv[o]].fs[Pack] # "none"
      BY <3>1 DEF MainsHavePack, Core
    <3> QED BY <1>7, <3>1, <3>2, <3>3, <3>4
  <2> QED BY <2>1, <2>2
<1>14. PartsShared'
  <2>1. CountedTogether(Pack)' <=> CountedTogether(Pack)
    BY <1>6 DEF CountedTogether
  <2>2. preloadedFiles[Pack] = "part" => CountedTogether(Pack)
    BY DEF PartsShared, Core
  <2>3. ASSUME NEW k \in 1..Len(inits), inits'[k].fs[Pack] = "part" PROVE CountedTogether(Pack)
    <3>1. \A l \in 1..Len(inits) : inits[l].fs[Pack] = "part" => CountedTogether(Pack)
      BY DEF PartsShared, Core
    <3>2. CASE k = i
      BY <1>1, <1>4, <1>7, <2>2, <2>3, <3>1, <3>2
    <3>3. CASE k # i
      BY <1>7, <2>3, <3>1, <3>3
    <3> QED BY <3>2, <3>3
  <2>4. preloadedFiles'[Pack] = "part" => preloadedFiles[Pack] = "part"
    BY <1>6, EngineAssumption DEF NoFiles
  <2> QED BY <1>7, <2>1, <2>2, <2>3, <2>4 DEF PartsShared
<1>15. Held'
  <2>1. NoFiles \in [Files -> Copies] /\ NoFiles[Wasm] = "none"
    BY FileAssumption DEF NoFiles, Copies
  <2> QED BY <1>6, <2>1, CoreParts DEF Held
<1> QED BY <1>6, <1>10, <1>11, <1>12, <1>13, <1>14, <1>15, QuietCore

\* The newest copy of a file goes over the one a file system has.
LEMMA CopiedFiles ==
  ASSUME Held, NEW fs \in [Files -> Copies], NEW files
  PROVE  /\ Copied(fs, files) \in [Files -> Copies]
         /\ Copied(fs, files)[Pack] = "part" => fs[Pack] = "part" \/ preloadedFiles[Pack] = "part"
         /\ files = Files /\ preloadedFiles[Pack] # "none" => Copied(fs, files)[Pack] # "none"
<1>1. \A f \in Files : preloadedFiles[f] \in Copies /\ fs[f] \in Copies
  BY DEF Held
<1> QED BY <1>1, EngineAssumption DEF Copied

LEMMA RunStep ==
  ASSUME Core, NEW e \in Engines, MayMain(e), NEW files, NEW at \in {"running", "refused"},
         at = "running" => files = Files,
         inits' = [inits EXCEPT ![rtenv[e]].fs = Copied(@, files)],
         start' = [start EXCEPT ![e].at = at],
         initPromise' = IF at = "running" THEN 0 ELSE initPromise,
         preloadedFiles' \in {preloadedFiles, NoFiles},
         UNCHANGED <<jobs, entries, loadingFiles, lastProgress, frames, loadPromise, rtenv>>,
         Reports', Shown'
  PROVE  Core'
<1> PICK i : i = rtenv[e]
  OBVIOUS
<1>1. /\ i \in 1..Len(inits) /\ inits[i] \in InitSet /\ inits \in Seq(InitSet)
      /\ start[e].at = "starting" /\ i # 0 /\ start[e] \in StartSet(Len(inits), Len(jobs))
      /\ start \in [Engines -> StartSet(Len(inits), Len(jobs))]
  BY CoreParts, Parts DEF MayMain, EngineTypes
<1>2. inits[i].fs \in [Files -> Copies]
  BY <1>1 DEF InitSet
<1> DEFINE fs == Copied(inits[i].fs, files)
           w == [inits[i] EXCEPT !.fs = fs]
           v == [start[e] EXCEPT !.at = at]
<1>3. /\ fs \in [Files -> Copies]
      /\ fs[Pack] = "part" => inits[i].fs[Pack] = "part" \/ preloadedFiles[Pack] = "part"
      /\ files = Files /\ preloadedFiles[Pack] # "none" => fs[Pack] # "none"
  BY <1>2, CoreParts, CopiedFiles
<1>4. inits' = [inits EXCEPT ![i] = w]
  BY <1>1, <1>2 DEF InitSet
<1> HIDE DEF fs
<1>5. w \in InitSet /\ w.fs = fs /\ w.owner = inits[i].owner /\ w.job = inits[i].job /\ w.at = inits[i].at
  BY <1>1, <1>3 DEF InitSet
<1>6. /\ start' = [start EXCEPT ![e] = v] /\ v \in StartSet(Len(inits), Len(jobs))
      /\ v.at = at /\ v.pack = start[e].pack /\ v.own = start[e].own
  BY <1>1 DEF StartSet
<1> HIDE DEF w, v
<1>7. MainStep(e, w, v)
  BY <1>1, <1>3, <1>4, <1>5, <1>6 DEF MainStep
<1> QED BY <1>7, MainStepCore

LEMMA CallMainCore ==
  ASSUME Core, NEW e \in Engines, CallMain(e)
  PROVE  Core'
<1>1. /\ MayMain(e) /\ inits' = [inits EXCEPT ![rtenv[e]].fs = Copied(@, Files)]
      /\ start' = [start EXCEPT ![e].at = "running"] /\ initPromise' = 0 /\ preloadedFiles' = NoFiles
      /\ UNCHANGED <<jobs, entries, loadingFiles, lastProgress, frames, loadPromise, rtenv>>
      /\ UNCHANGED <<progressFunc, present>> /\ PageShows(e, "hidden")
  BY DEF CallMain
<1>2. Reports'
  BY <1>1, CoreParts DEF Reports
<1>3. Shown'
  BY <1>1, CoreParts, PageShown
<1> QED BY <1>1, <1>2, <1>3, RunStep

LEMMA StartFailsCore ==
  ASSUME Core, NEW e \in Engines, StartFails(e)
  PROVE  Core'
<1>1. /\ MayMain(e) /\ start' = [start EXCEPT ![e].at = "refused"] /\ initPromise' = initPromise
      /\ preloadedFiles' \in {preloadedFiles, NoFiles}
      /\ UNCHANGED <<jobs, entries, loadingFiles, lastProgress, frames, loadPromise, rtenv>>
      /\ UNCHANGED <<progressFunc, present>> /\ PageShows(e, "notice")
  BY DEF StartFails
<1>2. PICK files \in SUBSET Files : inits' = [inits EXCEPT ![rtenv[e]].fs = Copied(@, files)]
  BY DEF StartFails
<1>3. Reports'
  BY <1>1, CoreParts DEF Reports
<1>4. Shown'
  BY <1>1, CoreParts, PageShown
<1> QED BY <1>1, <1>2, <1>3, <1>4, RunStep

-----------------------------------------------------------------------------
(* The bounds.                                                                 *)

LEMMA RoomKept ==
  ASSUME RoomLeft, Begun, Begun', Len(inits) \in Nat, Len(inits') = Len(inits),
         LoadingEngines' \subseteq LoadingEngines
  PROVE  RoomLeft'
<1>1. /\ IsFiniteSet(LoadingEngines) /\ Len(inits) + Cardinality(LoadingEngines) <= MaxInits
      /\ Cardinality(LoadingEngines) \in Nat /\ MaxInits \in Nat
  BY FS_CardinalityType, EngineAssumption DEF RoomLeft
<1>2. IsFiniteSet(LoadingEngines') /\ Cardinality(LoadingEngines') <= Cardinality(LoadingEngines)
  BY <1>1, FS_Subset
<1>3. Cardinality(LoadingEngines') \in Nat
  BY <1>2, FS_CardinalityType
<1>4. Len(inits') + Cardinality(LoadingEngines') <= MaxInits
  BY <1>1, <1>2, <1>3
<1> QED BY <1>2, <1>4 DEF RoomLeft

LEMMA RoomUntouched ==
  ASSUME RoomLeft, UNCHANGED <<inits, start>>, Begun => Begun', Len(inits) \in Nat
  PROVE  RoomLeft'
<1>1. LoadingEngines' = LoadingEngines
  BY DEF LoadingEngines
<1>2. CASE Begun
  BY <1>1, <1>2, RoomKept
<1>3. CASE ~Begun
  <2>1. inits = <<>> /\ \A e \in Engines : start[e].at = "none"
    BY <1>3 DEF RoomLeft
  <2>2. LoadingEngines' = {} /\ Len(inits') = 0
    BY <1>1, <2>1 DEF LoadingEngines
  <2>3. IsFiniteSet(LoadingEngines') /\ Cardinality(LoadingEngines') = 0
    BY <2>2, FS_EmptySet
  <2>4. Len(inits') + Cardinality(LoadingEngines') <= MaxInits
    BY <2>2, <2>3, EngineAssumption
  <2> QED BY <2>1, <2>3, <2>4 DEF RoomLeft
<1> QED BY <1>2, <1>3

\* The page's own start is the first: two promises are enough for it.
LEMMA PageStartsKeeps ==
  ASSUME Core, RoomLeft, PageStarts
  PROVE  Core' /\ RoomLeft'
<1>1. CallStartGame(Page) /\ Page \in Engines /\ UNCHANGED present
  BY EngineAssumption DEF PageStarts, CallStartGame
<1>2. ~Begun /\ Begun' /\ status' \in {"", "progress", "notice", "hidden"}
  BY Zenon DEF PageStarts, Begun
<1>3. Shown'
  BY <1>1, <1>2, CoreParts, Zenon DEF Shown
<1>4. inits = <<>> /\ \A e \in Engines : start[e].at = "none"
  BY <1>2 DEF RoomLeft
<1>5. Len(inits') \in Nat /\ Len(inits') <= 1
  <2>1. CallInit(Page, TRUE, <<Pack>>)
    BY <1>1 DEF CallStartGame
  <2>2. InitShared \/ \E new : InitMade(Page, new)
    BY <1>1, <2>1, FileLists, InitFacts
  <2>3. Len(inits') \in Nat /\ Len(inits') <= Len(inits) + 1
    BY <1>1, <2>2, CoreParts, InitsGrow DEF InitsOn
  <2> QED BY <1>4, <2>3
<1>6. Core'
  <2>1. Len(inits') <= MaxInits
    BY <1>5, EngineAssumption
  <2> QED BY <1>1, <1>3, <2>1, StartGameCore
<1>7. LoadingEngines' = {Page}
  <2>1. start' = [start EXCEPT ![Page] = [at |-> "loading", init |-> initPromise', pack |-> Len(jobs'), own |-> initPromise = 0]]
    BY <1>1 DEF CallStartGame
  <2>2. start \in [Engines -> StartSet(Len(inits), Len(jobs))]
    BY CoreParts, Parts DEF EngineTypes
  <2>3. start'[Page].at = "loading" /\ \A e \in Engines : e # Page => start'[e] = start[e]
    BY <1>1, <2>1, <2>2
  <2>4. \A e \in Engines : start'[e].at = "loading" <=> e = Page
    BY <1>4, <2>3
  <2> QED BY <1>1, <2>4 DEF LoadingEngines
<1>8. IsFiniteSet(LoadingEngines') /\ Cardinality(LoadingEngines') = 1
  BY <1>7, FS_Singleton
<1>9. Len(inits') + Cardinality(LoadingEngines') <= MaxInits
  BY <1>5, <1>8, EngineAssumption
<1> QED BY <1>2, <1>6, <1>8, <1>9 DEF RoomLeft

\* A start that is loading has room for its second promise.
LEMMA AllLoadedKeeps ==
  ASSUME Core, RoomLeft, NEW e \in Engines, AllLoaded(e)
  PROVE  Core' /\ RoomLeft'
<1>1. CallInit(e, FALSE, <<>>) /\ start[e].at = "loading" /\ UNCHANGED <<present, status>>
  BY DEF AllLoaded
<1>2. Shown' /\ (Begun' <=> Begun)
  BY <1>1, CoreParts DEF Shown, Begun
<1>3. Begun
  BY <1>1 DEF RoomLeft
<1>4. /\ Len(inits) \in Nat /\ Len(inits') \in Nat /\ Len(inits') <= Len(inits) + 1
  <2>1. InitShared \/ \E new : InitMade(e, new)
    BY <1>1, FileLists, InitFacts
  <2> QED BY <2>1, CoreParts, InitsGrow DEF InitsOn
<1>5. LoadingEngines' = LoadingEngines \ {e} /\ e \in LoadingEngines
  <2>1. start' = [start EXCEPT ![e] = [start[e] EXCEPT !.at = "starting", !.init = initPromise']]
    BY DEF AllLoaded
  <2>2. start[e] \in StartSet(Len(inits), Len(jobs)) /\ start \in [Engines -> StartSet(Len(inits), Len(jobs))]
    BY CoreParts, Parts DEF EngineTypes
  <2>3. start'[e].at = "starting" /\ \A o \in Engines : o # e => start'[o] = start[o]
    BY <2>1, <2>2 DEF StartSet
  <2> QED BY <1>1, <2>3 DEF LoadingEngines
<1>6. /\ IsFiniteSet(LoadingEngines) /\ Len(inits) + Cardinality(LoadingEngines) <= MaxInits
      /\ Cardinality(LoadingEngines) \in Nat /\ MaxInits \in Nat
  BY <1>3, FS_CardinalityType, EngineAssumption DEF RoomLeft
<1>7. IsFiniteSet(LoadingEngines') /\ Cardinality(LoadingEngines') = Cardinality(LoadingEngines) - 1
  BY <1>5, <1>6, FS_RemoveElement
<1>8. Cardinality(LoadingEngines') \in Nat
  BY <1>7, FS_CardinalityType
<1>9. Len(inits') + Cardinality(LoadingEngines') <= MaxInits /\ Len(inits') <= MaxInits
  BY <1>4, <1>6, <1>7, <1>8
<1>10. Core'
  BY <1>2, <1>9, AllLoadedCore
<1> QED BY <1>2, <1>3, <1>7, <1>9, <1>10 DEF RoomLeft

LEMMA StartingKeeps ==
  ASSUME Core, RoomLeft, NEW e \in Engines, Starting(e)
  PROVE  Core' /\ RoomLeft'
<1>1. CASE AllLoaded(e)
  BY <1>1, AllLoadedKeeps
<1>2. CASE LoadRefused(e) \/ StartRefused(e) \/ StartFails(e) \/ CallMain(e)
  <2>1. Core'
    BY <1>2, RefusedCore, StartFailsCore, CallMainCore
  <2>2. Underway(e) /\ \E mode \in {"notice", "hidden"} : PageShows(e, mode)
    BY <1>2, Zenon DEF LoadRefused, StartRefused, StartFails, CallMain, MayMain, Underway
  <2>3. start[e].at # "none"
    BY <2>2 DEF Underway
  <2>4. Begun
    BY <2>3 DEF RoomLeft
  <2>5. Begun'
    BY <2>2, <2>4, Zenon DEF PageShows, Begun
  <2>6. Len(inits') = Len(inits) /\ Len(inits) \in Nat
    <3>1. Len(inits) \in Nat /\ inits \in Seq(InitSet)
      BY CoreParts, Parts DEF EngineTypes
    <3>2. CASE LoadRefused(e) \/ StartRefused(e)
      BY <3>1, <3>2 DEF LoadRefused, StartRefused
    <3>3. CASE StartFails(e) \/ CallMain(e)
      <4>1. \E files \in SUBSET Files : inits' = [inits EXCEPT ![rtenv[e]].fs = Copied(@, files)]
        BY <3>3 DEF StartFails, CallMain
      <4>2. PICK w : inits' = [inits EXCEPT ![rtenv[e]] = w]
        BY <4>1
      <4> QED BY <3>1, <4>2
    <3> QED BY <1>2, <3>1, <3>2, <3>3
  <2>7. LoadingEngines' \subseteq LoadingEngines
    <3>1. start \in [Engines -> StartSet(Len(inits), Len(jobs))] /\ start[e] \in StartSet(Len(inits), Len(jobs))
      BY CoreParts, Parts DEF EngineTypes
    <3>2. PICK w \in {"refused", "running"} : start' = [start EXCEPT ![e] = [start[e] EXCEPT !.at = w]]
      BY <1>2, <3>1 DEF LoadRefused, StartRefused, StartFails, CallMain
    <3>3. start'[e].at = w /\ \A o \in Engines : o # e => start'[o] = start[o]
      BY <3>1, <3>2 DEF StartSet
    <3> QED BY <3>2, <3>3 DEF LoadingEngines
  <2> QED BY <2>1, <2>4, <2>5, <2>6, <2>7, RoomKept
<1> QED BY <1>1, <1>2 DEF Starting

LEMMA BuildingKeeps ==
  ASSUME Core, RoomLeft, NEW i \in 1..MaxInits, Building(i)
  PROVE  Core' /\ RoomLeft'
<1>1. Core'
  BY BuildingCore
<1>2. Len(inits) \in Nat /\ inits \in Seq(InitSet) /\ i \in 1..Len(inits)
  BY CoreParts, Parts DEF EngineTypes, Building
<1>3. Begun
  BY <1>2 DEF RoomLeft
<1>4. UNCHANGED start /\ UNCHANGED status /\ \E w : inits' = [inits EXCEPT ![i] = w]
  BY DEF Building, WasmResolved, EngineReady, CompileFails
<1>5. Len(inits') = Len(inits)
  BY <1>2, <1>4
<1>6. LoadingEngines' = LoadingEngines /\ (Begun' <=> Begun)
  BY <1>4 DEF LoadingEngines, Begun
<1> QED BY <1>1, <1>2, <1>3, <1>5, <1>6, RoomKept

LEMMA CallersKeep ==
  ASSUME Core, RoomLeft, Callers
  PROVE  Core' /\ RoomLeft'
<1>1. status # "" /\ Room'
  BY Zenon DEF Callers
<1>2. Begun /\ status' = status
  BY <1>1, Zenon DEF Begun, Callers, Load, Unload, PreloadFile, StartGame, Start, Exit, CopyToFS
<1>3. Begun'
  BY <1>2 DEF Begun
<1>4. start \in [Engines -> StartSet(Len(inits), Len(jobs))] /\ IsFiniteSet(LoadingEngines)
  BY CoreParts, Parts DEF EngineTypes, RoomLeft
<1>5. Len(inits') + Cardinality(LoadingEngines') <= MaxInits
  BY <1>1 DEF Room, LoadingEngines
<1>6. ASSUME IsFiniteSet(LoadingEngines'), Len(inits') \in Nat
      PROVE  RoomLeft' /\ Len(inits') <= MaxInits
  <2>1. Cardinality(LoadingEngines') \in Nat /\ MaxInits \in Nat
    BY <1>6, FS_CardinalityType, EngineAssumption
  <2>2. Len(inits') <= MaxInits
    BY <1>5, <1>6, <2>1
  <2> QED BY <1>3, <1>5, <1>6, <2>2 DEF RoomLeft
<1>7. ASSUME UNCHANGED start, Core' PROVE Core' /\ RoomLeft'
  <2>1. LoadingEngines' = LoadingEngines
    BY <1>7 DEF LoadingEngines
  <2>2. Len(inits') \in Nat
    <3>1. Core => Len(inits) \in Nat
      BY CoreParts
    <3>2. Core' => (Len(inits) \in Nat)'
      BY <3>1, CoreParts, PTL
    <3> QED BY <1>7, <3>2
  <2> QED BY <1>4, <1>6, <1>7, <2>1, <2>2
<1>8. CASE Load
  <2>1. UNCHANGED start
    BY <1>8 DEF Load
  <2> QED BY <1>7, <1>8, <2>1, LoadCore
<1>9. CASE Unload
  <2>1. UNCHANGED start
    BY <1>9 DEF Unload
  <2> QED BY <1>7, <1>9, <2>1, UnloadCore
<1>10. ASSUME NEW f \in Extra, PreloadFile(f) PROVE Core' /\ RoomLeft'
  <2>1. UNCHANGED start /\ f \in Files
    BY <1>10, EngineAssumption DEF PreloadFile
  <2> QED BY <1>7, <1>10, <2>1, PreloadFileCore
<1>11. ASSUME NEW e \in Engines, NEW f \in Extra, CopyToFS(e, f) PROVE Core' /\ RoomLeft'
  <2>1. UNCHANGED start
    BY <1>11 DEF CopyToFS
  <2> QED BY <1>7, <1>11, <2>1, CopyToFSCore
<1>12. ASSUME NEW e \in Engines, \E w : start' = [start EXCEPT ![e] = w] PROVE IsFiniteSet(LoadingEngines')
  <2>1. \A o \in Engines : o # e => start'[o] = start[o]
    BY <1>4, <1>12
  <2>2. LoadingEngines' \subseteq LoadingEngines \cup {e}
    BY <2>1 DEF LoadingEngines
  <2>3. IsFiniteSet(LoadingEngines \cup {e})
    BY <1>4, FS_AddElement
  <2> QED BY <2>2, <2>3, FS_Subset
<1>13. ASSUME NEW e \in Engines, Exit(e) PROVE Core' /\ RoomLeft'
  <2>1. Core' /\ inits' = inits /\ \E w : start' = [start EXCEPT ![e] = w]
    BY <1>13, ExitCore DEF Exit
  <2>2. IsFiniteSet(LoadingEngines') /\ Len(inits') \in Nat
    BY <1>12, <2>1, CoreParts
  <2> QED BY <1>6, <2>1, <2>2
<1>14. ASSUME NEW e \in Engines, NEW b \in BOOLEAN, NEW files \in Seq(Files), CallInit(e, b, files),
              UNCHANGED present
       PROVE  Shown' /\ Len(inits') \in Nat
  BY <1>2, <1>14, InitFacts, CoreParts DEF Shown
<1>15. ASSUME NEW e \in Engines, StartGame(e) PROVE Core' /\ RoomLeft'
  <2>1. CallStartGame(e) /\ CallInit(e, TRUE, <<Pack>>) /\ UNCHANGED present
        /\ \E w : start' = [start EXCEPT ![e] = w]
    BY <1>15 DEF StartGame, CallStartGame
  <2>2. Shown' /\ Len(inits') \in Nat
    BY <1>14, <2>1, FileLists
  <2>3. RoomLeft' /\ Len(inits') <= MaxInits
    BY <1>6, <1>12, <2>1, <2>2
  <2> QED BY <2>1, <2>2, <2>3, StartGameCore
<1>16. ASSUME NEW e \in Engines, Start(e) PROVE Core' /\ RoomLeft'
  <2>1. CallInit(e, FALSE, <<>>) /\ UNCHANGED present
        /\ \E w : start' = [start EXCEPT ![e] = w]
    BY <1>16 DEF Start
  <2>2. Shown' /\ Len(inits') \in Nat
    BY <1>14, <2>1, FileLists
  <2>3. RoomLeft' /\ Len(inits') <= MaxInits
    BY <1>6, <1>12, <2>1, <2>2
  <2> QED BY <1>16, <2>2, <2>3, StartCore
<1> QED BY <1>8, <1>9, <1>10, <1>11, <1>13, <1>15, <1>16, Zenon DEF Callers

-----------------------------------------------------------------------------
(* The invariant and what it gives.                                            *)

LEMMA WebInvHolds == Init => WebInv
<1> SUFFICES ASSUME Init PROVE WebInv
  OBVIOUS
<1>1. /\ jobs = <<>> /\ entries = <<>> /\ loadingFiles = [f \in Files |-> 0]
      /\ lastProgress = [loaded |-> 0, total |-> 0] /\ frames = 0 /\ preloadedFiles = NoFiles
      /\ loadPromise = 0 /\ initPromise = 0 /\ inits = <<>>
      /\ rtenv = [e \in Engines |-> 0] /\ start = [e \in Engines |-> NoStart]
  BY DEF Init, LoaderInit
<1>2. Reports /\ Shown /\ ~Begun
  BY Zenon DEF Init, Reports, Shown, Begun
<1>3. /\ jobs \in Seq(JobSet) /\ Len(jobs) = 0 /\ entries \in Seq(EntrySet) /\ Len(entries) = 0
      /\ inits \in Seq(InitSet) /\ Len(inits) = 0
  BY <1>1
<1>4. LoaderTypes
  BY <1>1, <1>3, FileAssumption DEF LoaderTypes
<1>5. EngineTypes
  <2>1. NoStart \in StartSet(0, 0)
    BY DEF NoStart, StartSet
  <2> QED BY <1>1, <1>2, <1>3, <2>1, EngineAssumption DEF EngineTypes
<1>6. TypeOK
  <2>1. lastProgress \in [loaded : Nat, total : Nat] /\ frames \in Nat /\ Held
    BY <1>1, FileAssumption DEF Held, NoFiles, Copies
  <2> QED BY <1>4, <1>5, <2>1, LoaderParts, TypeParts
<1>7. JobsWell /\ PromisesShared
  <2>1. /\ (\A j \in 1..Len(jobs) : FALSE) /\ (\A i \in 1..Len(inits) : FALSE)
        /\ (\A x \in 1..Len(entries) : FALSE) /\ (\A f \in Files : loadingFiles[f] = 0)
    BY <1>1, <1>3
  <2>2. \A e \in Engines : rtenv[e] = 0 /\ start[e].at # "running"
    BY <1>1 DEF NoStart
  <2>3. initPromise \in {0, Len(inits)} /\ loadPromise = 0
    BY <1>1
  <2> QED BY <2>1, <2>2, <2>3 DEF JobsWell, PromisesShared
<1>8. \A e \in Engines : start[e].at = "none" /\ start[e].pack = 0
  BY <1>1 DEF NoStart
<1>9. PacksWait /\ MainsHavePack /\ PartsShared
  <2>1. preloadedFiles[Pack] = "none" /\ \A i \in 1..Len(inits) : FALSE
    BY <1>1, <1>3, EngineAssumption DEF NoFiles
  <2> QED BY <1>8, <2>1 DEF PacksWait, MainsHavePack, PartsShared
<1>10. Reported
  <2>1. Progress.loaded \in Nat /\ lastProgress.loaded = 0
    BY <1>1, <1>4, ProgressType
  <2> QED BY <2>1 DEF Reported
<1>11. RoomLeft
  <2>1. LoadingEngines = {}
    BY <1>8 DEF LoadingEngines
  <2> QED BY <1>1, <1>2, <1>8, <2>1, FS_EmptySet DEF RoomLeft
<1> QED BY <1>6, <1>7, <1>9, <1>10, <1>11 DEF WebInv, Core

LEMMA WebInvKept == WebInv /\ [Next]_vars => WebInv'
<1> SUFFICES ASSUME Core, RoomLeft, [Next]_vars PROVE Core' /\ RoomLeft'
  BY DEF WebInv
<1>1. CASE UNCHANGED vars
  <2>1. /\ UNCHANGED <<jobs, entries, loadingFiles, lastProgress, frames, preloadedFiles>>
        /\ UNCHANGED <<loadPromise, initPromise, inits, rtenv, start>>
        /\ UNCHANGED <<progressFunc, present, status>>
    BY <1>1 DEF vars
  <2>2. Begun => Begun'
    BY <2>1 DEF Begun
  <2>3. RoomLeft'
    BY <2>1, <2>2, CoreParts, RoomUntouched
  <2>4. LoaderTypes' /\ JobsWell' /\ JobsKept /\ CountsKept
    BY <2>1, CoreParts, JobsSame DEF JobsWell
  <2>5. Reports' /\ Shown'
    BY <2>1, CoreParts DEF Reports, Shown
  <2>6. loadPromise' \in 0..Len(jobs') /\ LoadPromised' /\ frames' \in Nat
    BY <2>1, CoreParts DEF LoadPromised
  <2>7. Held' /\ HeldOn
    BY <2>1, CoreParts DEF Held, HeldOn
  <2> QED BY <2>1, <2>3, <2>4, <2>5, <2>6, <2>7, StayCore
<1>2. CASE PageRefuses
  <2>1. UNCHANGED <<inits, start>> /\ Begun'
    BY <1>2, Zenon DEF PageRefuses, Begun
  <2> QED BY <1>2, <2>1, CoreParts, RoomUntouched, PageRefusesCore
<1>3. CASE PageStarts
  BY <1>3, PageStartsKeeps
<1>4. CASE Callers
  BY <1>4, CallersKeep
<1>5. CASE Animate
  <2>1. UNCHANGED <<inits, start>> /\ (Begun => Begun')
    BY <1>5 DEF Animate, engineVars, Begun
  <2> QED BY <1>5, <2>1, CoreParts, RoomUntouched, AnimateCore
<1>6. ASSUME NEW j \in 1..MaxLoads, Download(j) PROVE Core' /\ RoomLeft'
  <2>1. UNCHANGED <<inits, start>> /\ (Begun => Begun')
    BY <1>6 DEF Download, engineVars, Begun
  <2> QED BY <1>6, <2>1, CoreParts, RoomUntouched, DownloadCore
<1>7. ASSUME NEW i \in 1..MaxInits, Building(i) PROVE Core' /\ RoomLeft'
  BY <1>7, BuildingKeeps
<1>8. ASSUME NEW e \in Engines, Starting(e) PROVE Core' /\ RoomLeft'
  BY <1>8, StartingKeeps
<1> QED BY <1>1, <1>2, <1>3, <1>4, <1>5, <1>6, <1>7, <1>8 DEF Next, PageScript

LEMMA Invariance == Spec => []WebInv
<1> QED BY WebInvHolds, WebInvKept, PTL DEF Spec

\* Every variable keeps its type, and the bound on the promises of init() leaves every
\* start that was let in its second one.
THEOREM WebTypes == Spec => []TypeOK
<1>1. WebInv => TypeOK
  BY DEF WebInv, Core
<1> QED BY <1>1, Invariance, PTL

\* Two modules are never built at once; and a game that startGame runs with a module it
\* asked for itself has its main pack, whole unless two downloads of it shared an entry.
THEOREM WholeModules == Spec => []EnginesShare
<1>1. ASSUME WebInv PROVE EnginesShare
  <2> DEFINE built == { i \in DOMAIN inits : inits[i].at \in {"load", "compile"} }
  <2>1. Core /\ DOMAIN inits = 1..Len(inits)
    <3>1. inits \in Seq(InitSet)
      BY <1>1, CoreParts, Parts DEF WebInv, EngineTypes
    <3> QED BY <1>1, <3>1 DEF WebInv
  <2>2. built \subseteq {initPromise}
    BY <2>1, CoreParts DEF PromisesShared, BuildingAt
  <2>3. IsFiniteSet({initPromise}) /\ Cardinality({initPromise}) = 1
    BY FS_Singleton
  <2>4. Cardinality(built) <= 1
    BY <2>2, <2>3, FS_Subset
  <2>5. OneBuild
    BY <2>4 DEF OneBuild
  <2>6. PackBeforeMain
    <3> SUFFICES ASSUME NEW e \in Engines, start[e].at = "running", start[e].pack # 0, start[e].own
                 PROVE  \/ inits[rtenv[e]].fs[Pack] = "whole"
                        \/ inits[rtenv[e]].fs[Pack] = "part" /\ CountedTogether(Pack)
      BY DEF PackBeforeMain
    <3>1. PICK i \in 1..Len(inits) : i = rtenv[e]
      BY <2>1, CoreParts, Parts DEF PromisesShared
    <3>2. inits[i].fs \in [Files -> Copies]
      BY <2>1, CoreParts, Parts DEF InitSet
    <3>3. inits[i].fs[Pack] \in Copies
      BY <3>2, EngineAssumption
    <3>4. inits[i].fs[Pack] # "none"
      BY <2>1, <3>1 DEF Core, MainsHavePack
    <3>5. inits[i].fs[Pack] = "part" => CountedTogether(Pack)
      BY <2>1 DEF Core, PartsShared
    <3> QED BY <3>1, <3>3, <3>4, <3>5 DEF Copies
  <2> QED BY <2>5, <2>6 DEF EnginesShare
<1> QED BY <1>1, Invariance, PTL

\* While no file is asked for twice, what the page is told has come in never shrinks,
\* whatever is tried again.
THEOREM ProgressGrows == Spec => ReportedGrows
<1>1. ASSUME WebInv, [Next]_vars, AskedOnce PROVE lastProgress'.loaded >= lastProgress.loaded
  <2>1. lastProgress.loaded \in Nat /\ Core /\ Reported
    BY <1>1, CoreParts, Parts DEF WebInv, Core
  <2>2. lastProgress' = lastProgress \/ lastProgress' = Progress
    BY <1>1 DEF Next, vars, PageScript, PageRefuses, PageStarts, CallStartGame, Callers, Load, Unload,
                PreloadFile, StartGame, Start, Exit, CopyToFS, Animate, Frame, Download, JobStep,
                FetchFails, RetryFetch, FetchAnswers, ReadPiece, ReadEnd, ReadFails, Building,
                WasmResolved, EngineReady, CompileFails, Starting, LoadRefused, AllLoaded,
                StartRefused, StartFails, CallMain
  <2>3. Progress.loaded \in Nat /\ lastProgress.loaded <= Progress.loaded
    BY <1>1, <2>1, CoreParts, ProgressType DEF Reported
  <2> QED BY <2>1, <2>2, <2>3
<1>2. WebInv /\ [Next]_vars => [AskedOnce => lastProgress'.loaded >= lastProgress.loaded]_vars
  BY <1>1
<1> QED BY <1>2, Invariance, PTL DEF Spec, ReportedGrows
=============================================================================
