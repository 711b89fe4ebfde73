------------------------------ MODULE Preloader ------------------------------
(***************************************************************************)
(* The Preloader of MahJong.js: it downloads the files of the exported     *)
(* game, tries a download again that did not start, and counts what has    *)
(* come in for the progress bar.  Every call of loadPromise is a job; what *)
(* the browser's fetch does with it is the environment's choice.  Each     *)
(* attempt makes the tracker a new entry for its file, and a response is   *)
(* counted on the entry it finds there.  Sizes are in pieces, the values   *)
(* the response's reader hands out.                                        *)
(***************************************************************************)
EXTENDS Integers, Sequences, FiniteSetsExt

CONSTANTS
  Files,      \* the files that are asked for
  Wasm,       \* the engine: its response is handed on as soon as it begins
  FileSizes,  \* fileSizes of the configuration, 0 where it has no entry
  Pieces,     \* in how many pieces a file comes in
  Attempts,   \* DOWNLOAD_ATTEMPTS_MAX
  MaxLoads,   \* bound: calls of loadPromise
  MaxFaults   \* bound: fetches and responses that fail

ASSUME FileAssumption ==
  /\ IsFiniteSet(Files) /\ Wasm \in Files /\ FileSizes \in [Files -> Nat] /\ Pieces \in Nat \ {0}
  /\ Attempts \in Nat \ {0} /\ MaxLoads \in Nat \ {0} /\ MaxFaults \in Nat

VARIABLES
  jobs,          \* the calls of loadPromise, with the attempts each has left
  entries,       \* the entries that were made: what came in, and whether it is done
  loadingFiles,  \* the entry each file has, 0 for none
  lastProgress,  \* what progressFunc was told last
  frames,        \* animateProgress callbacks that are due
  preloadedFiles \* files held in memory for the next start, by their newest copy

loaderVars == <<jobs, entries, loadingFiles, lastProgress, frames, preloadedFiles>>

\* A copy of a file is "none", "part" of it or the "whole".
NoFiles == [f \in Files |-> "none"]

LoaderInit ==
  /\ jobs = <<>> /\ entries = <<>> /\ loadingFiles = [f \in Files |-> 0]
  /\ lastProgress = [loaded |-> 0, total |-> 0]
  /\ frames = 0 /\ preloadedFiles = NoFiles

Job(file, kept) ==
  [file |-> file, kept |-> kept, left |-> Attempts, at |-> "fetch", got |-> 0, entry |-> 0]
Entry(file) == [file |-> file, loaded |-> 0, done |-> FALSE]

\* loadPromise() and preload() for each of some files in turn: the first attempt of
\* each begins at once.
LoadAll(files) ==
  /\ Len(jobs) + Len(files) <= MaxLoads
  /\ jobs' = jobs \o [k \in DOMAIN files |-> Job(files[k], files[k] # Wasm)]
  /\ entries' = entries \o [k \in DOMAIN files |-> Entry(files[k])]
  /\ loadingFiles' = [f \in Files |->
       IF \E k \in DOMAIN files : files[k] = f
       THEN Len(entries) + (CHOOSE k \in DOMAIN files : files[k] = f)
       ELSE loadingFiles[f]]

-----------------------------------------------------------------------------
(* The life of a download: "fetch", then "pause" and "fetch" again or      *)
(* "failed"; "stream", then "done" or "broken".                            *)

Faults ==
  MapThenSumSet(LAMBDA j : Attempts - jobs[j].left
                           + IF jobs[j].at \in {"pause", "failed", "broken"} THEN 1 ELSE 0,
                DOMAIN jobs)
MayFail == Faults < MaxFaults

\* As a fault: one attempt too many.
FetchFailsLate(j) ==
  /\ jobs[j].at = "fetch" /\ MayFail
  /\ jobs' = [jobs EXCEPT ![j].at = IF jobs[j].left < 1 THEN "failed" ELSE "pause"]
  /\ UNCHANGED <<entries, loadingFiles, lastProgress, frames, preloadedFiles>>

\* fetch() is refused or answers with an error.
FetchFails(j) ==
  /\ jobs[j].at = "fetch" /\ MayFail
  /\ jobs' = [jobs EXCEPT ![j].at = IF jobs[j].left <= 1 THEN "failed" ELSE "pause"]
  /\ UNCHANGED <<entries, loadingFiles, lastProgress, frames, preloadedFiles>>

\* The timer of retry(): loadFetch starts its entry in loadingFiles afresh.
RetryFetch(j) ==
  /\ jobs[j].at = "pause"
  /\ jobs' = [jobs EXCEPT ![j].at = "fetch", ![j].left = @ - 1]
  /\ entries' = Append(entries, Entry(jobs[j].file))
  /\ loadingFiles' = [loadingFiles EXCEPT ![jobs[j].file] = Len(entries) + 1]
  /\ UNCHANGED <<lastProgress, frames, preloadedFiles>>

\* The entry is the one its file has by now, of whichever attempt.
FetchAnswers(j) ==
  /\ jobs[j].at = "fetch"
  /\ jobs' = [jobs EXCEPT ![j].at = "stream", ![j].entry = loadingFiles[jobs[j].file]]
  /\ UNCHANGED <<entries, loadingFiles, lastProgress, frames, preloadedFiles>>

\* What came in, and its entry, while nobody has ended that.
ReadPiece(j) ==
  /\ jobs[j].at = "stream" /\ jobs[j].got < Pieces /\ ~entries[jobs[j].entry].done
  /\ jobs' = [jobs EXCEPT ![j].got = @ + 1]
  /\ entries' = [entries EXCEPT ![jobs[j].entry].loaded = @ + 1]
  /\ UNCHANGED <<loadingFiles, lastProgress, frames, preloadedFiles>>

\* The stream is closed, at the end of the file or because another download that is
\* counted on this entry has ended; preload() keeps what came in.
ReadEnd(j) ==
  /\ jobs[j].at = "stream" /\ (jobs[j].got = Pieces \/ entries[jobs[j].entry].done)
  /\ jobs' = [jobs EXCEPT ![j].at = "done"]
  /\ entries' = [entries EXCEPT ![jobs[j].entry].done = TRUE]
  /\ preloadedFiles' =
       IF jobs[j].kept
       THEN [preloadedFiles EXCEPT ![jobs[j].file] = IF jobs[j].got = Pieces THEN "whole" ELSE "part"]
       ELSE preloadedFiles
  /\ UNCHANGED <<loadingFiles, lastProgress, frames>>

\* As a fault: a stream that fails is fetched again like a fetch that failed.
ReadFailsRetried(j) ==
  /\ jobs[j].at = "stream" /\ MayFail
  /\ jobs' = [jobs EXCEPT ![j].at = "pause", ![j].got = 0]
  /\ UNCHANGED <<entries, loadingFiles, lastProgress, frames, preloadedFiles>>

\* reader.read() fails: the stream that was made from it is neither closed nor failed.
ReadFails(j) ==
  /\ jobs[j].at = "stream" /\ MayFail
  /\ jobs' = [jobs EXCEPT ![j].at = "broken"]
  /\ UNCHANGED <<entries, loadingFiles, lastProgress, frames, preloadedFiles>>

JobStep(j) ==
  \/ FetchFails(j) \/ RetryFetch(j) \/ FetchAnswers(j)
  \/ ReadPiece(j) \/ ReadEnd(j) \/ ReadFails(j)

\* The promise of a raw load resolves with the response, any other with the file.
Resolved(j) == jobs[j].at = "done" \/ (~jobs[j].kept /\ jobs[j].at \in {"stream", "broken"})
Rejected(j) == jobs[j].at = "failed"

-----------------------------------------------------------------------------
(* animateProgress().                                                      *)

Tracked == { f \in Files : loadingFiles[f] # 0 }
Stat(file) == entries[loadingFiles[file]]

\* The pieces of the tracked files together, size[f] of each, as a set to be counted.
PiecesOf(size) == UNION { {f} \X (1..size[f]) : f \in Tracked }

\* No total is known when one file's is not.
Progress ==
  [loaded |-> Cardinality(PiecesOf([f \in Tracked |-> Stat(f).loaded])),
   total  |-> IF \E f \in Tracked : FileSizes[f] = 0 THEN 0
              ELSE Cardinality(PiecesOf(FileSizes))]

\* As a fault: a file nobody has asked for counts as one that is not complete.
FinalForAll == \A f \in Files : f \in Tracked /\ Stat(f).done

ProgressIsFinal == \A f \in Tracked : Stat(f).done

Frame ==
  /\ frames > 0
  /\ lastProgress' = Progress
  /\ frames' = IF ProgressIsFinal THEN frames - 1 ELSE frames
  /\ UNCHANGED <<jobs, entries, loadingFiles, preloadedFiles>>

-----------------------------------------------------------------------------
LoaderTypeOK ==
  /\ jobs \in Seq([file : Files, kept : BOOLEAN, left : 1..Attempts, got : 0..Pieces, entry : Nat,
                   at : {"fetch", "pause", "stream", "done", "failed", "broken"}])
  /\ Len(jobs) <= MaxLoads
  /\ entries \in Seq([file : Files, loaded : Nat, done : BOOLEAN])
  /\ loadingFiles \in [Files -> 0..Len(entries)]
  /\ \A f \in Tracked : Stat(f).file = f
  /\ \A j \in DOMAIN jobs : jobs[j].at \in {"stream", "done", "broken"} =>
       jobs[j].entry \in DOMAIN entries /\ entries[jobs[j].entry].file = jobs[j].file
  /\ lastProgress \in [loaded : Nat, total : Nat]
  /\ frames \in Nat
  /\ preloadedFiles \in [Files -> {"none", "part", "whole"}] /\ preloadedFiles[Wasm] = "none"
=============================================================================
