------------------------------ MODULE WebEngine ------------------------------
(***************************************************************************)
(* The Engine class of MahJong.js and the page MahJong.html that starts    *)
(* the exported game with it.  All instances of Engine share one           *)
(* preloader, one loadPromise and one initPromise; each has its own module *)
(* (rtenv).  The page starts its engine once; another script may use       *)
(* engines of its own.  A callback runs to its end before the next.        *)
(***************************************************************************)
EXTENDS Preloader

CONSTANTS
  Engines,     \* the Engine instances
  Page,        \* the one MahJong.html makes
  Pack,        \* the main pack, <executable>.pck
  Extra,       \* files that scripts preload beside it
  MaxInits,    \* bound: calls of init() that make a promise; a start may make two
  Browsers,    \* the sets of features a browser may have
  Threads      \* GODOT_THREADS_ENABLED

ASSUME EngineAssumption ==
  /\ Page \in Engines /\ Pack \in Files \ {Wasm} /\ Extra \subseteq Files \ {Wasm, Pack}
  /\ MaxInits \in Nat \ {0, 1} /\ Threads \in BOOLEAN

VARIABLES
  loadPromise,  \* the job it stands for, 0 for null
  initPromise,  \* the doInit it stands for, 0 for null
  inits,        \* the calls of doInit; one that is ready is a module
  rtenv,        \* the module of each engine, 0 for null
  start,        \* the call of start or startGame each engine made last
  progressFunc, \* the engine whose onProgress is called, "" for null
  present,      \* the browser's features
  status        \* the page's overlay: "", "progress", "notice" or "hidden"

engineVars == <<loadPromise, initPromise, inits, rtenv, start, progressFunc>>
vars == <<jobs, entries, loadingFiles, lastProgress, frames, preloadedFiles, loadPromise,
          initPromise, inits, rtenv, start, progressFunc, present, status>>

\* getMissingFeatures().
Required ==
  {"webgl2", "fetch", "secure"} \cup IF Threads THEN {"isolated", "sharedmemory"} ELSE {}
MissingFeatures == Required \ present

\* A start remembers whether startGame asked for the module itself or found initPromise set.
NoStart == [at |-> "none", init |-> 0, pack |-> 0, own |-> FALSE]
InitOf(owner, job, at) == [owner |-> owner, job |-> job, at |-> at, fs |-> NoFiles]

Init ==
  /\ LoaderInit
  /\ loadPromise = 0 /\ initPromise = 0 /\ inits = <<>>
  /\ rtenv = [e \in Engines |-> 0] /\ start = [e \in Engines |-> NoStart]
  /\ progressFunc = ""
  /\ present \in Browsers /\ status = ""

-----------------------------------------------------------------------------
(* The API.                                                                *)

\* Engine.load(): the wasm is asked for and the progress loop begins.  Some files are
\* asked for by the same call.
CallLoad(files) ==
  IF loadPromise # 0
  THEN LoadAll(files) /\ UNCHANGED <<loadPromise, frames>>
  ELSE /\ LoadAll(<<Wasm>> \o files)
       /\ loadPromise' = Len(jobs) + 1 /\ frames' = frames + 1

\* init(), with or without a base path; a promise that was refused stays.
CallInit(e, basePath, files) ==
  IF initPromise # 0
  THEN /\ LoadAll(files)
       /\ UNCHANGED <<loadPromise, frames, initPromise, inits, progressFunc>>
  ELSE /\ initPromise' = Len(inits) + 1
       /\ IF loadPromise = 0 /\ ~basePath
          THEN /\ LoadAll(files)
               /\ inits' = Append(inits, InitOf(e, 0, "refused"))
               /\ UNCHANGED <<loadPromise, frames, progressFunc>>
          ELSE /\ CallLoad(files)
               /\ inits' = Append(inits, InitOf(e, loadPromise', "load"))
               /\ progressFunc' = e

\* Callers load and unload by hand only between starts.
Underway(e) == start[e].at \in {"loading", "starting"}
Load ==
  /\ loadPromise = 0 /\ \A e \in Engines : ~Underway(e)
  /\ CallLoad(<<>>)
  /\ UNCHANGED <<lastProgress, preloadedFiles, initPromise, inits, rtenv, start,
                 progressFunc, present, status>>

\* As a fault: what is being built is forgotten too.
UnloadInit ==
  /\ loadPromise # 0 /\ \A e \in Engines : ~Underway(e)
  /\ loadPromise' = 0 /\ initPromise' = 0
  /\ UNCHANGED <<jobs, entries, loadingFiles, lastProgress, frames, preloadedFiles, inits, rtenv,
                 start, progressFunc, present, status>>

Unload ==
  /\ loadPromise # 0 /\ \A e \in Engines : ~Underway(e)
  /\ loadPromise' = 0
  /\ UNCHANGED <<jobs, entries, loadingFiles, lastProgress, frames, preloadedFiles, initPromise,
                 inits, rtenv, start, progressFunc, present, status>>

\* preloadFile() of a file; scripts preload each of theirs once.
PreloadFile(file) ==
  /\ loadingFiles[file] = 0
  /\ LoadAll(<<file>>)
  /\ UNCHANGED <<lastProgress, frames, preloadedFiles>>
  /\ UNCHANGED <<loadPromise, initPromise, inits, rtenv, start, progressFunc, present, status>>

\* Callers wait for one start of an engine before they ask for the next, and do not
\* start one that runs.
MayStart(e) == start[e].at \in {"none", "refused", "over"}

\* startGame(): init and the main pack.
CallStartGame(e) ==
  /\ MayStart(e)
  /\ CallInit(e, TRUE, <<Pack>>)
  /\ start' = [start EXCEPT ![e] =
       [at |-> "loading", init |-> initPromise', pack |-> Len(jobs'), own |-> initPromise = 0]]
  /\ UNCHANGED <<lastProgress, preloadedFiles, rtenv, present>>

StartGame(e) == e # Page /\ CallStartGame(e) /\ UNCHANGED status

\* start(): init without a base path.
Start(e) ==
  /\ e # Page /\ MayStart(e)
  /\ CallInit(e, FALSE, <<>>)
  /\ start' = [start EXCEPT ![e] =
       [at |-> "starting", init |-> initPromise', pack |-> 0, own |-> FALSE]]
  /\ UNCHANGED <<lastProgress, preloadedFiles, rtenv, present, status>>

CopyToFS(e, file) ==
  /\ rtenv[e] # 0
  /\ inits' = [inits EXCEPT ![rtenv[e]].fs[file] = "whole"]
  /\ UNCHANGED <<jobs, entries, loadingFiles, lastProgress, frames, preloadedFiles, loadPromise,
                 initPromise, rtenv, start, progressFunc, present, status>>

\* requestQuit(), or the game ends by itself: onExit calls cleanup.
Exit(e) ==
  /\ start[e].at = "running"
  /\ rtenv' = [rtenv EXCEPT ![e] = 0]
  /\ start' = [start EXCEPT ![e].at = "over"]
  /\ UNCHANGED <<jobs, entries, loadingFiles, lastProgress, frames, preloadedFiles, loadPromise,
                 initPromise, inits, progressFunc, present, status>>

-----------------------------------------------------------------------------
(* What the promises call.                                                 *)

\* doInit: the response is there, the module is built from its clone.
WasmResolved(i) ==
  /\ inits[i].at = "load" /\ Resolved(inits[i].job)
  /\ inits' = [inits EXCEPT ![i].at = "compile"]
  /\ UNCHANGED <<jobs, entries, loadingFiles, lastProgress, frames, preloadedFiles, loadPromise,
                 initPromise, rtenv, start, progressFunc, present, status>>

\* Godot() and initFS have ended; they need the whole file.  unloadAfterInit is set.
EngineReady(i) ==
  /\ inits[i].at = "compile" /\ jobs[inits[i].job].at = "done" /\ jobs[inits[i].job].got = Pieces
  /\ inits' = [inits EXCEPT ![i].at = "ready"]
  /\ rtenv' = [rtenv EXCEPT ![inits[i].owner] = i]
  /\ loadPromise' = 0
  /\ UNCHANGED <<jobs, entries, loadingFiles, lastProgress, frames, preloadedFiles, initPromise,
                 start, progressFunc, present, status>>

\* The module cannot be built; nobody is told.
CompileFails(i) ==
  /\ inits[i].at = "compile"
  /\ inits' = [inits EXCEPT ![i].at = "stuck"]
  /\ UNCHANGED <<jobs, entries, loadingFiles, lastProgress, frames, preloadedFiles, loadPromise,
                 initPromise, rtenv, start, progressFunc, present, status>>

\* The page's overlay once its start has settled.
PageShows(e, mode) == status' = IF e = Page THEN mode ELSE status

\* As a fault: only a refused init is noticed.
InitRefused(e) ==
  /\ start[e].at = "loading"
  /\ inits[start[e].init].at = "refused"
  /\ start' = [start EXCEPT ![e].at = "refused"]
  /\ PageShows(e, "notice")
  /\ UNCHANGED <<jobs, entries, loadingFiles, lastProgress, frames, preloadedFiles, loadPromise,
                 initPromise, inits, rtenv, progressFunc, present>>

\* Promise.all of startGame is refused as soon as one of its two is.
LoadRefused(e) ==
  /\ start[e].at = "loading"
  /\ inits[start[e].init].at = "refused" \/ Rejected(start[e].pack)
  /\ start' = [start EXCEPT ![e].at = "refused"]
  /\ PageShows(e, "notice")
  /\ UNCHANGED <<jobs, entries, loadingFiles, lastProgress, frames, preloadedFiles, loadPromise,
                 initPromise, inits, rtenv, progressFunc, present>>

\* As a fault: the pack is not waited for.
AllLoadedEarly(e) ==
  /\ start[e].at = "loading"
  /\ inits[start[e].init].at = "ready"
  /\ CallInit(e, FALSE, <<>>)
  /\ start' = [start EXCEPT ![e] = [@ EXCEPT !.at = "starting", !.init = initPromise']]
  /\ UNCHANGED <<lastProgress, preloadedFiles, rtenv, present, status>>

\* Both have resolved: start() is called, which calls init() again.
AllLoaded(e) ==
  /\ start[e].at = "loading"
  /\ inits[start[e].init].at = "ready" /\ Resolved(start[e].pack)
  /\ CallInit(e, FALSE, <<>>)
  /\ start' = [start EXCEPT ![e] = [@ EXCEPT !.at = "starting", !.init = initPromise']]
  /\ UNCHANGED <<lastProgress, preloadedFiles, rtenv, present, status>>

\* start() fails: it was not inited, or by another engine.
StartRefused(e) ==
  /\ start[e].at = "starting"
  /\ \/ inits[start[e].init].at = "refused"
     \/ inits[start[e].init].at = "ready" /\ rtenv[e] = 0
  /\ start' = [start EXCEPT ![e].at = "refused"]
  /\ PageShows(e, "notice")
  /\ UNCHANGED <<jobs, entries, loadingFiles, lastProgress, frames, preloadedFiles, loadPromise,
                 initPromise, inits, rtenv, progressFunc, present>>

\* Some of the files held in memory, their newest copies, over what a file system has.
Copied(fs, files) ==
  [f \in Files |-> IF f \in files /\ preloadedFiles[f] # "none" THEN preloadedFiles[f] ELSE fs[f]]

MayMain(e) ==
  start[e].at = "starting" /\ inits[start[e].init].at = "ready" /\ rtenv[e] # 0

\* start() fails later: there is no canvas, an extension library cannot be loaded, or the
\* module throws when it is configured or is given one of the files, or its main throws
\* when it has them all.  initPromise stays.
StartFails(e) ==
  /\ MayMain(e)
  /\ \/ /\ \E files \in SUBSET Files : inits' = [inits EXCEPT ![rtenv[e]].fs = Copied(@, files)]
        /\ UNCHANGED preloadedFiles
     \/ /\ inits' = [inits EXCEPT ![rtenv[e]].fs = Copied(@, Files)]
        /\ preloadedFiles' = NoFiles
  /\ start' = [start EXCEPT ![e].at = "refused"]
  /\ PageShows(e, "notice")
  /\ UNCHANGED <<jobs, entries, loadingFiles, lastProgress, frames, loadPromise, initPromise,
                 rtenv, progressFunc, present>>

\* The files held in memory go to this engine's file system, and main is called.
CallMain(e) ==
  /\ MayMain(e)
  /\ inits' = [inits EXCEPT ![rtenv[e]].fs = Copied(@, Files)]
  /\ preloadedFiles' = NoFiles
  /\ initPromise' = 0
  /\ start' = [start EXCEPT ![e].at = "running"]
  /\ PageShows(e, "hidden")
  /\ UNCHANGED <<jobs, entries, loadingFiles, lastProgress, frames, loadPromise, rtenv,
                 progressFunc, present>>

-----------------------------------------------------------------------------
(* MahJong.html.                                                           *)

PageRefuses ==
  /\ status = "" /\ MissingFeatures # {}
  /\ status' = "notice"
  /\ UNCHANGED <<jobs, entries, loadingFiles, lastProgress, frames, preloadedFiles, loadPromise,
                 initPromise, inits, rtenv, start, progressFunc, present>>

PageStarts ==
  /\ status = "" /\ MissingFeatures = {}
  /\ CallStartGame(Page)
  /\ status' = "progress"

\* The bounds leave room for the second init of every start that is loading.
Room ==
  /\ Len(jobs) <= MaxLoads
  /\ Len(inits) + Cardinality({ e \in Engines : start[e].at = "loading" }) <= MaxInits

\* Other scripts come after the page's own and, like it, only if no feature is missing.
Callers ==
  /\ status # "" /\ MissingFeatures = {}
  /\ \/ Load \/ Unload
     \/ \E f \in Extra : PreloadFile(f)
     \/ \E e \in Engines :
          \/ StartGame(e) \/ Start(e) \/ Exit(e)
          \/ \E f \in Extra : CopyToFS(e, f)
  /\ Room'

Download(j) == j \in DOMAIN jobs /\ JobStep(j) /\ UNCHANGED <<engineVars, present, status>>
Animate == Frame /\ UNCHANGED <<engineVars, present, status>>
Building(i) == i \in DOMAIN inits /\ (WasmResolved(i) \/ EngineReady(i) \/ CompileFails(i))
Starting(e) == LoadRefused(e) \/ AllLoaded(e) \/ StartRefused(e) \/ StartFails(e) \/ CallMain(e)
PageScript == PageRefuses \/ PageStarts

Next ==
  \/ PageScript \/ Callers \/ Animate
  \/ \E j \in 1..MaxLoads : Download(j)
  \/ \E i \in 1..MaxInits : Building(i)
  \/ \E e \in Engines : Starting(e)

Spec == Init /\ [][Next]_vars

\* The browser answers a fetch and reads a response, well or badly, runs timers and
\* frames, builds modules and calls what a promise was given.  Nothing makes it succeed.
\* A download or a build has few steps, so none can hold up the others for ever.
FairSpec ==
  /\ Spec
  /\ WF_vars(PageScript) /\ WF_vars(Animate)
  /\ WF_vars(\E j \in 1..MaxLoads : Download(j))
  /\ WF_vars(\E i \in 1..MaxInits : Building(i))
  /\ \A e \in Engines : WF_vars(Starting(e))

-----------------------------------------------------------------------------
(* Properties.                                                             *)

TypeOK ==
  /\ LoaderTypeOK
  /\ loadPromise \in 0..Len(jobs) /\ initPromise \in 0..Len(inits)
  /\ inits \in Seq([owner : Engines, job : 0..MaxLoads, fs : [Files -> {"none", "part", "whole"}],
                    at : {"load", "compile", "ready", "stuck", "refused"}])
  /\ Len(inits) <= MaxInits
  /\ \A i \in DOMAIN inits : inits[i].at # "refused" => jobs[inits[i].job].file = Wasm
  /\ rtenv \in [Engines -> 0..Len(inits)]
  /\ start \in [Engines -> [at : {"none", "loading", "starting", "running", "refused", "over"},
                            init : 0..Len(inits), pack : 0..Len(jobs), own : BOOLEAN]]
  /\ progressFunc \in Engines \cup {""}
  /\ present \in Browsers /\ status \in {"", "progress", "notice", "hidden"}

\* A game that startGame runs finds its main pack in its file system, although the pack
\* waits in a list that all engines share and the first main empties, if it asked for the
\* module itself: one that waits for another engine's may see its pack go with that.  The
\* pack is whole, unless two downloads of it were counted on one entry: the first to end
\* then cuts the other off.
CountedTogether(file) ==
  \E j, k \in DOMAIN jobs :
    /\ j # k /\ jobs[j].entry = jobs[k].entry /\ jobs[j].entry # 0
    /\ jobs[j].file = file
PackBeforeMain ==
  \A e \in Engines :
    start[e].at = "running" /\ start[e].pack # 0 /\ start[e].own
    => \/ inits[rtenv[e]].fs[Pack] = "whole"
       \/ inits[rtenv[e]].fs[Pack] = "part" /\ CountedTogether(Pack)

\* Two modules are never built at once, however many engines are started together and
\* whatever they unload: they share initPromise, and only a main gives it up.
OneBuild == Cardinality({ i \in DOMAIN inits : inits[i].at \in {"load", "compile"} }) <= 1

\* Both: engines that share their files and promises do not get in each other's way.
EnginesShare == PackBeforeMain /\ OneBuild

\* What is reported never shrinks, however often a download is tried again, as long as
\* no file is asked for twice: an attempt that failed had not counted anything.
AskedOnce == \A j, k \in DOMAIN jobs : jobs[j].file = jobs[k].file => j = k
ReportedGrows ==
  [][AskedOnce => lastProgress'.loaded >= lastProgress.loaded]_vars

\* Every start settles, unless the wasm could not be loaded or built or a response broke
\* off: then it waits for ever.
Lost(j) == jobs[j].at = "broken"
Hangs(e) ==
  LET i == start[e].init
  IN  \/ start[e].at = "loading" /\ Lost(start[e].pack)
      \/ inits[i].at = "stuck"
      \/ inits[i].at # "refused" /\ (Lost(inits[i].job) \/ Rejected(inits[i].job))
StartSettles ==
  \A e \in Engines : Underway(e) ~> (~Underway(e) \/ Hangs(e))

\* The progress loop ends when the downloads have, unless one broke off or was given up.
LoopEnds ==
  [](frames > 0 => <>(frames = 0 \/ \E j \in DOMAIN jobs : Lost(j) \/ Rejected(j)))

\* The page tells of a download of its own that has failed for good: it passes a notice
\* for that to startGame.
FailureIsShown ==
  (status = "progress" /\ \E j \in {inits[start[Page].init].job, start[Page].pack} : Rejected(j))
    ~> status # "progress"

\* What a file was preloaded for (MahJong.js:738): a game has the whole of its main pack.
PackIsWhole ==
  \A e \in Engines : start[e].at = "running" => inits[rtenv[e]].fs[Pack] # "part"
=============================================================================
