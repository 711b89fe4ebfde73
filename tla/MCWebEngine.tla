----------------------------- MODULE MCWebEngine -----------------------------
(* WebEngine for TLC: the page MahJong.html and one script beside it.       *)
EXTENDS WebEngine, TLC

\* GODOT_CONFIG.fileSizes names the engine and the pack.
MCFileSizes == "wasm" :> 1 @@ "pck" :> 1 @@ "extra" :> 0

\* A browser that has everything, and one whose server sends no isolation headers.
MCBrowsers ==
  LET all == {"webgl2", "fetch", "secure", "isolated", "sharedmemory"}
  IN  {all, all \ {"isolated", "sharedmemory"}}
=============================================================================
