------------------------------ MODULE Updates ------------------------------
(***************************************************************************)
(* Self-update (stores/update.ts, internal/updater): downloads begun by the *)
(* user or by the update:available event, their progress events, which      *)
(* every listener of the window receives, and the artifact they stage.      *)
(***************************************************************************)
EXTENDS Naturals, Sequences

CONSTANTS
  Downloads,   \* bound: DownloadUpdate calls
  MaxEvents    \* bound: progress events under way

VARIABLES
  known,       \* updateInfo is set
  announced,   \* BackgroundCheck has run (once per process)
  bar,         \* downloadProgress, and the downloading flag beside it
  listeners,   \* startDownload calls that still listen
  download,    \* DownloadUpdate calls
  events,      \* events under way to the window
  staged       \* an artifact is staged

updateVars == <<known, announced, bar, listeners, download, events, staged>>

TypeOK ==
  /\ known \in BOOLEAN /\ announced \in BOOLEAN /\ staged \in BOOLEAN
  /\ bar \in [progress: {"null", "running", "done"}, downloading: BOOLEAN]
  /\ listeners \subseteq Downloads
  /\ download \in [Downloads -> {"none", "running", "extracted", "ended", "silent"}]
  /\ events \in Seq({"available", "progress", "done", "error"})
  /\ Len(events) <= MaxEvents

Room == Len(events) < MaxEvents

\* startDownload: sets the bar, listens, and calls DownloadUpdate.
Start(d) ==
  /\ download[d] = "none"
  /\ bar' = [progress |-> "running", downloading |-> TRUE]
  /\ listeners' = listeners \cup {d}
  /\ download' = [download EXCEPT ![d] = "running"]

\* The user asks for updates, or for the download (the download button, a retry).
CheckForUpdate ==
  /\ ~known /\ known' = TRUE
  /\ UNCHANGED <<announced, bar, listeners, download, events, staged>>
StartDownload(d) ==
  /\ known /\ ~bar.downloading
  /\ \/ announced /\ ~\E i \in 1..Len(events) : events[i] = "available"
     \/ \E e \in Downloads \ {d} : download[e] = "none"   \* bound: one is left for it
  /\ Start(d)
  /\ UNCHANGED <<known, announced, events, staged>>

\* 30 s after the start the background check finds a release.
BackgroundCheck ==
  /\ ~announced /\ Room
  /\ announced' = TRUE
  /\ events' = Append(events, "available")
  /\ UNCHANGED <<known, bar, listeners, download, staged>>

-----------------------------------------------------------------------------
(* DownloadUpdate.                                                          *)

Emit(e) == Room /\ events' = Append(events, e)

Progress(d) ==
  /\ download[d] = "running" /\ Emit("progress")
  /\ UNCHANGED <<known, announced, bar, listeners, download, staged>>

\* An error ends with an event, except for those of MkdirTemp and MkdirAll.
Fail(d) ==
  /\ download[d] = "running"
  /\ \/ download' = [download EXCEPT ![d] = "ended"] /\ Emit("error")
     \/ download' = [download EXCEPT ![d] = "silent"] /\ UNCHANGED events
  /\ UNCHANGED <<known, announced, bar, listeners, staged>>

\* The artifact is extracted and staged; only then its event goes out.
EndedFirst(d) ==                               \* mutant: the event before the path
  \/ /\ download[d] = "running" /\ Emit("done")
     /\ download' = [download EXCEPT ![d] = "extracted"] /\ UNCHANGED staged
  \/ /\ download[d] = "extracted" /\ staged' = TRUE
     /\ download' = [download EXCEPT ![d] = "ended"] /\ UNCHANGED events
StagedFirst(d) ==
  \/ /\ download[d] = "running" /\ staged' = TRUE
     /\ download' = [download EXCEPT ![d] = "extracted"] /\ UNCHANGED events
  \/ /\ download[d] = "extracted" /\ Emit("done")
     /\ download' = [download EXCEPT ![d] = "ended"] /\ UNCHANGED staged
Succeed(d) == StagedFirst(d) /\ UNCHANGED <<known, announced, bar, listeners>>

-----------------------------------------------------------------------------
(* The window handles an event.                                             *)

Handled(e) == events # <<>> /\ Head(events) = e /\ events' = Tail(events)

\* Auto-start: the flag is reset, whatever download it stands for.
Available(d) ==
  /\ Handled("available")
  /\ known' = TRUE
  /\ Start(d)
  /\ UNCHANGED <<announced, staged>>

Kept(p) == [progress |-> p, downloading |-> p = "null"]  \* mutant: not reset by an error
Reset(p) == [progress |-> p, downloading |-> FALSE]

\* Every listener gets the event of every download, and the last event of one
\* removes them all.
Shown(e) ==
  /\ Handled(e)
  /\ IF listeners = {} THEN UNCHANGED bar
     ELSE bar' = CASE e = "progress" -> [bar EXCEPT !.progress = "running"]
                   [] e = "done" -> Reset("done")
                   [] e = "error" -> Reset("null")
  /\ listeners' = IF e = "progress" THEN listeners ELSE {}
  /\ UNCHANGED <<known, announced, download, staged>>

-----------------------------------------------------------------------------
Init ==
  /\ known = FALSE /\ announced = FALSE /\ staged = FALSE
  /\ bar = [progress |-> "null", downloading |-> FALSE]
  /\ listeners = {}
  /\ download = [d \in Downloads |-> "none"]
  /\ events = <<>>

Ending(d) == Fail(d) \/ Succeed(d)
Handling ==
  \/ \E d \in Downloads : Available(d)
  \/ \E e \in {"progress", "done", "error"} : Shown(e)
Next ==
  \/ CheckForUpdate \/ BackgroundCheck \/ Handling
  \/ \E d \in Downloads : StartDownload(d) \/ Progress(d) \/ Ending(d)

Spec == Init /\ [][Next]_updateVars

-----------------------------------------------------------------------------
(* Properties.                                                              *)

\* The bar offers to install only what is staged, also when the "done" it shows
\* is that of another download than the one it was set for.
DoneMeansStaged == bar.progress = "done" => staged

\* The downloading flag, which disables every further start, is cleared again
\* whatever overlaps, unless a download failed without an event.
DownloadSettles ==
  []<>(~bar.downloading \/ \E d \in Downloads : download[d] = "silent")
=============================================================================
