----------------------------- MODULE ConfigWatch -----------------------------
(***************************************************************************)
(* Hot reload (config/hot_reload/watcher.rs): the main config file and the *)
(* files it includes are edited while a task waits for notifications, for  *)
(* SIGHUP or for cancellation, lets a debounce pass, loads the source      *)
(* graph one file after another, validates it and publishes the running    *)
(* configuration with the hot fields of the new one.  Two watchers notify  *)
(* it, inotify on the directories and a poll watcher on the files, both    *)
(* filtered by one shared manifest of the files last loaded.               *)
(*                                                                         *)
(* A file's content is a record: whether it parses, whether it passes      *)
(* validation, its hot and its restart-only fields and the files it        *)
(* includes.  The loaded configuration is what the files read say.         *)
(***************************************************************************)
EXTENDS Integers, Sequences, FiniteSets

CONSTANTS Files,        \* "main" and the files that may be included
          Contents,     \* [Files -> the contents a file may be given]
          First,        \* [Files -> content at start]
          Inotify,      \* does inotify report edits on this file system
          QueueCap,     \* notify channel capacity
          Startup,      \* may the files be edited before the watch is set
          MaxEdits, MaxSignals

VARIABLES files,      \* [Files -> content]
          writing,    \* [Files -> the content still to be written, in a set, or {}]
          published,  \* the configuration in the watch channel
          applied,    \* ReloadState: the hash of the last applied rendering
          manifest,   \* WatchManifest shared by the two callbacks
          watched,    \* [inotify, poll]: the files each watcher was given
          polled,     \* what the poll watcher saw at its last scan
          queue,      \* notifications in the channel
          task,       \* the watcher task: pc, sources at start, files read so far
          edits, signals

vars == <<files, writing, published, applied, manifest, watched, polled, queue,
          task, edits, signals>>

None == <<>>

\* preprocess_includes: main, then each file it includes.
Included(c) == c.includes

SourceFiles(read) == {"main"} \cup Included(read["main"])

\* decode and the validations of the pipeline, over every file read.
Parses(read) == \A f \in SourceFiles(read) : read[f].parses

\* The rendered configuration: its hash tells two renderings apart.
Rendered(read) == [f \in SourceFiles(read) |-> read[f]]

HotFields(read) == [f \in SourceFiles(read) |-> read[f].hot]

ColdFields(read) == [f \in SourceFiles(read) |-> read[f].cold]

Config(read) == [hot |-> HotFields(read), cold |-> ColdFields(read)]

overlay_hot_fields(old, new) == [old EXCEPT !.hot = new.hot]

validates(read) == \A f \in SourceFiles(read) : read[f].valid

\* dns_overrides entries that install_entries refuses.
installs(read) == \A f \in SourceFiles(read) : read[f].dns

\* The watcher is spawned with a configuration loaded earlier, and loads the
\* files once more for its manifest and its hash.
Init ==
    /\ files = First /\ writing = [f \in Files |-> {}]
    /\ published = Config(First)
    /\ applied = None /\ manifest = {}
    /\ watched = [inotify |-> {}, poll |-> {}]
    /\ polled = [f \in {} |-> None]
    /\ queue = 0
    /\ task = [pc |-> "spawn", read |-> None, sources |-> {}, retry |-> FALSE]
    /\ edits = 0 /\ signals = 0

\* The initial load of spawn_config_watcher: manifest and snapshot hash.
InitialLoad ==
    /\ task.pc = "spawn"
    /\ task' = [task EXCEPT !.pc = "watch",
                  !.sources = IF Parses(files) THEN SourceFiles(files) ELSE {"main"}]
    /\ applied' = IF Parses(files) THEN Rendered(files) ELSE None
    /\ UNCHANGED <<files, writing, published, manifest, watched, polled, queue, edits, signals>>

\* sync_watch_paths and the new manifest; nothing when it is unchanged.
apply_watch_manifest(next, toInotify, toPoll) ==
    IF manifest = next
    THEN UNCHANGED <<manifest, watched, polled>>
    ELSE LET poll == (watched.poll \ (manifest \ next)) \cup (next \ manifest) IN
         /\ manifest' = next
         /\ watched' = [inotify |-> IF toInotify
                                    THEN (watched.inotify \ (manifest \ next)) \cup (next \ manifest)
                                    ELSE watched.inotify,
                        poll |-> IF toPoll THEN poll ELSE watched.poll]
         /\ polled' = IF toPoll
                      THEN [f \in poll |-> IF f \in DOMAIN polled THEN polled[f] ELSE files[f]]
                      ELSE polled

WatchInotify ==
    /\ task.pc = "watch"
    /\ apply_watch_manifest(task.sources, TRUE, FALSE)
    /\ task' = [task EXCEPT !.pc = "poll"]
    /\ UNCHANGED <<files, writing, published, applied, queue, edits, signals>>

WatchPoll ==
    /\ task.pc = "poll"
    /\ apply_watch_manifest(task.sources, FALSE, TRUE)
    /\ task' = [task EXCEPT !.pc = "idle", !.sources = {}]
    /\ UNCHANGED <<files, writing, published, applied, queue, edits, signals>>

\* try_send into the notify channel: dropped when it is full.
Notified == IF queue < QueueCap THEN queue + 1 ELSE queue

Changed(f, c) ==
    /\ files' = [files EXCEPT ![f] = c]
    /\ queue' = IF Inotify /\ f \in watched.inotify /\ f \in manifest THEN Notified ELSE queue

\* An edit: a rename brings the new content at once, a rewrite truncates the
\* file first.
MayEdit == edits < MaxEdits /\ (Startup \/ task.pc \notin {"spawn", "watch", "poll"})

Rename(f) ==
    /\ MayEdit /\ writing[f] = {}
    /\ \E c \in Contents[f] \ {files[f]} : Changed(f, c)
    /\ edits' = edits + 1
    /\ UNCHANGED <<writing, published, applied, manifest, watched, polled, task, signals>>

Truncated(c) == [c EXCEPT !.parses = FALSE]

BeginRewrite(f) ==
    /\ MayEdit /\ writing[f] = {}
    /\ \E c \in Contents[f] \ {files[f]} :
          /\ writing' = [writing EXCEPT ![f] = {c}]
          /\ Changed(f, Truncated(c))
    /\ edits' = edits + 1
    /\ UNCHANGED <<published, applied, manifest, watched, polled, task, signals>>

EndRewrite(f) ==
    /\ writing[f] # {}
    /\ \E c \in writing[f] : Changed(f, c)
    /\ writing' = [writing EXCEPT ![f] = {}]
    /\ UNCHANGED <<published, applied, manifest, watched, polled, task, edits, signals>>

\* One scan of the poll watcher, contents compared.
Poll ==
    /\ \E f \in DOMAIN polled : polled[f] # files[f]
    /\ polled' = [f \in DOMAIN polled |-> files[f]]
    /\ queue' = IF \E f \in DOMAIN polled : polled[f] # files[f] /\ f \in manifest
                THEN Notified ELSE queue
    /\ UNCHANGED <<files, writing, published, applied, manifest, watched, task, edits, signals>>

Wake ==
    /\ task.pc = "idle" /\ queue > 0
    /\ queue' = queue - 1
    /\ task' = [task EXCEPT !.pc = "debounce", !.retry = FALSE]
    /\ UNCHANGED <<files, writing, published, applied, manifest, watched, polled, edits, signals>>

Sighup ==
    /\ task.pc = "idle" /\ signals < MaxSignals
    /\ signals' = signals + 1
    /\ task' = [task EXCEPT !.pc = "debounce", !.retry = FALSE]
    /\ UNCHANGED <<files, writing, published, applied, manifest, watched, polled, queue, edits>>

Cancelled ==
    /\ task.pc = "idle"
    /\ task' = [task EXCEPT !.pc = "cancelled"]
    /\ UNCHANGED <<files, writing, published, applied, manifest, watched, polled, queue, edits, signals>>

\* The debounce passes and the channel is drained, before anything is read.
Debounce ==
    /\ task.pc = "debounce"
    /\ queue' = 0
    /\ task' = [task EXCEPT !.pc = "load", !.read = None]
    /\ UNCHANGED <<files, writing, published, applied, manifest, watched, polled, edits, signals>>

\* read_source_graph: the main file first, then the files it includes.
Wanted == IF task.read = None THEN {"main"}
          ELSE SourceFiles(task.read) \ DOMAIN task.read

ReadFile ==
    /\ task.pc = "load" /\ Wanted # {}
    /\ \E f \in Wanted :
          task' = [task EXCEPT !.read =
                      [g \in (IF @ = None THEN {} ELSE DOMAIN @) \cup {f} |->
                          IF g = f THEN files[f] ELSE @[g]]]
    /\ UNCHANGED <<files, writing, published, applied, manifest, watched, polled, queue, edits, signals>>

\* The outcome of reload_config.
Reload(read) ==
    LET new == Config(read)
        next == overlay_hot_fields(published, new)
    IN IF ~validates(read)                        THEN "invalid"
       ELSE IF applied = Rendered(read)           THEN "same"
       ELSE IF next.hot = published.hot           THEN "cold"
       ELSE IF ~installs(read)                    THEN "refused"
       ELSE "hot"

ReloadStep ==
    LET read == task.read  outcome == Reload(read) IN
    /\ task.pc = "load" /\ Wanted = {}
    /\ IF ~Parses(read)
       THEN /\ task' = [task EXCEPT !.pc = IF task.retry THEN "idle" ELSE "debounce",
                                    !.retry = TRUE, !.read = None]
            /\ UNCHANGED <<published, applied, manifest, watched, polled>>
       ELSE /\ published' = IF outcome = "hot"
                            THEN overlay_hot_fields(published, Config(read)) ELSE published
            /\ applied' = IF outcome \in {"hot", "cold"} THEN Rendered(read) ELSE applied
            /\ apply_watch_manifest(SourceFiles(read), TRUE, TRUE)
            /\ task' = [task EXCEPT !.pc = "idle", !.read = None]
    /\ UNCHANGED <<files, writing, edits, signals>>

\* Variation: notifications that came during the load are drained after it.
DrainsAfterwards == ReloadStep /\ queue' = 0

reload_config == ReloadStep /\ UNCHANGED queue

Task == InitialLoad \/ WatchInotify \/ WatchPoll \/ Wake \/ Debounce \/ ReadFile
        \/ reload_config

Next ==
    \/ Task \/ Poll \/ Sighup \/ Cancelled
    \/ \E f \in Files : Rename(f) \/ BeginRewrite(f) \/ EndRewrite(f)

Fairness ==
    /\ WF_vars(Task) /\ WF_vars(Poll)
    /\ \A f \in Files : WF_vars(EndRewrite(f))

Spec == Init /\ [][Next]_vars /\ Fairness

----------------------------------------------------------------------------
\* The files as they stand can be loaded, validated and installed.
Loadable == Parses(files) /\ validates(files) /\ installs(files)

\* Restart-only fields never reach the running configuration, whatever mix of
\* old and new files a load happens to read (hot_reload.rs: "Non-hot changes
\* are never mixed into the runtime config snapshot").
ColdFieldsKept == published.cold = Config(First).cold

\* What the files say last reaches the service: after the last edit, made any
\* number of times, in place or by rename, the running hot fields become those
\* of the files, unless the task is cancelled or the files cannot be loaded.
InService == task.pc = "cancelled" \/ ~Loadable \/ published.hot = Config(files).hot
EditsReachService == <>[]InService
=============================================================================
