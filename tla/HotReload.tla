----------------------------- MODULE HotReload -----------------------------
(***************************************************************************)
(* Hot reload (src/src/server.rs): build() loads the fixture sources and   *)
(* starts the file watcher's thread and the SIGHUP task, each of which     *)
(* re-reads the sources and swaps the fixtures in; both hold a Weak to the *)
(* state and end once MockServer and its connections are gone.             *)
(*                                                                         *)
(* A source is one file: the files of a directory are read one after the   *)
(* other, by name, the way separate sources are.  What a version of a file *)
(* holds is of no matter here, only whether it parses and validates.       *)
(***************************************************************************)
EXTENDS Integers, Sequences, FiniteSets, SequencesExt

CONSTANTS Sources,        \* fixture_sources, in order
          Versions,       \* what can be in a file
          Broken,         \* a content that load_yaml_file refuses
          Watcher, Sighup, \* the two workers
          MaxEdits, MaxSignals, MaxConnections \* bounds

Workers == {Watcher, Sighup}
Files == Range(Sources)

ASSUME SourcesAssumption == Sources \in Seq(Files) /\ Sources # <<>>
ASSUME BrokenAssumption == Broken \notin Versions
ASSUME WorkersAssumption == Watcher # Sighup

VARIABLES
  disk,    \* file |-> its content
  loads,   \* how many sources build() has loaded
  tried,   \* how many it has tried to watch
  watched, \* the sources that notify watches
  live,    \* AppState.fixtures: file |-> content, and the builder's own
  raised,  \* the debouncer has seen an event
  batches, \* debounced batches in the watcher's channel
  signal,  \* a SIGHUP is pending
  pc,      \* of the two workers
  read,    \* worker |-> the contents its reload has read so far
  server,  \* the MockServer has not been dropped
  conns,   \* connections that hold the state
  count,   \* the bounded events so far
  held,    \* history: worker |-> file |-> its contents since the reload began
  older,   \* history: worker |-> those whose reload ran when its own began
  passed,  \* history: workers whose reload a later one has overtaken
  stale,   \* history: such a reload was the last to swap
  unheard  \* history: files with a change that no event will tell of

boot == <<loads, tried, watched>>
events == <<raised, batches, signal>>
life == <<server, conns>>
past == <<held, older, passed, stale, unheard>>
vars == <<disk, boot, live, events, pc, read, life, count, past>>

Tally(event) == count' = [count EXCEPT ![event] = @ + 1]

Init ==
  /\ disk \in [Files -> Versions]
  /\ loads = 0 /\ tried = 0 /\ watched = {}
  /\ live = [files |-> <<>>, code |-> TRUE]
  /\ raised = FALSE /\ batches = 0 /\ signal = FALSE
  /\ pc = [w \in Workers |-> "unborn"]
  /\ read = [w \in Workers |-> <<>>]
  /\ server = TRUE /\ conns = 0
  /\ count = [edits |-> 0, signals |-> 0]
  /\ held = [w \in Workers |-> [f \in Files |-> {}]]
  /\ older = [w \in Workers |-> {}] /\ passed = {} /\ stale = FALSE /\ unheard = {}

-----------------------------------------------------------------------------
(* build().                                                                *)

\* What was read of file f, in the order of the sources, is what is in it.
UpToDate(files, f) ==
  \A i \in 1 .. Len(files) : Sources[i] = f => files[i] = disk[f]

\* load_yaml: the content is read, and one that is refused fails the build.
load_yaml ==
  /\ loads < Len(Sources)
  /\ disk[Sources[loads + 1]] # Broken
  /\ live' = [live EXCEPT !.files = Append(@, disk[Sources[loads + 1]])]
  /\ loads' = loads + 1
  /\ unheard' = { f \in unheard : f = Sources[loads + 1] => ~UpToDate(live'.files, f) }
  /\ UNCHANGED <<disk, tried, watched, events, pc, read, life, count, held, older, passed, stale>>

\* spawn_file_watcher registers each source by itself; one that fails is
\* logged, and there is no thread if none could be registered.  The SIGHUP
\* task is spawned in any case.
spawn_file_watcher(registers) ==
  /\ loads = Len(Sources) /\ tried < Len(Sources)
  /\ tried' = tried + 1
  /\ watched' = IF registers THEN watched \cup {Sources[tried + 1]} ELSE watched
  /\ pc' = IF tried' < Len(Sources) THEN pc
           ELSE [w \in Workers |->
                   IF w = Watcher /\ watched' = {} THEN "ended" ELSE "top"]
  /\ UNCHANGED <<disk, loads, live, events, read, life, count, past>>

Built == tried = Len(Sources)

Reloading(w) == pc[w] = "reading"

(* The world outside: files, signals, clients and the test's own drop.     *)

\* A file that nothing watches changes unnoticed.
Edit(f, v) ==
  /\ count.edits < MaxEdits /\ Tally("edits")
  /\ v # disk[f]
  /\ disk' = [disk EXCEPT ![f] = v]
  /\ raised' = (raised \/ f \in watched)
  /\ held' = [w \in Workers |->
       IF Reloading(w) THEN [held[w] EXCEPT ![f] = @ \cup {v}] ELSE held[w]]
  /\ unheard' = IF f \in watched THEN unheard ELSE unheard \cup {f}
  /\ UNCHANGED <<boot, live, batches, signal, pc, read, life, older, passed, stale>>

\* tokio keeps one signal that nobody has received yet, however many came.
Kill ==
  /\ Built /\ count.signals < MaxSignals /\ Tally("signals")
  /\ signal' = TRUE
  /\ UNCHANGED <<disk, boot, live, raised, batches, pc, read, life, past>>

Connect ==
  /\ Built /\ server /\ conns < MaxConnections
  /\ conns' = conns + 1
  /\ UNCHANGED <<disk, boot, live, events, pc, read, server, count, past>>

Disconnect ==
  /\ conns > 0
  /\ conns' = conns - 1
  /\ UNCHANGED <<disk, boot, live, events, pc, read, server, count, past>>

\* MockServer::drop aborts the accept loop: open connections run on.
drop ==
  /\ Built /\ server
  /\ server' = FALSE
  /\ UNCHANGED <<disk, boot, live, events, pc, read, conns, count, past>>

\* notify-debouncer-mini, 250 ms after the event.
Debounce ==
  /\ raised
  /\ raised' = FALSE
  /\ batches' = IF pc[Watcher] = "ended" THEN 0 ELSE batches + 1
  /\ UNCHANGED <<disk, boot, live, signal, pc, read, life, count, past>>

(* reload_and_swap.                                                        *)

\* The reload itself, from a step that leaves the worker's wait.
reload_and_swap(w) ==
  /\ pc' = [pc EXCEPT ![w] = "reading"]
  /\ read' = [read EXCEPT ![w] = <<>>]
  /\ held' = [held EXCEPT ![w] = [f \in Files |-> {disk[f]}]]
  /\ older' = [older EXCEPT ![w] = { x \in Workers : Reloading(x) }]
  /\ passed' = passed \ {w}
  /\ UNCHANGED <<stale, unheard>>

\* What every end of a reload does: the histories of it are closed.
Close(w) ==
  /\ pc' = [pc EXCEPT ![w] = "top"]
  /\ read' = [read EXCEPT ![w] = <<>>]
  /\ held' = [held EXCEPT ![w] = [f \in Files |-> {}]]
  /\ older' = [x \in Workers |-> IF x = w THEN {} ELSE older[x] \ {w}]

NextSource(w) == Sources[Len(read[w]) + 1]

\* Mutant of reload_sources: a file that is refused is passed over, and what
\* the server has of it is kept.
reload_sources_lenient(w) ==
  /\ Reloading(w) /\ Len(read[w]) < Len(Sources)
  /\ read' = [read EXCEPT ![w] = Append(@,
       IF disk[NextSource(w)] = Broken THEN live.files[Len(@) + 1]
       ELSE disk[NextSource(w)])]
  /\ UNCHANGED <<disk, boot, live, events, pc, life, count, past>>

\* reload_sources: one more file, or the error that ends the reload and
\* leaves the fixtures as they are.  If nothing watches the file at fault,
\* its repair will not bring the others in either.
reload_sources(w) ==
  /\ Reloading(w) /\ Len(read[w]) < Len(Sources)
  /\ \/ /\ disk[NextSource(w)] # Broken
        /\ read' = [read EXCEPT ![w] = Append(@, disk[NextSource(w)])]
        /\ UNCHANGED <<pc, past>>
     \/ /\ disk[NextSource(w)] = Broken
        /\ Close(w)
        /\ passed' = passed \ {w}
        /\ unheard' = IF NextSource(w) \in watched THEN unheard ELSE Files
        /\ UNCHANGED stale
  /\ UNCHANGED <<disk, boot, live, events, life, count>>

\* The whole of live is replaced, the fixtures added in code with it.
SwapIn(w) ==
  /\ Reloading(w) /\ Len(read[w]) = Len(Sources)
  /\ live' = [files |-> read[w], code |-> FALSE]
  /\ Close(w)
  /\ passed' = (passed \ {w}) \cup older[w]
  /\ stale' = (w \in passed)
  /\ unheard' = { f \in unheard : UpToDate(read[w], f) =>
                                    \E x \in Workers \ {w} : Reloading(x) }
  /\ UNCHANGED <<disk, boot, life, count>>

\* Mutant of swap_fixtures: batches that came meanwhile are discarded.
swap_fixtures_draining(w) ==
  SwapIn(w) /\ raised' = FALSE /\ batches' = 0 /\ UNCHANGED signal

swap_fixtures(w) == SwapIn(w) /\ UNCHANGED events

(* The workers.  An Arc that is upgraded for a test and dropped with it     *)
(* lives for an instant; the watcher holds one while it reloads, the task   *)
(* from the top of its loop to the end of the iteration.                    *)

\* Mutant of Holds: the watcher upgrades at the top and keeps the Arc.
HoldsThroughout(w) == pc[w] \in {"wait", "reading"}

Holds(w) == pc[w] = "reading" \/ (w = Sighup /\ pc[w] = "wait")

Alive == server \/ conns > 0 \/ \E w \in Workers : Holds(w)

Upgrade(w) ==
  /\ pc[w] = "top"
  /\ pc' = [pc EXCEPT ![w] = IF Alive THEN "wait" ELSE "ended"]
  /\ UNCHANGED <<disk, boot, live, events, read, life, count, past>>

\* recv_timeout returns a batch: the state is upgraded for the reload, or is
\* gone by now.  (An error that notify reports is logged, as a timeout is.)
RecvBatch ==
  /\ pc[Watcher] = "wait" /\ batches > 0
  /\ batches' = batches - 1
  /\ \/ Alive /\ reload_and_swap(Watcher)
     \/ ~Alive /\ pc' = [pc EXCEPT ![Watcher] = "ended"] /\ UNCHANGED <<read, past>>
  /\ UNCHANGED <<disk, boot, live, raised, signal, life, count>>

\* 500 ms without one.
RecvTimeout ==
  /\ pc[Watcher] = "wait"
  /\ pc' = [pc EXCEPT ![Watcher] = "top"]
  /\ UNCHANGED <<disk, boot, live, events, read, life, count, past>>

\* The select takes the signal, and awaits the reload...
RecvSignal ==
  /\ pc[Sighup] = "wait" /\ signal
  /\ signal' = FALSE
  /\ reload_and_swap(Sighup)
  /\ UNCHANGED <<disk, boot, live, raised, batches, life, count>>

\* ...or the tick of 500 ms, perhaps with the signal still there.
Tick ==
  /\ pc[Sighup] = "wait"
  /\ pc' = [pc EXCEPT ![Sighup] = "top"]
  /\ UNCHANGED <<disk, boot, live, events, read, life, count, past>>

Reload(w) == reload_sources(w) \/ swap_fixtures(w)

Next ==
  \/ load_yaml
  \/ \E registers \in BOOLEAN : spawn_file_watcher(registers)
  \/ \E f \in Files, v \in Versions \cup {Broken} : Edit(f, v)
  \/ Kill \/ Connect \/ Disconnect \/ drop \/ Debounce
  \/ RecvBatch \/ RecvTimeout \/ RecvSignal \/ Tick
  \/ \E w \in Workers : Upgrade(w) \/ Reload(w)

Spec == Init /\ [][Next]_vars

\* A thread and a task that can run are run, both waits are cut off after
\* 500 ms and a reload reads finitely many files.  Nothing is assumed of the
\* clients, the editor, or the order in which the select takes its branches.
Fairness ==
  /\ WF_vars(RecvTimeout \/ RecvBatch) /\ WF_vars(Tick \/ RecvSignal)
  /\ \A w \in Workers : WF_vars(Upgrade(w)) /\ WF_vars(Reload(w))

-----------------------------------------------------------------------------
Quiet ==
  /\ Built /\ ~raised /\ batches = 0
  /\ \A w \in Workers : ~Reloading(w)

\* A swap is all or nothing: for every source it puts in what that source had
\* on disk while the reload ran, never what the server had of it before and
\* never a part of the sources (reload_sources, reload_and_swap).
SwapsWhatItRead ==
  [][\A w \in Workers :
       (live' # live /\ Reloading(w) /\ ~Reloading(w)') =>
         /\ Len(live'.files) = Len(Sources)
         /\ \A i \in 1 .. Len(Sources) :
              live'.files[i] \in held[w][Sources[i]] \ {Broken}]_vars

\* Once no event waits and no reload runs, the server serves what is on disk,
\* unless a file is broken: an edit between two reads of a reload, or between
\* its last read and its swap, is never lost.  Three exceptions, which the code
\* has: a file that changed with nothing watching it; a reload that met such a
\* file broken; and two reloads that overlap, of which the one that began first
\* may swap last.
QuietMeansFresh ==
  (Quiet /\ Alive /\ ~stale /\ \A f \in Files : disk[f] # Broken) =>
    \A i \in 1 .. Len(Sources) :
      Sources[i] \notin unheard => live.files[i] = disk[Sources[i]]

\* Both workers end once the server is dropped and its last connection closed
\* ("exits within half a second of MockServer::drop"), although each of them
\* keeps the state alive for the other some of the time.
WorkersEnd ==
  (Built /\ ~server /\ conns = 0) ~> (\A w \in Workers : pc[w] = "ended")

(* What the documentation says and the code does not do.                   *)

\* docs/library.md: on a SIGHUP "programmatically-added fixtures are untouched
\* because there is no source path to re-read".
BuilderFixturesStay == live.code
=============================================================================
