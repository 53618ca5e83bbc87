--------------------------- MODULE HotReloadProofs ---------------------------
(***************************************************************************)
(* Hot reload for any list of sources, any contents and any number of      *)
(* edits, signals and connections: a swap puts in what was on disk while   *)
(* its reload ran, and no change that an event tells of is lost.           *)
(***************************************************************************)
EXTENDS HotReload, SequenceTheorems, TLAPS

Contents == Versions \cup {Broken}

HotReloadTypes ==
  /\ disk \in [Files -> Contents]
  /\ loads \in 0 .. Len(Sources) /\ tried \in 0 .. Len(Sources)
  /\ watched \subseteq Files
  /\ live \in [files : Seq(Versions), code : BOOLEAN]
  /\ raised \in BOOLEAN /\ batches \in Nat /\ signal \in BOOLEAN
  /\ pc \in [Workers -> {"unborn", "top", "wait", "reading", "ended"}]
  /\ read \in [Workers -> Seq(Versions)]
  /\ server \in BOOLEAN /\ conns \in Nat
  /\ count \in [edits : Nat, signals : Nat]
  /\ held \in [Workers -> [Files -> SUBSET Contents]]
  /\ older \in [Workers -> SUBSET Workers]
  /\ passed \subseteq Workers /\ stale \in BOOLEAN /\ unheard \subseteq Files

\* How far the server and each reload have come.
Stages ==
  /\ tried > 0 => loads = Len(Sources)
  /\ Len(live.files) = loads
  /\ \A w \in Workers : (pc[w] = "unborn" <=> ~Built) /\ Len(read[w]) <= Len(Sources)

-----------------------------------------------------------------------------
(* A swap puts in what was on disk while its reload ran.                   *)

\* What a reload has read was in the file since it began.
ReadsHeld ==
  \A w \in Workers : Reloading(w) =>
    /\ \A f \in Files : disk[f] \in held[w][f]
    /\ \A i \in 1 .. Len(read[w]) : read[w][i] \in held[w][Sources[i]]

(* No change that an event tells of is lost.                               *)

\* A reload that runs has, or will have, source i as it is on disk now.
Pending(w, i) ==
  Reloading(w) /\ (i > Len(read[w]) \/ read[w][i] = disk[Sources[i]])

\* An event is on its way, or will be when a watched file is repaired.
Coming == raised \/ batches > 0 \/ \E f \in watched : disk[f] = Broken

\* The watcher ends early only if it has nothing to watch.
WatchBooks ==
  /\ raised => watched # {}
  /\ pc[Watcher] = "ended" => watched = {} \/ ~Alive
  /\ \A w \in Workers : w \notin older[w]

ServedOrComing ==
  Alive /\ ~stale =>
    \A i \in 1 .. loads :
      \/ Sources[i] \in unheard \/ live.files[i] = disk[Sources[i]] \/ Coming
      \/ \E w \in Workers : Pending(w, i)

\* What a reload has read that was changed since is for a later one to read.
ReadOrComing ==
  Alive =>
    \A w \in Workers : Reloading(w) /\ w \notin passed =>
      \A i \in 1 .. Len(read[w]) :
        \/ Sources[i] \in unheard \/ read[w][i] = disk[Sources[i]] \/ Coming
        \/ \E x \in Workers : w \in older[x] /\ Pending(x, i)

HotReloadIInv ==
  HotReloadTypes /\ Stages /\ ReadsHeld /\ WatchBooks /\ ServedOrComing /\ ReadOrComing

-----------------------------------------------------------------------------
(* Types.                                                                  *)

\* There is a source, every source is a file, and there are two workers.
LEMMA SourcesFacts ==
  /\ Len(Sources) \in Nat \ {0}
  /\ \A i \in 1 .. Len(Sources) : Sources[i] \in Files
  /\ Watcher \in Workers /\ Sighup \in Workers
  BY SourcesAssumption, EmptySeq, ElementOfSeq DEF Workers

\* The types and the stages hold at the start.
LEMMA InitTypes == Init => HotReloadTypes /\ Stages
  <1> SUFFICES ASSUME Init PROVE HotReloadTypes /\ Stages
    OBVIOUS
  <1>1. <<>> \in Seq(Versions) /\ Len(<<>>) = 0
    BY EmptySeq
  <1>2. disk \in [Files -> Contents]
    BY DEF Init, Contents
  <1>3. read \in [Workers -> Seq(Versions)] /\ \A w \in Workers : read[w] = <<>>
    BY <1>1 DEF Init
  <1>4. live \in [files : Seq(Versions), code : BOOLEAN] /\ live.files = <<>>
    BY <1>1 DEF Init
  <1>5. held \in [Workers -> [Files -> SUBSET Contents]]
    <2>1. [f \in Files |-> {}] \in [Files -> SUBSET Contents]
      OBVIOUS
    <2> QED
      BY <2>1 DEF Init
  <1>6. older \in [Workers -> SUBSET Workers]
    BY DEF Init
  <1>7. count \in [edits : Nat, signals : Nat]
    BY DEF Init
  <1>8. HotReloadTypes
    <2>1. loads \in 0 .. Len(Sources) /\ tried \in 0 .. Len(Sources)
      BY SourcesFacts DEF Init
    <2>2. pc \in [Workers -> {"unborn", "top", "wait", "reading", "ended"}]
      BY DEF Init
    <2>3. /\ raised \in BOOLEAN /\ signal \in BOOLEAN /\ server \in BOOLEAN
          /\ stale \in BOOLEAN /\ batches \in Nat /\ conns \in Nat
          /\ watched \subseteq Files /\ passed \subseteq Workers /\ unheard \subseteq Files
      BY DEF Init
    <2> QED
      BY <1>2, <1>3, <1>4, <1>5, <1>6, <1>7, <2>1, <2>2, <2>3 DEF HotReloadTypes
  <1> QED
    BY <1>1, <1>3, <1>4, <1>8, SourcesFacts DEF Init, Stages, Built

\* The parts that only the reloads change.
LEMMA CloseTypes ==
  ASSUME HotReloadTypes, NEW w \in Workers, Close(w)
  PROVE  /\ pc' \in [Workers -> {"unborn", "top", "wait", "reading", "ended"}]
         /\ read' \in [Workers -> Seq(Versions)]
         /\ held' \in [Workers -> [Files -> SUBSET Contents]]
         /\ older' \in [Workers -> SUBSET Workers]
         /\ \A x \in Workers : x # w =>
              /\ pc'[x] = pc[x] /\ read'[x] = read[x] /\ held'[x] = held[x]
              /\ older'[x] = older[x] \ {w}
         /\ pc'[w] = "top" /\ read'[w] = <<>>
  <1>1. <<>> \in Seq(Versions)
    BY EmptySeq
  <1>2. [f \in Files |-> {}] \in [Files -> SUBSET Contents]
    OBVIOUS
  <1> QED
    BY <1>1, <1>2 DEF Close, HotReloadTypes

\* A reload begins: it has read nothing and notes what is on disk.
LEMMA BeginTypes ==
  ASSUME HotReloadTypes, NEW w \in Workers, reload_and_swap(w)
  PROVE  /\ pc' \in [Workers -> {"unborn", "top", "wait", "reading", "ended"}]
         /\ read' \in [Workers -> Seq(Versions)]
         /\ held' \in [Workers -> [Files -> SUBSET Contents]]
         /\ older' \in [Workers -> SUBSET Workers]
         /\ passed' = passed \ {w} /\ stale' = stale /\ unheard' = unheard
         /\ \A x \in Workers : x # w =>
              /\ pc'[x] = pc[x] /\ read'[x] = read[x] /\ held'[x] = held[x]
              /\ older'[x] = older[x]
         /\ pc'[w] = "reading" /\ read'[w] = <<>>
         /\ held'[w] = [f \in Files |-> {disk[f]}]
         /\ older'[w] = { x \in Workers : Reloading(x) }
  <1>1. <<>> \in Seq(Versions)
    BY EmptySeq
  <1>2. [f \in Files |-> {disk[f]}] \in [Files -> SUBSET Contents]
    BY DEF HotReloadTypes
  <1>3. { x \in Workers : Reloading(x) } \in SUBSET Workers
    OBVIOUS
  <1> HIDE DEF Contents, Reloading
  <1> QED
    BY <1>1, <1>2, <1>3 DEF reload_and_swap, HotReloadTypes

\* A reload has read one file more, and only it.
LEMMA ReadTypes ==
  ASSUME HotReloadTypes, Stages, NEW w \in Workers, reload_sources(w),
         disk[NextSource(w)] # Broken
  PROVE  /\ disk[NextSource(w)] \in Versions
         /\ Len(read[w]) \in Nat /\ Len(read[w]) + 1 \in 1 .. Len(Sources)
         /\ read'[w] \in Seq(Versions) /\ Len(read'[w]) = Len(read[w]) + 1
         /\ \A i \in 1 .. Len(read[w]) : read'[w][i] = read[w][i]
         /\ read'[w][Len(read[w]) + 1] = disk[NextSource(w)]
         /\ \A x \in Workers : x # w => read'[x] = read[x]
         /\ read' \in [Workers -> Seq(Versions)]
         /\ UNCHANGED <<pc, past>>
  <1>1. /\ read[w] \in Seq(Versions) /\ read \in [Workers -> Seq(Versions)]
        /\ Len(read[w]) < Len(Sources)
        /\ read' = [read EXCEPT ![w] = Append(@, disk[NextSource(w)])]
        /\ UNCHANGED <<pc, past>>
    BY DEF reload_sources, HotReloadTypes
  <1>2. Len(read[w]) \in Nat
    BY <1>1, LenProperties
  <1>3. Len(read[w]) + 1 \in 1 .. Len(Sources)
    BY <1>1, <1>2, SourcesFacts
  <1>4. disk[NextSource(w)] \in Versions
    BY <1>3, SourcesFacts DEF NextSource, HotReloadTypes, Contents
  <1>5. PICK v \in Versions : v = disk[NextSource(w)]
    BY <1>4
  <1>6. PICK old \in Seq(Versions) : old = read[w]
    BY <1>1
  <1>7. PICK new \in Seq(Versions) : new = Append(old, v)
    BY AppendProperties
  <1>8. read'[w] = new /\ \A x \in Workers : x # w => read'[x] = read[x]
    BY <1>1, <1>5, <1>6, <1>7
  <1>9. /\ Len(new) = Len(old) + 1 /\ new[Len(old) + 1] = v
        /\ \A i \in 1 .. Len(old) : new[i] = old[i]
    BY <1>7, AppendProperties
  <1>10. read' \in [Workers -> Seq(Versions)]
    BY <1>1, <1>5, <1>6, <1>7
  <1> QED
    BY <1>1, <1>2, <1>3, <1>4, <1>5, <1>6, <1>8, <1>9, <1>10

\* An event is counted.
LEMMA TallyTypes ==
  ASSUME count \in [edits : Nat, signals : Nat], NEW event \in {"edits", "signals"},
         Tally(event)
  PROVE  count' \in [edits : Nat, signals : Nat]
  <1>1. CASE event = "edits"
    BY <1>1 DEF Tally
  <1>2. CASE event = "signals"
    BY <1>2 DEF Tally
  <1> QED
    BY <1>1, <1>2

\* Every step keeps the types and the stages of the workers.
LEMMA StepTypes ==
  HotReloadTypes /\ Stages /\ [Next]_vars => HotReloadTypes' /\ Stages'
  <1> SUFFICES ASSUME HotReloadTypes, Stages, [Next]_vars
               PROVE  HotReloadTypes' /\ Stages'
    OBVIOUS
  <1> USE DEF boot, events, life, past
  <1>0. Len(Sources) \in Nat \ {0}
    BY SourcesFacts
  <1>1. CASE load_yaml
    <2>1. /\ loads + 1 \in 1 .. Len(Sources) /\ loads \in Nat
          /\ loads' = loads + 1 /\ loads < Len(Sources)
          /\ live' = [live EXCEPT !.files = Append(@, disk[Sources[loads + 1]])]
      BY <1>0, <1>1 DEF load_yaml, HotReloadTypes
    <2>2. disk[Sources[loads + 1]] \in Versions
      BY <1>1, <2>1, SourcesFacts DEF load_yaml, HotReloadTypes, Contents
    <2>3. PICK v \in Versions, old \in Seq(Versions) :
            v = disk[Sources[loads + 1]] /\ old = live.files
      BY <2>2 DEF HotReloadTypes
    <2>4. PICK new \in Seq(Versions) : new = Append(old, v) /\ Len(new) = Len(old) + 1
      BY AppendProperties
    <2>5. live' = [live EXCEPT !.files = new]
      BY <2>1, <2>3, <2>4
    <2>6. live' \in [files : Seq(Versions), code : BOOLEAN] /\ live'.files = new
      BY <2>5 DEF HotReloadTypes
    <2>7. Len(live'.files) = loads + 1
      BY <2>1, <2>3, <2>4, <2>6 DEF Stages
    <2>8. HotReloadTypes'
      <3>1. /\ UNCHANGED <<disk, tried, watched, raised, batches, signal, pc, read, server,
                           conns, count, held, older, passed, stale>>
            /\ unheard' \subseteq unheard
        BY <1>1 DEF load_yaml
      <3>2. loads' \in 0 .. Len(Sources)
        BY <1>0, <2>1
      <3> QED
        BY <2>6, <3>1, <3>2 DEF HotReloadTypes
    <2>9. tried = 0 /\ tried' = tried
      BY <1>1, <2>1 DEF load_yaml, HotReloadTypes, Stages
    <2> QED
      BY <1>0, <1>1, <2>1, <2>7, <2>8, <2>9 DEF load_yaml, Stages, Built
  <1>2. ASSUME NEW registers \in BOOLEAN, spawn_file_watcher(registers)
        PROVE  HotReloadTypes' /\ Stages'
    <2>1. /\ loads = Len(Sources) /\ tried < Len(Sources) /\ tried \in Nat
          /\ tried' = tried + 1 /\ tried + 1 \in 1 .. Len(Sources)
      BY <1>0, <1>2 DEF spawn_file_watcher, HotReloadTypes
    <2>2. watched' \subseteq Files
      BY <1>2, <2>1, SourcesFacts DEF spawn_file_watcher, HotReloadTypes
    <2>3. /\ pc' \in [Workers -> {"unborn", "top", "wait", "reading", "ended"}]
          /\ \A w \in Workers : pc'[w] = "unborn" <=> tried' # Len(Sources)
      <3>1. \A w \in Workers : pc[w] = "unborn"
        BY <2>1 DEF Stages, Built
      <3> QED
        BY <1>2, <2>1, <3>1 DEF spawn_file_watcher, HotReloadTypes
    <2>4. HotReloadTypes'
      BY <1>2, <2>1, <2>2, <2>3 DEF spawn_file_watcher, HotReloadTypes
    <2> QED
      BY <1>2, <2>1, <2>3, <2>4 DEF spawn_file_watcher, Stages, Built
  <1>3. ASSUME NEW f \in Files, NEW v \in Versions \cup {Broken}, Edit(f, v)
        PROVE  HotReloadTypes' /\ Stages'
    <2>1. disk' \in [Files -> Contents]
      BY <1>3 DEF Edit, HotReloadTypes, Contents
    <2>2. held' \in [Workers -> [Files -> SUBSET Contents]]
      <3>1. \A w \in Workers :
              (IF Reloading(w) THEN [held[w] EXCEPT ![f] = @ \cup {v}] ELSE held[w])
                \in [Files -> SUBSET Contents]
        BY DEF HotReloadTypes, Contents
      <3> QED
        BY <1>3, <3>1 DEF Edit
    <2>3. count' \in [edits : Nat, signals : Nat]
      BY <1>3, TallyTypes DEF Edit, HotReloadTypes
    <2>4. raised' \in BOOLEAN /\ unheard' \subseteq Files
      BY <1>3 DEF Edit, HotReloadTypes
    <2>5. UNCHANGED <<boot, live, batches, signal, pc, read, life, older, passed, stale>>
      BY <1>3 DEF Edit
    <2>6. HotReloadTypes'
      BY <2>1, <2>2, <2>3, <2>4, <2>5 DEF HotReloadTypes
    <2> QED
      BY <2>5, <2>6 DEF Stages, Built
  <1>4. CASE Kill
    <2>1. count' \in [edits : Nat, signals : Nat]
      BY <1>4, TallyTypes DEF Kill, HotReloadTypes
    <2>2. UNCHANGED <<disk, boot, live, raised, batches, pc, read, life, past>>
          /\ signal' = TRUE
      BY <1>4 DEF Kill
    <2>3. HotReloadTypes'
      BY <2>1, <2>2 DEF HotReloadTypes
    <2> QED
      BY <2>2, <2>3 DEF Stages, Built
  <1>5. CASE Connect \/ Disconnect \/ drop
    <2>1. conns' \in Nat /\ server' \in BOOLEAN
      <3>1. conns \in Nat /\ server \in BOOLEAN
        BY DEF HotReloadTypes
      <3>2. CASE Connect
        BY <3>1, <3>2 DEF Connect
      <3>3. CASE Disconnect
        BY <3>1, <3>3 DEF Disconnect
      <3>4. CASE drop
        BY <3>1, <3>4 DEF drop
      <3> QED
        BY <1>5, <3>2, <3>3, <3>4
    <2>2. UNCHANGED <<disk, boot, live, events, pc, read, count, past>>
      BY <1>5 DEF Connect, Disconnect, drop
    <2>3. HotReloadTypes'
      BY <2>1, <2>2 DEF HotReloadTypes
    <2> QED
      BY <2>2, <2>3 DEF Stages, Built
  <1>6. CASE Debounce
    <2>1. raised' \in BOOLEAN /\ batches' \in Nat
      <3>1. batches \in Nat
        BY DEF HotReloadTypes
      <3>2. batches' \in Nat
        BY <1>6, <3>1 DEF Debounce
      <3> QED
        BY <1>6, <3>2 DEF Debounce
    <2>2. UNCHANGED <<disk, boot, live, signal, pc, read, life, count, past>>
      BY <1>6 DEF Debounce
    <2>3. HotReloadTypes'
      BY <2>1, <2>2 DEF HotReloadTypes
    <2> QED
      BY <2>2, <2>3 DEF Stages, Built
  <1>7. ASSUME NEW w \in Workers, reload_and_swap(w),
               UNCHANGED <<disk, boot, live, life, count>>,
               batches' \in Nat, raised' \in BOOLEAN, signal' \in BOOLEAN,
               pc[w] = "wait"
        PROVE  HotReloadTypes' /\ Stages'
    <2>1. Len(<<>>) = 0
      BY EmptySeq
    <2>2. HotReloadTypes'
      BY <1>7, BeginTypes DEF HotReloadTypes
    <2>3. \A x \in Workers : (pc'[x] = "unborn" <=> pc[x] = "unborn")
                           /\ Len(read'[x]) <= Len(Sources)
      <3>1. /\ pc'[w] = "reading" /\ read'[w] = <<>>
            /\ \A x \in Workers : x # w => pc'[x] = pc[x] /\ read'[x] = read[x]
        BY <1>7, BeginTypes
      <3>2. \A x \in Workers : Len(read[x]) <= Len(Sources)
        BY DEF Stages
      <3> QED
        BY <1>0, <1>7, <2>1, <3>1, <3>2
    <2> QED
      BY <1>7, <2>2, <2>3 DEF Stages, Built
  <1>8. CASE RecvBatch
    <2>1. CASE Alive
      <3>1. /\ reload_and_swap(Watcher) /\ pc[Watcher] = "wait"
            /\ UNCHANGED <<disk, boot, live, life, count>>
            /\ batches' \in Nat /\ raised' \in BOOLEAN /\ signal' \in BOOLEAN
        BY <1>8, <2>1 DEF RecvBatch, HotReloadTypes
      <3> QED
        BY <1>7, <3>1, SourcesFacts
    <2>2. CASE ~Alive
      BY <1>8, <2>2 DEF RecvBatch, HotReloadTypes, Stages, Built
    <2> QED
      BY <2>1, <2>2
  <1>9. CASE RecvSignal
    <2>1. /\ reload_and_swap(Sighup) /\ pc[Sighup] = "wait"
          /\ UNCHANGED <<disk, boot, live, life, count>>
          /\ batches' \in Nat /\ raised' \in BOOLEAN /\ signal' \in BOOLEAN
      BY <1>9 DEF RecvSignal, HotReloadTypes
    <2> QED
      BY <1>7, <2>1, SourcesFacts
  <1>10. CASE RecvTimeout \/ Tick
    BY <1>10 DEF RecvTimeout, Tick, HotReloadTypes, Stages, Built
  <1>11. ASSUME NEW w \in Workers, Upgrade(w)
         PROVE  HotReloadTypes' /\ Stages'
    BY <1>11 DEF Upgrade, HotReloadTypes, Stages, Built
  <1>12. ASSUME NEW w \in Workers, Close(w), pc[w] = "reading",
                UNCHANGED <<disk, boot, life, count, events>>,
                live' \in [files : Seq(Versions), code : BOOLEAN],
                Len(live'.files) = loads,
                passed' \subseteq Workers, stale' \in BOOLEAN, unheard' \subseteq Files
         PROVE  HotReloadTypes' /\ Stages'
    <2>1. Len(<<>>) = 0
      BY EmptySeq
    <2>2. HotReloadTypes'
      BY <1>12, CloseTypes DEF HotReloadTypes
    <2>3. \A x \in Workers : (pc'[x] = "unborn" <=> pc[x] = "unborn")
                           /\ Len(read'[x]) <= Len(Sources)
      BY <1>0, <1>12, <2>1, CloseTypes DEF Stages
    <2> QED
      BY <1>12, <2>2, <2>3 DEF Stages, Built
  <1>13. ASSUME NEW w \in Workers, reload_sources(w)
         PROVE  HotReloadTypes' /\ Stages'
    <2>1. CASE disk[NextSource(w)] # Broken
      <3>1. UNCHANGED <<disk, boot, live, events, life, count>>
        BY <1>13 DEF reload_sources
      <3>2. \A x \in Workers : Len(read'[x]) <= Len(Sources)
        BY <1>0, <1>13, <2>1, ReadTypes DEF Stages
      <3> QED
        BY <1>13, <2>1, <3>1, <3>2, ReadTypes DEF HotReloadTypes, Stages, Built
    <2>2. CASE disk[NextSource(w)] = Broken
      <3>1. /\ Close(w) /\ pc[w] = "reading"
            /\ UNCHANGED <<disk, boot, live, life, count, events>>
            /\ passed' \subseteq Workers /\ stale' \in BOOLEAN /\ unheard' \subseteq Files
        BY <1>13, <2>2 DEF reload_sources, Reloading, HotReloadTypes
      <3> QED
        BY <1>12, <3>1 DEF HotReloadTypes, Stages
    <2> QED
      BY <2>1, <2>2
  <1>14. ASSUME NEW w \in Workers, swap_fixtures(w)
         PROVE  HotReloadTypes' /\ Stages'
    <2>1. /\ Close(w) /\ pc[w] = "reading" /\ Len(read[w]) = Len(Sources)
          /\ UNCHANGED <<disk, boot, life, count, events>>
          /\ live' = [files |-> read[w], code |-> FALSE]
      BY <1>14 DEF swap_fixtures, SwapIn, Reloading
    <2>2. passed' \subseteq Workers /\ stale' \in BOOLEAN /\ unheard' \subseteq Files
      BY <1>14 DEF swap_fixtures, SwapIn, HotReloadTypes
    <2>3. loads = Len(Sources)
      BY <1>0, <2>1 DEF Stages, Built
    <2>4. live' \in [files : Seq(Versions), code : BOOLEAN] /\ Len(live'.files) = loads
      BY <2>1, <2>3 DEF HotReloadTypes
    <2> QED
      BY <1>12, <2>1, <2>2, <2>4
  <1>15. CASE UNCHANGED vars
    BY <1>15 DEF vars, HotReloadTypes, Stages, Built
  <1> QED
    BY <1>1, <1>2, <1>3, <1>4, <1>5, <1>6, <1>8, <1>9, <1>10, <1>11, <1>13, <1>14,
       <1>15 DEF Next, Reload

-----------------------------------------------------------------------------
(* Which workers reload, and who keeps the state alive.                    *)

\* The steps that are not part of a reload, and leave those that run alone.
LEMMA ReloadingStays ==
  ASSUME HotReloadTypes, Stages,
         \/ load_yaml \/ Kill \/ Connect \/ Disconnect \/ drop \/ Debounce
         \/ RecvTimeout \/ Tick \/ UNCHANGED vars
         \/ \E registers \in BOOLEAN : spawn_file_watcher(registers)
         \/ \E f \in Files, v \in Versions \cup {Broken} : Edit(f, v)
         \/ \E w \in Workers : Upgrade(w)
  PROVE  /\ \A w \in Workers : Reloading(w)' <=> Reloading(w)
         /\ UNCHANGED <<read, older, passed, stale>>
  <1> USE DEF boot, events, life, past, vars
  <1>1. CASE load_yaml \/ Kill \/ Connect \/ Disconnect \/ drop \/ Debounce \/ UNCHANGED vars
    BY <1>1 DEF load_yaml, Kill, Connect, Disconnect, drop, Debounce, Reloading
  <1>2. CASE RecvTimeout \/ Tick
    BY <1>2 DEF RecvTimeout, Tick, Reloading, HotReloadTypes, Workers
  <1>3. ASSUME NEW registers \in BOOLEAN, spawn_file_watcher(registers)
        PROVE  /\ \A w \in Workers : Reloading(w)' <=> Reloading(w)
               /\ UNCHANGED <<read, older, passed, stale>>
    <2>1. \A w \in Workers : pc[w] = "unborn"
      BY <1>3 DEF spawn_file_watcher, HotReloadTypes, Stages, Built
    <2> QED
      BY <1>3, <2>1 DEF spawn_file_watcher, Reloading
  <1>4. ASSUME NEW f \in Files, NEW v \in Versions \cup {Broken}, Edit(f, v)
        PROVE  /\ \A w \in Workers : Reloading(w)' <=> Reloading(w)
               /\ UNCHANGED <<read, older, passed, stale>>
    BY <1>4 DEF Edit, Reloading
  <1>5. ASSUME NEW w \in Workers, Upgrade(w)
        PROVE  /\ \A x \in Workers : Reloading(x)' <=> Reloading(x)
               /\ UNCHANGED <<read, older, passed, stale>>
    BY <1>5 DEF Upgrade, Reloading, HotReloadTypes
  <1> QED
    BY <1>1, <1>2, <1>3, <1>4, <1>5

\* A reload begins in a worker that waits, in a state that is alive.
LEMMA Begins ==
  ASSUME HotReloadTypes, RecvBatch \/ RecvSignal
  PROVE  \/ /\ ~Alive /\ RecvBatch /\ pc' = [pc EXCEPT ![Watcher] = "ended"]
            /\ UNCHANGED <<disk, boot, live, raised, read, life, past>>
         \/ \E w \in Workers :
              /\ Alive /\ pc[w] = "wait" /\ reload_and_swap(w)
              /\ UNCHANGED <<disk, boot, live, raised, life>>
  <1>1. CASE RecvBatch
    BY <1>1, SourcesFacts DEF RecvBatch
  <1>2. CASE RecvSignal
    <2>1. Alive
      BY <1>2, SourcesFacts DEF RecvSignal, Alive, Holds
    <2> QED
      BY <1>2, <2>1, SourcesFacts DEF RecvSignal
  <1> QED
    BY <1>1, <1>2

\* What is gone stays gone.
LEMMA AliveStays ==
  ASSUME HotReloadTypes, Stages, [Next]_vars, Alive'
  PROVE  Alive
  <1> USE DEF boot, events, life, past, vars
  <1>1. \/ server' = server /\ conns' = conns
        \/ server \/ conns > 0
    BY DEF Next, load_yaml, spawn_file_watcher, Edit, Kill, Connect, Disconnect, drop,
           Debounce, RecvBatch, RecvTimeout, RecvSignal, Tick, Upgrade, Reload,
           reload_sources, swap_fixtures, SwapIn
  <1>2. SUFFICES ASSUME ~Alive, server' = server, conns' = conns, NEW w \in Workers, Holds(w)'
                 PROVE  FALSE
    BY <1>1 DEF Alive
  <1>3. ~Holds(w) /\ ~Holds(Watcher) /\ ~Holds(Sighup)
    BY <1>2, SourcesFacts DEF Alive
  <1>4. CASE load_yaml \/ Kill \/ Connect \/ Disconnect \/ drop \/ Debounce \/ UNCHANGED vars
    BY <1>2, <1>3, <1>4 DEF load_yaml, Kill, Connect, Disconnect, drop, Debounce, Holds
  <1>5. CASE RecvTimeout \/ Tick
    BY <1>2, <1>3, <1>5 DEF RecvTimeout, Tick, Holds, HotReloadTypes, Workers
  <1>6. ASSUME NEW registers \in BOOLEAN, spawn_file_watcher(registers)
        PROVE  FALSE
    <2>1. \A x \in Workers : pc[x] = "unborn"
      BY <1>6 DEF spawn_file_watcher, HotReloadTypes, Stages, Built
    <2> QED
      BY <1>2, <1>6, <2>1 DEF spawn_file_watcher, Holds
  <1>7. ASSUME NEW f \in Files, NEW v \in Versions \cup {Broken}, Edit(f, v)
        PROVE  FALSE
    BY <1>2, <1>3, <1>7 DEF Edit, Holds
  <1>8. ASSUME NEW x \in Workers, Upgrade(x)
        PROVE  FALSE
    BY <1>2, <1>3, <1>8 DEF Upgrade, Holds, HotReloadTypes
  <1>9. CASE RecvBatch \/ RecvSignal
    BY <1>2, <1>3, <1>9, Begins DEF Holds, HotReloadTypes, Workers
  <1>10. ASSUME NEW x \in Workers, reload_sources(x) \/ swap_fixtures(x)
         PROVE  FALSE
    <2>1. Holds(x)
      BY <1>10 DEF reload_sources, swap_fixtures, SwapIn, Reloading, Holds
    <2> QED
      BY <1>2, <2>1 DEF Alive
  <1> QED
    BY <1>4, <1>5, <1>6, <1>7, <1>8, <1>9, <1>10 DEF Next, Reload

-----------------------------------------------------------------------------
(* ReadsHeld.                                                              *)

\* No reload runs at the start.
LEMMA InitReads == Init => ReadsHeld
  BY DEF Init, ReadsHeld, Reloading

\* What a reload has read was on disk while it ran: every step keeps it so.
LEMMA StepReads ==
  HotReloadTypes /\ Stages /\ ReadsHeld /\ [Next]_vars => ReadsHeld'
  <1> SUFFICES ASSUME HotReloadTypes, Stages, ReadsHeld, [Next]_vars,
                      NEW w \in Workers, Reloading(w)'
               PROVE  /\ \A f \in Files : disk'[f] \in held'[w][f]
                      /\ \A i \in 1 .. Len(read'[w]) : read'[w][i] \in held'[w][Sources[i]]
    BY DEF ReadsHeld
  <1> USE DEF boot, events, life, past, vars
  <1>1. ASSUME Reloading(w), read'[w] = read[w], held'[w] = held[w], disk' = disk
        PROVE  /\ \A f \in Files : disk'[f] \in held'[w][f]
               /\ \A i \in 1 .. Len(read'[w]) : read'[w][i] \in held'[w][Sources[i]]
    BY <1>1 DEF ReadsHeld
  <1>2. ASSUME \/ load_yaml \/ Kill \/ Connect \/ Disconnect \/ drop \/ Debounce
               \/ RecvTimeout \/ Tick \/ UNCHANGED vars
               \/ \E registers \in BOOLEAN : spawn_file_watcher(registers)
               \/ \E x \in Workers : Upgrade(x)
        PROVE  Reloading(w) /\ read'[w] = read[w] /\ held' = held /\ disk' = disk
    <2>1. Reloading(w) /\ read' = read
      BY <1>2, ReloadingStays
    <2> QED
      BY <1>2, <2>1 DEF load_yaml, Kill, Connect, Disconnect, drop, Debounce, RecvTimeout,
                        Tick, spawn_file_watcher, Upgrade
  <1>3. ASSUME NEW f \in Files, NEW v \in Versions \cup {Broken}, Edit(f, v)
        PROVE  /\ \A g \in Files : disk'[g] \in held'[w][g]
               /\ \A i \in 1 .. Len(read'[w]) : read'[w][i] \in held'[w][Sources[i]]
    <2>1. Reloading(w) /\ read' = read
      BY <1>3, ReloadingStays
    <2>2. /\ held'[w] = [held[w] EXCEPT ![f] = @ \cup {v}]
          /\ disk' = [disk EXCEPT ![f] = v]
      BY <1>3, <2>1 DEF Edit
    <2>3. \A g \in Files : disk'[g] \in held'[w][g] /\ held[w][g] \subseteq held'[w][g]
      BY <2>1, <2>2 DEF ReadsHeld, HotReloadTypes
    <2>4. \A i \in 1 .. Len(read[w]) : Sources[i] \in Files
      BY SourcesFacts, LenProperties DEF Stages, HotReloadTypes
    <2> QED
      BY <2>1, <2>3, <2>4 DEF ReadsHeld
  <1>4. CASE RecvBatch \/ RecvSignal
    <2>1. CASE /\ pc' = [pc EXCEPT ![Watcher] = "ended"]
               /\ UNCHANGED <<disk, boot, live, raised, read, life, past>>
      BY <1>1, <2>1 DEF Reloading, HotReloadTypes
    <2>2. ASSUME NEW x \in Workers, reload_and_swap(x), disk' = disk
          PROVE  /\ \A f \in Files : disk'[f] \in held'[w][f]
                 /\ \A i \in 1 .. Len(read'[w]) : read'[w][i] \in held'[w][Sources[i]]
      <3>1. CASE w = x
        <4>1. read'[w] = <<>> /\ held'[w] = [f \in Files |-> {disk[f]}]
          BY <2>2, <3>1, BeginTypes
        <4>2. Len(read'[w]) = 0
          BY <4>1, EmptySeq
        <4> QED
          BY <2>2, <4>1, <4>2
      <3>2. CASE w # x
        BY <1>1, <2>2, <3>2, BeginTypes DEF Reloading
      <3> QED
        BY <3>1, <3>2
    <2> QED
      BY <1>4, <2>1, <2>2, Begins
  <1>5. ASSUME NEW x \in Workers, Close(x), disk' = disk
        PROVE  /\ \A f \in Files : disk'[f] \in held'[w][f]
               /\ \A i \in 1 .. Len(read'[w]) : read'[w][i] \in held'[w][Sources[i]]
    BY <1>1, <1>5, CloseTypes DEF Reloading
  <1>6. ASSUME NEW x \in Workers, reload_sources(x)
        PROVE  /\ \A f \in Files : disk'[f] \in held'[w][f]
               /\ \A i \in 1 .. Len(read'[w]) : read'[w][i] \in held'[w][Sources[i]]
    <2>1. disk' = disk
      BY <1>6 DEF reload_sources
    <2>2. CASE disk[NextSource(x)] = Broken
      BY <1>5, <1>6, <2>1, <2>2 DEF reload_sources
    <2>3. CASE disk[NextSource(x)] # Broken
      <3>1. held' = held /\ pc' = pc
        BY <1>6, <2>3, ReadTypes
      <3>2. CASE w # x
        BY <1>1, <1>6, <2>1, <2>3, <3>1, <3>2, ReadTypes DEF Reloading
      <3>3. CASE w = x
        <4>1. Reloading(w)
          BY <3>1 DEF Reloading
        <4>2. /\ Len(read[w]) + 1 \in 1 .. Len(Sources) /\ Len(read[w]) \in Nat
              /\ Len(read'[w]) = Len(read[w]) + 1
              /\ \A i \in 1 .. Len(read[w]) : read'[w][i] = read[w][i]
              /\ read'[w][Len(read[w]) + 1] = disk[Sources[Len(read[w]) + 1]]
          BY <1>6, <2>3, <3>3, ReadTypes DEF NextSource
        <4>3. Sources[Len(read[w]) + 1] \in Files
          BY <4>2, SourcesFacts
        <4>4. ASSUME NEW i \in 1 .. Len(read'[w])
              PROVE  read'[w][i] \in held[w][Sources[i]]
          <5>1. CASE i = Len(read[w]) + 1
            BY <4>1, <4>2, <4>3, <5>1 DEF ReadsHeld
          <5>2. CASE i \in 1 .. Len(read[w])
            BY <4>1, <4>2, <5>2 DEF ReadsHeld
          <5> QED
            BY <4>2, <4>4, <5>1, <5>2
        <4> QED
          BY <2>1, <3>1, <4>1, <4>4 DEF ReadsHeld
      <3> QED
        BY <3>2, <3>3
    <2> QED
      BY <2>2, <2>3
  <1>7. ASSUME NEW x \in Workers, swap_fixtures(x)
        PROVE  /\ \A f \in Files : disk'[f] \in held'[w][f]
               /\ \A i \in 1 .. Len(read'[w]) : read'[w][i] \in held'[w][Sources[i]]
    BY <1>5, <1>7 DEF swap_fixtures, SwapIn
  <1> QED
    BY <1>1, <1>2, <1>3, <1>4, <1>6, <1>7 DEF Next, Reload

\* Only a swap puts fixtures in while a reload ends.
LEMMA SwapPutsIn ==
  HotReloadTypes /\ ReadsHeld /\ [Next]_vars =>
    \A w \in Workers :
      (live' # live /\ Reloading(w) /\ ~Reloading(w)') =>
        /\ Len(live'.files) = Len(Sources)
        /\ \A i \in 1 .. Len(Sources) :
             live'.files[i] \in held[w][Sources[i]] \ {Broken}
  <1> SUFFICES ASSUME HotReloadTypes, ReadsHeld, [Next]_vars, NEW w \in Workers,
                      live' # live, Reloading(w), ~Reloading(w)'
               PROVE  /\ Len(live'.files) = Len(Sources)
                      /\ \A i \in 1 .. Len(Sources) :
                           live'.files[i] \in held[w][Sources[i]] \ {Broken}
    OBVIOUS
  <1>1. PICK x \in Workers : swap_fixtures(x)
    <2>1. ~load_yaml
      BY DEF load_yaml, Reloading
    <2> QED
      BY <2>1 DEF Next, spawn_file_watcher, Edit, Kill, Connect, Disconnect, drop,
           Debounce, RecvBatch, RecvTimeout, RecvSignal, Tick, Upgrade, Reload,
           reload_sources, vars
  <1>2. /\ Close(x) /\ live' = [files |-> read[x], code |-> FALSE]
        /\ Len(read[x]) = Len(Sources)
    BY <1>1 DEF swap_fixtures, SwapIn
  <1>3. w = x
    BY <1>2, CloseTypes DEF Reloading
  <1>4. \A i \in 1 .. Len(Sources) : read[w][i] \in Versions
    <2>1. read[w] \in Seq(Versions)
      BY DEF HotReloadTypes
    <2> QED
      BY <1>2, <1>3, <2>1, ElementOfSeq
  <1> QED
    BY <1>2, <1>3, <1>4, BrokenAssumption DEF ReadsHeld

-----------------------------------------------------------------------------
(* WatchBooks, ServedOrComing and ReadOrComing.                            *)

\* Nothing is served at the start, so nothing served is out of date.
LEMMA InitFresh == Init => WatchBooks /\ ServedOrComing /\ ReadOrComing
  <1> SUFFICES ASSUME Init PROVE WatchBooks /\ ServedOrComing /\ ReadOrComing
    OBVIOUS
  <1>1. WatchBooks
    BY SourcesFacts DEF Init, WatchBooks
  <1>2. loads = 0 /\ \A w \in Workers : ~Reloading(w)
    BY DEF Init, Reloading
  <1> QED
    BY <1>1, <1>2 DEF ServedOrComing, ReadOrComing

\* Every step keeps the books on what is watched.
LEMMA StepWatch ==
  HotReloadTypes /\ Stages /\ WatchBooks /\ [Next]_vars => WatchBooks'
  <1> SUFFICES ASSUME HotReloadTypes, Stages, WatchBooks, [Next]_vars
               PROVE  WatchBooks'
    OBVIOUS
  <1> USE DEF boot, events, life, past, vars
  <1>1. Alive' => Alive
    BY AliveStays
  <1>2. ASSUME raised' => raised, watched' = watched, older' = older,
               pc'[Watcher] = "ended" => pc[Watcher] = "ended"
        PROVE  WatchBooks'
    BY <1>1, <1>2 DEF WatchBooks
  <1>3. CASE load_yaml \/ Kill \/ Connect \/ Disconnect \/ drop \/ UNCHANGED vars
    BY <1>2, <1>3 DEF load_yaml, Kill, Connect, Disconnect, drop
  <1>4. CASE Debounce
    BY <1>2, <1>4 DEF Debounce
  <1>5. CASE RecvTimeout \/ Tick
    BY <1>2, <1>5, SourcesFacts, WorkersAssumption DEF RecvTimeout, Tick, HotReloadTypes
  <1>6. ASSUME NEW registers \in BOOLEAN, spawn_file_watcher(registers)
        PROVE  WatchBooks'
    <2>1. pc[Watcher] = "unborn"
      BY <1>6, SourcesFacts DEF spawn_file_watcher, HotReloadTypes, Stages, Built
    <2>2. pc'[Watcher] = "ended" => watched' = {}
      BY <1>6, <2>1, SourcesFacts DEF spawn_file_watcher
    <2>3. raised' = raised /\ older' = older /\ watched \subseteq watched'
      BY <1>6 DEF spawn_file_watcher
    <2> QED
      BY <2>2, <2>3 DEF WatchBooks
  <1>7. ASSUME NEW f \in Files, NEW v \in Versions \cup {Broken}, Edit(f, v)
        PROVE  WatchBooks'
    <2>1. raised' => raised \/ f \in watched
      BY <1>7 DEF Edit
    <2>2. watched' = watched /\ older' = older /\ pc' = pc
      BY <1>7 DEF Edit
    <2> QED
      BY <1>1, <2>1, <2>2 DEF WatchBooks
  <1>8. ASSUME NEW w \in Workers, Upgrade(w)
        PROVE  WatchBooks'
    <2>1. UNCHANGED <<raised, watched, older>>
      BY <1>8 DEF Upgrade
    <2>2. pc'[Watcher] = "ended" => pc[Watcher] = "ended" \/ ~Alive
      BY <1>8, SourcesFacts DEF Upgrade, HotReloadTypes
    <2> QED
      BY <1>1, <2>1, <2>2 DEF WatchBooks
  <1>9. CASE RecvBatch \/ RecvSignal
    <2>1. CASE /\ ~Alive /\ pc' = [pc EXCEPT ![Watcher] = "ended"]
               /\ UNCHANGED <<disk, boot, live, raised, read, life, past>>
      BY <1>1, <2>1 DEF WatchBooks
    <2>2. ASSUME NEW x \in Workers, reload_and_swap(x), pc[x] = "wait",
                 UNCHANGED <<disk, boot, live, raised, life>>
          PROVE  WatchBooks'
      <3>1. pc'[Watcher] = "ended" => pc[Watcher] = "ended"
        BY <2>2, BeginTypes, SourcesFacts
      <3>2. x \notin older'[x]
        BY <2>2, BeginTypes DEF Reloading
      <3>3. \A w \in Workers : w \notin older'[w]
        BY <2>2, <3>2, BeginTypes DEF WatchBooks
      <3> QED
        BY <1>1, <2>2, <3>1, <3>3 DEF WatchBooks
    <2> QED
      BY <1>9, <2>1, <2>2, Begins
  <1>10. ASSUME NEW x \in Workers, Close(x), raised' = raised, watched' = watched
         PROVE  WatchBooks'
    <2>1. pc'[Watcher] = "ended" => pc[Watcher] = "ended"
      BY <1>10, CloseTypes, SourcesFacts
    <2>2. \A w \in Workers : w \notin older'[w]
      BY <1>10 DEF Close, WatchBooks
    <2> QED
      BY <1>1, <1>10, <2>1, <2>2 DEF WatchBooks
  <1>11. ASSUME NEW x \in Workers, reload_sources(x)
         PROVE  WatchBooks'
    <2>1. raised' = raised /\ watched' = watched
      BY <1>11 DEF reload_sources
    <2>2. CASE disk[NextSource(x)] = Broken
      BY <1>10, <1>11, <2>1, <2>2 DEF reload_sources
    <2>3. CASE disk[NextSource(x)] # Broken
      BY <1>2, <1>11, <2>1, <2>3, ReadTypes
    <2> QED
      BY <2>2, <2>3
  <1>12. ASSUME NEW x \in Workers, swap_fixtures(x)
         PROVE  WatchBooks'
    BY <1>10, <1>12 DEF swap_fixtures, SwapIn
  <1> QED
    BY <1>3, <1>4, <1>5, <1>6, <1>7, <1>8, <1>9, <1>11, <1>12 DEF Next, Reload

\* The steps that neither read nor change what is on disk or served.
LEMMA Undisturbed ==
  ASSUME ServedOrComing, ReadOrComing, Alive' => Alive,
         UNCHANGED <<disk, loads, live, read, older, passed, stale, unheard>>,
         Coming => Coming', \A w \in Workers : Reloading(w)' <=> Reloading(w)
  PROVE  ServedOrComing' /\ ReadOrComing'
  BY DEF ServedOrComing, ReadOrComing, Pending

\* A change of a watched file raises an event; of another, it is unheard.
LEMMA EditFresh ==
  ASSUME HotReloadTypes, Stages, ServedOrComing, ReadOrComing, Alive' => Alive,
         NEW f \in Files, NEW v \in Versions \cup {Broken}, Edit(f, v)
  PROVE  ServedOrComing' /\ ReadOrComing'
  <1>1. /\ \A w \in Workers : Reloading(w)' <=> Reloading(w)
        /\ UNCHANGED <<read, older, passed, stale>>
    BY ReloadingStays
  <1>2. /\ loads' = loads /\ live' = live /\ watched' = watched /\ batches' = batches
        /\ disk' = [disk EXCEPT ![f] = v] /\ raised' = (raised \/ f \in watched)
        /\ unheard' = IF f \in watched THEN unheard ELSE unheard \cup {f}
    BY DEF Edit, boot, life
  <1>3. CASE Coming'
    BY <1>3 DEF ServedOrComing, ReadOrComing
  <1>4. CASE ~Coming'
    <2>1. f \notin watched /\ unheard' = unheard \cup {f}
      BY <1>2, <1>4 DEF Coming
    <2>2. \A g \in Files : g # f => disk'[g] = disk[g]
      BY <1>2 DEF HotReloadTypes
    <2>3. ~Coming
      BY <1>2, <1>4, <2>1, <2>2 DEF Coming, HotReloadTypes
    <2>4. loads \in Nat /\ \A i \in 1 .. loads : Sources[i] \in Files
      BY SourcesFacts DEF HotReloadTypes
    <2>5. \A w \in Workers : \A i \in 1 .. Len(read[w]) : Sources[i] \in Files
      BY SourcesFacts, LenProperties DEF HotReloadTypes, Stages
    <2>6. ServedOrComing'
      <3> SUFFICES ASSUME Alive', ~stale', NEW i \in 1 .. loads, Sources[i] # f
                   PROVE  \/ Sources[i] \in unheard' \/ live'.files[i] = disk'[Sources[i]]
                          \/ \E w \in Workers : Pending(w, i)'
        BY <1>2, <2>1 DEF ServedOrComing
      <3>1. disk'[Sources[i]] = disk[Sources[i]]
        BY <2>2, <2>4
      <3>2. \A w \in Workers : Pending(w, i)' <=> Pending(w, i)
        BY <1>1, <3>1 DEF Pending
      <3> QED
        BY <1>1, <1>2, <2>1, <2>3, <3>1, <3>2 DEF ServedOrComing
    <2>7. ReadOrComing'
      <3> SUFFICES ASSUME Alive', NEW w \in Workers, Reloading(w)', w \notin passed',
                          NEW i \in 1 .. Len(read'[w]), Sources[i] # f
                   PROVE  \/ Sources[i] \in unheard' \/ read'[w][i] = disk'[Sources[i]]
                          \/ \E x \in Workers : w \in older'[x] /\ Pending(x, i)'
        BY <1>2, <2>1 DEF ReadOrComing
      <3>1. disk'[Sources[i]] = disk[Sources[i]]
        BY <1>1, <2>2, <2>5
      <3>2. \A x \in Workers : Pending(x, i)' <=> Pending(x, i)
        BY <1>1, <3>1 DEF Pending
      <3> QED
        BY <1>1, <1>2, <2>1, <2>3, <3>1, <3>2 DEF ReadOrComing
    <2> QED
      BY <2>6, <2>7
  <1> QED
    BY <1>3, <1>4

\* build() loads a file: it is served as it is on disk.
LEMMA LoadFresh ==
  ASSUME HotReloadTypes, Stages, ServedOrComing, Alive' => Alive, load_yaml
  PROVE  ServedOrComing' /\ ReadOrComing'
  <1>1. /\ loads < Len(Sources) /\ loads' = loads + 1
        /\ live' = [live EXCEPT !.files = Append(@, disk[Sources[loads + 1]])]
        /\ unheard' = { f \in unheard : f = Sources[loads + 1] => ~UpToDate(live'.files, f) }
        /\ UNCHANGED <<disk, tried, watched, raised, batches, pc, read, stale>>
    BY DEF load_yaml, events
  <1>2. loads \in Nat /\ loads + 1 \in 1 .. Len(Sources) /\ tried = 0 /\ Len(live.files) = loads
    BY <1>1, SourcesFacts DEF HotReloadTypes, Stages
  <1>3. \A w \in Workers : ~Reloading(w) /\ ~Reloading(w)'
    BY <1>1, <1>2, SourcesFacts DEF Stages, Built, Reloading
  <1>4. PICK v \in Versions, old \in Seq(Versions) :
          v = disk[Sources[loads + 1]] /\ old = live.files
    <2>1. disk[Sources[loads + 1]] \in Versions
      BY <1>2, SourcesFacts DEF load_yaml, HotReloadTypes, Contents
    <2> QED
      BY <2>1 DEF HotReloadTypes
  <1>5. PICK new \in Seq(Versions) :
          /\ new = Append(old, v) /\ Len(new) = Len(old) + 1 /\ new[Len(old) + 1] = v
          /\ \A i \in 1 .. Len(old) : new[i] = old[i]
    <2>1. PICK new \in Seq(Versions) : new = Append(old, v)
      BY AppendProperties
    <2> QED
      BY <2>1, AppendProperties
  <1>6. live'.files = new
    <2>1. live' = [live EXCEPT !.files = new]
      BY <1>1, <1>4, <1>5
    <2> QED
      BY <2>1 DEF HotReloadTypes
  <1>7. ReadOrComing'
    BY <1>3 DEF ReadOrComing
  <1>8. Coming' = Coming
    BY <1>1 DEF Coming
  <1>9. ServedOrComing'
    <2> SUFFICES ASSUME Alive', ~stale', NEW i \in 1 .. loads + 1, ~Coming
                 PROVE  Sources[i] \in unheard' \/ live'.files[i] = disk'[Sources[i]]
      BY <1>1, <1>8 DEF ServedOrComing
    <2>1. CASE i = loads + 1
      BY <1>1, <1>2, <1>4, <1>5, <1>6, <2>1
    <2>2. CASE i \in 1 .. loads
      <3>1. Sources[i] \in unheard \/ live.files[i] = disk[Sources[i]]
        BY <1>1, <1>3, <2>2 DEF ServedOrComing, Pending
      <3>2. live'.files[i] = live.files[i]
        BY <1>2, <1>4, <1>5, <1>6, <2>2
      <3>3. CASE UpToDate(live'.files, Sources[i])
        <4>1. i \in 1 .. Len(live'.files)
          BY <1>2, <1>4, <1>5, <1>6, <2>2
        <4> QED
          BY <1>1, <3>3, <4>1 DEF UpToDate
      <3>4. CASE ~UpToDate(live'.files, Sources[i])
        BY <1>1, <3>1, <3>2, <3>4
      <3> QED
        BY <3>3, <3>4
    <2> QED
      BY <1>2, <2>1, <2>2
  <1> QED
    BY <1>7, <1>9

\* A reload that begins will read everything.
LEMMA BeginFresh ==
  ASSUME HotReloadTypes, Stages, ServedOrComing, ReadOrComing, Alive,
         NEW w \in Workers, reload_and_swap(w), pc[w] = "wait",
         UNCHANGED <<disk, boot, live, raised, life>>
  PROVE  ServedOrComing' /\ ReadOrComing'
  <1>1. /\ passed' = passed \ {w} /\ stale' = stale /\ unheard' = unheard
        /\ \A x \in Workers : x # w =>
             /\ pc'[x] = pc[x] /\ read'[x] = read[x] /\ older'[x] = older[x]
        /\ pc'[w] = "reading" /\ read'[w] = <<>>
        /\ older'[w] = { x \in Workers : Reloading(x) }
    BY BeginTypes
  <1>2. Len(read'[w]) = 0
    BY <1>1, EmptySeq
  <1>3. loads \in Nat /\ loads' = loads /\ live' = live /\ disk' = disk
    BY DEF HotReloadTypes, boot
  <1>4. \A i \in Nat \ {0} : Pending(w, i)'
    BY <1>1, <1>2 DEF Pending, Reloading
  <1>5. ServedOrComing'
    BY <1>3, <1>4 DEF ServedOrComing
  <1>6. ASSUME NEW x \in Workers, Reloading(x)', NEW i \in 1 .. Len(read'[x])
        PROVE  \E y \in Workers : x \in older'[y] /\ Pending(y, i)'
    <2>1. x # w
      BY <1>2, <1>6
    <2>2. x \in older'[w]
      BY <1>1, <1>6, <2>1 DEF Reloading
    <2>3. Len(read'[x]) \in Nat
      BY <1>1, <2>1, LenProperties DEF HotReloadTypes
    <2> QED
      BY <1>4, <1>6, <2>2, <2>3
  <1>7. ReadOrComing'
    BY <1>6 DEF ReadOrComing
  <1> QED
    BY <1>5, <1>7

\* One more file that is read is as it is on disk.
LEMMA ReadFresh ==
  ASSUME HotReloadTypes, Stages, ServedOrComing, ReadOrComing, Alive' => Alive,
         NEW w \in Workers, reload_sources(w), disk[NextSource(w)] # Broken
  PROVE  ServedOrComing' /\ ReadOrComing'
  <1>1. /\ Len(read[w]) \in Nat /\ Len(read'[w]) = Len(read[w]) + 1
        /\ \A i \in 1 .. Len(read[w]) : read'[w][i] = read[w][i]
        /\ read'[w][Len(read[w]) + 1] = disk[Sources[Len(read[w]) + 1]]
        /\ \A x \in Workers : x # w => read'[x] = read[x]
        /\ UNCHANGED <<pc, past>>
    BY ReadTypes DEF NextSource
  <1>2. /\ loads' = loads /\ live' = live /\ disk' = disk
        /\ watched' = watched /\ raised' = raised /\ batches' = batches /\ Reloading(w)
    BY DEF reload_sources, boot, events
  <1>3. loads \in Nat /\ Coming' = Coming
    BY <1>2 DEF HotReloadTypes, Coming
  <1>4. \A x \in Workers : Reloading(x)' <=> Reloading(x)
    BY <1>1 DEF Reloading
  <1>5. ASSUME NEW x \in Workers, NEW i \in Nat \ {0}, Pending(x, i)
        PROVE  Pending(x, i)'
    <2>1. CASE x # w
      BY <1>1, <1>2, <1>4, <1>5, <2>1 DEF Pending
    <2>2. CASE x = w
      <3>1. CASE i > Len(read[w]) + 1
        BY <1>1, <1>2, <1>4, <2>2, <3>1 DEF Pending
      <3>2. CASE i = Len(read[w]) + 1
        BY <1>1, <1>2, <1>4, <2>2, <3>2 DEF Pending
      <3>3. CASE i \in 1 .. Len(read[w])
        BY <1>1, <1>2, <1>4, <1>5, <2>2, <3>3 DEF Pending
      <3> QED
        BY <1>1, <3>1, <3>2, <3>3
    <2> QED
      BY <2>1, <2>2
  <1>6. stale' = stale /\ passed' = passed /\ unheard' = unheard /\ older' = older
    BY <1>1 DEF past
  <1>7. ServedOrComing'
    BY <1>2, <1>3, <1>5, <1>6 DEF ServedOrComing
  <1>8. ASSUME Alive', NEW x \in Workers, Reloading(x)', x \notin passed',
               NEW i \in 1 .. Len(read'[x])
        PROVE  \/ Sources[i] \in unheard' \/ read'[x][i] = disk'[Sources[i]] \/ Coming'
               \/ \E y \in Workers : x \in older'[y] /\ Pending(y, i)'
    <2>1. CASE x = w /\ i = Len(read[w]) + 1
      BY <1>1, <1>2, <2>1
    <2>2. CASE i \in 1 .. Len(read[x])
      <3>1. i \in Nat \ {0}
        BY <2>2
      <3>2. read'[x][i] = read[x][i]
        BY <1>1, <2>2
      <3>3. \/ Sources[i] \in unheard \/ read[x][i] = disk[Sources[i]] \/ Coming
            \/ \E y \in Workers : x \in older[y] /\ Pending(y, i)
        BY <1>4, <1>6, <1>8, <2>2 DEF ReadOrComing
      <3> QED
        BY <1>2, <1>3, <1>5, <1>6, <3>1, <3>2, <3>3
    <2> QED
      BY <1>1, <1>8, <2>1, <2>2
  <1>9. ReadOrComing'
    BY <1>8 DEF ReadOrComing
  <1> QED
    BY <1>7, <1>9

\* A reload that is refused waits for an event, or for nothing.
LEMMA RefuseFresh ==
  ASSUME HotReloadTypes, Stages, NEW w \in Workers, reload_sources(w),
         disk[NextSource(w)] = Broken
  PROVE  ServedOrComing' /\ ReadOrComing'
  <1>1. /\ Len(read[w]) \in Nat /\ Len(read[w]) < Len(Sources)
        /\ UNCHANGED <<disk, boot, live>>
        /\ unheard' = IF NextSource(w) \in watched THEN unheard ELSE Files
    BY LenProperties DEF reload_sources, HotReloadTypes
  <1>2. CASE NextSource(w) \in watched
    <2>1. Coming'
      BY <1>1, <1>2 DEF Coming, boot
    <2> QED
      BY <2>1 DEF ServedOrComing, ReadOrComing
  <1>3. CASE NextSource(w) \notin watched
    <2>1. loads' \in 0 .. Len(Sources)
      BY <1>1 DEF HotReloadTypes, boot
    <2>2. \A i \in 1 .. Len(Sources) : Sources[i] \in unheard'
      BY <1>1, <1>3, SourcesFacts
    <2>3. \A x \in Workers : Len(read'[x]) <= Len(Sources) /\ Len(read'[x]) \in Nat
      BY StepTypes, LenProperties DEF HotReloadTypes, Stages, Next, Reload
    <2> QED
      BY <2>1, <2>2, <2>3, SourcesFacts DEF ServedOrComing, ReadOrComing
  <1> QED
    BY <1>2, <1>3

\* A swap serves what it read; what it read too early another reload has.
LEMMA SwapFresh ==
  ASSUME HotReloadTypes, Stages, WatchBooks, ReadOrComing, Alive' => Alive,
         NEW w \in Workers, swap_fixtures(w)
  PROVE  ServedOrComing' /\ ReadOrComing'
  <1>1. /\ Reloading(w) /\ Len(read[w]) = Len(Sources) /\ Close(w)
        /\ live' = [files |-> read[w], code |-> FALSE]
        /\ passed' = (passed \ {w}) \cup older[w] /\ stale' = (w \in passed)
        /\ unheard' = { f \in unheard : UpToDate(read[w], f) =>
                                          \E x \in Workers \ {w} : Reloading(x) }
        /\ UNCHANGED <<disk, boot, raised, batches>>
    BY DEF swap_fixtures, SwapIn, events
  <1>2. /\ \A x \in Workers : x # w =>
             pc'[x] = pc[x] /\ read'[x] = read[x] /\ older'[x] = older[x] \ {w}
        /\ pc'[w] = "top"
    BY <1>1, CloseTypes
  <1>3. live'.files = read[w] /\ Coming' = Coming /\ disk' = disk /\ loads' = loads
    BY <1>1 DEF Coming, boot
  <1>4. loads = Len(Sources)
    <2>1. Built
      BY <1>1 DEF Stages, Reloading
    <2> QED
      BY <2>1, SourcesFacts DEF Stages, Built
  <1>5. \A x \in Workers : x # w => \A i \in Nat : Pending(x, i) => Pending(x, i)'
    BY <1>2, <1>3 DEF Pending, Reloading
  <1>6. ServedOrComing'
    <2> SUFFICES ASSUME Alive', ~stale', NEW i \in 1 .. Len(Sources), ~Coming
                 PROVE  \/ Sources[i] \in unheard' \/ read[w][i] = disk[Sources[i]]
                        \/ \E x \in Workers : Pending(x, i)'
      BY <1>3, <1>4 DEF ServedOrComing
    <2>1. \/ Sources[i] \in unheard \/ read[w][i] = disk[Sources[i]]
          \/ \E x \in Workers : w \in older[x] /\ Pending(x, i)
      BY <1>1 DEF ReadOrComing
    <2>2. CASE Sources[i] \in unheard
      <3>1. CASE UpToDate(read[w], Sources[i])
        BY <1>1, <3>1 DEF UpToDate
      <3>2. CASE ~UpToDate(read[w], Sources[i])
        BY <1>1, <2>2, <3>2
      <3> QED
        BY <3>1, <3>2
    <2>3. ASSUME NEW x \in Workers, w \in older[x], Pending(x, i)
          PROVE  Pending(x, i)'
      BY <1>5, <2>3, SourcesFacts DEF WatchBooks
    <2> QED
      BY <2>1, <2>2, <2>3
  <1>7. ASSUME Alive', NEW x \in Workers, Reloading(x)', x \notin passed',
               NEW i \in 1 .. Len(read'[x])
        PROVE  \/ Sources[i] \in unheard' \/ read'[x][i] = disk'[Sources[i]] \/ Coming'
               \/ \E y \in Workers : x \in older'[y] /\ Pending(y, i)'
    <2>1. x # w /\ Reloading(x)
      BY <1>2, <1>7 DEF Reloading
    <2>2. x \notin passed /\ x \notin older[w] /\ read'[x] = read[x]
      BY <1>1, <1>2, <1>7, <2>1
    <2>3. \/ Sources[i] \in unheard \/ read[x][i] = disk[Sources[i]] \/ Coming
          \/ \E y \in Workers : x \in older[y] /\ Pending(y, i)
      BY <1>7, <2>1, <2>2 DEF ReadOrComing
    <2>4. Sources[i] \in unheard => Sources[i] \in unheard'
      BY <1>1, <2>1
    <2>5. ASSUME NEW y \in Workers, x \in older[y], Pending(y, i)
          PROVE  x \in older'[y] /\ Pending(y, i)'
      BY <1>2, <1>5, <2>1, <2>2, <2>5
    <2> QED
      BY <1>3, <2>2, <2>3, <2>4, <2>5
  <1>8. ReadOrComing'
    BY <1>7 DEF ReadOrComing
  <1> QED
    BY <1>6, <1>8

\* Every step keeps each file up to date, or some event or reload on its way.
LEMMA StepFresh ==
  HotReloadIInv /\ [Next]_vars => ServedOrComing' /\ ReadOrComing'
  <1> SUFFICES ASSUME HotReloadTypes, Stages, WatchBooks, ServedOrComing, ReadOrComing,
                      [Next]_vars
               PROVE  ServedOrComing' /\ ReadOrComing'
    BY DEF HotReloadIInv
  <1> USE DEF boot, events, life, past, vars
  <1>1. Alive' => Alive
    BY AliveStays
  <1>2. CASE load_yaml
    BY <1>1, <1>2, LoadFresh
  <1>3. ASSUME \/ Kill \/ Connect \/ Disconnect \/ drop \/ RecvTimeout \/ Tick
               \/ UNCHANGED vars \/ \E w \in Workers : Upgrade(w)
        PROVE  ServedOrComing' /\ ReadOrComing'
    <2>1. /\ UNCHANGED <<disk, loads, live, read, older, passed, stale, unheard>>
          /\ UNCHANGED <<raised, batches, watched>>
      BY <1>3 DEF Kill, Connect, Disconnect, drop, RecvTimeout, Tick, Upgrade
    <2>2. \A w \in Workers : Reloading(w)' <=> Reloading(w)
      BY <1>3, ReloadingStays
    <2>3. Coming' = Coming
      BY <2>1 DEF Coming
    <2> QED
      BY <1>1, <2>1, <2>2, <2>3, Undisturbed
  <1>4. ASSUME NEW registers \in BOOLEAN, spawn_file_watcher(registers)
        PROVE  ServedOrComing' /\ ReadOrComing'
    <2>1. /\ UNCHANGED <<disk, loads, live, read, older, passed, stale, unheard>>
          /\ UNCHANGED <<raised, batches>> /\ watched \subseteq watched'
      BY <1>4 DEF spawn_file_watcher
    <2>2. \A w \in Workers : Reloading(w)' <=> Reloading(w)
      BY <1>4, ReloadingStays
    <2>3. Coming => Coming'
      BY <2>1 DEF Coming
    <2> QED
      BY <1>1, <2>1, <2>2, <2>3, Undisturbed
  <1>5. ASSUME NEW f \in Files, NEW v \in Versions \cup {Broken}, Edit(f, v)
        PROVE  ServedOrComing' /\ ReadOrComing'
    BY <1>1, <1>5, EditFresh
  <1>6. CASE Debounce
    <2>1. CASE pc[Watcher] = "ended"
      <3>1. ~Alive
        BY <1>6, <2>1 DEF Debounce, WatchBooks
      <3> QED
        BY <1>1, <3>1 DEF ServedOrComing, ReadOrComing
    <2>2. CASE pc[Watcher] # "ended"
      <3>1. /\ UNCHANGED <<disk, loads, live, read, older, passed, stale, unheard>>
            /\ batches' > 0
        BY <1>6, <2>2 DEF Debounce, HotReloadTypes
      <3>2. \A w \in Workers : Reloading(w)' <=> Reloading(w)
        BY <1>6, ReloadingStays
      <3>3. Coming'
        BY <3>1 DEF Coming
      <3> QED
        BY <1>1, <3>1, <3>2, <3>3, Undisturbed
    <2> QED
      BY <2>1, <2>2
  <1>7. CASE RecvBatch \/ RecvSignal
    <2>1. CASE ~Alive
      BY <1>1, <2>1 DEF ServedOrComing, ReadOrComing
    <2>2. CASE Alive
      <3>1. PICK w \in Workers :
              /\ pc[w] = "wait" /\ reload_and_swap(w)
              /\ UNCHANGED <<disk, boot, live, raised, life>>
        BY <1>7, <2>2, Begins
      <3> QED
        BY <2>2, <3>1, BeginFresh
    <2> QED
      BY <2>1, <2>2
  <1>8. ASSUME NEW w \in Workers, reload_sources(w)
        PROVE  ServedOrComing' /\ ReadOrComing'
    BY <1>1, <1>8, ReadFresh, RefuseFresh
  <1>9. ASSUME NEW w \in Workers, swap_fixtures(w)
        PROVE  ServedOrComing' /\ ReadOrComing'
    BY <1>1, <1>9, SwapFresh
  <1> QED
    BY <1>2, <1>3, <1>4, <1>5, <1>6, <1>7, <1>8, <1>9 DEF Next, Reload

-----------------------------------------------------------------------------
(* The theorems.                                                           *)

\* The invariant that the other theorems rest on.
THEOREM SpecHotReload == Spec => []HotReloadIInv
  <1>1. Init => HotReloadIInv
    BY InitTypes, InitReads, InitFresh DEF HotReloadIInv
  <1>2. HotReloadIInv /\ [Next]_vars => HotReloadIInv'
    BY StepTypes, StepReads, StepWatch, StepFresh DEF HotReloadIInv
  <1> QED
    BY <1>1, <1>2, PTL DEF Spec

\* A swap is all or nothing, and of contents that were on disk while its reload
\* ran (reload_sources, reload_and_swap), for any sources and any edits.
THEOREM SwapsAreWhole == Spec => SwapsWhatItRead
  <1>1. HotReloadIInv /\ [Next]_vars =>
          \A w \in Workers :
            (live' # live /\ Reloading(w) /\ ~Reloading(w)') =>
              /\ Len(live'.files) = Len(Sources)
              /\ \A i \in 1 .. Len(Sources) :
                   live'.files[i] \in held[w][Sources[i]] \ {Broken}
    BY SwapPutsIn DEF HotReloadIInv
  <1> QED
    BY <1>1, SpecHotReload, PTL DEF Spec, SwapsWhatItRead

\* No edit that an event tells of is lost: with nothing waiting, nothing
\* running and nothing broken, what is served is what is on disk, with the
\* exceptions that QuietMeansFresh names.
THEOREM NoEditIsLost == Spec => []QuietMeansFresh
  <1>1. HotReloadIInv => QuietMeansFresh
    <2> SUFFICES ASSUME HotReloadIInv, Quiet, Alive, ~stale,
                        \A f \in Files : disk[f] # Broken,
                        NEW i \in 1 .. Len(Sources), Sources[i] \notin unheard
                 PROVE  live.files[i] = disk[Sources[i]]
      BY DEF QuietMeansFresh
    <2>1. ~Coming
      BY DEF Quiet, Coming, HotReloadIInv, HotReloadTypes
    <2>2. \A w \in Workers : ~Pending(w, i)
      BY DEF Quiet, Pending
    <2>3. loads = Len(Sources)
      BY SourcesFacts DEF Quiet, Built, HotReloadIInv, Stages
    <2> QED
      BY <2>1, <2>2, <2>3 DEF HotReloadIInv, ServedOrComing
  <1> QED
    BY <1>1, SpecHotReload, PTL
=============================================================================
