------------------------- MODULE ReplyStreamProofs -------------------------
(***************************************************************************)
(* The answer to a matched request, for any fixtures and any capacity of   *)
(* the channel: the log has its status, a client holds the beginning of    *)
(* the stream the fixture plans, and a stream that takes too long is cut.  *)
(***************************************************************************)
EXTENDS ReplyStream, SequenceTheorems, WellFoundedInduction, NaturalsInduction, TLAPS

\* The frames of an undisturbed stream before it is cut, and how many of them
\* truncate_after_frames leaves.
Frame(i) == IF plan.duplicate THEN (i + 1) \div 2 ELSE i
FrameCount == IF plan.duplicate THEN 2 * fixture.frames ELSE fixture.frames
Beginning(n) == [i \in 1 .. n |-> Frame(i)]
Cut == IF fixture.truncate # None /\ fixture.truncate <= FrameCount
       THEN fixture.truncate ELSE FrameCount

\* The time the first n pauses take.
Slept(n) == Total([i \in 1 .. n |-> Delay(i)])

\* What is left until the disconnect, in a stream that has one.
Elapsed == fixture.disconnect - left

ReplyTypes ==
  /\ fixture \in Fixtures /\ mode \in Modes
  /\ pc \in {"matched", "done"} \cup Streaming
  /\ sent \in Nat /\ sleeping \in Nat /\ left \in Nat \cup {None}
  /\ collected \in Seq(Nat) /\ channel \in Seq(Nat) /\ received \in Seq(Nat)
  /\ client \in {"reads", "gone"} /\ ended \in {None, "eof", "reset"}

\* Without a stream nothing has been sent.
Unstarted ==
  frames = <<>> =>
    /\ pc \in {"matched", "done"} /\ plan = PASSTHROUGH /\ sent = 0 /\ left = None
    /\ collected = <<>> /\ channel = <<>> /\ received = <<>>
    /\ ended # "reset" /\ (pc = "matched" => status = None /\ ended = None)

\* A stream is that of its plan.
Started ==
  frames # <<>> =>
    /\ fixture.kind = "response" /\ mode # "whole" /\ pc # "matched"
    /\ plan.duplicate \in BOOLEAN /\ frames = Beginning(FrameCount)
    /\ plan.delays # None => plan.delays \in [1 .. FrameCount -> Nat]
    /\ IF fixture.disconnect = None THEN left = None ELSE left \in 0 .. fixture.disconnect
    /\ sent \in 0 .. Cut

StatusBooks ==
  /\ captured = IF fixture.kind = "error" THEN fixture.status
                ELSE IF fixture.kind = "refusal" /\ mode # "whole" THEN 400 ELSE 200
  /\ status # None /\ fixture.kind # "broken" => status = captured
  /\ frames # <<>> /\ mode = "sse" => status = 200
  /\ frames # <<>> /\ mode = "array" => (status = None <=> ended = None)

\* Until the deadline, the sleeps that are over have taken their time.
Clock ==
  frames # <<>> /\ left \notin {None, 0} =>
    /\ pc \in {"yield", "blocked"} => Elapsed >= Slept(sent)
    /\ pc = "asleep" => \/ Elapsed + sleeping >= Slept(sent)
                        \/ mode = "array" /\ sleeping >= left
    /\ pc = "pause" => Elapsed >= Slept(sent - 1)

\* The undisturbed stream was sent, and before its deadline.
Complete == sent = Cut /\ (left # None => PlannedTime < fixture.disconnect)

Begins(seq) == \A i \in 1 .. Len(seq) : seq[i] = frames[i]

\* The frames that were sent are with the client or on their way to it, in
\* order; a reset may come behind them.
EventFlow ==
  frames # <<>> /\ mode = "sse" =>
    /\ pc # "pause" /\ (pc = "reset" => left = 0)
    /\ pc \in {"yield", "blocked", "asleep"} => sent < FrameCount
    /\ pc = "blocked" => sent < Cut
    /\ Begins(received) /\ Len(received) <= sent
    /\ Len(received) + Len(channel) \in sent .. sent + 1
    /\ \A i \in 1 .. Len(channel) :
         channel[i] = IF Len(received) + i <= sent THEN frames[Len(received) + i] ELSE Reset
    /\ Len(received) + Len(channel) > sent => pc = "done" /\ left = 0
    /\ ended # None => pc = "done" /\ channel = <<>>
    /\ ended = "reset" => left = 0
    /\ pc = "done" => \/ client = "gone" /\ ended = None
                      \/ ended = "reset"
                      \/ Len(received) + Len(channel) > sent
                      \/ Complete

\* An array holds the frames that were sent, until it is sent itself.
ArrayFlow ==
  frames # <<>> /\ mode = "array" =>
    /\ channel = <<>> /\ pc \notin {"blocked", "reset"} /\ ended # "reset"
    /\ ended = "eof" <=> pc = "done" /\ client = "reads"
    /\ ended # "eof" => received = <<>>
    /\ pc # "done" => Begins(collected) /\ Len(collected) = sent /\ sent < FrameCount
    /\ pc \in {"asleep", "pause"} => sent > 0
    /\ ended = "eof" =>
         /\ Begins(received) /\ Len(received) <= Cut
         /\ \/ Len(received) < FrameCount /\ (Len(received) = Cut \/ left = 0)
            \/ Complete /\ Len(received) = Cut

ReplyIInv ==
  ReplyTypes /\ Unstarted /\ Started /\ StatusBooks /\ Clock /\ EventFlow /\ ArrayFlow

-----------------------------------------------------------------------------
(* The time that some pauses take, a recursive function of how many.       *)

\* Induction over the natural numbers, for sets.
LEMMA SetInduction ==
  ASSUME NEW S, 0 \in S, \A n \in Nat : n \in S => n + 1 \in S
  PROVE  Nat \subseteq S
  <1> SUFFICES ASSUME Nat \ S # {} PROVE FALSE
    OBVIOUS
  <1> DEFINE Less == { ss \in Nat \X Nat : ss[1] < ss[2] }
  <1>1. IsWellFoundedOn(Less, Nat)
    BY NatLessThanWellFounded DEF OpToRel
  <1>2. PICK x \in Nat \ S : \A y \in Nat \ S : ~(<<y, x>> \in Less)
    <2>1. Nat \ S \subseteq Nat
      OBVIOUS
    <2> HIDE DEF Less
    <2> QED
      BY <1>1, <2>1, WFMin
  <1>3. x # 0 /\ x - 1 \in Nat
    OBVIOUS
  <1>4. <<x - 1, x>> \in Less
    BY <1>3
  <1>5. x - 1 \in S
    BY <1>2, <1>3, <1>4
  <1> QED
    BY <1>3, <1>5

\* The equations of the totals have a solution, and it is in numbers.
LEMMA TotalsExist ==
  ASSUME NEW d, NEW m \in Nat, \A n \in 1 .. m : d[n] \in Nat
  PROVE  \E f \in [0 .. m -> Nat] :
           f = [n \in 0 .. m |-> IF n = 0 THEN 0 ELSE f[n - 1] + d[n]]
  <1> DEFINE Sums(f, k) == f = [n \in 0 .. k |-> IF n = 0 THEN 0 ELSE f[n - 1] + d[n]]
             S == { k \in Nat : k <= m => \E f \in [0 .. k -> Nat] : Sums(f, k) }
  <1>1. 0 \in S
    <2> DEFINE g == [n \in 0 .. 0 |-> 0]
    <2>1. g \in [0 .. 0 -> Nat] /\ \A n \in 0 .. 0 : n = 0 /\ g[n] = 0
      OBVIOUS
    <2>2. g = [n \in 0 .. 0 |-> IF n = 0 THEN 0 ELSE g[n - 1] + d[n]]
      BY <2>1
    <2> QED
      BY <2>1, <2>2
  <1>2. ASSUME NEW k \in Nat, k \in S
        PROVE  k + 1 \in S
    <2> SUFFICES ASSUME k + 1 <= m
                 PROVE  \E f \in [0 .. k + 1 -> Nat] : Sums(f, k + 1)
      <3> HIDE DEF Sums
      <3> QED
        OBVIOUS
    <2>1. PICK f \in [0 .. k -> Nat] : Sums(f, k)
      BY <1>2
    <2> DEFINE g == [n \in 0 .. k + 1 |-> IF n <= k THEN f[n] ELSE f[k] + d[k + 1]]
    <2>2. g \in [0 .. k + 1 -> Nat]
      OBVIOUS
    <2>3. ASSUME NEW n \in 0 .. k + 1
          PROVE  g[n] = IF n = 0 THEN 0 ELSE g[n - 1] + d[n]
      <3>1. CASE n = k + 1
        <4>1. g[n] = f[k] + d[k + 1] /\ g[n - 1] = f[k]
          BY <3>1
        <4> QED
          BY <3>1, <4>1
      <3>2. CASE n = 0
        BY <2>1, <3>2
      <3>3. CASE n \in 1 .. k
        <4>1. g[n] = f[n] /\ g[n - 1] = f[n - 1]
          BY <3>3
        <4>2. f[n] = f[n - 1] + d[n]
          BY <2>1, <3>3
        <4> QED
          BY <3>3, <4>1, <4>2
      <3> QED
        BY <3>1, <3>2, <3>3
    <2>4. Sums(g, k + 1)
      BY <2>2, <2>3
    <2> QED
      BY <2>2, <2>4
  <1>3. Nat \subseteq S
    <2> HIDE DEF S
    <2> QED
      BY <1>1, <1>2, SetInduction
  <1>4. m \in S
    BY <1>3
  <1> QED
    BY <1>4

\* Total is what a solution says of the last.
LEMMA TotalIsLast ==
  ASSUME NEW d, NEW m \in Nat, Len(d) = m, \A n \in 1 .. m : d[n] \in Nat,
         NEW f \in [0 .. m -> Nat],
         f = [n \in 0 .. m |-> IF n = 0 THEN 0 ELSE f[n - 1] + d[n]]
  PROVE  Total(d) = f[m]
  <1> DEFINE body(h) == [n \in 0 .. Len(d) |-> IF n = 0 THEN 0 ELSE h[n - 1] + d[n]]
             total == CHOOSE h : h = body(h)
  <1>1. total = body(total)
    <2>1. f = body(f)
      OBVIOUS
    <2> HIDE DEF body
    <2> QED
      BY <2>1
  <1>2. Total(d) = total[m]
    BY DEF Total
  <1> HIDE DEF total
  <1> DEFINE S == { n \in Nat : n <= m => total[n] = f[n] }
  <1>3. 0 \in S
    <2>1. total[0] = 0
      BY <1>1
    <2> QED
      BY <2>1
  <1>4. ASSUME NEW n \in Nat, n \in S
        PROVE  n + 1 \in S
    <2> SUFFICES ASSUME n + 1 <= m
                 PROVE  total[n + 1] = f[n + 1]
      OBVIOUS
    <2>1. total[n + 1] = total[n] + d[n + 1]
      BY <1>1
    <2>2. f[n + 1] = f[n] + d[n + 1] /\ total[n] = f[n]
      BY <1>4
    <2> QED
      BY <2>1, <2>2
  <1>5. Nat \subseteq S
    <2> HIDE DEF S
    <2> QED
      BY <1>3, <1>4, SetInduction
  <1> QED
    BY <1>2, <1>5

-----------------------------------------------------------------------------
(* The stream of a plan.                                                   *)

\* The fields of a fixture.
LEMMA FixtureFields ==
  ASSUME fixture \in Fixtures
  PROVE  /\ fixture.frames \in Nat \ {0} /\ fixture.latency \in Nat
         /\ fixture.duplicate \in BOOLEAN /\ fixture.status \in Nat
         /\ fixture.truncate \in Nat \cup {None}
         /\ fixture.disconnect \in (Nat \ {0}) \cup {None}
         /\ fixture.jitter \in Nat \cup {None}
  BY FixturesAssumption DEF FixtureType

\* The smaller and the larger of two numbers.
LEMMA MinMax ==
  ASSUME NEW a \in Int, NEW b \in Int
  PROVE  /\ Min({a, b}) = IF a <= b THEN a ELSE b
         /\ Max({a, b}) = IF a <= b THEN b ELSE a
  <1>1. \E x \in {a, b} : \A y \in {a, b} : x =< y
    OBVIOUS
  <1>2. Min({a, b}) \in {a, b} /\ \A y \in {a, b} : Min({a, b}) =< y
    BY <1>1 DEF Min
  <1>3. \E x \in {a, b} : \A y \in {a, b} : x >= y
    OBVIOUS
  <1>4. Max({a, b}) \in {a, b} /\ \A y \in {a, b} : Max({a, b}) >= y
    BY <1>3 DEF Max
  <1> QED
    BY <1>2, <1>4

\* The delays of a plan are numbers, one for each frame after duplication.
LEMMA PlanOfFailure ==
  ASSUME fixture \in Fixtures, NEW p \in from_failure(fixture)
  PROVE  /\ p.duplicate \in BOOLEAN
         /\ p.delays # None =>
              p.delays \in [1 .. (IF p.duplicate THEN 2 * fixture.frames ELSE fixture.frames) -> Nat]
  <1>1. CASE p = PASSTHROUGH
    BY <1>1 DEF PASSTHROUGH
  <1>2. CASE p # PASSTHROUGH
    <2>1. PICK d \in IF fixture.jitter \in {None, 0} THEN {None}
                     ELSE [1 .. PlannedFrames(fixture) -> Jittered(fixture.latency, fixture.jitter)] :
            p = [duplicate |-> fixture.duplicate, delays |-> d]
      BY <1>2 DEF from_failure
    <2>2. fixture.jitter # None => Jittered(fixture.latency, fixture.jitter) \subseteq Nat
      <3> SUFFICES ASSUME fixture.jitter # None, NEW delta \in -fixture.jitter .. fixture.jitter
                   PROVE  Max({0, fixture.latency + delta}) \in Nat
        BY DEF Jittered
      <3>1. PICK x \in Int, z \in Int : x = fixture.latency + delta /\ z = 0
        BY FixtureFields
      <3>2. Max({z, x}) = IF z <= x THEN x ELSE z
        BY MinMax
      <3> QED
        BY <3>1, <3>2
    <2> QED
      BY <2>1, <2>2, FixtureFields DEF PlannedFrames
  <1> QED
    BY <1>1, <1>2

\* The beginnings are sequences of frames, and no frame is the reset.
LEMMA Beginnings ==
  ASSUME plan.duplicate \in BOOLEAN, NEW n \in Nat
  PROVE  /\ Beginning(n) \in Seq(Nat) /\ Len(Beginning(n)) = n
         /\ \A i \in 1 .. n : Beginning(n)[i] = Frame(i)
         /\ \A i \in Nat \ {0} : Frame(i) \in Nat \ {0}
  <1>1. \A i \in Nat \ {0} : Frame(i) \in Nat \ {0}
    BY DEF Frame
  <1>2. \A i \in 1 .. n : Frame(i) \in Nat
    BY <1>1
  <1>3. Beginning(n) \in [1 .. n -> Nat]
    BY <1>2 DEF Beginning
  <1>4. Beginning(n) \in Seq(Nat)
    BY <1>3, SeqDef
  <1>5. Len(Beginning(n)) = n
    BY <1>3, <1>4, LenProperties DEF Beginning
  <1> QED
    BY <1>1, <1>4, <1>5 DEF Beginning

\* What is promised is the beginning that truncate_after_frames leaves.
LEMMA PlannedIsCut ==
  ASSUME fixture \in Fixtures, plan.duplicate \in BOOLEAN
  PROVE  Cut \in 0 .. FrameCount /\ FrameCount \in Nat \ {0} /\ Planned = Beginning(Cut)
  <1>1. Cut \in 0 .. FrameCount /\ FrameCount \in Nat \ {0}
    BY FixtureFields DEF Cut, FrameCount
  <1> DEFINE all == IF plan.duplicate THEN [i \in 1 .. 2 * fixture.frames |-> (i + 1) \div 2]
                    ELSE [i \in 1 .. fixture.frames |-> i]
  <1>2. all = Beginning(FrameCount)
    <2>1. CASE plan.duplicate
      BY <2>1, Zenon DEF Beginning, FrameCount, Frame
    <2>2. CASE ~plan.duplicate
      BY <2>2, Zenon DEF Beginning, FrameCount, Frame
    <2> QED
      BY <2>1, <2>2
  <1>3. Planned = IF fixture.truncate = None THEN all
                  ELSE SubSeq(all, 1, Min({Len(all), fixture.truncate}))
    BY DEF Planned
  <1> HIDE DEF all
  <1>4. CASE fixture.truncate = None
    BY <1>1, <1>2, <1>3, <1>4 DEF Cut
  <1>5. CASE fixture.truncate # None
    <2>1. Len(all) = FrameCount /\ all \in Seq(Nat)
      BY <1>1, <1>2, Beginnings
    <2>2. Min({Len(all), fixture.truncate}) = Cut
      <3>1. fixture.truncate \in Int /\ Len(all) \in Int
        BY <1>1, <1>5, <2>1, FixtureFields
      <3>2. Min({Len(all), fixture.truncate})
              = IF Len(all) <= fixture.truncate THEN Len(all) ELSE fixture.truncate
        BY <3>1, MinMax
      <3> QED
        BY <1>1, <1>5, <2>1, <3>1, <3>2 DEF Cut
    <2>3. PICK n \in Nat, k \in Nat : k <= n /\ n = FrameCount /\ k = Cut
      BY <1>1
    <2>4. \A i \in 1 .. n : all[i] = Frame(i)
      BY <1>2, <2>3, Beginnings
    <2>5. SubSeq(all, 1, k) = [i \in 1 .. k |-> all[i]]
      OBVIOUS
    <2>6. SubSeq(all, 1, k) = Beginning(k)
      BY <2>3, <2>4, <2>5 DEF Beginning
    <2> QED
      BY <1>1, <1>3, <1>5, <2>2, <2>3, <2>6
  <1> QED
    BY <1>1, <1>4, <1>5
\* Each frame twice.
LEMMA FlattenedPairs ==
  ASSUME NEW n \in Nat \ {0}
  PROVE  FlattenSeq([i \in 1 .. n |-> <<i, i>>]) = [i \in 1 .. 2 * n |-> (i + 1) \div 2]
  <1> DEFINE pairs == [i \in 1 .. n |-> <<i, i>>]
             Doubled(m) == [i \in 1 .. 2 * m |-> (i + 1) \div 2]
             body(h) == [i \in 1 .. Len(pairs) |->
                           IF i = 1 THEN pairs[i] ELSE h[i - 1] \o pairs[i]]
             flat == CHOOSE h : h = body(h)
  <1>1. Len(pairs) = n
    OBVIOUS
  <1>2. \A m \in Nat : Doubled(m) \in Seq(Nat) /\ Len(Doubled(m)) = 2 * m
    OBVIOUS
  <1>3. Doubled(1) = <<1, 1>>
    <2>1. Len(Doubled(1)) = 2 /\ Doubled(1)[1] = 1 /\ Doubled(1)[2] = 1
      OBVIOUS
    <2> QED
      BY <1>2, <2>1
  <1>4. ASSUME NEW m \in Nat
        PROVE  Doubled(m + 1) = Doubled(m) \o <<m + 1, m + 1>>
    <2> DEFINE more == Doubled(m) \o <<m + 1, m + 1>>
    <2>1. more \in Seq(Nat) /\ Len(more) = 2 * m + 2
      BY <1>2
    <2>2. \A i \in 1 .. 2 * m + 2 : more[i] = (i + 1) \div 2
      OBVIOUS
    <2> HIDE DEF more
    <2>3. more = [i \in 1 .. 2 * m + 2 |-> more[i]]
      BY <2>1
    <2>4. more = [i \in 1 .. 2 * m + 2 |-> (i + 1) \div 2]
      BY <2>2, <2>3
    <2>5. 2 * (m + 1) = 2 * m + 2
      OBVIOUS
    <2> QED
      BY <2>4, <2>5 DEF more
  <1>5. FlattenSeq(pairs) = flat[n]
    BY <1>1 DEF FlattenSeq
  <1>6. flat = body(flat)
    <2> DEFINE g == [i \in 1 .. n |-> Doubled(i)]
    <2>1. ASSUME NEW i \in 1 .. n
          PROVE  g[i] = IF i = 1 THEN pairs[i] ELSE g[i - 1] \o pairs[i]
      <3>1. CASE i = 1
        BY <1>3, <3>1
      <3>2. CASE i # 1
        <4>1. i - 1 \in Nat /\ i - 1 \in 1 .. n /\ (i - 1) + 1 = i
          BY <3>2
        <4>2. Doubled(i) = Doubled(i - 1) \o <<i, i>>
          BY <1>4, <4>1
        <4> QED
          BY <3>2, <4>1, <4>2
      <3> QED
        BY <3>1, <3>2
    <2>2. g = body(g)
      BY <1>1, <2>1
    <2> HIDE DEF body
    <2> QED
      BY <2>2
  <1> HIDE DEF flat
  <1> DEFINE S == { m \in Nat : m + 1 <= n => flat[m + 1] = Doubled(m + 1) }
  <1>7. 0 \in S
    <2>1. flat[1] = pairs[1]
      BY <1>1, <1>6
    <2> QED
      BY <1>3, <2>1
  <1>8. ASSUME NEW m \in Nat, m \in S
        PROVE  m + 1 \in S
    <2> SUFFICES ASSUME (m + 1) + 1 <= n
                 PROVE  flat[(m + 1) + 1] = Doubled((m + 1) + 1)
      OBVIOUS
    <2>1. PICK j \in 2 .. n : j = (m + 1) + 1 /\ j - 1 = m + 1
      OBVIOUS
    <2>2. flat[j] = flat[j - 1] \o <<j, j>>
      <3>1. j \in 1 .. Len(pairs) /\ pairs[j] = <<j, j>>
        BY <1>1
      <3>2. body(flat)[j] = flat[j - 1] \o pairs[j]
        BY <3>1
      <3> HIDE DEF body
      <3> QED
        BY <1>6, <3>1, <3>2
    <2>3. flat[j - 1] = Doubled(j - 1)
      BY <1>8, <2>1
    <2>4. Doubled(j) = Doubled(j - 1) \o <<j, j>>
      <3> HIDE DEF Doubled
      <3> QED
        BY <1>4, <2>1
    <2>5. flat[j] = Doubled(j)
      BY <2>2, <2>3, <2>4
    <2> HIDE DEF Doubled
    <2> QED
      BY <2>1, <2>5
  <1>9. Nat \subseteq S
    <2> HIDE DEF S
    <2> QED
      BY <1>7, <1>8, SetInduction
  <1>10. n - 1 \in S
    BY <1>9
  <1> QED
    BY <1>5, <1>10

\* The frames a stream starts with are those of its plan.
LEMMA FramesOfPlan ==
  ASSUME fixture \in Fixtures, plan.duplicate \in BOOLEAN
  PROVE  apply_frame_duplication(plan, [i \in 1 .. fixture.frames |-> i]) = Beginning(FrameCount)
  <1>1. PICK n \in Nat \ {0} : n = fixture.frames
    BY FixtureFields
  <1> DEFINE source == [i \in 1 .. n |-> i]
  <1>2. CASE plan.duplicate
    <2>1. [i \in DOMAIN source |-> <<source[i], source[i]>>] = [i \in 1 .. n |-> <<i, i>>]
      OBVIOUS
    <2> HIDE DEF source
    <2>2. apply_frame_duplication(plan, source) = FlattenSeq([i \in 1 .. n |-> <<i, i>>])
      BY <1>2, <2>1 DEF apply_frame_duplication
    <2>3. Beginning(FrameCount) = [i \in 1 .. 2 * n |-> (i + 1) \div 2]
      BY <1>1, <1>2 DEF Beginning, FrameCount, Frame
    <2> QED
      BY <1>1, <2>2, <2>3, FlattenedPairs DEF source
  <1>3. CASE ~plan.duplicate
    <2>1. Beginning(FrameCount) = source
      BY <1>1, <1>3 DEF Beginning, FrameCount, Frame
    <2> QED
      BY <1>1, <1>3, <2>1 DEF apply_frame_duplication
  <1> QED
    BY <1>2, <1>3

\* What is given of a stream that has started.
Running ==
  /\ fixture \in Fixtures /\ plan.duplicate \in BOOLEAN /\ frames = Beginning(FrameCount)
  /\ plan.delays # None => plan.delays \in [1 .. FrameCount -> Nat]

\* Every frame has its delay.
LEMMA DelayIsNat ==
  ASSUME Running, NEW i \in 1 .. FrameCount
  PROVE  Delay(i) \in Nat
  <1>1. FrameCount \in Nat
    BY PlannedIsCut DEF Running
  <1>2. DOMAIN frames = 1 .. FrameCount
    BY <1>1 DEF Running, Beginning
  <1> QED
    BY <1>1, <1>2, FixtureFields DEF Running, Delay

\* One pause more takes its delay more.
LEMMA SleptMore ==
  ASSUME Running, NEW m \in Nat, m < FrameCount
  PROVE  /\ Slept(0) = 0 /\ Slept(m) \in Nat
         /\ m + 1 < FrameCount => Slept(m + 1) = Slept(m) + Delay(m + 1)
  <1>1. FrameCount \in Nat
    BY PlannedIsCut DEF Running
  <1> DEFINE D(k) == [i \in 1 .. k |-> Delay(i)]
  <1>2. ASSUME NEW k \in Nat, k <= FrameCount
        PROVE  Len(D(k)) = k /\ \A i \in 1 .. k : D(k)[i] = Delay(i) /\ Delay(i) \in Nat
    BY <1>1, <1>2, DelayIsNat
  <1>3. ASSUME NEW k \in Nat, k <= FrameCount
        PROVE  \E f \in [0 .. k -> Nat] :
                 /\ \A n \in 0 .. k : f[n] = IF n = 0 THEN 0 ELSE f[n - 1] + Delay(n)
                 /\ \A j \in 0 .. k : Slept(j) = f[j]
    <2>1. \A i \in 1 .. k : D(k)[i] = Delay(i) /\ Delay(i) \in Nat
      BY <1>2, <1>3
    <2> DEFINE d == D(k)
    <2>9. \A i \in 1 .. k : d[i] = Delay(i) /\ d[i] \in Nat
      BY <2>1
    <2> HIDE DEF d
    <2>2. PICK f \in [0 .. k -> Nat] :
            f = [n \in 0 .. k |-> IF n = 0 THEN 0 ELSE f[n - 1] + d[n]]
      BY <2>9, TotalsExist
    <2>3. \A n \in 0 .. k : f[n] = IF n = 0 THEN 0 ELSE f[n - 1] + Delay(n)
      BY <2>2, <2>9
    <2>4. ASSUME NEW j \in 0 .. k
          PROVE  Slept(j) = f[j]
      <3> DEFINE e == D(j)
                 g == [n \in 0 .. j |-> f[n]]
      <3>1. j \in Nat /\ j <= FrameCount
        BY <1>1, <1>3
      <3>2. Len(e) = j /\ \A i \in 1 .. j : e[i] = Delay(i) /\ e[i] \in Nat
        BY <1>2, <3>1
      <3> HIDE DEF e
      <3>3. g \in [0 .. j -> Nat]
        OBVIOUS
      <3>4. \A n \in 0 .. j : g[n] = IF n = 0 THEN 0 ELSE g[n - 1] + e[n]
        BY <2>3, <3>2
      <3>5. g = [n \in 0 .. j |-> IF n = 0 THEN 0 ELSE g[n - 1] + e[n]]
        BY <3>3, <3>4
      <3>6. g[j] = f[j]
        OBVIOUS
      <3> HIDE DEF g
      <3>7. Total(e) = g[j]
        BY <3>1, <3>2, <3>3, <3>5, TotalIsLast
      <3> QED
        BY <3>6, <3>7 DEF e, Slept
    <2> QED
      BY <2>3, <2>4
  <1>4. CASE m + 1 <= FrameCount
    <2>1. PICK k \in Nat : k = m + 1
      OBVIOUS
    <2>2. PICK f \in [0 .. k -> Nat] :
            /\ \A n \in 0 .. k : f[n] = IF n = 0 THEN 0 ELSE f[n - 1] + Delay(n)
            /\ \A j \in 0 .. k : Slept(j) = f[j]
      BY <1>3, <1>4, <2>1
    <2> QED
      BY <2>1, <2>2
  <1> QED
    BY <1>1, <1>4
-----------------------------------------------------------------------------
(* A step that is not the start of a stream.                               *)

\* What is given of a stream does not change.
LEMMA SameStream ==
  ASSUME fixture' = fixture, plan' = plan, frames' = frames
  PROVE  /\ FrameCount' = FrameCount /\ Cut' = Cut /\ PlannedTime' = PlannedTime
         /\ \A i : Frame(i)' = Frame(i)
         /\ \A n : Beginning(n)' = Beginning(n) /\ Slept(n)' = Slept(n)
  <1>1. FrameCount' = FrameCount /\ \A i : Frame(i)' = Frame(i)
    BY DEF FrameCount, Frame
  <1>2. Cut' = Cut
    BY <1>1 DEF Cut
  <1>3. \A i : Delay(i)' = Delay(i)
    BY DEF Delay
  <1>4. \A n : Beginning(n)' = Beginning(n) /\ Slept(n)' = Slept(n)
    BY <1>1, <1>3 DEF Beginning, Slept
  <1>5. PlannedTime' = PlannedTime
    BY <1>3 DEF PlannedTime, Planned
  <1> QED
    BY <1>1, <1>2, <1>4, <1>5

\* What is known of any stream, in the state it starts in too.
StreamFacts ==
  /\ fixture \in Fixtures /\ plan.duplicate \in BOOLEAN =>
       /\ apply_frame_duplication(plan, [i \in 1 .. fixture.frames |-> i]) = Beginning(FrameCount)
       /\ FrameCount \in Nat \ {0} /\ Cut \in 0 .. FrameCount
       /\ Len(Beginning(FrameCount)) = FrameCount /\ Beginning(0) = <<>>
  /\ Running => Slept(0) = 0

\* They hold in every state.
LEMMA EveryStream == StreamFacts
  <1>1. fixture \in Fixtures /\ plan.duplicate \in BOOLEAN =>
          FrameCount \in Nat \ {0} /\ Cut \in 0 .. FrameCount
    BY PlannedIsCut
  <1>2. plan.duplicate \in BOOLEAN => Beginning(0) = <<>>
    <2> SUFFICES ASSUME plan.duplicate \in BOOLEAN PROVE Beginning(0) = <<>>
      OBVIOUS
    <2>1. Beginning(0) \in Seq(Nat) /\ Len(Beginning(0)) = 0
      BY Beginnings
    <2> QED
      BY <2>1, EmptySeq
  <1>3. fixture \in Fixtures /\ plan.duplicate \in BOOLEAN =>
          Len(Beginning(FrameCount)) = FrameCount
    BY <1>1, Beginnings
  <1>4. Running => Slept(0) = 0
    <2> SUFFICES ASSUME Running PROVE Slept(0) = 0
      OBVIOUS
    <2>1. FrameCount \in Nat \ {0}
      BY <1>1 DEF Running
    <2> QED
      BY <2>1, SleptMore
  <1> QED
    BY <1>1, <1>2, <1>3, <1>4, FramesOfPlan DEF StreamFacts

\* What is known of a stream in a state of the invariant.
LEMMA RunningStream ==
  ASSUME ReplyIInv, frames # <<>>
  PROVE  /\ Running /\ Len(frames) = FrameCount /\ FrameCount \in Nat \ {0}
         /\ Cut \in 0 .. FrameCount /\ sent \in 0 .. Cut /\ Planned = Beginning(Cut)
         /\ \A i \in 1 .. FrameCount : frames[i] = Frame(i)
         /\ mode \in {"sse", "array"} /\ None \notin Nat
         /\ left # None => fixture.disconnect \in Nat /\ left \in 0 .. fixture.disconnect
         /\ Cut < FrameCount => fixture.truncate = Cut
         /\ Truncated => sent = Cut
         /\ ~Truncated /\ sent < FrameCount => sent < Cut
  <1>1. Running
    BY DEF ReplyIInv, Started, ReplyTypes, Running
  <1>2. FrameCount \in Nat \ {0} /\ Cut \in 0 .. FrameCount /\ Planned = Beginning(Cut)
    BY <1>1, PlannedIsCut DEF Running
  <1>3. Len(frames) = FrameCount /\ \A i \in 1 .. FrameCount : frames[i] = Frame(i)
    BY <1>1, <1>2, Beginnings DEF Running
  <1>4. mode \in {"sse", "array"} /\ None \notin Nat /\ sent \in 0 .. Cut
    BY NoneAssumption DEF ReplyIInv, Started, ReplyTypes, Modes
  <1>5. left # None => fixture.disconnect \in Nat /\ left \in 0 .. fixture.disconnect
    BY <1>1, FixtureFields DEF ReplyIInv, Started, Running
  <1>6. /\ Cut < FrameCount => fixture.truncate = Cut
        /\ Truncated => sent = Cut
        /\ ~Truncated /\ sent < FrameCount => sent < Cut
    BY <1>1, <1>2, <1>4, FixtureFields DEF Truncated, Cut, Running
  <1> QED
    BY <1>1, <1>2, <1>3, <1>4, <1>5, <1>6

\* Nothing is sent yet.
LEMMA InitReply == Init => ReplyIInv
  <1> SUFFICES ASSUME Init PROVE ReplyIInv
    OBVIOUS
  <1>1. ReplyTypes
    BY NoneAssumption DEF Init, ReplyTypes
  <1>2. Unstarted
    BY NoneAssumption DEF Init, Unstarted
  <1>3. StatusBooks
    BY DEF Init, StatusBooks
  <1>4. Started /\ Clock /\ EventFlow /\ ArrayFlow
    BY DEF Init, Started, Clock, EventFlow, ArrayFlow
  <1> QED
    BY <1>1, <1>2, <1>3, <1>4 DEF ReplyIInv

\* A reply that is no stream.
LEMMA ReplyStep ==
  ASSUME ReplyIInv, Refuse \/ AnswerError \/ RenderFails \/ Corrupt \/ AnswerWhole
  PROVE  ReplyIInv'
  <1>1. PICK code \in Nat :
          /\ Reply(code)
          /\ fixture.kind # "broken" => code = captured
    <2>1. fixture.status \in Nat /\ 200 \in Nat /\ 400 \in Nat /\ 500 \in Nat
      BY FixtureFields DEF ReplyIInv, ReplyTypes
    <2>2. captured = IF fixture.kind = "error" THEN fixture.status
                     ELSE IF fixture.kind = "refusal" /\ mode # "whole" THEN 400 ELSE 200
      BY DEF ReplyIInv, StatusBooks
    <2> DEFINE Goal(code) == Reply(code) /\ (fixture.kind # "broken" => code = captured)
    <2>3. CASE Refuse /\ mode = "whole"
      <3>1. Goal(200)
        BY <2>2, <2>3 DEF Refuse
      <3> QED
        BY <2>1, <3>1
    <2>4. CASE Refuse /\ mode # "whole"
      <3>1. Goal(400)
        BY <2>2, <2>4 DEF Refuse
      <3> QED
        BY <2>1, <3>1
    <2>5. CASE AnswerError
      <3>1. Goal(fixture.status)
        BY <2>2, <2>5 DEF AnswerError
      <3> QED
        BY <2>1, <3>1
    <2>6. CASE RenderFails
      <3>1. Goal(500)
        BY <2>6 DEF RenderFails
      <3> QED
        BY <2>1, <3>1
    <2>7. CASE Corrupt \/ AnswerWhole
      <3>1. Goal(200)
        BY <2>2, <2>7 DEF Corrupt, AnswerWhole
      <3> QED
        BY <2>1, <3>1
    <2> QED
      BY <2>3, <2>4, <2>5, <2>6, <2>7
  <1>2. frames = <<>>
    BY <1>1 DEF Reply, ReplyIInv, Started
  <1>3. UNCHANGED <<fixture, mode, captured, plan, frames, sent, collected, sleeping, left,
                    channel, client, received>>
        /\ pc' = "done" /\ status' = code /\ ended' = "eof"
    BY <1>1 DEF Reply, stream_vars
  <1>4. ReplyTypes'
    BY <1>3 DEF ReplyIInv, ReplyTypes
  <1>5. Unstarted'
    BY <1>2, <1>3 DEF ReplyIInv, Unstarted
  <1>6. StatusBooks'
    BY <1>1, <1>2, <1>3 DEF ReplyIInv, StatusBooks
  <1>7. Started' /\ Clock' /\ EventFlow' /\ ArrayFlow'
    BY <1>2, <1>3 DEF Started, Clock, EventFlow, ArrayFlow
  <1> QED
    BY <1>4, <1>5, <1>6, <1>7 DEF ReplyIInv

\* The stream begins.
LEMMA StartStep ==
  ASSUME ReplyIInv, StartStream
  PROVE  ReplyIInv'
  <1>1. /\ frames = <<>> /\ sent = 0 /\ collected = <<>> /\ channel = <<>> /\ received = <<>>
        /\ status = None /\ ended = None /\ sleeping \in Nat
    BY DEF StartStream, ReplyIInv, Started, Unstarted, ReplyTypes
  <1>2. /\ UNCHANGED <<fixture, mode, captured, sent, collected, sleeping, channel, client,
                       received, ended>>
        /\ pc' = "yield" /\ left' = fixture.disconnect
        /\ status' = IF mode = "sse" THEN 200 ELSE None
        /\ fixture.kind = "response" /\ mode \in {"sse", "array"}
    BY DEF StartStream, client_vars, ReplyIInv, ReplyTypes, Modes
  <1>3. fixture \in Fixtures /\ fixture' = fixture
    BY <1>2 DEF ReplyIInv, ReplyTypes
  <1>0. StreamFacts'
    BY EveryStream, PTL
  <1>4. Running'
    <2>1. plan' \in from_failure(fixture')
      BY <1>3 DEF StartStream
    <2>2. plan.duplicate' \in BOOLEAN
      BY <1>3, <2>1, PlanOfFailure
    <2>3. frames' = apply_frame_duplication(plan', [i \in 1 .. fixture'.frames |-> i])
      BY <1>3 DEF StartStream
    <2>4. frames' = Beginning(FrameCount)'
      BY <1>0, <1>3, <2>2, <2>3 DEF StreamFacts
    <2>5. plan.delays' # None => plan.delays' \in [1 .. FrameCount' -> Nat]
      BY <1>3, <2>1, PlanOfFailure DEF FrameCount
    <2> QED
      BY <1>3, <2>2, <2>4, <2>5 DEF Running
  <1>5. FrameCount' \in Nat \ {0} /\ Cut' \in 0 .. FrameCount' /\ Len(frames') = FrameCount'
    BY <1>0, <1>4 DEF StreamFacts, Running
  <1>6. frames' # <<>>
    BY <1>5
  <1>7. Beginning(0)' = <<>> /\ Slept(0)' = 0
    BY <1>0, <1>4 DEF StreamFacts, Running
  <1>8. fixture.disconnect \in (Nat \ {0}) \cup {None} /\ None \notin Nat
    BY <1>3, FixtureFields, NoneAssumption
  <1>9. ReplyTypes'
    BY <1>1, <1>2, <1>8 DEF ReplyIInv, ReplyTypes, Streaming
  <1>10. Started'
    BY <1>1, <1>2, <1>4, <1>5, <1>6, <1>8 DEF Started, Running
  <1>11. StatusBooks'
    BY <1>1, <1>2, <1>6, <1>8 DEF StatusBooks, ReplyIInv
  <1>12. Clock'
    BY <1>1, <1>2, <1>7, <1>8 DEF Clock, Elapsed
  <1>13. EventFlow' /\ ArrayFlow'
    BY <1>1, <1>2, <1>5, <1>7, <1>8, NoneAssumption DEF EventFlow, ArrayFlow, Begins
  <1> QED
    BY <1>6, <1>9, <1>10, <1>11, <1>12, <1>13 DEF ReplyIInv, Unstarted
\* An undisturbed stream sleeps after each of its frames but the last of all.
LEMMA PlannedIsSlept ==
  ASSUME ReplyIInv, frames # <<>>
  PROVE  PlannedTime = Slept(IF Cut < FrameCount THEN Cut ELSE FrameCount - 1)
  <1>1. /\ Running /\ Len(frames) = FrameCount /\ FrameCount \in Nat \ {0}
        /\ Cut \in 0 .. FrameCount /\ Planned = Beginning(Cut)
    BY RunningStream
  <1>2. Len(Planned) = Cut
    BY <1>1, Beginnings DEF Running
  <1>3. PICK a \in Int, b \in Int : a = Cut /\ b = FrameCount - 1
    BY <1>1
  <1>4. Min({a, b}) = IF a <= b THEN a ELSE b
    BY MinMax
  <1>5. Min({Len(Planned), Len(frames) - 1}) = IF Cut < FrameCount THEN Cut ELSE FrameCount - 1
    BY <1>1, <1>2, <1>3, <1>4
  <1> QED
    BY <1>5 DEF PlannedTime, Slept

\* A running event stream hands over a frame, waits for room or stops.
LEMMA SendStep ==
  ASSUME ReplyIInv, NextFrame \/ Unblocked
  PROVE  ReplyIInv'
  <1>1. /\ mode = "sse" /\ pc \in {"yield", "blocked"} /\ left # 0
        /\ UNCHANGED <<fixture, mode, captured, status, plan, frames, collected, left,
                       client, received, ended>>
        /\ \/ Truncated /\ pc' = "done" /\ UNCHANGED <<sent, sleeping, channel>>
           \/ (pc = "yield" => ~Truncated) /\ SendFrame
    BY DEF NextFrame, Unblocked, Polls, Expired, client_vars
  <1>2. frames # <<>>
    BY <1>1 DEF ReplyIInv, Unstarted
  <1> DEFINE N == FrameCount
  <1>3. /\ Running /\ Len(frames) = N /\ N \in Nat \ {0}
        /\ Cut \in 0 .. N /\ sent \in 0 .. Cut
        /\ \A i \in 1 .. N : frames[i] = Frame(i)
        /\ None \notin Nat
        /\ left # None => fixture.disconnect \in Nat /\ left \in 0 .. fixture.disconnect
        /\ Truncated => sent = Cut
        /\ ~Truncated /\ sent < N => sent < Cut
    BY <1>2, RunningStream
  <1>4. /\ N' = N /\ Cut' = Cut /\ PlannedTime' = PlannedTime
        /\ \A i : Frame(i)' = Frame(i)
        /\ \A n : Beginning(n)' = Beginning(n) /\ Slept(n)' = Slept(n)
    BY <1>1, SameStream
  <1> HIDE DEF N
  <1>5. /\ sent < N /\ (pc = "blocked" => sent < Cut)
        /\ Begins(received) /\ Len(received) <= sent
        /\ Len(received) + Len(channel) = sent
        /\ \A i \in 1 .. Len(channel) : channel[i] = frames[Len(received) + i]
        /\ ended = None
        /\ channel \in Seq(Nat) /\ received \in Seq(Nat)
        /\ Len(channel) \in Nat /\ Len(received) \in Nat
    <2>1. channel \in Seq(Nat) /\ received \in Seq(Nat)
            /\ Len(channel) \in Nat /\ Len(received) \in Nat
      BY LenProperties DEF ReplyIInv, ReplyTypes
    <2>2. EventFlow /\ frames # <<>> /\ mode = "sse" /\ pc \in {"yield", "blocked", "asleep"}
      BY <1>1, <1>2 DEF ReplyIInv
    <2>3. /\ sent < N /\ (pc = "blocked" => sent < Cut)
          /\ Begins(received) /\ Len(received) <= sent
          /\ ended = None
      BY <2>2 DEF EventFlow, N
    <2>4. Len(received) + Len(channel) = sent
      <3>1. /\ Len(received) + Len(channel) \in sent .. sent + 1
            /\ ~(Len(received) + Len(channel) > sent)
        BY <2>2 DEF EventFlow
      <3> QED
        BY <1>3, <2>1, <3>1
    <2>5. \A i \in 1 .. Len(channel) : Len(received) + i <= sent
      BY <1>3, <2>1, <2>4
    <2>6. \A i \in 1 .. Len(channel) : channel[i] = frames[Len(received) + i]
      <3>1. \A i \in 1 .. Len(channel) :
              channel[i] = IF Len(received) + i <= sent THEN frames[Len(received) + i] ELSE Reset
        BY <2>2, Zenon DEF EventFlow
      <3> QED
        BY <2>5, <3>1
    <2> QED
      BY <2>1, <2>3, <2>4, <2>6
  <1>6. left # None => Elapsed >= Slept(sent) /\ left \in Nat /\ Elapsed \in Nat
                         /\ Elapsed < fixture.disconnect
    BY <1>1, <1>2, <1>3 DEF ReplyIInv, Clock, Elapsed
  <1>7. /\ Slept(sent) \in Nat
        /\ sent + 1 < N => Slept(sent + 1) = Slept(sent) + Delay(sent + 1)
    BY <1>3, <1>5, SleptMore DEF N
  <1>8. PlannedTime = Slept(IF Cut < N THEN Cut ELSE N - 1)
    BY <1>2, PlannedIsSlept DEF N
  <1>9. CASE Truncated /\ pc' = "done" /\ UNCHANGED <<sent, sleeping, channel>>
    <2>1. Complete'
      BY <1>1, <1>3, <1>4, <1>5, <1>6, <1>7, <1>8, <1>9 DEF Complete
    <2>2. ReplyTypes'
      BY <1>1, <1>9 DEF ReplyIInv, ReplyTypes
    <2>3. Started'
      BY <1>1, <1>2, <1>4, <1>9 DEF ReplyIInv, Started, N
    <2>4. StatusBooks'
      BY <1>1 DEF ReplyIInv, StatusBooks
    <2>5. Clock'
      BY <1>9 DEF Clock
    <2>6. EventFlow'
      BY <1>1, <1>2, <1>4, <1>5, <1>9, <2>1 DEF ReplyIInv, EventFlow, Begins, N
    <2> QED
      BY <1>1, <1>2, <2>2, <2>3, <2>4, <2>5, <2>6 DEF ReplyIInv, Unstarted, ArrayFlow
  <1>10. CASE SendFrame /\ (pc = "yield" => ~Truncated)
    <2>1. sent < Cut
      BY <1>1, <1>3, <1>5, <1>10
    <2>2. CASE client = "gone"
      <3>1. pc' = "done" /\ UNCHANGED <<sent, sleeping, channel>>
        BY <1>10, <2>2 DEF SendFrame
      <3>2. ReplyTypes'
        BY <1>1, <3>1 DEF ReplyIInv, ReplyTypes
      <3>3. Started'
        BY <1>1, <1>2, <1>4, <3>1 DEF ReplyIInv, Started, N
      <3>4. StatusBooks'
        BY <1>1 DEF ReplyIInv, StatusBooks
      <3>5. EventFlow'
        BY <1>1, <1>2, <1>4, <1>5, <2>2, <3>1 DEF ReplyIInv, EventFlow, Begins, N
      <3> QED
        BY <1>1, <1>2, <3>1, <3>2, <3>3, <3>4, <3>5
        DEF ReplyIInv, Unstarted, Clock, ArrayFlow
    <2>3. CASE client # "gone" /\ Len(channel) = ChannelSize
      <3>1. pc' = "blocked" /\ UNCHANGED <<sent, sleeping, channel>>
        BY <1>10, <2>3 DEF SendFrame
      <3>2. ReplyTypes'
        BY <1>1, <3>1 DEF ReplyIInv, ReplyTypes, Streaming
      <3>3. Started'
        BY <1>1, <1>2, <1>4, <3>1 DEF ReplyIInv, Started, N
      <3>4. StatusBooks'
        BY <1>1 DEF ReplyIInv, StatusBooks
      <3>5. EventFlow'
        BY <1>1, <1>2, <1>4, <1>5, <2>1, <3>1 DEF ReplyIInv, EventFlow, Begins, N
      <3>6. Clock'
        BY <1>1, <1>4, <1>6, <3>1 DEF Clock, Elapsed
      <3> QED
        BY <1>1, <1>2, <3>2, <3>3, <3>4, <3>5, <3>6 DEF ReplyIInv, Unstarted, ArrayFlow
    <2>4. CASE client # "gone" /\ Len(channel) # ChannelSize
      <3>1. /\ channel' = Append(channel, frames[sent + 1]) /\ sent' = sent + 1
            /\ pc' = IF sent + 1 = N THEN "done"
                     ELSE IF Delay(sent + 1) > 0 THEN "asleep" ELSE "yield"
            /\ sleeping' = IF pc' = "asleep" THEN Delay(sent + 1) ELSE 0
        BY <1>3, <1>10, <2>4 DEF SendFrame
      <3>2. frames[sent + 1] = Frame(sent + 1) /\ Frame(sent + 1) \in Nat
        <4>1. sent + 1 \in Nat \ {0} /\ sent + 1 \in 1 .. N
          BY <1>3, <1>5
        <4> QED
          BY <1>3, <4>1, Beginnings DEF Running
      <3>3. /\ channel' \in Seq(Nat) /\ Len(channel') = Len(channel) + 1
            /\ \A i \in 1 .. Len(channel') : channel'[i] = frames[Len(received) + i]
        <4>1. /\ channel' \in Seq(Nat) /\ Len(channel') = Len(channel) + 1
              /\ \A i \in 1 .. Len(channel) : channel'[i] = channel[i]
              /\ channel'[Len(channel) + 1] = frames[sent + 1]
          BY <1>5, <3>1, <3>2, AppendProperties
        <4>2. Len(received) + (Len(channel) + 1) = sent + 1
          BY <1>5
        <4>3. ASSUME NEW i \in 1 .. Len(channel')
              PROVE  channel'[i] = frames[Len(received) + i]
          <5>1. CASE i \in 1 .. Len(channel)
            BY <1>5, <4>1, <5>1
          <5>2. CASE i = Len(channel) + 1
            BY <4>1, <4>2, <5>2
          <5> QED
            BY <1>5, <4>1, <5>1, <5>2
        <4> QED
          BY <4>1, <4>3
      <3>4. sent + 1 < N => Delay(sent + 1) \in Nat
        BY <1>3, DelayIsNat DEF N
      <3>5. ReplyTypes'
        BY <1>1, <1>3, <1>5, <3>1, <3>3, <3>4 DEF ReplyIInv, ReplyTypes, Streaming
      <3>6. Started'
        BY <1>1, <1>2, <1>3, <1>4, <2>1, <3>1 DEF ReplyIInv, Started, N
      <3>7. StatusBooks'
        BY <1>1 DEF ReplyIInv, StatusBooks
      <3>8. sent + 1 = N => Complete'
        <4> SUFFICES ASSUME sent + 1 = N PROVE Complete'
          OBVIOUS
        <4>1. Cut = N /\ N - 1 = sent /\ sent + 1 = Cut
          BY <1>3, <2>1
        <4>2. PlannedTime = Slept(sent)
          <5>1. (IF Cut < N THEN Cut ELSE N - 1) = sent
            BY <1>3, <4>1
          <5> QED
            BY <1>8, <5>1
        <4>3. left # None => PlannedTime < fixture.disconnect
          BY <1>3, <1>6, <1>7, <4>2
        <4>4. sent' = Cut' /\ left' = left /\ fixture' = fixture
          BY <1>1, <1>4, <3>1, <4>1
        <4> QED
          BY <1>4, <4>3, <4>4 DEF Complete
      <3>9. EventFlow'
        <4>1. Len(received') + Len(channel') = sent'
          BY <1>1, <1>5, <3>1, <3>3
        <4>2. \A i \in 1 .. Len(channel') :
                channel'[i] = IF Len(received') + i <= sent'
                              THEN frames'[Len(received') + i] ELSE Reset
          <5> SUFFICES ASSUME NEW i \in 1 .. Len(channel')
                       PROVE  /\ Len(received) + i <= sent + 1
                              /\ channel'[i] = frames[Len(received) + i]
            BY <1>1, <3>1
          <5>1. i <= Len(channel) + 1 /\ sent \in Nat
            BY <1>3, <1>5, <3>3
          <5> QED
            BY <1>5, <3>3, <5>1
        <4>3. Begins(received)'
          BY <1>1, <1>5 DEF Begins
        <4>4. Len(received') <= sent' /\ sent' <= N /\ sent' \in Nat
          BY <1>1, <1>3, <1>5, <3>1
        <4>5. pc' # "done" => sent' < N
          BY <1>3, <1>5, <3>1
        <4>6. /\ pc' \in {"yield", "asleep", "done"} /\ ended' = None
              /\ pc' = "done" => Complete'
              /\ Len(received') + Len(channel') \in sent' .. sent' + 1
              /\ ~(Len(received') + Len(channel') > sent')
          BY <1>1, <1>5, <3>1, <3>8, <4>1, <4>4
        <4>7. None # "reset"
          BY NoneAssumption
        <4>8. N' = N
          BY <1>4
        <4> QED
          BY <4>2, <4>3, <4>4, <4>5, <4>6, <4>7, <4>8 DEF EventFlow, N
      <3>10. Clock'
        <4>1. /\ left' = left /\ Elapsed' = Elapsed /\ frames' = frames /\ mode' = mode
              /\ Slept(sent)' = Slept(sent + 1)
          BY <1>1, <1>4, <3>1 DEF Elapsed
        <4>2. pc' # "done" => /\ sent + 1 < N /\ Delay(sent + 1) \in Nat
                              /\ Slept(sent + 1) = Slept(sent) + Delay(sent + 1)
          BY <1>3, <1>5, <1>7, <3>1, <3>4
        <4>3. left # None => Elapsed >= Slept(sent) /\ Elapsed \in Nat /\ Slept(sent) \in Nat
          BY <1>6, <1>7
        <4>4. pc' \in {"yield", "asleep", "done"}
          BY <3>1
        <4>5. CASE pc' = "yield"
          <5>1. Delay(sent + 1) = 0
            BY <3>1, <4>2, <4>5
          <5>2. left # None => Elapsed' >= Slept(sent)'
            BY <4>1, <4>2, <4>3, <4>5, <5>1
          <5> QED
            BY <4>1, <4>5, <5>2 DEF Clock
        <4>6. CASE pc' = "asleep"
          <5>1. sleeping' = Delay(sent + 1)
            BY <3>1, <4>6
          <5>2. left # None => Elapsed' + sleeping' >= Slept(sent)'
            BY <4>1, <4>2, <4>3, <4>6, <5>1
          <5> QED
            BY <4>1, <4>6, <5>2 DEF Clock
        <4>7. CASE pc' = "done"
          BY <4>7 DEF Clock
        <4> QED
          BY <4>4, <4>5, <4>6, <4>7
      <3> QED
        BY <1>1, <1>2, <3>5, <3>6, <3>7, <3>9, <3>10 DEF ReplyIInv, Unstarted, ArrayFlow
    <2> QED
      BY <2>2, <2>3, <2>4
  <1> QED
    BY <1>1, <1>9, <1>10
\* The sender wakes up, or its deadline comes.
LEMMA WakeStep ==
  ASSUME ReplyIInv, WakesUp \/ Disconnect
  PROVE  ReplyIInv'
  <1>1. /\ mode = "sse" /\ pc \in {"yield", "blocked", "asleep"}
        /\ UNCHANGED <<fixture, mode, captured, status, plan, frames, sent, collected, sleeping,
                       left, channel, client, received, ended>>
        /\ \/ pc = "asleep" /\ sleeping = 0 /\ pc' = "yield"
           \/ left = 0 /\ pc' = "reset"
    BY DEF WakesUp, Disconnect, Polls, Expired, client_vars, stream_vars
  <1>2. frames # <<>>
    BY <1>1 DEF ReplyIInv, Unstarted
  <1>3. /\ FrameCount' = FrameCount /\ Cut' = Cut
        /\ \A n : Beginning(n)' = Beginning(n) /\ Slept(n)' = Slept(n)
    BY <1>1, SameStream
  <1>4. left # None => Elapsed \in Int /\ Elapsed + 0 = Elapsed
    BY <1>2, RunningStream DEF Elapsed
  <1>5. ReplyTypes'
    BY <1>1 DEF ReplyIInv, ReplyTypes, Streaming
  <1>6. Started'
    BY <1>1, <1>2, <1>3 DEF ReplyIInv, Started
  <1>7. StatusBooks'
    BY <1>1 DEF ReplyIInv, StatusBooks
  <1>8. Clock'
    BY <1>1, <1>3, <1>4 DEF ReplyIInv, Clock, Elapsed
  <1>9. EventFlow'
    BY <1>1, <1>2, <1>3 DEF ReplyIInv, EventFlow, Begins
  <1> QED
    BY <1>1, <1>2, <1>5, <1>6, <1>7, <1>8, <1>9 DEF ReplyIInv, Unstarted, ArrayFlow

\* The reset is behind all frames.
LEMMA ResetStep ==
  ASSUME ReplyIInv, InjectReset
  PROVE  ReplyIInv'
  <1>1. /\ pc = "reset" /\ pc' = "done"
        /\ channel' = IF client = "gone" THEN channel ELSE Append(channel, Reset)
        /\ UNCHANGED <<fixture, mode, captured, status, plan, frames, sent, collected, sleeping,
                       left, client, received, ended>>
    BY DEF InjectReset, client_vars
  <1>2. frames # <<>> /\ mode = "sse"
    <2>1. frames # <<>>
      BY <1>1 DEF ReplyIInv, Unstarted
    <2> QED
      BY <1>1, <2>1, RunningStream DEF ReplyIInv, ArrayFlow
  <1>3. /\ FrameCount' = FrameCount /\ Cut' = Cut /\ sent \in Nat
        /\ \A n : Beginning(n)' = Beginning(n) /\ Slept(n)' = Slept(n)
    BY <1>1, <1>2, SameStream, RunningStream
  <1>4. /\ channel \in Seq(Nat) /\ Len(channel) \in Nat /\ Len(received) \in Nat
        /\ left = 0 /\ Begins(received) /\ Len(received) <= sent
        /\ Len(received) + Len(channel) = sent /\ ended = None
        /\ \A i \in 1 .. Len(channel) : channel[i] = frames[Len(received) + i]
    <2>1. channel \in Seq(Nat) /\ Len(channel) \in Nat /\ Len(received) \in Nat
      BY LenProperties DEF ReplyIInv, ReplyTypes
    <2>2. EventFlow /\ frames # <<>> /\ mode = "sse"
      BY <1>2 DEF ReplyIInv
    <2>3. /\ left = 0 /\ Begins(received) /\ Len(received) <= sent /\ ended = None
          /\ Len(received) + Len(channel) \in sent .. sent + 1
          /\ ~(Len(received) + Len(channel) > sent)
          /\ \A i \in 1 .. Len(channel) :
               channel[i] = IF Len(received) + i <= sent THEN frames[Len(received) + i] ELSE Reset
      BY <1>1, <2>2, Zenon DEF EventFlow
    <2>4. Len(received) + Len(channel) = sent
      BY <1>3, <2>1, <2>3
    <2>5. \A i \in 1 .. Len(channel) : Len(received) + i <= sent
      BY <1>3, <2>1, <2>4
    <2> QED
      BY <2>1, <2>3, <2>4, <2>5
  <1>5. CASE client = "gone"
    <2>1. EventFlow'
      <3>1. \A i \in 1 .. Len(channel) : Len(received) + i <= sent
        BY <1>3, <1>4
      <3>2. Begins(received)'
        BY <1>1, <1>4 DEF Begins
      <3> QED
        BY <1>1, <1>2, <1>3, <1>4, <1>5, <3>1, <3>2 DEF EventFlow
    <2>2. ReplyTypes'
      BY <1>1, <1>5 DEF ReplyIInv, ReplyTypes
    <2> QED
      BY <1>1, <1>2, <1>3, <2>1, <2>2
      DEF ReplyIInv, Unstarted, Started, StatusBooks, Clock, ArrayFlow
  <1>6. CASE client # "gone"
    <2>1. /\ channel' \in Seq(Nat) /\ Len(channel') = Len(channel) + 1
          /\ \A i \in 1 .. Len(channel) : channel'[i] = channel[i]
          /\ channel'[Len(channel) + 1] = Reset
      BY <1>1, <1>4, <1>6, AppendProperties DEF Reset
    <2>2. EventFlow'
      <3>1. ASSUME NEW i \in 1 .. Len(channel')
            PROVE  channel'[i] = IF Len(received) + i <= sent
                                 THEN frames[Len(received) + i] ELSE Reset
        <4>1. CASE i \in 1 .. Len(channel)
          <5>1. Len(received) + i <= sent
            BY <1>3, <1>4, <4>1
          <5> QED
            BY <1>4, <2>1, <4>1, <5>1
        <4>2. CASE i = Len(channel) + 1
          <5>1. ~(Len(received) + i <= sent)
            BY <1>3, <1>4, <4>2
          <5> QED
            BY <2>1, <4>2, <5>1
        <4> QED
          BY <1>4, <2>1, <4>1, <4>2
      <3>2. Begins(received)'
        BY <1>1, <1>4 DEF Begins
      <3>3. Len(received) + Len(channel') = sent + 1
        <4>1. /\ Len(received) \in Nat /\ Len(channel) \in Nat
              /\ Len(received) + Len(channel) = sent
          BY <1>4
        <4>2. Len(channel') = Len(channel) + 1
          BY <2>1
        <4> QED
          BY <4>1, <4>2
      <3>4. /\ Len(received)' = Len(received) /\ frames' = frames /\ sent' = sent
            /\ left' = 0 /\ ended' = None /\ pc' = "done" /\ Len(received) <= sent
        BY <1>1, <1>4
      <3>5. sent + 1 \in sent .. sent + 1 /\ sent + 1 > sent
        BY <1>3
      <3>6. /\ Len(received)' + Len(channel)' \in sent' .. sent' + 1
            /\ Len(received)' + Len(channel)' > sent'
        BY <3>3, <3>4, <3>5
      <3>7. \A i \in 1 .. Len(channel)' :
              channel'[i] = IF Len(received)' + i <= sent' THEN frames'[Len(received)' + i]
                            ELSE Reset
        BY <3>1, <3>4
      <3> QED
        BY <3>2, <3>4, <3>6, <3>7 DEF EventFlow
    <2>3. ReplyTypes'
      BY <1>1, <2>1 DEF ReplyIInv, ReplyTypes
    <2> QED
      BY <1>1, <1>2, <1>3, <2>2, <2>3
      DEF ReplyIInv, Unstarted, Started, StatusBooks, Clock, ArrayFlow
  <1> QED
    BY <1>5, <1>6

\* What is known of an array whose frames are collected.
LEMMA CollectingArray ==
  ASSUME ReplyIInv, mode = "array", pc \in {"yield", "pause", "asleep"}
  PROVE  /\ frames # <<>> /\ collected \in Seq(Nat) /\ Len(collected) = sent /\ Begins(collected)
         /\ sent < FrameCount /\ channel = <<>> /\ received = <<>> /\ ended = None
         /\ status = None /\ fixture.kind = "response" /\ captured = 200
         /\ pc # "yield" => sent > 0
  <1>1. frames # <<>>
    BY DEF ReplyIInv, Unstarted
  <1>2. /\ collected \in Seq(Nat) /\ Len(collected) = sent /\ Begins(collected)
        /\ sent < FrameCount /\ channel = <<>> /\ received = <<>> /\ ended = None
        /\ pc # "yield" => sent > 0
    BY <1>1 DEF ReplyIInv, ReplyTypes, ArrayFlow
  <1>3. status = None /\ fixture.kind = "response" /\ captured = 200
    BY <1>1, <1>2 DEF ReplyIInv, StatusBooks, Started
  <1> QED
    BY <1>1, <1>2, <1>3

\* The array is sent, cut short at its deadline or with all that was planned.
LEMMA SendArrayStep ==
  ASSUME ReplyIInv, mode = "array", pc \in {"yield", "pause", "asleep"}, client = "reads",
         UNCHANGED <<fixture, mode, captured, plan, frames, left, channel, client>>,
         sleeping' \in Nat, sent' \in 0 .. Cut, NEW array \in Seq(Nat), SendArray(array),
         Begins(array), Len(array) <= Cut,
         \/ Len(array) < FrameCount /\ (Len(array) = Cut \/ left = 0)
         \/ sent' = Cut /\ Len(array) = Cut /\ (left # None => PlannedTime < fixture.disconnect)
  PROVE  ReplyIInv'
  <1>1. /\ frames # <<>> /\ channel = <<>> /\ fixture.kind = "response" /\ captured = 200
    BY CollectingArray
  <1>2. /\ collected' = array /\ received' = array /\ ended' = "eof" /\ status' = 200
        /\ pc' = "done"
    BY DEF SendArray
  <1>3. /\ FrameCount' = FrameCount /\ Cut' = Cut /\ PlannedTime' = PlannedTime
        /\ \A n : Beginning(n)' = Beginning(n)
    BY SameStream
  <1>4. 200 # None /\ "eof" # None /\ sent' \in Nat
    BY <1>1, RunningStream, NoneAssumption
  <1>5. ReplyTypes'
    BY <1>2, <1>4 DEF ReplyIInv, ReplyTypes
  <1>6. Started'
    BY <1>1, <1>2, <1>3 DEF ReplyIInv, Started
  <1>7. StatusBooks'
    BY <1>1, <1>2, <1>4 DEF ReplyIInv, StatusBooks
  <1>8. ArrayFlow'
    BY <1>1, <1>2, <1>3, <1>4 DEF ArrayFlow, Begins, Complete
  <1> QED
    BY <1>1, <1>2, <1>5, <1>6, <1>7, <1>8 DEF ReplyIInv, Unstarted, Clock, EventFlow
\* The handler goes on collecting.
LEMMA CollectOnStep ==
  ASSUME ReplyIInv, mode = "array", pc \in {"yield", "pause", "asleep"},
         UNCHANGED <<fixture, mode, captured, status, plan, frames, left, channel, client,
                     received, ended>>,
         sent' \in 0 .. Cut, sent' < FrameCount, sleeping' \in Nat,
         collected' \in Seq(Nat), Begins(collected'), Len(collected') = sent',
         pc' \in {"yield", "pause", "asleep"}, pc' # "yield" => sent' > 0, Clock'
  PROVE  ReplyIInv'
  <1>1. /\ frames # <<>> /\ received = <<>> /\ ended = None /\ channel = <<>>
    BY CollectingArray
  <1>2. /\ FrameCount' = FrameCount /\ Cut' = Cut /\ sent' \in Nat /\ None # "eof"
        /\ \A n : Beginning(n)' = Beginning(n)
    BY <1>1, SameStream, RunningStream, NoneAssumption
  <1>3. ReplyTypes'
    BY <1>2 DEF ReplyIInv, ReplyTypes, Streaming
  <1>4. Started'
    BY <1>1, <1>2 DEF ReplyIInv, Started
  <1>5. StatusBooks'
    BY DEF ReplyIInv, StatusBooks
  <1>6. ArrayFlow'
    BY <1>1, <1>2, NoneAssumption DEF ArrayFlow, Begins
  <1> QED
    BY <1>1, <1>3, <1>4, <1>5, <1>6 DEF ReplyIInv, Unstarted, EventFlow

\* The handler takes a frame, or ends the array.
LEMMA CollectStep ==
  ASSUME ReplyIInv, CollectFrame
  PROVE  ReplyIInv'
  <1>1. /\ mode = "array" /\ pc = "yield" /\ client = "reads"
        /\ UNCHANGED <<fixture, mode, captured, plan, frames, sleeping, left, channel, client>>
    BY DEF CollectFrame
  <1>2. /\ frames # <<>> /\ collected \in Seq(Nat) /\ Len(collected) = sent
        /\ Begins(collected) /\ sent < FrameCount
    BY <1>1, CollectingArray
  <1>3. /\ Running /\ Len(frames) = FrameCount /\ FrameCount \in Nat \ {0}
        /\ Cut \in 0 .. FrameCount /\ sent \in 0 .. Cut /\ None \notin Nat
        /\ left # None => fixture.disconnect \in Nat /\ left \in 0 .. fixture.disconnect
        /\ Truncated => sent = Cut
        /\ ~Truncated => sent < Cut
        /\ \A i \in 1 .. FrameCount : frames[i] = Frame(i)
    BY <1>2, RunningStream
  <1>4. sleeping' \in Nat
    BY <1>1 DEF ReplyIInv, ReplyTypes
  <1>5. CASE Expired \/ Truncated
    <2>1. SendArray(collected) /\ sent' = sent
      BY <1>5 DEF CollectFrame
    <2>2. Len(collected) <= Cut /\ (Len(collected) = Cut \/ left = 0)
      BY <1>2, <1>3, <1>5 DEF Expired
    <2> QED
      BY <1>1, <1>2, <1>3, <1>4, <2>1, <2>2, SendArrayStep
  <1>6. CASE ~(Expired \/ Truncated)
    <2> DEFINE more == Append(collected, frames[sent + 1])
    <2>1. /\ sent' = sent + 1
          /\ IF sent + 1 = FrameCount THEN SendArray(more)
             ELSE pc' = "pause" /\ collected' = more /\ UNCHANGED <<received, ended, status>>
      BY <1>3, <1>6 DEF CollectFrame
    <2>2. sent + 1 \in 1 .. FrameCount /\ frames[sent + 1] \in Nat
      <3>1. sent + 1 \in Nat \ {0} /\ sent + 1 \in 1 .. FrameCount
        BY <1>2, <1>3
      <3> QED
        BY <1>3, <3>1, Beginnings DEF Running
    <2>3. more \in Seq(Nat) /\ Len(more) = sent + 1 /\ Begins(more)
      BY <1>2, <1>3, <2>2, AppendProperties DEF Begins
    <2> HIDE DEF more
    <2>4. sent' \in 0 .. Cut /\ sent + 1 <= Cut
      BY <1>3, <1>6, <2>1
    <2>5. left # None => Elapsed \in Nat /\ Elapsed < fixture.disconnect /\ Elapsed >= Slept(sent)
      BY <1>1, <1>2, <1>3, <1>6 DEF ReplyIInv, Clock, Elapsed, Expired
    <2>6. Slept(sent) \in Nat
      BY <1>2, <1>3, SleptMore
    <2>7. CASE sent + 1 = FrameCount
      <3>1. Cut = FrameCount /\ sent = FrameCount - 1
        BY <1>3, <2>4, <2>7
      <3>2. PlannedTime = Slept(sent)
        BY <1>2, <1>3, <3>1, PlannedIsSlept
      <3>3. left # None => PlannedTime < fixture.disconnect
        BY <1>3, <2>5, <2>6, <3>2
      <3>4. SendArray(more) /\ sent' = Cut /\ Len(more) = Cut /\ Len(more) <= Cut
        BY <1>3, <2>1, <2>3, <2>7, <3>1
      <3> QED
        BY <1>1, <1>4, <2>3, <2>4, <3>3, <3>4, SendArrayStep
    <2>8. CASE sent + 1 # FrameCount
      <3>1. pc' = "pause" /\ collected' = more /\ UNCHANGED <<received, ended, status>>
        BY <2>1, <2>8
      <3>2. sent' < FrameCount /\ sent' > 0 /\ sent' - 1 = sent
        BY <1>3, <2>1, <2>4, <2>8
      <3>3. \A n : Slept(n)' = Slept(n)
        BY <1>1, SameStream
      <3>4. Clock'
        BY <1>1, <2>5, <3>1, <3>2, <3>3 DEF Clock, Elapsed
      <3>5. collected' \in Seq(Nat) /\ Begins(collected') /\ Len(collected') = sent'
        BY <2>1, <2>3, <3>1
      <3> QED
        BY <1>1, <1>4, <2>4, <3>1, <3>2, <3>4, <3>5, CollectOnStep
    <2> QED
      BY <2>7, <2>8
  <1> QED
    BY <1>5, <1>6

\* The pause after a frame begins, or the deadline is noticed.
LEMMA PauseStep ==
  ASSUME ReplyIInv, Pause
  PROVE  ReplyIInv'
  <1>1. /\ mode = "array" /\ pc = "pause" /\ client = "reads"
        /\ UNCHANGED <<fixture, mode, captured, plan, frames, sent, left, channel, client>>
    BY DEF Pause
  <1>2. /\ frames # <<>> /\ collected \in Seq(Nat) /\ Len(collected) = sent
        /\ Begins(collected) /\ sent < FrameCount /\ sent > 0
    BY <1>1, CollectingArray
  <1>3. /\ Running /\ FrameCount \in Nat \ {0}
        /\ Cut \in 0 .. FrameCount /\ sent \in 0 .. Cut /\ None \notin Nat
        /\ left # None => fixture.disconnect \in Nat /\ left \in 0 .. fixture.disconnect
    BY <1>2, RunningStream
  <1>4. Delay(sent) \in Nat
    <2>1. sent \in 1 .. FrameCount
      BY <1>2, <1>3
    <2> QED
      BY <1>3, <2>1, DelayIsNat
  <1>5. CASE Delay(sent) > 0 /\ Expired
    <2>1. SendArray(collected) /\ sleeping' = sleeping /\ sleeping \in Nat
      BY <1>5 DEF Pause, ReplyIInv, ReplyTypes
    <2>2. Len(collected) <= Cut /\ Len(collected) < FrameCount /\ left = 0 /\ sent' \in 0 .. Cut
      BY <1>1, <1>2, <1>3, <1>5 DEF Expired
    <2> QED
      BY <1>1, <1>2, <2>1, <2>2, SendArrayStep
  <1>6. CASE ~(Delay(sent) > 0 /\ Expired)
    <2>1. /\ sleeping' = IF left = None THEN Delay(sent) ELSE Min({Delay(sent), left})
          /\ pc' = IF Delay(sent) > 0 THEN "asleep" ELSE "yield"
          /\ UNCHANGED <<collected, received, ended, status>>
      BY <1>6 DEF Pause
    <2>2. left # None => Min({Delay(sent), left}) = IF Delay(sent) <= left THEN Delay(sent) ELSE left
      <3> HAVE left # None
      <3>1. PICK a \in Int, b \in Int : a = Delay(sent) /\ b = left
        BY <1>3, <1>4
      <3>2. Min({a, b}) = IF a <= b THEN a ELSE b
        BY MinMax
      <3> QED
        BY <3>1, <3>2
    <2>3. sleeping' \in Nat
      BY <1>3, <1>4, <2>1, <2>2
    <2>4. Slept(sent - 1) \in Nat /\ Slept(sent) = Slept(sent - 1) + Delay(sent)
      <3>1. PICK m \in Nat : m = sent - 1 /\ m + 1 = sent /\ m < FrameCount /\ m + 1 < FrameCount
        BY <1>2, <1>3
      <3>2. Slept(m) \in Nat /\ Slept(m + 1) = Slept(m) + Delay(m + 1)
        BY <1>3, <3>1, SleptMore
      <3> QED
        BY <3>1, <3>2
    <2>5. left \notin {None, 0} => Elapsed \in Nat /\ Elapsed >= Slept(sent - 1)
      BY <1>1, <1>2, <1>3 DEF ReplyIInv, Clock, Elapsed
    <2>6. \A n : Slept(n)' = Slept(n)
      BY <1>1, SameStream
    <2>7. Clock'
      BY <1>1, <1>3, <1>4, <2>1, <2>2, <2>4, <2>5, <2>6 DEF Clock, Elapsed
    <2>8. sent' \in 0 .. Cut /\ sent' < FrameCount /\ sent' > 0
      BY <1>1, <1>2, <1>3
    <2>9. collected' \in Seq(Nat) /\ Begins(collected') /\ Len(collected') = sent'
            /\ pc' \in {"yield", "pause", "asleep"}
      BY <1>1, <1>2, <2>1
    <2> QED
      BY <1>1, <2>1, <2>3, <2>7, <2>8, <2>9, CollectOnStep
  <1> QED
    BY <1>5, <1>6

\* The sleep is over; a deadline that has come takes the last frame back.
LEMMA EndPauseStep ==
  ASSUME ReplyIInv, EndPause
  PROVE  ReplyIInv'
  <1>1. /\ mode = "array" /\ pc = "asleep" /\ client = "reads" /\ sleeping = 0
        /\ UNCHANGED <<fixture, mode, captured, plan, frames, sent, sleeping, left, channel, client>>
    BY DEF EndPause
  <1>2. /\ frames # <<>> /\ collected \in Seq(Nat) /\ Len(collected) = sent
        /\ Begins(collected) /\ sent < FrameCount /\ sent > 0
    BY <1>1, CollectingArray
  <1>3. /\ FrameCount \in Nat \ {0}
        /\ Cut \in 0 .. FrameCount /\ sent \in 0 .. Cut /\ None \notin Nat
        /\ left # None => fixture.disconnect \in Nat /\ left \in 0 .. fixture.disconnect
    BY <1>2, RunningStream
  <1>4. sent' \in 0 .. Cut /\ sent' < FrameCount /\ sleeping' \in Nat
    BY <1>1, <1>2, <1>3
  <1>5. CASE Expired
    <2>1. SendArray(Front(collected))
      BY <1>5 DEF EndPause
    <2>2. /\ Front(collected) \in Seq(Nat) /\ Len(Front(collected)) = sent - 1
          /\ \A i \in 1 .. sent - 1 : Front(collected)[i] = collected[i]
      <3>1. PICK k \in Nat : k = sent - 1
        BY <1>2, <1>3
      <3>2. Front(collected) = SubSeq(collected, 1, k)
        BY <1>2, <3>1 DEF Front
      <3>3. \A i \in 1 .. k : collected[i] \in Nat
        BY <1>2, <1>3, <3>1, ElementOfSeq
      <3> QED
        BY <3>1, <3>2, <3>3, SubSeqProperties
    <2>3. Begins(Front(collected))
      BY <1>2, <1>3, <2>2 DEF Begins
    <2>4. /\ Len(Front(collected)) <= Cut /\ Len(Front(collected)) < FrameCount /\ left = 0
      BY <1>2, <1>3, <1>5, <2>2 DEF Expired
    <2> QED
      BY <1>1, <1>4, <2>1, <2>2, <2>3, <2>4, SendArrayStep
  <1>6. CASE ~Expired
    <2>1. pc' = "yield" /\ UNCHANGED <<collected, received, ended, status>>
      BY <1>6 DEF EndPause
    <2>2. \A n : Slept(n)' = Slept(n)
      BY <1>1, SameStream
    <2>3. left # None => Elapsed \in Nat /\ Elapsed >= Slept(sent)
      BY <1>1, <1>2, <1>3, <1>6 DEF ReplyIInv, Clock, Elapsed, Expired
    <2>4. Clock'
      BY <1>1, <2>1, <2>2, <2>3 DEF Clock, Elapsed
    <2> QED
      BY <1>1, <1>2, <1>4, <2>1, <2>4, CollectOnStep
  <1> QED
    BY <1>5, <1>6
\* The client gets what is next in the channel.
LEMMA ReceiveStep ==
  ASSUME ReplyIInv, Receive
  PROVE  ReplyIInv'
  <1>1. /\ client = "reads" /\ ended = None /\ channel # <<>> /\ channel' = Tail(channel)
        /\ IF Head(channel) = Reset THEN ended' = "reset" /\ received' = received
           ELSE received' = Append(received, Head(channel)) /\ ended' = ended
        /\ UNCHANGED <<fixture, mode, captured, status, pc, plan, frames, sent, collected,
                       sleeping, left, client>>
    BY DEF Receive
  <1>2. frames # <<>>
    BY <1>1 DEF ReplyIInv, Unstarted
  <1>3. /\ Len(frames) = FrameCount /\ Cut \in 0 .. FrameCount /\ FrameCount \in Nat /\ sent \in 0 .. Cut
        /\ \A i \in 1 .. FrameCount : frames[i] = Frame(i)
        /\ mode \in {"sse", "array"} /\ plan.duplicate \in BOOLEAN
    BY <1>2, RunningStream DEF Running
  <1>4. mode = "sse"
    BY <1>1, <1>2, <1>3 DEF ReplyIInv, ArrayFlow
  <1>5. /\ channel \in Seq(Nat) /\ received \in Seq(Nat)
        /\ Len(channel) \in Nat \ {0} /\ Len(received) \in Nat
        /\ channel' \in Seq(Nat) /\ Len(channel') = Len(channel) - 1
        /\ \A i \in 1 .. Len(channel') : channel'[i] = channel[i + 1]
        /\ Head(channel) = channel[1] /\ Head(channel) \in Nat
    <2>1. channel \in Seq(Nat) /\ received \in Seq(Nat) /\ Len(received) \in Nat
      BY LenProperties DEF ReplyIInv, ReplyTypes
    <2>2. /\ Len(channel) \in Nat \ {0} /\ Tail(channel) \in Seq(Nat)
          /\ Len(Tail(channel)) = Len(channel) - 1 /\ Head(channel) = channel[1]
          /\ Head(channel) \in Nat
          /\ \A i \in 1 .. Len(Tail(channel)) : Tail(channel)[i] = channel[i + 1]
      BY <1>1, <2>1, HeadTailProperties, EmptySeq, LenProperties
    <2> QED
      BY <1>1, <2>1, <2>2
  <1>6. /\ Begins(received) /\ Len(received) <= sent
        /\ Len(received) + Len(channel) \in sent .. sent + 1
        /\ \A i \in 1 .. Len(channel) :
             channel[i] = IF Len(received) + i <= sent THEN frames[Len(received) + i] ELSE Reset
        /\ Len(received) + Len(channel) > sent => pc = "done" /\ left = 0
        /\ pc # "pause" /\ (pc = "reset" => left = 0)
        /\ pc \in {"yield", "blocked", "asleep"} => sent < FrameCount
        /\ pc = "blocked" => sent < Cut
    BY <1>2, <1>4, Zenon DEF ReplyIInv, EventFlow
  <1>7. /\ FrameCount' = FrameCount /\ Cut' = Cut /\ PlannedTime' = PlannedTime
        /\ \A n : Beginning(n)' = Beginning(n) /\ Slept(n)' = Slept(n)
    BY <1>1, SameStream
  <1>8. None \notin Nat /\ None # "reset" /\ None # "eof"
    BY NoneAssumption
  <1>9. Complete' <=> Complete
    BY <1>1, <1>7 DEF Complete
  <1>10. /\ \/ client = "gone" /\ ended = None
            \/ ended = "reset"
            \/ Len(received) + Len(channel) > sent
            \/ Complete
         \/ pc # "done"
    BY <1>2, <1>4 DEF ReplyIInv, EventFlow
  <1>11. CASE Head(channel) = Reset
    <2>1. ~(Len(received) + 1 <= sent)
      <3> SUFFICES ASSUME Len(received) + 1 <= sent PROVE FALSE
        OBVIOUS
      <3>1. channel[1] = frames[Len(received) + 1] /\ Len(received) + 1 \in 1 .. FrameCount
        <4>1. 1 \in 1 .. Len(channel)
          BY <1>5
        <4>2. channel[1] = frames[Len(received) + 1]
          BY <1>6, <4>1
        <4>3. Len(received) + 1 \in 1 .. FrameCount
          BY <1>3, <1>5
        <4> QED
          BY <4>2, <4>3
      <3>2. Frame(Len(received) + 1) \in Nat \ {0}
        <4>1. Len(received) + 1 \in Nat \ {0} /\ Len(received) \in Nat
          BY <1>5
        <4> QED
          BY <1>3, <4>1, Beginnings
      <3> QED
        BY <1>3, <1>5, <1>11, <3>1, <3>2 DEF Reset
    <2>2. /\ Len(channel) = 1 /\ Len(received) = sent /\ pc = "done" /\ left = 0
      BY <1>3, <1>5, <1>6, <2>1
    <2>3. channel' = <<>> /\ ended' = "reset" /\ received' = received
      BY <1>1, <1>5, <1>11, <2>2, EmptySeq
    <2>4. EventFlow'
      <3>1. Begins(received)'
        BY <1>1, <1>6, <2>3 DEF Begins
      <3>2. Len(received') + Len(channel') = sent /\ Len(received') <= sent /\ sent \in Nat
            /\ Len(channel') = 0
        BY <1>3, <1>5, <2>2, <2>3
      <3> QED
        BY <1>1, <2>2, <2>3, <3>1, <3>2 DEF EventFlow
    <2>5. ReplyTypes'
      BY <1>1, <1>5, <2>3 DEF ReplyIInv, ReplyTypes
    <2> QED
      BY <1>1, <1>2, <1>4, <1>7, <2>2, <2>4, <2>5
      DEF ReplyIInv, Unstarted, Started, StatusBooks, Clock, ArrayFlow
  <1>12. CASE Head(channel) # Reset
    <2>1. Len(received) + 1 <= sent /\ Head(channel) = frames[Len(received) + 1]
      BY <1>5, <1>6, <1>12
    <2>2. /\ received' \in Seq(Nat) /\ Len(received') = Len(received) + 1 /\ ended' = ended
          /\ \A i \in 1 .. Len(received) : received'[i] = received[i]
          /\ received'[Len(received) + 1] = frames[Len(received) + 1]
      <3>1. PICK item \in Nat : item = Head(channel)
        BY <1>5
      <3>2. received' = Append(received, item) /\ ended' = ended
        BY <1>1, <1>12, <3>1
      <3> QED
        BY <1>5, <2>1, <3>1, <3>2, AppendProperties
    <2>3. Begins(received)' /\ Len(received') <= sent
      <3>1. Len(received') <= sent
        BY <2>1, <2>2
      <3>2. ASSUME NEW i \in 1 .. Len(received')
            PROVE  received'[i] = frames[i]
        <4>1. CASE i = Len(received) + 1
          BY <2>2, <4>1
        <4>2. CASE i # Len(received) + 1
          <5>1. i \in 1 .. Len(received)
            BY <1>5, <2>2, <4>2
          <5> QED
            BY <1>6, <2>2, <5>1 DEF Begins
        <4> QED
          BY <4>1, <4>2
      <3> QED
        BY <1>1, <3>1, <3>2 DEF Begins
    <2>4. Len(received') + Len(channel') = Len(received) + Len(channel)
      BY <1>5, <2>2
    <2>5. ASSUME NEW i \in 1 .. Len(channel')
          PROVE  channel'[i] = IF Len(received') + i <= sent
                               THEN frames[Len(received') + i] ELSE Reset
      <3>1. Len(received') + i = Len(received) + (i + 1) /\ i + 1 \in 1 .. Len(channel)
        BY <1>5, <2>2
      <3> QED
        BY <1>5, <1>6, <3>1
    <2>6. EventFlow'
      BY <1>1, <1>6, <1>7, <1>8, <1>9, <1>10, <2>2, <2>3, <2>4, <2>5 DEF EventFlow
    <2>7. ReplyTypes'
      BY <1>1, <1>5, <2>2 DEF ReplyIInv, ReplyTypes
    <2>8. Started'
      BY <1>1, <1>7 DEF ReplyIInv, Started
    <2>9. StatusBooks'
      BY <1>1, <2>2 DEF ReplyIInv, StatusBooks
    <2>10. Clock'
      BY <1>1, <1>7 DEF ReplyIInv, Clock, Elapsed
    <2> QED
      BY <1>1, <1>2, <1>4, <2>6, <2>7, <2>8, <2>9, <2>10 DEF ReplyIInv, Unstarted, ArrayFlow
  <1> QED
    BY <1>11, <1>12

\* The client sees the end of the stream.
LEMMA EndStep ==
  ASSUME ReplyIInv, EndOfStream
  PROVE  ReplyIInv'
  <1>1. /\ client = "reads" /\ ended = None /\ pc = "done" /\ channel = <<>> /\ ended' = "eof"
        /\ UNCHANGED <<fixture, mode, captured, status, pc, plan, frames, sent, collected,
                       sleeping, left, channel, client, received>>
    BY DEF EndOfStream, stream_vars
  <1>2. None # "eof" /\ None # "reset" /\ None \notin Nat
    BY NoneAssumption
  <1>3. ReplyTypes'
    BY <1>1 DEF ReplyIInv, ReplyTypes
  <1>4. Unstarted'
    BY <1>1 DEF ReplyIInv, Unstarted
  <1>5. FrameCount' = FrameCount /\ Cut' = Cut /\ PlannedTime' = PlannedTime
          /\ \A n : Beginning(n)' = Beginning(n) /\ Slept(n)' = Slept(n)
    BY <1>1, SameStream
  <1>6. Started'
    BY <1>1, <1>5 DEF ReplyIInv, Started
  <1>7. frames # <<>> => mode = "sse"
    BY <1>1, <1>2, RunningStream DEF ReplyIInv, ArrayFlow
  <1>8. StatusBooks'
    BY <1>1, <1>7 DEF ReplyIInv, StatusBooks
  <1>9. Clock'
    BY <1>1, <1>5 DEF ReplyIInv, Clock, Elapsed
  <1>10. EventFlow'
    <2>1. Complete' <=> Complete
      BY <1>1, <1>5 DEF Complete
    <2>2. EventFlow
      BY DEF ReplyIInv
    <2>3. Len(received) + Len(channel) = Len(received) /\ Len(received) \in Nat
      BY <1>1, LenProperties DEF ReplyIInv, ReplyTypes
    <2>4. frames # <<>> => sent \in Nat
      BY RunningStream
    <2> QED
      BY <1>1, <1>2, <1>5, <2>1, <2>2, <2>3, <2>4 DEF EventFlow, Begins
  <1> QED
    BY <1>1, <1>3, <1>4, <1>6, <1>7, <1>8, <1>9, <1>10 DEF ReplyIInv, ArrayFlow

\* The client hangs up.
LEMMA LeaveStep ==
  ASSUME ReplyIInv, ClientLeaves
  PROVE  ReplyIInv'
  <1>1. /\ ended = None /\ client' = "gone" /\ pc' = IF status = None THEN "done" ELSE pc
        /\ UNCHANGED <<fixture, mode, captured, status, plan, frames, sent, collected,
                       sleeping, left, channel, received, ended>>
    BY DEF ClientLeaves, stream_vars
  <1>2. None # "eof" /\ None # "reset" /\ None \notin Nat
    BY NoneAssumption
  <1>3. FrameCount' = FrameCount /\ Cut' = Cut /\ PlannedTime' = PlannedTime
          /\ \A n : Beginning(n)' = Beginning(n) /\ Slept(n)' = Slept(n)
    BY <1>1, SameStream
  <1>4. ReplyTypes'
    BY <1>1 DEF ReplyIInv, ReplyTypes
  <1>5. Unstarted'
    BY <1>1, <1>2 DEF ReplyIInv, Unstarted
  <1>6. Started'
    BY <1>1, <1>3 DEF ReplyIInv, Started
  <1>7. StatusBooks'
    BY <1>1 DEF ReplyIInv, StatusBooks
  <1>8. Clock'
    BY <1>1, <1>3 DEF ReplyIInv, Clock, Elapsed
  <1>9. frames # <<>> => (mode = "sse" => pc' = pc) /\ (mode = "array" => pc' = "done")
    BY <1>1, <1>2 DEF ReplyIInv, StatusBooks
  <1>10. EventFlow'
    BY <1>1, <1>3, <1>9 DEF ReplyIInv, EventFlow, Begins
  <1>11. ArrayFlow'
    BY <1>1, <1>2, <1>3, <1>9 DEF ReplyIInv, ArrayFlow, Begins
  <1> QED
    BY <1>4, <1>5, <1>6, <1>7, <1>8, <1>10, <1>11 DEF ReplyIInv

\* Time passes.
LEMMA TickStep ==
  ASSUME ReplyIInv, Tick
  PROVE  ReplyIInv'
  <1>1. /\ pc \in {"yield", "blocked", "asleep", "pause"}
        /\ sleeping' = Max({0, sleeping - 1})
        /\ left' = IF left = None THEN None ELSE Max({0, left - 1})
        /\ UNCHANGED <<fixture, mode, captured, status, pc, plan, frames, sent, collected,
                       channel, client, received, ended>>
    BY DEF Tick, client_vars
  <1>2. frames # <<>>
    BY <1>1 DEF ReplyIInv, Unstarted
  <1>3. /\ None \notin Nat /\ sent \in Nat /\ FrameCount \in Nat /\ Running
        /\ left # None => fixture.disconnect \in Nat /\ left \in 0 .. fixture.disconnect
    BY <1>2, RunningStream
  <1>4. sleeping \in Nat
    BY DEF ReplyIInv, ReplyTypes
  <1>5. sleeping' \in Nat /\ sleeping' >= sleeping - 1 /\ (sleeping > 0 => sleeping' = sleeping - 1)
    <2>1. PICK a \in Int, b \in Int : a = 0 /\ b = sleeping - 1
      BY <1>4
    <2>2. Max({a, b}) = IF a <= b THEN b ELSE a
      BY MinMax
    <2> QED
      BY <1>1, <1>4, <2>1, <2>2
  <1>6. /\ left = None => left' = None
        /\ left # None => left' = IF left = 0 THEN 0 ELSE left - 1
    <2> SUFFICES ASSUME left # None PROVE left' = IF left = 0 THEN 0 ELSE left - 1
      BY <1>1
    <2>1. PICK a \in Int, b \in Int : a = 0 /\ b = left - 1
      BY <1>3
    <2>2. Max({a, b}) = IF a <= b THEN b ELSE a
      BY MinMax
    <2> QED
      BY <1>1, <1>3, <2>1, <2>2
  <1>7. FrameCount' = FrameCount /\ Cut' = Cut /\ PlannedTime' = PlannedTime
          /\ \A n : Beginning(n)' = Beginning(n) /\ Slept(n)' = Slept(n)
    BY <1>1, SameStream
  <1>8. ReplyTypes'
    BY <1>1, <1>3, <1>5, <1>6 DEF ReplyIInv, ReplyTypes
  <1>9. Started'
    BY <1>1, <1>2, <1>3, <1>6, <1>7 DEF ReplyIInv, Started
  <1>10. StatusBooks'
    BY <1>1 DEF ReplyIInv, StatusBooks
  <1>11. Clock'
    <2> SUFFICES ASSUME left' # None, left' # 0 PROVE Clock'
      BY DEF Clock
    <2>1. left # None /\ left # 0 /\ left' = left - 1
      BY <1>3, <1>6
    <2>2. Elapsed' = Elapsed + 1 /\ Elapsed \in Nat /\ fixture.disconnect \in Nat /\ left \in Nat
      BY <1>1, <1>3, <2>1 DEF Elapsed
    <2>3. sent < FrameCount
      BY <1>1, <1>2, RunningStream DEF ReplyIInv, EventFlow, ArrayFlow
    <2>4. Slept(sent) \in Nat /\ (pc = "pause" => Slept(sent - 1) \in Nat)
      <3>1. Slept(sent) \in Nat
        BY <1>3, <2>3, SleptMore
      <3>2. ASSUME pc = "pause" PROVE Slept(sent - 1) \in Nat
        <4>1. mode = "array"
          BY <1>2, <3>2, RunningStream DEF ReplyIInv, EventFlow
        <4>2. sent > 0
          BY <1>2, <3>2, <4>1, CollectingArray
        <4>3. PICK m \in Nat : m = sent - 1 /\ m < FrameCount
          BY <1>3, <2>3, <4>2
        <4> QED
          BY <1>3, <4>3, SleptMore
      <3> QED
        BY <3>1, <3>2
    <2>5. /\ pc \in {"yield", "blocked"} => Elapsed >= Slept(sent)
          /\ pc = "asleep" => \/ Elapsed + sleeping >= Slept(sent)
                              \/ mode = "array" /\ sleeping >= left
          /\ pc = "pause" => Elapsed >= Slept(sent - 1)
      BY <1>2, <2>1 DEF ReplyIInv, Clock
    <2>6. pc \in {"yield", "blocked"} => Elapsed' >= Slept(sent)
      BY <2>2, <2>4, <2>5
    <2>7. pc = "asleep" => \/ Elapsed' + sleeping' >= Slept(sent)
                           \/ mode = "array" /\ sleeping' >= left'
      BY <1>4, <1>5, <2>1, <2>2, <2>4, <2>5
    <2>8. pc = "pause" => Elapsed' >= Slept(sent - 1)
      BY <2>2, <2>4, <2>5
    <2> QED
      BY <1>1, <1>7, <2>6, <2>7, <2>8 DEF Clock
  <1>12. EventFlow'
    BY <1>1, <1>3, <1>6, <1>7 DEF ReplyIInv, EventFlow, Begins
  <1>13. ArrayFlow'
    BY <1>1, <1>7 DEF ReplyIInv, ArrayFlow, Begins
  <1> QED
    BY <1>2, <1>1, <1>8, <1>9, <1>10, <1>11, <1>12, <1>13 DEF ReplyIInv, Unstarted
\* The stream's books are kept by every step.
LEMMA ReplyBooks == ReplyIInv /\ [Next]_vars => ReplyIInv'
  <1> SUFFICES ASSUME ReplyIInv, [Next]_vars PROVE ReplyIInv'
    OBVIOUS
  <1>1. CASE Serve
    BY <1>1, ReplyStep, StartStep DEF Serve
  <1>2. CASE Send
    BY <1>2, SendStep, WakeStep, ResetStep, CollectStep, PauseStep, EndPauseStep DEF Send
  <1>3. CASE Receive \/ EndOfStream
    BY <1>3, ReceiveStep, EndStep
  <1>4. CASE ClientLeaves \/ Tick
    BY <1>4, LeaveStep, TickStep
  <1>5. CASE UNCHANGED vars
    <2>1. UNCHANGED <<fixture, mode, captured, status, pc, plan, frames, sent, collected,
                      sleeping, left, channel, client, received, ended>>
      BY <1>5 DEF vars, stream_vars, client_vars
    <2>2. /\ FrameCount' = FrameCount /\ Cut' = Cut /\ PlannedTime' = PlannedTime
          /\ \A n : Beginning(n)' = Beginning(n) /\ Slept(n)' = Slept(n)
      BY <2>1, SameStream
    <2>3. Started' /\ Clock'
      BY <2>1, <2>2 DEF ReplyIInv, Started, Clock, Elapsed
    <2>4. EventFlow' /\ ArrayFlow'
      BY <2>1, <2>2 DEF ReplyIInv, EventFlow, ArrayFlow, Begins, Complete
    <2> QED
      BY <2>1, <2>3, <2>4 DEF ReplyIInv, ReplyTypes, Unstarted, StatusBooks
  <1> QED
    BY <1>1, <1>2, <1>3, <1>4, <1>5 DEF Next

\* The books are kept in every behaviour.
LEMMA SpecReplyIInv == Spec => []ReplyIInv
  BY InitReply, ReplyBooks, PTL DEF Spec

-----------------------------------------------------------------------------
(* What the books say of the properties.                                   *)

\* The status that was captured before the reply was built is the one the
\* client gets, whichever way the reply leaves the handler.
THEOREM StatusIsAsCaptured == Spec => []StatusAsCaptured
  <1>1. ReplyIInv => StatusAsCaptured
    BY DEF ReplyIInv, StatusBooks, StatusAsCaptured
  <1> QED
    BY <1>1, SpecReplyIInv, PTL

\* A beginning of the frames is a beginning of what is planned.
LEMMA BeginsPlanned ==
  ASSUME ReplyIInv, frames # <<>>, Begins(received), Len(received) <= Cut
  PROVE  IsPrefix(received, Planned) /\ (Len(received) = Cut => received = Planned)
  <1>1. /\ Cut \in Nat /\ Planned = Beginning(Cut) /\ plan.duplicate \in BOOLEAN
        /\ received \in Seq(Nat) /\ Len(received) \in Nat
        /\ \A i \in 1 .. Cut : frames[i] = Frame(i)
    BY RunningStream, LenProperties DEF ReplyIInv, ReplyTypes, Running
  <1>2. /\ Planned \in Seq(Nat) /\ Len(Planned) = Cut
        /\ \A i \in 1 .. Cut : Planned[i] = Frame(i)
    BY <1>1, Beginnings
  <1>3. PICK n \in Nat : n = Len(received)
    BY <1>1
  <1>4. \A i \in 1 .. n : received[i] = Planned[i]
    <2>1. n <= Cut
      BY <1>3
    <2>2. \A i \in 1 .. n : received[i] = frames[i]
      BY <1>3 DEF Begins
    <2>3. \A i \in 1 .. n : i \in 1 .. Cut
      BY <1>1, <1>3, <2>1
    <2>4. ASSUME NEW i \in 1 .. n
          PROVE  received[i] = Planned[i]
      <3>1. received[i] = frames[i] /\ i \in 1 .. Cut
        BY <2>2, <2>3
      <3>2. frames[i] = Frame(i) /\ Planned[i] = Frame(i)
        BY <1>1, <1>2, <3>1
      <3> QED
        BY <3>1, <3>2
    <2> QED
      BY <2>4
  <1>5. SubSeq(received, 1, n) = [i \in 1 .. n |-> received[i]]
          /\ SubSeq(Planned, 1, n) = [i \in 1 .. n |-> Planned[i]]
    OBVIOUS
  <1>6. Len(received) = Cut => received = Planned
    <2> HAVE Len(received) = Cut
    <2> QED
      BY <1>1, <1>2, <1>3, <1>4, SeqEqual
  <1> QED
    BY <1>2, <1>3, <1>4, <1>5, <1>6 DEF IsPrefix

\* What the client holds is a beginning of the plan, and one that ends in order
\* or by a reset says so rightly.
THEOREM StreamsEndAsPlanned == Spec => []EndsAsPlanned
  <1>1. ASSUME ReplyIInv
        PROVE  EndsAsPlanned
    <2>1. CASE frames = <<>>
      <3>1. received = <<>> /\ ended # "reset" /\ plan.delays = None
        BY <1>1, <2>1 DEF ReplyIInv, Unstarted, PASSTHROUGH
      <3>2. plan.duplicate \in BOOLEAN /\ fixture \in Fixtures
        <4>1. plan = PASSTHROUGH /\ fixture \in Fixtures
          BY <1>1, <2>1 DEF ReplyIInv, ReplyTypes, Unstarted
        <4> QED
          BY <4>1 DEF PASSTHROUGH
      <3>3. Len(Planned) \in Nat
        BY <3>2, PlannedIsCut, Beginnings
      <3>4. IsPrefix(received, Planned)
        BY <3>1, <3>3, EmptySeq, SubSeqEmpty DEF IsPrefix
      <3> QED
        BY <2>1, <3>1, <3>4 DEF EndsAsPlanned
    <2>2. CASE frames # <<>>
      <3>1. /\ mode \in {"sse", "array"} /\ sent \in 0 .. Cut /\ Cut \in Nat /\ FrameCount \in Nat
            /\ Len(frames) = FrameCount /\ frames = Beginning(FrameCount)
        BY <1>1, <2>2, RunningStream DEF Running
      <3>2. plan.delays # None => DOMAIN plan.delays = DOMAIN frames
        BY <1>1, <2>2, <3>1, RunningStream DEF Running, Beginning
      <3>3. Len(received) \in Nat /\ None # "eof" /\ None # "reset"
        BY <1>1, LenProperties, NoneAssumption DEF ReplyIInv, ReplyTypes
      <3>4. CASE mode = "sse"
        <4>1. /\ Begins(received) /\ Len(received) <= sent
              /\ ended = "reset" => left = 0
              /\ ended = "eof" => Len(received) = Cut
          <5>1. EventFlow
            BY <1>1 DEF ReplyIInv
          <5>2. ended = "eof" => channel = <<>> /\ Len(received) + Len(channel) = Len(received)
            BY <2>2, <3>3, <3>4, <5>1 DEF EventFlow
          <5> QED
            BY <2>2, <3>1, <3>3, <3>4, <5>1, <5>2 DEF EventFlow, Complete
        <4>2. IsPrefix(received, Planned) /\ (Len(received) = Cut => received = Planned)
          BY <1>1, <2>2, <3>1, <3>3, <4>1, BeginsPlanned
        <4> QED
          BY <3>2, <4>1, <4>2 DEF EndsAsPlanned
      <3>5. CASE mode = "array"
        <4>1. /\ Begins(received) /\ Len(received) <= Cut /\ ended # "reset"
              /\ ended = "eof" => Len(received) = Cut \/ left = 0
          BY <1>1, <2>2, <3>1, <3>5 DEF ReplyIInv, ArrayFlow, Begins
        <4>2. IsPrefix(received, Planned) /\ (Len(received) = Cut => received = Planned)
          BY <1>1, <2>2, <4>1, BeginsPlanned
        <4> QED
          BY <3>2, <3>5, <4>1, <4>2 DEF EndsAsPlanned
      <3> QED
        BY <3>1, <3>4, <3>5
    <2> QED
      BY <2>1, <2>2
  <1> QED
    BY <1>1, SpecReplyIInv, PTL

\* A stream that sleeps past its deadline does not end in order, whenever
\* the two timers are looked at.
THEOREM LateStreamsAreCut == Spec => []LateStreamsCut
  <1>1. ASSUME ReplyIInv
        PROVE  LateStreamsCut
    <2> SUFFICES ASSUME ended # None, left # None, PlannedTime >= fixture.disconnect
                 PROVE  IF mode = "sse" THEN ended = "reset" ELSE Len(received) < Len(frames)
      BY DEF LateStreamsCut
    <2>1. frames # <<>>
      BY <1>1 DEF ReplyIInv, Unstarted
    <2>2. /\ mode \in {"sse", "array"} /\ Len(frames) = FrameCount /\ FrameCount \in Nat \ {0}
          /\ Running /\ Cut \in 0 .. FrameCount /\ sent \in Nat /\ fixture.disconnect \in Nat
      BY <1>1, <2>1, RunningStream
    <2>3. PlannedTime \in Nat
      <3>1. PICK m \in Nat : m = (IF Cut < FrameCount THEN Cut ELSE FrameCount - 1) /\ m < FrameCount
        BY <2>2
      <3>2. PlannedTime = Slept(m)
        BY <1>1, <2>1, <3>1, PlannedIsSlept
      <3> QED
        BY <2>2, <3>1, <3>2, SleptMore
    <2>4. ~Complete
      BY <2>2, <2>3 DEF Complete
    <2>5. CASE mode = "sse"
      <3>1. EventFlow
        BY <1>1 DEF ReplyIInv
      <3>2. channel = <<>> /\ pc = "done" /\ Len(received) <= sent
        BY <2>1, <2>5, <3>1 DEF EventFlow
      <3>3. ~(Len(received) + Len(channel) > sent)
        BY <1>1, <2>2, <3>2, LenProperties DEF ReplyIInv, ReplyTypes
      <3> QED
        BY <2>1, <2>4, <2>5, <3>1, <3>2, <3>3 DEF EventFlow
    <2>6. CASE mode = "array"
      BY <1>1, <2>1, <2>2, <2>4, <2>6 DEF ReplyIInv, ReplyTypes, ArrayFlow
    <2> QED
      BY <2>2, <2>5, <2>6
  <1> QED
    BY <1>1, SpecReplyIInv, PTL
=============================================================================
