--------------------------- MODULE LiveFeedProofs ---------------------------
(***************************************************************************)
(* The live feed for any number of writers and captures and any sizes of   *)
(* the log, the channel and the wire: no gap is silent, and a request has  *)
(* one row, but for those caught between their store and their broadcast.  *)
(***************************************************************************)
EXTENDS LiveFeed, SequenceTheorems, FiniteSetTheorems, WellFoundedInduction,
        NaturalsInduction, TLAPS

Item == [kind : {"event"}, id : Nat, size : Nat] \cup [kind : {"lagged"}, id : {None}, size : Nat]

LiveFeedTypes ==
  /\ counter \in Nat
  /\ writer \in [Writers -> [pc : {"idle", "reserved", "stored"}, id : Nat \cup {None}]]
  /\ log \in Seq(Nat) /\ sent \in Seq(Nat)
  /\ phase \in {"meta", "fetch", "connect", "live"}
  /\ maxRows \in Nat /\ rows \in Seq(Nat)
  /\ since \in Nat \ {0} /\ pos \in 1 .. Len(sent) + 1
  /\ wire \in Seq(Item) /\ drops \in Nat
  /\ heard \in Seq(Item)

\* A connection begins with nothing on its way.
Fresh == phase # "live" => wire = <<>> /\ heard = <<>>

\* Items that stand for the events from `start` to before `end`: those that
\* are events are at the place that the ones before them leave for them.
Placed(items, start, end, events) ==
  /\ start + Sizes(items) = end
  /\ \A i \in 1 .. Len(items) :
       items[i].kind = "event" =>
         /\ start + Sizes(SubSeq(items, 1, i - 1)) \in 1 .. Len(events)
         /\ items[i].id = events[start + Sizes(SubSeq(items, 1, i - 1))]

FeedBooks == phase = "live" => Placed(heard \o wire, since, pos, sent)

Sent == { sent[p] : p \in 1 .. Len(sent) }
Stored == { writer[w].id : w \in { v \in Writers : writer[v].pc = "stored" } }

\* An id is with one writer, or broadcast once; the log has it once.
IdBooks ==
  /\ \A w \in Writers : writer[w].pc # "idle" =>
       /\ writer[w].id \in Nat /\ writer[w].id < counter /\ writer[w].id \notin Sent
       /\ \A v \in Writers : writer[v].pc # "idle" /\ writer[v].id = writer[w].id => v = w
  /\ \A p \in 1 .. Len(sent) : sent[p] < counter
  /\ \A p, q \in 1 .. Len(sent) : sent[p] = sent[q] => p = q
  /\ \A i \in 1 .. Len(log) : log[i] \in Sent \cup Stored
  /\ \A i, j \in 1 .. Len(log) : log[i] = log[j] => i = j

\* What has been broadcast and is not to be sent to the page any more.
Past == { sent[p] : p \in 1 .. (IF phase = "live" THEN pos - 1 ELSE Len(sent)) }
EventIds(items) == { items[j].id : j \in { n \in 1 .. Len(items) : items[n].kind = "event" } }
EachOnce(items) ==
  \A i, j \in 1 .. Len(items) :
    items[i].kind = "event" /\ items[j].kind = "event" /\ items[i].id = items[j].id => i = j
OnWire == EventIds(wire)

\* The first k rows are of the log, the others of the feed.
Split(k) ==
  /\ \A i \in 1 .. k : rows[i] \in between \cup (Past \ OnWire)
  /\ \A i \in k + 1 .. Len(rows) : rows[i] \in Past \ OnWire
  /\ \A i, j \in 1 .. Len(rows) :
       i < j /\ rows[i] = rows[j] => i <= k /\ k < j /\ rows[i] \in between

RowBooks ==
  /\ OnWire \subseteq Past /\ EachOnce(wire)
  /\ \E k \in 0 .. Len(rows) : Split(k)

LiveFeedIInv == LiveFeedTypes /\ Fresh /\ FeedBooks /\ IdBooks /\ RowBooks

-----------------------------------------------------------------------------
(* Sizes, a recursive function of the prefixes of a sequence.              *)

\* Induction over the natural numbers, for sets.
LEMMA SetInduction ==
  ASSUME NEW S, 0 \in S, \A n \in Nat : n \in S => n + 1 \in S
  PROVE  Nat \subseteq S
  <1> SUFFICES ASSUME Nat \ S # {} PROVE FALSE
    OBVIOUS
  <1> DEFINE Less == { ss \in Nat \X Nat : ss[1] < ss[2] }
  <1>1. IsWellFoundedOn(Less, Nat)
    BY NatLessThanWellFounded DEF OpToRel
  <1>2. PICK x \in Nat \ S : \A y \in Nat \ S : ~(<<y, x>> \in Less)
    <2>1. Nat \ S \subseteq Nat
      OBVIOUS
    <2> HIDE DEF Less
    <2> QED
      BY <1>1, <2>1, WFMin
  <1>3. x # 0 /\ x - 1 \in Nat
    OBVIOUS
  <1>4. <<x - 1, x>> \in Less
    BY <1>3
  <1>5. x - 1 \in S
    BY <1>2, <1>3, <1>4
  <1> QED
    BY <1>3, <1>5

\* f maps each n up to m to how many events the first n items stand for.
Totals(f, items, m) ==
  /\ f \in [0 .. m -> Nat] /\ f[0] = 0
  /\ \A n \in 1 .. m : f[n] = f[n - 1] + items[n].size

\* The size of an item is a number.
LEMMA SizeIsNat ==
  ASSUME NEW items \in Seq(Item), NEW n \in 1 .. Len(items)
  PROVE  items[n].size \in Nat
  <1>1. items[n] \in Item
    BY ElementOfSeq
  <1> QED
    BY <1>1 DEF Item

\* One item more.
LEMMA TotalsExtend ==
  ASSUME NEW items, NEW m \in Nat, NEW f, Totals(f, items, m), items[m + 1].size \in Nat
  PROVE  Totals([n \in 0 .. m + 1 |-> IF n <= m THEN f[n] ELSE f[m] + items[m + 1].size],
                items, m + 1)
  <1> DEFINE next == f[m] + items[m + 1].size
             g == [n \in 0 .. m + 1 |-> IF n <= m THEN f[n] ELSE next]
  <1>1. next \in Nat
    BY DEF Totals
  <1> HIDE DEF next
  <1>2. g \in [0 .. m + 1 -> Nat] /\ g[0] = 0
    BY <1>1 DEF Totals
  <1>3. ASSUME NEW n \in 1 .. m + 1
        PROVE  g[n] = g[n - 1] + items[n].size
    <2>1. CASE n = m + 1
      <3>1. g[n] = next /\ g[n - 1] = f[m]
        BY <2>1
      <3> QED
        BY <2>1, <3>1 DEF next
    <2>2. CASE n \in 1 .. m
      <3>1. g[n] = f[n] /\ g[n - 1] = f[n - 1]
        BY <2>2
      <3> QED
        BY <2>2, <3>1 DEF Totals
    <2> QED
      BY <2>1, <2>2
  <1>4. Totals(g, items, m + 1)
    BY <1>2, <1>3 DEF Totals
  <1> QED
    BY <1>4 DEF next

\* There is a function with the equations of the totals, ...
LEMMA TotalsExist ==
  ASSUME NEW items \in Seq(Item)
  PROVE  \E f : Totals(f, items, Len(items))
  <1> DEFINE S == { m \in Nat : m <= Len(items) => \E f : Totals(f, items, m) }
  <1>0. Len(items) \in Nat
    BY LenProperties
  <1>1. 0 \in S
    <2>1. Totals([n \in 0 .. 0 |-> 0], items, 0)
      BY DEF Totals
    <2> QED
      BY <2>1
  <1>2. ASSUME NEW m \in Nat, m \in S
        PROVE  m + 1 \in S
    <2> SUFFICES ASSUME m + 1 <= Len(items)
                 PROVE  \E f : Totals(f, items, m + 1)
      OBVIOUS
    <2>1. PICK f : Totals(f, items, m)
      BY <1>0, <1>2
    <2>2. items[m + 1].size \in Nat
      BY <1>0, SizeIsNat
    <2> QED
      BY <2>1, <2>2, TotalsExtend
  <1>3. Nat \subseteq S
    <2> HIDE DEF S
    <2> QED
      BY <1>1, <1>2, SetInduction
  <1> QED
    BY <1>0, <1>3

\* ... and only one.
LEMMA TotalsUnique ==
  ASSUME NEW items, NEW m \in Nat, NEW f, NEW g, Totals(f, items, m), Totals(g, items, m)
  PROVE  f = g
  <1> DEFINE S == { n \in Nat : n <= m => f[n] = g[n] }
  <1>1. 0 \in S
    BY DEF Totals
  <1>2. ASSUME NEW n \in Nat, n \in S
        PROVE  n + 1 \in S
    BY <1>2 DEF Totals
  <1>3. Nat \subseteq S
    <2> HIDE DEF S
    <2> QED
      BY <1>1, <1>2, SetInduction
  <1>4. \A n \in 0 .. m : f[n] = g[n]
    BY <1>3
  <1> QED
    BY <1>4 DEF Totals

\* Sizes is the last of the totals.
LEMMA SizesIsTotal ==
  ASSUME NEW items \in Seq(Item), NEW f, Totals(f, items, Len(items))
  PROVE  Sizes(items) = f[Len(items)]
  <1> DEFINE body(h) == [n \in 0 .. Len(items) |->
               IF n = 0 THEN 0 ELSE h[n - 1] + items[n].size]
             total == CHOOSE h : h = body(h)
  <1>0. Len(items) \in Nat
    BY LenProperties
  <1>1. f = body(f)
    <2>1. f = [n \in 0 .. Len(items) |-> f[n]]
      BY DEF Totals
    <2>2. \A n \in 0 .. Len(items) : f[n] = IF n = 0 THEN 0 ELSE f[n - 1] + items[n].size
      BY <1>0 DEF Totals
    <2> QED
      BY <2>1, <2>2
  <1>2. total = body(total)
    <2> HIDE DEF body
    <2> QED
      BY <1>1
  <1>3. Sizes(items) = total[Len(items)]
    BY DEF Sizes
  <1> HIDE DEF total
  <1> DEFINE S == { n \in Nat : n <= Len(items) => total[n] = f[n] }
  <1>4. 0 \in S
    <2>1. total[0] = 0
      BY <1>0, <1>2
    <2> QED
      BY <2>1 DEF Totals
  <1>5. ASSUME NEW n \in Nat, n \in S
        PROVE  n + 1 \in S
    <2> SUFFICES ASSUME n + 1 <= Len(items)
                 PROVE  total[n + 1] = f[n + 1]
      OBVIOUS
    <2>1. total[n + 1] = total[n] + items[n + 1].size
      BY <1>0, <1>2
    <2>2. total[n] = f[n]
      BY <1>0, <1>5
    <2> QED
      BY <1>0, <2>1, <2>2 DEF Totals
  <1>6. Nat \subseteq S
    <2> HIDE DEF S
    <2> QED
      BY <1>4, <1>5, SetInduction
  <1> QED
    BY <1>0, <1>3, <1>6

\* No items, no events.
LEMMA SizesOfNone == Sizes(<<>>) = 0
  <1>1. <<>> \in Seq(Item) /\ Len(<<>>) = 0
    BY EmptySeq
  <1>2. Totals([n \in 0 .. 0 |-> 0], <<>>, 0)
    BY DEF Totals
  <1> QED
    BY <1>1, <1>2, SizesIsTotal

\* One item more is its size more.
LEMMA SizesOfAppend ==
  ASSUME NEW items \in Seq(Item), NEW item \in Item
  PROVE  Sizes(items) \in Nat /\ Sizes(Append(items, item)) = Sizes(items) + item.size
  <1>0. Len(items) \in Nat
    BY LenProperties
  <1>1. PICK more \in Seq(Item) : more = Append(items, item)
    BY AppendProperties
  <1>2. /\ Len(more) = Len(items) + 1 /\ more[Len(items) + 1] = item
        /\ \A n \in 1 .. Len(items) : more[n] = items[n]
    BY <1>1, AppendProperties
  <1>3. PICK f : Totals(f, items, Len(items))
    BY TotalsExist
  <1>4. Totals(f, more, Len(items)) /\ item.size \in Nat
    BY <1>2, <1>3 DEF Totals, Item
  <1> DEFINE g == [n \in 0 .. Len(items) + 1 |->
               IF n <= Len(items) THEN f[n] ELSE f[Len(items)] + more[Len(items) + 1].size]
  <1>5. Totals(g, more, Len(more))
    BY <1>0, <1>2, <1>4, TotalsExtend
  <1>6. g[Len(more)] = f[Len(items)] + item.size
    BY <1>0, <1>2
  <1> HIDE DEF g
  <1>7. Sizes(items) = f[Len(items)] /\ Sizes(more) = g[Len(more)]
    BY <1>3, <1>5, SizesIsTotal
  <1>8. f[Len(items)] \in Nat
    BY <1>0, <1>3 DEF Totals
  <1> QED
    BY <1>1, <1>6, <1>7, <1>8

-----------------------------------------------------------------------------
(* Types.                                                                  *)

\* KeepLast drops from the front.
LEMMA KeepLastIsSuffix ==
  ASSUME NEW S, NEW seq \in Seq(S), NEW n \in Nat
  PROVE  /\ KeepLast(seq, n) \in Seq(S)
         /\ Len(KeepLast(seq, n)) <= n
         /\ \E d \in 0 .. Len(seq) :
              /\ Len(KeepLast(seq, n)) = Len(seq) - d
              /\ \A i \in 1 .. Len(seq) - d : KeepLast(seq, n)[i] = seq[i + d]
  <1>0. Len(seq) \in Nat
    BY LenProperties
  <1>1. CASE Len(seq) <= n
    <2>1. KeepLast(seq, n) = seq
      BY <1>1 DEF KeepLast
    <2> QED
      BY <1>0, <1>1, <2>1
  <1>2. CASE Len(seq) > n
    <2>1. PICK m \in Int, last \in Int : m = Len(seq) - n + 1 /\ last = Len(seq)
      BY <1>0
    <2>2. \A i \in m .. last : seq[i] \in S
      BY <1>0, <1>2, <2>1, ElementOfSeq
    <2>3. PICK kept : kept = SubSeq(seq, m, last)
      OBVIOUS
    <2>4. /\ SubSeq(seq, m, last) \in Seq(S)
          /\ Len(SubSeq(seq, m, last)) = IF m <= last THEN last - m + 1 ELSE 0
          /\ \A i \in 1 .. last - m + 1 : SubSeq(seq, m, last)[i] = seq[m + i - 1]
      BY <2>2, SubSeqProperties
    <2>5. /\ kept \in Seq(S)
          /\ Len(kept) = IF m <= last THEN last - m + 1 ELSE 0
          /\ \A i \in 1 .. last - m + 1 : kept[i] = seq[m + i - 1]
      BY <2>3, <2>4
    <2>6. KeepLast(seq, n) = kept
      <3>1. ~(Len(seq) <= n)
        BY <1>0, <1>2
      <3>2. KeepLast(seq, n) = SubSeq(seq, Len(seq) - n + 1, Len(seq))
        BY <3>1 DEF KeepLast
      <3> QED
        BY <2>1, <2>3, <3>2
    <2>7. Len(kept) = n
      BY <1>0, <1>2, <2>1, <2>5
    <2>8. PICK d \in 0 .. Len(seq) : d = Len(seq) - n
      BY <1>0, <1>2
    <2>9. \A i \in 1 .. Len(seq) - d : kept[i] = seq[i + d]
      BY <1>0, <1>2, <2>1, <2>5, <2>8
    <2>10. kept \in Seq(S) /\ Len(kept) <= n /\ Len(kept) = Len(seq) - d
      BY <1>0, <2>5, <2>7, <2>8
    <2>11. \E e \in 0 .. Len(seq) :
             Len(kept) = Len(seq) - e /\ \A i \in 1 .. Len(seq) - e : kept[i] = seq[i + e]
      BY <2>9, <2>10
    <2> QED
      BY <2>6, <2>10, <2>11
  <1> QED
    BY <1>0, <1>1, <1>2

\* Oldest is a place the receiver can go on from.
LEMMA OldestIsPlace ==
  ASSUME LiveFeedTypes
  PROVE  Oldest \in 1 .. Len(sent) + 1
  <1>1. Len(sent) \in Nat /\ sent \in Seq(Nat) /\ ChannelSize \in Nat
    BY SizesAssumption, LenProperties DEF LiveFeedTypes
  <1>2. \E d \in 0 .. Len(sent) : Len(KeepLast(sent, ChannelSize)) = Len(sent) - d
    BY <1>1, KeepLastIsSuffix
  <1> QED
    BY <1>1, <1>2 DEF Oldest

\* The types hold at the start.
LEMMA InitTypes == Init => LiveFeedTypes
  <1> SUFFICES ASSUME Init PROVE LiveFeedTypes
    OBVIOUS
  <1>1. <<>> \in Seq(Nat) /\ <<>> \in Seq(Item) /\ Len(<<>>) = 0
    BY EmptySeq
  <1>2. writer \in [Writers -> [pc : {"idle", "reserved", "stored"}, id : Nat \cup {None}]]
    BY DEF Init, Idle
  <1> QED
    BY <1>1, <1>2, SizesAssumption DEF Init, LiveFeedTypes

\* A writer that has an id has a number.
LEMMA WriterHasId ==
  ASSUME IdBooks, NEW w \in Writers, writer[w].pc # "idle"
  PROVE  writer[w].id \in Nat
  BY DEF IdBooks

\* Every step keeps the types.
LEMMA StepTypes ==
  LiveFeedTypes /\ IdBooks /\ [Next]_vars => LiveFeedTypes'
  <1> SUFFICES ASSUME LiveFeedTypes, IdBooks, [Next]_vars
               PROVE  LiveFeedTypes'
    OBVIOUS
  <1> USE DEF pages, server
  <1>0. /\ Len(sent) \in Nat /\ sent \in Seq(Nat) /\ log \in Seq(Nat) /\ rows \in Seq(Nat)
        /\ wire \in Seq(Item) /\ heard \in Seq(Item)
    BY LenProperties DEF LiveFeedTypes
  <1>e. <<>> \in Seq(Item) /\ <<>> \in Seq(Nat)
    BY EmptySeq
  <1>1. ASSUME NEW w \in Writers, ReserveId(w)
        PROVE  LiveFeedTypes'
    <2>1. writer' \in [Writers -> [pc : {"idle", "reserved", "stored"}, id : Nat \cup {None}]]
      BY <1>1 DEF ReserveId, LiveFeedTypes
    <2> QED
      BY <1>1, <2>1 DEF ReserveId, LiveFeedTypes
  <1>2. ASSUME NEW w \in Writers, Store(w)
        PROVE  LiveFeedTypes'
    <2>1. writer[w].id \in Nat
      BY <1>2, WriterHasId DEF Store
    <2>2. PICK id \in Nat : id = writer[w].id
      BY <2>1
    <2>3. PICK more \in Seq(Nat) : more = Append(log, id)
      BY <1>0, AppendProperties
    <2>4. log' = IF Capacity = None THEN more ELSE KeepLast(more, Capacity)
      BY <1>2, <2>2, <2>3 DEF Store
    <2>5. log' \in Seq(Nat)
      BY <2>4, SizesAssumption, KeepLastIsSuffix
    <2>6. writer' \in [Writers -> [pc : {"idle", "reserved", "stored"}, id : Nat \cup {None}]]
      BY <1>2 DEF Store, LiveFeedTypes
    <2> QED
      BY <1>2, <2>5, <2>6 DEF Store, LiveFeedTypes
  <1>3. ASSUME NEW w \in Writers, Broadcast(w)
        PROVE  LiveFeedTypes'
    <2>1. PICK id \in Nat : id = writer[w].id
      BY <1>3, WriterHasId DEF Broadcast
    <2>2. PICK more \in Seq(Nat) : more = Append(sent, id) /\ Len(more) = Len(sent) + 1
      BY <1>0, AppendProperties
    <2>3. sent' = more
      BY <1>3, <2>1, <2>2 DEF Broadcast
    <2>4. pos' \in 1 .. Len(sent') + 1
      BY <1>0, <1>3, <2>2, <2>3 DEF Broadcast, LiveFeedTypes
    <2>5. writer' \in [Writers -> [pc : {"idle", "reserved", "stored"}, id : Nat \cup {None}]]
      BY <1>3 DEF Broadcast, LiveFeedTypes, Idle
    <2> QED
      BY <1>3, <2>2, <2>3, <2>4, <2>5 DEF Broadcast, LiveFeedTypes
  <1>4. CASE ResetCaptured
    BY <1>4, <1>e DEF ResetCaptured, LiveFeedTypes
  <1>5. CASE get_meta
    BY <1>5, SizesAssumption DEF get_meta, LiveFeedTypes
  <1>6. CASE get_requests
    <2>1. rows' \in Seq(Nat)
      BY <1>0, <1>6, KeepLastIsSuffix DEF get_requests, LiveFeedTypes
    <2> QED
      BY <1>6, <2>1 DEF get_requests, LiveFeedTypes
  <1>7. CASE event_stream
    BY <1>0, <1>7 DEF event_stream, LiveFeedTypes
  <1>8. CASE SendLagged
    <2>1. Oldest \in 1 .. Len(sent) + 1 /\ Oldest - pos \in Nat
      BY <1>0, <1>8, OldestIsPlace DEF SendLagged, LiveFeedTypes
    <2>2. PICK item \in Item : item = Lagged(Oldest - pos)
      BY <2>1 DEF Lagged, Item
    <2>3. wire' \in Seq(Item)
      BY <1>0, <1>8, <2>2, AppendProperties DEF SendLagged
    <2> QED
      BY <1>8, <2>1, <2>3 DEF SendLagged, LiveFeedTypes
  <1>9. CASE SendEvent
    <2>1. pos \in 1 .. Len(sent)
      BY <1>0, <1>9, OldestIsPlace DEF SendEvent
    <2>2. sent[pos] \in Nat
      BY <1>0, <2>1, ElementOfSeq
    <2>3. PICK item \in Item : item = Shown(sent[pos])
      BY <2>2 DEF Shown, Item
    <2>4. wire' \in Seq(Item)
      BY <1>0, <1>9, <2>3, AppendProperties DEF SendEvent
    <2> QED
      BY <1>0, <1>9, <2>1, <2>4 DEF SendEvent, LiveFeedTypes
  <1>10. CASE Receive
    <2>1. PICK item \in Item : item = Head(wire)
      BY <1>0, <1>10, HeadTailProperties DEF Receive
    <2>2. wire' \in Seq(Item)
      BY <1>0, <1>10, HeadTailProperties DEF Receive
    <2>3. heard' \in Seq(Item)
      BY <1>0, <1>10, <2>1, AppendProperties DEF Receive
    <2>4. rows' \in Seq(Nat)
      <3>1. CASE item.kind = "lagged"
        BY <1>0, <1>10, <2>1, <3>1 DEF Receive
      <3>2. CASE item.kind # "lagged"
        <4>1. PICK id \in Nat : id = item.id
          BY <3>2 DEF Item
        <4>2. PICK more \in Seq(Nat) : more = Append(rows, id)
          BY <1>0, AppendProperties
        <4>3. rows' = KeepLast(more, maxRows)
          BY <1>10, <2>1, <3>2, <4>1, <4>2 DEF Receive
        <4> QED
          BY <4>2, <4>3, KeepLastIsSuffix DEF LiveFeedTypes
      <3> QED
        BY <3>1, <3>2
    <2> QED
      BY <1>10, <2>2, <2>3, <2>4 DEF Receive, LiveFeedTypes
  <1>11. CASE Disconnect
    BY <1>11, <1>e DEF Disconnect, LiveFeedTypes
  <1>12. CASE UNCHANGED vars
    BY <1>12 DEF vars, LiveFeedTypes
  <1> QED
    BY <1>1, <1>2, <1>3, <1>4, <1>5, <1>6, <1>7, <1>8, <1>9, <1>10, <1>11, <1>12 DEF Next

-----------------------------------------------------------------------------
(* IdBooks.                                                                *)

\* No id is drawn at the start.
LEMMA InitIds == Init => IdBooks
  <1> SUFFICES ASSUME Init PROVE IdBooks
    OBVIOUS
  <1>1. Len(<<>>) = 0
    BY EmptySeq
  <1> QED
    BY <1>1 DEF Init, IdBooks, Idle

\* What a log of the books keeps of them.
LEMMA SuffixIds ==
  ASSUME NEW old \in Seq(Nat), NEW new \in Seq(Nat), NEW d \in 0 .. Len(old), NEW S,
         Len(new) = Len(old) - d, \A i \in 1 .. Len(old) - d : new[i] = old[i + d],
         \A i \in 1 .. Len(old) : old[i] \in S,
         \A i, j \in 1 .. Len(old) : old[i] = old[j] => i = j
  PROVE  /\ \A i \in 1 .. Len(new) : new[i] \in S
         /\ \A i, j \in 1 .. Len(new) : new[i] = new[j] => i = j
  <1>0. Len(old) \in Nat
    BY LenProperties
  <1>1. \A i \in 1 .. Len(new) : i + d \in 1 .. Len(old) /\ new[i] = old[i + d]
    BY <1>0
  <1>2. \A i \in 1 .. Len(new) : new[i] \in S
    BY <1>1
  <1>3. ASSUME NEW i \in 1 .. Len(new), NEW j \in 1 .. Len(new), new[i] = new[j]
        PROVE  i = j
    <2>1. i + d = j + d
      BY <1>1, <1>3
    <2> QED
      BY <1>0, <2>1
  <1> QED
    BY <1>2, <1>3

\* One id more: the places of the sequence, ...
LEMMA AppendIds ==
  ASSUME NEW old \in Seq(Nat), NEW id \in Nat, NEW new \in Seq(Nat), new = Append(old, id)
  PROVE  /\ Len(new) = Len(old) + 1 /\ new[Len(old) + 1] = id
         /\ \A i \in 1 .. Len(old) : new[i] = old[i]
         /\ \A i \in 1 .. Len(new) : i = Len(old) + 1 \/ i \in 1 .. Len(old)
  <1>1. Len(old) \in Nat
    BY LenProperties
  <1>2. /\ Len(new) = Len(old) + 1 /\ new[Len(old) + 1] = id
        /\ \A i \in 1 .. Len(old) : new[i] = old[i]
    BY AppendProperties
  <1>3. \A i \in 1 .. Len(new) : i = Len(old) + 1 \/ i \in 1 .. Len(old)
    BY <1>1, <1>2
  <1> QED
    BY <1>2, <1>3

\* ... the ids in it, ...
LEMMA AppendImage ==
  ASSUME NEW old \in Seq(Nat), NEW id \in Nat, NEW new \in Seq(Nat), new = Append(old, id)
  PROVE  { new[i] : i \in 1 .. Len(new) } = { old[i] : i \in 1 .. Len(old) } \cup {id}
  <1>0. Len(old) \in Nat
    BY LenProperties
  <1>1. /\ Len(new) = Len(old) + 1 /\ new[Len(old) + 1] = id
        /\ \A i \in 1 .. Len(old) : new[i] = old[i]
        /\ \A i \in 1 .. Len(new) : i = Len(old) + 1 \/ i \in 1 .. Len(old)
    BY AppendIds
  <1>2. ASSUME NEW i \in 1 .. Len(new)
        PROVE  new[i] \in { old[j] : j \in 1 .. Len(old) } \cup {id}
    BY <1>1
  <1>3. /\ Len(old) + 1 \in 1 .. Len(new)
        /\ \A i \in 1 .. Len(old) : i \in 1 .. Len(new)
    BY <1>0, <1>1
  <1>4. id \in { new[i] : i \in 1 .. Len(new) }
    BY <1>1, <1>3
  <1>5. \A i \in 1 .. Len(old) : old[i] \in { new[j] : j \in 1 .. Len(new) }
    BY <1>1, <1>3
  <1> QED
    BY <1>2, <1>4, <1>5

\* ... and each of them once, if it was not there before.
LEMMA AppendDistinct ==
  ASSUME NEW old \in Seq(Nat), NEW id \in Nat, NEW new \in Seq(Nat), new = Append(old, id),
         \A i, j \in 1 .. Len(old) : old[i] = old[j] => i = j,
         \A i \in 1 .. Len(old) : old[i] # id
  PROVE  \A i, j \in 1 .. Len(new) : new[i] = new[j] => i = j
  <1>1. /\ Len(new) = Len(old) + 1 /\ new[Len(old) + 1] = id
        /\ \A i \in 1 .. Len(old) : new[i] = old[i]
        /\ \A i \in 1 .. Len(new) : i = Len(old) + 1 \/ i \in 1 .. Len(old)
    BY AppendIds
  <1>2. ASSUME NEW i \in 1 .. Len(new), NEW j \in 1 .. Len(new), new[i] = new[j]
        PROVE  i = j
    BY <1>1, <1>2
  <1> QED
    BY <1>2

\* Every step keeps the ids that are drawn, stored and sent apart.
LEMMA StepIds ==
  LiveFeedTypes /\ IdBooks /\ [Next]_vars => IdBooks'
  <1> SUFFICES ASSUME LiveFeedTypes, IdBooks, [Next]_vars
               PROVE  IdBooks'
    OBVIOUS
  <1> USE DEF pages, server
  <1>0. /\ Len(sent) \in Nat /\ sent \in Seq(Nat) /\ log \in Seq(Nat) /\ Len(log) \in Nat
        /\ counter \in Nat
    BY LenProperties DEF LiveFeedTypes
  <1>w. \A w \in Writers : /\ writer[w].pc \in {"idle", "reserved", "stored"}
                           /\ writer[w] = [pc |-> writer[w].pc, id |-> writer[w].id]
    BY DEF LiveFeedTypes
  <1>1. ASSUME NEW w \in Writers, ReserveId(w)
        PROVE  IdBooks'
    <2>1. /\ writer' = [writer EXCEPT ![w] = [pc |-> "reserved", id |-> counter]]
          /\ counter' = counter + 1 /\ log' = log /\ sent' = sent /\ writer[w].pc = "idle"
      BY <1>1 DEF ReserveId, Idle
    <2>2. /\ writer'[w] = [pc |-> "reserved", id |-> counter]
          /\ \A v \in Writers : v # w => writer'[v] = writer[v]
      BY <2>1 DEF LiveFeedTypes
    <2>3. Sent' = Sent /\ counter \notin Sent
      BY <1>0, <2>1 DEF Sent, IdBooks
    <2>4. Stored \subseteq Stored'
      BY <2>1, <2>2 DEF Stored
    <2>5. ASSUME NEW v \in Writers, writer'[v].pc # "idle"
          PROVE  /\ writer'[v].id \in Nat /\ writer'[v].id < counter'
                 /\ writer'[v].id \notin Sent'
                 /\ \A x \in Writers :
                      writer'[x].pc # "idle" /\ writer'[x].id = writer'[v].id => x = v
      BY <1>0, <2>1, <2>2, <2>3, <2>5 DEF IdBooks
    <2>6. \A p \in 1 .. Len(sent) : sent[p] < counter'
      <3>1. \A p \in 1 .. Len(sent) : sent[p] \in Nat
        BY <1>0, ElementOfSeq
      <3> QED
        BY <1>0, <2>1, <3>1 DEF IdBooks
    <2> QED
      BY <2>1, <2>3, <2>4, <2>5, <2>6 DEF IdBooks
  <1>2. ASSUME NEW w \in Writers, Store(w)
        PROVE  IdBooks'
    <2>1. PICK id \in Nat : id = writer[w].id
      BY <1>2, WriterHasId DEF Store
    <2>2. /\ writer' = [writer EXCEPT ![w].pc = "stored"] /\ writer[w].pc = "reserved"
          /\ counter' = counter /\ sent' = sent /\ Sent' = Sent
      BY <1>2 DEF Store, Sent
    <2>3. /\ writer'[w].pc = "stored" /\ writer'[w].id = id
          /\ \A v \in Writers : v # w => writer'[v] = writer[v]
      BY <2>1, <2>2 DEF LiveFeedTypes
    <2>4. Stored' = Stored \cup {id}
      BY <2>2, <2>3 DEF Stored
    <2>5. ASSUME NEW v \in Writers, writer'[v].pc # "idle"
          PROVE  /\ writer'[v].id \in Nat /\ writer'[v].id < counter'
                 /\ writer'[v].id \notin Sent'
                 /\ \A x \in Writers :
                      writer'[x].pc # "idle" /\ writer'[x].id = writer'[v].id => x = v
      <3>1. \A x \in Writers : writer'[x].id = writer[x].id
                               /\ (writer'[x].pc # "idle" <=> writer[x].pc # "idle")
        BY <2>1, <2>2, <2>3
      <3> QED
        BY <2>2, <2>5, <3>1 DEF IdBooks
    <2>6. id \notin Sent \cup Stored
      BY <2>1, <2>2 DEF IdBooks, Stored
    <2>7. PICK more \in Seq(Nat) : more = Append(log, id)
      BY <1>0, AppendProperties
    <2>8. /\ Len(more) = Len(log) + 1 /\ more[Len(log) + 1] = id
          /\ \A i \in 1 .. Len(log) : more[i] = log[i]
          /\ \A i \in 1 .. Len(more) : i = Len(log) + 1 \/ i \in 1 .. Len(log)
      BY <1>0, <2>7, AppendIds
    <2>a. \A i \in 1 .. Len(log) : log[i] \in Sent \cup Stored
      BY DEF IdBooks
    <2>9. \A i \in 1 .. Len(more) : more[i] \in Sent' \cup Stored'
      BY <2>2, <2>4, <2>8, <2>a
    <2>10. \A i, j \in 1 .. Len(more) : more[i] = more[j] => i = j
      <3>1. /\ \A i \in 1 .. Len(log) : log[i] # id
            /\ \A i, j \in 1 .. Len(log) : log[i] = log[j] => i = j
        BY <2>6, <2>a DEF IdBooks
      <3> QED
        BY <1>0, <2>7, <3>1, AppendDistinct
    <2>11. log' = IF Capacity = None THEN more ELSE KeepLast(more, Capacity)
      BY <1>2, <2>1, <2>7 DEF Store
    <2>12. /\ \A i \in 1 .. Len(log') : log'[i] \in Sent' \cup Stored'
           /\ \A i, j \in 1 .. Len(log') : log'[i] = log'[j] => i = j
      <3>1. CASE Capacity = None
        BY <2>9, <2>10, <2>11, <3>1
      <3>2. CASE Capacity # None
        <4>1. log' = KeepLast(more, Capacity) /\ Capacity \in Nat
          BY <2>11, <3>2, SizesAssumption
        <4>2. log' \in Seq(Nat)
          BY <4>1, KeepLastIsSuffix
        <4>3. PICK d \in 0 .. Len(more) :
                /\ Len(log') = Len(more) - d
                /\ \A i \in 1 .. Len(more) - d : log'[i] = more[i + d]
          BY <4>1, KeepLastIsSuffix
        <4>4. PICK new \in Seq(Nat) : new = log'
          BY <4>2
        <4>5. PICK S : S = Sent' \cup Stored'
          OBVIOUS
        <4>6. /\ Len(new) = Len(more) - d
              /\ \A i \in 1 .. Len(more) - d : new[i] = more[i + d]
              /\ \A i \in 1 .. Len(more) : more[i] \in S
          BY <2>9, <4>3, <4>4, <4>5
        <4>7. /\ \A i \in 1 .. Len(new) : new[i] \in S
              /\ \A i, j \in 1 .. Len(new) : new[i] = new[j] => i = j
          BY <2>10, <4>6, SuffixIds
        <4>8. \A i \in 1 .. Len(log') : log'[i] \in S
          BY <4>4, <4>7
        <4>9. \A i, j \in 1 .. Len(log') : log'[i] = log'[j] => i = j
          BY <4>4, <4>7
        <4> QED
          BY <4>5, <4>8, <4>9
      <3> QED
        BY <3>1, <3>2
    <2> QED
      BY <2>2, <2>5, <2>12 DEF IdBooks
  <1>3. ASSUME NEW w \in Writers, Broadcast(w)
        PROVE  IdBooks'
    <2>1. PICK id \in Nat : id = writer[w].id
      BY <1>3, WriterHasId DEF Broadcast
    <2>2. /\ writer' = [writer EXCEPT ![w] = Idle] /\ writer[w].pc = "stored"
          /\ counter' = counter /\ log' = log
      BY <1>3 DEF Broadcast
    <2>3. PICK more \in Seq(Nat) : more = Append(sent, id)
      BY <1>0, AppendProperties
    <2>4. /\ \A p \in 1 .. Len(sent) : more[p] = sent[p]
          /\ \A p \in 1 .. Len(more) : p = Len(sent) + 1 \/ p \in 1 .. Len(sent)
          /\ more[Len(sent) + 1] = id
          /\ { more[p] : p \in 1 .. Len(more) } = { sent[p] : p \in 1 .. Len(sent) } \cup {id}
      <3>1. /\ \A p \in 1 .. Len(sent) : more[p] = sent[p]
            /\ \A p \in 1 .. Len(more) : p = Len(sent) + 1 \/ p \in 1 .. Len(sent)
            /\ more[Len(sent) + 1] = id
        BY <1>0, <2>3, AppendIds
      <3>2. { more[p] : p \in 1 .. Len(more) } = { sent[p] : p \in 1 .. Len(sent) } \cup {id}
        BY <1>0, <2>3, AppendImage, SMTT(30)
      <3> QED
        BY <3>1, <3>2
    <2>5. sent' = more
      BY <1>3, <2>1, <2>3 DEF Broadcast
    <2>6. Sent' = Sent \cup {id}
      BY <2>4, <2>5 DEF Sent
    <2>7. /\ writer'[w].pc = "idle"
          /\ \A v \in Writers : v # w => writer'[v] = writer[v]
      BY <2>2 DEF Idle, LiveFeedTypes
    <2>8. Stored \subseteq Stored' \cup {id}
      BY <2>1, <2>7 DEF Stored
    <2>9. ASSUME NEW v \in Writers, writer'[v].pc # "idle"
          PROVE  /\ writer'[v].id \in Nat /\ writer'[v].id < counter'
                 /\ writer'[v].id \notin Sent'
                 /\ \A x \in Writers :
                      writer'[x].pc # "idle" /\ writer'[x].id = writer'[v].id => x = v
      BY <2>1, <2>2, <2>6, <2>7, <2>9 DEF IdBooks
    <2>10. id \notin Sent /\ id < counter
      BY <2>1, <2>2 DEF IdBooks
    <2>11. \A p \in 1 .. Len(more) : more[p] < counter'
      <3>1. \A p \in 1 .. Len(sent) : sent[p] < counter
        BY DEF IdBooks
      <3> QED
        BY <2>2, <2>4, <2>10, <3>1
    <2>12. \A p, q \in 1 .. Len(more) : more[p] = more[q] => p = q
      <3>1. /\ \A p \in 1 .. Len(sent) : sent[p] # id
            /\ \A p, q \in 1 .. Len(sent) : sent[p] = sent[q] => p = q
        BY <2>10 DEF IdBooks, Sent
      <3>2. PICK old \in Seq(Nat) : old = sent
        BY <1>0
      <3>3. /\ \A p \in 1 .. Len(old) : old[p] # id
            /\ \A p, q \in 1 .. Len(old) : old[p] = old[q] => p = q
        BY <3>1, <3>2
      <3>4. more = Append(old, id)
        BY <2>3, <3>2
      <3> QED
        BY <3>3, <3>4, AppendDistinct
    <2>13. \A i \in 1 .. Len(log') : log'[i] \in Sent' \cup Stored'
      BY <2>2, <2>6, <2>8 DEF IdBooks
    <2>14. \A i, j \in 1 .. Len(log') : log'[i] = log'[j] => i = j
      BY <2>2 DEF IdBooks
    <2> QED
      BY <2>5, <2>9, <2>11, <2>12, <2>13, <2>14 DEF IdBooks
  <1>4. CASE ResetCaptured
    <2>1. Len(<<>>) = 0
      BY EmptySeq
    <2>2. log' = <<>> /\ counter' = counter /\ writer' = writer /\ sent' = sent
      BY <1>4 DEF ResetCaptured
    <2> QED
      BY <2>1, <2>2 DEF IdBooks, Sent, Stored
  <1>5. ASSUME UNCHANGED server
        PROVE  IdBooks'
    BY <1>5 DEF IdBooks, Sent, Stored
  <1> QED
    BY <1>1, <1>2, <1>3, <1>4, <1>5 DEF Next, get_meta, get_requests, event_stream, SendLagged,
       SendEvent, Receive, Disconnect, vars

-----------------------------------------------------------------------------
(* Fresh and FeedBooks.                                                    *)

\* No items span no places.
LEMMA PlacedNone ==
  ASSUME NEW start \in Nat, NEW events
  PROVE  Placed(<<>>, start, start, events)
  <1>1. Len(<<>>) = 0
    BY EmptySeq
  <1> QED
    BY <1>1, SizesOfNone DEF Placed

\* A prefix of a sequence is a sequence.
LEMMA PrefixExists ==
  ASSUME NEW seq \in Seq(Item), NEW n \in 0 .. Len(seq)
  PROVE  \E a \in Seq(Item) :
            a = SubSeq(seq, 1, n) /\ Len(a) = n /\ \A i \in 1 .. n : a[i] = seq[i]
  <1>0. Len(seq) \in Nat /\ n \in Int /\ 1 \in Int /\ \A i \in 1 .. n : seq[i] \in Item
    BY LenProperties, ElementOfSeq
  <1>1. SubSeq(seq, 1, n) \in Seq(Item)
    BY <1>0, SubSeqProperties
  <1>2. PICK a \in Seq(Item) : a = SubSeq(seq, 1, n)
    BY <1>1
  <1>3. Len(a) = IF 1 <= n THEN n - 1 + 1 ELSE 0
    BY <1>0, <1>2, SubSeqProperties
  <1>4. \A i \in 1 .. n - 1 + 1 : a[i] = seq[1 + i - 1]
    BY <1>0, <1>2, SubSeqProperties
  <1>5. Len(a) = n /\ \A i \in 1 .. n : a[i] = seq[i]
    BY <1>0, <1>3, <1>4
  <1> QED
    BY <1>2, <1>5

\* One more item, of the events that come next.
LEMMA PlacedMore ==
  ASSUME NEW items \in Seq(Item), NEW item \in Item, NEW more \in Seq(Item),
         more = Append(items, item),
         NEW start \in Nat, NEW end \in Nat, NEW events \in Seq(Nat),
         Placed(items, start, end, events),
         item.kind = "event" => end \in 1 .. Len(events) /\ item.id = events[end]
  PROVE  Placed(more, start, end + item.size, events)
  <1>0. Len(items) \in Nat
    BY LenProperties
  <1>1. /\ Len(more) = Len(items) + 1 /\ more[Len(items) + 1] = item
        /\ \A i \in 1 .. Len(items) : more[i] = items[i]
    BY AppendProperties
  <1>2. Sizes(items) \in Nat /\ Sizes(more) = Sizes(items) + item.size /\ item.size \in Nat
    BY SizesOfAppend DEF Item
  <1>3. start + Sizes(items) = end
    BY DEF Placed
  <1>4. ASSUME NEW n \in 0 .. Len(items)
        PROVE  SubSeq(more, 1, n) = SubSeq(items, 1, n)
    <2>1. \A i \in 1 .. n : more[i] \in Item /\ items[i] \in Item /\ more[i] = items[i]
      BY <1>0, <1>1, ElementOfSeq
    <2>2. n \in 0 .. Len(more)
      BY <1>0, <1>1
    <2>3. PICK a \in Seq(Item) :
            a = SubSeq(more, 1, n) /\ Len(a) = n /\ \A i \in 1 .. n : a[i] = more[i]
      BY <2>2, PrefixExists, Zenon
    <2>4. PICK b \in Seq(Item) :
            b = SubSeq(items, 1, n) /\ Len(b) = n /\ \A i \in 1 .. n : b[i] = items[i]
      BY PrefixExists, Zenon
    <2>7. a = b
      BY <2>1, <2>3, <2>4, SeqEqual
    <2> QED
      BY <2>3, <2>4, <2>7
  <1>5. ASSUME NEW i \in 1 .. Len(more), more[i].kind = "event"
        PROVE  /\ start + Sizes(SubSeq(more, 1, i - 1)) \in 1 .. Len(events)
               /\ more[i].id = events[start + Sizes(SubSeq(more, 1, i - 1))]
    <2>1. SubSeq(more, 1, i - 1) = SubSeq(items, 1, i - 1)
      BY <1>0, <1>1, <1>4
    <2>2. CASE i = Len(items) + 1
      <3>1. SubSeq(items, 1, i - 1) = items
        BY <1>0, <2>2, SubSeqFull
      <3> QED
        BY <1>1, <1>3, <1>5, <2>1, <2>2, <3>1
    <2>3. CASE i \in 1 .. Len(items)
      BY <1>1, <1>5, <2>1, <2>3 DEF Placed
    <2> QED
      BY <1>0, <1>1, <2>2, <2>3
  <1>6. start + Sizes(more) = end + item.size
    BY <1>2, <1>3
  <1> QED
    BY <1>5, <1>6, Zenon DEF Placed

\* The page is not connected at the start.
LEMMA InitFeed == Init => Fresh /\ FeedBooks
  BY DEF Init, Fresh, FeedBooks

\* A page that is not connected has heard nothing: every step keeps it so.
LEMMA StepFresh == Fresh /\ [Next]_vars => Fresh'
  <1> SUFFICES ASSUME Fresh, [Next]_vars PROVE Fresh'
    OBVIOUS
  <1> USE DEF pages, server, Fresh
  <1>1. ASSUME NEW w \in Writers, ReserveId(w) \/ Store(w) \/ Broadcast(w)
        PROVE  Fresh'
    BY <1>1 DEF ReserveId, Store, Broadcast
  <1>2. CASE ResetCaptured \/ get_meta \/ get_requests
    BY <1>2 DEF ResetCaptured, get_meta, get_requests
  <1>3. CASE event_stream \/ SendLagged \/ SendEvent \/ Receive \/ Disconnect
    BY <1>3 DEF event_stream, SendLagged, SendEvent, Receive, Disconnect
  <1>4. CASE UNCHANGED vars
    BY <1>4 DEF vars
  <1> QED
    BY <1>1, <1>2, <1>3, <1>4 DEF Next

\* An item that is put on the wire is the last of all.
LEMMA WireAppend ==
  ASSUME NEW h \in Seq(Item), NEW r \in Seq(Item), NEW item \in Item
  PROVE  h \o Append(r, item) = Append(h \o r, item)
  <1>1. Append(r, item) = r \o <<item>> /\ Append(h \o r, item) = (h \o r) \o <<item>>
    <2>1. h \o r \in Seq(Item)
      BY ConcatProperties
    <2> QED
      BY <2>1, AppendIsConcat
  <1>2. <<item>> \in Seq(Item)
    OBVIOUS
  <1> QED
    BY <1>1, <1>2, ConcatAssociative

\* One that is taken off it is the next that is heard.
LEMMA WireTake ==
  ASSUME NEW h \in Seq(Item), NEW r \in Seq(Item), r # <<>>
  PROVE  Append(h, Head(r)) \o Tail(r) = h \o r
  <1>1. Head(r) \in Item /\ Tail(r) \in Seq(Item) /\ <<Head(r)>> \in Seq(Item)
    BY HeadTailProperties
  <1>2. Append(h, Head(r)) = h \o <<Head(r)>>
    BY <1>1, AppendIsConcat
  <1>3. <<Head(r)>> \o Tail(r) = r
    <2>1. PICK a \in Seq(Item) : a = <<Head(r)>>
      BY <1>1
    <2>2. PICK b \in Seq(Item) : b = Tail(r)
      BY <1>1
    <2>3. Len(a) = 1 /\ a[1] = Head(r) /\ Head(r) = r[1]
      BY <2>1
    <2>4. Len(r) \in Nat /\ Len(b) = Len(r) - 1 /\ \A i \in 1 .. Len(b) : b[i] = r[i + 1]
      BY <2>2, HeadTailProperties, LenProperties
    <2>5. PICK c \in Seq(Item) : c = a \o b
      BY ConcatProperties
    <2>8. /\ Len(c) = Len(a) + Len(b)
          /\ \A i \in 1 .. Len(a) + Len(b) :
               c[i] = IF i <= Len(a) THEN a[i] ELSE b[i - Len(a)]
      BY <2>5, ConcatProperties
    <2>6. Len(c) = Len(r) /\ \A i \in 1 .. Len(c) : c[i] = r[i]
      <3>1. Len(c) = Len(r)
        BY <2>3, <2>4, <2>8
      <3>2. ASSUME NEW i \in 1 .. Len(c)
            PROVE  c[i] = r[i]
        <4>1. CASE i = 1
          BY <2>3, <2>4, <2>8, <4>1
        <4>2. CASE i # 1
          <5>1. i - 1 \in 1 .. Len(b) /\ ~(i <= Len(a)) /\ i \in 1 .. Len(a) + Len(b)
            BY <2>3, <2>4, <3>1, <4>2
          <5>2. c[i] = b[i - 1] /\ b[i - 1] = r[i - 1 + 1]
            BY <2>3, <2>4, <2>8, <5>1
          <5> QED
            BY <5>2
        <4> QED
          BY <4>1, <4>2
      <3> QED
        BY <3>1, <3>2
    <2>7. c = r
      BY <2>6, SeqEqual
    <2> QED
      BY <2>1, <2>2, <2>5, <2>7
  <1> QED
    BY <1>1, <1>2, <1>3, ConcatAssociative

\* Every step keeps the items at the places of the events they stand for.
LEMMA StepFeed ==
  LiveFeedTypes /\ Fresh /\ IdBooks /\ FeedBooks /\ [Next]_vars => FeedBooks'
  <1> SUFFICES ASSUME LiveFeedTypes, Fresh, IdBooks, FeedBooks, [Next]_vars
               PROVE  FeedBooks'
    OBVIOUS
  <1> USE DEF pages, server
  <1>0. /\ sent \in Seq(Nat) /\ Len(sent) \in Nat /\ since \in Nat /\ pos \in Nat
        /\ heard \in Seq(Item) /\ wire \in Seq(Item)
    BY LenProperties DEF LiveFeedTypes
  <1>1. PICK items \in Seq(Item) : items = heard \o wire
    BY <1>0, ConcatProperties
  <1>2. phase = "live" => Placed(items, since, pos, sent)
    BY <1>1 DEF FeedBooks
  <1>3. ASSUME UNCHANGED <<sent, phase, since, pos, wire, heard>>
        PROVE  FeedBooks'
    BY <1>3 DEF FeedBooks
  <1>4. ASSUME NEW w \in Writers, Broadcast(w)
        PROVE  FeedBooks'
    <2>1. PICK id \in Nat : id = writer[w].id
      BY <1>4, WriterHasId DEF Broadcast
    <2>2. PICK more \in Seq(Nat) : more = Append(sent, id)
      BY <1>0, AppendProperties
    <2>3. Len(more) = Len(sent) + 1 /\ \A p \in 1 .. Len(sent) : more[p] = sent[p]
      BY <1>0, <2>2, AppendProperties
    <2>4. Placed(items, since, pos, sent) => Placed(items, since, pos, more)
      <3>1. \A p \in 1 .. Len(sent) : p \in 1 .. Len(more) /\ more[p] = sent[p]
        BY <1>0, <2>3
      <3> QED
        BY <3>1 DEF Placed
    <2>5. sent' = more /\ UNCHANGED <<phase, since, pos, wire, heard>>
      BY <1>4, <2>1, <2>2 DEF Broadcast
    <2> QED
      BY <1>1, <1>2, <2>4, <2>5 DEF FeedBooks
  <1>5. CASE event_stream
    <2>1. /\ heard' = <<>> /\ wire' = <<>> /\ sent' = sent
          /\ since' = Len(sent) + 1 /\ pos' = Len(sent) + 1
      BY <1>5 DEF event_stream, Fresh
    <2>2. <<>> \o <<>> = <<>>
      BY EmptySeq, ConcatEmptySeq
    <2>3. Placed(<<>>, Len(sent) + 1, Len(sent) + 1, sent)
      BY <1>0, PlacedNone
    <2> QED
      BY <2>1, <2>2, <2>3 DEF FeedBooks
  <1>6. ASSUME NEW item \in Item, wire' = Append(wire, item), pos' = pos + item.size,
               UNCHANGED <<sent, phase, since, heard>>, phase = "live",
               item.kind = "event" => pos \in 1 .. Len(sent) /\ item.id = sent[pos]
        PROVE  FeedBooks'
    <2>1. PICK more \in Seq(Item) : more = Append(items, item)
      BY AppendProperties
    <2>2. heard' \o wire' = more
      BY <1>0, <1>1, <1>6, <2>1, WireAppend
    <2>3. Placed(more, since, pos + item.size, sent)
      BY <1>0, <1>2, <1>6, <2>1, PlacedMore
    <2> QED
      BY <1>6, <2>2, <2>3 DEF FeedBooks
  <1>7. CASE SendLagged
    <2>1. Oldest \in Nat /\ Oldest - pos \in Nat
      BY <1>0, <1>7, OldestIsPlace DEF SendLagged
    <2>2. PICK item \in Item : item = Lagged(Oldest - pos)
      BY <2>1 DEF Lagged, Item
    <2>3. item.kind # "event" /\ item.size = Oldest - pos
      BY <2>2 DEF Lagged
    <2>4. pos + item.size = Oldest
      BY <1>0, <2>1, <2>3
    <2> QED
      BY <1>6, <1>7, <2>2, <2>3, <2>4 DEF SendLagged
  <1>8. CASE SendEvent
    <2>1. pos \in 1 .. Len(sent)
      BY <1>0, <1>8, OldestIsPlace DEF SendEvent
    <2>2. sent[pos] \in Nat
      BY <1>0, <2>1, ElementOfSeq
    <2>3. PICK item \in Item : item = Shown(sent[pos])
      BY <2>2 DEF Shown, Item
    <2>4. item.size = 1 /\ item.id = sent[pos]
      BY <2>3 DEF Shown
    <2> QED
      BY <1>6, <1>8, <2>1, <2>3, <2>4 DEF SendEvent
  <1>9. CASE Receive
    <2>1. heard' \o wire' = heard \o wire
      BY <1>0, <1>9, WireTake DEF Receive
    <2>2. UNCHANGED <<sent, phase, since, pos>>
      BY <1>9 DEF Receive
    <2> QED
      BY <2>1, <2>2 DEF FeedBooks
  <1>10. ASSUME phase' # "live"
         PROVE  FeedBooks'
    BY <1>10 DEF FeedBooks
  <1>11. ASSUME NEW w \in Writers, ReserveId(w) \/ Store(w)
         PROVE  FeedBooks'
    BY <1>3, <1>11 DEF ReserveId, Store
  <1>12. CASE ResetCaptured \/ UNCHANGED vars
    BY <1>3, <1>12 DEF ResetCaptured, vars
  <1>13. CASE get_meta \/ get_requests \/ Disconnect
    BY <1>10, <1>13 DEF get_meta, get_requests, Disconnect
  <1> QED
    BY <1>4, <1>5, <1>7, <1>8, <1>9, <1>11, <1>12, <1>13 DEF Next

-----------------------------------------------------------------------------
(* RowBooks.                                                               *)

\* The page has no rows at the start.
LEMMA InitRows == Init => RowBooks
  <1> SUFFICES ASSUME Init PROVE RowBooks
    OBVIOUS
  <1>1. Len(<<>>) = 0
    BY EmptySeq
  <1>2. Split(0) /\ 0 \in 0 .. Len(rows)
    BY <1>1 DEF Init, Split
  <1>3. OnWire = {}
    BY <1>1 DEF Init, OnWire, EventIds
  <1> QED
    BY <1>1, <1>2, <1>3 DEF Init, RowBooks, EachOnce

\* The steps that do not touch the rows, and take nothing back from Past.
LEMMA RowsStay ==
  ASSUME RowBooks, UNCHANGED <<rows, between>>, Past \ OnWire \subseteq Past' \ OnWire',
         OnWire' \subseteq Past', EachOnce(wire')
  PROVE  RowBooks'
  <1>1. PICK k \in 0 .. Len(rows) : Split(k)
    BY DEF RowBooks
  <1>2. Split(k)'
    BY <1>1 DEF Split
  <1> QED
    BY <1>2 DEF RowBooks

\* A row more: the oldest may have to go.
LEMMA RowMore ==
  ASSUME LiveFeedTypes, RowBooks, NEW id \in Nat, id \notin Past \ OnWire,
         rows' = KeepLast(Append(rows, id), maxRows), between' = between,
         Past' = Past, OnWire' \cup {id} = OnWire, id \notin OnWire', id \in Past
  PROVE  \E k \in 0 .. Len(rows') : Split(k)'
  <1>1. PICK k \in 0 .. Len(rows) : Split(k)
    BY DEF RowBooks
  <1>2. PICK more \in Seq(Nat) : more = Append(rows, id)
    BY AppendProperties DEF LiveFeedTypes
  <1>3. /\ Len(rows) \in Nat /\ Len(more) = Len(rows) + 1 /\ more[Len(rows) + 1] = id
        /\ \A i \in 1 .. Len(rows) : more[i] = rows[i]
    BY <1>2, AppendProperties, LenProperties DEF LiveFeedTypes
  <1>4. rows' = KeepLast(more, maxRows) /\ maxRows \in Nat
    BY <1>2 DEF LiveFeedTypes
  <1>5. PICK d \in 0 .. Len(more) :
          /\ Len(rows') = Len(more) - d
          /\ \A i \in 1 .. Len(more) - d : rows'[i] = more[i + d]
    <2>1. PICK n \in Nat : n = maxRows
      BY <1>4
    <2>2. \E d \in 0 .. Len(more) :
            /\ Len(KeepLast(more, n)) = Len(more) - d
            /\ \A i \in 1 .. Len(more) - d : KeepLast(more, n)[i] = more[i + d]
      BY KeepLastIsSuffix, ZenonT(40)
    <2>3. rows' = KeepLast(more, n)
      BY <1>4, <2>1
    <2> QED
      BY <2>2, <2>3, Zenon
  <1>6. PICK done, done2 : done = Past \ OnWire /\ done2 = Past' \ OnWire'
    OBVIOUS
  <1>7. done2 = done \cup {id} /\ id \notin done
    BY <1>6
  <1>8. \A i \in 1 .. k : more[i] \in between \cup done
    <2>1. \A i \in 1 .. k : rows[i] \in between \cup done
      BY <1>1, <1>6 DEF Split
    <2>2. \A i \in 1 .. k : i \in 1 .. Len(rows)
      BY <1>3
    <2> QED
      BY <1>3, <2>1, <2>2
  <1>9. \A i \in k + 1 .. Len(more) : more[i] \in done2
    <2>1. \A i \in k + 1 .. Len(rows) : more[i] \in done
      BY <1>1, <1>3, <1>6 DEF Split
    <2> QED
      BY <1>3, <1>7, <2>1
  <1>10. ASSUME NEW i \in 1 .. Len(more), NEW j \in 1 .. Len(more), i < j, more[i] = more[j]
         PROVE  i <= k /\ k < j /\ more[i] \in between
    <2>1. CASE j = Len(rows) + 1
      <3>1. i \in 1 .. Len(rows) /\ more[i] \notin done
        BY <1>3, <1>7, <1>10, <2>1
      <3>2. \A n \in k + 1 .. Len(rows) : more[n] \in done
        BY <1>1, <1>3, <1>6 DEF Split
      <3>3. i <= k
        BY <1>3, <3>1, <3>2
      <3>4. k < j
        BY <1>3, <2>1
      <3>5. more[i] \in between \cup done
        BY <1>8, <3>3
      <3> QED
        BY <3>1, <3>3, <3>4, <3>5
    <2>2. CASE j \in 1 .. Len(rows)
      <3>1. i \in 1 .. Len(rows) /\ rows[i] = rows[j]
        BY <1>3, <1>10, <2>2
      <3> QED
        BY <1>1, <1>3, <1>10, <2>2, <3>1 DEF Split
    <2> QED
      BY <1>3, <1>10, <2>1, <2>2
  <1>11. PICK m \in 0 .. Len(rows') : m = IF k <= d THEN 0 ELSE k - d
    <2>1. (IF k <= d THEN 0 ELSE k - d) \in 0 .. Len(more) - d
      BY <1>3
    <2> QED
      BY <1>5, <2>1
  <1>12. \A i \in 1 .. Len(rows') : i + d \in 1 .. Len(more) /\ rows'[i] = more[i + d]
    BY <1>3, <1>5
  <1>13. \A i \in 1 .. m : rows'[i] \in between \cup done2
    <2>1. \A i \in 1 .. m : i + d \in 1 .. k /\ i \in 1 .. Len(rows')
      BY <1>3, <1>5, <1>11
    <2> QED
      BY <1>7, <1>8, <1>12, <2>1
  <1>14. \A i \in m + 1 .. Len(rows') : rows'[i] \in done2
    <2>1. \A i \in m + 1 .. Len(rows') : i + d \in k + 1 .. Len(more) /\ i \in 1 .. Len(rows')
      BY <1>3, <1>5, <1>11
    <2> QED
      BY <1>9, <1>12, <2>1
  <1>15. ASSUME NEW i \in 1 .. Len(rows'), NEW j \in 1 .. Len(rows'), i < j,
                rows'[i] = rows'[j]
         PROVE  i <= m /\ m < j /\ rows'[i] \in between
    <2>1. i + d <= k /\ k < j + d /\ more[i + d] \in between
      BY <1>3, <1>5, <1>10, <1>12, <1>15
    <2>2. rows'[i] \in between
      BY <1>12, <2>1
    <2>3. k \in Int /\ d \in Int /\ i \in Nat /\ 1 <= i /\ j \in Int /\ i + d <= k /\ k < j + d
      BY <1>3, <1>5, <2>1
    <2>4. ~(k <= d)
      BY <2>3
    <2>5. m = k - d
      BY <1>11, <2>4
    <2>6. i <= m /\ m < j
      BY <2>3, <2>5
    <2> QED
      BY <2>2, <2>6
  <1>16. Split(m)'
    <2>1. \A i \in 1 .. m : rows'[i] \in between' \cup (Past' \ OnWire')
      BY <1>6, <1>13
    <2>2. \A i \in m + 1 .. Len(rows') : rows'[i] \in Past' \ OnWire'
      BY <1>6, <1>14
    <2>3. \A i, j \in 1 .. Len(rows') :
            i < j /\ rows'[i] = rows'[j] => i <= m /\ m < j /\ rows'[i] \in between'
      BY <1>15
    <2> QED
      BY <2>1, <2>2, <2>3 DEF Split
  <1> QED
    BY <1>16

\* An item more, and the events in the items.
LEMMA EventsMore ==
  ASSUME NEW items \in Seq(Item), NEW item \in Item, NEW more, more = Append(items, item)
  PROVE  /\ EventIds(more) =
              EventIds(items) \cup (IF item.kind = "event" THEN {item.id} ELSE {})
         /\ EachOnce(items) /\ (item.kind = "event" => item.id \notin EventIds(items))
              => EachOnce(more)
  <1>0. Len(items) \in Nat
    BY LenProperties
  <1>1. /\ Len(more) = Len(items) + 1 /\ more[Len(items) + 1] = item
        /\ \A i \in 1 .. Len(items) : more[i] = items[i]
    BY AppendProperties
  <1>2. /\ \A i \in 1 .. Len(more) : i = Len(items) + 1 \/ i \in 1 .. Len(items)
        /\ Len(items) + 1 \in 1 .. Len(more)
        /\ \A i \in 1 .. Len(items) : i \in 1 .. Len(more)
    BY <1>0, <1>1
  <1>3. \A x : x \in EventIds(more) <=>
                 x \in EventIds(items) \/ (item.kind = "event" /\ x = item.id)
    BY <1>1, <1>2 DEF EventIds
  <1>4. ASSUME EachOnce(items), item.kind = "event" => item.id \notin EventIds(items)
        PROVE  EachOnce(more)
    BY <1>1, <1>2, <1>4 DEF EachOnce, EventIds
  <1> QED
    BY <1>3, <1>4

\* The first item is taken off, and the event in it.
LEMMA EventsLess ==
  ASSUME NEW items \in Seq(Item), items # <<>>, NEW rest, rest = Tail(items),
         EachOnce(items)
  PROVE  /\ EachOnce(rest)
         /\ Head(items).kind = "event" =>
              /\ EventIds(items) = EventIds(rest) \cup {Head(items).id}
              /\ Head(items).id \notin EventIds(rest)
         /\ Head(items).kind # "event" => EventIds(rest) = EventIds(items)
  <1>0. Len(items) \in Nat \ {0} /\ Head(items) = items[1]
    BY EmptySeq
  <1>1. Len(rest) = Len(items) - 1 /\ \A i \in 1 .. Len(rest) : rest[i] = items[i + 1]
    BY HeadTailProperties
  <1>2. /\ \A i \in 1 .. Len(rest) : i + 1 \in 1 .. Len(items) /\ i + 1 # 1
        /\ \A i \in 1 .. Len(items) : i = 1 \/ (i - 1 \in 1 .. Len(rest) /\ (i - 1) + 1 = i)
        /\ 1 \in 1 .. Len(items)
    BY <1>0, <1>1
  <1>3. ASSUME NEW i \in 1 .. Len(rest), NEW j \in 1 .. Len(rest), rest[i].kind = "event",
               rest[j].kind = "event", rest[i].id = rest[j].id
        PROVE  i = j
    <2>1. i + 1 = j + 1
      BY <1>1, <1>2, <1>3 DEF EachOnce
    <2> QED
      BY <2>1
  <1>4. \A x \in EventIds(rest) : x \in EventIds(items)
    BY <1>1, <1>2 DEF EventIds
  <1>5. \A x \in EventIds(items) :
          x \in EventIds(rest) \/ (Head(items).kind = "event" /\ x = Head(items).id)
    <2> TAKE x \in EventIds(items)
    <2>1. PICK i \in 1 .. Len(items) : items[i].kind = "event" /\ x = items[i].id
      BY DEF EventIds
    <2>2. CASE i = 1
      BY <1>0, <2>1, <2>2
    <2>3. CASE i - 1 \in 1 .. Len(rest) /\ (i - 1) + 1 = i
      <3>1. rest[i - 1] = items[i]
        BY <1>1, <2>3
      <3> QED
        BY <2>1, <2>3, <3>1 DEF EventIds
    <2> QED
      BY <1>2, <2>2, <2>3
  <1>6. ASSUME Head(items).kind = "event"
        PROVE  Head(items).id \in EventIds(items) /\ Head(items).id \notin EventIds(rest)
    <2>1. items[1].kind = "event" /\ Head(items).id = items[1].id
      BY <1>0, <1>6
    <2>2. items[1].id \in EventIds(items)
      BY <1>2, <2>1 DEF EventIds
    <2>3. ASSUME NEW j \in 1 .. Len(rest), rest[j].kind = "event", rest[j].id = items[1].id
          PROVE  FALSE
      BY <1>1, <1>2, <2>1, <2>3 DEF EachOnce
    <2> QED
      BY <2>1, <2>2, <2>3 DEF EventIds
  <1>7. EachOnce(rest)
    BY <1>3 DEF EachOnce
  <1> QED
    BY <1>4, <1>5, <1>6, <1>7

\* Every step keeps the rows split in those fetched and those heard.
LEMMA StepRows ==
  LiveFeedTypes /\ Fresh /\ IdBooks /\ RowBooks /\ [Next]_vars => RowBooks'
  <1> SUFFICES ASSUME LiveFeedTypes, Fresh, IdBooks, RowBooks, [Next]_vars
               PROVE  RowBooks'
    OBVIOUS
  <1> USE DEF pages, server
  <1>0. /\ sent \in Seq(Nat) /\ Len(sent) \in Nat /\ pos \in 1 .. Len(sent) + 1
        /\ wire \in Seq(Item) /\ log \in Seq(Nat) /\ maxRows \in Nat
    BY LenProperties DEF LiveFeedTypes
  <1>1. OnWire \subseteq Past /\ EachOnce(wire)
    BY DEF RowBooks
  <1>2. ASSUME UNCHANGED <<rows, between, wire>>, Past \subseteq Past'
        PROVE  RowBooks'
    <2>1. OnWire' = OnWire
      BY <1>2 DEF OnWire
    <2> QED
      BY <1>1, <1>2, <2>1, RowsStay
  <1>3. ASSUME UNCHANGED <<rows, between, wire, sent, phase, pos>>
        PROVE  RowBooks'
    <2>1. Past' = Past
      BY <1>3 DEF Past
    <2> QED
      BY <1>2, <1>3, <2>1
  <1>4. ASSUME NEW w \in Writers, Broadcast(w)
        PROVE  RowBooks'
    <2>1. PICK id \in Nat : id = writer[w].id
      BY <1>4, WriterHasId DEF Broadcast
    <2>2. PICK more \in Seq(Nat) : more = Append(sent, id)
      BY <1>0, AppendProperties
    <2>3. Len(more) = Len(sent) + 1 /\ \A p \in 1 .. Len(sent) : more[p] = sent[p]
      BY <1>0, <2>2, AppendProperties
    <2>4. sent' = more /\ UNCHANGED <<phase, pos, wire, rows, between>>
      BY <1>4, <2>1, <2>2 DEF Broadcast
    <2>5. Past \subseteq Past'
      <3>1. CASE phase = "live"
        <4>1. \A p \in 1 .. pos - 1 : p \in 1 .. Len(sent)
          BY <1>0
        <4> QED
          BY <2>3, <2>4, <3>1, <4>1 DEF Past
      <3>2. CASE phase # "live"
        <4>1. \A p \in 1 .. Len(sent) : p \in 1 .. Len(more)
          BY <1>0, <2>3
        <4> QED
          BY <2>3, <2>4, <3>2, <4>1 DEF Past
      <3> QED
        BY <3>1, <3>2
    <2> QED
      BY <1>2, <2>4, <2>5
  <1>5. CASE get_requests
    <2>1. /\ phase # "live" /\ phase' # "live" /\ wire = <<>>
          /\ UNCHANGED <<sent, wire, pos>>
      BY <1>5 DEF get_requests, Fresh
    <2>2. Past = Sent /\ Past' = Sent /\ OnWire = {} /\ OnWire' = {}
      <3>1. Len(<<>>) = 0
        BY EmptySeq
      <3>2. OnWire = {} /\ OnWire' = {}
        BY <2>1, <3>1 DEF OnWire, EventIds
      <3> QED
        BY <2>1, <3>2 DEF Past, Sent
    <2>3. CASE UNCHANGED <<rows, between>>
      BY <1>2, <2>1, <2>2, <2>3
    <2>4. CASE rows' = KeepLast(log, maxRows) /\ between' = Stored
      <3>1. PICK new \in Seq(Nat) : new = KeepLast(log, maxRows)
        BY <1>0, KeepLastIsSuffix
      <3>2. PICK d \in 0 .. Len(log) :
              /\ Len(new) = Len(log) - d
              /\ \A i \in 1 .. Len(log) - d : new[i] = log[i + d]
        <4>1. \E d \in 0 .. Len(log) :
                /\ Len(KeepLast(log, maxRows)) = Len(log) - d
                /\ \A i \in 1 .. Len(log) - d : KeepLast(log, maxRows)[i] = log[i + d]
          BY <1>0, KeepLastIsSuffix
        <4> QED
          BY <3>1, <4>1
      <3>3. PICK S : S = Sent \cup Stored
        OBVIOUS
      <3>4. /\ \A i \in 1 .. Len(log) : log[i] \in S
            /\ \A i, j \in 1 .. Len(log) : log[i] = log[j] => i = j
        BY <3>3 DEF IdBooks
      <3>5. /\ \A i \in 1 .. Len(new) : new[i] \in S
            /\ \A i, j \in 1 .. Len(new) : new[i] = new[j] => i = j
        BY <1>0, <3>2, <3>4, SuffixIds
      <3>6. Len(new) \in Nat
        BY LenProperties
      <3>7. rows' = new
        BY <2>4, <3>1
      <3>8. Split(Len(new))'
        <4>1. \A i \in 1 .. Len(new) : new[i] \in between' \cup (Past' \ OnWire')
          BY <2>2, <2>4, <3>3, <3>5
        <4>2. \A i, j \in 1 .. Len(new) :
                i < j /\ new[i] = new[j] => i <= Len(new) /\ Len(new) < j /\ new[i] \in between'
          BY <3>5, <3>6
        <4>3. \A i \in Len(new) + 1 .. Len(new) : new[i] \in Past' \ OnWire'
          BY <3>6
        <4> QED
          BY <3>7, <4>1, <4>2, <4>3 DEF Split
      <3>9. EachOnce(wire') /\ OnWire' \subseteq Past'
        BY <1>1, <2>1, <2>2
      <3> QED
        BY <3>6, <3>7, <3>8, <3>9 DEF RowBooks
    <2> QED
      BY <1>5, <2>3, <2>4 DEF get_requests, Stored
  <1>6. CASE event_stream
    <2>1. /\ phase # "live" /\ phase' = "live" /\ pos' = Len(sent) + 1
          /\ UNCHANGED <<sent, wire, rows, between>>
      BY <1>6 DEF event_stream
    <2>2. Past' = Past
      BY <1>0, <2>1 DEF Past
    <2> QED
      BY <1>2, <2>1, <2>2
  <1>7. CASE SendLagged
    <2>1. /\ phase = "live" /\ phase' = "live" /\ pos' = Oldest /\ pos < Oldest
          /\ Oldest \in 1 .. Len(sent) + 1 /\ UNCHANGED <<sent, rows, between>>
      BY <1>7, OldestIsPlace DEF SendLagged
    <2>2. PICK item \in Item : item = Lagged(Oldest - pos)
      <3>1. Oldest - pos \in Nat
        BY <1>0, <2>1
      <3> QED
        BY <3>1 DEF Lagged, Item
    <2>3. wire' = Append(wire, item) /\ item.kind # "event"
      BY <1>7, <2>2 DEF SendLagged, Lagged
    <2>4. OnWire' = OnWire /\ EachOnce(wire')
      BY <1>0, <1>1, <2>3, EventsMore DEF OnWire
    <2>5. Past \subseteq Past'
      <3>1. \A p \in 1 .. pos - 1 : p \in 1 .. pos' - 1
        BY <1>0, <2>1
      <3> QED
        BY <2>1, <3>1 DEF Past
    <2> QED
      BY <1>1, <2>1, <2>4, <2>5, RowsStay
  <1>8. CASE SendEvent
    <2>1. /\ phase = "live" /\ phase' = "live" /\ pos' = pos + 1
          /\ pos \in 1 .. Len(sent) /\ UNCHANGED <<sent, rows, between>>
      BY <1>0, <1>8, OldestIsPlace DEF SendEvent
    <2>2. PICK id \in Nat : id = sent[pos]
      BY <1>0, <2>1, ElementOfSeq
    <2>3. PICK item \in Item : item = Shown(id)
      BY DEF Shown, Item
    <2>4. wire' = Append(wire, item) /\ item.kind = "event" /\ item.id = id
      BY <1>8, <2>2, <2>3 DEF SendEvent, Shown
    <2>5. Past' = Past \cup {id}
      <3>1. /\ \A p \in 1 .. pos' - 1 : p = pos \/ p \in 1 .. pos - 1
            /\ pos \in 1 .. pos' - 1 /\ \A p \in 1 .. pos - 1 : p \in 1 .. pos' - 1
        BY <1>0, <2>1
      <3> QED
        BY <2>1, <2>2, <3>1 DEF Past
    <2>6. id \notin Past
      <3>1. \A p \in 1 .. pos - 1 : p \in 1 .. Len(sent) /\ p # pos
        BY <1>0, <2>1
      <3> QED
        BY <2>1, <2>2, <3>1 DEF Past, IdBooks
    <2>7. OnWire' = OnWire \cup {id} /\ EachOnce(wire')
      BY <1>0, <1>1, <2>4, <2>6, EventsMore DEF OnWire
    <2> QED
      BY <1>1, <2>1, <2>5, <2>6, <2>7, RowsStay
  <1>9. CASE Receive
    <2>1. /\ wire # <<>> /\ wire' = Tail(wire) /\ between' = between
          /\ rows' = IF Head(wire).kind = "lagged" THEN rows
                     ELSE KeepLast(Append(rows, Head(wire).id), maxRows)
          /\ UNCHANGED <<sent, phase, pos>>
      BY <1>9 DEF Receive
    <2>2. Past' = Past
      BY <2>1 DEF Past
    <2>3. PICK item \in Item : item = Head(wire)
      BY <1>0, <2>1, HeadTailProperties
    <2>4. /\ EachOnce(wire')
          /\ item.kind = "event" => OnWire = OnWire' \cup {item.id} /\ item.id \notin OnWire'
          /\ item.kind # "event" => OnWire' = OnWire
      BY <1>0, <1>1, <2>1, <2>3, EventsLess DEF OnWire
    <2>5. CASE item.kind = "lagged"
      BY <1>1, <2>1, <2>2, <2>3, <2>4, <2>5, RowsStay
    <2>6. CASE item.kind = "event"
      <3>1. PICK id \in Nat : id = item.id
        BY <2>6 DEF Item
      <3>2. rows' = KeepLast(Append(rows, id), maxRows)
        BY <2>1, <2>3, <2>6, <3>1
      <3>3. id \in Past /\ id \notin Past \ OnWire /\ OnWire' \cup {id} = OnWire
            /\ id \notin OnWire'
        BY <1>1, <2>4, <2>6, <3>1
      <3>4. \E k \in 0 .. Len(rows') : Split(k)'
        BY <2>1, <2>2, <3>2, <3>3, RowMore
      <3> QED
        BY <1>1, <2>2, <2>4, <3>3, <3>4 DEF RowBooks
    <2> QED
      BY <2>5, <2>6 DEF Item
  <1>10. CASE Disconnect
    <2>1. phase = "live" /\ phase' # "live" /\ wire' = <<>> /\ UNCHANGED <<sent, rows, between>>
      BY <1>10 DEF Disconnect
    <2>2. Len(<<>>) = 0
      BY EmptySeq
    <2>3. OnWire' = {} /\ EachOnce(wire')
      BY <2>1, <2>2 DEF OnWire, EventIds, EachOnce
    <2>4. Past \subseteq Past'
      <3>1. \A p \in 1 .. pos - 1 : p \in 1 .. Len(sent)
        BY <1>0
      <3> QED
        BY <2>1, <3>1 DEF Past
    <2> QED
      BY <2>1, <2>3, <2>4, RowsStay
  <1>11. ASSUME NEW w \in Writers, ReserveId(w) \/ Store(w)
         PROVE  RowBooks'
    BY <1>3, <1>11 DEF ReserveId, Store
  <1>12. CASE ResetCaptured \/ UNCHANGED vars
    BY <1>3, <1>12 DEF ResetCaptured, vars
  <1>13. CASE get_meta
    <2>1. phase # "live" /\ phase' # "live" /\ UNCHANGED <<sent, wire, rows, between>>
      BY <1>13 DEF get_meta
    <2>2. Past' = Past
      BY <2>1 DEF Past
    <2> QED
      BY <1>2, <2>1, <2>2
  <1> QED
    BY <1>4, <1>5, <1>6, <1>7, <1>8, <1>9, <1>10, <1>11, <1>12, <1>13 DEF Next

-----------------------------------------------------------------------------
(* The theorems.                                                           *)

\* The invariant that the other theorems rest on.
THEOREM SpecLiveFeed == Spec => []LiveFeedIInv
  <1>1. Init => LiveFeedIInv
    BY InitTypes, InitFeed, InitIds, InitRows DEF LiveFeedIInv
  <1>2. LiveFeedIInv /\ [Next]_vars => LiveFeedIInv'
    BY StepTypes, StepFresh, StepFeed, StepIds, StepRows DEF LiveFeedIInv
  <1> QED
    BY <1>1, <1>2, PTL DEF Spec

\* No gap on a connection is silent (event_stream), for any number of captures,
\* any channel and however far the page falls behind.
THEOREM NoGapIsSilent == Spec => []GapsAreAnnounced
  <1>1. LiveFeedIInv => GapsAreAnnounced
    <2> SUFFICES ASSUME LiveFeedIInv, phase = "live"
                 PROVE  LET items == heard \o wire
                        IN  /\ since + Sizes(items) = pos
                            /\ \A i \in DOMAIN items :
                                 items[i].kind = "event" =>
                                   items[i].id = sent[since + Sizes(SubSeq(items, 1, i - 1))]
      BY DEF GapsAreAnnounced
    <2>1. heard \o wire \in Seq(Item)
      BY ConcatProperties DEF LiveFeedIInv, LiveFeedTypes
    <2>2. DOMAIN (heard \o wire) = 1 .. Len(heard \o wire)
      BY <2>1, LenProperties
    <2>3. Placed(heard \o wire, since, pos, sent)
      BY DEF LiveFeedIInv, FeedBooks
    <2> QED
      BY <2>2, <2>3, Zenon DEF Placed
  <1> QED
    BY <1>1, SpecLiveFeed, PTL

\* Two rows are two.
LEMMA PairHasTwo == ASSUME NEW a, NEW b, a # b
                    PROVE  Cardinality({a} \cup {b}) = 2
  <1> DEFINE one == {a}
  <1>1. IsFiniteSet(one) /\ Cardinality(one) = 1
    BY FS_Singleton
  <1>2. b \notin one
    OBVIOUS
  <1> HIDE DEF one
  <1>3. Cardinality(one \cup {b}) = Cardinality(one) + 1
    BY <1>1, <1>2, FS_AddElement
  <1>4. Cardinality(one \cup {b}) = 2
    BY <1>1, <1>3
  <1> QED
    BY <1>4 DEF one

\* A request has one row, or two if it was caught between its store and its
\* broadcast (push_captured, and the page's fetch before it subscribes), for
\* any log, any number of captures and of lost connections.
THEOREM OneRowEach == Spec => []RowsAreOnce
  <1>1. LiveFeedIInv => RowsAreOnce
    <2> SUFFICES ASSUME LiveFeedIInv, NEW id \in Range(rows)
                 PROVE  LET n == Cardinality({ i \in DOMAIN rows : rows[i] = id })
                        IN  n <= 2 /\ (n = 2 => id \in between)
      BY DEF RowsAreOnce
    <2> DEFINE Places == { i \in DOMAIN rows : rows[i] = id }
    <2>1. rows \in Seq(Nat) /\ Len(rows) \in Nat /\ DOMAIN rows = 1 .. Len(rows)
      BY LenProperties DEF LiveFeedIInv, LiveFeedTypes
    <2>2. PICK k \in 0 .. Len(rows) :
            \A i, j \in 1 .. Len(rows) :
              i < j /\ rows[i] = rows[j] => i <= k /\ k < j /\ rows[i] \in between
      BY DEF LiveFeedIInv, RowBooks, Split
    <2>3. PICK a \in Places : TRUE
      BY DEF Range
    <2>4. CASE Places = {a}
      <3>1. Cardinality(Places) = 1
        BY <2>4, FS_Singleton
      <3> QED
        BY <3>1
    <2>5. CASE Places # {a}
      <3>1. PICK b \in Places : b # a
        BY <2>3, <2>5
      <3>2. /\ a \in 1 .. Len(rows) /\ b \in 1 .. Len(rows) /\ a # b
            /\ rows[a] = id /\ rows[b] = id
        BY <2>1, <2>3, <3>1
      <3>3. id \in between
        BY <2>1, <2>2, <3>2
      <3>4. \A c \in Places : c = a \/ c = b
        BY <2>1, <2>2, <3>2
      <3>5. Places = {a} \cup {b}
        BY <2>3, <3>1, <3>4
      <3>6. Cardinality(Places) = 2
        BY <3>2, <3>5, PairHasTwo
      <3> HIDE DEF Places
      <3>7. Cardinality(Places) <= 2 /\ (Cardinality(Places) = 2 => id \in between)
        BY <3>3, <3>6
      <3> QED
        BY <3>7 DEF Places
    <2> QED
      BY <2>4, <2>5
  <1> QED
    BY <1>1, SpecLiveFeed, PTL
=============================================================================
