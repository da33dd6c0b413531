--------------------------- MODULE EventLogProofs ---------------------------
(***************************************************************************)
(* Proofs about EventLog for every number of sessions, every buffer and    *)
(* any number of events and matches.                                       *)
(***************************************************************************)
EXTENDS EventLog, NumberLemmas, TLAPS, SequenceTheorems, FunctionTheorems, FiniteSetTheorems

\* The log has its type, and a retry is due only while there are retries left.
TypedLog(l) == l \in Log /\ (l.retryDue => l.retryAttempt < StorageRetries)

\* The fields that the operators on events leave alone.
SameFlags(l, t) ==
  /\ t.room = l.room /\ t.matches = l.matches /\ t.away = l.away /\ t.poisoned = l.poisoned
  /\ t.storagePaused = l.storagePaused /\ t.finishAfterSave = l.finishAfterSave
  /\ t.retryAttempt = l.retryAttempt /\ t.retryDue = l.retryDue

\* From l to t events were built and broadcast, and none was taken back.
Extends(l, t) ==
  /\ Len(t.built) >= Len(l.built)
  /\ \A i \in DOMAIN l.built : t.built[i] = l.built[i]
  /\ \E ids \in Seq(EventID) : t.published = l.published \o ids

\* The ids are those of events that were built.
KnownIDs(l, ids) == \A i \in DOMAIN ids : ids[i] \in 1 .. Len(l.built)

\* The broadcast events are the stored ones, each numbered by its place in the
\* stream.
Sound(l) ==
  /\ KnownIDs(l, l.published)
  /\ \A i \in DOMAIN l.published : l.built[l.published[i]].number = i
  /\ l.stored = {l.published[i] : i \in DOMAIN l.published}

\* In a room that is open the boundary is the end of that stream.
Committed(l) == Sound(l) /\ l.boundary = Len(l.published)

\* The batch goes on where the stream ends.
Continues(l, ids) ==
  /\ ids \in Seq(EventID) /\ KnownIDs(l, ids)
  /\ \A i \in DOMAIN ids : l.built[ids[i]].number = l.boundary + i

\* The inductive invariant of the log: what is stored is what was broadcast,
\* what is pending goes on from there, and only a match waits for the store.
LogInv(l) ==
  /\ Sound(l)
  /\ l.room # "closed" => Committed(l)
  /\ Continues(l, l.pending)
  /\ l.storagePaused => l.room = "match"
  /\ ~l.storagePaused => l.pending = <<>> /\ ~l.retryDue
-----------------------------------------------------------------------------
(* Sequences *)

LEMMA BuiltFacts ==
  ASSUME NEW l \in Log
  PROVE  Len(l.built) \in Nat /\ DOMAIN l.built = 1 .. Len(l.built)
<1>1. l.built \in Seq([number : Nat \ {0}, kind : Kinds])
  BY DEF Log
<1> QED
  BY <1>1, LenProperties

\* The ids of the next n events.
LEMMA NewIDsFacts ==
  ASSUME NEW l \in Log, NEW n \in Nat
  PROVE  /\ NewIDs(l, n) \in Seq(EventID)
         /\ Len(NewIDs(l, n)) = n
         /\ \A i \in 1 .. n : NewIDs(l, n)[i] = Len(l.built) + i
<1>1. Len(l.built) \in Nat
  BY DEF Log
<1>2. \A i \in 1 .. n : Len(l.built) + i \in EventID
  BY <1>1 DEF EventID
<1> QED
  BY <1>1, <1>2, IsASeq DEF NewIDs
-----------------------------------------------------------------------------
(* The operators on the log *)

LEMMA BuildFacts ==
  ASSUME NEW l \in Log, NEW batch \in Seq(Kinds), NEW base \in Nat,
         NEW t, t = Build(l, batch, base)
  PROVE  /\ t \in Log /\ SameFlags(l, t)
         /\ t.boundary = l.boundary /\ t.stored = l.stored /\ t.pending = l.pending
         /\ t.published = l.published /\ t.lastRoomUpdated = l.lastRoomUpdated
         /\ Len(t.built) = Len(l.built) + Len(batch)
         /\ \A i \in DOMAIN l.built : t.built[i] = l.built[i]
         /\ \A i \in 1 .. Len(batch) : t.built[Len(l.built) + i].number = base + i
<1> DEFINE E == [number : Nat \ {0}, kind : Kinds]
           rows == [i \in 1 .. Len(batch) |-> [number |-> base + i, kind |-> batch[i]]]
<1>1. l.built \in Seq(E) /\ Len(l.built) \in Nat /\ Len(batch) \in Nat
  BY DEF Log
<1>2. \A i \in 1 .. Len(batch) : [number |-> base + i, kind |-> batch[i]] \in E
  BY <1>1
<1>3. rows \in Seq(E) /\ Len(rows) = Len(batch)
  BY <1>1, <1>2, IsASeq
<1>4. /\ l.built \o rows \in Seq(E)
      /\ Len(l.built \o rows) = Len(l.built) + Len(batch)
      /\ \A i \in DOMAIN l.built : (l.built \o rows)[i] = l.built[i]
      /\ \A i \in 1 .. Len(batch) : (l.built \o rows)[Len(l.built) + i] = rows[i]
  BY <1>1, <1>3, SMTT(30)
<1>5. t = [l EXCEPT !.built = l.built \o rows]
  BY DEF Build, Log
<1> PICK built : built = l.built \o rows
  OBVIOUS
<1>6. \A i \in 1 .. Len(batch) : rows[i].number = base + i
  BY DEF rows
<1> HIDE DEF rows
<1>7. t = [l EXCEPT !.built = built] /\ built \in Seq(E)
  BY <1>4, <1>5
<1>8. /\ t \in Log /\ t.built = built
      /\ t.boundary = l.boundary /\ t.stored = l.stored /\ t.pending = l.pending
      /\ t.published = l.published /\ t.lastRoomUpdated = l.lastRoomUpdated
  BY <1>7 DEF Log
<1>9. SameFlags(l, t)
  BY <1>7 DEF Log, SameFlags
<1> HIDE DEF E
<1>10. /\ Len(t.built) = Len(l.built) + Len(batch)
       /\ \A i \in DOMAIN l.built : t.built[i] = l.built[i]
       /\ \A i \in 1 .. Len(batch) : t.built[Len(l.built) + i].number = base + i
  BY <1>4, <1>6, <1>8
<1> QED
  BY <1>8, <1>9, <1>10, Zenon

LEMMA BuildKeeps ==
  ASSUME NEW l \in Log, NEW batch \in Seq(Kinds), NEW base \in Nat
  PROVE  /\ Build(l, batch, base) \in Log /\ SameFlags(l, Build(l, batch, base))
         /\ Build(l, batch, base).pending = l.pending
         /\ Build(l, batch, base).boundary = l.boundary
BY BuildFacts

LEMMA SaveFacts ==
  ASSUME NEW l \in Log, NEW ids \in Seq(EventID), NEW t, t = Save(l, ids)
  PROVE  /\ t \in Log /\ SameFlags(l, t)
         /\ t.boundary = l.boundary + Len(ids)
         /\ t.stored = l.stored \union {ids[i] : i \in DOMAIN ids}
         /\ t.pending = l.pending /\ t.built = l.built
         /\ t.published = l.published /\ t.lastRoomUpdated = l.lastRoomUpdated
<1> DEFINE rows == {ids[i] : i \in DOMAIN ids}
<1>1. rows \subseteq EventID
  OBVIOUS
<1> PICK boundary : boundary = l.boundary + Len(ids)
  OBVIOUS
<1> PICK stored : stored = l.stored \union rows
  OBVIOUS
<1>2. t = [l EXCEPT !.stored = stored, !.boundary = boundary]
  BY DEF Save, Log
<1> HIDE DEF rows
<1>3. boundary \in Nat /\ stored \in SUBSET EventID
  BY <1>1 DEF Log
<1>4. /\ t \in Log /\ t.boundary = boundary /\ t.stored = stored
      /\ t.pending = l.pending /\ t.built = l.built
      /\ t.published = l.published /\ t.lastRoomUpdated = l.lastRoomUpdated
  BY <1>2, <1>3 DEF Log
<1>5. SameFlags(l, t)
  BY <1>2 DEF Log, SameFlags
<1> QED
  BY <1>4, <1>5 DEF rows

LEMMA PublishFacts ==
  ASSUME NEW l \in Log, NEW ids \in Seq(EventID), NEW t, t = Publish(l, ids)
  PROVE  /\ t \in Log /\ SameFlags(l, t)
         /\ t.boundary = l.boundary /\ t.stored = l.stored
         /\ t.pending = l.pending /\ t.built = l.built
         /\ t.published = l.published \o ids
<1> DEFINE updates == {i \in DOMAIN ids : l.built[ids[i]].kind = "update"}
           last == CHOOSE i \in updates : \A j \in updates : j <= i
           cached == IF updates = {} THEN l.lastRoomUpdated ELSE ids[last]
<1>1. l.published \o ids \in Seq(EventID)
  BY DEF Log
<1>2. cached \in Nat
  <2>1. CASE updates = {}
    BY <2>1 DEF Log
  <2>2. CASE updates # {}
    <3>1. updates \in SUBSET (1 .. Len(ids)) /\ Len(ids) \in Nat
      OBVIOUS
    <3>2. \E i \in updates : \A j \in updates : j <= i
      BY <2>2, <3>1, GreatestNumber
    <3>3. last \in updates
      BY <3>2
    <3>4. cached = ids[last]
      BY <2>2
    <3> HIDE DEF updates, last, cached
    <3>5. last \in 1 .. Len(ids)
      BY <3>1, <3>3
    <3>6. ids[last] \in EventID
      BY <3>5
    <3> QED
      BY <3>4, <3>6 DEF EventID
  <2> QED
    BY <2>1, <2>2
<1> PICK published : published = l.published \o ids
  OBVIOUS
<1>3. t = [l EXCEPT !.published = published, !.lastRoomUpdated = cached]
  BY DEF Publish, Log
<1>4. published \in Seq(EventID)
  BY <1>1
<1> HIDE DEF updates, last, cached
<1>5. /\ t \in Log /\ t.boundary = l.boundary /\ t.stored = l.stored
      /\ t.pending = l.pending /\ t.built = l.built /\ t.published = published
  BY <1>2, <1>3, <1>4 DEF Log
<1>6. SameFlags(l, t)
  BY <1>3 DEF Log, SameFlags
<1> QED
  BY <1>5, <1>6
-----------------------------------------------------------------------------
(* What the operators do to the stream *)

LEMMA ConcatIDs ==
  ASSUME NEW p \in Seq(EventID), NEW a \in Seq(EventID)
  PROVE  /\ p \o a \in Seq(EventID) /\ Len(p \o a) = Len(p) + Len(a)
         /\ \A i \in 1 .. Len(p) : (p \o a)[i] = p[i]
         /\ \A i \in 1 .. Len(a) : (p \o a)[Len(p) + i] = a[i]
OBVIOUS

LEMMA NothingAdded ==
  ASSUME NEW p \in Seq(EventID)
  PROVE  <<>> \in Seq(EventID) /\ p \o <<>> = p
BY ConcatEmptySeq

LEMMA AddedTwice ==
  ASSUME NEW p \in Seq(EventID), NEW a \in Seq(EventID), NEW b \in Seq(EventID)
  PROVE  (p \o a) \o b = p \o (a \o b)
BY ConcatAssociative, SMTT(30)

\* What was added to a sequence is what lies behind its old end.
LEMMA AddedPart ==
  ASSUME NEW p \in Seq(EventID), NEW a \in Seq(EventID)
  PROVE  SubSeq(p \o a, Len(p) + 1, Len(p \o a)) = a
<1> DEFINE q == SubSeq(p \o a, Len(p) + 1, Len(p \o a))
<1>1. Len(q) = Len(a) /\ q \in Seq(EventID)
  OBVIOUS
<1>2. \A i \in 1 .. Len(a) : q[i] = a[i]
  OBVIOUS
<1> QED
  BY <1>1, <1>2, SeqEqual

\* Nothing was broadcast or built.
LEMMA ExtendsSame ==
  ASSUME NEW l \in Log, NEW t \in Log, t.built = l.built, t.published = l.published
  PROVE  Extends(l, t)
<1>1. l.published \in Seq(EventID) /\ Len(l.built) \in Nat
  BY DEF Log
<1>2. <<>> \in Seq(EventID) /\ l.published \o <<>> = l.published
  BY <1>1, NothingAdded
<1>3. \E ids \in Seq(EventID) : t.published = l.published \o ids
  BY <1>2, Zenon
<1> QED
  BY <1>1, <1>3 DEF Extends

LEMMA ExtendsAdded ==
  ASSUME NEW l \in Log, NEW t \in Log, t.built = l.built,
         NEW ids \in Seq(EventID), t.published = l.published \o ids
  PROVE  Extends(l, t)
<1>1. Len(l.built) \in Nat
  BY DEF Log
<1>2. Len(l.built) >= Len(l.built)
  BY <1>1
<1> QED
  BY <1>2, Zenon DEF Extends

LEMMA ExtendsTrans ==
  ASSUME NEW l \in Log, NEW s \in Log, NEW t \in Log, Extends(l, s), Extends(s, t)
  PROVE  Extends(l, t)
<1>1. PICK a \in Seq(EventID) : s.published = l.published \o a
  BY DEF Extends
<1>2. PICK b \in Seq(EventID) : t.published = s.published \o b
  BY DEF Extends
<1>3. l.published \in Seq(EventID)
  BY DEF Log
<1>4. (l.published \o a) \o b = l.published \o (a \o b)
  BY <1>3, AddedTwice, Zenon
<1>5. /\ Len(l.built) \in Nat /\ Len(s.built) \in Nat /\ Len(t.built) \in Nat
      /\ DOMAIN l.built = 1 .. Len(l.built) /\ DOMAIN s.built = 1 .. Len(s.built)
  BY BuiltFacts
<1>6. /\ Len(t.built) >= Len(l.built)
      /\ \A i \in DOMAIN l.built : t.built[i] = l.built[i]
  BY <1>5 DEF Extends
<1>7. t.published = l.published \o (a \o b)
  BY <1>1, <1>2, <1>4
<1>8. a \o b \in Seq(EventID)
  OBVIOUS
<1>9. \E ids \in Seq(EventID) : t.published = l.published \o ids
  BY <1>7, <1>8, Zenon
<1> QED
  BY <1>6, <1>9 DEF Extends

\* Building events extends the log by nothing that was broadcast, and what the
\* stream and a waiting batch are made of stays what it was.
LEMMA BuildStream ==
  ASSUME NEW l \in Log, NEW batch \in Seq(Kinds), NEW base \in Nat,
         NEW t, t = Build(l, batch, base)
  PROVE  /\ t \in Log /\ Extends(l, t)
         /\ Sound(l) => Sound(t)
         /\ Committed(l) => Committed(t)
         /\ \A ids : Continues(l, ids) => Continues(t, ids)
<1>1. /\ t \in Log /\ t.published = l.published /\ t.stored = l.stored
      /\ t.boundary = l.boundary /\ Len(t.built) = Len(l.built) + Len(batch)
      /\ \A i \in DOMAIN l.built : t.built[i] = l.built[i]
  BY BuildFacts
<1>2. /\ Len(l.built) \in Nat /\ Len(batch) \in Nat /\ DOMAIN l.built = 1 .. Len(l.built)
      /\ l.published \in Seq(EventID)
  BY DEF Log
<1>3. 1 .. Len(l.built) \subseteq 1 .. Len(t.built)
  BY <1>1, <1>2
<1>4. Extends(l, t)
  <2>1. <<>> \in Seq(EventID) /\ l.published \o <<>> = l.published
    BY <1>2, NothingAdded
  <2>2. \E ids \in Seq(EventID) : t.published = l.published \o ids
    BY <1>1, <2>1, Zenon
  <2>3. Len(t.built) >= Len(l.built)
    BY <1>1, <1>2
  <2> QED
    BY <1>1, <2>2, <2>3, Zenon DEF Extends
<1>5. Sound(l) => Sound(t)
  <2> SUFFICES ASSUME Sound(l)
               PROVE  Sound(t)
    OBVIOUS
  <2>1. \A i \in DOMAIN l.published : /\ l.published[i] \in 1 .. Len(l.built)
                                     /\ l.built[l.published[i]].number = i
    BY Zenon DEF Sound, KnownIDs
  <2>2. \A i \in DOMAIN l.published : /\ l.published[i] \in 1 .. Len(t.built)
                                     /\ t.built[l.published[i]].number = i
    BY <1>1, <1>2, <1>3, <2>1, Zenon
  <2>3. t.published = l.published /\ t.stored = l.stored
    BY <1>1
  <2>4. l.stored = {l.published[i] : i \in DOMAIN l.published}
    BY Zenon DEF Sound
  <2>5. KnownIDs(t, t.published)
    BY <2>2, <2>3, Zenon DEF KnownIDs
  <2>6. \A i \in DOMAIN t.published : t.built[t.published[i]].number = i
    BY <2>2, <2>3
  <2>7. t.stored = {t.published[i] : i \in DOMAIN t.published}
    BY <2>3, <2>4
  <2> QED
    BY <2>5, <2>6, <2>7, Zenon DEF Sound
<1>6. \A ids : Continues(l, ids) => Continues(t, ids)
  BY <1>1, <1>2, <1>3 DEF Continues, KnownIDs
<1> QED
  BY <1>1, <1>4, <1>5, <1>6 DEF Committed

\* A batch built behind a waiting one continues it.
LEMMA BuildContinues ==
  ASSUME NEW l \in Log, NEW batch \in Seq(Kinds), NEW ids, Continues(l, ids),
         NEW t, t = Build(l, batch, l.boundary + Len(ids))
  PROVE  Continues(t, ids \o NewIDs(l, Len(batch)))
<1> DEFINE new == NewIDs(l, Len(batch))
<1>1. /\ ids \in Seq(EventID) /\ Len(ids) \in Nat /\ Len(batch) \in Nat
      /\ l.boundary \in Nat /\ Len(l.built) \in Nat
  BY DEF Continues, Log
<1>2. l.boundary + Len(ids) \in Nat
  BY <1>1
<1>3. /\ t.boundary = l.boundary /\ Len(t.built) = Len(l.built) + Len(batch)
      /\ \A i \in 1 .. Len(batch) : t.built[Len(l.built) + i].number = l.boundary + Len(ids) + i
  <2> PICK base : base = l.boundary + Len(ids)
    OBVIOUS
  <2>1. base \in Nat /\ t = Build(l, batch, base)
    BY <1>2
  <2>2. /\ t.boundary = l.boundary /\ Len(t.built) = Len(l.built) + Len(batch)
        /\ \A i \in 1 .. Len(batch) : t.built[Len(l.built) + i].number = base + i
    BY <2>1, BuildFacts, SMTT(30)
  <2> QED
    BY <2>2
<1>4. Continues(t, ids)
  BY <1>2, BuildStream
<1>5. /\ new \in Seq(EventID) /\ Len(new) = Len(batch)
      /\ \A i \in 1 .. Len(batch) : new[i] = Len(l.built) + i
  BY <1>1, NewIDsFacts
<1> HIDE DEF new
<1>6. /\ ids \o new \in Seq(EventID) /\ Len(ids \o new) = Len(ids) + Len(batch)
      /\ \A i \in 1 .. Len(ids) : (ids \o new)[i] = ids[i]
      /\ \A i \in 1 .. Len(batch) : (ids \o new)[Len(ids) + i] = new[i]
  <2>1. /\ ids \o new \in Seq(EventID) /\ Len(ids \o new) = Len(ids) + Len(new)
        /\ \A i \in 1 .. Len(ids) : (ids \o new)[i] = ids[i]
        /\ \A i \in 1 .. Len(new) : (ids \o new)[Len(ids) + i] = new[i]
    BY <1>1, <1>5, ConcatIDs, Zenon
  <2> QED
    BY <1>5, <2>1, Zenon
<1>7. ASSUME NEW i \in DOMAIN (ids \o new)
      PROVE  /\ (ids \o new)[i] \in 1 .. Len(t.built)
             /\ t.built[(ids \o new)[i]].number = t.boundary + i
  <2>1. CASE i \in 1 .. Len(ids)
    BY <1>1, <1>4, <1>6, <2>1, SMTT(30) DEF Continues, KnownIDs
  <2>2. CASE i \notin 1 .. Len(ids)
    <3>1. PICK j \in 1 .. Len(batch) : i = Len(ids) + j
      <4>1. i - Len(ids) \in 1 .. Len(batch) /\ i = Len(ids) + (i - Len(ids))
        BY <1>1, <1>6, <2>2
      <4> QED
        BY <4>1
    <3>2. (ids \o new)[i] = Len(l.built) + j
      BY <1>5, <1>6, <3>1
    <3>3. t.built[(ids \o new)[i]].number = l.boundary + Len(ids) + j
      BY <1>3, <3>2
    <3> QED
      BY <1>1, <1>3, <3>1, <3>2, <3>3, SMTT(30)
  <2> QED
    BY <2>1, <2>2
<1> QED
  BY <1>6, <1>7 DEF Continues, KnownIDs, new

\* Nothing waiting continues any stream.
LEMMA NothingContinues ==
  ASSUME NEW l
  PROVE  Continues(l, <<>>)
BY EmptySeq DEF Continues, KnownIDs

\* A batch built at the boundary continues the stream.
LEMMA FreshContinues ==
  ASSUME NEW l \in Log, NEW batch \in Seq(Kinds), NEW t, t = Build(l, batch, l.boundary)
  PROVE  Continues(t, NewIDs(l, Len(batch)))
<1>1. l.boundary \in Nat /\ Len(batch) \in Nat
  BY DEF Log
<1>2. Len(<<>>) = 0 /\ l.boundary + Len(<<>>) = l.boundary
  BY <1>1
<1>3. t = Build(l, batch, l.boundary + Len(<<>>))
  BY <1>2
<1>4. Continues(t, <<>> \o NewIDs(l, Len(batch)))
  BY <1>3, NothingContinues, BuildContinues, Zenon
<1>5. NewIDs(l, Len(batch)) \in Seq(EventID)
  BY <1>1, NewIDsFacts, Zenon
<1>6. <<>> \o NewIDs(l, Len(batch)) = NewIDs(l, Len(batch))
  BY <1>5, ConcatEmptySeq
<1> QED
  BY <1>4, <1>6

\* The store accepts a batch that continues the stream.
LEMMA ContinuationAccepted ==
  ASSUME NEW l \in Log, NEW ids, Committed(l), Continues(l, ids)
  PROVE  Accepts(l, ids)
<1>1. l.boundary \in Nat /\ Len(l.published) \in Nat /\ l.published \in Seq(EventID)
  BY DEF Log
<1>2. ASSUME NEW id \in l.stored
      PROVE  l.built[id].number \in 1 .. l.boundary
  <2>1. PICK i \in DOMAIN l.published : id = l.published[i]
    BY DEF Committed, Sound
  <2>2. l.built[id].number = i
    BY <2>1 DEF Committed, Sound
  <2> QED
    BY <1>1, <2>2 DEF Committed
<1>3. ASSUME NEW i \in DOMAIN ids
      PROVE  l.built[ids[i]].number > l.boundary
  <2>1. i \in Nat \ {0}
    BY DEF Continues
  <2>2. l.built[ids[i]].number = l.boundary + i
    BY DEF Continues
  <2> QED
    BY <1>1, <2>1, <2>2
<1>4. ASSUME NEW n, n \in Numbers(l, ids), n \in {l.built[id].number : id \in l.stored}
      PROVE  FALSE
  <2>1. n > l.boundary
    BY <1>3, <1>4 DEF Numbers
  <2>2. n \in 1 .. l.boundary
    BY <1>2, <1>4
  <2> QED
    BY <1>1, <2>1, <2>2
<1> QED
  BY <1>4 DEF Accepts

\* A batch that is saved and broadcast.
LEMMA SavedBatch ==
  ASSUME NEW l \in Log, NEW ids \in Seq(EventID), NEW t, t = Publish(Save(l, ids), ids)
  PROVE  /\ t \in Log /\ SameFlags(l, t) /\ t.pending = l.pending /\ t.built = l.built
         /\ t.published = l.published \o ids
         /\ Extends(l, t)
         /\ Committed(l) /\ Continues(l, ids) => Committed(t)
<1> DEFINE s == Save(l, ids)
<1>1. /\ s \in Log /\ SameFlags(l, s)
      /\ s.boundary = l.boundary + Len(ids)
      /\ s.stored = l.stored \union {ids[i] : i \in DOMAIN ids}
      /\ s.pending = l.pending /\ s.built = l.built /\ s.published = l.published
  BY SaveFacts, ZenonT(30)
<1> HIDE DEF s
<1>2. t = Publish(s, ids)
  BY DEF s
<1>3. /\ t \in Log /\ SameFlags(s, t)
      /\ t.boundary = s.boundary /\ t.stored = s.stored
      /\ t.pending = s.pending /\ t.built = s.built
      /\ t.published = s.published \o ids
  BY <1>1, <1>2, PublishFacts, Zenon
<1>4. /\ t \in Log /\ t.pending = l.pending /\ t.built = l.built
      /\ t.published = l.published \o ids
      /\ t.boundary = l.boundary + Len(ids)
      /\ t.stored = l.stored \union {ids[i] : i \in DOMAIN ids}
  BY <1>1, <1>3, Zenon
<1>5. SameFlags(l, t)
  BY <1>1, <1>3 DEF SameFlags
<1>6. Extends(l, t)
  BY <1>4, ExtendsAdded, Zenon
<1>7. ASSUME Committed(l), Continues(l, ids)
      PROVE  Committed(t)
  <2> DEFINE p == l.published
  <2>1. p \in Seq(EventID) /\ Len(p) \in Nat /\ Len(ids) \in Nat /\ l.boundary = Len(p)
    BY <1>7 DEF Log, Committed
  <2>2. /\ t.published \in Seq(EventID) /\ Len(t.published) = Len(p) + Len(ids)
        /\ \A i \in 1 .. Len(p) : t.published[i] = p[i]
        /\ \A i \in 1 .. Len(ids) : t.published[Len(p) + i] = ids[i]
    <3>1. t.published = p \o ids
      BY <1>4
    <3>2. /\ p \o ids \in Seq(EventID) /\ Len(p \o ids) = Len(p) + Len(ids)
          /\ \A i \in 1 .. Len(p) : (p \o ids)[i] = p[i]
          /\ \A i \in 1 .. Len(ids) : (p \o ids)[Len(p) + i] = ids[i]
      BY <2>1, ConcatIDs
    <3> QED
      BY <3>1, <3>2
  <2>3. /\ DOMAIN t.published = 1 .. Len(t.published) /\ DOMAIN p = 1 .. Len(p)
        /\ DOMAIN ids = 1 .. Len(ids)
    BY <2>1, <2>2
  <2>4. /\ \A i \in 1 .. Len(p) : p[i] \in 1 .. Len(l.built) /\ l.built[p[i]].number = i
        /\ l.stored = {p[i] : i \in 1 .. Len(p)}
    BY <1>7, <2>3 DEF Committed, Sound, KnownIDs
  <2>5. \A i \in 1 .. Len(ids) : /\ ids[i] \in 1 .. Len(l.built)
                                 /\ l.built[ids[i]].number = Len(p) + i
    BY <1>7, <2>1, <2>3 DEF Continues, KnownIDs
  <2> HIDE DEF p
  <2>6. ASSUME NEW i \in 1 .. Len(t.published)
        PROVE  \/ i \in 1 .. Len(p)
               \/ \E j \in 1 .. Len(ids) : i = Len(p) + j
    <3>1. i \in 1 .. Len(p) \/ (i - Len(p) \in 1 .. Len(ids) /\ i = Len(p) + (i - Len(p)))
      BY <2>1, <2>2
    <3> QED
      BY <3>1, Zenon
  <2>7. ASSUME NEW i \in 1 .. Len(t.published)
        PROVE  t.published[i] \in 1 .. Len(t.built) /\ t.built[t.published[i]].number = i
    <3>1. CASE i \in 1 .. Len(p)
      BY <1>4, <2>2, <2>4, <3>1
    <3>2. ASSUME NEW j \in 1 .. Len(ids), i = Len(p) + j
          PROVE  t.published[i] \in 1 .. Len(t.built) /\ t.built[t.published[i]].number = i
      BY <1>4, <2>2, <2>5, <3>2
    <3> QED
      BY <2>6, <3>1, <3>2
  <2>8. t.stored = {t.published[i] : i \in 1 .. Len(t.published)}
    <3>1. ASSUME NEW id \in t.stored
          PROVE  \E i \in 1 .. Len(t.published) : id = t.published[i]
      <4>1. CASE id \in l.stored
        <5>1. PICK i \in 1 .. Len(p) : id = p[i]
          BY <2>4, <4>1
        <5>2. i \in 1 .. Len(t.published) /\ t.published[i] = id
          BY <2>1, <2>2, <5>1
        <5> QED
          BY <5>2, Zenon
      <4>2. CASE id \notin l.stored
        <5>1. PICK i \in 1 .. Len(ids) : id = ids[i]
          BY <1>4, <2>3, <4>2
        <5>2. Len(p) + i \in 1 .. Len(t.published) /\ t.published[Len(p) + i] = id
          BY <2>1, <2>2, <5>1
        <5> QED
          BY <5>2, Zenon
      <4> QED
        BY <4>1, <4>2
    <3>2. ASSUME NEW i \in 1 .. Len(t.published)
          PROVE  t.published[i] \in t.stored
      <4>1. CASE i \in 1 .. Len(p)
        BY <1>4, <2>2, <2>4, <4>1
      <4>2. ASSUME NEW j \in 1 .. Len(ids), i = Len(p) + j
            PROVE  t.published[i] \in t.stored
        BY <1>4, <2>2, <2>3, <4>2
      <4> QED
        BY <2>6, <4>1, <4>2
    <3> QED
      BY <3>1, <3>2
  <2> QED
    BY <1>4, <2>1, <2>2, <2>3, <2>7, <2>8 DEF Committed, Sound, KnownIDs
<1> QED
  BY <1>4, <1>5, <1>6, <1>7

\* What depends on the events alone stays when only flags change.
LEMMA SameStream ==
  ASSUME NEW l \in Log, NEW t \in Log, t.built = l.built, t.published = l.published,
         t.stored = l.stored, t.boundary = l.boundary
  PROVE  /\ Extends(l, t)
         /\ Sound(l) => Sound(t)
         /\ Committed(l) => Committed(t)
         /\ \A ids : Continues(l, ids) => Continues(t, ids)
<1>1. Extends(l, t)
  BY ExtendsSame
<1>2. Sound(l) => Sound(t)
  BY DEF Sound, KnownIDs
<1>3. \A ids : Continues(l, ids) => Continues(t, ids)
  BY DEF Continues, KnownIDs
<1> QED
  BY <1>1, <1>2, <1>3 DEF Committed
-----------------------------------------------------------------------------
(* The steps of the handlers *)

LEMMA DetachFacts ==
  ASSUME NEW l \in Log, NEW t, t = Detach(l)
  PROVE  /\ TypedLog(t) /\ t.room = "lobby" /\ t.matches = l.matches
         /\ ~t.storagePaused /\ t.pending = <<>> /\ ~t.retryDue
         /\ t.built = l.built /\ t.published = l.published
         /\ t.stored = l.stored /\ t.boundary = l.boundary
         /\ Extends(l, t)
         /\ Committed(l) => LogInv(t)
<1>1. <<>> \in Seq(EventID) /\ 0 \in 0 .. StorageRetries
  BY EmptySeq DEF StorageRetries
<1>2. /\ t \in Log /\ t.room = "lobby" /\ t.matches = l.matches
      /\ ~t.storagePaused /\ t.pending = <<>> /\ ~t.retryDue
      /\ t.built = l.built /\ t.published = l.published
      /\ t.stored = l.stored /\ t.boundary = l.boundary
  BY <1>1 DEF Detach, Log
<1>3. Extends(l, t) /\ (Committed(l) => Committed(t))
  BY <1>2, SameStream
<1>4. Continues(t, t.pending)
  BY <1>2, NothingContinues
<1> QED
  BY <1>2, <1>3, <1>4 DEF TypedLog, LogInv, Committed

LEMMA EnterStoragePauseFacts ==
  ASSUME NEW l \in Log, NEW ids \in Seq(EventID), NEW finish \in BOOLEAN,
         NEW t, t = EnterStoragePause(l, ids, finish)
  PROVE  /\ TypedLog(t) /\ t.room = l.room /\ t.matches = l.matches
         /\ Extends(l, t)
         /\ Committed(l) /\ Continues(l, ids) /\ l.room = "match" => LogInv(t)
<1> DEFINE q == IF finish THEN ids ELSE Append(ids, Len(l.built) + 1)
           b == [l EXCEPT !.storagePaused = TRUE, !.retryAttempt = 0, !.retryDue = TRUE,
                          !.finishAfterSave = finish, !.pending = q]
<1>0. Len(l.built) \in Nat /\ l.boundary \in Nat /\ Len(ids) \in Nat
  BY BuiltFacts DEF Log
<1>1. q \in Seq(EventID) /\ 0 \in 0 .. StorageRetries
  BY <1>0, SMTT(30) DEF EventID, StorageRetries
<1> HIDE DEF q
<1>2. /\ b \in Log /\ b.room = l.room /\ b.matches = l.matches
      /\ b.storagePaused /\ b.pending = q /\ b.retryAttempt = 0
      /\ b.built = l.built /\ b.published = l.published
      /\ b.stored = l.stored /\ b.boundary = l.boundary
  BY <1>1 DEF Log
<1> HIDE DEF b
<1>3. Extends(l, b) /\ (Committed(l) => Committed(b)) /\ (Continues(l, ids) => Continues(b, ids))
  BY <1>2, SameStream
<1>4. CASE finish
  <2>1. t = b /\ q = ids
    BY <1>4 DEF EnterStoragePause, b, q, Log
  <2> QED
    BY <1>2, <1>3, <2>1 DEF TypedLog, LogInv, Committed, StorageRetries
<1>5. CASE ~finish
  <2>1. q = Append(ids, Len(l.built) + 1)
    BY <1>5 DEF q
  <2>2. t = Build(b, <<"play">>, b.boundary + Len(ids))
    BY <1>2, <1>5, <2>1 DEF EnterStoragePause, b, Log
  <2>3. <<"play">> \in Seq(Kinds) /\ b.boundary + Len(ids) \in Nat /\ Len(<<"play">>) = 1
    BY <1>0, <1>2 DEF Kinds
  <2>4. b \in Log
    BY <1>2
  <2> DEFINE batch == <<"play">>
             base == b.boundary + Len(ids)
  <2>5. batch \in Seq(Kinds) /\ base \in Nat /\ t = Build(b, batch, base)
    BY <2>2, <2>3
  <2> HIDE DEF batch, base
  <2>6. t \in Log /\ SameFlags(b, t) /\ t.pending = b.pending
    <3> DEFINE x == Build(b, batch, base)
    <3>1. x \in Log /\ SameFlags(b, x) /\ x.pending = b.pending
      BY <2>4, <2>5, BuildKeeps
    <3> HIDE DEF x
    <3>2. t = x
      BY <2>5 DEF x
    <3> QED
      BY <3>1, <3>2, Zenon
  <2>7. Extends(b, t) /\ (Committed(b) => Committed(t))
    BY <2>4, <2>5, BuildStream, Zenon
  <2>8. Extends(l, t)
    BY <1>2, <1>3, <2>6, <2>7, ExtendsTrans, Zenon
  <2>9. q = ids \o NewIDs(b, 1)
    BY <1>0, <1>2, <2>1 DEF NewIDs
  <2>10. Continues(b, ids) => Continues(t, ids \o NewIDs(b, 1))
    BY <1>2, <2>2, <2>3, BuildContinues
  <2>11. /\ t.room = l.room /\ t.matches = l.matches /\ t.storagePaused /\ t.pending = q
         /\ t.retryAttempt = 0
    BY <1>2, <2>6 DEF SameFlags
  <2> QED
    BY <1>3, <2>6, <2>7, <2>8, <2>9, <2>10, <2>11 DEF TypedLog, LogInv, Committed, StorageRetries
<1> QED
  BY <1>4, <1>5

\* A batch is flushed: whatever the store does, nothing that was broadcast is
\* taken back; and a room that is in order stays in order.
LEMMA FlushFacts ==
  ASSUME NEW l, TypedLog(l), NEW batch \in Seq(Kinds), NEW finish \in BOOLEAN,
         NEW t \in Flush(l, batch, finish)
  PROVE  /\ TypedLog(t) /\ Extends(l, t)
         /\ LogInv(l) /\ l.room # "closed" /\ ~l.storagePaused => LogInv(t)
<1> DEFINE ids == NewIDs(l, Len(batch))
           b == Build(l, batch, l.boundary)
           done == Publish(Save(b, ids), ids)
<1>1. l \in Log /\ l.boundary \in Nat /\ Len(batch) \in Nat
  BY DEF TypedLog, Log
<1>2. ids \in Seq(EventID)
  BY <1>1, NewIDsFacts, Zenon
<1>3. b \in Log /\ SameFlags(l, b) /\ b.pending = l.pending
  BY <1>1, BuildKeeps, Zenon
<1>4. Extends(l, b) /\ (Sound(l) => Sound(b)) /\ (Committed(l) => Committed(b))
  BY <1>1, BuildStream
<1>5. Continues(b, ids)
  BY <1>1, FreshContinues, Zenon
<1>6. \/ t = done /\ ~finish
      \/ t = Detach(done) /\ finish
      \/ t = EnterStoragePause(b, ids, finish) /\ l.room = "match"
      \/ t = [b EXCEPT !.poisoned = TRUE] /\ l.room # "match"
  BY DEF Flush
<1> HIDE DEF b, ids
<1>7. /\ done \in Log /\ SameFlags(b, done) /\ done.pending = b.pending
      /\ Extends(b, done) /\ (Committed(b) => Committed(done))
  BY <1>2, <1>3, <1>5, SavedBatch, Zenon
<1> HIDE DEF done
<1>8. Extends(l, done)
  BY <1>1, <1>3, <1>4, <1>7, ExtendsTrans, Zenon
<1>9. LogInv(l) /\ l.room # "closed" /\ ~l.storagePaused => Committed(b) /\ Committed(done)
  BY <1>4, <1>7 DEF LogInv
<1>10. CASE t = done
  <2>1. TypedLog(t)
    BY <1>3, <1>7, <1>10 DEF TypedLog, SameFlags
  <2>2. ASSUME LogInv(l), l.room # "closed", ~l.storagePaused
        PROVE  LogInv(t)
    <3>1. t.pending = <<>> /\ ~t.storagePaused /\ ~t.retryDue
      BY <1>3, <1>7, <1>10, <2>2 DEF LogInv, SameFlags
    <3>2. Continues(t, t.pending)
      BY <3>1, NothingContinues
    <3> QED
      BY <1>9, <1>10, <2>2, <3>1, <3>2 DEF LogInv, Committed
  <2> QED
    BY <1>8, <1>10, <2>1, <2>2
<1>11. CASE t = Detach(done)
  <2>1. TypedLog(t) /\ Extends(done, t) /\ (Committed(done) => LogInv(t))
    BY <1>7, <1>11, DetachFacts
  <2>2. Extends(l, t)
    BY <1>1, <1>7, <1>8, <2>1, ExtendsTrans DEF TypedLog
  <2> QED
    BY <1>9, <2>1, <2>2
<1>12. CASE t = EnterStoragePause(b, ids, finish) /\ l.room = "match"
  <2>1. /\ TypedLog(t) /\ Extends(b, t)
        /\ Committed(b) /\ Continues(b, ids) /\ b.room = "match" => LogInv(t)
    BY <1>2, <1>3, <1>12, EnterStoragePauseFacts
  <2>2. Extends(l, t)
    BY <1>1, <1>3, <1>4, <2>1, ExtendsTrans DEF TypedLog
  <2>3. b.room = "match"
    BY <1>3, <1>12 DEF SameFlags
  <2> QED
    BY <1>5, <1>9, <2>1, <2>2, <2>3
<1>13. CASE t = [b EXCEPT !.poisoned = TRUE]
  <2>1. /\ t \in Log /\ t.built = b.built /\ t.published = b.published
        /\ t.stored = b.stored /\ t.boundary = b.boundary
        /\ t.room = b.room /\ t.pending = b.pending
        /\ t.storagePaused = b.storagePaused
        /\ t.retryDue = b.retryDue /\ t.retryAttempt = b.retryAttempt
    BY <1>3, <1>13 DEF Log
  <2>2. Extends(b, t) /\ (Sound(b) => Sound(t)) /\ (Committed(b) => Committed(t))
    BY <1>3, <2>1, SameStream
  <2>3. Extends(l, t)
    BY <1>1, <1>3, <1>4, <2>1, <2>2, ExtendsTrans
  <2>4. TypedLog(t)
    BY <1>3, <2>1 DEF TypedLog, SameFlags
  <2>5. ASSUME LogInv(l), l.room # "closed", ~l.storagePaused
        PROVE  LogInv(t)
    <3>1. t.pending = <<>> /\ ~t.storagePaused /\ ~t.retryDue
      BY <1>3, <2>1, <2>5 DEF LogInv, SameFlags
    <3>2. Continues(t, t.pending)
      BY <3>1, NothingContinues
    <3> QED
      BY <1>9, <2>2, <2>5, <3>1, <3>2 DEF LogInv, Committed
  <2> QED
    BY <2>3, <2>4, <2>5
<1> QED
  BY <1>6, <1>10, <1>11, <1>12, <1>13, Zenon

\* The save that ends a match, with what was pending. If it cannot fail the
\* stream stays whole.
LEMMA SaveTerminalFacts ==
  ASSUME NEW l \in Log, NEW t \in SaveTerminal(l)
  PROVE  /\ t \in Log /\ Extends(l, t)
         /\ ~LastSaveFails /\ Committed(l) /\ Continues(l, l.pending) => Committed(t)
<1> DEFINE batch == <<"end", "update">>
           ids == l.pending \o NewIDs(l, 2)
           base == l.boundary + Len(l.pending)
           b == Build(l, batch, base)
<1>1. /\ l.boundary \in Nat /\ l.pending \in Seq(EventID) /\ Len(l.pending) \in Nat
      /\ base \in Nat
  BY DEF Log
<1>2. batch \in Seq(Kinds) /\ Len(batch) = 2
  BY DEF Kinds
<1>3. NewIDs(l, 2) \in Seq(EventID)
  BY NewIDsFacts
<1>4. ids \in Seq(EventID)
  BY <1>1, <1>3, ConcatIDs, Zenon
<1>5. \/ t = Publish(Save(b, ids), ids)
      \/ t = Publish(b, ids) /\ (LastSaveFails \/ ~Accepts(b, ids))
  BY DEF SaveTerminal
<1>6. Continues(l, l.pending) => Continues(b, ids)
  <2>1. Continues(l, l.pending) => Continues(b, l.pending \o NewIDs(l, Len(batch)))
    BY <1>2, BuildContinues, Zenon
  <2> QED
    BY <1>2, <2>1
<1> HIDE DEF batch, ids, base
<1>7. b \in Log
  BY <1>1, <1>2, BuildKeeps, Zenon
<1>8. Extends(l, b) /\ (Committed(l) => Committed(b))
  BY <1>1, <1>2, BuildStream, Zenon
<1> HIDE DEF b
<1>9. CASE t = Publish(Save(b, ids), ids)
  <2>1. t \in Log /\ Extends(b, t) /\ (Committed(b) /\ Continues(b, ids) => Committed(t))
    BY <1>4, <1>7, <1>9, SavedBatch, Zenon
  <2>2. Extends(l, t)
    BY <1>7, <1>8, <2>1, ExtendsTrans, Zenon
  <2> QED
    BY <1>6, <1>8, <2>1, <2>2
<1>10. CASE t = Publish(b, ids) /\ (LastSaveFails \/ ~Accepts(b, ids))
  <2>1. t \in Log /\ t.built = b.built /\ t.published = b.published \o ids
    BY <1>4, <1>7, <1>10, PublishFacts
  <2>2. Extends(b, t)
    BY <1>4, <1>7, <2>1, ExtendsAdded, Zenon
  <2>3. Extends(l, t)
    BY <1>7, <1>8, <2>1, <2>2, ExtendsTrans, Zenon
  <2>4. ~LastSaveFails /\ Committed(l) /\ Continues(l, l.pending) => FALSE
    BY <1>6, <1>7, <1>8, <1>10, ContinuationAccepted
  <2> QED
    BY <2>1, <2>3, <2>4
<1> QED
  BY <1>5, <1>9, <1>10

LEMMA InvalidateMatchFacts ==
  ASSUME NEW l \in Log, NEW t \in InvalidateMatch(l)
  PROVE  /\ TypedLog(t) /\ Extends(l, t)
         /\ ~LastSaveFails /\ Committed(l) /\ Continues(l, l.pending) => LogInv(t)
<1>1. PICK s \in SaveTerminal(l) : t = Detach(s)
  BY DEF InvalidateMatch
<1>2. /\ s \in Log /\ Extends(l, s)
      /\ ~LastSaveFails /\ Committed(l) /\ Continues(l, l.pending) => Committed(s)
  BY SaveTerminalFacts
<1>3. TypedLog(t) /\ Extends(s, t) /\ (Committed(s) => LogInv(t))
  BY <1>1, <1>2, DetachFacts
<1>4. Extends(l, t)
  BY <1>2, <1>3, ExtendsTrans DEF TypedLog
<1> QED
  BY <1>2, <1>3, <1>4

LEMMA TerminateFacts ==
  ASSUME NEW l \in Log, NEW t \in TerminateDisconnectedMatch(l)
  PROVE  /\ TypedLog(t) /\ Extends(l, t)
         /\ ~LastSaveFails /\ Committed(l) /\ Continues(l, l.pending) => LogInv(t)
<1>1. PICK s \in SaveTerminal(l) : t = [Detach(s) EXCEPT !.room = "closed", !.boundary = 0]
  BY DEF TerminateDisconnectedMatch
<1>2. /\ s \in Log /\ Extends(l, s)
      /\ ~LastSaveFails /\ Committed(l) /\ Continues(l, l.pending) => Committed(s)
  BY SaveTerminalFacts
<1> DEFINE d == Detach(s)
<1>3. /\ TypedLog(d) /\ ~d.storagePaused /\ d.pending = <<>> /\ ~d.retryDue
      /\ Extends(s, d) /\ (Committed(s) => LogInv(d))
  BY <1>2, DetachFacts
<1>4. t = [d EXCEPT !.room = "closed", !.boundary = 0]
  BY <1>1
<1> HIDE DEF d
<1>5. d \in Log
  BY <1>3 DEF TypedLog
<1>6. /\ t \in Log /\ t.room = "closed" /\ t.storagePaused = d.storagePaused
      /\ t.pending = d.pending /\ t.retryDue = d.retryDue
      /\ t.built = d.built /\ t.published = d.published /\ t.stored = d.stored
  BY <1>4, <1>5 DEF Log
<1>7. Extends(d, t)
  BY <1>5, <1>6, ExtendsSame
<1>8. Extends(l, t)
  BY <1>2, <1>3, <1>5, <1>6, <1>7, ExtendsTrans
<1>9. Sound(d) => Sound(t)
  BY <1>6 DEF Sound, KnownIDs
<1>10. Continues(t, t.pending)
  BY <1>3, <1>6, NothingContinues
<1> QED
  BY <1>2, <1>3, <1>6, <1>8, <1>9, <1>10 DEF TypedLog, LogInv

\* GAME_RESUMED behind a batch that was saved late.
LEMMA ResumeFacts ==
  ASSUME NEW l \in Log, ~l.retryDue, NEW t \in Resume(l)
  PROVE  /\ TypedLog(t) /\ Extends(l, t) /\ t.room = l.room
         /\ Committed(l) /\ l.room = "match" /\ l.storagePaused => LogInv(t)
<1> DEFINE batch == <<"play">>
           marker == NewIDs(l, 1)
           b == Build(l, batch, l.boundary)
           s == Publish(Save(b, marker), marker)
<1>1. /\ l.boundary \in Nat /\ batch \in Seq(Kinds) /\ Len(batch) = 1
      /\ 0 \in 0 .. StorageRetries
  BY DEF Log, Kinds, StorageRetries
<1>2. marker \in Seq(EventID)
  BY NewIDsFacts
<1>3. Continues(b, marker)
  <2>1. Continues(b, NewIDs(l, Len(batch)))
    BY <1>1, FreshContinues, Zenon
  <2> QED
    BY <1>1, <2>1
<1>4. \/ t = [s EXCEPT !.storagePaused = FALSE, !.pending = <<>>, !.retryAttempt = 0]
      \/ t = [b EXCEPT !.pending = marker, !.retryAttempt = 0, !.retryDue = TRUE]
  BY DEF Resume
<1> HIDE DEF batch, marker
<1>5. b \in Log /\ SameFlags(l, b)
  BY <1>1, BuildKeeps, Zenon
<1>6. Extends(l, b) /\ (Committed(l) => Committed(b))
  BY <1>1, BuildStream
<1> HIDE DEF b
<1>7. /\ s \in Log /\ SameFlags(b, s) /\ Extends(b, s)
      /\ Committed(b) /\ Continues(b, marker) => Committed(s)
  BY <1>2, <1>5, SavedBatch, Zenon
<1> HIDE DEF s
<1>8. Extends(l, s)
  BY <1>5, <1>6, <1>7, ExtendsTrans, Zenon
<1>9. <<>> \in Seq(EventID)
  BY EmptySeq
<1>10. ASSUME t = [s EXCEPT !.storagePaused = FALSE, !.pending = <<>>, !.retryAttempt = 0]
       PROVE  /\ TypedLog(t) /\ Extends(l, t) /\ t.room = l.room
              /\ Committed(l) => LogInv(t)
  <2>1. /\ t \in Log /\ t.built = s.built /\ t.published = s.published
        /\ t.stored = s.stored /\ t.boundary = s.boundary /\ t.room = s.room
        /\ t.storagePaused = FALSE /\ t.pending = <<>> /\ t.retryDue = s.retryDue
    BY <1>1, <1>7, <1>9, <1>10 DEF Log
  <2>2. Extends(s, t) /\ (Committed(s) => Committed(t))
    BY <1>7, <2>1, SameStream
  <2>3. Extends(l, t)
    BY <1>7, <1>8, <2>1, <2>2, ExtendsTrans
  <2>4. ~t.retryDue /\ t.room = l.room
    BY <1>5, <1>7, <2>1 DEF SameFlags
  <2>5. Continues(t, t.pending)
    BY <2>1, NothingContinues
  <2> QED
    BY <1>3, <1>6, <1>7, <2>1, <2>2, <2>3, <2>4, <2>5 DEF TypedLog, LogInv, Committed
<1>11. ASSUME t = [b EXCEPT !.pending = marker, !.retryAttempt = 0, !.retryDue = TRUE]
       PROVE  /\ TypedLog(t) /\ Extends(l, t) /\ t.room = l.room
              /\ Committed(l) /\ l.room = "match" /\ l.storagePaused => LogInv(t)
  <2>1. /\ t \in Log /\ t.built = b.built /\ t.published = b.published
        /\ t.stored = b.stored /\ t.boundary = b.boundary /\ t.room = b.room
        /\ t.storagePaused = b.storagePaused /\ t.pending = marker /\ t.retryAttempt = 0
    BY <1>1, <1>2, <1>5, <1>11 DEF Log
  <2>2. Extends(b, t) /\ (Committed(b) => Committed(t)) /\ Continues(t, marker)
    BY <1>3, <1>5, <2>1, SameStream
  <2>3. Extends(l, t)
    BY <1>5, <1>6, <2>1, <2>2, ExtendsTrans
  <2>4. t.room = l.room /\ t.storagePaused = l.storagePaused
    BY <1>5, <2>1 DEF SameFlags
  <2> QED
    BY <1>6, <2>1, <2>2, <2>3, <2>4 DEF TypedLog, LogInv, Committed, StorageRetries
<1> QED
  BY <1>4, <1>10, <1>11
-----------------------------------------------------------------------------
(* One step of the room *)

\* The store works when a match ends and nobody joins a match in an outage:
\* the two cases in which the code does not keep the log whole.
Orderly == ~OutageJoins /\ ~LastSaveFails

\* A handler leaves the room with a log of the right type that takes nothing
\* back, and in order if it was in order.
RoomStep(l) ==
  /\ Commit(l) /\ TypedLog(l) /\ Extends(log, l)
  /\ Orderly /\ LogInv(log) => LogInv(l)

LEMMA CreateStep ==
  ASSUME TypedLog(log), Create
  PROVE  \E l : RoomStep(l)
<1> DEFINE o == [log EXCEPT !.room = "lobby"]
<1>1. log \in Log /\ log.room = "none"
  BY DEF TypedLog, Create
<1>2. PICK l \in Flush(o, <<"update">>, FALSE) : Commit(l)
  BY DEF Create
<1>3. /\ o \in Log /\ o.built = log.built /\ o.published = log.published
      /\ o.stored = log.stored /\ o.boundary = log.boundary /\ o.room = "lobby"
      /\ o.storagePaused = log.storagePaused /\ o.pending = log.pending
      /\ o.retryDue = log.retryDue /\ o.retryAttempt = log.retryAttempt
  BY <1>1 DEF Log
<1> HIDE DEF o
<1>4. <<"update">> \in Seq(Kinds)
  BY DEF Kinds
<1>5. TypedLog(o)
  BY <1>3 DEF TypedLog
<1>6. /\ Extends(log, o) /\ (Committed(log) => Committed(o))
      /\ \A ids : Continues(log, ids) => Continues(o, ids)
  BY <1>1, <1>3, SameStream
<1>7. LogInv(log) => LogInv(o) /\ ~o.storagePaused
  BY <1>1, <1>3, <1>6 DEF LogInv, Committed
<1>8. /\ TypedLog(l) /\ Extends(o, l)
      /\ LogInv(o) /\ o.room # "closed" /\ ~o.storagePaused => LogInv(l)
  BY <1>4, <1>5, FlushFacts
<1>9. Extends(log, l)
  BY <1>1, <1>3, <1>6, <1>8, ExtendsTrans DEF TypedLog
<1> QED
  BY <1>2, <1>3, <1>7, <1>8, <1>9 DEF RoomStep

LEMMA LobbyChangeStep ==
  ASSUME TypedLog(log), LobbyChange
  PROVE  \E l : RoomStep(l)
<1>1. PICK batch \in {<<"update">>, <<"other", "update">>} :
        \E l \in Flush(log, batch, FALSE) : Commit(l)
  BY DEF LobbyChange
<1>2. PICK l \in Flush(log, batch, FALSE) : Commit(l)
  BY <1>1
<1>3. batch \in Seq(Kinds)
  <2>1. <<"update">> \in Seq(Kinds) /\ <<"other", "update">> \in Seq(Kinds)
    BY DEF Kinds
  <2> QED
    BY <2>1, Zenon
<1>4. log.room = "lobby" /\ ~log.storagePaused
  BY DEF LobbyChange, Usable
<1>5. /\ TypedLog(l) /\ Extends(log, l)
      /\ LogInv(log) /\ log.room # "closed" /\ ~log.storagePaused => LogInv(l)
  BY <1>3, FlushFacts
<1> QED
  BY <1>2, <1>4, <1>5 DEF RoomStep

LEMMA LastHumanLeavesStep ==
  ASSUME TypedLog(log), LastHumanLeaves
  PROVE  \E l : RoomStep(l)
<1> DEFINE l == [log EXCEPT !.room = "closed"]
<1>1. log \in Log /\ ~log.storagePaused /\ Commit(l)
  BY DEF TypedLog, LastHumanLeaves, Usable
<1>2. /\ l \in Log /\ l.built = log.built /\ l.published = log.published
      /\ l.stored = log.stored /\ l.boundary = log.boundary /\ l.room = "closed"
      /\ l.storagePaused = log.storagePaused /\ l.pending = log.pending
      /\ l.retryDue = log.retryDue /\ l.retryAttempt = log.retryAttempt
  BY <1>1 DEF Log
<1> HIDE DEF l
<1>3. TypedLog(l)
  BY <1>2 DEF TypedLog
<1>4. /\ Extends(log, l) /\ (Sound(log) => Sound(l))
      /\ \A ids : Continues(log, ids) => Continues(l, ids)
  BY <1>1, <1>2, SameStream
<1>5. LogInv(log) => LogInv(l)
  BY <1>1, <1>2, <1>4 DEF LogInv
<1> QED
  BY <1>1, <1>3, <1>4, <1>5 DEF RoomStep

LEMMA StartMatchStep ==
  ASSUME TypedLog(log), StartMatch
  PROVE  \E l : RoomStep(l)
<1> DEFINE o == [log EXCEPT !.room = "match", !.matches = log.matches + 1]
<1>1. log \in Log /\ log.room = "lobby" /\ ~log.storagePaused /\ log.matches < MaxMatches
  BY DEF TypedLog, StartMatch, Usable
<1>2. PICK l \in Flush(o, <<"update", "start">>, FALSE) : Commit(l)
  BY <1>1 DEF StartMatch, Log
<1>3. log.matches + 1 \in 0 .. MaxMatches
  <2>1. log.matches \in 0 .. MaxMatches
    BY <1>1 DEF Log
  <2>2. MaxMatches \in Nat
    BY EventLogAssumption
  <2> QED
    BY <1>1, <2>1, <2>2
<1>4. /\ o \in Log /\ o.built = log.built /\ o.published = log.published
      /\ o.stored = log.stored /\ o.boundary = log.boundary /\ o.room = "match"
      /\ o.storagePaused = log.storagePaused /\ o.pending = log.pending
      /\ o.retryDue = log.retryDue /\ o.retryAttempt = log.retryAttempt
  BY <1>1, <1>3 DEF Log
<1> HIDE DEF o
<1>5. <<"update", "start">> \in Seq(Kinds)
  BY DEF Kinds
<1>6. TypedLog(o)
  BY <1>4 DEF TypedLog
<1>7. /\ Extends(log, o) /\ (Committed(log) => Committed(o))
      /\ \A ids : Continues(log, ids) => Continues(o, ids)
  BY <1>1, <1>4, SameStream
<1>8. LogInv(log) => LogInv(o) /\ ~o.storagePaused
  BY <1>1, <1>4, <1>7 DEF LogInv, Committed
<1>9. /\ TypedLog(l) /\ Extends(o, l)
      /\ LogInv(o) /\ o.room # "closed" /\ ~o.storagePaused => LogInv(l)
  BY <1>5, <1>6, FlushFacts
<1>10. Extends(log, l)
  BY <1>1, <1>4, <1>7, <1>9, ExtendsTrans DEF TypedLog
<1> QED
  BY <1>2, <1>4, <1>8, <1>9, <1>10 DEF RoomStep

LEMMA MatchChangeStep ==
  ASSUME TypedLog(log), MatchChange
  PROVE  \E l : RoomStep(l)
<1>1. log \in Log /\ log.room = "match" /\ ~log.storagePaused
  BY DEF TypedLog, MatchChange, Usable
<1>2. PICK n \in 1 .. 2, away \in BOOLEAN :
        \E l \in Flush([log EXCEPT !.away = away], [i \in 1 .. n |-> "play"], FALSE) : Commit(l)
  BY DEF MatchChange
<1> DEFINE o == [log EXCEPT !.away = away]
           batch == [i \in 1 .. n |-> "play"]
<1>3. PICK l \in Flush(o, batch, FALSE) : Commit(l)
  BY <1>2
<1>4. /\ o \in Log /\ o.built = log.built /\ o.published = log.published
      /\ o.stored = log.stored /\ o.boundary = log.boundary /\ o.room = "match"
      /\ o.storagePaused = log.storagePaused /\ o.pending = log.pending
      /\ o.retryDue = log.retryDue /\ o.retryAttempt = log.retryAttempt
  BY <1>1 DEF Log
<1>5. batch \in Seq(Kinds)
  BY DEF Kinds
<1> HIDE DEF o, batch
<1>6. TypedLog(o)
  BY <1>4 DEF TypedLog
<1>7. /\ Extends(log, o) /\ (Committed(log) => Committed(o))
      /\ \A ids : Continues(log, ids) => Continues(o, ids)
  BY <1>1, <1>4, SameStream
<1>8. LogInv(log) => LogInv(o) /\ ~o.storagePaused
  BY <1>1, <1>4, <1>7 DEF LogInv, Committed
<1>9. /\ TypedLog(l) /\ Extends(o, l)
      /\ LogInv(o) /\ o.room # "closed" /\ ~o.storagePaused => LogInv(l)
  BY <1>5, <1>6, FlushFacts
<1>10. Extends(log, l)
  BY <1>1, <1>4, <1>7, <1>9, ExtendsTrans DEF TypedLog
<1> QED
  BY <1>3, <1>4, <1>8, <1>9, <1>10 DEF RoomStep

LEMMA SpectatorJoinsStep ==
  ASSUME TypedLog(log), SpectatorJoins
  PROVE  \E l : RoomStep(l)
<1>1. PICK l \in Flush(log, <<"update">>, FALSE) : Commit(l)
  BY DEF SpectatorJoins
<1>2. <<"update">> \in Seq(Kinds)
  BY DEF Kinds
<1>3. log.room = "match" /\ (log.storagePaused => OutageJoins)
  BY DEF SpectatorJoins
<1>4. /\ TypedLog(l) /\ Extends(log, l)
      /\ LogInv(log) /\ log.room # "closed" /\ ~log.storagePaused => LogInv(l)
  BY <1>2, FlushFacts
<1> QED
  BY <1>1, <1>3, <1>4 DEF RoomStep, Orderly

LEMMA FinishMatchStep ==
  ASSUME TypedLog(log), FinishMatch
  PROVE  \E l : RoomStep(l)
<1>1. PICK l \in Flush(log, <<"end", "update">>, TRUE) : Commit(l)
  BY DEF FinishMatch
<1>2. <<"end", "update">> \in Seq(Kinds)
  BY DEF Kinds
<1>3. log.room = "match" /\ ~log.storagePaused
  BY DEF FinishMatch, Usable
<1>4. /\ TypedLog(l) /\ Extends(log, l)
      /\ LogInv(log) /\ log.room # "closed" /\ ~log.storagePaused => LogInv(l)
  BY <1>2, FlushFacts
<1> QED
  BY <1>1, <1>3, <1>4 DEF RoomStep

LEMMA DeferPresenceStep ==
  ASSUME TypedLog(log), DeferPresence
  PROVE  \E l : RoomStep(l)
<1>1. /\ log \in Log /\ log.room = "match" /\ log.storagePaused
      /\ log.retryDue => log.retryAttempt < StorageRetries
  BY DEF TypedLog, DeferPresence
<1>2. PICK away \in BOOLEAN, batch \in PresenceBatches(log) :
        Commit(Build([log EXCEPT !.away = away,
                                 !.pending = @ \o NewIDs(log, Len(batch)),
                                 !.retryDue = @ \/ (~away /\ ~log.retryDue),
                                 !.retryAttempt = IF ~away /\ ~log.retryDue THEN 0 ELSE @],
                     batch, log.boundary + Len(log.pending)))
  BY DEF DeferPresence
<1> DEFINE q == log.pending \o NewIDs(log, Len(batch))
           due == log.retryDue \/ (~away /\ ~log.retryDue)
           n == IF ~away /\ ~log.retryDue THEN 0 ELSE log.retryAttempt
           o == [log EXCEPT !.away = away, !.pending = q, !.retryDue = due, !.retryAttempt = n]
           base == log.boundary + Len(log.pending)
           l == Build(o, batch, base)
<1>3. batch \in Seq(Kinds)
  <2>1. <<"other">> \in Seq(Kinds) /\ <<"other", "play">> \in Seq(Kinds)
    BY DEF Kinds
  <2> QED
    BY <2>1, Zenon DEF PresenceBatches
<1>4. /\ log.pending \in Seq(EventID) /\ Len(log.pending) \in Nat /\ Len(batch) \in Nat
      /\ log.boundary \in Nat /\ base \in Nat
  BY <1>1, <1>3 DEF Log
<1>5. q \in Seq(EventID)
  <2>1. NewIDs(log, Len(batch)) \in Seq(EventID)
    BY <1>1, <1>4, NewIDsFacts, Zenon
  <2> QED
    BY <1>4, <2>1, ConcatIDs, Zenon
<1>6. due \in BOOLEAN /\ n \in 0 .. StorageRetries /\ (due => n < StorageRetries)
  <2>1. log.retryAttempt \in 0 .. StorageRetries /\ 0 \in 0 .. StorageRetries /\ 0 < StorageRetries
    BY <1>1 DEF Log, StorageRetries
  <2> QED
    BY <1>1, <2>1
<1>7. Commit(l)
  BY <1>1, <1>2 DEF Log
<1> HIDE DEF q, due, n, base
<1>8. /\ o \in Log /\ o.built = log.built /\ o.published = log.published
      /\ o.stored = log.stored /\ o.boundary = log.boundary /\ o.room = "match"
      /\ o.storagePaused = log.storagePaused /\ o.pending = q
      /\ o.retryDue = due /\ o.retryAttempt = n
  BY <1>1, <1>5, <1>6 DEF Log
<1> HIDE DEF o
<1>9. /\ Extends(log, o) /\ (Committed(log) => Committed(o))
      /\ \A ids : Continues(log, ids) => Continues(o, ids)
  BY <1>1, <1>8, SameStream
<1>10. l \in Log /\ SameFlags(o, l) /\ l.pending = o.pending
  BY <1>3, <1>4, <1>8, BuildKeeps
<1>11. Extends(o, l) /\ (Committed(o) => Committed(l))
  BY <1>3, <1>4, <1>8, BuildStream
<1>12. Continues(o, log.pending) => Continues(l, q)
  <2>1. base = o.boundary + Len(log.pending)
    BY <1>8 DEF base
  <2>2. q = log.pending \o NewIDs(o, Len(batch))
    BY <1>8 DEF q, NewIDs
  <2> QED
    BY <1>3, <1>8, <2>1, <2>2, BuildContinues
<1> HIDE DEF l
<1>13. Extends(log, l)
  BY <1>1, <1>8, <1>9, <1>10, <1>11, ExtendsTrans
<1>14. TypedLog(l)
  BY <1>6, <1>8, <1>10 DEF TypedLog, SameFlags
<1>15. l.room = "match" /\ l.storagePaused /\ l.pending = q
  BY <1>1, <1>8, <1>10 DEF SameFlags
<1>16. LogInv(log) => LogInv(l)
  BY <1>1, <1>9, <1>11, <1>12, <1>15 DEF LogInv, Committed
<1> QED
  BY <1>7, <1>13, <1>14, <1>16 DEF RoomStep

LEMMA RetryFailsStep ==
  ASSUME TypedLog(log), RetryFails
  PROVE  \E l : RoomStep(l)
<1> DEFINE f == [log EXCEPT !.retryAttempt = log.retryAttempt + 1, !.retryDue = FALSE]
           r == [f EXCEPT !.retryDue = TRUE]
<1>1. log \in Log /\ log.retryDue /\ log.retryAttempt < StorageRetries
  BY DEF TypedLog, RetryFails
<1>2. \/ f.retryAttempt < StorageRetries /\ Commit(r)
      \/ Commit(f)
      \/ \E l \in InvalidateMatch(f) : Commit(l)
  BY <1>1 DEF RetryFails, Log
<1>3. log.retryAttempt + 1 \in 0 .. StorageRetries
  BY <1>1 DEF Log, StorageRetries
<1>4. /\ f \in Log /\ f.built = log.built /\ f.published = log.published
      /\ f.stored = log.stored /\ f.boundary = log.boundary /\ f.room = log.room
      /\ f.storagePaused = log.storagePaused /\ f.pending = log.pending /\ f.retryDue = FALSE
  BY <1>1, <1>3 DEF Log
<1> HIDE DEF f
<1>5. /\ r \in Log /\ r.built = f.built /\ r.published = f.published
      /\ r.stored = f.stored /\ r.boundary = f.boundary /\ r.room = f.room
      /\ r.storagePaused = f.storagePaused /\ r.pending = f.pending
      /\ r.retryAttempt = f.retryAttempt
  BY <1>4 DEF Log
<1> HIDE DEF r
<1>6. /\ Extends(log, f) /\ (Committed(log) => Committed(f)) /\ (Sound(log) => Sound(f))
      /\ \A ids : Continues(log, ids) => Continues(f, ids)
  BY <1>1, <1>4, SameStream
<1>7. /\ Extends(f, r) /\ (Committed(f) => Committed(r)) /\ (Sound(f) => Sound(r))
      /\ \A ids : Continues(f, ids) => Continues(r, ids)
  BY <1>4, <1>5, SameStream
<1>8. LogInv(log) => LogInv(f) /\ log.storagePaused
  BY <1>1, <1>4, <1>6 DEF LogInv
<1>9. CASE f.retryAttempt < StorageRetries /\ Commit(r)
  <2>1. TypedLog(r)
    BY <1>5, <1>9 DEF TypedLog
  <2>2. Extends(log, r)
    BY <1>1, <1>4, <1>5, <1>6, <1>7, ExtendsTrans, Zenon
  <2>3. LogInv(log) => LogInv(r)
    BY <1>4, <1>5, <1>7, <1>8 DEF LogInv
  <2> QED
    BY <1>9, <2>1, <2>2, <2>3 DEF RoomStep
<1>10. CASE Commit(f)
  <2>1. TypedLog(f)
    BY <1>4 DEF TypedLog
  <2> QED
    BY <1>6, <1>8, <1>10, <2>1 DEF RoomStep
<1>11. CASE \E l \in InvalidateMatch(f) : Commit(l)
  <2>1. PICK l \in InvalidateMatch(f) : Commit(l)
    BY <1>11
  <2>2. /\ TypedLog(l) /\ Extends(f, l)
        /\ ~LastSaveFails /\ Committed(f) /\ Continues(f, f.pending) => LogInv(l)
    BY <1>4, InvalidateMatchFacts
  <2>3. Extends(log, l)
    BY <1>1, <1>4, <1>6, <2>2, ExtendsTrans DEF TypedLog
  <2>4. LogInv(f) /\ log.storagePaused => Committed(f) /\ Continues(f, f.pending)
    BY <1>4 DEF LogInv
  <2> QED
    BY <1>8, <2>1, <2>2, <2>3, <2>4 DEF RoomStep, Orderly
<1> QED
  BY <1>2, <1>9, <1>10, <1>11

LEMMA RetrySucceedsStep ==
  ASSUME TypedLog(log), RetrySucceeds
  PROVE  \E l : RoomStep(l)
<1> DEFINE p == Publish(Save(log, log.pending), log.pending)
           v == [p EXCEPT !.retryDue = FALSE]
<1>1. log \in Log /\ log.retryDue /\ log.pending \in Seq(EventID)
  BY DEF TypedLog, RetrySucceeds, Log
<1>2. \/ Commit(Detach(v))
      \/ \E l \in Resume(v) :
           \/ Commit(l)
           \/ ~l.storagePaused /\ \E t \in Flush(l, <<"play">>, FALSE) : Commit(t)
  BY DEF RetrySucceeds
<1>3. /\ p \in Log /\ SameFlags(log, p) /\ Extends(log, p)
      /\ Committed(log) /\ Continues(log, log.pending) => Committed(p)
  BY <1>1, SavedBatch
<1> HIDE DEF p
<1>4. /\ v \in Log /\ v.built = p.built /\ v.published = p.published
      /\ v.stored = p.stored /\ v.boundary = p.boundary /\ v.room = p.room
      /\ v.storagePaused = p.storagePaused /\ v.retryDue = FALSE
  BY <1>3 DEF Log
<1> HIDE DEF v
<1>5. Extends(p, v) /\ (Committed(p) => Committed(v))
  BY <1>3, <1>4, SameStream
<1>6. Extends(log, v)
  BY <1>1, <1>3, <1>4, <1>5, ExtendsTrans
<1>7. v.room = log.room /\ v.storagePaused = log.storagePaused
  BY <1>3, <1>4 DEF SameFlags
<1>8. LogInv(log) => Committed(v) /\ v.room = "match" /\ v.storagePaused
  BY <1>1, <1>3, <1>5, <1>7 DEF LogInv
<1>9. CASE Commit(Detach(v))
  <2> DEFINE d == Detach(v)
  <2>1. TypedLog(d) /\ Extends(v, d) /\ (Committed(v) => LogInv(d))
    BY <1>4, DetachFacts
  <2> HIDE DEF d
  <2>2. Extends(log, d)
    BY <1>1, <1>4, <1>6, <2>1, ExtendsTrans DEF TypedLog
  <2>3. Commit(d)
    BY <1>9 DEF d
  <2> QED
    BY <1>8, <2>1, <2>2, <2>3 DEF RoomStep
<1>10. ASSUME NEW l \in Resume(v)
       PROVE  /\ TypedLog(l) /\ Extends(log, l) /\ l.room = log.room
              /\ LogInv(log) => LogInv(l)
  <2>1. /\ TypedLog(l) /\ Extends(v, l) /\ l.room = v.room
        /\ Committed(v) /\ v.room = "match" /\ v.storagePaused => LogInv(l)
    BY <1>4, ResumeFacts
  <2>2. Extends(log, l)
    BY <1>1, <1>4, <1>6, <2>1, ExtendsTrans DEF TypedLog
  <2> QED
    BY <1>7, <1>8, <2>1, <2>2
<1>11. ASSUME NEW l \in Resume(v), Commit(l)
       PROVE  \E x : RoomStep(x)
  BY <1>10, <1>11 DEF RoomStep
<1>12. ASSUME NEW l \in Resume(v), ~l.storagePaused,
              NEW t \in Flush(l, <<"play">>, FALSE), Commit(t)
       PROVE  \E x : RoomStep(x)
  <2>1. <<"play">> \in Seq(Kinds)
    BY DEF Kinds
  <2>2. TypedLog(l) /\ Extends(log, l) /\ l.room = log.room /\ (LogInv(log) => LogInv(l))
    BY <1>10
  <2>3. /\ TypedLog(t) /\ Extends(l, t)
        /\ LogInv(l) /\ l.room # "closed" /\ ~l.storagePaused => LogInv(t)
    BY <2>1, <2>2, FlushFacts
  <2>4. Extends(log, t)
    BY <1>1, <2>2, <2>3, ExtendsTrans DEF TypedLog
  <2>5. LogInv(log) => l.room # "closed"
    BY <1>7, <1>8, <2>2
  <2> QED
    BY <1>12, <2>2, <2>3, <2>4, <2>5 DEF RoomStep
<1> QED
  BY <1>2, <1>9, <1>11, <1>12, Zenon

LEMMA PresenceExpiresStep ==
  ASSUME TypedLog(log), PresenceExpires
  PROVE  \E l : RoomStep(l)
<1>1. PICK l \in TerminateDisconnectedMatch(log) : Commit(l)
  BY DEF PresenceExpires
<1>2. log \in Log /\ log.room = "match"
  BY DEF TypedLog, PresenceExpires
<1>3. /\ TypedLog(l) /\ Extends(log, l)
      /\ ~LastSaveFails /\ Committed(log) /\ Continues(log, log.pending) => LogInv(l)
  BY <1>2, TerminateFacts
<1>4. LogInv(log) => Committed(log) /\ Continues(log, log.pending)
  BY <1>2 DEF LogInv
<1> QED
  BY <1>1, <1>3, <1>4 DEF RoomStep, Orderly

\* A session's own step.
HubStep ==
  \E s \in Subscribers : Subscribe(s) \/ Receive(s) \/ Unsubscribe(s) \/ ReconnectBundle(s)

\* Every step is the room's, a session's, or none.
LEMMA EveryStep ==
  ASSUME TypedLog(log), [Next]_vars
  PROVE  (\E l : RoomStep(l)) \/ HubStep \/ UNCHANGED vars
BY CreateStep, LobbyChangeStep, LastHumanLeavesStep, StartMatchStep, MatchChangeStep,
   SpectatorJoinsStep, FinishMatchStep, DeferPresenceStep, RetryFailsStep,
   RetrySucceedsStep, PresenceExpiresStep, Zenon DEF Next, HubStep
-----------------------------------------------------------------------------
(* What a session gets *)

\* The sequence a begins b.
Begins(a, b) == Len(a) <= Len(b) /\ a = SubSeq(b, 1, Len(a))

Got(sub) == sub.seen \o sub.queue

Cache(sub) == IF sub.cached = 0 THEN <<>> ELSE <<sub.cached>>

Sent(sub, l) == Cache(sub) \o SubSeq(l.published, sub.start + 1, Len(l.published))

\* A subscription in order: it has its type, it started when no more had been
\* broadcast than now, and it got the beginning of what was sent to it, all of
\* it while it is open.
InOrder(sub, l) ==
  /\ sub \in Subscription
  /\ sub.start <= Len(l.published)
  /\ Begins(Got(sub), Sent(sub, l))
  /\ sub.open => Got(sub) = Sent(sub, l)

\* The session's last snapshot and when it subscribed.
SameSnapshot(sub, t) ==
  t.start = sub.start /\ t.snapshot = sub.snapshot /\ t.applied = sub.applied

\* The subscription after one event was read from its channel.
Read(sub) == [sub EXCEPT !.queue = Tail(@), !.seen = Append(@, Head(sub.queue))]

LEMMA BeginsItself ==
  ASSUME NEW a \in Seq(EventID)
  PROVE  Begins(a, a)
BY SubSeqFull DEF Begins

LEMMA BeginsLonger ==
  ASSUME NEW a \in Seq(EventID), NEW b \in Seq(EventID), NEW c \in Seq(EventID), Begins(a, b)
  PROVE  Begins(a, b \o c)
<1> DEFINE d == SubSeq(b \o c, 1, Len(a))
<1>1. Len(a) \in Nat /\ Len(b) \in Nat /\ Len(c) \in Nat /\ Len(a) <= Len(b)
  BY DEF Begins
<1>2. /\ b \o c \in Seq(EventID) /\ Len(b \o c) = Len(b) + Len(c)
      /\ \A i \in 1 .. Len(b) : (b \o c)[i] = b[i]
  BY ConcatIDs, Zenon
<1>3. d \in Seq(EventID) /\ Len(d) = Len(a) /\ \A i \in 1 .. Len(a) : d[i] = (b \o c)[i]
  BY <1>1, <1>2
<1>4. \A i \in 1 .. Len(a) : a[i] = b[i]
  BY <1>1 DEF Begins
<1>5. \A i \in 1 .. Len(a) : i \in 1 .. Len(b)
  BY <1>1
<1>6. a = d
  <2>1. \A i \in 1 .. Len(a) : a[i] = d[i]
    BY <1>2, <1>3, <1>4, <1>5
  <2> QED
    BY <1>3, <2>1, SeqEqual
<1> QED
  BY <1>1, <1>2, <1>6 DEF Begins

\* A batch of which only the first n events fit.
LEMMA BeginsCut ==
  ASSUME NEW a \in Seq(EventID), NEW c \in Seq(EventID), NEW n \in Int, n < Len(c)
  PROVE  /\ SubSeq(c, 1, n) \in Seq(EventID)
         /\ Begins(a \o SubSeq(c, 1, n), a \o c)
<1> DEFINE d == SubSeq(c, 1, n)
           e == SubSeq(a \o c, 1, Len(a \o d))
<1>1. Len(a) \in Nat /\ Len(c) \in Nat
  OBVIOUS
<1>2. d \in Seq(EventID) /\ Len(d) <= Len(c) /\ \A i \in 1 .. Len(d) : d[i] = c[i]
  BY <1>1
<1>3. Len(d) \in Nat
  BY <1>2
<1> HIDE DEF d
<1>4. /\ a \o c \in Seq(EventID) /\ Len(a \o c) = Len(a) + Len(c)
      /\ \A i \in 1 .. Len(a) : (a \o c)[i] = a[i]
      /\ \A i \in 1 .. Len(c) : (a \o c)[Len(a) + i] = c[i]
  BY ConcatIDs, Zenon
<1>5. /\ a \o d \in Seq(EventID) /\ Len(a \o d) = Len(a) + Len(d)
      /\ \A i \in 1 .. Len(a) : (a \o d)[i] = a[i]
      /\ \A i \in 1 .. Len(d) : (a \o d)[Len(a) + i] = d[i]
  BY <1>2, ConcatIDs, Zenon
<1>6. Len(a \o d) <= Len(a \o c) /\ Len(a \o d) \in Nat /\ Len(a \o c) \in Nat
  BY <1>1, <1>2, <1>3, <1>4, <1>5
<1>7. /\ e \in Seq(EventID) /\ Len(e) = Len(a \o d)
      /\ \A i \in 1 .. Len(a \o d) : e[i] = (a \o c)[i]
  BY <1>4, <1>6
<1> HIDE DEF e
<1>8. ASSUME NEW i \in 1 .. Len(a \o d)
      PROVE  (a \o d)[i] = e[i]
  <2>1. CASE i \in 1 .. Len(a)
    BY <1>4, <1>5, <1>7, <2>1
  <2>2. CASE i \notin 1 .. Len(a)
    <3> DEFINE j == i - Len(a)
    <3>1. j \in 1 .. Len(d) /\ j \in 1 .. Len(c) /\ i = Len(a) + j
      BY <1>1, <1>2, <1>3, <1>5, <2>2
    <3> HIDE DEF j
    <3>2. (a \o d)[i] = d[j] /\ (a \o c)[i] = c[j] /\ d[j] = c[j]
      BY <1>2, <1>4, <1>5, <3>1
    <3> QED
      BY <1>7, <3>2
  <2> QED
    BY <2>1, <2>2
<1>9. a \o d = e
  BY <1>5, <1>7, <1>8, SeqEqual
<1> QED
  BY <1>2, <1>6, <1>9 DEF Begins, d, e

\* The part of a sequence behind k.
LEMMA SuffixFacts ==
  ASSUME NEW p \in Seq(EventID), NEW k \in Nat, k <= Len(p)
  PROVE  /\ SubSeq(p, k + 1, Len(p)) \in Seq(EventID)
         /\ Len(SubSeq(p, k + 1, Len(p))) = Len(p) - k
         /\ \A i \in 1 .. Len(p) - k : SubSeq(p, k + 1, Len(p))[i] = p[k + i]
OBVIOUS

\* The part of a sequence behind k grows with the sequence.
LEMMA SuffixGrows ==
  ASSUME NEW p \in Seq(EventID), NEW a \in Seq(EventID), NEW k \in Nat, k <= Len(p)
  PROVE  /\ SubSeq(p, k + 1, Len(p)) \in Seq(EventID)
         /\ SubSeq(p \o a, k + 1, Len(p \o a)) = SubSeq(p, k + 1, Len(p)) \o a
<1> DEFINE u == SubSeq(p, k + 1, Len(p))
           v == SubSeq(p \o a, k + 1, Len(p \o a))
<1>1. Len(p) \in Nat /\ Len(a) \in Nat
  OBVIOUS
<1>2. u \in Seq(EventID) /\ Len(u) = Len(p) - k /\ \A i \in 1 .. Len(u) : u[i] = p[k + i]
  BY <1>1
<1>3. /\ p \o a \in Seq(EventID) /\ Len(p \o a) = Len(p) + Len(a)
      /\ \A i \in 1 .. Len(p) : (p \o a)[i] = p[i]
      /\ \A i \in 1 .. Len(a) : (p \o a)[Len(p) + i] = a[i]
  BY ConcatIDs, Zenon
<1>4. /\ v \in Seq(EventID) /\ Len(v) = Len(p) + Len(a) - k
      /\ \A i \in 1 .. Len(v) : v[i] = (p \o a)[k + i]
  <2> PICK w : w = p \o a
    OBVIOUS
  <2>1. w \in Seq(EventID) /\ Len(w) = Len(p) + Len(a) /\ k <= Len(w)
    BY <1>1, <1>3
  <2>2. /\ SubSeq(w, k + 1, Len(w)) \in Seq(EventID)
        /\ Len(SubSeq(w, k + 1, Len(w))) = Len(w) - k
        /\ \A i \in 1 .. Len(w) - k : SubSeq(w, k + 1, Len(w))[i] = w[k + i]
    BY <2>1, SuffixFacts
  <2>3. v = SubSeq(w, k + 1, Len(w))
    OBVIOUS
  <2> HIDE DEF u, v
  <2>4. v \in Seq(EventID) /\ Len(v) = Len(w) - k
    BY <2>2, <2>3
  <2>5. \A i \in 1 .. Len(v) : v[i] = w[k + i]
    BY <2>2, <2>3, <2>4, Zenon
  <2>6. Len(v) = Len(p) + Len(a) - k
    BY <2>1, <2>4
  <2> QED
    BY <2>4, <2>5, <2>6, Zenon
<1> HIDE DEF u, v
<1>5. /\ u \o a \in Seq(EventID) /\ Len(u \o a) = Len(u) + Len(a)
      /\ \A i \in 1 .. Len(u) : (u \o a)[i] = u[i]
      /\ \A i \in 1 .. Len(a) : (u \o a)[Len(u) + i] = a[i]
  BY <1>2, ConcatIDs, Zenon
<1>6. Len(u) \in Nat /\ Len(v) = Len(u \o a)
  BY <1>1, <1>2, <1>4, <1>5
<1>7. ASSUME NEW i \in 1 .. Len(v)
      PROVE  v[i] = (u \o a)[i]
  <2>1. CASE i \in 1 .. Len(u)
    <3>1. k + i \in 1 .. Len(p)
      BY <1>1, <1>2, <2>1
    <3> QED
      BY <1>2, <1>3, <1>4, <1>5, <2>1, <3>1
  <2>2. CASE i \notin 1 .. Len(u)
    <3> DEFINE j == i - Len(u)
    <3>1. j \in 1 .. Len(a) /\ i = Len(u) + j /\ k + i = Len(p) + j
      BY <1>1, <1>2, <1>4, <1>6, <2>2
    <3> HIDE DEF j
    <3> QED
      BY <1>3, <1>4, <1>5, <3>1
  <2> QED
    BY <2>1, <2>2
<1>8. v = u \o a
  BY <1>4, <1>5, <1>6, <1>7, SeqEqual
<1> QED
  BY <1>2, <1>8 DEF u, v

LEMMA CacheIsIDs ==
  ASSUME NEW n \in Nat
  PROVE  (IF n = 0 THEN <<>> ELSE <<n>>) \in Seq(EventID)
<1>1. <<>> \in Seq(EventID)
  BY EmptySeq
<1>2. n # 0 => <<n>> \in Seq(EventID)
  BY DEF EventID
<1> QED
  BY <1>1, <1>2, Zenon

LEMMA SameSent ==
  ASSUME NEW sub, NEW t, NEW l, t.cached = sub.cached, t.start = sub.start
  PROVE  Sent(t, l) = Sent(sub, l)
BY DEF Sent, Cache

LEMMA SubscriptionTypes ==
  ASSUME NEW sub \in Subscription
  PROVE  /\ sub.open \in BOOLEAN /\ sub.queue \in Seq(EventID) /\ sub.seen \in Seq(EventID)
         /\ sub.start \in Nat /\ Cache(sub) \in Seq(EventID) /\ Got(sub) \in Seq(EventID)
         /\ Len(sub.queue) \in Nat
<1>1. /\ sub.open \in BOOLEAN /\ sub.queue \in Seq(EventID) /\ sub.seen \in Seq(EventID)
      /\ sub.start \in Nat /\ sub.cached \in Nat
  BY DEF Subscription
<1>2. Cache(sub) \in Seq(EventID)
  BY <1>1, CacheIsIDs, Zenon DEF Cache
<1>3. Got(sub) \in Seq(EventID) /\ Len(sub.queue) \in Nat
  BY <1>1 DEF Got
<1> QED
  BY <1>1, <1>2, <1>3

\* What the room broadcasts reaches an open subscription in order, up to the
\* event that closes it.
LEMMA DeliverInOrder ==
  ASSUME NEW l \in Log, NEW m \in Log, NEW ids \in Seq(EventID),
         m.published = l.published \o ids,
         NEW sub, InOrder(sub, l)
  PROVE  /\ InOrder(Deliver(sub, ids), m)
         /\ SameSnapshot(sub, Deliver(sub, ids))
<1>0. SUFFICES ASSUME NEW t, t = Deliver(sub, ids)
               PROVE  InOrder(t, m) /\ SameSnapshot(sub, t)
  OBVIOUS
<1> DEFINE free == Buffer - Len(sub.queue)
           part == SubSeq(ids, 1, free)
<1>1. sub \in Subscription /\ sub.start <= Len(l.published)
  BY DEF InOrder
<1>2. /\ sub.open \in BOOLEAN /\ sub.queue \in Seq(EventID) /\ sub.seen \in Seq(EventID)
      /\ sub.start \in Nat /\ Cache(sub) \in Seq(EventID) /\ Got(sub) \in Seq(EventID)
      /\ Len(sub.queue) \in Nat
  BY <1>1, SubscriptionTypes, Zenon
<1>3. free \in Int /\ Len(ids) \in Nat
  BY <1>2, EventLogAssumption
<1>4. l.published \in Seq(EventID) /\ Len(l.published) \in Nat
  BY DEF Log
<1>5. sub.start <= Len(m.published)
  BY <1>1, <1>2, <1>3, <1>4
<1>6. Sent(sub, m) = Sent(sub, l) \o ids /\ Sent(sub, l) \in Seq(EventID)
  <2> DEFINE u == SubSeq(l.published, sub.start + 1, Len(l.published))
  <2>1. /\ u \in Seq(EventID)
        /\ SubSeq(m.published, sub.start + 1, Len(m.published)) = u \o ids
    <3>1. /\ u \in Seq(EventID)
          /\ SubSeq(l.published \o ids, sub.start + 1, Len(l.published \o ids)) = u \o ids
      BY <1>1, <1>2, <1>4, SuffixGrows, Zenon
    <3> QED
      BY <3>1
  <2>2. Sent(sub, m) = Cache(sub) \o (u \o ids)
    BY <2>1 DEF Sent
  <2>3. Sent(sub, l) = Cache(sub) \o u
    BY DEF Sent
  <2> HIDE DEF u
  <2>4. Cache(sub) \o u \in Seq(EventID) /\ (Cache(sub) \o u) \o ids = Cache(sub) \o (u \o ids)
    <3>1. Cache(sub) \o u \in Seq(EventID)
      BY <1>2, <2>1, ConcatIDs, Zenon
    <3>2. Cache(sub) \in Seq(EventID) /\ u \in Seq(EventID) /\ ids \in Seq(EventID)
      BY <1>2, <2>1
    <3>3. (Cache(sub) \o u) \o ids = Cache(sub) \o (u \o ids)
      BY <3>2, AddedTwice
    <3> QED
      BY <3>1, <3>3
  <2> QED
    BY <2>2, <2>3, <2>4, Zenon
<1>7. CASE ~sub.open
  <2>1. t = sub
    BY <1>0, <1>7 DEF Deliver
  <2>2. Begins(Got(sub), Sent(sub, l))
    BY DEF InOrder
  <2>3. Begins(Got(sub), Sent(sub, m))
    BY <1>2, <1>6, <2>2, BeginsLonger
  <2> QED
    BY <1>1, <1>5, <1>7, <2>1, <2>3 DEF InOrder, SameSnapshot
<1>8. CASE sub.open /\ Len(ids) <= free
  <2>1. t = [sub EXCEPT !.queue = sub.queue \o ids]
    BY <1>0, <1>1, <1>8 DEF Deliver, Subscription
  <2>2. sub.queue \o ids \in Seq(EventID)
    BY <1>2, ConcatIDs, Zenon
  <2>3. /\ t \in Subscription /\ t.open = sub.open /\ t.seen = sub.seen
        /\ t.queue = sub.queue \o ids /\ t.cached = sub.cached /\ t.start = sub.start
        /\ t.snapshot = sub.snapshot /\ t.applied = sub.applied
    BY <1>1, <2>1, <2>2 DEF Subscription
  <2>4. Got(t) = Got(sub) \o ids
    <3>1. (sub.seen \o sub.queue) \o ids = sub.seen \o (sub.queue \o ids)
      BY <1>2, AddedTwice, Zenon
    <3> QED
      BY <2>3, <3>1 DEF Got
  <2>5. Sent(t, m) = Sent(sub, m)
    BY <2>3, SameSent
  <2>6. Got(t) = Sent(t, m)
    BY <1>6, <1>8, <2>4, <2>5 DEF InOrder
  <2>7. Got(t) \in Seq(EventID)
    BY <2>3, SubscriptionTypes, Zenon
  <2>8. Begins(Got(t), Sent(t, m))
    BY <2>6, <2>7, BeginsItself
  <2> QED
    BY <1>5, <1>8, <2>3, <2>6, <2>8 DEF InOrder, SameSnapshot
<1>9. CASE sub.open /\ ~(Len(ids) <= free)
  <2>0. free < Len(ids)
    BY <1>3, <1>9
  <2>1. t = [sub EXCEPT !.open = FALSE, !.queue = sub.queue \o part]
    BY <1>0, <1>1, <1>9 DEF Deliver, Subscription
  <2> HIDE DEF free
  <2>2. /\ part \in Seq(EventID)
        /\ Begins(Got(sub) \o part, Got(sub) \o ids)
    BY <1>2, <1>3, <2>0, BeginsCut
  <2> HIDE DEF part
  <2>3. sub.queue \o part \in Seq(EventID)
    BY <1>2, <2>2, ConcatIDs, Zenon
  <2>4. /\ t \in Subscription /\ t.open = FALSE /\ t.seen = sub.seen
        /\ t.queue = sub.queue \o part /\ t.cached = sub.cached /\ t.start = sub.start
        /\ t.snapshot = sub.snapshot /\ t.applied = sub.applied
    BY <1>1, <2>1, <2>3 DEF Subscription
  <2>5. Got(t) = Got(sub) \o part
    <3>1. sub.seen \in Seq(EventID) /\ sub.queue \in Seq(EventID) /\ part \in Seq(EventID)
      BY <1>2, <2>2
    <3>2. (sub.seen \o sub.queue) \o part = sub.seen \o (sub.queue \o part)
      BY <3>1, AddedTwice
    <3> QED
      BY <2>4, <3>2 DEF Got
  <2>6. Sent(t, m) = Sent(sub, m)
    BY <2>4, SameSent
  <2>7. Got(sub) \o ids = Sent(t, m)
    BY <1>6, <1>9, <2>6 DEF InOrder
  <2> QED
    BY <1>5, <2>2, <2>4, <2>5, <2>7 DEF InOrder, SameSnapshot
<1> QED
  BY <1>2, <1>7, <1>8, <1>9

\* A new subscription and one that was given up.
LEMMA SubscribeInOrder ==
  ASSUME NEW l \in Log, NEW n, n = Len(l.published), NEW c, c = l.lastRoomUpdated,
         NEW q, q = IF c = 0 THEN <<>> ELSE <<c>>, NEW t,
         t = [open |-> TRUE, queue |-> q, cached |-> c, start |-> n, seen |-> <<>>,
              snapshot |-> 0, applied |-> 0]
  PROVE  InOrder(t, l) /\ t.snapshot = 0
<1>1. c \in Nat /\ n \in Nat /\ l.published \in Seq(EventID)
  BY DEF Log
<1>2. <<>> \in Seq(EventID) /\ q \in Seq(EventID)
  BY <1>1, EmptySeq, CacheIsIDs, Zenon
<1>3. t.start = n /\ t.seen = <<>> /\ t.queue = q /\ t.snapshot = 0 /\ t.cached = c
  OBVIOUS
<1>4. t \in Subscription
  BY <1>1, <1>2 DEF Subscription
<1>5. Cache(t) = q
  BY <1>3 DEF Cache
<1>6. SubSeq(l.published, n + 1, n) = <<>>
  BY <1>1, SubSeqEmpty
<1>7. <<>> \o q = q /\ q \o <<>> = q
  BY <1>2, ConcatEmptySeq
<1>8. Sent(t, l) = q /\ Got(t) = q
  BY <1>3, <1>5, <1>6, <1>7 DEF Sent, Got
<1>9. Begins(Got(t), Sent(t, l))
  BY <1>2, <1>8, BeginsItself
<1> QED
  BY <1>1, <1>3, <1>4, <1>8, <1>9 DEF InOrder

LEMMA NoSubscriptionInOrder ==
  ASSUME NEW l \in Log
  PROVE  InOrder(NoSubscription, l) /\ NoSubscription.snapshot = 0
<1>1. <<>> \in Seq(EventID) /\ Len(<<>>) = 0 /\ <<>> \o <<>> = <<>>
  BY EmptySeq, NothingAdded
<1>2. l.published \in Seq(EventID) /\ Len(l.published) \in Nat
  BY DEF Log
<1>3. NoSubscription \in Subscription /\ NoSubscription.start = 0
  BY <1>1 DEF NoSubscription, Subscription
<1>4. Got(NoSubscription) = <<>> /\ ~NoSubscription.open /\ NoSubscription.snapshot = 0
  BY <1>1 DEF NoSubscription, Got
<1>5. Sent(NoSubscription, l) \in Seq(EventID)
  <2>1. SubSeq(l.published, 0 + 1, Len(l.published)) \in Seq(EventID)
    BY <1>2
  <2>2. Cache(NoSubscription) = <<>>
    BY DEF Cache, NoSubscription
  <2> QED
    BY <1>1, <1>3, <2>1, <2>2, ConcatIDs DEF Sent
<1>6. Begins(<<>>, Sent(NoSubscription, l))
  BY <1>1, <1>5, SubSeqEmpty DEF Begins
<1> QED
  BY <1>2, <1>3, <1>4, <1>6 DEF InOrder

\* Reading the channel moves an event, and changes nothing that was got.
LEMMA ReceiveInOrder ==
  ASSUME NEW l \in Log, NEW sub, InOrder(sub, l), sub.queue # <<>>
  PROVE  InOrder(Read(sub), l) /\ SameSnapshot(sub, Read(sub))
<1>0. SUFFICES ASSUME NEW t, t = Read(sub)
               PROVE  InOrder(t, l) /\ SameSnapshot(sub, t)
  OBVIOUS
<1> DEFINE q == sub.queue
           a == sub.seen
<1>1. sub \in Subscription
  BY DEF InOrder
<1>2. q \in Seq(EventID) /\ a \in Seq(EventID) /\ q # <<>>
  BY <1>1 DEF Subscription
<1>3. t = [sub EXCEPT !.queue = Tail(q), !.seen = Append(a, Head(q))]
  BY <1>0, <1>1 DEF Subscription, Read
<1> HIDE DEF q, a
<1>4. /\ Tail(q) \in Seq(EventID) /\ Head(q) \in EventID /\ Append(a, Head(q)) \in Seq(EventID)
  BY <1>2
<1>5. Append(a, Head(q)) \o Tail(q) = a \o q
  BY <1>2
<1>6. /\ t \in Subscription /\ t.queue = Tail(q) /\ t.seen = Append(a, Head(q))
      /\ t.open = sub.open /\ t.cached = sub.cached /\ t.start = sub.start
      /\ t.snapshot = sub.snapshot /\ t.applied = sub.applied
  BY <1>1, <1>3, <1>4 DEF Subscription
<1>7. Got(t) = Got(sub)
  BY <1>5, <1>6 DEF Got, q, a
<1>8. Sent(t, l) = Sent(sub, l)
  BY <1>6, SameSent
<1> QED
  BY <1>6, <1>7, <1>8 DEF InOrder, SameSnapshot
-----------------------------------------------------------------------------
(* The inductive invariants *)

\* What holds whatever the store does and whoever joins.
HubInv ==
  /\ TypedLog(log)
  /\ subs \in [Subscribers -> Subscription]
  /\ \A s \in Subscribers : InOrder(subs[s], log)

\* A snapshot covers what had been broadcast when it was taken, and the
\* subscription is older than it.
Covers(sub, l) ==
  sub.snapshot > 0 =>
    /\ sub.start <= sub.snapshot /\ sub.snapshot <= Len(l.published)
    /\ \A i \in 1 .. sub.snapshot : l.published[i] <= sub.applied

\* What holds of an orderly room.
OrderInv == LogInv(log) /\ \A s \in Subscribers : Covers(subs[s], log)

LEMMA InitInv ==
  ASSUME Init
  PROVE  HubInv /\ OrderInv
<1>1. <<>> \in Seq(EventID) /\ Len(<<>>) = 0 /\ DOMAIN <<>> = {}
  BY EmptySeq
<1>2. <<>> \in Seq([number : Nat \ {0}, kind : Kinds])
  BY EmptySeq
<1>3. 0 \in 0 .. MaxMatches /\ 0 \in 0 .. StorageRetries
  BY EventLogAssumption DEF StorageRetries
<1>4. log \in Log
  BY <1>1, <1>2, <1>3 DEF Init, Log
<1>5. /\ log.room = "none" /\ log.boundary = 0 /\ log.stored = {} /\ log.published = <<>>
      /\ log.pending = <<>> /\ ~log.storagePaused /\ ~log.retryDue
  BY DEF Init
<1>6. TypedLog(log)
  BY <1>4, <1>5 DEF TypedLog
<1>7. Committed(log)
  BY <1>1, <1>5 DEF Committed, Sound, KnownIDs
<1>8. Continues(log, log.pending)
  BY <1>5, NothingContinues
<1>9. LogInv(log)
  BY <1>5, <1>7, <1>8 DEF LogInv, Committed
<1>10. subs = [s \in Subscribers |-> NoSubscription]
  BY DEF Init
<1>11. InOrder(NoSubscription, log) /\ NoSubscription.snapshot = 0
  BY <1>4, NoSubscriptionInOrder
<1>12. NoSubscription \in Subscription
  BY <1>11 DEF InOrder
<1> QED
  BY <1>6, <1>9, <1>10, <1>11, <1>12 DEF HubInv, OrderInv, Covers

\* The hub gets exactly what the room broadcast.
LEMMA HubGetsBatch ==
  ASSUME TypedLog(log), NEW l, RoomStep(l)
  PROVE  \E ids \in Seq(EventID) :
           /\ l.published = log.published \o ids
           /\ subs' = [s \in Subscribers |-> Deliver(subs[s], ids)]
<1>1. log.published \in Seq(EventID)
  BY DEF TypedLog, Log
<1>2. PICK ids \in Seq(EventID) : l.published = log.published \o ids
  BY DEF RoomStep, Extends
<1>3. SubSeq(l.published, Len(log.published) + 1, Len(l.published)) = ids
  BY <1>1, <1>2, AddedPart
<1> QED
  BY <1>2, <1>3 DEF RoomStep, Commit

LEMMA RoomStepInv ==
  ASSUME HubInv, NEW l, RoomStep(l)
  PROVE  HubInv' /\ (Orderly /\ OrderInv => OrderInv')
<1>1. TypedLog(log) /\ log \in Log /\ TypedLog(l) /\ l \in Log /\ log' = l
  BY DEF HubInv, RoomStep, TypedLog, Commit
<1>2. PICK ids \in Seq(EventID) : /\ l.published = log.published \o ids
                                  /\ subs' = [s \in Subscribers |-> Deliver(subs[s], ids)]
  BY <1>1, HubGetsBatch
<1>3. ASSUME NEW s \in Subscribers
      PROVE  /\ InOrder(subs'[s], l)
             /\ subs'[s].start = subs[s].start /\ subs'[s].snapshot = subs[s].snapshot
             /\ subs'[s].applied = subs[s].applied
  <2>1. InOrder(subs[s], log) /\ subs'[s] = Deliver(subs[s], ids)
    BY <1>2 DEF HubInv
  <2>2. InOrder(Deliver(subs[s], ids), l) /\ SameSnapshot(subs[s], Deliver(subs[s], ids))
    BY <1>1, <1>2, <2>1, DeliverInOrder
  <2> QED
    BY <2>1, <2>2 DEF SameSnapshot
<1>4. HubInv'
  <2>1. subs' \in [Subscribers -> Subscription]
    <3>1. \A s \in Subscribers : Deliver(subs[s], ids) \in Subscription
      BY <1>2, <1>3 DEF InOrder
    <3> QED
      BY <1>2, <3>1
  <2> QED
    BY <1>1, <1>3, <2>1 DEF HubInv
<1>5. ASSUME Orderly, OrderInv
      PROVE  OrderInv'
  <2>1. LogInv(log')
    BY <1>1, <1>5 DEF OrderInv, RoomStep
  <2>2. ASSUME NEW s \in Subscribers
        PROVE  Covers(subs'[s], log')
    <3>1. Covers(subs[s], log) /\ subs[s] \in Subscription
      BY <1>5 DEF OrderInv, HubInv
    <3>2. log.published \in Seq(EventID) /\ Len(log.published) \in Nat /\ Len(ids) \in Nat
      <4>1. log.published \in Seq(EventID)
        BY <1>1 DEF Log
      <4> QED
        BY <4>1, LenProperties
    <3>3. /\ Len(l.published) = Len(log.published) + Len(ids)
          /\ \A i \in 1 .. Len(log.published) : l.published[i] = log.published[i]
      BY <1>2, <3>2, ConcatIDs
    <3>4. subs[s].snapshot \in Nat
      BY <3>1 DEF Subscription
    <3>5. ASSUME subs[s].snapshot > 0
          PROVE  /\ subs[s].start <= subs[s].snapshot
                 /\ subs[s].snapshot <= Len(l.published)
                 /\ \A i \in 1 .. subs[s].snapshot : l.published[i] <= subs[s].applied
      <4>1. /\ subs[s].start <= subs[s].snapshot /\ subs[s].snapshot <= Len(log.published)
            /\ \A i \in 1 .. subs[s].snapshot : log.published[i] <= subs[s].applied
        BY <3>1, <3>5 DEF Covers
      <4>2. subs[s].snapshot <= Len(l.published)
        BY <3>2, <3>3, <3>4, <4>1
      <4>3. \A i \in 1 .. subs[s].snapshot : i \in 1 .. Len(log.published)
        BY <3>2, <3>4, <4>1
      <4> QED
        BY <3>3, <4>1, <4>2, <4>3
    <3> QED
      BY <1>1, <1>3, <3>5 DEF Covers
  <2> QED
    BY <2>1, <2>2 DEF OrderInv
<1> QED
  BY <1>4, <1>5

\* A step of one session.
LEMMA OneSession ==
  ASSUME HubInv, log' = log, NEW s \in Subscribers, NEW t,
         subs' = [subs EXCEPT ![s] = t], InOrder(t, log), OrderInv => Covers(t, log)
  PROVE  HubInv' /\ (OrderInv => OrderInv')
<1>1. t \in Subscription
  BY DEF InOrder
<1>2. subs' \in [Subscribers -> Subscription]
  BY <1>1 DEF HubInv
<1>3. \A r \in Subscribers : subs'[r] = IF r = s THEN t ELSE subs[r]
  BY DEF HubInv
<1>4. HubInv'
  BY <1>2, <1>3 DEF HubInv
<1> QED
  BY <1>3, <1>4 DEF OrderInv

LEMMA HubStepInv ==
  ASSUME HubInv, HubStep
  PROVE  HubInv' /\ (OrderInv => OrderInv')
<1>1. TypedLog(log) /\ log \in Log /\ log' = log
  BY DEF HubInv, TypedLog, HubStep, Subscribe, Receive, Unsubscribe, ReconnectBundle
<1>2. PICK s \in Subscribers : Subscribe(s) \/ Receive(s) \/ Unsubscribe(s) \/ ReconnectBundle(s)
  BY DEF HubStep
<1>3. InOrder(subs[s], log) /\ (OrderInv => Covers(subs[s], log)) /\ subs[s] \in Subscription
  BY DEF HubInv, OrderInv
<1>4. CASE Subscribe(s)
  <2> DEFINE c == log.lastRoomUpdated
             n == Len(log.published)
             q == IF c = 0 THEN <<>> ELSE <<c>>
             t == [open |-> TRUE, queue |-> q, cached |-> c, start |-> n, seen |-> <<>>,
                   snapshot |-> 0, applied |-> 0]
  <2>1. subs' = [subs EXCEPT ![s] = t]
    <3> DEFINE r == [NoSubscription EXCEPT !.open = TRUE, !.cached = c, !.start = n, !.queue = q]
    <3>1. subs' = [subs EXCEPT ![s] = r]
      BY <1>4 DEF Subscribe
    <3>2. ASSUME NEW x, x = r
          PROVE  x = t
      BY <3>2 DEF NoSubscription
    <3>3. r = t
      BY <3>2
    <3> QED
      BY <3>1, <3>3
  <2>2. InOrder(t, log) /\ t.snapshot = 0
    BY <1>1, SubscribeInOrder
  <2> HIDE DEF t
  <2>3. Covers(t, log)
    BY <2>2 DEF Covers
  <2> QED
    BY <1>1, <2>1, <2>2, <2>3, OneSession
<1>5. CASE Receive(s)
  <2> DEFINE t == Read(subs[s])
  <2>1. subs' = [subs EXCEPT ![s] = t] /\ subs[s].queue # <<>>
    BY <1>3, <1>5 DEF Receive, Read, HubInv, Subscription
  <2>2. InOrder(t, log) /\ SameSnapshot(subs[s], t)
    BY <1>1, <1>3, <2>1, ReceiveInOrder
  <2> HIDE DEF t
  <2>3. OrderInv => Covers(t, log)
    BY <1>3, <2>2 DEF Covers, SameSnapshot
  <2> QED
    BY <1>1, <2>1, <2>2, <2>3, OneSession
<1>6. CASE Unsubscribe(s)
  <2>1. subs' = [subs EXCEPT ![s] = NoSubscription]
    BY <1>6 DEF Unsubscribe
  <2>2. InOrder(NoSubscription, log) /\ NoSubscription.snapshot = 0
    BY <1>1, NoSubscriptionInOrder
  <2>3. Covers(NoSubscription, log)
    BY <2>2 DEF Covers
  <2> QED
    BY <1>1, <2>1, <2>2, <2>3, OneSession
<1>7. CASE ReconnectBundle(s)
  <2> DEFINE n == Len(log.built)
             t == [subs[s] EXCEPT !.snapshot = log.boundary, !.applied = n]
  <2>1. subs' = [subs EXCEPT ![s] = t] /\ log.room = "match"
    BY <1>3, <1>7 DEF ReconnectBundle, HubInv, Subscription
  <2>2. log.boundary \in Nat /\ n \in Nat /\ log.published \in Seq(EventID)
    BY <1>1, BuiltFacts DEF Log
  <2> HIDE DEF n
  <2>3. /\ t \in Subscription /\ t.open = subs[s].open /\ t.seen = subs[s].seen
        /\ t.queue = subs[s].queue /\ t.cached = subs[s].cached /\ t.start = subs[s].start
        /\ t.snapshot = log.boundary /\ t.applied = n
    BY <1>3, <2>2 DEF Subscription
  <2> HIDE DEF t
  <2>4. Got(t) = Got(subs[s]) /\ Sent(t, log) = Sent(subs[s], log)
    BY <2>3, SameSent DEF Got
  <2>5. InOrder(t, log)
    BY <1>3, <2>3, <2>4 DEF InOrder
  <2>6. ASSUME OrderInv
        PROVE  Covers(t, log)
    <3>1. Committed(log)
      BY <2>1, <2>6 DEF OrderInv, LogInv
    <3>2. /\ log.boundary = Len(log.published)
          /\ \A i \in DOMAIN log.published : log.published[i] \in 1 .. n
      BY <3>1 DEF Committed, Sound, KnownIDs, n
    <3>3. DOMAIN log.published = 1 .. Len(log.published) /\ Len(log.published) \in Nat
      BY <2>2
    <3>4. t.start <= t.snapshot
      BY <1>3, <2>3, <3>2 DEF InOrder
    <3> QED
      BY <2>2, <2>3, <3>2, <3>3, <3>4 DEF Covers
  <2> QED
    BY <1>1, <2>1, <2>5, <2>6, OneSession
<1> QED
  BY <1>2, <1>4, <1>5, <1>6, <1>7

LEMMA StepInv ==
  ASSUME HubInv, [Next]_vars
  PROVE  HubInv' /\ (Orderly /\ OrderInv => OrderInv')
<1>1. CASE \E l : RoomStep(l)
  BY <1>1, RoomStepInv
<1>2. CASE HubStep
  BY <1>2, HubStepInv
<1>3. CASE UNCHANGED vars
  BY <1>3 DEF vars, HubInv, OrderInv
<1> QED
  BY <1>1, <1>2, <1>3, EveryStep DEF HubInv
\* The stored rows are as many as the stream is long.
LEMMA StoredCount ==
  ASSUME NEW l \in Log, Sound(l)
  PROVE  /\ Cardinality(l.stored) = Len(l.published)
         /\ {l.built[id].number : id \in l.stored} = 1 .. Len(l.published)
<1> DEFINE p == l.published
           n == Len(p)
<1>1. p \in Seq(EventID) /\ n \in Nat /\ DOMAIN p = 1 .. n
  BY DEF Log
<1>2. /\ \A i \in 1 .. n : l.built[p[i]].number = i
      /\ l.stored = {p[i] : i \in 1 .. n}
  BY <1>1 DEF Sound
<1> HIDE DEF p, n
<1>3. {l.built[id].number : id \in l.stored} = 1 .. n
  <2>1. \A id \in l.stored : l.built[id].number \in 1 .. n
    BY <1>2
  <2>2. \A i \in 1 .. n : p[i] \in l.stored /\ l.built[p[i]].number = i
    BY <1>2
  <2> QED
    BY <2>1, <2>2
<1>4. p \in [1 .. n -> l.stored]
  <2>1. p = [i \in 1 .. n |-> p[i]]
    BY <1>1 DEF n
  <2>2. \A i \in 1 .. n : p[i] \in l.stored
    BY <1>2
  <2> QED
    BY <2>1, <2>2
<1>5. \A i, j \in 1 .. n : p[i] = p[j] => i = j
  BY <1>2
<1>6. \A id \in l.stored : \E i \in 1 .. n : p[i] = id
  BY <1>2
<1>7. p \in Bijection(1 .. n, l.stored)
  BY <1>4, <1>5, <1>6, Fun_IsBij
<1>8. ExistsBijection(1 .. n, l.stored)
  BY <1>7 DEF ExistsBijection
<1>9. IsFiniteSet(1 .. n) /\ Cardinality(1 .. n) = n
  BY <1>1, FS_Interval
<1>10. Cardinality(l.stored) = n
  BY <1>8, <1>9, FS_Bijection
<1> QED
  BY <1>3, <1>10 DEF n, p

\* The stream of a log that is sound counts 1, 2, 3, ...
LEMMA StreamIsCount ==
  ASSUME NEW l \in Log, Sound(l)
  PROVE  /\ [i \in DOMAIN l.published |-> l.built[l.published[i]].number]
              = [i \in 1 .. Len(l.published) |-> i]
         /\ Len(l.published) \in Nat
<1>1. l.published \in Seq(EventID)
  BY DEF Log
<1>2. DOMAIN l.published = 1 .. Len(l.published) /\ Len(l.published) \in Nat
  BY <1>1
<1> QED
  BY <1>2 DEF Sound

\* A step only adds to what was broadcast.
LEMMA StreamGrows ==
  ASSUME TypedLog(log), [Next]_vars
  PROVE  Len(log.published) <= Len(log'.published)
<1>1. log.published \in Seq(EventID) /\ Len(log.published) \in Nat
  BY DEF TypedLog, Log
<1>2. ASSUME NEW l, RoomStep(l)
      PROVE  Len(log.published) <= Len(log'.published)
  <2>1. PICK ids \in Seq(EventID) : l.published = log.published \o ids
    BY <1>2 DEF RoomStep, Extends
  <2>2. log' = l
    BY <1>2 DEF RoomStep, Commit
  <2>3. Len(log.published \o ids) = Len(log.published) + Len(ids) /\ Len(ids) \in Nat
    BY <1>1
  <2> QED
    BY <1>1, <2>1, <2>2, <2>3
<1>3. CASE HubStep \/ UNCHANGED vars
  <2>1. log' = log
    BY <1>3 DEF vars, HubStep, Subscribe, Receive, Unsubscribe, ReconnectBundle
  <2> QED
    BY <1>1, <2>1
<1> QED
  BY <1>2, <1>3, EveryStep
-----------------------------------------------------------------------------
(* Game logs *)

\* No GAME_STARTED was built after the event i, up to the event j: the two
\* belong to one match.
Quiet(b, i, j) == \A k \in (i + 1) .. j : b[k].kind # "start"

\* A row that deriveGameLogs reads.
IsGame(b, i) == b[i].kind \in GameLogKinds

\* Of the first n events: behind a GAME_ENDED a match has at most one row, a
\* second GAME_ENDED.
Ends(b, n) ==
  \A e, r \in 1 .. n :
    e < r /\ b[e].kind = "end" /\ IsGame(b, r) /\ Quiet(b, e, r) =>
      /\ b[r].kind = "end"
      /\ \A q \in 1 .. n : r < q /\ Quiet(b, r, q) => ~IsGame(b, q)

\* The last match has no GAME_ENDED yet.
Open(b, n) == \A e \in 1 .. n : b[e].kind = "end" => ~Quiet(b, e, n)

\* The last match has no row behind its GAME_ENDED.
Ended(b, n) ==
  \A e \in 1 .. n : b[e].kind = "end" /\ Quiet(b, e, n) => \A q \in 1 .. n : e < q => ~IsGame(b, q)

\* Fewer events of one match are events of one match.
LEMMA QuietPart ==
  ASSUME NEW b, NEW i \in Int, NEW j \in Int, NEW m \in Int, j <= m, Quiet(b, i, m)
  PROVE  Quiet(b, i, j)
  BY DEF Quiet

\* So are those between three events.
LEMMA QuietJoin ==
  ASSUME NEW b, NEW i \in Int, NEW j \in Int, NEW m \in Int, Quiet(b, i, j), Quiet(b, j, m)
  PROVE  Quiet(b, i, m)
<1> SUFFICES ASSUME NEW k \in (i + 1) .. m PROVE b[k].kind # "start"
  BY DEF Quiet
<1>1. CASE k <= j
  BY <1>1 DEF Quiet
<1>2. CASE k > j
  <2>1. k \in (j + 1) .. m
    BY <1>2
  <2> QED
    BY <2>1 DEF Quiet
<1> QED
  BY <1>1, <1>2

\* Events that no game log reads change none of this.
LEMMA AddOthers ==
  ASSUME NEW b, NEW n \in Nat, NEW m \in Nat, n <= m, \A i \in (n + 1) .. m : ~IsGame(b, i)
  PROVE  /\ Ends(b, n) => Ends(b, m)
         /\ Open(b, n) => Open(b, m)
         /\ Ended(b, n) => Ended(b, m)
<1>1. \A i \in 1 .. m : IsGame(b, i) => i \in 1 .. n
  OBVIOUS
<1>2. \A i \in 1 .. m : b[i].kind = "end" => i \in 1 .. n
  BY <1>1 DEF IsGame, GameLogKinds
<1>3. \A i \in 1 .. m : Quiet(b, i, m) => Quiet(b, i, n)
  BY QuietPart
<1>4. Open(b, n) => Open(b, m)
  BY <1>2, <1>3 DEF Open
<1>5. Ended(b, n) => Ended(b, m)
  BY <1>1, <1>2, <1>3 DEF Ended
<1>6. Ends(b, n) => Ends(b, m)
  BY <1>1, <1>2 DEF Ends
<1> QED
  BY <1>4, <1>5, <1>6

\* A match without a GAME_ENDED goes on.
LEMMA AddPlay ==
  ASSUME NEW b, NEW n \in Nat, NEW m \in Nat, n <= m,
         \A i \in (n + 1) .. m : b[i].kind \notin {"start", "end"},
         Ends(b, n), Open(b, n)
  PROVE  Ends(b, m) /\ Open(b, m)
<1>1. \A i \in 1 .. m : b[i].kind = "end" => i \in 1 .. n
  OBVIOUS
<1>2. \A i \in 1 .. m : Quiet(b, i, m) => Quiet(b, i, n)
  BY QuietPart
<1>3. Open(b, m)
  BY <1>1, <1>2 DEF Open
<1>4. ASSUME NEW e \in 1 .. m, NEW r \in 1 .. m, b[e].kind = "end", Quiet(b, e, r)
      PROVE  r \in 1 .. n
  <2>1. CASE n < r
    <3>1. Quiet(b, e, n)
      BY <1>4, <2>1, QuietPart
    <3> QED
      BY <1>1, <1>4, <3>1 DEF Open
  <2> QED
    BY <2>1
<1>5. ASSUME NEW e \in 1 .. m, NEW r \in 1 .. m, e < r, b[e].kind = "end", IsGame(b, r),
             Quiet(b, e, r)
      PROVE  b[r].kind = "end" /\ \A q \in 1 .. m : r < q /\ Quiet(b, r, q) => ~IsGame(b, q)
  <2>1. e \in 1 .. n /\ r \in 1 .. n
    BY <1>1, <1>4, <1>5
  <2>2. /\ b[r].kind = "end"
        /\ \A q \in 1 .. n : r < q /\ Quiet(b, r, q) => ~IsGame(b, q)
    BY <1>5, <2>1 DEF Ends
  <2> QED
    BY <1>4, <2>2
<1> QED
  BY <1>3, <1>5 DEF Ends

\* The next match begins.
LEMMA AddStart ==
  ASSUME NEW b, NEW n \in Nat, b[n + 1].kind = "start", Ends(b, n)
  PROVE  Ends(b, n + 1) /\ Open(b, n + 1)
<1>1. \A i \in 1 .. n : ~Quiet(b, i, n + 1)
  BY DEF Quiet
<1>2. Open(b, n + 1)
  BY <1>1 DEF Open
<1>3. ASSUME NEW e \in 1 .. n + 1, NEW r \in 1 .. n + 1, e < r, b[e].kind = "end", IsGame(b, r),
             Quiet(b, e, r)
      PROVE  b[r].kind = "end" /\ \A q \in 1 .. n + 1 : r < q /\ Quiet(b, r, q) => ~IsGame(b, q)
  <2>1. e \in 1 .. n /\ r \in 1 .. n
    BY <1>1, <1>3
  <2>2. /\ b[r].kind = "end"
        /\ \A q \in 1 .. n : r < q /\ Quiet(b, r, q) => ~IsGame(b, q)
    BY <1>3, <2>1 DEF Ends
  <2> QED
    BY <1>1, <2>1, <2>2
<1> QED
  BY <1>2, <1>3 DEF Ends

\* A match ends, for the first or for the second time.
LEMMA AddEnd ==
  ASSUME NEW b, NEW n \in Nat, b[n + 1].kind = "end", Ends(b, n), Ended(b, n)
  PROVE  Ends(b, n + 1) /\ (Open(b, n) => Ended(b, n + 1))
<1>1. ASSUME NEW e \in 1 .. n + 1, NEW r \in 1 .. n + 1, e < r, b[e].kind = "end", IsGame(b, r),
             Quiet(b, e, r)
      PROVE  b[r].kind = "end" /\ \A q \in 1 .. n + 1 : r < q /\ Quiet(b, r, q) => ~IsGame(b, q)
  <2>1. CASE r = n + 1
    BY <2>1
  <2>2. CASE r # n + 1
    <3>1. e \in 1 .. n /\ r \in 1 .. n
      BY <1>1, <2>2
    <3>2. /\ b[r].kind = "end"
          /\ \A q \in 1 .. n : r < q /\ Quiet(b, r, q) => ~IsGame(b, q)
      BY <1>1, <3>1 DEF Ends
    <3>3. ~Quiet(b, r, n + 1)
      <4>1. SUFFICES ASSUME Quiet(b, r, n + 1) PROVE FALSE
        OBVIOUS
      <4>2. Quiet(b, e, n + 1)
        BY <1>1, <3>1, <4>1, QuietJoin
      <4>3. Quiet(b, e, n)
        BY <3>1, <4>2, QuietPart
      <4> QED
        BY <1>1, <3>1, <4>3 DEF Ended
    <3> QED
      BY <3>2, <3>3
  <2> QED
    BY <2>1, <2>2
<1>2. ASSUME Open(b, n)
      PROVE  Ended(b, n + 1)
  <2>1. \A e \in 1 .. n : Quiet(b, e, n + 1) => Quiet(b, e, n)
    BY QuietPart
  <2>2. \A e \in 1 .. n + 1 : b[e].kind = "end" /\ Quiet(b, e, n + 1) => e = n + 1
    BY <1>2, <2>1 DEF Open
  <2> QED
    BY <2>2 DEF Ended
<1> QED
  BY <1>1, <1>2 DEF Ends

\* Only the first n events matter.
LEMMA SameEvents ==
  ASSUME NEW b, NEW c, NEW n \in Nat, \A i \in 1 .. n : c[i] = b[i]
  PROVE  /\ Ends(b, n) => Ends(c, n)
         /\ Open(b, n) => Open(c, n)
         /\ Ended(b, n) => Ended(c, n)
<1>1. \A i, j \in 1 .. n : Quiet(c, i, j) <=> Quiet(b, i, j)
  BY DEF Quiet
<1>2. \A i \in 1 .. n : Quiet(c, i, n) <=> Quiet(b, i, n)
  BY DEF Quiet
<1>3. \A i \in 1 .. n : IsGame(c, i) <=> IsGame(b, i)
  BY DEF IsGame
<1>4. Open(b, n) => Open(c, n)
  BY <1>2 DEF Open
<1>5. Ended(b, n) => Ended(c, n)
  BY <1>2, <1>3 DEF Ended
<1>6. Ends(b, n) => Ends(c, n)
  BY <1>1, <1>3 DEF Ends
<1> QED
  BY <1>4, <1>5, <1>6

\* From l to t the events of a batch were built, numbered by their place among
\* all events.
Told(l, t, batch) ==
  /\ Len(t.built) = Len(l.built) + Len(batch)
  /\ \A i \in 1 .. Len(l.built) : t.built[i] = l.built[i]
  /\ \A i \in 1 .. Len(batch) :
       /\ t.built[Len(l.built) + i].number = Len(l.built) + i
       /\ t.built[Len(l.built) + i].kind = batch[i]

\* Every event carries its place among all events, and in a room that can go on
\* all of them are committed or pending.
Numbered(l) == \A i \in 1 .. Len(l.built) : l.built[i].number = i

Counted(l) ==
  ~l.poisoned /\ l.room # "closed" => Len(l.built) = l.boundary + Len(l.pending)

\* What the game logs need of the room: the matches of the past have ended as
\* they should, the one under way has no GAME_ENDED, or one that is pending.
TaleInv(l) ==
  /\ Numbered(l) /\ Counted(l)
  /\ Ends(l.built, Len(l.built))
  /\ l.finishAfterSave => l.storagePaused
  /\ l.poisoned => l.room \in {"lobby", "closed"}
  /\ l.room = "match" => IF l.finishAfterSave THEN Ended(l.built, Len(l.built))
                         ELSE Open(l.built, Len(l.built))

\* Build with the next numbers.
LEMMA BuildTold ==
  ASSUME NEW l \in Log, NEW batch \in Seq(Kinds), NEW t, t = Build(l, batch, Len(l.built))
  PROVE  Told(l, t, batch)
<1> DEFINE E == [number : Nat \ {0}, kind : Kinds]
           rows == [i \in 1 .. Len(batch) |-> [number |-> Len(l.built) + i, kind |-> batch[i]]]
<1>1. l.built \in Seq(E) /\ Len(l.built) \in Nat /\ Len(batch) \in Nat
  BY DEF Log
<1>2. \A i \in 1 .. Len(batch) : [number |-> Len(l.built) + i, kind |-> batch[i]] \in E
  BY <1>1
<1>3. rows \in Seq(E) /\ Len(rows) = Len(batch)
  BY <1>1, <1>2, IsASeq
<1>4. /\ Len(l.built \o rows) = Len(l.built) + Len(batch)
      /\ \A i \in DOMAIN l.built : (l.built \o rows)[i] = l.built[i]
      /\ \A i \in 1 .. Len(batch) : (l.built \o rows)[Len(l.built) + i] = rows[i]
  BY <1>1, <1>3, SMTT(30)
<1>5. \A i \in 1 .. Len(batch) : rows[i].number = Len(l.built) + i /\ rows[i].kind = batch[i]
  BY DEF rows
<1>6. t.built = l.built \o rows
  BY DEF Build, Log
<1>7. DOMAIN l.built = 1 .. Len(l.built)
  BY BuiltFacts
<1> HIDE DEF rows, E
<1> QED
  BY <1>4, <1>5, <1>6, <1>7 DEF Told

\* A batch is told after another one, and only the events matter.
LEMMA ToldSame ==
  ASSUME NEW l, NEW t, NEW batch, Told(l, t, batch),
         NEW k, k.built = l.built, NEW s, s.built = t.built
  PROVE  Told(k, s, batch)
  BY DEF Told

\* The numbers go on.
LEMMA ToldNumbered ==
  ASSUME NEW l \in Log, NEW t, NEW batch \in Seq(Kinds), Told(l, t, batch), Numbered(l)
  PROVE  Numbered(t)
<1>1. Len(l.built) \in Nat /\ Len(batch) \in Nat
  BY BuiltFacts
<1> SUFFICES ASSUME NEW i \in 1 .. Len(t.built) PROVE t.built[i].number = i
  BY DEF Numbered
<1>2. CASE i <= Len(l.built)
  BY <1>1, <1>2 DEF Told, Numbered
<1>3. CASE i > Len(l.built)
  <2>1. i - Len(l.built) \in 1 .. Len(batch) /\ i = Len(l.built) + (i - Len(l.built))
    BY <1>1, <1>3 DEF Told
  <2> QED
    BY <2>1 DEF Told
<1> QED
  BY <1>1, <1>2, <1>3 DEF Told

\* The kinds of the new events.
LEMMA ToldKinds ==
  ASSUME NEW l \in Log, NEW t, NEW batch \in Seq(Kinds), Told(l, t, batch)
  PROVE  /\ Len(l.built) \in Nat /\ Len(t.built) \in Nat /\ Len(l.built) <= Len(t.built)
         /\ \A i \in (Len(l.built) + 1) .. Len(t.built) :
              /\ i - Len(l.built) \in 1 .. Len(batch)
              /\ t.built[i].kind = batch[i - Len(l.built)]
         /\ \A i \in 1 .. Len(batch) : t.built[Len(l.built) + i].kind = batch[i]
         /\ Ends(l.built, Len(l.built)) => Ends(t.built, Len(l.built))
         /\ Open(l.built, Len(l.built)) => Open(t.built, Len(l.built))
         /\ Ended(l.built, Len(l.built)) => Ended(t.built, Len(l.built))
<1>1. Len(l.built) \in Nat /\ Len(batch) \in Nat
  BY BuiltFacts
<1>2. /\ Len(t.built) = Len(l.built) + Len(batch)
      /\ \A i \in 1 .. Len(l.built) : t.built[i] = l.built[i]
      /\ \A i \in 1 .. Len(batch) : t.built[Len(l.built) + i].kind = batch[i]
  BY DEF Told
<1>3. ASSUME NEW i \in (Len(l.built) + 1) .. Len(t.built)
      PROVE  /\ i - Len(l.built) \in 1 .. Len(batch)
             /\ t.built[i].kind = batch[i - Len(l.built)]
  <2>1. i - Len(l.built) \in 1 .. Len(batch) /\ i = Len(l.built) + (i - Len(l.built))
    BY <1>1, <1>2
  <2> QED
    BY <1>2, <2>1
<1>4. Len(t.built) \in Nat /\ Len(l.built) <= Len(t.built)
  BY <1>1, <1>2
<1>5. /\ Ends(l.built, Len(l.built)) => Ends(t.built, Len(l.built))
      /\ Open(l.built, Len(l.built)) => Open(t.built, Len(l.built))
      /\ Ended(l.built, Len(l.built)) => Ended(t.built, Len(l.built))
  BY <1>1, <1>2, SameEvents
<1> QED
  BY <1>1, <1>2, <1>3, <1>4, <1>5

\* A batch that no game log reads.
LEMMA ToldOthers ==
  ASSUME NEW l \in Log, NEW t, NEW batch \in Seq(Kinds), Told(l, t, batch),
         \A i \in 1 .. Len(batch) : batch[i] \in {"update", "other"}
  PROVE  /\ Ends(l.built, Len(l.built)) => Ends(t.built, Len(t.built))
         /\ Open(l.built, Len(l.built)) => Open(t.built, Len(t.built))
         /\ Ended(l.built, Len(l.built)) => Ended(t.built, Len(t.built))
<1> DEFINE n == Len(l.built)
           m == Len(t.built)
           b == t.built
<1>1. /\ n \in Nat /\ m \in Nat /\ n <= m
      /\ \A i \in (n + 1) .. m : i - n \in 1 .. Len(batch) /\ b[i].kind = batch[i - n]
      /\ Ends(l.built, n) => Ends(b, n)
      /\ Open(l.built, n) => Open(b, n)
      /\ Ended(l.built, n) => Ended(b, n)
  BY ToldKinds
<1> HIDE DEF n, m, b
<1>2. \A i \in (n + 1) .. m : ~IsGame(b, i)
  BY <1>1 DEF IsGame, GameLogKinds
<1>3. /\ Ends(b, n) => Ends(b, m)
      /\ Open(b, n) => Open(b, m)
      /\ Ended(b, n) => Ended(b, m)
  BY <1>1, <1>2, AddOthers
<1> QED
  BY <1>1, <1>3 DEF n, m, b

\* A batch of a match that goes on.
LEMMA ToldPlay ==
  ASSUME NEW l \in Log, NEW t, NEW batch \in Seq(Kinds), Told(l, t, batch),
         \A i \in 1 .. Len(batch) : batch[i] \in {"update", "other", "play"},
         Ends(l.built, Len(l.built)), Open(l.built, Len(l.built))
  PROVE  Ends(t.built, Len(t.built)) /\ Open(t.built, Len(t.built))
<1> DEFINE n == Len(l.built)
           m == Len(t.built)
           b == t.built
<1>1. /\ n \in Nat /\ m \in Nat /\ n <= m
      /\ \A i \in (n + 1) .. m : i - n \in 1 .. Len(batch) /\ b[i].kind = batch[i - n]
      /\ Ends(b, n) /\ Open(b, n)
  BY ToldKinds
<1> HIDE DEF n, m, b
<1>2. \A i \in (n + 1) .. m : b[i].kind \notin {"start", "end"}
  BY <1>1
<1>3. Ends(b, m) /\ Open(b, m)
  BY <1>1, <1>2, AddPlay
<1> QED
  BY <1>3 DEF m, b

\* The batch of StartMatch, with or without the GAME_PAUSED of an outage.
LEMMA ToldStart ==
  ASSUME NEW l \in Log, NEW t, NEW batch \in Seq(Kinds), Told(l, t, batch), Len(batch) \in {2, 3},
         batch[1] = "update", batch[2] = "start", Len(batch) = 3 => batch[3] = "play",
         Ends(l.built, Len(l.built))
  PROVE  Ends(t.built, Len(t.built)) /\ Open(t.built, Len(t.built))
<1> DEFINE n == Len(l.built)
           m == Len(t.built)
           b == t.built
<1>0. m = n + Len(batch)
  BY DEF Told
<1>1. n \in Nat /\ m = n + Len(batch) /\ Ends(b, n)
  BY <1>0, ToldKinds
<1>2. /\ b[n + 1].kind = "update" /\ b[n + 2].kind = "start"
      /\ Len(batch) = 3 => b[n + 3].kind = "play"
  <2>1. \A i \in 1 .. Len(batch) : b[n + i].kind = batch[i]
    BY DEF Told
  <2>2. 1 \in 1 .. Len(batch) /\ 2 \in 1 .. Len(batch) /\ (Len(batch) = 3 => 3 \in 1 .. Len(batch))
    OBVIOUS
  <2> HIDE DEF n, b
  <2> QED
    BY <2>1, <2>2
<1> HIDE DEF n, m, b
<1>3. Ends(b, n + 1)
  <2>1. \A i \in (n + 1) .. (n + 1) : ~IsGame(b, i)
    BY <1>1, <1>2 DEF IsGame, GameLogKinds
  <2> QED
    BY <1>1, <2>1, AddOthers
<1>4. Ends(b, n + 2) /\ Open(b, n + 2)
  <2>1. n + 1 \in Nat /\ (n + 1) + 1 = n + 2
    BY <1>1
  <2> QED
    BY <1>2, <1>3, <2>1, AddStart
<1>5. ASSUME NEW i \in ((n + 2) + 1) .. m
      PROVE  b[i].kind \notin {"start", "end"}
  <2>1. Len(batch) = 2 \/ Len(batch) = 3
    OBVIOUS
  <2>2. CASE Len(batch) = 2
    BY <1>1, <2>2
  <2>3. CASE Len(batch) = 3
    <3>1. i \in (n + 3) .. (n + 3)
      BY <1>1, <2>3
    <3>2. i = n + 3
      BY <1>1, <3>1
    <3> QED
      BY <1>2, <2>3, <3>2
  <2> QED
    BY <2>1, <2>2, <2>3
<1>6. Ends(b, m) /\ Open(b, m)
  <2>1. n + 2 \in Nat /\ m \in Nat /\ n + 2 <= m
    BY <1>1
  <2> QED
    BY <1>4, <1>5, <2>1, AddPlay
<1> QED
  BY <1>6 DEF m, b

\* The batch that ends a match.
LEMMA ToldEnd ==
  ASSUME NEW l \in Log, NEW t, NEW batch \in Seq(Kinds), Told(l, t, batch), Len(batch) = 2,
         batch[1] = "end", batch[2] = "update",
         Ends(l.built, Len(l.built)), Ended(l.built, Len(l.built))
  PROVE  /\ Ends(t.built, Len(t.built))
         /\ Open(l.built, Len(l.built)) => Ended(t.built, Len(t.built))
<1> DEFINE n == Len(l.built)
           m == Len(t.built)
           b == t.built
<1>1. m = n + 2
  BY DEF Told
<1>2. /\ n \in Nat /\ m = n + 2 /\ Ends(b, n) /\ Ended(b, n)
      /\ Open(l.built, n) => Open(b, n)
  BY <1>1, ToldKinds
<1>3. b[n + 1].kind = "end" /\ b[n + 2].kind = "update"
  BY ToldKinds
<1> HIDE DEF n, m, b
<1>4. Ends(b, n + 1) /\ (Open(b, n) => Ended(b, n + 1))
  BY <1>2, <1>3, AddEnd
<1>5. \A i \in ((n + 1) + 1) .. m : ~IsGame(b, i)
  BY <1>2, <1>3 DEF IsGame, GameLogKinds
<1>6. (Ends(b, n + 1) => Ends(b, m)) /\ (Ended(b, n + 1) => Ended(b, m))
  <2>1. n + 1 \in Nat /\ m \in Nat /\ n + 1 <= m
    BY <1>2
  <2> QED
    BY <1>5, <2>1, AddOthers
<1> QED
  BY <1>2, <1>4, <1>6 DEF n, m, b

\* A match without a GAME_ENDED has none with a row behind it.
LEMMA OpenIsEnded ==
  ASSUME NEW b, NEW n, Open(b, n)
  PROVE  Ended(b, n)
  BY DEF Open, Ended

\* One batch is told after another.
LEMMA ToldTwice ==
  ASSUME NEW l \in Log, NEW s \in Log, NEW t, NEW first \in Seq(Kinds), NEW k \in Kinds,
         NEW second \in Seq(Kinds), Len(second) = 1, second[1] = k,
         Told(l, s, first), Told(s, t, second)
  PROVE  Told(l, t, Append(first, k))
<1> DEFINE n == Len(l.built)
           j == Len(first)
<1>1. n \in Nat /\ j \in Nat
  BY BuiltFacts
<1>2. /\ Len(Append(first, k)) = j + 1 /\ Append(first, k)[j + 1] = k
      /\ \A i \in 1 .. j : Append(first, k)[i] = first[i]
  OBVIOUS
<1>3. /\ Len(s.built) = n + j
      /\ \A i \in 1 .. n : s.built[i] = l.built[i]
      /\ \A i \in 1 .. j : s.built[n + i].number = n + i /\ s.built[n + i].kind = first[i]
  BY DEF Told
<1>4. /\ Len(t.built) = n + (j + 1)
      /\ \A i \in 1 .. (n + j) : t.built[i] = s.built[i]
      /\ t.built[n + (j + 1)].number = n + (j + 1) /\ t.built[n + (j + 1)].kind = k
  <2>0. \A x, y \in Nat : (x + y) + 1 = x + (y + 1)
    OBVIOUS
  <2>1. (n + j) + 1 = n + (j + 1)
    BY <1>1, <2>0, Zenon
  <2>2. /\ Len(t.built) = (n + j) + 1
        /\ \A i \in 1 .. (n + j) : t.built[i] = s.built[i]
        /\ t.built[(n + j) + 1].number = (n + j) + 1 /\ t.built[(n + j) + 1].kind = k
    BY <1>3 DEF Told
  <2> QED
    BY <2>1, <2>2
<1> HIDE DEF n, j
<1>5. \A i \in 1 .. n : t.built[i] = l.built[i]
  <2>1. \A i \in 1 .. n : i \in 1 .. (n + j)
    BY <1>1
  <2> QED
    BY <1>3, <1>4, <2>1
<1>6. ASSUME NEW i \in 1 .. (j + 1)
      PROVE  t.built[n + i].number = n + i /\ t.built[n + i].kind = Append(first, k)[i]
  <2>1. CASE i = j + 1
    BY <1>2, <1>4, <2>1
  <2>2. CASE i # j + 1
    <3>1. i \in 1 .. j /\ n + i \in 1 .. (n + j)
      BY <1>1, <2>2
    <3> QED
      BY <1>2, <1>3, <1>4, <3>1
  <2> QED
    BY <2>1, <2>2
<1> QED
  BY <1>2, <1>4, <1>5, <1>6 DEF Told, n, j

\* The marker that enterStoragePauseLocked and the recovery add.
LEMMA OneMarker ==
  ASSUME NEW l \in Log, NEW base, base = Len(l.built), NEW t, t = Build(l, <<"play">>, base)
  PROVE  /\ Told(l, t, <<"play">>)
         /\ t \in Log /\ SameFlags(l, t) /\ t.pending = l.pending /\ t.boundary = l.boundary
         /\ Len(t.built) = Len(l.built) + 1
<1> DEFINE batch == <<"play">>
<1>1. batch \in Seq(Kinds) /\ Len(batch) = 1 /\ Len(l.built) \in Nat
  BY BuiltFacts DEF Kinds
<1>2. t = Build(l, batch, base)
  OBVIOUS
<1> HIDE DEF batch
<1>3. Told(l, t, batch)
  BY <1>1, <1>2, BuildTold
<1>4. /\ t \in Log /\ SameFlags(l, t) /\ t.pending = l.pending /\ t.boundary = l.boundary
  <2>1. base \in Nat
    BY <1>1
  <2> DEFINE x == Build(l, batch, base)
  <2>2. x \in Log /\ SameFlags(l, x) /\ x.pending = l.pending /\ x.boundary = l.boundary
    BY <1>1, <2>1, BuildKeeps
  <2> HIDE DEF x
  <2>3. t = x
    BY <1>2 DEF x
  <2> QED
    BY <2>2, <2>3
<1>5. Len(t.built) = Len(l.built) + Len(batch)
  BY <1>3 DEF Told
<1> QED
  BY <1>1, <1>3, <1>4, <1>5 DEF batch

\* An outage begins.
LEMMA EnterStoragePauseTold ==
  ASSUME NEW l \in Log, NEW ids \in Seq(EventID), NEW finish \in BOOLEAN,
         Len(l.built) = l.boundary + Len(ids),
         NEW t, t = EnterStoragePause(l, ids, finish)
  PROVE  /\ t.room = l.room /\ t.poisoned = l.poisoned
         /\ t.storagePaused /\ t.finishAfterSave = finish
         /\ Len(t.built) = t.boundary + Len(t.pending)
         /\ finish => t.built = l.built
         /\ ~finish => Told(l, t, <<"play">>)
<1> DEFINE q == IF finish THEN ids ELSE Append(ids, Len(l.built) + 1)
           b == [l EXCEPT !.storagePaused = TRUE, !.retryAttempt = 0, !.retryDue = TRUE,
                          !.finishAfterSave = finish, !.pending = q]
<1>0. Len(l.built) \in Nat /\ l.boundary \in Nat /\ Len(ids) \in Nat
  BY BuiltFacts DEF Log
<1>1. q \in Seq(EventID) /\ 0 \in 0 .. StorageRetries
  BY <1>0, SMTT(30) DEF EventID, StorageRetries
<1>2. (finish => q = ids) /\ (~finish => Len(q) = Len(ids) + 1)
  OBVIOUS
<1>3. t = IF finish THEN b ELSE Build(b, <<"play">>, l.boundary + Len(ids))
  BY DEF EnterStoragePause, Log
<1> HIDE DEF q
<1>4. /\ b \in Log /\ b.room = l.room /\ b.poisoned = l.poisoned /\ b.finishAfterSave = finish
      /\ b.storagePaused /\ b.pending = q /\ b.built = l.built /\ b.boundary = l.boundary
  BY <1>1 DEF Log
<1> HIDE DEF b
<1>5. CASE finish
  BY <1>2, <1>3, <1>4, <1>5
<1>6. CASE ~finish
  <2>1. /\ Told(b, t, <<"play">>) /\ SameFlags(b, t) /\ t.pending = q
        /\ t.boundary = l.boundary /\ Len(t.built) = Len(l.built) + 1
    BY <1>3, <1>4, <1>6, OneMarker
  <2>2. Told(l, t, <<"play">>)
    BY <1>4, <2>1, ToldSame
  <2>3. Len(t.built) = t.boundary + Len(t.pending)
    <3>1. Len(t.pending) = Len(ids) + 1
      BY <1>2, <1>6, <2>1
    <3>2. Len(t.built) = (l.boundary + Len(ids)) + 1
      BY <2>1
    <3>3. \A x, y \in Nat : (x + y) + 1 = x + (y + 1)
      OBVIOUS
    <3>4. (l.boundary + Len(ids)) + 1 = l.boundary + (Len(ids) + 1)
      BY <1>0, <3>3, Zenon
    <3>5. t.boundary = l.boundary
      BY <2>1
    <3> QED
      BY <3>1, <3>2, <3>4, <3>5, Zenon
  <2> QED
    BY <1>4, <1>6, <2>1, <2>2, <2>3 DEF SameFlags
<1> QED
  BY <1>5, <1>6

\* Save and publish a batch: its events are committed.
LEMMA SavedCount ==
  ASSUME NEW l \in Log, NEW ids \in Seq(EventID), NEW t, t = Publish(Save(l, ids), ids)
  PROVE  /\ t \in Log /\ SameFlags(l, t) /\ t.built = l.built /\ t.pending = l.pending
         /\ t.boundary = l.boundary + Len(ids)
<1> DEFINE s == Save(l, ids)
<1>1. /\ s \in Log /\ SameFlags(l, s) /\ s.built = l.built /\ s.pending = l.pending
      /\ s.boundary = l.boundary + Len(ids)
  BY SaveFacts
<1> HIDE DEF s
<1>2. t = Publish(s, ids)
  BY DEF s
<1>3. /\ t \in Log /\ SameFlags(s, t) /\ t.built = s.built /\ t.pending = s.pending
      /\ t.boundary = s.boundary
  BY <1>1, <1>2, PublishFacts
<1> QED
  BY <1>1, <1>3 DEF SameFlags

\* A batch is flushed in a room that waits for nothing.
FlushOutcome(l, t, batch, finish) ==
  \/ /\ Told(l, t, batch) /\ ~t.finishAfterSave /\ ~t.poisoned
     /\ t.room = IF finish THEN "lobby" ELSE l.room
  \/ /\ Told(l, t, batch) /\ ~t.finishAfterSave
     /\ t.room = l.room /\ l.room # "match"
  \/ /\ finish /\ Told(l, t, batch) /\ t.finishAfterSave /\ t.storagePaused
     /\ ~t.poisoned /\ t.room = "match" /\ l.room = "match"
  \/ /\ ~finish /\ Told(l, t, Append(batch, "play")) /\ ~t.finishAfterSave
     /\ ~t.poisoned /\ t.room = "match" /\ l.room = "match"

LEMMA FlushTold ==
  ASSUME NEW l, TypedLog(l), NEW batch \in Seq(Kinds), NEW finish \in BOOLEAN,
         NEW t \in Flush(l, batch, finish),
         Len(l.built) = l.boundary, l.pending = <<>>, ~l.poisoned, ~l.finishAfterSave
  PROVE  Counted(t) /\ FlushOutcome(l, t, batch, finish)
<1> DEFINE ids == NewIDs(l, Len(batch))
           b == Build(l, batch, l.boundary)
           done == Publish(Save(b, ids), ids)
<1>1. l \in Log /\ l.boundary \in Nat /\ Len(batch) \in Nat
  BY DEF TypedLog, Log
<1>2. ids \in Seq(EventID) /\ Len(ids) = Len(batch)
  BY <1>1, NewIDsFacts, Zenon
<1>3. b \in Log /\ SameFlags(l, b) /\ b.pending = l.pending /\ b.boundary = l.boundary
  BY <1>1, BuildKeeps, Zenon
<1>4. Told(l, b, batch)
  BY <1>1, BuildTold
<1>5. \/ t = done /\ ~finish
      \/ t = Detach(done) /\ finish
      \/ t = EnterStoragePause(b, ids, finish) /\ l.room = "match"
      \/ t = [b EXCEPT !.poisoned = TRUE] /\ l.room # "match"
  BY DEF Flush
<1> HIDE DEF b, ids
<1>6. /\ done \in Log /\ SameFlags(b, done) /\ done.built = b.built
      /\ done.pending = b.pending /\ done.boundary = b.boundary + Len(ids)
  BY <1>2, <1>3, SavedCount
<1> HIDE DEF done
<1>7. Len(b.built) = l.boundary + Len(batch)
  BY <1>4 DEF Told
<1>8. Len(<<>>) = 0
  OBVIOUS
<1>9. Told(l, done, batch) /\ Len(done.built) = done.boundary
  BY <1>2, <1>3, <1>4, <1>6, <1>7, ToldSame
<1>10. CASE t = done /\ ~finish
  <2>1. t.boundary + Len(t.pending) = t.boundary
    BY <1>3, <1>6, <1>8, <1>10 DEF Log
  <2> QED
    BY <1>3, <1>6, <1>9, <1>10, <2>1 DEF Counted, FlushOutcome, SameFlags
<1>11. CASE t = Detach(done) /\ finish
  <2>1. /\ t.room = "lobby" /\ t.pending = <<>> /\ t.built = done.built
        /\ t.boundary = done.boundary
    BY <1>6, <1>11, DetachFacts
  <2>2. ~t.finishAfterSave /\ t.poisoned = done.poisoned
    BY <1>6, <1>11 DEF Detach, Log
  <2>3. Told(l, t, batch)
    BY <1>9, <2>1, ToldSame
  <2>4. t.boundary + Len(t.pending) = t.boundary
    BY <1>6, <1>8, <2>1 DEF Log
  <2> QED
    BY <1>3, <1>6, <1>9, <1>11, <2>1, <2>2, <2>3, <2>4 DEF Counted, FlushOutcome, SameFlags
<1>12. CASE t = EnterStoragePause(b, ids, finish) /\ l.room = "match"
  <2>1. /\ t.room = b.room /\ t.poisoned = b.poisoned
        /\ t.storagePaused /\ t.finishAfterSave = finish
        /\ Len(t.built) = t.boundary + Len(t.pending)
        /\ finish => t.built = b.built
        /\ ~finish => Told(b, t, <<"play">>)
    BY <1>2, <1>3, <1>7, <1>12, EnterStoragePauseTold
  <2>2. ASSUME finish PROVE Told(l, t, batch)
    BY <1>4, <2>1, <2>2, ToldSame
  <2>3. ASSUME ~finish PROVE Told(l, t, Append(batch, "play"))
    <3> DEFINE last == <<"play">>
    <3>1. last \in Seq(Kinds) /\ Len(last) = 1 /\ last[1] = "play" /\ "play" \in Kinds
      BY DEF Kinds
    <3>2. Told(b, t, last)
      BY <2>1, <2>3
    <3> HIDE DEF last
    <3> QED
      BY <1>1, <1>3, <1>4, <3>1, <3>2, ToldTwice
  <2>4. t.room = "match" /\ ~t.poisoned
    BY <1>3, <1>12, <2>1 DEF SameFlags
  <2> QED
    BY <1>12, <2>1, <2>2, <2>3, <2>4 DEF Counted, FlushOutcome
<1>13. CASE t = [b EXCEPT !.poisoned = TRUE] /\ l.room # "match"
  <2>1. /\ t.built = b.built /\ t.room = b.room /\ t.poisoned
        /\ t.finishAfterSave = b.finishAfterSave
    BY <1>3, <1>13 DEF Log
  <2>2. Told(l, t, batch)
    BY <1>4, <2>1, ToldSame
  <2> QED
    BY <1>3, <1>13, <2>1, <2>2 DEF Counted, FlushOutcome, SameFlags
<1> QED
  BY <1>5, <1>10, <1>11, <1>12, <1>13, Zenon

\* The save that ends a match.
LEMMA SaveTerminalTold ==
  ASSUME NEW l \in Log, Committed(l), Continues(l, l.pending), ~LastSaveFails,
         Len(l.built) = l.boundary + Len(l.pending), NEW t \in SaveTerminal(l)
  PROVE  /\ t \in Log /\ Told(l, t, <<"end", "update">>) /\ Len(t.built) = t.boundary
         /\ t.poisoned = l.poisoned
<1> DEFINE batch == <<"end", "update">>
           ids == l.pending \o NewIDs(l, 2)
           base == l.boundary + Len(l.pending)
           b == Build(l, batch, base)
<1>1. /\ l.boundary \in Nat /\ l.pending \in Seq(EventID) /\ Len(l.pending) \in Nat
      /\ base \in Nat
  BY DEF Log
<1>2. batch \in Seq(Kinds) /\ Len(batch) = 2
  BY DEF Kinds
<1>3. NewIDs(l, 2) \in Seq(EventID) /\ Len(NewIDs(l, 2)) = 2
  BY NewIDsFacts
<1>4. ids \in Seq(EventID) /\ Len(ids) = Len(l.pending) + 2
  <2>1. ids \in Seq(EventID) /\ Len(ids) = Len(l.pending) + Len(NewIDs(l, 2))
    BY <1>1, <1>3, ConcatIDs, Zenon
  <2> QED
    BY <1>3, <2>1
<1>5. \/ t = Publish(Save(b, ids), ids)
      \/ ~Accepts(b, ids)
  BY DEF SaveTerminal
<1>6. Continues(b, ids)
  <2>1. Continues(b, l.pending \o NewIDs(l, Len(batch)))
    BY <1>2, BuildContinues, Zenon
  <2> QED
    BY <1>2, <2>1
<1>7. Told(l, b, batch)
  BY <1>1, <1>2, BuildTold
<1> HIDE DEF batch, ids, base
<1>8. b \in Log /\ SameFlags(l, b) /\ b.boundary = l.boundary
  BY <1>1, <1>2, BuildKeeps, Zenon
<1>9. Committed(b)
  BY <1>1, <1>2, BuildStream, Zenon
<1> HIDE DEF b
<1>10. t = Publish(Save(b, ids), ids)
  BY <1>5, <1>6, <1>8, <1>9, ContinuationAccepted
<1>11. /\ t \in Log /\ SameFlags(b, t) /\ t.built = b.built
       /\ t.boundary = b.boundary + Len(ids)
  BY <1>4, <1>8, <1>10, SavedCount
<1>12. Told(l, t, batch)
  BY <1>7, <1>11, ToldSame
<1>13. Len(t.built) = t.boundary
  <2>1. Len(t.built) = (l.boundary + Len(l.pending)) + 2
    BY <1>2, <1>12 DEF Told
  <2> QED
    BY <1>1, <1>4, <1>8, <1>11, <2>1
<1> QED
  BY <1>8, <1>11, <1>12, <1>13 DEF batch, SameFlags

\* GAME_RESUMED behind a batch that was saved late.
LEMMA ResumeTold ==
  ASSUME NEW l \in Log, Len(l.built) = l.boundary, NEW t \in Resume(l)
  PROVE  /\ Told(l, t, <<"play">>) /\ Len(t.built) = t.boundary + Len(t.pending)
         /\ t.room = l.room /\ t.poisoned = l.poisoned /\ t.finishAfterSave = l.finishAfterSave
         /\ l.storagePaused => t.storagePaused \/ t.pending = <<>>
<1> DEFINE marker == NewIDs(l, 1)
           b == Build(l, <<"play">>, l.boundary)
           s == Publish(Save(b, marker), marker)
<1>1. marker \in Seq(EventID) /\ Len(marker) = 1 /\ l.boundary \in Nat
  BY NewIDsFacts DEF Log
<1>2. \/ t = [s EXCEPT !.storagePaused = FALSE, !.pending = <<>>, !.retryAttempt = 0]
      \/ t = [b EXCEPT !.pending = marker, !.retryAttempt = 0, !.retryDue = TRUE]
  BY DEF Resume
<1>3. /\ Told(l, b, <<"play">>) /\ b \in Log /\ SameFlags(l, b) /\ b.boundary = l.boundary
      /\ Len(b.built) = l.boundary + 1
  BY OneMarker
<1> HIDE DEF marker, b
<1>4. /\ s \in Log /\ SameFlags(b, s) /\ s.built = b.built /\ s.boundary = b.boundary + 1
  <2>1. /\ s \in Log /\ SameFlags(b, s) /\ s.built = b.built
        /\ s.boundary = b.boundary + Len(marker)
    BY <1>1, <1>3, SavedCount, Zenon
  <2> QED
    BY <1>1, <2>1, Zenon
<1> HIDE DEF s
<1>5. <<>> \in Seq(EventID) /\ Len(<<>>) = 0 /\ 0 \in 0 .. StorageRetries
  BY EmptySeq DEF StorageRetries
<1>6. CASE t = [s EXCEPT !.storagePaused = FALSE, !.pending = <<>>, !.retryAttempt = 0]
  <2>1. /\ t.built = s.built /\ t.boundary = s.boundary /\ t.room = s.room
        /\ t.poisoned = s.poisoned /\ t.finishAfterSave = s.finishAfterSave
        /\ t.pending = <<>>
    BY <1>4, <1>5, <1>6 DEF Log
  <2>2. Told(l, t, <<"play">>)
    BY <1>3, <1>4, <2>1, ToldSame
  <2>3. Len(t.built) = t.boundary + Len(t.pending)
    BY <1>1, <1>3, <1>4, <1>5, <2>1
  <2> QED
    BY <1>3, <1>4, <2>1, <2>2, <2>3 DEF SameFlags
<1>7. CASE t = [b EXCEPT !.pending = marker, !.retryAttempt = 0, !.retryDue = TRUE]
  <2>1. /\ t.built = b.built /\ t.boundary = b.boundary /\ t.room = b.room
        /\ t.poisoned = b.poisoned /\ t.finishAfterSave = b.finishAfterSave
        /\ t.pending = marker /\ t.storagePaused = b.storagePaused
    BY <1>1, <1>3, <1>5, <1>7 DEF Log
  <2>2. Told(l, t, <<"play">>)
    BY <1>3, <2>1, ToldSame
  <2>3. Len(t.built) = t.boundary + Len(t.pending)
    BY <1>1, <1>3, <2>1
  <2> QED
    BY <1>3, <2>1, <2>2, <2>3 DEF SameFlags
<1> QED
  BY <1>2, <1>6, <1>7

\* A room that waits for nothing.
Ready(l) ==
  /\ TypedLog(l) /\ Numbered(l) /\ Ends(l.built, Len(l.built))
  /\ Len(l.built) = l.boundary /\ l.pending = <<>> /\ ~l.poisoned /\ ~l.finishAfterSave

LEMMA RoomIsReady ==
  ASSUME NEW l, TypedLog(l), LogInv(l), TaleInv(l), ~l.poisoned, ~l.storagePaused,
         l.room # "closed"
  PROVE  Ready(l)
<1>1. l.pending = <<>> /\ Len(l.pending) = 0 /\ l.boundary \in Nat
  BY DEF LogInv, TypedLog, Log
<1>2. Len(l.built) = l.boundary + Len(l.pending)
  BY DEF TaleInv, Counted
<1>3. Len(l.built) = l.boundary
  BY <1>1, <1>2
<1> QED
  BY <1>1, <1>3 DEF Ready, TaleInv

\* Flags that do not matter here.
LEMMA ReadySame ==
  ASSUME NEW l, Ready(l), NEW t, TypedLog(t), t.built = l.built, t.boundary = l.boundary,
         t.pending = l.pending, t.poisoned = l.poisoned, t.finishAfterSave = l.finishAfterSave
  PROVE  Ready(t)
  BY DEF Ready, Numbered

\* A batch with the marker of an outage behind it.
LEMMA PlayBehind ==
  ASSUME NEW batch \in Seq(Kinds), NEW c, c = Append(batch, "play")
  PROVE  /\ c \in Seq(Kinds) /\ Len(c) = Len(batch) + 1 /\ c[Len(batch) + 1] = "play"
         /\ \A i \in 1 .. Len(batch) : c[i] = batch[i]
<1>1. "play" \in Kinds /\ Len(batch) \in Nat
  BY DEF Kinds
<1> QED
  BY <1>1

\* A flush outside a match.
LEMMA FlushOutside ==
  ASSUME NEW l, Ready(l), l.room = "lobby", NEW batch \in Seq(Kinds),
         \A i \in 1 .. Len(batch) : batch[i] \in {"update", "other"},
         NEW t \in Flush(l, batch, FALSE)
  PROVE  TaleInv(t)
<1>1. TypedLog(l) /\ l \in Log
  BY DEF Ready, TypedLog
<1>2. Counted(t) /\ FlushOutcome(l, t, batch, FALSE)
  BY <1>1, FlushTold DEF Ready
<1>3. Told(l, t, batch) /\ t.room = l.room /\ ~t.finishAfterSave
  BY <1>2 DEF FlushOutcome
<1>4. Numbered(t)
  BY <1>1, <1>3, ToldNumbered DEF Ready
<1>5. Ends(t.built, Len(t.built))
  BY <1>1, <1>3, ToldOthers DEF Ready
<1> QED
  BY <1>2, <1>3, <1>4, <1>5 DEF TaleInv

\* A flush of a match that goes on.
LEMMA FlushInMatch ==
  ASSUME NEW l, Ready(l), l.room = "match", Open(l.built, Len(l.built)),
         NEW batch \in Seq(Kinds),
         \A i \in 1 .. Len(batch) : batch[i] \in {"update", "other", "play"},
         NEW t \in Flush(l, batch, FALSE)
  PROVE  TaleInv(t)
<1>1. TypedLog(l) /\ l \in Log
  BY DEF Ready, TypedLog
<1>2. Counted(t) /\ FlushOutcome(l, t, batch, FALSE)
  BY <1>1, FlushTold DEF Ready
<1>3. PICK c \in {batch, Append(batch, "play")} :
        Told(l, t, c) /\ t.room = "match" /\ ~t.finishAfterSave /\ ~t.poisoned
  BY <1>2, Zenon DEF FlushOutcome
<1>4. c \in Seq(Kinds) /\ \A i \in 1 .. Len(c) : c[i] \in {"update", "other", "play"}
  <2>1. CASE c = batch
    BY <2>1
  <2>2. CASE c = Append(batch, "play")
    <3>1. Len(batch) \in Nat
      OBVIOUS
    <3>2. /\ c \in Seq(Kinds) /\ Len(c) = Len(batch) + 1 /\ c[Len(batch) + 1] = "play"
          /\ \A i \in 1 .. Len(batch) : c[i] = batch[i]
      BY <2>2, PlayBehind, Zenon
    <3>3. \A i \in 1 .. (Len(batch) + 1) : i \in 1 .. Len(batch) \/ i = Len(batch) + 1
      BY <3>1
    <3> QED
      BY <3>2, <3>3
  <2> QED
    BY <2>1, <2>2
<1>5. Numbered(t)
  BY <1>1, <1>3, <1>4, ToldNumbered DEF Ready
<1>6. Ends(t.built, Len(t.built)) /\ Open(t.built, Len(t.built))
  BY <1>1, <1>3, <1>4, ToldPlay DEF Ready
<1> QED
  BY <1>2, <1>3, <1>5, <1>6 DEF TaleInv

\* The flush that starts a match.
LEMMA FlushStart ==
  ASSUME NEW l, Ready(l), l.room = "match", NEW batch \in Seq(Kinds), Len(batch) = 2,
         batch[1] = "update", batch[2] = "start", NEW t \in Flush(l, batch, FALSE)
  PROVE  TaleInv(t)
<1>1. TypedLog(l) /\ l \in Log
  BY DEF Ready, TypedLog
<1>2. Counted(t) /\ FlushOutcome(l, t, batch, FALSE)
  BY <1>1, FlushTold DEF Ready
<1>3. PICK c \in {batch, Append(batch, "play")} :
        Told(l, t, c) /\ t.room = "match" /\ ~t.finishAfterSave /\ ~t.poisoned
  BY <1>2, Zenon DEF FlushOutcome
<1>4. /\ c \in Seq(Kinds) /\ Len(c) \in {2, 3} /\ c[1] = "update" /\ c[2] = "start"
      /\ Len(c) = 3 => c[3] = "play"
  <2>1. CASE c = batch
    BY <2>1
  <2>2. CASE c = Append(batch, "play")
    <3>1. /\ c \in Seq(Kinds) /\ Len(c) = Len(batch) + 1 /\ c[Len(batch) + 1] = "play"
          /\ \A i \in 1 .. Len(batch) : c[i] = batch[i]
      BY <2>2, PlayBehind, Zenon
    <3> QED
      BY <3>1
  <2> QED
    BY <2>1, <2>2
<1>5. Numbered(t)
  BY <1>1, <1>3, <1>4, ToldNumbered DEF Ready
<1>6. Ends(t.built, Len(t.built)) /\ Open(t.built, Len(t.built))
  BY <1>1, <1>3, <1>4, ToldStart DEF Ready
<1> QED
  BY <1>2, <1>3, <1>5, <1>6 DEF TaleInv

\* The flush that ends a match.
LEMMA FlushEnd ==
  ASSUME NEW l, Ready(l), l.room = "match", Open(l.built, Len(l.built)),
         NEW batch \in Seq(Kinds), Len(batch) = 2, batch[1] = "end", batch[2] = "update",
         NEW t \in Flush(l, batch, TRUE)
  PROVE  TaleInv(t)
<1>1. TypedLog(l) /\ l \in Log
  BY DEF Ready, TypedLog
<1>2. Counted(t) /\ FlushOutcome(l, t, batch, TRUE)
  BY <1>1, FlushTold DEF Ready
<1>3. /\ Told(l, t, batch) /\ ~t.poisoned
      /\ \/ ~t.finishAfterSave /\ t.room = "lobby"
         \/ t.finishAfterSave /\ t.storagePaused /\ t.room = "match"
  BY <1>2 DEF FlushOutcome
<1>4. Numbered(t)
  BY <1>1, <1>3, ToldNumbered DEF Ready
<1>5. Ends(t.built, Len(t.built)) /\ Ended(t.built, Len(t.built))
  <2>1. Ended(l.built, Len(l.built))
    BY OpenIsEnded
  <2> QED
    BY <1>1, <1>3, <2>1, ToldEnd DEF Ready
<1> QED
  BY <1>2, <1>3, <1>4, <1>5 DEF TaleInv

\* The state in which a handler of an orderly room begins.
InOrderBefore == Orderly /\ TypedLog(log) /\ LogInv(log) /\ TaleInv(log)

LEMMA CreateTale ==
  ASSUME InOrderBefore, Create
  PROVE  TaleInv(log')
<1> DEFINE o == [log EXCEPT !.room = "lobby"]
           batch == <<"update">>
<1>1. PICK l \in Flush(o, batch, FALSE) : Commit(l)
  BY DEF Create
<1>2. log \in Log /\ log.room = "none" /\ TypedLog(log) /\ LogInv(log) /\ TaleInv(log)
  BY DEF InOrderBefore, TypedLog, Create
<1>3. /\ o \in Log /\ o.built = log.built /\ o.boundary = log.boundary /\ o.room = "lobby"
      /\ o.pending = log.pending /\ o.poisoned = log.poisoned
      /\ o.finishAfterSave = log.finishAfterSave
      /\ o.retryDue = log.retryDue /\ o.retryAttempt = log.retryAttempt
  BY <1>2 DEF Log
<1>4. /\ batch \in Seq(Kinds)
      /\ \A i \in 1 .. Len(batch) : batch[i] \in {"update", "other"}
  BY DEF Kinds
<1> HIDE DEF o, batch
<1>5. ~log.storagePaused /\ ~log.poisoned
  BY <1>2 DEF LogInv, TaleInv
<1>6. Ready(log)
  BY <1>2, <1>5, RoomIsReady
<1>7. TypedLog(o)
  BY <1>2, <1>3 DEF TypedLog
<1>8. Ready(o)
  BY <1>3, <1>6, <1>7, ReadySame
<1>9. TaleInv(l)
  BY <1>3, <1>4, <1>8, FlushOutside
<1> QED
  BY <1>1, <1>9 DEF Commit

LEMMA LobbyChangeTale ==
  ASSUME InOrderBefore, LobbyChange
  PROVE  TaleInv(log')
<1>1. PICK batch \in {<<"update">>, <<"other", "update">>} :
        \E l \in Flush(log, batch, FALSE) : Commit(l)
  BY DEF LobbyChange
<1>2. PICK l \in Flush(log, batch, FALSE) : Commit(l)
  BY <1>1
<1>3. /\ batch \in Seq(Kinds)
      /\ \A i \in 1 .. Len(batch) : batch[i] \in {"update", "other"}
  <2>1. CASE batch = <<"update">>
    BY <2>1 DEF Kinds
  <2>2. CASE batch = <<"other", "update">>
    BY <2>2 DEF Kinds
  <2> QED
    BY <2>1, <2>2, Zenon
<1>4. Ready(log) /\ log.room = "lobby"
  BY RoomIsReady DEF InOrderBefore, LobbyChange, Usable
<1>5. TaleInv(l)
  BY <1>3, <1>4, FlushOutside
<1> QED
  BY <1>2, <1>5 DEF Commit

LEMMA LastHumanLeavesTale ==
  ASSUME InOrderBefore, LastHumanLeaves
  PROVE  TaleInv(log')
<1>1. log \in Log /\ log' = [log EXCEPT !.room = "closed"]
  BY DEF InOrderBefore, TypedLog, LastHumanLeaves, Commit
<1>2. /\ log'.built = log.built /\ log'.room = "closed" /\ log'.storagePaused = log.storagePaused
      /\ log'.finishAfterSave = log.finishAfterSave /\ log'.poisoned = log.poisoned
  BY <1>1 DEF Log
<1> QED
  BY <1>2 DEF InOrderBefore, TaleInv, Numbered, Counted

LEMMA StartMatchTale ==
  ASSUME InOrderBefore, StartMatch
  PROVE  TaleInv(log')
<1> DEFINE o == [log EXCEPT !.room = "match", !.matches = log.matches + 1]
           batch == <<"update", "start">>
<1>1. log \in Log /\ log.matches < MaxMatches
  BY DEF InOrderBefore, TypedLog, StartMatch
<1>2. PICK l \in Flush(o, batch, FALSE) : Commit(l)
  BY <1>1 DEF StartMatch, Log
<1>3. log.matches + 1 \in 0 .. MaxMatches
  <2>1. log.matches \in 0 .. MaxMatches
    BY <1>1 DEF Log
  <2>2. MaxMatches \in Nat
    BY EventLogAssumption
  <2> QED
    BY <1>1, <2>1, <2>2
<1>4. /\ o \in Log /\ o.built = log.built /\ o.boundary = log.boundary /\ o.room = "match"
      /\ o.pending = log.pending /\ o.poisoned = log.poisoned
      /\ o.finishAfterSave = log.finishAfterSave
      /\ o.retryDue = log.retryDue /\ o.retryAttempt = log.retryAttempt
  BY <1>1, <1>3 DEF Log
<1>5. batch \in Seq(Kinds) /\ Len(batch) = 2 /\ batch[1] = "update" /\ batch[2] = "start"
  BY DEF Kinds
<1> HIDE DEF o, batch
<1>6. Ready(log)
  BY RoomIsReady DEF InOrderBefore, StartMatch, Usable
<1>7. TypedLog(o)
  BY <1>4 DEF InOrderBefore, TypedLog
<1>8. Ready(o)
  BY <1>4, <1>6, <1>7, ReadySame
<1>9. TaleInv(l)
  BY <1>4, <1>5, <1>8, FlushStart
<1> QED
  BY <1>2, <1>9 DEF Commit

LEMMA MatchChangeTale ==
  ASSUME InOrderBefore, MatchChange
  PROVE  TaleInv(log')
<1>1. log \in Log /\ log.room = "match"
  BY DEF InOrderBefore, TypedLog, MatchChange
<1>2. PICK n \in 1 .. 2, away \in BOOLEAN :
        \E l \in Flush([log EXCEPT !.away = away], [i \in 1 .. n |-> "play"], FALSE) : Commit(l)
  BY DEF MatchChange
<1> DEFINE o == [log EXCEPT !.away = away]
           batch == [i \in 1 .. n |-> "play"]
<1>3. PICK l \in Flush(o, batch, FALSE) : Commit(l)
  BY <1>2
<1>4. /\ o \in Log /\ o.built = log.built /\ o.boundary = log.boundary /\ o.room = "match"
      /\ o.pending = log.pending /\ o.poisoned = log.poisoned
      /\ o.finishAfterSave = log.finishAfterSave
      /\ o.retryDue = log.retryDue /\ o.retryAttempt = log.retryAttempt
  BY <1>1 DEF Log
<1>5. /\ batch \in Seq(Kinds)
      /\ \A i \in 1 .. Len(batch) : batch[i] \in {"update", "other", "play"}
  BY DEF Kinds
<1> HIDE DEF o, batch
<1>6. Ready(log)
  BY RoomIsReady DEF InOrderBefore, MatchChange, Usable
<1>7. TypedLog(o)
  BY <1>4 DEF InOrderBefore, TypedLog
<1>8. Ready(o)
  BY <1>4, <1>6, <1>7, ReadySame
<1>9. Open(o.built, Len(o.built))
  BY <1>1, <1>4, <1>6 DEF InOrderBefore, TaleInv, Ready
<1>10. TaleInv(l)
  BY <1>4, <1>5, <1>8, <1>9, FlushInMatch
<1> QED
  BY <1>3, <1>10 DEF Commit

LEMMA SpectatorJoinsTale ==
  ASSUME InOrderBefore, SpectatorJoins
  PROVE  TaleInv(log')
<1> DEFINE batch == <<"update">>
<1>1. PICK l \in Flush(log, batch, FALSE) : Commit(l)
  BY DEF SpectatorJoins
<1>2. /\ batch \in Seq(Kinds)
      /\ \A i \in 1 .. Len(batch) : batch[i] \in {"update", "other", "play"}
  BY DEF Kinds
<1> HIDE DEF batch
<1>3. log.room = "match" /\ ~log.poisoned /\ ~log.storagePaused
  BY DEF SpectatorJoins, InOrderBefore, Orderly
<1>4. Ready(log)
  BY <1>3, RoomIsReady DEF InOrderBefore
<1>5. Open(log.built, Len(log.built))
  BY <1>3, <1>4 DEF InOrderBefore, TaleInv, Ready
<1>6. TaleInv(l)
  BY <1>2, <1>3, <1>4, <1>5, FlushInMatch
<1> QED
  BY <1>1, <1>6 DEF Commit

LEMMA FinishMatchTale ==
  ASSUME InOrderBefore, FinishMatch
  PROVE  TaleInv(log')
<1> DEFINE batch == <<"end", "update">>
<1>1. PICK l \in Flush(log, batch, TRUE) : Commit(l)
  BY DEF FinishMatch
<1>2. batch \in Seq(Kinds) /\ Len(batch) = 2 /\ batch[1] = "end" /\ batch[2] = "update"
  BY DEF Kinds
<1> HIDE DEF batch
<1>3. log.room = "match" /\ ~log.poisoned /\ ~log.storagePaused
  BY DEF FinishMatch, Usable
<1>4. Ready(log)
  BY <1>3, RoomIsReady DEF InOrderBefore
<1>5. Open(log.built, Len(log.built))
  BY <1>3, <1>4 DEF InOrderBefore, TaleInv, Ready
<1>6. TaleInv(l)
  BY <1>2, <1>3, <1>4, <1>5, FlushEnd
<1> QED
  BY <1>1, <1>6 DEF Commit

LEMMA DeferPresenceTale ==
  ASSUME InOrderBefore, DeferPresence
  PROVE  TaleInv(log')
<1>1. /\ log \in Log /\ log.room = "match" /\ log.storagePaused /\ TaleInv(log)
      /\ ~log.poisoned /\ Len(log.built) = log.boundary + Len(log.pending)
  BY DEF InOrderBefore, TypedLog, DeferPresence, TaleInv, Counted
<1>2. PICK away \in BOOLEAN, batch \in PresenceBatches(log) :
        Commit(Build([log EXCEPT !.away = away,
                                 !.pending = @ \o NewIDs(log, Len(batch)),
                                 !.retryDue = @ \/ (~away /\ ~log.retryDue),
                                 !.retryAttempt = IF ~away /\ ~log.retryDue THEN 0 ELSE @],
                     batch, log.boundary + Len(log.pending)))
  BY DEF DeferPresence
<1> DEFINE q == log.pending \o NewIDs(log, Len(batch))
           due == log.retryDue \/ (~away /\ ~log.retryDue)
           n == IF ~away /\ ~log.retryDue THEN 0 ELSE log.retryAttempt
           o == [log EXCEPT !.away = away, !.pending = q, !.retryDue = due, !.retryAttempt = n]
           l == Build(o, batch, Len(log.built))
<1>3. /\ batch \in Seq(Kinds)
      /\ \A i \in 1 .. Len(batch) : batch[i] \in {"update", "other", "play"}
      /\ log.finishAfterSave => \A i \in 1 .. Len(batch) : batch[i] \in {"update", "other"}
  <2>1. CASE batch = <<"other">>
    BY <2>1 DEF Kinds
  <2>2. CASE batch = <<"other", "play">> /\ ~log.finishAfterSave
    BY <2>2 DEF Kinds
  <2>3. batch = <<"other">> \/ (batch = <<"other", "play">> /\ ~log.finishAfterSave)
    BY Zenon DEF PresenceBatches
  <2> QED
    BY <2>1, <2>2, <2>3, Zenon
<1>4. /\ log.pending \in Seq(EventID) /\ Len(log.pending) \in Nat /\ Len(batch) \in Nat
      /\ Len(log.built) \in Nat /\ log.boundary \in Nat
  BY <1>1, <1>3, BuiltFacts DEF Log
<1>5. q \in Seq(EventID) /\ Len(q) = Len(log.pending) + Len(batch)
  <2>1. NewIDs(log, Len(batch)) \in Seq(EventID) /\ Len(NewIDs(log, Len(batch))) = Len(batch)
    BY <1>1, <1>4, NewIDsFacts, Zenon
  <2>2. q \in Seq(EventID) /\ Len(q) = Len(log.pending) + Len(NewIDs(log, Len(batch)))
    BY <1>4, <2>1, ConcatIDs, Zenon
  <2> QED
    BY <2>1, <2>2
<1>6. due \in BOOLEAN /\ n \in 0 .. StorageRetries
  <2>1. log.retryAttempt \in 0 .. StorageRetries /\ 0 \in 0 .. StorageRetries
    BY <1>1 DEF Log, StorageRetries
  <2> QED
    BY <1>1, <2>1
<1>7. log' = l
  BY <1>1, <1>2 DEF Log, Commit
<1> HIDE DEF q, due, n
<1>8. /\ o \in Log /\ o.built = log.built /\ o.boundary = log.boundary /\ o.room = "match"
      /\ o.storagePaused /\ o.poisoned = log.poisoned /\ o.pending = q
      /\ o.finishAfterSave = log.finishAfterSave
  BY <1>1, <1>5, <1>6 DEF Log
<1> HIDE DEF o
<1>9. l \in Log /\ SameFlags(o, l) /\ l.pending = o.pending /\ l.boundary = o.boundary
  BY <1>3, <1>4, <1>8, BuildKeeps
<1>10. Told(o, l, batch)
  BY <1>3, <1>8, BuildTold
<1> HIDE DEF l
<1>11. Told(log, l, batch)
  BY <1>8, <1>10, ToldSame
<1>12. Numbered(l)
  BY <1>1, <1>3, <1>11, ToldNumbered DEF TaleInv
<1>13. Len(l.built) = l.boundary + Len(l.pending)
  <2>1. Len(l.built) = Len(log.built) + Len(batch)
    BY <1>11 DEF Told
  <2>2. l.boundary = log.boundary /\ Len(l.pending) = Len(log.pending) + Len(batch)
    BY <1>5, <1>8, <1>9
  <2>3. Len(log.built) = log.boundary + Len(log.pending)
    BY <1>1
  <2> QED
    BY <1>4, <2>1, <2>2, <2>3
<1>14. /\ l.room = "match" /\ l.storagePaused /\ ~l.poisoned
       /\ l.finishAfterSave = log.finishAfterSave
  BY <1>1, <1>8, <1>9 DEF SameFlags
<1>15. CASE log.finishAfterSave
  <2>1. Ends(l.built, Len(l.built)) /\ Ended(l.built, Len(l.built))
    BY <1>1, <1>3, <1>11, <1>15, ToldOthers DEF TaleInv
  <2> QED
    BY <1>7, <1>12, <1>13, <1>14, <1>15, <2>1 DEF TaleInv, Counted
<1>16. CASE ~log.finishAfterSave
  <2>1. Ends(l.built, Len(l.built)) /\ Open(l.built, Len(l.built))
    BY <1>1, <1>3, <1>11, <1>16, ToldPlay DEF TaleInv
  <2> QED
    BY <1>7, <1>12, <1>13, <1>14, <1>16, <2>1 DEF TaleInv, Counted
<1> QED
  BY <1>15, <1>16

\* The save that ends a match that waits for nothing or for the store.
LEMMA LastSaveTale ==
  ASSUME NEW l \in Log, Orderly, LogInv(l), TaleInv(l), l.room = "match",
         NEW t \in SaveTerminal(l)
  PROVE  /\ t \in Log /\ Numbered(t) /\ Ends(t.built, Len(t.built))
         /\ Len(t.built) = t.boundary
<1> DEFINE batch == <<"end", "update">>
<1>1. /\ Committed(l) /\ Continues(l, l.pending) /\ ~LastSaveFails
      /\ Len(l.built) = l.boundary + Len(l.pending)
  BY DEF LogInv, TaleInv, Counted, Orderly
<1>2. t \in Log /\ Told(l, t, batch) /\ Len(t.built) = t.boundary
  BY <1>1, SaveTerminalTold
<1>3. batch \in Seq(Kinds) /\ Len(batch) = 2 /\ batch[1] = "end" /\ batch[2] = "update"
  BY DEF Kinds
<1> HIDE DEF batch
<1>4. Numbered(t)
  BY <1>2, <1>3, ToldNumbered DEF TaleInv
<1>5. Ends(l.built, Len(l.built)) /\ Ended(l.built, Len(l.built))
  BY OpenIsEnded DEF TaleInv
<1>6. Ends(t.built, Len(t.built))
  BY <1>2, <1>3, <1>5, ToldEnd
<1> QED
  BY <1>2, <1>4, <1>6

\* The teardown of a match whose events are all committed.
LEMMA DetachTale ==
  ASSUME NEW l \in Log, Numbered(l), Ends(l.built, Len(l.built)), Len(l.built) = l.boundary,
         NEW t, t = Detach(l)
  PROVE  TaleInv(t)
<1>1. /\ t.room = "lobby" /\ t.pending = <<>> /\ t.built = l.built /\ t.boundary = l.boundary
  BY DetachFacts
<1>2. ~t.finishAfterSave
  BY DEF Detach, Log
<1>3. Len(<<>>) = 0 /\ l.boundary \in Nat
  BY DEF Log
<1>4. Len(t.built) = t.boundary + Len(t.pending)
  BY <1>1, <1>3
<1> QED
  BY <1>1, <1>2, <1>4 DEF TaleInv, Numbered, Counted

LEMMA RetryFailsTale ==
  ASSUME InOrderBefore, RetryFails
  PROVE  TaleInv(log')
<1> DEFINE f == [log EXCEPT !.retryAttempt = log.retryAttempt + 1, !.retryDue = FALSE]
           r == [f EXCEPT !.retryDue = TRUE]
<1>1. /\ log \in Log /\ log.retryDue /\ log.retryAttempt < StorageRetries
      /\ log.room = "match" /\ log.storagePaused /\ LogInv(log) /\ TaleInv(log) /\ Orderly
  BY DEF InOrderBefore, TypedLog, RetryFails, LogInv
<1>2. \/ log' = r
      \/ log' = f
      \/ \E l \in InvalidateMatch(f) : log' = l
  BY <1>1 DEF RetryFails, Log, Commit
<1>3. log.retryAttempt + 1 \in 0 .. StorageRetries
  BY <1>1 DEF Log, StorageRetries
<1>4. /\ f \in Log /\ f.built = log.built /\ f.published = log.published
      /\ f.stored = log.stored /\ f.boundary = log.boundary /\ f.room = log.room
      /\ f.storagePaused = log.storagePaused /\ f.pending = log.pending /\ f.retryDue = FALSE
      /\ f.poisoned = log.poisoned /\ f.finishAfterSave = log.finishAfterSave
  BY <1>1, <1>3 DEF Log
<1> HIDE DEF f
<1>5. /\ r.built = f.built /\ r.boundary = f.boundary /\ r.room = f.room
      /\ r.storagePaused = f.storagePaused /\ r.pending = f.pending
      /\ r.poisoned = f.poisoned /\ r.finishAfterSave = f.finishAfterSave
  BY <1>4 DEF Log
<1> HIDE DEF r
<1>6. /\ (Committed(log) => Committed(f)) /\ (Sound(log) => Sound(f))
      /\ \A ids : Continues(log, ids) => Continues(f, ids)
  BY <1>1, <1>4, SameStream
<1>7. LogInv(f)
  BY <1>1, <1>4, <1>6 DEF LogInv
<1>8. TaleInv(f)
  BY <1>1, <1>4 DEF TaleInv, Numbered, Counted
<1>9. TaleInv(r)
  BY <1>5, <1>8 DEF TaleInv, Numbered, Counted
<1>10. ASSUME NEW l \in InvalidateMatch(f)
       PROVE  TaleInv(l)
  <2>1. PICK s \in SaveTerminal(f) : l = Detach(s)
    BY <1>10 DEF InvalidateMatch
  <2>2. s \in Log /\ Numbered(s) /\ Ends(s.built, Len(s.built)) /\ Len(s.built) = s.boundary
    BY <1>1, <1>4, <1>7, <1>8, <2>1, LastSaveTale
  <2> QED
    BY <2>1, <2>2, DetachTale
<1> QED
  BY <1>2, <1>8, <1>9, <1>10, Zenon

LEMMA PresenceExpiresTale ==
  ASSUME InOrderBefore, PresenceExpires
  PROVE  TaleInv(log')
<1>1. /\ log \in Log /\ log.room = "match" /\ LogInv(log) /\ TaleInv(log) /\ Orderly
  BY DEF InOrderBefore, TypedLog, PresenceExpires
<1>2. PICK s \in SaveTerminal(log) : log' = [Detach(s) EXCEPT !.room = "closed", !.boundary = 0]
  BY DEF PresenceExpires, TerminateDisconnectedMatch, Commit
<1>3. s \in Log /\ Numbered(s) /\ Ends(s.built, Len(s.built)) /\ Len(s.built) = s.boundary
  BY <1>1, <1>2, LastSaveTale
<1> DEFINE d == Detach(s)
<1>4. d \in Log /\ TaleInv(d)
  BY <1>3, DetachTale, DetachFacts DEF TypedLog
<1> HIDE DEF d
<1>5. log' = [d EXCEPT !.room = "closed", !.boundary = 0]
  BY <1>2 DEF d
<1>6. /\ log'.built = d.built /\ log'.room = "closed" /\ log'.poisoned = d.poisoned
      /\ log'.storagePaused = d.storagePaused /\ log'.finishAfterSave = d.finishAfterSave
  BY <1>4, <1>5 DEF Log
<1> QED
  BY <1>4, <1>6 DEF TaleInv, Numbered, Counted

LEMMA RetrySucceedsTale ==
  ASSUME InOrderBefore, RetrySucceeds
  PROVE  TaleInv(log')
<1> DEFINE p == Publish(Save(log, log.pending), log.pending)
           v == [p EXCEPT !.retryDue = FALSE]
           batch == <<"play">>
<1>1. /\ log \in Log /\ log.retryDue /\ log.pending \in Seq(EventID)
      /\ log.room = "match" /\ log.storagePaused /\ LogInv(log) /\ TaleInv(log)
      /\ ~log.poisoned /\ Len(log.built) = log.boundary + Len(log.pending)
  BY DEF InOrderBefore, TypedLog, RetrySucceeds, LogInv, TaleInv, Counted, Log
<1>2. \/ log.finishAfterSave /\ log' = Detach(v)
      \/ /\ ~log.finishAfterSave
         /\ \E l \in Resume(v) :
              \/ log' = l
              \/ ~l.storagePaused /\ \E t \in Flush(l, batch, FALSE) : log' = t
  BY DEF RetrySucceeds, Commit
<1>3. /\ p \in Log /\ SameFlags(log, p) /\ p.built = log.built
      /\ p.boundary = log.boundary + Len(log.pending)
      /\ Committed(log) /\ Continues(log, log.pending) => Committed(p)
  <2>1. /\ p \in Log /\ SameFlags(log, p) /\ p.built = log.built
        /\ p.boundary = log.boundary + Len(log.pending)
    BY <1>1, SavedCount
  <2>2. Committed(log) /\ Continues(log, log.pending) => Committed(p)
    BY <1>1, SavedBatch
  <2> QED
    BY <2>1, <2>2
<1> HIDE DEF p
<1>4. /\ v \in Log /\ v.built = p.built /\ v.published = p.published
      /\ v.stored = p.stored /\ v.boundary = p.boundary /\ v.room = p.room
      /\ v.storagePaused = p.storagePaused /\ v.poisoned = p.poisoned
      /\ v.finishAfterSave = p.finishAfterSave /\ v.retryDue = FALSE
  BY <1>3 DEF Log
<1> HIDE DEF v
<1>5. Committed(v)
  <2>1. Committed(log) /\ Continues(log, log.pending)
    BY <1>1 DEF LogInv
  <2> QED
    BY <1>3, <1>4, <2>1, SameStream
<1>6. /\ v.room = "match" /\ v.storagePaused /\ ~v.poisoned
      /\ v.finishAfterSave = log.finishAfterSave /\ v.built = log.built
      /\ Len(v.built) = v.boundary
  BY <1>1, <1>3, <1>4 DEF SameFlags
<1>7. Numbered(v) /\ Ends(v.built, Len(v.built))
  BY <1>1, <1>6 DEF TaleInv, Numbered
<1>8. CASE log.finishAfterSave /\ log' = Detach(v)
  BY <1>4, <1>6, <1>7, <1>8, DetachTale
<1>9. batch \in Seq(Kinds) /\ \A i \in 1 .. Len(batch) : batch[i] \in {"update", "other", "play"}
  BY DEF Kinds
<1>10. ASSUME ~log.finishAfterSave, NEW l \in Resume(v)
       PROVE  TypedLog(l) /\ LogInv(l) /\ TaleInv(l) /\ l.room = "match" /\ ~l.poisoned
  <2>1. TypedLog(l) /\ LogInv(l)
    BY <1>4, <1>5, <1>6, <1>10, ResumeFacts
  <2>2. /\ Told(v, l, batch) /\ Len(l.built) = l.boundary + Len(l.pending)
        /\ l.room = "match" /\ ~l.poisoned /\ ~l.finishAfterSave
    BY <1>4, <1>6, <1>10, ResumeTold
  <2> HIDE DEF batch
  <2>3. Numbered(l)
    BY <1>4, <1>7, <1>9, <2>2, ToldNumbered
  <2>4. Open(v.built, Len(v.built))
    BY <1>1, <1>6, <1>10 DEF TaleInv
  <2>5. Ends(l.built, Len(l.built)) /\ Open(l.built, Len(l.built))
    BY <1>4, <1>7, <1>9, <2>2, <2>4, ToldPlay
  <2> QED
    BY <2>1, <2>2, <2>3, <2>5 DEF TaleInv, Counted
<1> HIDE DEF batch
<1>11. ASSUME ~log.finishAfterSave, NEW l \in Resume(v), ~l.storagePaused,
              NEW t \in Flush(l, batch, FALSE)
       PROVE  TaleInv(t)
  <2>1. TypedLog(l) /\ LogInv(l) /\ TaleInv(l) /\ l.room = "match" /\ ~l.poisoned
    BY <1>10, <1>11
  <2>2. Ready(l)
    BY <1>11, <2>1, RoomIsReady
  <2>3. Open(l.built, Len(l.built))
    BY <2>1, <2>2 DEF TaleInv, Ready
  <2> QED
    BY <1>9, <1>11, <2>1, <2>2, <2>3, FlushInMatch
<1> QED
  BY <1>2, <1>8, <1>10, <1>11, Zenon

\* Every step of an orderly room.
LEMMA TaleKept ==
  ASSUME InOrderBefore, [Next]_vars
  PROVE  TaleInv(log')
<1>1. CASE HubStep \/ UNCHANGED vars
  <2>1. log' = log
    BY <1>1 DEF vars, HubStep, Subscribe, Receive, Unsubscribe, ReconnectBundle
  <2> QED
    BY <2>1 DEF InOrderBefore
<1> QED
  BY <1>1, CreateTale, LobbyChangeTale, LastHumanLeavesTale, StartMatchTale, MatchChangeTale,
     SpectatorJoinsTale, FinishMatchTale, DeferPresenceTale, RetryFailsTale,
     RetrySucceedsTale, PresenceExpiresTale, Zenon DEF Next, HubStep

LEMMA TaleBegins ==
  ASSUME Init
  PROVE  TaleInv(log)
<1>1. Len(<<>>) = 0 /\ 1 .. 0 = {}
  OBVIOUS
<1> QED
  BY <1>1 DEF Init, TaleInv, Numbered, Counted, Ends

\* Two events belong to one match if and only if no GAME_STARTED lies between
\* them.
LEMMA OneMatch ==
  ASSUME NEW l, NEW i \in Nat, NEW j \in Nat, i <= j
  PROVE  (MatchOf(l, i) = MatchOf(l, j)) <=> Quiet(l.built, i, j)
<1> DEFINE S == {k \in 1 .. i : l.built[k].kind = "start"}
           T == {k \in 1 .. j : l.built[k].kind = "start"}
<1>1. IsFiniteSet(1 .. j)
  BY FS_Interval
<1>2. T \in SUBSET (1 .. j) /\ S \in SUBSET T
  OBVIOUS
<1>3. IsFiniteSet(T)
  BY <1>1, <1>2, FS_Subset
<1>4. Cardinality(T) = Cardinality(S) => T = S
  BY <1>2, <1>3, FS_Subset
<1>5. T = S <=> Quiet(l.built, i, j)
  BY DEF Quiet
<1>6. MatchOf(l, i) = Cardinality(S) /\ MatchOf(l, j) = Cardinality(T)
  BY DEF MatchOf
<1> QED
  BY <1>4, <1>5, <1>6

\* An event of a match has the GAME_STARTED of the match at or before it.
LEMMA HasStart ==
  ASSUME NEW l, NEW i \in Nat, MatchOf(l, i) # 0
  PROVE  \E j \in 1 .. i : l.built[j].kind = "start" /\ Quiet(l.built, j, i)
<1> DEFINE S == {k \in 1 .. i : l.built[k].kind = "start"}
<1>1. S # {}
  BY FS_EmptySet DEF MatchOf
<1>2. S \in SUBSET (1 .. i)
  OBVIOUS
<1>3. PICK j \in S : \A k \in S : k <= j
  BY <1>1, <1>2, GreatestNumber
<1>4. j \in 1 .. i /\ l.built[j].kind = "start"
  BY <1>3
<1>5. ASSUME NEW k \in (j + 1) .. i, l.built[k].kind = "start"
      PROVE  FALSE
  <2>1. k \in S
    BY <1>4, <1>5
  <2>2. k <= j
    BY <1>3, <2>1
  <2> QED
    BY <1>4, <2>2
<1> QED
  BY <1>4, <1>5 DEF Quiet

\* Rows of events numbered by their place that miss no GAME_STARTED up to their
\* last begin every match with it.
LEMMA StartIsFirst ==
  ASSUME NEW l, NEW n \in Nat, n <= Len(l.built), Len(l.built) \in Nat, Numbered(l),
         l.stored \subseteq 1 .. n,
         \A k \in 1 .. n : l.built[k].kind = "start" => k \in l.stored,
         NEW match \in Nat \ {0}, NEW id \in GameRows(l, match)
  PROVE  l.built[id].kind = "start" <=>
           \A other \in GameRows(l, match) \ {id} : l.built[id].number < l.built[other].number
<1>1. \A a \in GameRows(l, match) : a \in 1 .. n /\ a \in Nat /\ l.built[a].number = a
  BY DEF GameRows, Numbered
<1>2. ASSUME l.built[id].kind = "start", NEW other \in GameRows(l, match) \ {id}
      PROVE  l.built[id].number < l.built[other].number
  <2>1. id \in 1 .. n /\ other \in 1 .. n /\ other # id /\ MatchOf(l, other) = MatchOf(l, id)
    BY <1>1 DEF GameRows
  <2>2. ASSUME other < id PROVE FALSE
    <3>1. Quiet(l.built, other, id)
      BY <2>1, <2>2, OneMatch
    <3>2. id \in (other + 1) .. id
      BY <2>1, <2>2
    <3> QED
      BY <1>2, <3>1, <3>2 DEF Quiet
  <2>3. id < other
    BY <2>1, <2>2
  <2> QED
    BY <1>1, <2>3
<1>3. ASSUME \A other \in GameRows(l, match) \ {id} : l.built[id].number < l.built[other].number
      PROVE  l.built[id].kind = "start"
  <2>1. id \in 1 .. n /\ MatchOf(l, id) = match
    BY <1>1 DEF GameRows
  <2>2. PICK j \in 1 .. id : l.built[j].kind = "start" /\ Quiet(l.built, j, id)
    BY <2>1, HasStart
  <2>3. j \in 1 .. n /\ j <= id
    BY <2>1, <2>2
  <2>4. MatchOf(l, j) = match
    BY <2>1, <2>2, <2>3, OneMatch
  <2>5. j \in GameRows(l, match)
    BY <2>2, <2>3, <2>4 DEF GameRows, GameLogKinds
  <2>6. j = id
    <3>1. SUFFICES ASSUME j # id PROVE FALSE
      OBVIOUS
    <3>2. l.built[id].number < l.built[j].number
      BY <1>3, <2>5, <3>1
    <3>3. id < j
      BY <1>1, <2>5, <3>2
    <3> QED
      BY <2>1, <2>3, <3>3
  <2> QED
    BY <2>2, <2>6
<1> QED
  BY <1>2, <1>3

\* The rows of a log in order are its first events.
LEMMA StoredIsPrefix ==
  ASSUME NEW l \in Log, Sound(l), Numbered(l)
  PROVE  \E n \in Nat : n <= Len(l.built) /\ l.stored = 1 .. n
<1> DEFINE p == l.published
           n == Len(p)
<1>1. n \in Nat /\ DOMAIN p = 1 .. n
  BY DEF Log
<1>2. Len(l.built) \in Nat
  BY BuiltFacts
<1>3. /\ \A i \in 1 .. n : p[i] \in 1 .. Len(l.built) /\ l.built[p[i]].number = i
      /\ l.stored = {p[i] : i \in 1 .. n}
  BY <1>1 DEF Sound, KnownIDs
<1> HIDE DEF p, n
<1>4. \A i \in 1 .. n : p[i] = i
  BY <1>3 DEF Numbered
<1>5. l.stored = 1 .. n
  BY <1>3, <1>4
<1>6. n <= Len(l.built)
  <2>1. CASE n = 0
    BY <1>2, <2>1
  <2>2. CASE n # 0
    <3>1. n \in 1 .. n
      BY <1>1, <2>2
    <3> QED
      BY <1>2, <1>3, <1>4, <3>1
  <2> QED
    BY <2>1, <2>2
<1> QED
  BY <1>1, <1>5, <1>6

\* Where no row lies behind a GAME_ENDED, the log of the match can be read.
LEMMA ReadableMatch ==
  ASSUME NEW l, NEW n \in Nat, n <= Len(l.built), Len(l.built) \in Nat, Numbered(l),
         l.stored \subseteq 1 .. n,
         \A k \in 1 .. n : l.built[k].kind = "start" => k \in l.stored,
         NEW match \in Nat \ {0},
         \A e, r \in GameRows(l, match) : l.built[e].kind = "end" => ~(e < r)
  PROVE  DeriveGameLog(l, match)
<1>1. \A id \in GameRows(l, match) :
        l.built[id].kind = "start" <=>
          \A other \in GameRows(l, match) \ {id} : l.built[id].number < l.built[other].number
  BY StartIsFirst
<1>2. \A a \in GameRows(l, match) : l.built[a].number = a
  BY DEF GameRows, Numbered
<1>3. \A e \in GameRows(l, match) : l.built[e].kind = "end" =>
        ~\E r \in GameRows(l, match) : l.built[e].number < l.built[r].number
  BY <1>2
<1> QED
  BY <1>1, <1>3 DEF DeriveGameLog

\* What the invariant says of the game logs.
LEMMA TaleIsReadable ==
  ASSUME log \in Log, Sound(log), TaleInv(log)
  PROVE  GameLogsAreReadable
<1>1. PICK n \in Nat : n <= Len(log.built) /\ log.stored = 1 .. n
  BY StoredIsPrefix DEF TaleInv
<1>2. Len(log.built) \in Nat /\ Numbered(log) /\ Ends(log.built, Len(log.built))
  BY BuiltFacts DEF TaleInv
<1> SUFFICES ASSUME NEW match \in 1 .. log.matches
             PROVE  LET ends == {id \in GameRows(log, match) : log.built[id].kind = "end"} IN
                    \/ DeriveGameLog(log, match)
                    \/ /\ Cardinality(ends) = 2
                       /\ \E id \in ends : DeriveGameLog([log EXCEPT !.stored = @ \ {id}], match)
  BY DEF GameLogsAreReadable
<1> DEFINE rows == GameRows(log, match)
           ends == {id \in rows : log.built[id].kind = "end"}
<1>3. match \in Nat \ {0} /\ log.matches \in Nat
  BY DEF Log
<1>4. ASSUME NEW a \in rows, NEW b \in rows, a < b
      PROVE  /\ a \in 1 .. Len(log.built) /\ b \in 1 .. Len(log.built)
             /\ IsGame(log.built, a) /\ IsGame(log.built, b) /\ Quiet(log.built, a, b)
  <2>1. /\ a \in 1 .. Len(log.built) /\ b \in 1 .. Len(log.built)
        /\ MatchOf(log, a) = MatchOf(log, b)
    BY <1>1, <1>2 DEF GameRows
  <2>2. Quiet(log.built, a, b)
    BY <1>4, <2>1, OneMatch
  <2> QED
    BY <2>1, <2>2 DEF GameRows, IsGame
<1>5. CASE \A e, r \in rows : log.built[e].kind = "end" => ~(e < r)
  <2>1. DeriveGameLog(log, match)
    BY <1>1, <1>2, <1>3, <1>5, ReadableMatch
  <2> QED
    BY <2>1
<1>6. CASE \E e, r \in rows : log.built[e].kind = "end" /\ e < r
  <2>1. PICK e \in rows, r \in rows : log.built[e].kind = "end" /\ e < r
    BY <1>6
  <2>2. /\ log.built[r].kind = "end"
        /\ \A q \in rows : ~(r < q)
    <3>1. /\ log.built[r].kind = "end"
          /\ \A q \in 1 .. Len(log.built) : r < q /\ Quiet(log.built, r, q) => ~IsGame(log.built, q)
      BY <1>2, <1>4, <2>1 DEF Ends
    <3> QED
      BY <1>4, <3>1
  <2>3. ASSUME NEW x \in rows, NEW y \in rows, log.built[x].kind = "end", x < y
        PROVE  \A q \in rows : ~(y < q)
    <3>1. \A q \in 1 .. Len(log.built) : y < q /\ Quiet(log.built, y, q) => ~IsGame(log.built, q)
      BY <1>2, <1>4, <2>3 DEF Ends
    <3> QED
      BY <1>4, <3>1
  <2>4. \A x \in rows : x \in Nat
    BY <1>1 DEF GameRows
  <2>5. ends = {e, r}
    <3>1. ASSUME NEW x \in ends, x # e, x # r
          PROVE  FALSE
      <4>1. x \in rows /\ log.built[x].kind = "end" /\ x \in Nat /\ e \in Nat /\ r \in Nat
        BY <2>1, <2>4, <3>1
      <4>2. ~(r < x)
        BY <2>2, <4>1
      <4>3. ~(e < x)
        BY <2>1, <2>3, <3>1, <4>1, <4>2
      <4>4. ~(x < e)
        BY <2>1, <2>3, <4>1
      <4> QED
        BY <3>1, <4>1, <4>3, <4>4
    <3>2. e \in ends /\ r \in ends
      BY <2>1, <2>2
    <3> QED
      BY <3>1, <3>2
  <2>6. Cardinality(ends) = 2
    <3>1. IsFiniteSet({e}) /\ Cardinality({e}) = 1
      BY FS_Singleton, Zenon
    <3>2. r \notin {e}
      BY <2>1, <2>4
    <3>3. Cardinality({e} \cup {r}) = 2
      BY <3>1, <3>2, FS_AddElement
    <3>4. ends = {e} \cup {r}
      BY <2>5
    <3> HIDE DEF ends
    <3> QED
      BY <3>3, <3>4, Zenon
  <2> DEFINE t == [log EXCEPT !.stored = @ \ {r}]
  <2>7. t.built = log.built /\ t.stored = log.stored \ {r}
    BY DEF Log
  <2> HIDE DEF t
  <2>8. GameRows(t, match) = rows \ {r}
    BY <2>7 DEF GameRows, MatchOf
  <2>9. DeriveGameLog(t, match)
    <3>1. /\ n <= Len(t.built) /\ Len(t.built) \in Nat /\ Numbered(t)
          /\ t.stored \subseteq 1 .. n
          /\ \A k \in 1 .. n : t.built[k].kind = "start" => k \in t.stored
      BY <1>1, <1>2, <2>2, <2>7 DEF Numbered
    <3>2. ASSUME NEW x \in GameRows(t, match), NEW y \in GameRows(t, match),
                 t.built[x].kind = "end", x < y
          PROVE  FALSE
      <4>1. x \in rows /\ x # r /\ y \in rows /\ y # r /\ log.built[x].kind = "end"
        BY <2>7, <2>8, <3>2
      <4>2. x = e
        BY <2>5, <4>1
      <4>3. ~(y < r) /\ ~(r < y)
        BY <2>1, <2>2, <2>3, <3>2, <4>1, <4>2
      <4> QED
        BY <2>1, <2>4, <4>1, <4>3
    <3> QED
      BY <1>3, <3>1, <3>2, ReadableMatch
  <2>10. r \in ends
    BY <2>5
  <2> QED
    BY <2>6, <2>9, <2>10 DEF t
<1> QED
  BY <1>5, <1>6
-----------------------------------------------------------------------------
(* The theorems *)

\* In every reachable state, whatever the store does: the log and the hub have
\* their types and every subscription is in order.
THEOREM HubInvariant == Spec => []HubInv
<1>1. Init => HubInv
  BY InitInv
<1>2. HubInv /\ [Next]_vars => HubInv'
  BY StepInv
<1> QED
  BY <1>1, <1>2, PTL DEF Spec

\* The room's event state and the hub keep their types (event_tx.go,
\* room_event_hub.go).
THEOREM TypeCorrect == Spec => []TypeOK
<1>1. HubInv => TypeOK
  BY DEF HubInv, TypedLog, TypeOK
<1> QED
  BY <1>1, HubInvariant, PTL

\* A session reads the cached ROOM_UPDATED and then every event broadcast since
\* it subscribed, in order and without a hole, until the event that overflows
\* its channel closes it (subscribe and deliverLocked of room_event_hub.go), for
\* every channel capacity and also when the store fails for good.
THEOREM NothingMissed == Spec => []SubscriberMissesNothing
<1>1. HubInv => SubscriberMissesNothing
  <2> SUFFICES ASSUME HubInv, NEW s \in Subscribers
               PROVE  /\ Begins(Got(subs[s]), Sent(subs[s], log))
                      /\ subs[s].open => Got(subs[s]) = Sent(subs[s], log)
    BY DEF SubscriberMissesNothing, Begins, Got, Sent, Cache
  <2> QED
    BY DEF HubInv, InOrder
<1> QED
  BY <1>1, HubInvariant, PTL

\* In an orderly room: what is stored is what was broadcast, numbered by its
\* place in the stream, and what is pending goes on from there.
THEOREM OrderInvariant ==
  ASSUME Orderly
  PROVE  Spec => [](HubInv /\ OrderInv)
<1>1. Init => HubInv /\ OrderInv
  BY InitInv
<1>2. (HubInv /\ OrderInv) /\ [Next]_vars => (HubInv /\ OrderInv)'
  BY StepInv
<1> QED
  BY <1>1, <1>2, PTL DEF Spec

\* The store and what waits for it are one sequence of numbers without a gap or
\* a repetition, through outages, retries, deferred events and rematches
\* (event_tx.go, room_event_sequences.go, fireStorageRetry).
THEOREM LogContiguous ==
  ASSUME Orderly
  PROVE  Spec => []LogIsContiguous
<1>1. HubInv /\ OrderInv => LogIsContiguous
  <2> SUFFICES ASSUME HubInv, OrderInv
               PROVE  LogIsContiguous
    OBVIOUS
  <2>1. log \in Log /\ LogInv(log)
    BY DEF HubInv, TypedLog, OrderInv
  <2>2. StoreIsGapless
    <3>1. SUFFICES ASSUME log.room \notin {"none", "closed"}
                   PROVE  /\ {log.built[id].number : id \in log.stored} = 1 .. log.boundary
                          /\ Cardinality(log.stored) = log.boundary
      BY DEF StoreIsGapless
    <3>2. Sound(log) /\ log.boundary = Len(log.published)
      BY <2>1, <3>1 DEF LogInv, Committed
    <3> QED
      BY <2>1, <3>2, StoredCount
  <2>3. PendingContinuesLog
    BY <2>1 DEF PendingContinuesLog, LogInv, Continues
  <2> QED
    BY <2>2, <2>3 DEF LogIsContiguous
<1> QED
  BY <1>1, OrderInvariant, PTL

\* No event is broadcast that the store does not hold (eventTx.flush, the
\* retries and the saves that end a match).
THEOREM StoredFirst ==
  ASSUME Orderly
  PROVE  Spec => []StoredBeforePublished
<1>1. HubInv /\ OrderInv => StoredBeforePublished
  BY DEF OrderInv, LogInv, Sound, StoredBeforePublished
<1> QED
  BY <1>1, OrderInvariant, PTL

\* The numbers clients see are 1, 2, 3, ...: every broadcast goes on where the
\* stream ended.
THEOREM StreamRefined ==
  ASSUME Orderly
  PROVE  Spec => KeepsStream
<1> DEFINE st == [i \in DOMAIN log.published |-> log.built[log.published[i]].number]
<1>1. Init => Stream!Init
  BY EmptySeq DEF Init, Stream!Init
<1>2. (HubInv /\ OrderInv) /\ (HubInv /\ OrderInv)' /\ [Next]_vars =>
         [Stream!Broadcast]_st
  <2> SUFFICES ASSUME HubInv, OrderInv, HubInv', OrderInv', [Next]_vars
               PROVE  [Stream!Broadcast]_st
    OBVIOUS
  <2> DEFINE n == Len(log.published)
             m == Len(log'.published)
  <2>1. st = [i \in 1 .. n |-> i] /\ n \in Nat
    BY StreamIsCount DEF HubInv, TypedLog, OrderInv, LogInv
  <2>2. st' = [i \in 1 .. m |-> i] /\ m \in Nat
    BY StreamIsCount DEF HubInv, TypedLog, OrderInv, LogInv
  <2>3. n <= m
    BY StreamGrows DEF HubInv
  <2> HIDE DEF st, n, m
  <2>4. Len(st) = n /\ Len(st') = m /\ DOMAIN st = 1 .. n /\ DOMAIN st' = 1 .. m
    BY <2>1, <2>2
  <2>5. CASE m = n
    BY <2>1, <2>2, <2>5
  <2>6. CASE m # n
    <3>1. Len(st') > Len(st)
      BY <2>1, <2>2, <2>3, <2>4, <2>6
    <3>2. \A i \in DOMAIN st' : st'[i] = IF i \in DOMAIN st THEN st[i] ELSE i
      BY <2>1, <2>2, <2>4
    <3> QED
      BY <3>1, <3>2 DEF Stream!Broadcast, st
  <2> QED
    BY <2>5, <2>6
<1> QED
  BY <1>1, <1>2, OrderInvariant, PTL DEF Spec, KeepsStream, Stream!Spec

\* A client that applies its snapshot and then the live events with a higher
\* number has every event broadcast so far, also when the snapshot was taken in
\* an outage or events were waiting in its channel (ReconnectBundle and
\* room_event_hub.go).
THEOREM SnapshotJoinsStream ==
  ASSUME Orderly
  PROVE  Spec => []SnapshotMeetsStream
<1>1. HubInv /\ OrderInv => SnapshotMeetsStream
  <2> SUFFICES ASSUME HubInv, OrderInv, NEW s \in Subscribers,
                      subs[s].open, subs[s].snapshot > 0, NEW i \in DOMAIN log.published,
                      log.published[i] \notin 1 .. subs[s].applied
               PROVE  \E k \in DOMAIN Got(subs[s]) :
                        /\ log.built[Got(subs[s])[k]].number > subs[s].snapshot
                        /\ log.published[i] = Got(subs[s])[k]
    BY DEF SnapshotMeetsStream, Got
  <2> DEFINE sub == subs[s]
             p == log.published
             u == SubSeq(p, sub.start + 1, Len(p))
             c == Cache(sub)
             k == Len(c) + (i - sub.start)
  <2>1. /\ log \in Log /\ Sound(log) /\ Covers(sub, log) /\ InOrder(sub, log)
        /\ sub \in Subscription
    BY DEF HubInv, TypedLog, OrderInv, LogInv
  <2>2. /\ p \in Seq(EventID) /\ Len(p) \in Nat /\ i \in 1 .. Len(p)
        /\ p[i] \in EventID /\ log.built[p[i]].number = i
    BY <2>1 DEF Log, Sound
  <2>3. sub.start \in Nat /\ sub.snapshot \in Nat /\ sub.applied \in Nat /\ c \in Seq(EventID)
    BY <2>1, SubscriptionTypes DEF Subscription
  <2>4. /\ sub.start <= sub.snapshot /\ sub.snapshot <= Len(p)
        /\ \A j \in 1 .. sub.snapshot : p[j] <= sub.applied
    BY <2>1 DEF Covers
  <2>5. i > sub.snapshot
    <3>1. SUFFICES ASSUME i <= sub.snapshot
                   PROVE  FALSE
      BY <2>2, <2>3
    <3>2. i \in 1 .. sub.snapshot
      BY <2>2, <2>3, <3>1
    <3>3. p[i] <= sub.applied
      BY <2>4, <3>2
    <3> QED
      BY <2>2, <2>3, <3>3 DEF EventID
  <2>6. Got(sub) = c \o u
    BY <2>1 DEF InOrder, Sent
  <2>7. /\ u \in Seq(EventID) /\ Len(u) = Len(p) - sub.start
        /\ \A j \in 1 .. Len(p) - sub.start : u[j] = p[sub.start + j]
    <3>1. sub.start <= Len(p)
      BY <2>1 DEF InOrder
    <3> QED
      BY <2>2, <2>3, <3>1, SuffixFacts, Zenon
  <2> HIDE DEF sub, p, u, c
  <2>8. i - sub.start \in 1 .. Len(p) - sub.start /\ sub.start + (i - sub.start) = i
    BY <2>2, <2>3, <2>4, <2>5
  <2>9. u[i - sub.start] = p[i]
    BY <2>7, <2>8
  <2>10. /\ c \o u \in Seq(EventID) /\ Len(c \o u) = Len(c) + Len(u)
         /\ \A j \in 1 .. Len(u) : (c \o u)[Len(c) + j] = u[j]
    BY <2>3, <2>7, ConcatIDs, Zenon
  <2>11. (c \o u)[k] = p[i]
    BY <2>7, <2>8, <2>9, <2>10
  <2>12. Len(c) \in Nat
    BY <2>3
  <2>13. k \in 1 .. Len(c \o u)
    <3>1. Len(u) \in Nat /\ i - sub.start \in 1 .. Len(u)
      BY <2>7, <2>8
    <3> QED
      BY <2>10, <2>12, <3>1
  <2>14. k \in DOMAIN Got(sub) /\ Got(sub)[k] = p[i]
    BY <2>6, <2>10, <2>11, <2>13
  <2>15. log.built[Got(sub)[k]].number > sub.snapshot
    BY <2>2, <2>5, <2>14
  <2> QED
    BY <2>14, <2>15 DEF sub, p
<1> QED
  BY <1>1, OrderInvariant, PTL

\* In an orderly room the events are numbered by the order in which they were
\* built, and behind the GAME_ENDED of a match the log has at most one row, the
\* second GAME_ENDED of a match given up while the first was pending.
THEOREM TaleInvariant ==
  ASSUME Orderly
  PROVE  Spec => [](HubInv /\ OrderInv /\ TaleInv(log))
<1>1. Init => HubInv /\ OrderInv /\ TaleInv(log)
  BY InitInv, TaleBegins
<1>2. (HubInv /\ OrderInv /\ TaleInv(log)) /\ [Next]_vars => (HubInv /\ OrderInv /\ TaleInv(log))'
  <2> SUFFICES ASSUME HubInv, OrderInv, TaleInv(log), [Next]_vars
               PROVE  HubInv' /\ OrderInv' /\ TaleInv(log')
    OBVIOUS
  <2>1. HubInv' /\ OrderInv'
    BY StepInv
  <2>2. InOrderBefore
    BY DEF InOrderBefore, HubInv, OrderInv
  <2> QED
    BY <2>1, <2>2, TaleKept
<1> QED
  BY <1>1, <1>2, PTL DEF Spec

\* The rows of a room always yield its game logs, up to the one extra
\* GAME_ENDED (deriveGameLogs of game_logs.go, finishMatchLocked,
\* invalidateMatchLocked and terminateDisconnectedMatchLocked), for every number
\* of matches, events and retries.
THEOREM GameLogsReadable ==
  ASSUME Orderly
  PROVE  Spec => []GameLogsAreReadable
<1>1. HubInv /\ OrderInv /\ TaleInv(log) => GameLogsAreReadable
  BY TaleIsReadable DEF HubInv, TypedLog, OrderInv, LogInv
<1> QED
  BY <1>1, TaleInvariant, PTL
=============================================================================
