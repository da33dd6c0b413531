--------------------------- MODULE LobbyChatProofs ---------------------------
(***************************************************************************)
(* Proofs about LobbyChat for any number of sessions and users and for any *)
(* windows, limits, buffers and bounds.                                    *)
(***************************************************************************)
EXTENDS LobbyChat, NumberLemmas, TLAPS, SequenceTheorems, FunctionTheorems, FiniteSetTheorems

UserState ==
  [attempts : Seq(Nat), accepted : Seq(Nat), blockedUntil : Nat,
   lastText : Texts \union {"none"}, lastAt : Nat]

SessionState ==
  [serve : {"none", "serving", "dropping", "leaving", "ended"},
   reader : {"none", "reading", "processing", "answered", "refused", "failed", "stopped"},
   text : Texts \union {"none"},
   watcher : {"none", "waiting", "closing", "closed", "done"},
   connected : BOOLEAN, cancelled : BOOLEAN, subscribed : BOOLEAN,
   events : Seq(Nat), seen : Nat]

LogState == [queue : Seq(Nat \ {0}), row : Nat, closed : BOOLEAN]

Message == [user : Users, text : Texts \union {"none"}, at : Nat \ {0}]

Typed ==
  /\ now \in Nat \ {0} /\ open \in BOOLEAN /\ boundary \in Nat
  /\ users \in [Users -> UserState]
  /\ session \in [Sessions -> SessionState]
  /\ logs \in LogState
  /\ store \in SUBSET (Nat \ {0})
  /\ sent \in Seq(Message)
  /\ restarts \in Nat

\* The bounds and the capacities.
Bounded ==
  /\ now <= MaxTime /\ boundary + Cardinality(Processing) <= MaxMessages
  /\ Len(logs.queue) <= LogBuffer
  /\ \A s \in Sessions : Len(session[s].events) <= SubscriberBuffer

\* What a session has seen is continued by its channel.
Continues(r, b) ==
  r.serve = "serving" =>
    /\ \A i \in DOMAIN r.events : r.events[i] = r.seen + i
    /\ r.subscribed => r.seen + Len(r.events) = b

NoGaps == \A s \in Sessions : Continues(session[s], boundary)

\* An attempt that is remembered is not in the future; it was made before the
\* block began or after it ended.
Served(state, t) ==
  \A i \in DOMAIN state.attempts :
    /\ state.attempts[i] <= t
    /\ state.blockedUntil # 0 => \/ state.attempts[i] + BlockDuration <= state.blockedUntil
                                 \/ state.attempts[i] >= state.blockedUntil
BlocksServed == \A u \in Users : Served(users[u], now)

\* The rows on their way to the store have numbers of their own; those of the
\* store are at most the boundary.
FreshRows ==
  /\ \A i, j \in DOMAIN logs.queue : logs.queue[i] = logs.queue[j] => i = j
  /\ \A i \in DOMAIN logs.queue :
       logs.queue[i] # logs.row /\ logs.queue[i] \notin store /\ logs.queue[i] <= boundary
  /\ logs.row # None => logs.row \notin store
  /\ logs.row <= boundary
  /\ \A n \in store : n <= boundary

\* f finds every message that the user sent within the last second among the
\* accepted times, and no two at one place.
Within(m, u, t) == m.user = u /\ m.at > t - SecondWindow
Covers(f, accepted, messages, u, t) ==
  /\ f \in [DOMAIN messages -> Int]
  /\ \A j \in DOMAIN messages : Within(messages[j], u, t) =>
       f[j] \in 1 .. Len(accepted) /\ accepted[f[j]] = messages[j].at
  /\ \A j, k \in DOMAIN messages :
       Within(messages[j], u, t) /\ Within(messages[k], u, t) /\ f[j] = f[k] => j = k
RecentAreAccepted == \A u \in Users : \E f : Covers(f, users[u].accepted, sent, u, now)

\* The last message of a user is the one its state remembers.
IsLast(messages, u, j) ==
  messages[j].user = u /\ \A k \in j + 1 .. Len(messages) : messages[k].user # u
LastIsRemembered ==
  \A u \in Users : \A j \in DOMAIN sent :
    IsLast(sent, u, j) => users[u].lastText = sent[j].text /\ users[u].lastAt = sent[j].at

IInv ==
  /\ Typed /\ Bounded /\ NoGaps /\ BlocksServed /\ FreshRows
  /\ RecentAreAccepted /\ RateLimitHolds /\ LastIsRemembered /\ NoEcho
-----------------------------------------------------------------------------
(* The limits of a user *)

LEMMA TimestampsAfterFacts ==
  ASSUME NEW times \in Seq(Nat), NEW cutoff \in Int
  PROVE  \E n \in 0 .. Len(times) :
           /\ \A i \in 1 .. n : times[i] <= cutoff
           /\ TimestampsAfter(times, cutoff) \in Seq(Nat)
           /\ Len(TimestampsAfter(times, cutoff)) = Len(times) - n
           /\ \A i \in 1 .. Len(times) - n : TimestampsAfter(times, cutoff)[i] = times[n + i]
<1> DEFINE IsFirst(n) == /\ \A i \in 1 .. n : times[i] <= cutoff
                         /\ n < Len(times) => times[n + 1] > cutoff
           first == CHOOSE n \in 0 .. Len(times) : IsFirst(n)
           late == {i \in 1 .. Len(times) : times[i] > cutoff}
<1>1. Len(times) \in Nat /\ \A i \in 1 .. Len(times) : times[i] \in Nat
  OBVIOUS
<1>2. \E n \in 0 .. Len(times) : IsFirst(n)
  <2>1. CASE late = {}
    <3>1. IsFirst(Len(times))
      BY <1>1, <2>1
    <3> QED
      BY <1>1, <3>1
  <2>2. CASE late # {}
    <3>1. late \in SUBSET Nat
      BY <1>1
    <3>2. PICK x \in late : \A y \in late : x <= y
      BY <2>2, <3>1, LeastNumber
    <3>3. \A i \in 1 .. x - 1 : i \in 1 .. Len(times) /\ i \notin late
      BY <1>1, <3>2
    <3>4. IsFirst(x - 1)
      BY <1>1, <3>2, <3>3
    <3>5. x - 1 \in 0 .. Len(times)
      BY <1>1, <3>2
    <3> QED
      BY <3>4, <3>5
  <2> QED
    BY <2>1, <2>2
<1>3. first \in 0 .. Len(times) /\ IsFirst(first)
  BY <1>2
<1>4. TimestampsAfter(times, cutoff) = SubSeq(times, first + 1, Len(times))
  BY DEF TimestampsAfter
<1> HIDE DEF first
<1>5. \A i \in first + 1 .. Len(times) : times[i] \in Nat
  BY <1>1, <1>3
<1>6. /\ SubSeq(times, first + 1, Len(times)) \in Seq(Nat)
      /\ Len(SubSeq(times, first + 1, Len(times))) = Len(times) - first
      /\ \A i \in 1 .. Len(times) - first :
           SubSeq(times, first + 1, Len(times))[i] = times[first + i]
  BY <1>1, <1>3, <1>5, SubSeqProperties
<1> QED
  BY <1>3, <1>4, <1>6

LEMMA Constants ==
  /\ SecondWindow \in Nat \ {0} /\ AttemptWindow \in Nat \ {0}
  /\ DuplicateWindow \in Nat \ {0} /\ BlockDuration \in Nat \ {0}
  /\ PerSecondLimit \in Nat \ {0} /\ AttemptLimit \in Nat \ {0}
  /\ SubscriberBuffer \in Nat \ {0} /\ LogBuffer \in Nat \ {0}
  /\ AttemptWindow <= BlockDuration
BY ChatAssumption

\* The list of attempts that Execute goes on with.
LEMMA AttemptsFacts ==
  ASSUME NEW state \in UserState, NEW at \in Nat \ {0}
  PROVE  LET attempts == Append(TimestampsAfter(state.attempts, at - AttemptWindow), at) IN
         /\ attempts \in Seq(Nat)
         /\ \A i \in DOMAIN attempts :
              attempts[i] = at \/ \E j \in DOMAIN state.attempts : attempts[i] = state.attempts[j]
<1> DEFINE after == TimestampsAfter(state.attempts, at - AttemptWindow)
<1>1. state.attempts \in Seq(Nat) /\ at - AttemptWindow \in Int /\ Len(state.attempts) \in Nat
  BY Constants DEF UserState
<1>2. PICK n \in 0 .. Len(state.attempts) :
        /\ after \in Seq(Nat) /\ Len(after) = Len(state.attempts) - n
        /\ \A i \in 1 .. Len(state.attempts) - n : after[i] = state.attempts[n + i]
  BY <1>1, TimestampsAfterFacts
<1> HIDE DEF after
<1>3. \A i \in DOMAIN after : \E j \in DOMAIN state.attempts : after[i] = state.attempts[j]
  <2> SUFFICES ASSUME NEW i \in DOMAIN after
               PROVE  \E j \in DOMAIN state.attempts : after[i] = state.attempts[j]
    OBVIOUS
  <2>1. /\ DOMAIN after = 1 .. Len(state.attempts) - n
        /\ DOMAIN state.attempts = 1 .. Len(state.attempts)
    BY <1>1, <1>2, LenProperties
  <2>2. i \in 1 .. Len(state.attempts) - n
    BY <2>1
  <2>3. after[i] = state.attempts[n + i]
    BY <1>2, <2>2
  <2>4. n + i \in 1 .. Len(state.attempts)
    <3>1. \A x \in Nat : \A y \in 0 .. x : \A z \in 1 .. x - y : y + z \in 1 .. x
      OBVIOUS
    <3> QED
      BY <1>1, <2>2, <3>1, Zenon
  <2> QED
    BY <2>1, <2>3, <2>4
<1>4. /\ Append(after, at) \in Seq(Nat)
      /\ \A i \in DOMAIN Append(after, at) :
           Append(after, at)[i] = at \/ (i \in DOMAIN after /\ Append(after, at)[i] = after[i])
  BY <1>2
<1> QED
  BY <1>3, <1>4 DEF after

\* What the limits do to the state of a user.
LEMMA AdmissionFacts ==
  ASSUME NEW state \in UserState, NEW text \in Texts \union {"none"}, NEW at \in Nat \ {0},
         Served(state, at)
  PROVE  LET admission == Admission(state, text, at)
             accepted == TimestampsAfter(state.accepted, at - SecondWindow)
         IN /\ admission.state \in UserState /\ Served(admission.state, at)
            /\ admission.verdict # "accepted" =>
                 /\ admission.state.accepted \in {state.accepted, accepted}
                 /\ admission.state.lastText = state.lastText
                 /\ admission.state.lastAt = state.lastAt
            /\ admission.verdict = "accepted" =>
                 /\ admission.state.accepted = Append(accepted, at)
                 /\ Len(accepted) < PerSecondLimit
                 /\ admission.state.lastText = text /\ admission.state.lastAt = at
                 /\ text = state.lastText /\ state.lastAt # 0 =>
                      at - state.lastAt >= DuplicateWindow
<1> DEFINE attempts == Append(TimestampsAfter(state.attempts, at - AttemptWindow), at)
           accepted == TimestampsAfter(state.accepted, at - SecondWindow)
           observed == [state EXCEPT !.attempts = attempts]
           blocked == [observed EXCEPT !.blockedUntil = at + BlockDuration]
           limited == [observed EXCEPT !.accepted = accepted]
           taken == [observed EXCEPT !.accepted = Append(accepted, at),
                                     !.lastText = text, !.lastAt = at]
<1>1. /\ attempts \in Seq(Nat)
      /\ \A i \in DOMAIN attempts :
           attempts[i] = at \/ \E j \in DOMAIN state.attempts : attempts[i] = state.attempts[j]
  BY AttemptsFacts
<1>2. accepted \in Seq(Nat) /\ Len(accepted) \in Nat /\ Append(accepted, at) \in Seq(Nat)
  <2>1. state.accepted \in Seq(Nat) /\ at - SecondWindow \in Int
    BY Constants DEF UserState
  <2>2. accepted \in Seq(Nat)
    BY <2>1, TimestampsAfterFacts
  <2> HIDE DEF accepted
  <2> QED
    BY <2>2
<1>3. Admission(state, text, at) =
        IF at < state.blockedUntil THEN [verdict |-> "blocked", state |-> state]
        ELSE IF Len(attempts) > AttemptLimit THEN [verdict |-> "blocked", state |-> blocked]
        ELSE IF text = state.lastText /\ state.lastAt # 0 /\ at - state.lastAt < DuplicateWindow
        THEN [verdict |-> "duplicate", state |-> observed]
        ELSE IF Len(accepted) >= PerSecondLimit THEN [verdict |-> "limited", state |-> limited]
        ELSE [verdict |-> "accepted", state |-> taken]
  BY DEF Admission
<1> HIDE DEF attempts, accepted
<1>4. /\ observed \in UserState /\ observed.attempts = attempts
      /\ observed.blockedUntil = state.blockedUntil /\ observed.accepted = state.accepted
      /\ observed.lastText = state.lastText /\ observed.lastAt = state.lastAt
  BY <1>1 DEF UserState
<1> HIDE DEF observed
<1>5. /\ blocked \in UserState /\ blocked.attempts = attempts
      /\ blocked.blockedUntil = at + BlockDuration /\ blocked.accepted = state.accepted
      /\ blocked.lastText = state.lastText /\ blocked.lastAt = state.lastAt
  <2>1. at + BlockDuration \in Nat
    BY Constants
  <2> QED
    BY <1>4, <2>1 DEF UserState
<1>6. /\ limited \in UserState /\ limited.attempts = attempts
      /\ limited.blockedUntil = state.blockedUntil /\ limited.accepted = accepted
      /\ limited.lastText = state.lastText /\ limited.lastAt = state.lastAt
  BY <1>2, <1>4 DEF UserState
<1>7. /\ taken \in UserState /\ taken.attempts = attempts
      /\ taken.blockedUntil = state.blockedUntil /\ taken.accepted = Append(accepted, at)
      /\ taken.lastText = text /\ taken.lastAt = at
  BY <1>2, <1>4 DEF UserState
<1> HIDE DEF blocked, limited, taken
<1>8. \A j \in DOMAIN state.attempts : state.attempts[j] \in Nat /\ state.attempts[j] <= at
  BY DEF Served, UserState
<1>9. Served(blocked, at)
  <2>1. ASSUME NEW n \in Nat, n <= at
        PROVE  n + BlockDuration <= at + BlockDuration
    BY <2>1, Constants
  <2>2. at <= at
    OBVIOUS
  <2>3. \A i \in DOMAIN attempts : attempts[i] \in Nat /\ attempts[i] <= at
    BY <1>1, <1>8, <2>2
  <2> QED
    BY <1>5, <2>1, <2>3 DEF Served
<1>10. ASSUME at >= state.blockedUntil, NEW t \in {observed, limited, taken}
       PROVE  Served(t, at)
  <2>1. t.attempts = attempts /\ t.blockedUntil = state.blockedUntil
    BY <1>4, <1>6, <1>7
  <2>2. at <= at /\ \A i \in DOMAIN attempts : attempts[i] <= at
    BY <1>1, <1>8
  <2>3. ASSUME NEW i \in DOMAIN attempts, state.blockedUntil # 0
        PROVE  \/ attempts[i] + BlockDuration <= state.blockedUntil
               \/ attempts[i] >= state.blockedUntil
    <3>1. CASE attempts[i] = at
      BY <1>10, <3>1
    <3>2. CASE \E j \in DOMAIN state.attempts : attempts[i] = state.attempts[j]
      BY <2>3, <3>2 DEF Served
    <3> QED
      BY <1>1, <3>1, <3>2
  <2> QED
    BY <2>1, <2>2, <2>3 DEF Served
<1>11. state.blockedUntil \in Nat /\ state.lastAt \in Nat /\ Len(attempts) \in Nat
  BY <1>1 DEF UserState
<1>12. CASE at < state.blockedUntil
  <2>1. Admission(state, text, at) = [verdict |-> "blocked", state |-> state]
    BY <1>3, <1>12
  <2> QED
    BY <2>1
<1>13. CASE ~(at < state.blockedUntil) /\ Len(attempts) > AttemptLimit
  <2>1. Admission(state, text, at) = [verdict |-> "blocked", state |-> blocked]
    BY <1>3, <1>13
  <2> QED
    BY <1>5, <1>9, <2>1
<1>14. CASE ~(at < state.blockedUntil) /\ ~(Len(attempts) > AttemptLimit)
  <2>1. at >= state.blockedUntil
    BY <1>11, <1>14
  <2>2. CASE text = state.lastText /\ state.lastAt # 0 /\ at - state.lastAt < DuplicateWindow
    <3>1. Admission(state, text, at) = [verdict |-> "duplicate", state |-> observed]
      BY <1>3, <1>14, <2>2
    <3> QED
      BY <1>4, <1>10, <2>1, <3>1
  <2>3. CASE /\ ~(text = state.lastText /\ state.lastAt # 0 /\ at - state.lastAt < DuplicateWindow)
             /\ Len(accepted) >= PerSecondLimit
    <3>1. Admission(state, text, at) = [verdict |-> "limited", state |-> limited]
      BY <1>3, <1>14, <2>3
    <3> QED
      BY <1>6, <1>10, <2>1, <3>1 DEF accepted
  <2>4. CASE /\ ~(text = state.lastText /\ state.lastAt # 0 /\ at - state.lastAt < DuplicateWindow)
             /\ ~(Len(accepted) >= PerSecondLimit)
    <3>1. Admission(state, text, at) = [verdict |-> "accepted", state |-> taken]
      BY <1>3, <1>14, <2>4
    <3>2. Len(accepted) < PerSecondLimit
      BY <1>2, <2>4, Constants
    <3>3. text = state.lastText /\ state.lastAt # 0 => at - state.lastAt >= DuplicateWindow
      BY <1>11, <2>4, Constants
    <3> QED
      BY <1>7, <1>10, <2>1, <3>1, <3>2, <3>3 DEF accepted
  <2> QED
    BY <2>2, <2>3, <2>4
<1> QED
  BY <1>12, <1>13, <1>14

\* The same for a message that passes the limits.
LEMMA AdmittedFacts ==
  ASSUME NEW state \in UserState, NEW text \in Texts \union {"none"}, NEW at \in Nat \ {0},
         Served(state, at), Admission(state, text, at).verdict = "accepted",
         NEW new, new = Admission(state, text, at).state,
         NEW rest, rest = TimestampsAfter(state.accepted, at - SecondWindow)
  PROVE  /\ new \in UserState /\ Served(new, at) /\ new.accepted = Append(rest, at)
         /\ Len(rest) < PerSecondLimit /\ new.lastText = text /\ new.lastAt = at
         /\ text = state.lastText /\ state.lastAt # 0 => at - state.lastAt >= DuplicateWindow
BY AdmissionFacts

LEMMA MessageFacts ==
  ASSUME NEW messages \in Seq(Message), NEW j \in DOMAIN messages
  PROVE  /\ messages[j] \in Message /\ messages[j].at \in Nat \ {0}
         /\ messages[j].user \in Users
<1>1. messages[j] \in Message
  OBVIOUS
<1> QED
  BY <1>1 DEF Message

LEMMA LaterCovers ==
  ASSUME NEW f, NEW accepted, NEW messages \in Seq(Message), NEW u, NEW t \in Nat,
         Covers(f, accepted, messages, u, t)
  PROVE  Covers(f, accepted, messages, u, t + 1)
<1>1. ASSUME NEW j \in DOMAIN messages, Within(messages[j], u, t + 1)
      PROVE  Within(messages[j], u, t)
  <2>1. messages[j].at \in Nat
    BY MessageFacts
  <2> QED
    BY <1>1, <2>1, Constants DEF Within
<1> QED
  BY <1>1 DEF Covers

\* Times that are dropped are those of messages that are not recent.
LEMMA TrimmedCovers ==
  ASSUME NEW f, NEW accepted \in Seq(Nat), NEW messages \in Seq(Message), NEW u, NEW t \in Nat,
         Covers(f, accepted, messages, u, t)
  PROVE  \E g : Covers(g, TimestampsAfter(accepted, t - SecondWindow), messages, u, t)
<1> DEFINE rest == TimestampsAfter(accepted, t - SecondWindow)
<1>1. t - SecondWindow \in Int /\ Len(accepted) \in Nat
  BY Constants
<1>2. PICK n \in 0 .. Len(accepted) :
        /\ \A i \in 1 .. n : accepted[i] <= t - SecondWindow
        /\ rest \in Seq(Nat) /\ Len(rest) = Len(accepted) - n
        /\ \A i \in 1 .. Len(accepted) - n : rest[i] = accepted[n + i]
  BY <1>1, TimestampsAfterFacts
<1> HIDE DEF rest
<1> DEFINE g == [j \in DOMAIN messages |-> f[j] - n]
<1>3. f \in [DOMAIN messages -> Int] /\ g \in [DOMAIN messages -> Int]
  BY <1>1 DEF Covers
<1>4. ASSUME NEW j \in DOMAIN messages, Within(messages[j], u, t)
      PROVE  g[j] \in 1 .. Len(rest) /\ rest[g[j]] = messages[j].at
  <2>1. f[j] \in 1 .. Len(accepted) /\ accepted[f[j]] = messages[j].at
    BY <1>4 DEF Covers
  <2>2. messages[j].at \in Nat /\ messages[j].at > t - SecondWindow
    BY <1>4, MessageFacts DEF Within
  <2>3. f[j] \notin 1 .. n
    BY <1>1, <1>2, <2>1, <2>2, SMTT(30)
  <2>4. f[j] - n \in 1 .. Len(accepted) - n
    BY <1>1, <2>1, <2>3, SMTT(30)
  <2>5. rest[f[j] - n] = accepted[n + (f[j] - n)]
    BY <1>2, <2>4, Zenon
  <2>6. n + (f[j] - n) = f[j]
    BY <1>1, <2>1
  <2> QED
    BY <1>2, <2>1, <2>4, <2>5, <2>6
<1>5. ASSUME NEW j \in DOMAIN messages, NEW k \in DOMAIN messages,
             Within(messages[j], u, t), Within(messages[k], u, t), g[j] = g[k]
      PROVE  j = k
  <2>1. f[j] \in Int /\ f[k] \in Int /\ f[j] - n = f[k] - n
    BY <1>3, <1>5
  <2>2. f[j] = f[k]
    BY <1>1, <2>1
  <2> QED
    BY <1>5, <2>2 DEF Covers
<1> HIDE DEF g
<1>6. Covers(g, rest, messages, u, t)
  BY <1>3, <1>4, <1>5 DEF Covers
<1> QED
  BY <1>6 DEF rest

\* The history after a message.
LEMMA AppendMessage ==
  ASSUME NEW messages \in Seq(Message), NEW m \in Message
  PROVE  /\ Append(messages, m) \in Seq(Message)
         /\ Len(messages) \in Nat /\ Len(Append(messages, m)) = Len(messages) + 1
         /\ DOMAIN messages = 1 .. Len(messages)
         /\ DOMAIN Append(messages, m) = DOMAIN messages \union {Len(messages) + 1}
         /\ Len(messages) + 1 \notin DOMAIN messages
         /\ Append(messages, m)[Len(messages) + 1] = m
         /\ \A i \in DOMAIN messages : Append(messages, m)[i] = messages[i]
<1> HIDE DEF Message
<1> QED
  OBVIOUS

LEMMA OthersCover ==
  ASSUME NEW f, NEW accepted, NEW messages \in Seq(Message), NEW u, NEW t \in Nat,
         NEW m \in Message, m.user # u, Covers(f, accepted, messages, u, t)
  PROVE  \E g : Covers(g, accepted, Append(messages, m), u, t)
<1> DEFINE all == Append(messages, m)
           last == Len(messages) + 1
           g == [j \in DOMAIN all |-> IF j \in DOMAIN messages THEN f[j] ELSE 0]
<1>1. /\ DOMAIN all = DOMAIN messages \union {last} /\ last \notin DOMAIN messages
      /\ all[last] = m /\ \A i \in DOMAIN messages : all[i] = messages[i]
  BY AppendMessage
<1>2. f \in [DOMAIN messages -> Int]
  BY DEF Covers
<1> HIDE DEF all, last
<1>3. g \in [DOMAIN all -> Int] /\ \A j \in DOMAIN messages : g[j] = f[j]
  BY <1>1, <1>2
<1>4. \A j \in DOMAIN all : Within(all[j], u, t) =>
        j \in DOMAIN messages /\ Within(messages[j], u, t) /\ all[j] = messages[j]
  BY <1>1 DEF Within
<1> HIDE DEF g
<1>5. Covers(g, accepted, all, u, t)
  BY <1>3, <1>4 DEF Covers
<1> QED
  BY <1>5 DEF all

LEMMA OwnCovers ==
  ASSUME NEW f, NEW accepted \in Seq(Nat), NEW messages \in Seq(Message), NEW u, NEW t \in Nat,
         NEW m \in Message, m.user = u, m.at = t, Covers(f, accepted, messages, u, t)
  PROVE  \E g : Covers(g, Append(accepted, t), Append(messages, m), u, t)
<1> DEFINE all == Append(messages, m)
           last == Len(messages) + 1
           place == Len(accepted) + 1
           times == Append(accepted, t)
           g == [j \in DOMAIN all |-> IF j \in DOMAIN messages THEN f[j] ELSE place]
<1>1. /\ DOMAIN all = DOMAIN messages \union {last} /\ last \notin DOMAIN messages
      /\ all[last] = m /\ \A i \in DOMAIN messages : all[i] = messages[i]
  BY AppendMessage
<1>2. /\ f \in [DOMAIN messages -> Int] /\ Len(accepted) \in Nat
      /\ Len(times) = place /\ times[place] = t
      /\ \A i \in 1 .. Len(accepted) : times[i] = accepted[i]
  BY DEF Covers
<1> HIDE DEF all, last, times
<1>3. /\ g \in [DOMAIN all -> Int] /\ \A j \in DOMAIN messages : g[j] = f[j]
      /\ g[last] = place /\ place \in 1 .. place
  BY <1>1, <1>2
<1> HIDE DEF g
<1>4. ASSUME NEW j \in DOMAIN messages, Within(all[j], u, t)
      PROVE  /\ Within(messages[j], u, t) /\ all[j] = messages[j]
             /\ g[j] \in 1 .. Len(accepted) /\ accepted[g[j]] = all[j].at
  BY <1>1, <1>3, <1>4 DEF Covers
<1>5. ASSUME NEW j \in DOMAIN all, Within(all[j], u, t)
      PROVE  g[j] \in 1 .. Len(times) /\ times[g[j]] = all[j].at
  <2>1. CASE j \in DOMAIN messages
    <3>1. g[j] \in 1 .. Len(accepted) /\ accepted[g[j]] = all[j].at
      BY <1>4, <1>5, <2>1
    <3>2. times[g[j]] = accepted[g[j]]
      BY <1>2, <3>1
    <3>3. g[j] \in 1 .. Len(times)
      BY <1>2, <3>1
    <3> QED
      BY <3>1, <3>2, <3>3
  <2>2. CASE j = last
    BY <1>1, <1>2, <1>3, <2>2
  <2> QED
    BY <1>1, <2>1, <2>2
<1>6. ASSUME NEW j \in DOMAIN all, NEW k \in DOMAIN all,
             Within(all[j], u, t), Within(all[k], u, t), g[j] = g[k]
      PROVE  j = k
  <2>1. CASE j \in DOMAIN messages /\ k \in DOMAIN messages
    BY <1>3, <1>4, <1>6, <2>1 DEF Covers
  <2>2. ASSUME NEW i \in DOMAIN messages, Within(all[i], u, t)
        PROVE  g[i] # place
    BY <1>2, <1>4, <2>2
  <2> QED
    BY <1>1, <1>3, <1>6, <2>1, <2>2
<1>7. Covers(g, times, all, u, t)
  BY <1>3, <1>5, <1>6 DEF Covers
<1> QED
  BY <1>7 DEF all, times

\* So the list of accepted times bounds the number of recent messages.
LEMMA CoverBounds ==
  ASSUME NEW f, NEW accepted \in Seq(Nat), NEW messages, NEW u, NEW t,
         Covers(f, accepted, messages, u, t)
  PROVE  Cardinality({j \in DOMAIN messages : Within(messages[j], u, t)}) <= Len(accepted)
<1> DEFINE S == {j \in DOMAIN messages : Within(messages[j], u, t)}
           T == 1 .. Len(accepted)
           g == [j \in S |-> f[j]]
<1>1. Len(accepted) \in Nat
  OBVIOUS
<1>2. IsFiniteSet(T) /\ Cardinality(T) = Len(accepted)
  <2>1. 1 \in Int /\ Len(accepted) \in Int
    BY <1>1
  <2>2. /\ IsFiniteSet(1 .. Len(accepted))
        /\ Cardinality(1 .. Len(accepted)) =
             IF 1 > Len(accepted) THEN 0 ELSE Len(accepted) - 1 + 1
    BY <2>1, FS_Interval, Zenon
  <2> QED
    BY <1>1, <2>2
<1>3. g \in Injection(S, T)
  <2>1. g \in [S -> T]
    BY DEF Covers
  <2>2. \A j, k \in S : g[j] = g[k] => j = k
    BY DEF Covers
  <2> QED
    BY <2>1, <2>2 DEF Injection, IsInjective
<1> HIDE DEF S, T, g
<1>4. Cardinality(S) <= Cardinality(T)
  BY <1>2, <1>3, FS_Injection
<1> QED
  BY <1>2, <1>4 DEF S
-----------------------------------------------------------------------------
(* The steps of a session *)

LEMMA ProcessingFacts ==
  IsFiniteSet(Processing) /\ Cardinality(Processing) \in Nat
<1>1. Processing \in SUBSET Sessions /\ IsFiniteSet(Sessions)
  BY ChatAssumption DEF Processing
<1> QED
  BY <1>1, FS_Subset, FS_CardinalityType

\* What does not depend on the sessions.
LEMMA SessionsAside ==
  ASSUME IInv, UNCHANGED <<now, boundary, users, logs, store, sent>>
  PROVE  /\ BlocksServed' /\ FreshRows' /\ RecentAreAccepted' /\ RateLimitHolds'
         /\ LastIsRemembered' /\ NoEcho'
<1>1. BlocksServed' /\ RecentAreAccepted' /\ LastIsRemembered'
  BY DEF IInv, BlocksServed, RecentAreAccepted, LastIsRemembered
<1>2. FreshRows'
  BY DEF IInv, FreshRows
<1>3. RateLimitHolds' /\ NoEcho'
  BY DEF IInv, RateLimitHolds, NoEcho
<1> QED
  BY <1>1, <1>2, <1>3

LEMMA ChangeInv ==
  ASSUME IInv, NEW s \in Sessions, NEW new \in SessionState, Change(s, new),
         Continues(new, boundary), Len(new.events) <= SubscriberBuffer,
         new.reader = "processing" => \/ session[s].reader = "processing"
                                      \/ boundary + Cardinality(Processing) < MaxMessages
  PROVE  IInv'
<1>1. /\ session' = [session EXCEPT ![s] = new] /\ Typed
      /\ UNCHANGED <<now, open, boundary, users, logs, store, sent, restarts>>
  BY DEF Change, IInv
<1>2. /\ session' \in [Sessions -> SessionState] /\ session'[s] = new
      /\ \A r \in Sessions : r # s => session'[r] = session[r]
  BY <1>1 DEF Typed
<1>3. Typed'
  BY <1>1, <1>2 DEF Typed
<1>4. NoGaps'
  BY <1>1, <1>2 DEF IInv, NoGaps, Continues
<1>5. boundary' + Cardinality(Processing') <= MaxMessages
  <2>1. /\ boundary \in Nat /\ boundary + Cardinality(Processing) <= MaxMessages
        /\ MaxMessages \in Nat /\ boundary' = boundary
    BY <1>1, ChatAssumption DEF Typed, IInv, Bounded
  <2>2. IsFiniteSet(Processing) /\ Cardinality(Processing) \in Nat
    BY ProcessingFacts
  <2>3. CASE new.reader = "processing"
    <3>1. Processing' = Processing \union {s}
      BY <1>2, <2>3 DEF Processing
    <3>2. /\ Cardinality(Processing \union {s}) =
                IF s \in Processing THEN Cardinality(Processing) ELSE Cardinality(Processing) + 1
      BY <2>2, FS_AddElement
    <3>3. s \in Processing <=> session[s].reader = "processing"
      BY DEF Processing
    <3> QED
      BY <2>1, <2>2, <2>3, <3>1, <3>2, <3>3
  <2>4. CASE new.reader # "processing"
    <3>1. Processing' = Processing \ {s}
      BY <1>2, <2>4 DEF Processing
    <3>2. /\ Cardinality(Processing \ {s}) =
                IF s \in Processing THEN Cardinality(Processing) - 1 ELSE Cardinality(Processing)
      BY <2>2, FS_RemoveElement
    <3> QED
      BY <2>1, <2>2, <3>1, <3>2
  <2> QED
    BY <2>3, <2>4
<1>6. Bounded'
  BY <1>1, <1>2, <1>5 DEF IInv, Bounded
<1> QED
  BY <1>1, <1>3, <1>4, <1>6, SessionsAside DEF IInv

\* A step that leaves the channel of the session alone and reads no command.
LEMMA QuietInv ==
  ASSUME IInv, NEW s \in Sessions, NEW new \in SessionState, Change(s, new),
         new.events = session[s].events, new.seen = session[s].seen,
         new.serve = "serving" => session[s].serve = "serving",
         new.subscribed => session[s].subscribed,
         new.reader = "processing" => session[s].reader = "processing"
  PROVE  IInv'
<1>1. Continues(new, boundary)
  BY DEF IInv, NoGaps, Continues
<1>2. Len(new.events) <= SubscriberBuffer
  BY DEF IInv, Bounded
<1> QED
  BY <1>1, <1>2, ChangeInv

LEMMA ServeInv ==
  ASSUME IInv, NEW s \in Sessions, Serve(s)
  PROVE  IInv'
<1> DEFINE new == [NoSession EXCEPT !.serve = "serving", !.reader = "reading",
                                    !.watcher = "waiting", !.connected = TRUE,
                                    !.subscribed = TRUE, !.seen = boundary]
<1>1. boundary \in Nat /\ <<>> \in Seq(Nat) /\ Len(<<>>) = 0 /\ DOMAIN <<>> = {}
  BY DEF IInv, Typed
<1>2. /\ new \in SessionState /\ new.events = <<>> /\ new.seen = boundary
      /\ new.reader # "processing"
  BY <1>1 DEF NoSession, SessionState, None
<1>3. Change(s, new)
  BY DEF Serve
<1> HIDE DEF new
<1>4. Continues(new, boundary)
  BY <1>1, <1>2 DEF Continues
<1>5. Len(new.events) <= SubscriberBuffer
  BY <1>1, <1>2, Constants
<1> QED
  BY <1>2, <1>3, <1>4, <1>5, ChangeInv

LEMMA DisconnectInv ==
  ASSUME IInv, NEW s \in Sessions, Disconnect(s)
  PROVE  IInv'
<1> DEFINE new == [session[s] EXCEPT !.connected = FALSE]
<1>1. session[s] \in SessionState
  BY DEF IInv, Typed
<1>2. /\ new \in SessionState /\ new.events = session[s].events /\ new.seen = session[s].seen
      /\ new.serve = session[s].serve /\ new.subscribed = session[s].subscribed
      /\ new.reader = session[s].reader
  BY <1>1 DEF SessionState
<1>3. Change(s, new)
  BY DEF Disconnect
<1> HIDE DEF new
<1> QED
  BY <1>2, <1>3, QuietInv

LEMMA ReadCommandInv ==
  ASSUME IInv, NEW s \in Sessions, ReadCommand(s)
  PROVE  IInv'
<1>1. session[s] \in SessionState
  BY DEF IInv, Typed
<1>2. CASE Change(s, [session[s] EXCEPT !.reader = "stopped"])
  <2> DEFINE new == [session[s] EXCEPT !.reader = "stopped"]
  <2>1. /\ new \in SessionState /\ new.events = session[s].events /\ new.seen = session[s].seen
        /\ new.serve = session[s].serve /\ new.subscribed = session[s].subscribed
        /\ new.reader = "stopped"
    BY <1>1 DEF SessionState
  <2>2. Change(s, new)
    BY <1>2
  <2> HIDE DEF new
  <2> QED
    BY <2>1, <2>2, QuietInv
<1>3. ASSUME NEW text \in Texts, boundary + Cardinality(Processing) < MaxMessages,
             Change(s, [session[s] EXCEPT !.reader = "processing", !.text = text])
      PROVE  IInv'
  <2> DEFINE new == [session[s] EXCEPT !.reader = "processing", !.text = text]
  <2>1. /\ new \in SessionState /\ new.events = session[s].events /\ new.seen = session[s].seen
        /\ new.serve = session[s].serve /\ new.subscribed = session[s].subscribed
    BY <1>1 DEF SessionState
  <2>2. Change(s, new)
    BY <1>3
  <2> HIDE DEF new
  <2>3. Continues(new, boundary) /\ Len(new.events) <= SubscriberBuffer
    BY <2>1 DEF IInv, NoGaps, Continues, Bounded
  <2> QED
    BY <1>3, <2>1, <2>2, <2>3, ChangeInv
<1> QED
  BY <1>2, <1>3 DEF ReadCommand

LEMMA ReadFailsInv ==
  ASSUME IInv, NEW s \in Sessions, ReadFails(s)
  PROVE  IInv'
<1>1. session[s] \in SessionState
  BY DEF IInv, Typed
<1>2. CASE Change(s, [session[s] EXCEPT !.reader = "failed"])
  <2> DEFINE new == [session[s] EXCEPT !.reader = "failed"]
  <2>1. /\ new \in SessionState /\ new.events = session[s].events
        /\ new.seen = session[s].seen
        /\ new.serve = session[s].serve /\ new.subscribed = session[s].subscribed
        /\ new.reader = "failed"
    BY <1>1 DEF SessionState
  <2>2. Change(s, new)
    BY <1>2
  <2> HIDE DEF new
  <2> QED
    BY <2>1, <2>2, QuietInv
<1> QED
  BY <1>2 DEF ReadFails

LEMMA StopReadingInv ==
  ASSUME IInv, NEW s \in Sessions, StopReading(s)
  PROVE  IInv'
<1>1. session[s] \in SessionState
  BY DEF IInv, Typed
<1>2. CASE Change(s, [session[s] EXCEPT !.reader = "stopped"])
  <2> DEFINE new == [session[s] EXCEPT !.reader = "stopped"]
  <2>1. /\ new \in SessionState /\ new.events = session[s].events
        /\ new.seen = session[s].seen
        /\ new.serve = session[s].serve /\ new.subscribed = session[s].subscribed
        /\ new.reader = "stopped"
    BY <1>1 DEF SessionState
  <2>2. Change(s, new)
    BY <1>2
  <2> HIDE DEF new
  <2> QED
    BY <2>1, <2>2, QuietInv
<1> QED
  BY <1>2 DEF StopReading

LEMMA WatchInv ==
  ASSUME IInv, NEW s \in Sessions, Watch(s)
  PROVE  IInv'
<1>1. session[s] \in SessionState
  BY DEF IInv, Typed
<1>2. CASE Change(s, [session[s] EXCEPT !.watcher = "closing", !.cancelled = TRUE])
  <2> DEFINE new == [session[s] EXCEPT !.watcher = "closing", !.cancelled = TRUE]
  <2>1. /\ new \in SessionState /\ new.events = session[s].events
        /\ new.seen = session[s].seen
        /\ new.serve = session[s].serve /\ new.subscribed = session[s].subscribed
        /\ new.reader = session[s].reader
    BY <1>1 DEF SessionState
  <2>2. Change(s, new)
    BY <1>2
  <2> HIDE DEF new
  <2> QED
    BY <2>1, <2>2, QuietInv
<1>3. CASE Change(s, [session[s] EXCEPT !.watcher = "closed", !.connected = FALSE])
  <2> DEFINE new == [session[s] EXCEPT !.watcher = "closed", !.connected = FALSE]
  <2>1. /\ new \in SessionState /\ new.events = session[s].events
        /\ new.seen = session[s].seen
        /\ new.serve = session[s].serve /\ new.subscribed = session[s].subscribed
        /\ new.reader = session[s].reader
    BY <1>1 DEF SessionState
  <2>2. Change(s, new)
    BY <1>3
  <2> HIDE DEF new
  <2> QED
    BY <2>1, <2>2, QuietInv
<1>4. CASE Change(s, [session[s] EXCEPT !.watcher = "done"])
  <2> DEFINE new == [session[s] EXCEPT !.watcher = "done"]
  <2>1. /\ new \in SessionState /\ new.events = session[s].events
        /\ new.seen = session[s].seen
        /\ new.serve = session[s].serve /\ new.subscribed = session[s].subscribed
        /\ new.reader = session[s].reader
    BY <1>1 DEF SessionState
  <2>2. Change(s, new)
    BY <1>4
  <2> HIDE DEF new
  <2> QED
    BY <2>1, <2>2, QuietInv
<1> QED
  BY <1>2, <1>3, <1>4 DEF Watch

LEMMA EventsEndInv ==
  ASSUME IInv, NEW s \in Sessions, EventsEnd(s)
  PROVE  IInv'
<1>1. session[s] \in SessionState
  BY DEF IInv, Typed
<1>2. CASE Change(s, [session[s] EXCEPT !.serve = "dropping"])
  <2> DEFINE new == [session[s] EXCEPT !.serve = "dropping"]
  <2>1. /\ new \in SessionState /\ new.events = session[s].events
        /\ new.seen = session[s].seen
        /\ new.serve = "dropping" /\ new.subscribed = session[s].subscribed
        /\ new.reader = session[s].reader
    BY <1>1 DEF SessionState
  <2>2. Change(s, new)
    BY <1>2
  <2> HIDE DEF new
  <2> QED
    BY <2>1, <2>2, QuietInv
<1> QED
  BY <1>2 DEF EventsEnd

LEMMA ContextEndsInv ==
  ASSUME IInv, NEW s \in Sessions, ContextEnds(s)
  PROVE  IInv'
<1>1. session[s] \in SessionState
  BY DEF IInv, Typed
<1>2. CASE Change(s, [session[s] EXCEPT !.serve = "leaving", !.cancelled = TRUE])
  <2> DEFINE new == [session[s] EXCEPT !.serve = "leaving", !.cancelled = TRUE]
  <2>1. /\ new \in SessionState /\ new.events = session[s].events
        /\ new.seen = session[s].seen
        /\ new.serve = "leaving" /\ new.subscribed = session[s].subscribed
        /\ new.reader = session[s].reader
    BY <1>1 DEF SessionState
  <2>2. Change(s, new)
    BY <1>2
  <2> HIDE DEF new
  <2> QED
    BY <2>1, <2>2, QuietInv
<1> QED
  BY <1>2 DEF ContextEnds, Leave

LEMMA BackpressureInv ==
  ASSUME IInv, NEW s \in Sessions, Backpressure(s)
  PROVE  IInv'
<1>1. session[s] \in SessionState
  BY DEF IInv, Typed
<1>2. CASE Change(s, [[session[s] EXCEPT !.watcher = "done"]
                      EXCEPT !.serve = "leaving", !.cancelled = TRUE])
  <2> DEFINE new == [[session[s] EXCEPT !.watcher = "done"]
                     EXCEPT !.serve = "leaving", !.cancelled = TRUE]
  <2>1. /\ new \in SessionState /\ new.events = session[s].events
        /\ new.seen = session[s].seen
        /\ new.serve = "leaving" /\ new.subscribed = session[s].subscribed
        /\ new.reader = session[s].reader
    BY <1>1 DEF SessionState
  <2>2. Change(s, new)
    BY <1>2
  <2> HIDE DEF new
  <2> QED
    BY <2>1, <2>2, QuietInv
<1> QED
  BY <1>2 DEF Backpressure, Leave

LEMMA WriteResultInv ==
  ASSUME IInv, NEW s \in Sessions, WriteResult(s)
  PROVE  IInv'
<1>1. session[s] \in SessionState
  BY DEF IInv, Typed
<1>2. CASE Change(s, [[session[s] EXCEPT !.reader = "stopped"]
                      EXCEPT !.serve = "leaving", !.cancelled = TRUE])
  <2> DEFINE new == [[session[s] EXCEPT !.reader = "stopped"]
                     EXCEPT !.serve = "leaving", !.cancelled = TRUE]
  <2>1. /\ new \in SessionState /\ new.events = session[s].events
        /\ new.seen = session[s].seen
        /\ new.serve = "leaving" /\ new.subscribed = session[s].subscribed
        /\ new.reader = "stopped"
    BY <1>1 DEF SessionState
  <2>2. Change(s, new)
    BY <1>2
  <2> HIDE DEF new
  <2> QED
    BY <2>1, <2>2, QuietInv
<1>3. CASE Change(s, [session[s] EXCEPT !.reader = "reading"])
  <2> DEFINE new == [session[s] EXCEPT !.reader = "reading"]
  <2>1. /\ new \in SessionState /\ new.events = session[s].events
        /\ new.seen = session[s].seen
        /\ new.serve = session[s].serve /\ new.subscribed = session[s].subscribed
        /\ new.reader = "reading"
    BY <1>1 DEF SessionState
  <2>2. Change(s, new)
    BY <1>3
  <2> HIDE DEF new
  <2> QED
    BY <2>1, <2>2, QuietInv
<1>4. CASE Change(s, [[session[s] EXCEPT !.reader = "reading"]
                      EXCEPT !.serve = "leaving", !.cancelled = TRUE])
  <2> DEFINE new == [[session[s] EXCEPT !.reader = "reading"]
                     EXCEPT !.serve = "leaving", !.cancelled = TRUE]
  <2>1. /\ new \in SessionState /\ new.events = session[s].events
        /\ new.seen = session[s].seen
        /\ new.serve = "leaving" /\ new.subscribed = session[s].subscribed
        /\ new.reader = "reading"
    BY <1>1 DEF SessionState
  <2>2. Change(s, new)
    BY <1>4
  <2> HIDE DEF new
  <2> QED
    BY <2>1, <2>2, QuietInv
<1>5. CASE Change(s, [[session[s] EXCEPT !.reader = "reading"] EXCEPT !.serve = "dropping"])
  <2> DEFINE new == [[session[s] EXCEPT !.reader = "reading"] EXCEPT !.serve = "dropping"]
  <2>1. /\ new \in SessionState /\ new.events = session[s].events
        /\ new.seen = session[s].seen
        /\ new.serve = "dropping" /\ new.subscribed = session[s].subscribed
        /\ new.reader = "reading"
    BY <1>1 DEF SessionState
  <2>2. Change(s, new)
    BY <1>5
  <2> HIDE DEF new
  <2> QED
    BY <2>1, <2>2, QuietInv
<1> QED
  BY <1>2, <1>3, <1>4, <1>5 DEF WriteResult, Leave

LEMMA WriteEventInv ==
  ASSUME IInv, NEW s \in Sessions, WriteEvent(s)
  PROVE  IInv'
<1> DEFINE events == session[s].events
           rest == [session[s] EXCEPT !.events = Tail(events)]
<1>1. /\ session[s] \in SessionState /\ session[s].serve = "serving" /\ events # <<>>
      /\ events \in Seq(Nat) /\ Len(events) <= SubscriberBuffer /\ Len(events) \in Nat \ {0}
  BY DEF IInv, Typed, Bounded, SessionState, WriteEvent, Serving
<1>2. /\ Tail(events) \in Seq(Nat) /\ Len(Tail(events)) = Len(events) - 1
      /\ \A i \in 1 .. Len(events) - 1 : Tail(events)[i] = events[i + 1]
      /\ Head(events) \in Nat /\ Head(events) = events[1]
  BY <1>1
<1> HIDE DEF events
<1>3. /\ rest \in SessionState /\ rest.events = Tail(events) /\ rest.seen = session[s].seen
      /\ rest.subscribed = session[s].subscribed /\ rest.reader = session[s].reader
      /\ rest.serve = "serving"
  BY <1>1, <1>2 DEF SessionState
<1>4. \/ Change(s, [rest EXCEPT !.seen = Head(events)])
      \/ Change(s, [rest EXCEPT !.serve = "leaving", !.cancelled = TRUE])
      \/ Change(s, [rest EXCEPT !.serve = "dropping"])
  BY DEF WriteEvent, Leave, events
<1>5. Len(Tail(events)) <= SubscriberBuffer
  BY <1>1, <1>2, Constants
<1> HIDE DEF rest
<1>6. CASE Change(s, [rest EXCEPT !.seen = Head(events)])
  <2> DEFINE new == [rest EXCEPT !.seen = Head(events)]
  <2>1. /\ new \in SessionState /\ new.events = Tail(events) /\ new.seen = Head(events)
        /\ new.subscribed = session[s].subscribed /\ new.reader = session[s].reader
        /\ new.serve = "serving"
    BY <1>2, <1>3 DEF SessionState
  <2>2. Change(s, new)
    BY <1>6
  <2> HIDE DEF new
  <2>3. /\ \A i \in 1 .. Len(events) : events[i] = session[s].seen + i
        /\ session[s].subscribed => session[s].seen + Len(events) = boundary
        /\ session[s].seen \in Nat
    BY <1>1 DEF IInv, NoGaps, Continues, events, SessionState
  <2>4. Head(events) = session[s].seen + 1
    BY <1>1, <1>2, <2>3
  <2>5. \A i \in 1 .. Len(events) - 1 : Tail(events)[i] = Head(events) + i
    <3> SUFFICES ASSUME NEW i \in 1 .. Len(events) - 1
                 PROVE  Tail(events)[i] = Head(events) + i
      OBVIOUS
    <3>1. i + 1 \in 1 .. Len(events) /\ Tail(events)[i] = events[i + 1]
      BY <1>1, <1>2
    <3>2. events[i + 1] = session[s].seen + (i + 1)
      BY <2>3, <3>1
    <3>3. \A seen \in Nat : seen + (i + 1) = seen + 1 + i
      OBVIOUS
    <3> QED
      BY <2>3, <2>4, <3>1, <3>2, <3>3, Zenon
  <2>6. DOMAIN Tail(events) = 1 .. Len(events) - 1
    BY <1>1, <1>2
  <2>7. session[s].subscribed => Head(events) + Len(Tail(events)) = boundary
    BY <1>1, <1>2, <2>3, <2>4
  <2>8. Continues(new, boundary)
    BY <2>1, <2>5, <2>6, <2>7 DEF Continues
  <2> QED
    BY <1>5, <2>1, <2>2, <2>8, ChangeInv
<1>7. CASE Change(s, [rest EXCEPT !.serve = "leaving", !.cancelled = TRUE])
  <2> DEFINE new == [rest EXCEPT !.serve = "leaving", !.cancelled = TRUE]
  <2>1. /\ new \in SessionState /\ new.events = Tail(events) /\ new.serve = "leaving"
        /\ new.reader = session[s].reader
    BY <1>3 DEF SessionState
  <2>2. Change(s, new)
    BY <1>7
  <2> HIDE DEF new
  <2> QED
    BY <1>5, <2>1, <2>2, ChangeInv DEF Continues
<1>8. CASE Change(s, [rest EXCEPT !.serve = "dropping"])
  <2> DEFINE new == [rest EXCEPT !.serve = "dropping"]
  <2>1. /\ new \in SessionState /\ new.events = Tail(events) /\ new.serve = "dropping"
        /\ new.reader = session[s].reader
    BY <1>3 DEF SessionState
  <2>2. Change(s, new)
    BY <1>8
  <2> HIDE DEF new
  <2> QED
    BY <1>5, <2>1, <2>2, ChangeInv DEF Continues
<1> QED
  BY <1>4, <1>6, <1>7, <1>8

LEMMA FinishInv ==
  ASSUME IInv, NEW s \in Sessions, Finish(s)
  PROVE  IInv'
<1> DEFINE new == [session[s] EXCEPT !.serve = "ended", !.watcher = "done", !.connected = FALSE,
                                     !.subscribed = FALSE, !.events = <<>>]
<1>1. session[s] \in SessionState /\ <<>> \in Seq(Nat) /\ Len(<<>>) = 0
  BY DEF IInv, Typed
<1>2. /\ new \in SessionState /\ new.events = <<>> /\ new.serve = "ended"
      /\ new.reader = session[s].reader
  BY <1>1 DEF SessionState
<1>3. Change(s, new)
  BY DEF Finish
<1> HIDE DEF new
<1>4. Continues(new, boundary)
  BY <1>2 DEF Continues
<1>5. Len(new.events) <= SubscriberBuffer
  BY <1>1, <1>2, Constants
<1> QED
  BY <1>2, <1>3, <1>4, <1>5, ChangeInv
-----------------------------------------------------------------------------
(* Execute *)

\* The reader of the session has its answer.
LEMMA AnsweredFacts ==
  ASSUME NEW sessions \in [Sessions -> SessionState], NEW s \in Sessions,
         NEW reader \in {"answered", "refused"},
         session' = [sessions EXCEPT ![s].reader = reader, ![s].text = "none"]
  PROVE  /\ session' \in [Sessions -> SessionState]
         /\ session'[s].reader = reader
         /\ \A r \in Sessions : r # s => session'[r] = sessions[r]
         /\ \A r \in Sessions :
              /\ session'[r].events = sessions[r].events /\ session'[r].seen = sessions[r].seen
              /\ session'[r].serve = sessions[r].serve
              /\ session'[r].subscribed = sessions[r].subscribed
<1> DEFINE new == [sessions[s] EXCEPT !.reader = reader, !.text = "none"]
<1>1. sessions[s] \in SessionState
  OBVIOUS
<1>2. /\ new \in SessionState /\ new.reader = reader /\ new.events = sessions[s].events
      /\ new.seen = sessions[s].seen /\ new.serve = sessions[s].serve
      /\ new.subscribed = sessions[s].subscribed
  BY <1>1 DEF SessionState
<1>3. session' = [sessions EXCEPT ![s] = new]
  OBVIOUS
<1> HIDE DEF new
<1> QED
  BY <1>2, <1>3

LEMMA AnsweredCount ==
  ASSUME NEW s \in Processing, session'[s].reader # "processing",
         \A r \in Sessions : r # s => session'[r].reader = session[r].reader
  PROVE  /\ Cardinality(Processing') + 1 = Cardinality(Processing)
         /\ Cardinality(Processing') \in Nat
<1>1. Processing' = Processing \ {s}
  BY DEF Processing
<1>2. IsFiniteSet(Processing) /\ Cardinality(Processing) \in Nat
  BY ProcessingFacts
<1>3. IsFiniteSet(Processing \ {s}) /\ Cardinality(Processing \ {s}) = Cardinality(Processing) - 1
  BY <1>2, FS_RemoveElement
<1>4. Cardinality(Processing \ {s}) \in Nat
  BY <1>3, FS_CardinalityType
<1> QED
  BY <1>1, <1>2, <1>3, <1>4

LEMMA RefusedInv ==
  ASSUME IInv, NEW s \in Sessions, s \in Processing,
         session' = [session EXCEPT ![s].reader = "refused", ![s].text = "none"],
         UNCHANGED <<now, open, boundary, users, logs, store, sent, restarts>>
  PROVE  IInv'
<1> DEFINE new == [session[s] EXCEPT !.reader = "refused", !.text = "none"]
<1>1. session[s] \in SessionState
  BY DEF IInv, Typed
<1>2. /\ new \in SessionState /\ new.events = session[s].events /\ new.seen = session[s].seen
      /\ new.serve = session[s].serve /\ new.subscribed = session[s].subscribed
      /\ new.reader = "refused"
  BY <1>1 DEF SessionState
<1>3. session' = [session EXCEPT ![s] = new]
  OBVIOUS
<1> HIDE DEF new
<1> QED
  BY <1>2, <1>3, QuietInv DEF Change

LEMMA UserOfFacts ==
  ASSUME NEW s \in Sessions
  PROVE  UserOf[s] \in Users
BY DEF Users

LEMMA RejectedInv ==
  ASSUME IInv, NEW s \in Sessions, s \in Processing,
         NEW u, u = UserOf[s], NEW text, text = session[s].text,
         Admission(users[u], text, now).verdict # "accepted",
         users' = [users EXCEPT ![u] = Admission(users[u], text, now).state],
         session' = [session EXCEPT ![s].reader = "answered", ![s].text = "none"],
         UNCHANGED <<now, open, boundary, logs, store, sent, restarts>>
  PROVE  IInv'
<1> PICK new : new = Admission(users[u], text, now).state
  OBVIOUS
<1> PICK rest : rest = TimestampsAfter(users[u].accepted, now - SecondWindow)
  OBVIOUS
<1>1. /\ Typed /\ u \in Users /\ users[u] \in UserState /\ now \in Nat \ {0}
      /\ text \in Texts \union {"none"} /\ Served(users[u], now)
  BY UserOfFacts DEF IInv, Typed, SessionState, BlocksServed
<1>2. /\ new \in UserState /\ Served(new, now)
      /\ new.accepted = users[u].accepted \/ new.accepted = rest
      /\ new.lastText = users[u].lastText /\ new.lastAt = users[u].lastAt
  BY <1>1, AdmissionFacts
<1>3. /\ users' \in [Users -> UserState] /\ users'[u] = new
      /\ \A v \in Users : v # u => users'[v] = users[v]
  BY <1>1, <1>2 DEF Typed
<1>4. /\ session' \in [Sessions -> SessionState] /\ session'[s].reader = "answered"
      /\ \A r \in Sessions : r # s => session'[r] = session[r]
      /\ \A r \in Sessions :
           /\ session'[r].events = session[r].events /\ session'[r].seen = session[r].seen
           /\ session'[r].serve = session[r].serve
           /\ session'[r].subscribed = session[r].subscribed
  BY <1>1, AnsweredFacts DEF Typed
<1>5. Typed'
  BY <1>1, <1>3, <1>4 DEF Typed
<1>6. Bounded'
  <2>1. /\ Cardinality(Processing') + 1 = Cardinality(Processing)
        /\ Cardinality(Processing') \in Nat
    BY <1>4, AnsweredCount
  <2>2. boundary \in Nat /\ MaxMessages \in Nat
    BY <1>1, ChatAssumption DEF Typed
  <2> QED
    BY <1>4, <2>1, <2>2 DEF IInv, Bounded
<1>7. NoGaps'
  BY <1>4 DEF IInv, NoGaps, Continues
<1>8. BlocksServed'
  BY <1>2, <1>3 DEF IInv, BlocksServed
<1>9. FreshRows'
  BY DEF IInv, FreshRows
<1>10. RecentAreAccepted'
  <2>1. ASSUME NEW v \in Users, v # u
        PROVE  \E f : Covers(f, users'[v].accepted, sent, v, now)
    BY <1>3, <2>1 DEF IInv, RecentAreAccepted
  <2>2. PICK f : Covers(f, users[u].accepted, sent, u, now)
    BY <1>1 DEF IInv, RecentAreAccepted
  <2>3. users[u].accepted \in Seq(Nat) /\ sent \in Seq(Message) /\ now \in Nat
    BY <1>1 DEF UserState, Typed
  <2>4. \E g : Covers(g, rest, sent, u, now)
    BY <2>2, <2>3, TrimmedCovers
  <2>5. \E g : Covers(g, users'[u].accepted, sent, u, now)
    <3>1. users'[u].accepted = users[u].accepted \/ users'[u].accepted = rest
      BY <1>2, <1>3
    <3> QED
      BY <2>2, <2>4, <3>1, Zenon
  <2> QED
    BY <2>1, <2>5 DEF RecentAreAccepted
<1>11. LastIsRemembered'
  BY <1>2, <1>3 DEF IInv, LastIsRemembered
<1>12. RateLimitHolds' /\ NoEcho'
  BY DEF IInv, RateLimitHolds, NoEcho
<1> QED
  BY <1>5, <1>6, <1>7, <1>8, <1>9, <1>10, <1>11, <1>12 DEF IInv

\* publishLocked: every channel goes on without a gap, or is closed.
LEMMA PublishFacts ==
  ASSUME IInv
  PROVE  /\ Publish(session, boundary + 1) \in [Sessions -> SessionState]
         /\ \A r \in Sessions :
              /\ Continues(Publish(session, boundary + 1)[r], boundary + 1)
              /\ Len(Publish(session, boundary + 1)[r].events) <= SubscriberBuffer
              /\ Publish(session, boundary + 1)[r].reader = session[r].reader
<1> DEFINE new(r) == IF ~session[r].subscribed THEN session[r]
                     ELSE IF Len(session[r].events) < SubscriberBuffer
                     THEN [session[r] EXCEPT !.events = Append(@, boundary + 1)]
                     ELSE [session[r] EXCEPT !.subscribed = FALSE]
<1>1. ASSUME NEW r \in Sessions
      PROVE  /\ new(r) \in SessionState /\ Continues(new(r), boundary + 1)
             /\ Len(new(r).events) <= SubscriberBuffer /\ new(r).reader = session[r].reader
  <2>1. /\ session[r] \in SessionState /\ Continues(session[r], boundary) /\ boundary \in Nat
        /\ Len(session[r].events) <= SubscriberBuffer
    BY DEF IInv, Typed, NoGaps, Bounded
  <2>2. session[r].events \in Seq(Nat) /\ session[r].seen \in Nat /\ boundary + 1 \in Nat
    BY <2>1 DEF SessionState
  <2>3. CASE ~session[r].subscribed
    BY <2>1, <2>3 DEF Continues
  <2>4. CASE session[r].subscribed /\ Len(session[r].events) < SubscriberBuffer
    <3> DEFINE t == [session[r] EXCEPT !.events = Append(session[r].events, boundary + 1)]
               events == Append(session[r].events, boundary + 1)
    <3>1. new(r) = t
      BY <2>4
    <3>2. /\ events \in Seq(Nat) /\ Len(events) = Len(session[r].events) + 1
          /\ DOMAIN events = 1 .. Len(session[r].events) + 1
          /\ DOMAIN session[r].events = 1 .. Len(session[r].events)
          /\ Len(session[r].events) \in Nat
          /\ \A i \in 1 .. Len(session[r].events) : events[i] = session[r].events[i]
          /\ events[Len(session[r].events) + 1] = boundary + 1
      BY <2>2
    <3> HIDE DEF events
    <3>3. /\ t \in SessionState /\ t.events = events /\ t.seen = session[r].seen
          /\ t.serve = session[r].serve /\ t.reader = session[r].reader
      BY <2>1, <3>2 DEF SessionState, events
    <3> HIDE DEF t
    <3>4. Len(events) <= SubscriberBuffer
      BY <2>4, <3>2, Constants
    <3>5. ASSUME session[r].serve = "serving"
          PROVE  /\ \A i \in DOMAIN events : events[i] = session[r].seen + i
                 /\ session[r].seen + Len(events) = boundary + 1
      <4>1. /\ session[r].seen + Len(session[r].events) = boundary
            /\ \A i \in 1 .. Len(session[r].events) :
                 session[r].events[i] = session[r].seen + i
        BY <2>1, <2>4, <3>2, <3>5 DEF Continues
      <4>2. session[r].seen + (Len(session[r].events) + 1) = boundary + 1
        <5>1. \A a, b \in Nat : a + b = boundary => a + (b + 1) = boundary + 1
          BY <2>1
        <5> QED
          BY <2>2, <3>2, <4>1, <5>1, Zenon
      <4>3. ASSUME NEW i \in 1 .. Len(session[r].events) + 1
            PROVE  events[i] = session[r].seen + i
        <5>1. CASE i = Len(session[r].events) + 1
          BY <3>2, <4>2, <5>1
        <5>2. CASE i \in 1 .. Len(session[r].events)
          BY <3>2, <4>1, <5>2
        <5> QED
          BY <3>2, <5>1, <5>2, SMTT(30)
      <4> QED
        BY <3>2, <4>2, <4>3
    <3> QED
      BY <3>1, <3>3, <3>4, <3>5 DEF Continues
  <2>5. CASE session[r].subscribed /\ ~(Len(session[r].events) < SubscriberBuffer)
    <3> DEFINE t == [session[r] EXCEPT !.subscribed = FALSE]
    <3>1. new(r) = t
      BY <2>5
    <3>2. /\ t \in SessionState /\ t.events = session[r].events /\ t.seen = session[r].seen
          /\ t.serve = session[r].serve /\ t.reader = session[r].reader /\ ~t.subscribed
      BY <2>1 DEF SessionState
    <3> HIDE DEF t
    <3> QED
      BY <2>1, <3>1, <3>2 DEF Continues
  <2> QED
    BY <2>3, <2>4, <2>5
<1>2. Publish(session, boundary + 1) = [r \in Sessions |-> new(r)]
  BY DEF Publish
<1> HIDE DEF new
<1> QED
  BY <1>1, <1>2

\* Enqueue: the number of a new row is after all the others.
LEMMA EnqueueFacts ==
  ASSUME IInv, boundary' = boundary + 1, logs' = Enqueue(boundary + 1), store' = store
  PROVE  logs' \in LogState /\ Len(logs'.queue) <= LogBuffer /\ FreshRows'
<1>1. /\ logs \in LogState /\ logs.queue \in Seq(Nat \ {0}) /\ logs.row \in Nat
      /\ boundary \in Nat /\ store \in SUBSET (Nat \ {0}) /\ Len(logs.queue) \in Nat
      /\ DOMAIN logs.queue = 1 .. Len(logs.queue) /\ Len(logs.queue) <= LogBuffer
  BY DEF IInv, Typed, LogState, Bounded
<1>2. CASE ~logs.closed /\ Len(logs.queue) < LogBuffer
  <2> DEFINE queue == Append(logs.queue, boundary + 1)
  <2>1. boundary + 1 \in Nat \ {0}
    BY <1>1
  <2>2. /\ queue \in Seq(Nat \ {0}) /\ Len(queue) = Len(logs.queue) + 1
        /\ DOMAIN queue = 1 .. Len(logs.queue) + 1
        /\ \A i \in 1 .. Len(logs.queue) : queue[i] = logs.queue[i]
        /\ queue[Len(logs.queue) + 1] = boundary + 1
    BY <1>1, <2>1
  <2>3. logs' = [logs EXCEPT !.queue = queue]
    BY <1>2 DEF Enqueue
  <2> HIDE DEF queue
  <2>4. logs' \in LogState /\ logs'.queue = queue /\ logs'.row = logs.row
    BY <1>1, <2>2, <2>3 DEF LogState
  <2>5. ASSUME NEW i \in DOMAIN queue
        PROVE  \/ i \in DOMAIN logs.queue /\ queue[i] = logs.queue[i] /\ queue[i] <= boundary
               \/ i = Len(logs.queue) + 1 /\ queue[i] = boundary + 1
    <3>1. i \in 1 .. Len(logs.queue) \/ i = Len(logs.queue) + 1
      BY <1>1, <2>2
    <3>2. \A j \in DOMAIN logs.queue : logs.queue[j] <= boundary
      BY DEF IInv, FreshRows
    <3> QED
      BY <1>1, <2>2, <3>1, <3>2
  <2>6. \A i, j \in DOMAIN queue : queue[i] = queue[j] => i = j
    <3> SUFFICES ASSUME NEW i \in DOMAIN queue, NEW j \in DOMAIN queue, queue[i] = queue[j]
                 PROVE  i = j
      OBVIOUS
    <3>1. CASE i \in DOMAIN logs.queue /\ j \in DOMAIN logs.queue
      BY <1>1, <2>2, <3>1 DEF IInv, FreshRows
    <3>2. CASE i = Len(logs.queue) + 1 /\ j = Len(logs.queue) + 1
      BY <3>2
    <3>3. ~(boundary + 1 <= boundary)
      BY <1>1
    <3> QED
      BY <2>5, <3>1, <3>2, <3>3
  <2>7. ~(boundary + 1 <= boundary) /\ \A n \in Nat : n <= boundary => n <= boundary + 1
    BY <1>1
  <2>8. ASSUME NEW i \in DOMAIN queue
        PROVE  queue[i] # logs.row /\ queue[i] \notin store /\ queue[i] <= boundary + 1
    <3>1. CASE i \in DOMAIN logs.queue /\ queue[i] = logs.queue[i]
      BY <1>1, <2>7, <3>1 DEF IInv, FreshRows
    <3>2. CASE queue[i] = boundary + 1
      <4>1. logs.row <= boundary /\ \A n \in store : n <= boundary
        BY DEF IInv, FreshRows
      <4>2. boundary + 1 <= boundary + 1
        BY <1>1
      <4> QED
        BY <2>7, <3>2, <4>1, <4>2
    <3> QED
      BY <2>5, <3>1, <3>2
  <2>9. /\ logs.row # None => logs.row \notin store
        /\ logs.row <= boundary + 1 /\ \A n \in store : n <= boundary + 1
    BY <1>1, <2>7 DEF IInv, FreshRows
  <2>10. FreshRows'
    BY <2>4, <2>6, <2>8, <2>9 DEF FreshRows
  <2>11. Len(queue) <= LogBuffer
    BY <1>1, <1>2, <2>2, Constants
  <2> QED
    BY <2>4, <2>10, <2>11
<1>3. CASE ~(~logs.closed /\ Len(logs.queue) < LogBuffer)
  <2>1. logs' = logs
    BY <1>3 DEF Enqueue
  <2>2. \A n \in Nat : n <= boundary => n <= boundary + 1
    BY <1>1
  <2>3. \A i \in DOMAIN logs.queue : logs.queue[i] \in Nat
    BY <1>1
  <2> QED
    BY <1>1, <2>1, <2>2, <2>3 DEF IInv, FreshRows
<1> QED
  BY <1>2, <1>3

\* One more message keeps to the limit when its user's accepted times do.
LEMMA AcceptedRate ==
  ASSUME sent \in Seq(Message), RateLimitHolds, NEW m \in Message, sent' = Append(sent, m),
         NEW accepted \in Seq(Nat), Len(accepted) <= PerSecondLimit,
         NEW f, Covers(f, accepted, sent', m.user, m.at)
  PROVE  RateLimitHolds'
<1> DEFINE last == Len(sent) + 1
<1>1. /\ Len(sent) \in Nat /\ DOMAIN sent = 1 .. Len(sent)
      /\ DOMAIN sent' = DOMAIN sent \union {last} /\ sent'[last] = m
      /\ \A i \in DOMAIN sent : sent'[i] = sent[i]
  BY AppendMessage
<1>2. ASSUME NEW i \in DOMAIN sent
      PROVE  Cardinality({j \in 1 .. i : /\ sent'[j].user = sent'[i].user
                                         /\ sent'[j].at > sent'[i].at - SecondWindow})
               <= PerSecondLimit
  <2>1. \A j \in 1 .. i : sent'[j] = sent[j]
    BY <1>1
  <2>2. {j \in 1 .. i : /\ sent'[j].user = sent'[i].user
                        /\ sent'[j].at > sent'[i].at - SecondWindow} =
        {j \in 1 .. i : sent[j].user = sent[i].user /\ sent[j].at > sent[i].at - SecondWindow}
    BY <1>1, <2>1
  <2> QED
    BY <2>2 DEF RateLimitHolds
<1>3. Cardinality({j \in 1 .. last : /\ sent'[j].user = sent'[last].user
                                      /\ sent'[j].at > sent'[last].at - SecondWindow})
        <= PerSecondLimit
  <2> DEFINE recent == {j \in DOMAIN sent' : Within(sent'[j], m.user, m.at)}
  <2>1. {j \in 1 .. last : /\ sent'[j].user = sent'[last].user
                            /\ sent'[j].at > sent'[last].at - SecondWindow} = recent
    <3>1. DOMAIN sent' = 1 .. last
      BY <1>1
    <3> QED
      BY <1>1, <3>1 DEF Within
  <2>2. Cardinality(recent) <= Len(accepted)
    BY CoverBounds
  <2>3. Cardinality(recent) \in Nat
    <3>1. IsFiniteSet(DOMAIN sent')
      <4>1. DOMAIN sent' = 1 .. last /\ last \in Int /\ 1 \in Int
        BY <1>1
      <4> QED
        BY <4>1, FS_Interval
    <3>2. recent \in SUBSET DOMAIN sent'
      OBVIOUS
    <3> HIDE DEF recent
    <3> QED
      BY <3>1, <3>2, FS_Subset, FS_CardinalityType
  <2> HIDE DEF recent
  <2>4. Cardinality(recent) <= PerSecondLimit
    <3>1. Len(accepted) \in Nat
      OBVIOUS
    <3> QED
      BY <2>2, <2>3, <3>1, Constants
  <2> QED
    BY <2>1, <2>4
<1> QED
  BY <1>1, <1>2, <1>3 DEF RateLimitHolds

\* One more message is no echo of the one before.
LEMMA AcceptedEcho ==
  ASSUME sent \in Seq(Message), NoEcho, NEW m \in Message, sent' = Append(sent, m),
         \A i \in DOMAIN sent : IsLast(sent, m.user, i) /\ sent[i].text = m.text
                                  => m.at - sent[i].at >= DuplicateWindow
  PROVE  NoEcho'
<1> DEFINE last == Len(sent) + 1
<1>1. /\ Len(sent) \in Nat /\ DOMAIN sent = 1 .. Len(sent)
      /\ DOMAIN sent' = DOMAIN sent \union {last} /\ sent'[last] = m
      /\ \A i \in DOMAIN sent : sent'[i] = sent[i]
  BY AppendMessage
<1>2. SUFFICES ASSUME NEW i \in DOMAIN sent', NEW j \in DOMAIN sent', i < j,
                      sent'[i].user = sent'[j].user, sent'[i].text = sent'[j].text,
                      \A k \in i + 1 .. j - 1 : sent'[k].user # sent'[i].user
               PROVE  sent'[j].at - sent'[i].at >= DuplicateWindow
  BY DEF NoEcho
<1>3. i \in DOMAIN sent /\ sent'[i] = sent[i]
  BY <1>1, <1>2
<1>4. CASE j \in DOMAIN sent
  <2>1. sent'[j] = sent[j] /\ \A k \in i + 1 .. j - 1 : sent'[k] = sent[k]
    BY <1>1, <1>3, <1>4
  <2> QED
    BY <1>2, <1>3, <1>4, <2>1 DEF NoEcho
<1>5. CASE j = last
  <2>1. \A k \in i + 1 .. Len(sent) : k \in i + 1 .. j - 1 /\ sent'[k] = sent[k]
    BY <1>1, <1>3, <1>5
  <2>2. IsLast(sent, m.user, i)
    BY <1>1, <1>2, <1>3, <1>5, <2>1 DEF IsLast
  <2> QED
    BY <1>1, <1>2, <1>3, <1>5, <2>2
<1> QED
  BY <1>1, <1>4, <1>5

\* The limits let a message of a user pass.
LEMMA AdmittedUser ==
  ASSUME Typed, BlocksServed, NEW u \in Users, NEW text \in Texts \union {"none"},
         Admission(users[u], text, now).verdict = "accepted"
  PROVE  \E new, rest :
           /\ new = Admission(users[u], text, now).state /\ new \in UserState
           /\ rest = TimestampsAfter(users[u].accepted, now - SecondWindow) /\ rest \in Seq(Nat)
           /\ Served(new, now) /\ new.accepted = Append(rest, now)
           /\ Len(rest) < PerSecondLimit /\ new.lastText = text /\ new.lastAt = now
           /\ text = users[u].lastText /\ users[u].lastAt # 0 =>
                now - users[u].lastAt >= DuplicateWindow
<1> PICK new : new = Admission(users[u], text, now).state
  OBVIOUS
<1> PICK rest : rest = TimestampsAfter(users[u].accepted, now - SecondWindow)
  OBVIOUS
<1>1. users[u] \in UserState /\ now \in Nat \ {0} /\ Served(users[u], now)
  BY DEF Typed, BlocksServed
<1>2. new \in UserState
  BY <1>1, AdmittedFacts, SMTT(30)
<1>3. Served(new, now)
  BY <1>1, AdmittedFacts, SMTT(30)
<1>4. new.accepted = Append(rest, now)
  BY <1>1, AdmittedFacts, SMTT(30)
<1>5. Len(rest) < PerSecondLimit
  BY <1>1, AdmittedFacts, SMTT(30)
<1>6. new.lastText = text /\ new.lastAt = now
  BY <1>1, AdmittedFacts, SMTT(30)
<1>7. text = users[u].lastText /\ users[u].lastAt # 0 =>
        now - users[u].lastAt >= DuplicateWindow
  BY <1>1, AdmittedFacts, SMTT(30)
<1>8. rest \in Seq(Nat)
  <2>1. users[u].accepted \in Seq(Nat) /\ now - SecondWindow \in Int
    BY <1>1, Constants DEF UserState
  <2> QED
    BY <2>1, TimestampsAfterFacts
<1> QED
  BY <1>2, <1>3, <1>4, <1>5, <1>6, <1>7, <1>8

LEMMA AcceptedInv ==
  ASSUME IInv, NEW s \in Sessions, s \in Processing,
         NEW u \in Users, NEW text \in Texts \union {"none"},
         Admission(users[u], text, now).verdict = "accepted",
         users' = [users EXCEPT ![u] = Admission(users[u], text, now).state],
         boundary' = boundary + 1,
         sent' = Append(sent, [user |-> u, text |-> text, at |-> now]),
         session' = [Publish(session, boundary + 1) EXCEPT ![s].reader = "answered",
                                                           ![s].text = "none"],
         logs' = Enqueue(boundary + 1),
         UNCHANGED <<now, open, store, restarts>>
  PROVE  IInv'
<1> PICK m : m = [user |-> u, text |-> text, at |-> now]
  OBVIOUS
<1> PICK sessions : sessions = Publish(session, boundary + 1)
  OBVIOUS
<1>1. /\ Typed /\ users[u] \in UserState /\ now \in Nat \ {0} /\ Served(users[u], now)
  BY DEF IInv, Typed, BlocksServed
<1>2. /\ m \in Message /\ m.user = u /\ m.text = text /\ m.at = now
      /\ sent \in Seq(Message) /\ sent' = Append(sent, m)
  BY <1>1 DEF Message, Typed
<1>3. PICK new, rest :
        /\ new = Admission(users[u], text, now).state /\ new \in UserState
        /\ rest = TimestampsAfter(users[u].accepted, now - SecondWindow) /\ rest \in Seq(Nat)
        /\ Served(new, now) /\ new.accepted = Append(rest, now)
        /\ Len(rest) < PerSecondLimit /\ new.lastText = text /\ new.lastAt = now
        /\ text = users[u].lastText /\ users[u].lastAt # 0 =>
             now - users[u].lastAt >= DuplicateWindow
  BY AdmittedUser, Zenon DEF IInv
<1>4. /\ users' \in [Users -> UserState] /\ users'[u] = new
      /\ \A v \in Users : v # u => users'[v] = users[v]
  BY <1>1, <1>3 DEF Typed
<1>5. /\ sessions \in [Sessions -> SessionState]
      /\ \A r \in Sessions :
           /\ Continues(sessions[r], boundary + 1)
           /\ Len(sessions[r].events) <= SubscriberBuffer
           /\ sessions[r].reader = session[r].reader
  BY PublishFacts
<1>6. /\ session' \in [Sessions -> SessionState] /\ session'[s].reader = "answered"
      /\ \A r \in Sessions : r # s => session'[r] = sessions[r]
      /\ \A r \in Sessions :
           /\ session'[r].events = sessions[r].events /\ session'[r].seen = sessions[r].seen
           /\ session'[r].serve = sessions[r].serve
           /\ session'[r].subscribed = sessions[r].subscribed
  <2>1. session' = [sessions EXCEPT ![s].reader = "answered", ![s].text = "none"]
    OBVIOUS
  <2>2. sessions \in [Sessions -> SessionState] /\ "answered" \in {"answered", "refused"}
    BY <1>5
  <2> QED
    BY <2>1, <2>2, AnsweredFacts, Zenon
<1>7. logs' \in LogState /\ Len(logs'.queue) <= LogBuffer /\ FreshRows'
  BY EnqueueFacts
<1>8. sent' \in Seq(Message)
  BY <1>2, AppendMessage
<1>9. Typed'
  <2>1. boundary' \in Nat
    BY <1>1 DEF Typed
  <2> QED
    BY <1>1, <1>4, <1>6, <1>7, <1>8, <2>1 DEF Typed
<1>10. Bounded'
  <2>1. /\ Cardinality(Processing') + 1 = Cardinality(Processing)
        /\ Cardinality(Processing') \in Nat
    <3>1. /\ session'[s].reader # "processing"
          /\ \A r \in Sessions : r # s => session'[r].reader = session[r].reader
      BY <1>5, <1>6
    <3> QED
      BY <3>1, AnsweredCount
  <2>2. boundary \in Nat /\ MaxMessages \in Nat
    BY <1>1, ChatAssumption DEF Typed
  <2>3. boundary + 1 + Cardinality(Processing') <= MaxMessages
    BY <2>1, <2>2 DEF IInv, Bounded
  <2> QED
    BY <1>5, <1>6, <1>7, <2>3 DEF IInv, Bounded
<1>11. NoGaps'
  BY <1>5, <1>6 DEF NoGaps, Continues
<1>12. BlocksServed'
  BY <1>3, <1>4 DEF IInv, BlocksServed
<1>13. users[u].accepted \in Seq(Nat) /\ rest \in Seq(Nat) /\ now \in Nat
  BY <1>1, <1>3 DEF UserState
<1>14. \E g : Covers(g, Append(rest, now), sent', u, now)
  <2>1. PICK f : Covers(f, users[u].accepted, sent, u, now)
    BY <1>1 DEF IInv, RecentAreAccepted
  <2>2. PICK g : Covers(g, rest, sent, u, now)
    BY <1>2, <1>3, <1>13, <2>1, TrimmedCovers
  <2>3. \E h : Covers(h, Append(rest, now), Append(sent, m), u, now)
    BY <1>2, <1>13, <2>2, OwnCovers
  <2> QED
    BY <1>2, <2>3
<1>15. RecentAreAccepted'
  <2>1. ASSUME NEW v \in Users, v # u
        PROVE  \E g : Covers(g, users'[v].accepted, sent', v, now)
    <3>1. PICK f : Covers(f, users[v].accepted, sent, v, now)
      BY DEF IInv, RecentAreAccepted
    <3>2. \E g : Covers(g, users[v].accepted, Append(sent, m), v, now)
      BY <1>2, <1>13, <2>1, <3>1, OthersCover
    <3> QED
      BY <1>2, <1>4, <2>1, <3>2
  <2>2. \E g : Covers(g, users'[u].accepted, sent', u, now)
    BY <1>3, <1>4, <1>14
  <2> QED
    BY <2>1, <2>2 DEF RecentAreAccepted
<1>16. RateLimitHolds'
  <2>1. PICK g : Covers(g, Append(rest, now), sent', u, now)
    BY <1>14
  <2>2. Append(rest, now) \in Seq(Nat) /\ Len(Append(rest, now)) <= PerSecondLimit
    <3>1. Append(rest, now) \in Seq(Nat) /\ Len(Append(rest, now)) = Len(rest) + 1
          /\ Len(rest) \in Nat
      BY <1>13
    <3> QED
      BY <1>3, <3>1, Constants
  <2> QED
    BY <1>2, <2>1, <2>2, AcceptedRate DEF IInv
<1>17. NoEcho'
  <2>1. ASSUME NEW i \in DOMAIN sent, IsLast(sent, m.user, i), sent[i].text = m.text
        PROVE  m.at - sent[i].at >= DuplicateWindow
    <3>1. users[u].lastText = text /\ users[u].lastAt = sent[i].at
      BY <1>1, <1>2, <2>1 DEF IInv, LastIsRemembered
    <3>2. sent[i].at # 0
      BY <1>2, MessageFacts
    <3> QED
      BY <1>2, <1>3, <3>1, <3>2
  <2> QED
    BY <1>2, <2>1, AcceptedEcho DEF IInv
<1>18. LastIsRemembered'
  <2> DEFINE last == Len(sent) + 1
  <2>1. /\ Len(sent) \in Nat /\ Len(sent') = last /\ DOMAIN sent = 1 .. Len(sent)
        /\ DOMAIN sent' = DOMAIN sent \union {last} /\ sent'[last] = m
        /\ \A i \in DOMAIN sent : sent'[i] = sent[i]
    BY <1>2, AppendMessage
  <2>2. SUFFICES ASSUME NEW v \in Users, NEW j \in DOMAIN sent', IsLast(sent', v, j)
                 PROVE  users'[v].lastText = sent'[j].text /\ users'[v].lastAt = sent'[j].at
    BY DEF LastIsRemembered
  <2>3. CASE j = last
    <3>1. v = u
      BY <1>2, <2>1, <2>2, <2>3 DEF IsLast
    <3> QED
      BY <1>2, <1>3, <1>4, <2>1, <2>3, <3>1
  <2>4. CASE j \in DOMAIN sent
    <3>1. last \in j + 1 .. Len(sent') /\ sent'[j] = sent[j]
      BY <2>1, <2>4
    <3>2. v # u
      BY <1>2, <2>1, <2>2, <3>1 DEF IsLast
    <3>3. \A k \in j + 1 .. Len(sent) : k \in j + 1 .. Len(sent') /\ sent'[k] = sent[k]
      BY <2>1, <2>4
    <3>4. IsLast(sent, v, j)
      BY <2>2, <3>1, <3>3 DEF IsLast
    <3> QED
      BY <1>4, <2>4, <3>1, <3>2, <3>4 DEF IInv, LastIsRemembered
  <2> QED
    BY <2>1, <2>3, <2>4
<1> QED
  BY <1>7, <1>9, <1>10, <1>11, <1>12, <1>15, <1>16, <1>17, <1>18 DEF IInv

LEMMA ExecuteInv ==
  ASSUME IInv, NEW s \in Sessions, Execute(s)
  PROVE  IInv'
<1> PICK u : u = UserOf[s]
  OBVIOUS
<1> PICK text : text = session[s].text
  OBVIOUS
<1>1. /\ s \in Processing /\ UNCHANGED <<now, open, store, restarts>>
      /\ u \in Users /\ text \in Texts \union {"none"}
  BY UserOfFacts DEF Execute, IInv, Typed, SessionState
<1>2. \/ /\ session' = [session EXCEPT ![s].reader = "refused", ![s].text = "none"]
         /\ UNCHANGED <<boundary, users, logs, sent>>
      \/ /\ Admission(users[u], text, now).verdict # "accepted"
         /\ users' = [users EXCEPT ![u] = Admission(users[u], text, now).state]
         /\ session' = [session EXCEPT ![s].reader = "answered", ![s].text = "none"]
         /\ UNCHANGED <<boundary, logs, sent>>
      \/ /\ Admission(users[u], text, now).verdict = "accepted"
         /\ users' = [users EXCEPT ![u] = Admission(users[u], text, now).state]
         /\ boundary' = boundary + 1
         /\ sent' = Append(sent, [user |-> u, text |-> text, at |-> now])
         /\ session' = [Publish(session, boundary + 1) EXCEPT ![s].reader = "answered",
                                                              ![s].text = "none"]
         /\ logs' = Enqueue(boundary + 1)
  BY Zenon DEF Execute
<1>3. CASE /\ session' = [session EXCEPT ![s].reader = "refused", ![s].text = "none"]
           /\ UNCHANGED <<boundary, users, logs, sent>>
  BY <1>1, <1>3, RefusedInv
<1>4. CASE /\ Admission(users[u], text, now).verdict # "accepted"
           /\ users' = [users EXCEPT ![u] = Admission(users[u], text, now).state]
           /\ session' = [session EXCEPT ![s].reader = "answered", ![s].text = "none"]
           /\ UNCHANGED <<boundary, logs, sent>>
  BY <1>1, <1>4, RejectedInv
<1>5. CASE /\ Admission(users[u], text, now).verdict = "accepted"
           /\ users' = [users EXCEPT ![u] = Admission(users[u], text, now).state]
           /\ boundary' = boundary + 1
           /\ sent' = Append(sent, [user |-> u, text |-> text, at |-> now])
           /\ session' = [Publish(session, boundary + 1) EXCEPT ![s].reader = "answered",
                                                                ![s].text = "none"]
           /\ logs' = Enqueue(boundary + 1)
  BY <1>1, <1>5, AcceptedInv
<1> QED
  BY <1>2, <1>3, <1>4, <1>5
-----------------------------------------------------------------------------
(* The log, the clock and the process *)

\* A step that only moves rows.
LEMMA LogStepInv ==
  ASSUME IInv, logs' \in LogState, Len(logs'.queue) <= LogBuffer,
         store' \in SUBSET (Nat \ {0}), FreshRows', open' \in BOOLEAN,
         UNCHANGED <<now, boundary, users, session, sent, restarts>>
  PROVE  IInv'
<1>1. Typed'
  BY DEF IInv, Typed
<1>2. Bounded'
  <2>1. Processing' = Processing
    BY DEF Processing
  <2> QED
    BY <2>1 DEF IInv, Bounded
<1>3. NoGaps' /\ BlocksServed' /\ RecentAreAccepted' /\ LastIsRemembered'
  BY DEF IInv, NoGaps, BlocksServed, RecentAreAccepted, LastIsRemembered
<1>4. RateLimitHolds' /\ NoEcho'
  BY DEF IInv, RateLimitHolds, NoEcho
<1> QED
  BY <1>1, <1>2, <1>3, <1>4 DEF IInv

LEMMA TakeRowInv ==
  ASSUME IInv, TakeRow
  PROVE  IInv'
<1> PICK queue : queue = logs.queue
  OBVIOUS
<1>1. /\ logs \in LogState /\ queue \in Seq(Nat \ {0}) /\ queue # <<>> /\ logs.row = None
      /\ Len(queue) <= LogBuffer /\ Len(queue) \in Nat
      /\ store \in SUBSET (Nat \ {0}) /\ open \in BOOLEAN
  BY DEF IInv, Typed, Bounded, LogState, TakeRow
<1>2. /\ logs' = [logs EXCEPT !.queue = Tail(queue), !.row = Head(queue)]
      /\ UNCHANGED <<now, open, boundary, users, session, store, sent, restarts>>
  BY DEF TakeRow
<1>3. /\ Len(queue) \in Nat \ {0} /\ Head(queue) = queue[1] /\ Head(queue) \in Nat \ {0}
      /\ Tail(queue) \in Seq(Nat \ {0}) /\ Len(Tail(queue)) = Len(queue) - 1
      /\ DOMAIN queue = 1 .. Len(queue) /\ DOMAIN Tail(queue) = 1 .. Len(queue) - 1
      /\ \A i \in 1 .. Len(queue) - 1 : Tail(queue)[i] = queue[i + 1]
  BY <1>1
<1>4. /\ logs' \in LogState /\ logs'.queue = Tail(queue) /\ logs'.row = Head(queue)
  BY <1>1, <1>2, <1>3 DEF LogState
<1>5. Len(logs'.queue) <= LogBuffer
  BY <1>1, <1>3, <1>4, Constants
<1>6. /\ \A i, j \in DOMAIN queue : queue[i] = queue[j] => i = j
      /\ \A i \in DOMAIN queue : queue[i] \notin store /\ queue[i] <= boundary
      /\ \A n \in store : n <= boundary
  BY DEF IInv, FreshRows
<1>7. \A i \in DOMAIN Tail(queue) :
        i + 1 \in DOMAIN queue /\ i + 1 # 1 /\ Tail(queue)[i] = queue[i + 1]
  BY <1>3
<1>8. 1 \in DOMAIN queue
  BY <1>3
<1> PICK rest : rest = Tail(queue)
  OBVIOUS
<1>9. ASSUME NEW i \in DOMAIN rest, NEW j \in DOMAIN rest, rest[i] = rest[j]
      PROVE  i = j
  <2>1. i \in Int /\ j \in Int
    BY <1>3
  <2>2. i + 1 = j + 1
    BY <1>6, <1>7, <1>9
  <2> QED
    BY <2>1, <2>2
<1>10. ASSUME NEW i \in DOMAIN rest
       PROVE  rest[i] # Head(queue) /\ rest[i] \notin store /\ rest[i] <= boundary
  BY <1>3, <1>6, <1>7, <1>8
<1>11. Head(queue) \notin store /\ Head(queue) <= boundary
  BY <1>3, <1>6, <1>8
<1>12. logs'.queue = rest /\ logs'.row = Head(queue) /\ store' = store /\ boundary' = boundary
  BY <1>2, <1>4
<1>13. FreshRows'
  BY <1>6, <1>9, <1>10, <1>11, <1>12, Zenon DEF FreshRows
<1> QED
  BY <1>1, <1>2, <1>4, <1>5, <1>13, LogStepInv

LEMMA AppendRowInv ==
  ASSUME IInv, AppendRow
  PROVE  IInv'
<1>1. /\ logs \in LogState /\ logs.row # None /\ logs.row \in Nat \ {0}
      /\ store \in SUBSET (Nat \ {0}) /\ open \in BOOLEAN /\ Len(logs.queue) <= LogBuffer
  BY DEF IInv, Typed, Bounded, LogState, AppendRow, None
<1>2. /\ logs' = [logs EXCEPT !.row = None] /\ store' \in {store, store \union {logs.row}}
      /\ UNCHANGED <<now, open, boundary, users, session, sent, restarts>>
  BY DEF AppendRow
<1>3. /\ logs' \in LogState /\ logs'.queue = logs.queue /\ logs'.row = 0
  BY <1>1, <1>2 DEF LogState, None
<1>4. store' \in SUBSET (Nat \ {0})
  BY <1>1, <1>2
<1>5. \A i \in DOMAIN logs.queue : logs.queue[i] # 0
  BY <1>1 DEF LogState
<1>6. boundary \in Nat
  BY DEF IInv, Typed
<1>7. FreshRows'
  BY <1>1, <1>2, <1>3, <1>5, <1>6 DEF IInv, FreshRows, None
<1> QED
  BY <1>1, <1>2, <1>3, <1>4, <1>7, LogStepInv

LEMMA CloseActorInv ==
  ASSUME IInv, CloseActor
  PROVE  IInv'
<1>1. UNCHANGED <<now, boundary, users, session, logs, store, sent, restarts>> /\ open' = FALSE
  BY DEF CloseActor
<1>2. /\ logs' \in LogState /\ Len(logs'.queue) <= LogBuffer /\ store' \in SUBSET (Nat \ {0})
      /\ FreshRows'
  BY <1>1 DEF IInv, Typed, Bounded, FreshRows
<1> QED
  BY <1>1, <1>2, LogStepInv

LEMMA CloseRoomInv ==
  ASSUME IInv, CloseRoom
  PROVE  IInv'
<1>1. /\ logs' = [logs EXCEPT !.closed = TRUE]
      /\ UNCHANGED <<now, open, boundary, users, session, store, sent, restarts>>
  BY DEF CloseRoom
<1>2. logs \in LogState /\ store \in SUBSET (Nat \ {0}) /\ open \in BOOLEAN
  BY DEF IInv, Typed
<1>3. logs' \in LogState /\ logs'.queue = logs.queue /\ logs'.row = logs.row
  BY <1>1, <1>2 DEF LogState
<1>4. Len(logs'.queue) <= LogBuffer /\ FreshRows'
  BY <1>1, <1>3 DEF IInv, Bounded, FreshRows
<1> QED
  BY <1>1, <1>2, <1>3, <1>4, LogStepInv

LEMMA TickInv ==
  ASSUME IInv, Tick
  PROVE  IInv'
<1>1. /\ now < MaxTime /\ now' = now + 1 /\ now \in Nat \ {0} /\ MaxTime \in Nat
      /\ UNCHANGED <<open, boundary, users, session, logs, store, sent, restarts>>
  BY ChatAssumption DEF Tick, IInv, Typed
<1>2. now' \in Nat \ {0} /\ now' <= MaxTime
  BY <1>1
<1>3. Typed'
  BY <1>1, <1>2 DEF IInv, Typed
<1>4. Bounded'
  <2>1. Processing' = Processing
    BY <1>1 DEF Processing
  <2> QED
    BY <1>1, <1>2, <2>1 DEF IInv, Bounded
<1>5. BlocksServed'
  <2>1. ASSUME NEW u \in Users PROVE Served(users[u], now + 1)
    <3>1. users[u] \in UserState /\ Served(users[u], now)
      BY DEF IInv, Typed, BlocksServed
    <3>2. \A i \in DOMAIN users[u].attempts : users[u].attempts[i] \in Nat
      BY <3>1 DEF UserState
    <3>3. \A n \in Nat : n <= now => n <= now + 1
      BY <1>1
    <3> QED
      BY <3>1, <3>2, <3>3 DEF Served
  <2> QED
    BY <1>1, <2>1 DEF BlocksServed
<1>6. RecentAreAccepted'
  <2>1. ASSUME NEW u \in Users
        PROVE  \E f : Covers(f, users[u].accepted, sent, u, now + 1)
    <3>1. PICK f : Covers(f, users[u].accepted, sent, u, now)
      BY DEF IInv, RecentAreAccepted
    <3>2. sent \in Seq(Message) /\ now \in Nat
      BY <1>1 DEF IInv, Typed
    <3> QED
      BY <3>1, <3>2, LaterCovers
  <2> QED
    BY <1>1, <2>1 DEF RecentAreAccepted
<1>7. NoGaps' /\ FreshRows' /\ LastIsRemembered'
  BY <1>1 DEF IInv, NoGaps, FreshRows, LastIsRemembered
<1>8. RateLimitHolds' /\ NoEcho'
  BY <1>1 DEF IInv, RateLimitHolds, NoEcho
<1> QED
  BY <1>3, <1>4, <1>5, <1>6, <1>7, <1>8 DEF IInv

\* A process that has just started over a store.
Fresh ==
  /\ now = 1 /\ open = TRUE
  /\ users = [u \in Users |-> NewUser]
  /\ session = [s \in Sessions |-> NoSession]
  /\ logs = NewLogs /\ sent = <<>>
  /\ boundary \in Nat /\ boundary <= MaxMessages
  /\ store \in SUBSET (Nat \ {0}) /\ \A n \in store : n <= boundary
  /\ restarts \in Nat

LEMMA FreshInv == Fresh => IInv
<1> SUFFICES ASSUME Fresh
             PROVE  IInv
  OBVIOUS
<1> USE DEF Fresh
<1>1. \A S : <<>> \in Seq(S) /\ Len(<<>>) = 0 /\ DOMAIN <<>> = {}
  OBVIOUS
<1>2. NewUser \in UserState /\ NewUser.attempts = <<>>
  BY <1>1 DEF NewUser, UserState
<1>3. /\ NoSession \in SessionState /\ NoSession.serve = "none" /\ NoSession.events = <<>>
      /\ NoSession.reader = "none"
  BY <1>1 DEF NoSession, SessionState, None
<1>4. NewLogs \in LogState /\ NewLogs.queue = <<>> /\ NewLogs.row = 0
  BY <1>1 DEF NewLogs, LogState, None
<1>5. Typed
  BY <1>1, <1>2, <1>3, <1>4 DEF Typed
<1>6. Bounded
  <2>1. Processing = {}
    BY <1>3 DEF Processing
  <2>2. Cardinality(Processing) = 0
    BY <2>1, FS_EmptySet
  <2> QED
    BY <1>1, <1>3, <1>4, <2>2, Constants, ChatAssumption DEF Bounded
<1>7. NoGaps
  BY <1>3 DEF NoGaps, Continues
<1>8. BlocksServed
  BY <1>1, <1>2 DEF BlocksServed, Served
<1>9. FreshRows
  BY <1>1, <1>4 DEF FreshRows, None
<1>10. RecentAreAccepted
  <2>1. ASSUME NEW u \in Users PROVE Covers(<<>>, users[u].accepted, sent, u, now)
    <3>1. DOMAIN sent = {}
      BY <1>1
    <3>2. <<>> \in [DOMAIN sent -> Int]
      BY <1>1, <3>1
    <3> QED
      BY <3>1, <3>2 DEF Covers
  <2> QED
    BY <2>1 DEF RecentAreAccepted
<1>11. RateLimitHolds /\ LastIsRemembered /\ NoEcho
  BY <1>1 DEF RateLimitHolds, LastIsRemembered, NoEcho
<1> QED
  BY <1>5, <1>6, <1>7, <1>8, <1>9, <1>10, <1>11 DEF IInv

\* restoreLobbyChatBoundary reads the greatest number of the store.
LEMMA RestoredBoundaryFacts ==
  ASSUME IInv
  PROVE  /\ RestoredBoundary \in Nat /\ RestoredBoundary <= boundary
         /\ \A n \in store : n <= RestoredBoundary
<1>1. /\ boundary \in Nat /\ store \in SUBSET (Nat \ {0})
      /\ \A n \in store : n <= boundary
  BY DEF IInv, Typed, FreshRows
<1>2. CASE store = {}
  BY <1>1, <1>2 DEF RestoredBoundary
<1>3. CASE store # {}
  <2>1. store \in SUBSET (1 .. boundary)
    BY <1>1
  <2>2. \E x \in store : \A y \in store : y <= x
    BY <1>1, <1>3, <2>1, GreatestNumber
  <2>3. RestoredBoundary \in store /\ \A y \in store : y <= RestoredBoundary
    BY <1>3, <2>2 DEF RestoredBoundary
  <2> QED
    BY <1>1, <2>3
<1> QED
  BY <1>2, <1>3

LEMMA RestartInv ==
  ASSUME IInv, Restart
  PROVE  IInv'
<1>1. boundary \in Nat /\ boundary <= MaxMessages /\ MaxMessages \in Nat
  <2>1. boundary \in Nat /\ boundary + Cardinality(Processing) <= MaxMessages
    BY DEF IInv, Typed, Bounded
  <2> QED
    BY <2>1, ProcessingFacts, ChatAssumption
<1>2. /\ RestoredBoundary \in Nat /\ RestoredBoundary <= MaxMessages
      /\ \A n \in store : n <= RestoredBoundary
  <2>1. RestoredBoundary \in Nat /\ RestoredBoundary <= boundary
    BY RestoredBoundaryFacts
  <2> QED
    BY <1>1, <2>1, RestoredBoundaryFacts
<1>3. store \in SUBSET (Nat \ {0}) /\ restarts + 1 \in Nat
  BY DEF IInv, Typed
<1>4. Fresh'
  BY <1>2, <1>3 DEF Fresh, Restart
<1> QED
  BY <1>4, FreshInv, PTL

LEMMA InitIInv == Init => IInv
<1>1. Init => Fresh
  BY ChatAssumption DEF Init, Fresh
<1> QED
  BY <1>1, FreshInv

LEMMA NextIInv == IInv /\ [Next]_vars => IInv'
<1> SUFFICES ASSUME IInv, [Next]_vars
             PROVE  IInv'
  OBVIOUS
<1>1. ASSUME NEW s \in Sessions,
             \/ Serve(s) \/ Disconnect(s) \/ ContextEnds(s) \/ ReadCommand(s)
             \/ ReaderStep(s) \/ Watch(s) \/ ServeStep(s)
      PROVE  IInv'
  <2>1. CASE Serve(s) \/ Disconnect(s) \/ ContextEnds(s) \/ ReadCommand(s)
    BY <2>1, ServeInv, DisconnectInv, ContextEndsInv, ReadCommandInv
  <2>2. CASE ReaderStep(s)
    BY <2>2, ExecuteInv, ReadFailsInv, StopReadingInv DEF ReaderStep
  <2>3. CASE Watch(s)
    BY <2>3, WatchInv
  <2>4. CASE ServeStep(s)
    BY <2>4, WriteEventInv, EventsEndInv, WriteResultInv, BackpressureInv, FinishInv DEF ServeStep
  <2> QED
    BY <1>1, <2>1, <2>2, <2>3, <2>4
<1>2. CASE TakeRow \/ AppendRow \/ CloseActor \/ CloseRoom \/ Restart \/ Tick
  BY <1>2, TakeRowInv, AppendRowInv, CloseActorInv, CloseRoomInv, RestartInv, TickInv
<1>3. CASE UNCHANGED vars
  <2>1. /\ logs' \in LogState /\ Len(logs'.queue) <= LogBuffer /\ FreshRows'
        /\ store' \in SUBSET (Nat \ {0}) /\ open' \in BOOLEAN
    BY <1>3 DEF vars, IInv, Typed, Bounded, FreshRows
  <2> QED
    BY <1>3, <2>1, LogStepInv DEF vars
<1> QED
  BY <1>1, <1>2, <1>3 DEF Next
-----------------------------------------------------------------------------
(* What the lobby chat guarantees *)

\* The inductive invariant of Execute, of the goroutines of the sessions, of
\* the log writer and of restarts.
THEOREM ChatInvariant == Spec => []IInv
BY InitIInv, NextIInv, PTL DEF Spec

LEMMA IInvTypeOK == IInv => TypeOK
<1> SUFFICES ASSUME IInv
             PROVE  TypeOK
  OBVIOUS
<1>1. /\ now \in Nat \ {0} /\ now <= MaxTime /\ boundary \in Nat
      /\ boundary + Cardinality(Processing) <= MaxMessages
      /\ session \in [Sessions -> SessionState] /\ logs \in LogState
      /\ store \in SUBSET (Nat \ {0}) /\ Len(logs.queue) <= LogBuffer
      /\ \A s \in Sessions : Len(session[s].events) <= SubscriberBuffer
  BY DEF IInv, Typed, Bounded
<1>2. MaxTime \in Nat /\ MaxMessages \in Nat
  BY ChatAssumption
<1>3. now \in 1 .. MaxTime /\ boundary \in 0 .. MaxMessages
  BY <1>1, <1>2, ProcessingFacts
<1>4. \A n \in Nat : n <= boundary => n <= MaxMessages
  BY <1>2, <1>3
<1>5. logs.row \in Nat /\ logs.row <= boundary /\ \A n \in store : n \in Nat \ {0} /\ n <= boundary
  BY <1>1 DEF IInv, FreshRows, LogState
<1>6. store \subseteq Numbers /\ logs.row \in Numbers \union {None}
  BY <1>2, <1>4, <1>5 DEF Numbers, None
<1>7. \A s \in Sessions :
        /\ session[s].serve \in {"none", "serving", "dropping", "leaving", "ended"}
        /\ session[s].reader \in {"none", "reading", "processing", "answered", "refused",
                                 "failed", "stopped"}
        /\ session[s].watcher \in {"none", "waiting", "closing", "closed", "done"}
  BY <1>1 DEF SessionState
<1> QED
  BY <1>1, <1>3, <1>6, <1>7 DEF TypeOK

\* The types hold, and neither a subscriber's channel nor the queue of rows
\* holds more than its capacity.
THEOREM TypeCorrect == Spec => []TypeOK
BY ChatInvariant, IInvTypeOK, PTL

\* publishLocked drops a subscriber rather than an event: what a client has
\* seen is continued by its channel, up to the last message while it is
\* subscribed.
THEOREM ClientsSeeEverything == Spec => []NobodySeesAGap
<1>1. IInv => NobodySeesAGap
  BY DEF IInv, NoGaps, Continues, NobodySeesAGap, Serving
<1> QED
  BY <1>1, ChatInvariant, PTL

\* A block of Execute is served once: with chatAttemptWindow no longer than
\* chatBlockDuration, no attempt from before its end counts afterwards.
THEOREM BlocksAreNotRepeated == Spec => []BlockIsServedOnce
<1>1. ASSUME IInv, NEW u \in Users, users[u].blockedUntil # 0, now >= users[u].blockedUntil,
             NEW i \in DOMAIN users[u].attempts,
             users[u].attempts[i] > now - AttemptWindow
      PROVE  users[u].attempts[i] >= users[u].blockedUntil
  <2>1. users[u] \in UserState /\ now \in Nat
    BY <1>1 DEF IInv, Typed
  <2>2. users[u].attempts[i] \in Nat /\ users[u].blockedUntil \in Nat
    BY <1>1, <2>1 DEF UserState
  <2>3. \/ users[u].attempts[i] + BlockDuration <= users[u].blockedUntil
        \/ users[u].attempts[i] >= users[u].blockedUntil
    BY <1>1 DEF IInv, BlocksServed, Served
  <2> QED
    BY <1>1, <2>1, <2>2, <2>3, Constants
<1>2. IInv => BlockIsServedOnce
  BY <1>1 DEF BlockIsServedOnce
<1> QED
  BY <1>2, ChatInvariant, PTL

\* persistBestEffort may lose rows and the process may start again from what
\* was stored: a row on its way to the store still has a number of its own.
THEOREM LogNumbersAreFresh == Spec => []RowsAreFresh
<1>1. ASSUME IInv
      PROVE  RowsAreFresh
  <2> PICK queue : queue = logs.queue
    OBVIOUS
  <2> PICK row : row = logs.row
    OBVIOUS
  <2> PICK waiting : waiting = queue \o IF row = None THEN <<>> ELSE <<row>>
    OBVIOUS
  <2>1. queue \in Seq(Nat \ {0}) /\ row \in Nat
    BY <1>1 DEF IInv, Typed, LogState
  <2>2. waiting = IF row = None THEN queue ELSE Append(queue, row)
    <3>1. queue \o <<>> = queue
      BY <2>1, ConcatEmptySeq
    <3>2. queue \o <<row>> = Append(queue, row)
      <4>1. queue \in Seq(Nat)
        BY <2>1
      <4> QED
        BY <2>1, <4>1, AppendIsConcat
    <3> QED
      BY <3>1, <3>2, Zenon
  <2>3. /\ Len(queue) \in Nat /\ DOMAIN queue = 1 .. Len(queue)
        /\ DOMAIN Append(queue, row) = 1 .. Len(queue) + 1
        /\ \A i \in 1 .. Len(queue) : Append(queue, row)[i] = queue[i]
        /\ Append(queue, row)[Len(queue) + 1] = row
    BY <2>1
  <2>4. \A i \in 1 .. Len(queue) + 1 : i \in 1 .. Len(queue) \/ i = Len(queue) + 1
    BY <2>3
  <2>5. ASSUME NEW i \in DOMAIN waiting
        PROVE  \/ i \in DOMAIN queue /\ waiting[i] = queue[i]
               \/ i = Len(queue) + 1 /\ waiting[i] = row /\ row # None
    BY <2>2, <2>3, <2>4, Zenon
  <2>6. /\ \A i, j \in DOMAIN queue : queue[i] = queue[j] => i = j
        /\ \A i \in DOMAIN queue :
             queue[i] # row /\ queue[i] \notin store /\ queue[i] <= boundary
        /\ row # None => row \notin store
        /\ row <= boundary
    BY <1>1 DEF IInv, FreshRows
  <2>7. ASSUME NEW i \in DOMAIN waiting, NEW j \in DOMAIN waiting, waiting[i] = waiting[j]
        PROVE  i = j
    <3>1. CASE i \in DOMAIN queue /\ waiting[i] = queue[i]
      <4>1. CASE j \in DOMAIN queue /\ waiting[j] = queue[j]
        BY <2>6, <2>7, <3>1, <4>1, Zenon
      <4>2. CASE waiting[j] = row
        BY <2>6, <2>7, <3>1, <4>2, Zenon
      <4> QED
        BY <2>5, <4>1, <4>2, Zenon
    <3>2. CASE i = Len(queue) + 1 /\ waiting[i] = row /\ row # None
      BY <2>5, <2>6, <2>7, <3>2, Zenon
    <3> QED
      BY <2>5, <3>1, <3>2
  <2>8. \A i \in DOMAIN waiting : waiting[i] \notin store /\ waiting[i] <= boundary
    BY <2>5, <2>6, Zenon
  <2> QED
    BY <2>7, <2>8 DEF RowsAreFresh
<1> QED
  BY <1>1, ChatInvariant, PTL

\* The accepted times that Execute keeps of a user bound what it accepts: no
\* window of chatSecondWindow holds more than chatPerSecondLimit messages.
THEOREM RateIsLimited == Spec => []RateLimitHolds
<1>1. IInv => RateLimitHolds
  BY DEF IInv
<1> QED
  BY <1>1, ChatInvariant, PTL

\* lastText and lastAt are those of the user's last accepted message, so Execute
\* accepts no text twice in a row within chatDuplicateWindow.
THEOREM EchoesAreRejected == Spec => []NoEcho
<1>1. IInv => NoEcho
  BY DEF IInv
<1> QED
  BY <1>1, ChatInvariant, PTL
=============================================================================
