-------------------------- MODULE RunNarrativeProofs --------------------------
(***************************************************************************)
(* What the feed and the timeline of a text are, for every text.  Both are *)
(* recursive functions, and what they compute is shown by induction.  The  *)
(* induction theorems of the library speak of operators; here a predicate  *)
(* is the set of the numbers that satisfy it, which needs no more than     *)
(* that a set of naturals has a least element.                             *)
(***************************************************************************)
EXTENDS RunNarrative, Integers, WellFoundedInduction, TLAPS

\* A set of naturals that is not empty has a least element.
LEMMA LeastOfNaturals ==
  ASSUME NEW T, T \subseteq Nat, T # {}
  PROVE  \E x \in T : \A y \in T : x <= y
<1>1. IsWellFoundedOn({ss \in Nat \X Nat : ss[1] < ss[2]}, Nat)
  BY NatLessThanWellFounded DEF OpToRel
<1>2. PICK x \in T : \A y \in T : <<y, x>> \notin {ss \in Nat \X Nat : ss[1] < ss[2]}
  BY <1>1, WFMin, Zenon
<1>3. ASSUME NEW y \in T PROVE x <= y
  <2>1. <<y, x>> \in Nat \X Nat /\ <<y, x>>[1] = y /\ <<y, x>>[2] = x
    OBVIOUS
  <2>2. ~(y < x)
    BY <1>2, <2>1
  <2> QED
    BY <2>2
<1> QED
  BY <1>3

\* Induction up to n, over the set of what satisfies the hypothesis.
LEMMA InductionUpTo ==
  ASSUME NEW n \in Nat, NEW T, 0 \in T, \A m \in 0..(n - 1) : m \in T => m + 1 \in T
  PROVE  0..n \subseteq T
<1> SUFFICES ASSUME ~(0..n \subseteq T) PROVE FALSE
  OBVIOUS
<1>1. (0..n) \ T \subseteq Nat /\ (0..n) \ T # {}
  OBVIOUS
<1>2. PICK x \in (0..n) \ T : \A y \in (0..n) \ T : x <= y
  BY <1>1, LeastOfNaturals
<1>3. x - 1 \in 0..(n - 1) /\ ~(x <= x - 1)
  OBVIOUS
<1>4. x - 1 \in T
  BY <1>2, <1>3
<1> QED
  BY <1>3, <1>4

\* A function may be defined by what it is at 0 and how it goes on.
Upwards(f, n, base, step) == f[0] = base /\ \A i \in 1..n : f[i] = step[<<f[i - 1], i>>]
LEMMA RecursionUp ==
  ASSUME NEW n \in Nat, NEW S, NEW base \in S, NEW step \in [S \X (1..n) -> S]
  PROVE  \E f \in [0..n -> S] : Upwards(f, n, base, step)
<1> DEFINE T == {k \in 0..n : \E f \in [0..k -> S] :
                    f[0] = base /\ \A i \in 1..k : f[i] = step[<<f[i - 1], i>>]}
<1>1. 0 \in T
  <2> DEFINE f == [i \in 0..0 |-> base]
  <2>1. f \in [0..0 -> S] /\ f[0] = base /\ \A i \in 1..0 : f[i] = step[<<f[i - 1], i>>]
    OBVIOUS
  <2> HIDE DEF f
  <2> QED
    BY <2>1
<1>2. ASSUME NEW k \in 0..(n - 1), k \in T PROVE k + 1 \in T
  <2>1. PICK f \in [0..k -> S] : f[0] = base /\ \A i \in 1..k : f[i] = step[<<f[i - 1], i>>]
    BY <1>2
  <2> DEFINE g == [i \in 0..(k + 1) |-> IF i = k + 1 THEN step[<<f[k], k + 1>>] ELSE f[i]]
  <2>2. <<f[k], k + 1>> \in S \X (1..n)
    OBVIOUS
  <2>3. g \in [0..(k + 1) -> S] /\ g[0] = base
    BY <2>1, <2>2
  <2>4. ASSUME NEW i \in 1..(k + 1) PROVE g[i] = step[<<g[i - 1], i>>]
    <3>1. CASE i = k + 1
      <4>1. g[k + 1] = step[<<f[k], k + 1>>] /\ g[k] = f[k] /\ i - 1 = k
        BY <3>1
      <4> HIDE DEF g
      <4> QED
        BY <3>1, <4>1
    <3>2. CASE i # k + 1
      <4>1. i \in 1..k /\ i - 1 \in 0..k /\ g[i] = f[i] /\ g[i - 1] = f[i - 1]
        BY <3>2
      <4> QED
        BY <2>1, <4>1
    <3> QED
      BY <3>1, <3>2
  <2> HIDE DEF g
  <2> QED
    BY <2>3, <2>4
<1> HIDE DEF T
<1>3. n \in T
  BY <1>1, <1>2, InductionUpTo
<1> QED
  BY <1>3 DEF T, Upwards

\* The same from the end: a function may be defined by what it is at n + 1 and by
\* what it is at some later place.
Downwards(f, n, base, step, next) == f[n + 1] = base /\ \A i \in 1..n : f[i] = step[<<i, f[next[i]]>>]
LEMMA RecursionDown ==
  ASSUME NEW n \in Nat, NEW S, NEW base \in S, NEW next \in [1..n -> 1..(n + 1)],
         \A i \in 1..n : i < next[i], NEW step \in [(1..n) \X S -> S]
  PROVE  \E f \in [1..(n + 1) -> S] : Downwards(f, n, base, step, next)
<1> DEFINE T == {k \in 0..n : \E f \in [(n + 1 - k)..(n + 1) -> S] :
                    f[n + 1] = base /\ \A i \in (n + 1 - k)..n : f[i] = step[<<i, f[next[i]]>>]}
<1>1. 0 \in T
  <2> DEFINE f == [i \in (n + 1)..(n + 1) |-> base]
  <2>1. /\ f \in [(n + 1 - 0)..(n + 1) -> S] /\ f[n + 1] = base
        /\ \A i \in (n + 1 - 0)..n : f[i] = step[<<i, f[next[i]]>>]
    OBVIOUS
  <2> HIDE DEF f
  <2> QED
    BY <2>1
<1>2. ASSUME NEW k \in 0..(n - 1), k \in T PROVE k + 1 \in T
  <2>1. PICK f \in [(n + 1 - k)..(n + 1) -> S] :
           f[n + 1] = base /\ \A i \in (n + 1 - k)..n : f[i] = step[<<i, f[next[i]]>>]
    BY <1>2
  <2> DEFINE g == [i \in (n - k)..(n + 1) |-> IF i = n - k THEN step[<<n - k, f[next[n - k]]>>] ELSE f[i]]
  <2>2. n - k \in 1..n /\ next[n - k] \in (n + 1 - k)..(n + 1)
    OBVIOUS
  <2>3. <<n - k, f[next[n - k]]>> \in (1..n) \X S
    BY <2>2
  <2>4. g \in [(n - k)..(n + 1) -> S] /\ g[n + 1] = base
    BY <2>1, <2>2, <2>3
  <2>5. ASSUME NEW i \in (n - k)..n PROVE g[i] = step[<<i, g[next[i]]>>]
    <3>1. next[i] \in (n + 1 - k)..(n + 1)
      BY <2>2
    <3>2. g[next[i]] = f[next[i]]
      BY <2>2, <3>1
    <3>3. CASE i = n - k
      <4>1. g[i] = step[<<i, f[next[i]]>>]
        BY <3>3
      <4> HIDE DEF g
      <4> QED
        BY <3>2, <4>1
    <3>4. CASE i # n - k
      <4>1. i \in (n + 1 - k)..n /\ g[i] = f[i]
        BY <2>2, <3>4
      <4> HIDE DEF g
      <4> QED
        BY <2>1, <3>2, <4>1
    <3> QED
      BY <3>3, <3>4
  <2> HIDE DEF g
  <2>6. n - k = n + 1 - (k + 1) /\ k + 1 \in 0..n
    OBVIOUS
  <2> QED
    BY <2>4, <2>5, <2>6
<1> HIDE DEF T
<1>3. 0..n \subseteq T
  BY <1>1, <1>2, InductionUpTo
<1>4. n \in T /\ n + 1 - n = 1
  BY <1>3
<1> QED
  BY <1>4 DEF T, Downwards

------------------------------------------------------------------------------
(* The feed: parse_events.                                                 *)

\* The events after n lines, from those after n - 1.
After(events, line) ==
  IF Listed(line) THEN Append(events, [seq |-> Len(events) + 1, kind |-> KindOf(line), line |-> line])
  ELSE events

\* What one line adds are events.
LEMMA AfterType ==
  ASSUME NEW events \in Seq(Event), NEW line \in Line
  PROVE  After(events, line) \in Seq(Event)
<1>1. CASE Listed(line)
  <2>1. KindOf(line) \in Kinds \cup Marks
    BY <1>1 DEF Listed, KindOf, Line
  <2>2. [seq |-> Len(events) + 1, kind |-> KindOf(line), line |-> line] \in Event
    BY <2>1 DEF Event
  <2> QED
    BY <1>1, <2>2 DEF After
<1>2. CASE ~Listed(line)
  BY <1>2 DEF After
<1> QED
  BY <1>1, <1>2

\* The events of a text are what its lines add, one after the other.
LEMMA EventsLineByLine ==
  ASSUME NEW text \in Seq(Line)
  PROVE  \E upto : /\ upto \in [0..Len(text) -> Seq(Event)]
                   /\ upto[0] = << >>
                   /\ \A n \in 1..Len(text) : upto[n] = After(upto[n - 1], text[n])
                   /\ Events(text) = upto[Len(text)]
<1> DEFINE N == Len(text)
           step == [p \in Seq(Event) \X (1..N) |-> After(p[1], text[p[2]])]
           upto == CHOOSE f : f = [n \in 0..N |-> IF n = 0 THEN << >> ELSE After(f[n - 1], text[n])]
<1>1. ASSUME NEW p \in Seq(Event) \X (1..N) PROVE After(p[1], text[p[2]]) \in Seq(Event)
  <2>1. p[1] \in Seq(Event) /\ text[p[2]] \in Line
    OBVIOUS
  <2> QED
    BY <2>1, AfterType
<1>2. << >> \in Seq(Event) /\ N \in Nat
  OBVIOUS
<1>3. \A e \in Seq(Event), n \in 1..N : step[<<e, n>>] = After(e, text[n])
  OBVIOUS
<1>4. PICK f \in [0..N -> Seq(Event)] : Upwards(f, N, << >>, step)
  <2>1. step \in [Seq(Event) \X (1..N) -> Seq(Event)]
    BY <1>1
  <2> HIDE DEF step, N
  <2> QED
    BY <1>2, <2>1, RecursionUp
<1>5. ASSUME NEW n \in 0..N PROVE f[n] = IF n = 0 THEN << >> ELSE After(f[n - 1], text[n])
  <2>1. CASE n = 0
    BY <1>4, <2>1 DEF Upwards
  <2>2. CASE n # 0
    <3>1. n \in 1..N /\ n - 1 \in 0..N
      BY <2>2
    <3>2. f[n] = step[<<f[n - 1], n>>] /\ f[n - 1] \in Seq(Event)
      BY <1>4, <3>1 DEF Upwards
    <3> HIDE DEF step
    <3> QED
      BY <1>3, <2>2, <3>1, <3>2
  <2> QED
    BY <2>1, <2>2
<1>6. f = [n \in 0..N |-> IF n = 0 THEN << >> ELSE After(f[n - 1], text[n])]
  BY <1>5
<1>7. upto = [n \in 0..N |-> IF n = 0 THEN << >> ELSE After(upto[n - 1], text[n])]
  BY <1>6
<1>8. Events(text) = upto[N]
  BY DEF Events, After
<1> HIDE DEF upto
<1>9. upto[0] = << >> /\ \A n \in 1..N : upto[n] = After(upto[n - 1], text[n])
  BY <1>7
<1>10. \A n \in 0..N : upto[n] \in Seq(Event)
  <2> DEFINE T == {n \in 0..N : upto[n] \in Seq(Event)}
  <2>1. 0 \in T
    <3>1. 0 \in 0..N
      BY <1>2
    <3> QED
      BY <1>2, <1>9, <3>1, Zenon
  <2>2. ASSUME NEW n \in 0..(N - 1), n \in T PROVE n + 1 \in T
    <3>1. n + 1 \in 1..N /\ text[n + 1] \in Line /\ (n + 1) - 1 = n
      OBVIOUS
    <3>2. upto[n + 1] = After(upto[n], text[n + 1])
      BY <1>9, <3>1
    <3>3. upto[n + 1] \in Seq(Event)
      BY <2>2, <3>1, <3>2, AfterType
    <3> QED
      BY <3>1, <3>3
  <2> HIDE DEF T
  <2>3. 0..N \subseteq T
    BY <1>2, <2>1, <2>2, InductionUpTo
  <2> QED
    BY <2>3 DEF T
<1>11. upto \in [0..N -> Seq(Event)]
  BY <1>7, <1>10
<1> QED
  BY <1>8, <1>9, <1>11

\* The events come from the lines at these places, among the first n.
Feeds(at, events, text, n) ==
  /\ at \in [1..Len(events) -> 1..n]
  /\ \A i, j \in 1..Len(events) : i < j => at[i] < at[j]
  /\ \A m \in 1..n : Listed(text[m]) <=> \E i \in 1..Len(events) : at[i] = m
  /\ \A i \in 1..Len(events) :
       events[i] = [seq |-> i, kind |-> KindOf(text[at[i]]), line |-> text[at[i]]]

\* One more line, and at most one more event, from that line.
LEMMA FeedGoesOn ==
  ASSUME NEW text \in Seq(Line), NEW n \in 0..(Len(text) - 1),
         NEW events \in Seq(Event), NEW at, Feeds(at, events, text, n)
  PROVE  \E to : Feeds(to, After(events, text[n + 1]), text, n + 1)
<1>0. Len(events) \in Nat /\ n \in Nat
  OBVIOUS
<1>1. CASE Listed(text[n + 1])
  <2> DEFINE e == [seq |-> Len(events) + 1, kind |-> KindOf(text[n + 1]), line |-> text[n + 1]]
             more == After(events, text[n + 1])
             to == [i \in 1..(Len(events) + 1) |-> IF i = Len(events) + 1 THEN n + 1 ELSE at[i]]
  <2>1. more = Append(events, e)
    BY <1>1 DEF After
  <2> HIDE DEF e, more
  <2>2. Len(more) = Len(events) + 1 /\ more[Len(events) + 1] = e
        /\ \A i \in 1..Len(events) : more[i] = events[i]
    BY <2>1
  <2>3. to \in [1..Len(more) -> 1..(n + 1)]
    BY <1>0, <2>2 DEF Feeds
  <2>4. to[Len(events) + 1] = n + 1 /\ \A i \in 1..Len(events) : to[i] = at[i] /\ at[i] \in 1..n
    BY <1>0 DEF Feeds
  <2> HIDE DEF to
  <2>5. ASSUME NEW i \in 1..Len(more), NEW j \in 1..Len(more), i < j PROVE to[i] < to[j]
    <3>1. i \in 1..Len(events) /\ to[i] = at[i] /\ at[i] \in 1..n
      BY <1>0, <2>2, <2>4, <2>5
    <3>2. CASE j = Len(events) + 1
      BY <1>0, <2>4, <3>1, <3>2
    <3>3. CASE j # Len(events) + 1
      <4>1. j \in 1..Len(events) /\ to[j] = at[j]
        BY <1>0, <2>2, <2>4, <3>3
      <4> QED
        BY <2>5, <3>1, <4>1 DEF Feeds
    <3> QED
      BY <3>2, <3>3
  <2>6. ASSUME NEW m \in 1..(n + 1) PROVE Listed(text[m]) <=> \E i \in 1..Len(more) : to[i] = m
    <3>1. CASE m = n + 1
      BY <1>0, <1>1, <2>2, <2>4, <3>1
    <3>2. CASE m # n + 1
      <4>1. m \in 1..n
        BY <1>0, <3>2
      <4>2. Listed(text[m]) <=> \E i \in 1..Len(events) : at[i] = m
        BY <4>1 DEF Feeds
      <4>3. (\E i \in 1..Len(events) : at[i] = m) <=> \E i \in 1..Len(more) : to[i] = m
        <5>1. \A i \in 1..Len(events) : i \in 1..Len(more) /\ to[i] = at[i]
          BY <1>0, <2>2, <2>4
        <5>2. \A i \in 1..Len(more) : i \in 1..Len(events) \/ i = Len(events) + 1
          BY <1>0, <2>2
        <5> QED
          BY <2>4, <3>2, <5>1, <5>2
      <4> QED
        BY <4>2, <4>3
    <3> QED
      BY <3>1, <3>2
  <2>7. ASSUME NEW i \in 1..Len(more)
        PROVE  more[i] = [seq |-> i, kind |-> KindOf(text[to[i]]), line |-> text[to[i]]]
    <3>1. CASE i = Len(events) + 1
      BY <2>2, <2>4, <3>1 DEF e
    <3>2. CASE i # Len(events) + 1
      <4>1. i \in 1..Len(events) /\ more[i] = events[i] /\ to[i] = at[i]
        BY <1>0, <2>2, <2>4, <3>2
      <4> QED
        BY <4>1 DEF Feeds
    <3> QED
      BY <3>1, <3>2
  <2>8. Feeds(to, more, text, n + 1)
    BY <2>3, <2>5, <2>6, <2>7 DEF Feeds
  <2> QED
    BY <2>8 DEF more
<1>2. CASE ~Listed(text[n + 1])
  <2>1. After(events, text[n + 1]) = events
    BY <1>2 DEF After
  <2>2. \A i \in 1..Len(events) : at[i] \in 1..n
    BY DEF Feeds
  <2>3. at \in [1..Len(events) -> 1..(n + 1)]
    BY <1>0 DEF Feeds
  <2>4. ASSUME NEW m \in 1..(n + 1) PROVE Listed(text[m]) <=> \E i \in 1..Len(events) : at[i] = m
    <3>1. CASE m = n + 1
      BY <1>0, <1>2, <2>2, <3>1
    <3>2. CASE m # n + 1
      BY <1>0, <3>2 DEF Feeds
    <3> QED
      BY <3>1, <3>2
  <2>5. Feeds(at, events, text, n + 1)
    BY <2>3, <2>4 DEF Feeds
  <2> QED
    BY <2>1, <2>5
<1> QED
  BY <1>1, <1>2

\* The feed of a text has one event for every line it lists, in the order of the
\* lines and numbered from 1 on, and no other: parse_events drops none of them and
\* makes up none.
THEOREM FeedIsComplete ==
  ASSUME NEW text \in Seq(Line)
  PROVE  Events(text) \in Seq(Event) /\ \E at : Feeds(at, Events(text), text, Len(text))
<1> DEFINE N == Len(text)
<1>1. PICK upto : /\ upto \in [0..N -> Seq(Event)]
                  /\ upto[0] = << >>
                  /\ \A n \in 1..N : upto[n] = After(upto[n - 1], text[n])
                  /\ Events(text) = upto[N]
  BY EventsLineByLine
<1>2. N \in Nat
  OBVIOUS
<1> DEFINE T == {n \in 0..N : \E at : Feeds(at, upto[n], text, n)}
<1>3. 0 \in T
  <2> DEFINE at == [i \in 1..0 |-> 0]
  <2>1. Feeds(at, << >>, text, 0)
    BY DEF Feeds
  <2> HIDE DEF at
  <2>2. \E to : Feeds(to, upto[0], text, 0)
    BY <1>1, <2>1
  <2> QED
    BY <1>2, <2>2
<1>4. ASSUME NEW n \in 0..(N - 1), n \in T PROVE n + 1 \in T
  <2>1. PICK at : Feeds(at, upto[n], text, n)
    BY <1>4
  <2>2. upto[n] \in Seq(Event) /\ upto[n + 1] = After(upto[n], text[n + 1]) /\ n + 1 \in 0..N
    BY <1>1, <1>2
  <2>3. \E to : Feeds(to, upto[n + 1], text, n + 1)
    BY <2>1, <2>2, FeedGoesOn
  <2> QED
    BY <2>2, <2>3
<1> HIDE DEF T
<1>5. 0..N \subseteq T
  BY <1>2, <1>3, <1>4, InductionUpTo
<1>6. \E at : Feeds(at, upto[N], text, N)
  BY <1>2, <1>5 DEF T
<1> QED
  BY <1>1, <1>2, <1>6

------------------------------------------------------------------------------
(* The timeline: _group_timeline.                                          *)

\* A run of entries of one kind has an end, which RunEnd is.
LEMMA RunsEnd ==
  ASSUME NEW events \in Seq(Event), NEW i \in 1..Len(events)
  PROVE  /\ RunEnd(events, i) \in (i + 1)..(Len(events) + 1)
         /\ \A m \in (i + 1)..(RunEnd(events, i) - 1) : events[m].kind = events[i].kind
         /\ RunEnd(events, i) <= Len(events) => events[RunEnd(events, i)].kind # events[i].kind
<1> DEFINE N == Len(events)
           T == {j \in (i + 1)..(N + 1) : j <= N => events[j].kind # events[i].kind}
<1>1. N \in Nat /\ i \in 1..N
  OBVIOUS
<1>2. N + 1 \in T /\ T \subseteq Nat
  BY <1>1
<1>3. PICK j \in T : \A m \in T : j <= m
  BY <1>2, LeastOfNaturals
<1>4. ASSUME NEW m \in (i + 1)..(j - 1) PROVE events[m].kind = events[i].kind
  <2>1. m \in (i + 1)..(N + 1) /\ m <= N /\ ~(j <= m)
    BY <1>1
  <2>2. m \notin T
    BY <1>3, <2>1
  <2> QED
    BY <2>1, <2>2
<1> QED
  BY <1>3, <1>4 DEF RunEnd

\* An entry ends after it begins; in between is one kind only, and only one event
\* unless the kind is a groupable one; what follows a groupable entry is another kind.
LEMMA EntriesEnd ==
  ASSUME NEW events \in Seq(Event), NEW i \in 1..Len(events)
  PROVE  /\ EntryEnd(events, i) \in (i + 1)..(Len(events) + 1)
         /\ \A m \in i..(EntryEnd(events, i) - 1) :
              /\ events[m].kind = events[i].kind
              /\ m > i => events[i].kind \in Groupable
         /\ events[i].kind \in Groupable /\ EntryEnd(events, i) <= Len(events) =>
              events[EntryEnd(events, i)].kind # events[i].kind
<1>1. CASE events[i].kind \in Groupable
  <2>1. EntryEnd(events, i) = RunEnd(events, i)
    BY <1>1 DEF EntryEnd
  <2> QED
    BY <1>1, <2>1, RunsEnd
<1>2. CASE events[i].kind \notin Groupable
  <2>1. EntryEnd(events, i) = i + 1
    BY <1>2 DEF EntryEnd
  <2> QED
    BY <1>2, <2>1
<1> QED
  BY <1>1, <1>2

\* What stands for events is an entry, with the events from its own up to its end.
LEMMA EntryAtType ==
  ASSUME NEW events \in Seq(Event), NEW i \in 1..Len(events)
  PROVE  EntryAt(events, i) \in Entry
<1>1. events[i] \in Event
  OBVIOUS
<1>2. SubSeq(events, i, EntryEnd(events, i) - 1) \in Seq(Event)
  BY EntriesEnd
<1> QED
  BY <1>1, <1>2 DEF EntryAt, Entry, Event

\* The timeline of events is what is made of them from the last one on backwards.
LEMMA TimelineEntryByEntry ==
  ASSUME NEW events \in Seq(Event)
  PROVE  \E from : /\ from \in [1..(Len(events) + 1) -> Seq(Entry)]
                   /\ from[Len(events) + 1] = << >>
                   /\ \A i \in 1..Len(events) :
                        from[i] = <<EntryAt(events, i)>> \o from[EntryEnd(events, i)]
                   /\ Timeline(events) = from[1]
<1> DEFINE N == Len(events)
           S == Seq(Entry)
           next == [i \in 1..N |-> EntryEnd(events, i)]
           step == [p \in (1..N) \X S |-> <<EntryAt(events, p[1])>> \o p[2]]
           from == CHOOSE f : f = [i \in 1..(N + 1) |->
                                     IF i > N THEN << >> ELSE <<EntryAt(events, i)>> \o f[EntryEnd(events, i)]]
<1>0. N \in Nat
  OBVIOUS
<1>1. << >> \in S /\ N \in Nat
  OBVIOUS
<1>2. next \in [1..N -> 1..(N + 1)] /\ \A i \in 1..N : i < next[i]
  BY <1>1, EntriesEnd
<1>3. step \in [(1..N) \X S -> S]
  <2>1. ASSUME NEW p \in (1..N) \X S PROVE <<EntryAt(events, p[1])>> \o p[2] \in S
    <3>1. EntryAt(events, p[1]) \in Entry
      BY EntryAtType
    <3> QED
      BY <3>1
  <2> QED
    BY <2>1
<1>4. PICK f \in [1..(N + 1) -> S] : Downwards(f, N, << >>, step, next)
  <2> HIDE DEF step, N, S, next
  <2> QED
    BY <1>1, <1>2, <1>3, RecursionDown
<1>5. ASSUME NEW i \in 1..(N + 1)
      PROVE  f[i] = IF i > N THEN << >> ELSE <<EntryAt(events, i)>> \o f[EntryEnd(events, i)]
  <2>1. CASE i = N + 1
    BY <1>1, <1>4, <2>1 DEF Downwards
  <2>2. CASE i # N + 1
    <3>1. i \in 1..N /\ next[i] = EntryEnd(events, i) /\ next[i] \in 1..(N + 1)
      BY <1>1, <1>2, <2>2
    <3>2. f[i] = step[<<i, f[next[i]]>>] /\ f[next[i]] \in S
      BY <1>4, <3>1 DEF Downwards
    <3>3. <<i, f[next[i]]>> \in (1..N) \X S
      BY <3>1, <3>2
    <3>4. step[<<i, f[next[i]]>>] = <<EntryAt(events, i)>> \o f[next[i]]
      BY <3>3
    <3> HIDE DEF step, next
    <3> QED
      BY <1>1, <3>1, <3>2, <3>4
  <2> QED
    BY <2>1, <2>2
<1>6. from = [i \in 1..(N + 1) |->
                IF i > N THEN << >> ELSE <<EntryAt(events, i)>> \o from[EntryEnd(events, i)]]
  BY <1>5
<1>7. Timeline(events) = from[1]
  BY DEF Timeline
<1> HIDE DEF from
<1>8. from[N + 1] = << >> /\ \A i \in 1..N : from[i] = <<EntryAt(events, i)>> \o from[EntryEnd(events, i)]
  <2>1. \A i \in 1..(N + 1) : from[i] = IF i > N THEN << >> ELSE <<EntryAt(events, i)>> \o from[EntryEnd(events, i)]
    BY <1>6, Zenon
  <2>2. N + 1 \in 1..(N + 1) /\ N + 1 > N /\ \A i \in 1..N : i \in 1..(N + 1) /\ ~(i > N)
    BY <1>0
  <2> QED
    BY <2>1, <2>2, Zenon
<1>9. \A i \in 1..(N + 1) : from[i] \in S
  <2> DEFINE T == {k \in 0..N : \A i \in (N + 1 - k)..(N + 1) : from[i] \in S}
  <2>1. 0 \in T
    <3>1. \A i \in (N + 1 - 0)..(N + 1) : i = N + 1
      BY <1>1
    <3>2. \A i \in (N + 1 - 0)..(N + 1) : from[i] \in S
      BY <1>1, <1>8, <3>1, Zenon
    <3> QED
      BY <1>1, <3>2
  <2>2. ASSUME NEW k \in 0..(N - 1), k \in T PROVE k + 1 \in T
    <3>1. N - k \in 1..N /\ EntryEnd(events, N - k) \in (N + 1 - k)..(N + 1) /\ N + 1 - (k + 1) = N - k
      BY <1>1, EntriesEnd
    <3>2. from[EntryEnd(events, N - k)] \in S /\ EntryAt(events, N - k) \in Entry
      BY <2>2, <3>1, EntryAtType
    <3>3. \A e \in Entry : \A rest \in S : <<e>> \o rest \in S
      OBVIOUS
    <3>4. from[N - k] \in S
      BY <1>8, <3>1, <3>2, <3>3, Zenon
    <3>5. \A i \in (N + 1 - (k + 1))..(N + 1) : i = N - k \/ i \in (N + 1 - k)..(N + 1)
      BY <1>0
    <3>6. k + 1 \in 0..N
      BY <1>0
    <3> HIDE DEF S, N
    <3> QED
      BY <2>2, <3>4, <3>5, <3>6
  <2> HIDE DEF T
  <2>3. 0..N \subseteq T
    BY <1>1, <2>1, <2>2, InductionUpTo
  <2>4. N \in T /\ N + 1 - N = 1
    BY <1>1, <2>3
  <2> QED
    BY <2>4 DEF T
<1>10. from \in [1..(N + 1) -> S]
  BY <1>6, <1>9
<1> QED
  BY <1>7, <1>8, <1>10

\* Where the entry after the first j - 1 begins.
FirstOf(entries, events, j) == IF j \in DOMAIN entries THEN entries[j].seq ELSE Len(events) + 1

\* The entries are what the events from i on have to be made into.
Covers(entries, events, i) ==
  /\ FirstOf(entries, events, 1) = i
  /\ \A j \in DOMAIN entries :
       /\ entries[j].seq \in i..Len(events) /\ entries[j].kind = events[entries[j].seq].kind
       /\ entries[j].seq < FirstOf(entries, events, j + 1)
       /\ entries[j].items = SubSeq(events, entries[j].seq, FirstOf(entries, events, j + 1) - 1)
       /\ \A m \in DOMAIN entries[j].items :
            /\ entries[j].items[m].kind = entries[j].kind
            /\ m > 1 => entries[j].kind \in Groupable
       /\ j > 1 /\ entries[j].kind \in Groupable => entries[j - 1].kind # entries[j].kind

\* An entry before what covers the events from its end on covers them from its own.
LEMMA OneMoreEntry ==
  ASSUME NEW events \in Seq(Event), \A i \in 1..Len(events) : events[i].seq = i, NEW i \in 1..Len(events),
         NEW entries \in Seq(Entry), Covers(entries, events, EntryEnd(events, i))
  PROVE  Covers(<<EntryAt(events, i)>> \o entries, events, i)
<1> DEFINE N == Len(events)
           L == Len(entries)
           e == EntryAt(events, i)
           last == EntryEnd(events, i) - 1
           more == <<e>> \o entries
<1>0. N \in Nat /\ L \in Nat /\ DOMAIN entries = 1..L /\ i \in 1..N
  OBVIOUS
<1>1. last \in i..N /\ last + 1 = EntryEnd(events, i)
  BY <1>0, EntriesEnd
<1>2. /\ \A m \in i..last : events[m].kind = events[i].kind /\ (m > i => events[i].kind \in Groupable)
      /\ events[i].kind \in Groupable /\ last + 1 <= N => events[last + 1].kind # events[i].kind
  BY <1>1, EntriesEnd
<1>3. /\ e \in Entry /\ e.seq = i /\ e.kind = events[i].kind /\ e.items = SubSeq(events, i, last)
  BY EntryAtType DEF EntryAt
<1>4. /\ DOMAIN more = 1..(L + 1) /\ more[1] = e
      /\ \A j \in 1..L : more[j + 1] = entries[j]
  BY <1>0, <1>3
<1> HIDE DEF e, more, last
<1>5. FirstOf(more, events, 1) = i
  BY <1>0, <1>3, <1>4 DEF FirstOf
<1>6. ASSUME NEW j \in 1..(L + 1) PROVE FirstOf(more, events, j + 1) = FirstOf(entries, events, j)
  <2>1. CASE j = L + 1
    BY <1>0, <1>4, <2>1 DEF FirstOf
  <2>2. CASE j # L + 1
    <3>1. j \in 1..L /\ j + 1 \in 1..(L + 1)
      BY <1>0, <2>2
    <3> QED
      BY <1>0, <1>4, <3>1 DEF FirstOf
  <2> QED
    BY <2>1, <2>2
<1>7. FirstOf(more, events, 2) = last + 1
  <2>1. FirstOf(more, events, 1 + 1) = FirstOf(entries, events, 1)
    BY <1>0, <1>6
  <2> QED
    BY <1>1, <2>1 DEF Covers
<1>8. /\ e.seq \in i..N /\ e.kind = events[e.seq].kind /\ e.seq < FirstOf(more, events, 2)
      /\ e.items = SubSeq(events, e.seq, FirstOf(more, events, 2) - 1)
  BY <1>0, <1>1, <1>3, <1>7
<1>9. ASSUME NEW m \in DOMAIN e.items PROVE e.items[m].kind = e.kind /\ (m > 1 => e.kind \in Groupable)
  <2>1. m \in 1..(last + 1 - i) /\ e.items[m] = events[i + m - 1]
    BY <1>0, <1>1, <1>3
  <2>2. i + m - 1 \in i..last /\ (m > 1 => i + m - 1 > i)
    BY <1>0, <1>1, <2>1
  <2> QED
    BY <1>3, <1>2, <2>1, <2>2
<1>10. ASSUME NEW j \in 1..L
      PROVE  /\ more[j + 1].seq \in i..N /\ more[j + 1].kind = events[more[j + 1].seq].kind
             /\ more[j + 1].seq < FirstOf(more, events, j + 1 + 1)
             /\ more[j + 1].items = SubSeq(events, more[j + 1].seq, FirstOf(more, events, j + 1 + 1) - 1)
             /\ \A m \in DOMAIN more[j + 1].items :
                  /\ more[j + 1].items[m].kind = more[j + 1].kind
                  /\ m > 1 => more[j + 1].kind \in Groupable
  <2>1. j + 1 \in 1..(L + 1) /\ more[j + 1] = entries[j] /\ j \in DOMAIN entries
    BY <1>0, <1>4
  <2>2. FirstOf(more, events, j + 1 + 1) = FirstOf(entries, events, j + 1)
    BY <1>6, <2>1
  <2>3. entries[j].seq \in i..N
    BY <1>0, <1>1, <2>1 DEF Covers
  <2> QED
    BY <2>1, <2>2, <2>3 DEF Covers
<1>11. ASSUME NEW j \in 1..L, more[j + 1].kind \in Groupable PROVE more[j].kind # more[j + 1].kind
  <2>1. CASE j = 1
    <3>1. 1 \in DOMAIN entries /\ more[1 + 1] = entries[1] /\ more[1] = e
      BY <1>0, <1>4, <2>1
    <3>2. entries[1].seq = last + 1 /\ entries[1].seq \in 1..N /\ entries[1].kind = events[last + 1].kind
      BY <1>0, <1>1, <3>1 DEF Covers, FirstOf
    <3>3. events[i].kind \in Groupable => events[last + 1].kind # events[i].kind
      BY <1>0, <1>2, <3>2
    <3> QED
      BY <1>3, <1>11, <2>1, <3>1, <3>2, <3>3
  <2>2. CASE j # 1
    <3>1. j - 1 \in 1..L /\ j \in DOMAIN entries /\ j > 1 /\ (j - 1) + 1 = j
      BY <1>0, <2>2
    <3>2. more[j] = entries[j - 1] /\ more[j + 1] = entries[j]
      BY <1>4, <3>1
    <3> QED
      BY <1>11, <3>1, <3>2 DEF Covers
  <2> QED
    BY <2>1, <2>2
<1>12. ASSUME NEW j \in DOMAIN more
       PROVE  /\ more[j].seq \in i..N /\ more[j].kind = events[more[j].seq].kind
              /\ more[j].seq < FirstOf(more, events, j + 1)
              /\ more[j].items = SubSeq(events, more[j].seq, FirstOf(more, events, j + 1) - 1)
              /\ \A m \in DOMAIN more[j].items :
                   /\ more[j].items[m].kind = more[j].kind
                   /\ m > 1 => more[j].kind \in Groupable
              /\ j > 1 /\ more[j].kind \in Groupable => more[j - 1].kind # more[j].kind
  <2>1. CASE j = 1
    <3>1. j + 1 = 2 /\ more[j] = e /\ ~(j > 1)
      BY <1>4, <2>1
    <3> QED
      BY <1>8, <1>9, <3>1, Zenon
  <2>2. CASE j # 1
    <3>1. j - 1 \in 1..L /\ (j - 1) + 1 = j
      BY <1>0, <1>4, <2>2
    <3>2. more[j].kind \in Groupable => more[j - 1].kind # more[j].kind
      BY <1>11, <3>1
    <3>3. /\ more[j].seq \in i..N /\ more[j].kind = events[more[j].seq].kind
          /\ more[j].seq < FirstOf(more, events, j + 1)
          /\ more[j].items = SubSeq(events, more[j].seq, FirstOf(more, events, j + 1) - 1)
          /\ \A m \in DOMAIN more[j].items :
               /\ more[j].items[m].kind = more[j].kind
               /\ m > 1 => more[j].kind \in Groupable
      <4> DEFINE h == j - 1
      <4>1. h \in 1..L /\ h + 1 = j
        BY <3>1
      <4> HIDE DEF h
      <4> QED
        BY <1>10, <4>1
    <3> QED
      BY <3>2, <3>3, Zenon
  <2> QED
    BY <2>1, <2>2
<1>13. Covers(more, events, i)
  BY <1>5, <1>12 DEF Covers
<1> QED
  BY <1>13 DEF more, e

\* The timeline of numbered events is faithful to them.
LEMMA TimelinesCover ==
  ASSUME NEW events \in Seq(Event), \A i \in 1..Len(events) : events[i].seq = i
  PROVE  Timeline(events) \in Seq(Entry) /\ Covers(Timeline(events), events, 1)
<1> DEFINE N == Len(events)
<1>0. N \in Nat
  OBVIOUS
<1>1. PICK from : /\ from \in [1..(N + 1) -> Seq(Entry)]
                  /\ from[N + 1] = << >>
                  /\ \A i \in 1..N : from[i] = <<EntryAt(events, i)>> \o from[EntryEnd(events, i)]
                  /\ Timeline(events) = from[1]
  BY TimelineEntryByEntry
<1> DEFINE T == {k \in 0..N : \A i \in (N + 1 - k)..(N + 1) : Covers(from[i], events, i)}
<1>2. 0 \in T
  <2>1. Covers(<< >>, events, N + 1)
    BY DEF Covers, FirstOf
  <2>2. \A i \in (N + 1 - 0)..(N + 1) : i = N + 1
    BY <1>0
  <2>3. \A i \in (N + 1 - 0)..(N + 1) : Covers(from[i], events, i)
    BY <1>1, <2>1, <2>2, Zenon
  <2> QED
    BY <1>0, <2>3
<1>3. ASSUME NEW k \in 0..(N - 1), k \in T PROVE k + 1 \in T
  <2>1. N - k \in 1..N /\ EntryEnd(events, N - k) \in (N + 1 - k)..(N + 1) /\ N + 1 - (k + 1) = N - k
    BY <1>0, EntriesEnd
  <2>2. Covers(from[EntryEnd(events, N - k)], events, EntryEnd(events, N - k))
    BY <1>3, <2>1
  <2>3. from[EntryEnd(events, N - k)] \in Seq(Entry)
    BY <1>0, <1>1, <2>1
  <2>4. Covers(from[N - k], events, N - k)
    BY <1>1, <2>1, <2>2, <2>3, OneMoreEntry
  <2>5. \A i \in (N + 1 - (k + 1))..(N + 1) : i = N - k \/ i \in (N + 1 - k)..(N + 1)
    BY <1>0, <2>1
  <2> QED
    BY <1>0, <1>3, <2>4, <2>5
<1> HIDE DEF T
<1>4. 0..N \subseteq T
  BY <1>0, <1>2, <1>3, InductionUpTo
<1>5. N \in T /\ N + 1 - N = 1 /\ 1 \in 1..(N + 1)
  BY <1>0, <1>4
<1> QED
  BY <1>1, <1>5 DEF T

\* The timeline of any text's events has every event once and in order, in an entry
\* with the number of its first event and of its kind, and collapses what can be.
THEOREM TimelineOfText ==
  ASSUME NEW text \in Seq(Line)
  PROVE  Faithful(Timeline(Events(text)), Events(text))
<1> DEFINE events == Events(text)
           entries == Timeline(events)
<1>1. events \in Seq(Event) /\ \A i \in 1..Len(events) : events[i].seq = i
  <2>1. events \in Seq(Event) /\ \E at : Feeds(at, events, text, Len(text))
    BY FeedIsComplete
  <2> HIDE DEF events
  <2>2. PICK at : Feeds(at, events, text, Len(text))
    BY <2>1
  <2>3. ASSUME NEW i \in 1..Len(events) PROVE events[i].seq = i
    <3>1. events[i] = [seq |-> i, kind |-> KindOf(text[at[i]]), line |-> text[at[i]]]
      BY <2>2 DEF Feeds
    <3> QED
      BY <3>1
  <2> QED
    BY <2>1, <2>3
<1>2. entries \in Seq(Entry) /\ Covers(entries, events, 1)
  <2> HIDE DEF events
  <2> QED
    BY <1>1, TimelinesCover
<1> HIDE DEF events, entries
<1>3. Faithful(entries, events)
  BY <1>2 DEF Covers, FirstOf, Faithful
<1> QED
  BY <1>3 DEF events, entries

------------------------------------------------------------------------------
(* Faithful says all there is to say of a timeline: events have only one.  *)

\* The entries lie one behind the other among the events.
LEMMA EntriesLieWithin ==
  ASSUME NEW events, Len(events) \in Nat, NEW entries \in Seq(Entry), Faithful(entries, events)
  PROVE  /\ \A j \in 1..(Len(entries) + 1) : FirstOf(entries, events, j) \in 1..(Len(events) + 1)
         /\ \A j \in DOMAIN entries :
              entries[j].seq \in 1..Len(events) /\ entries[j].seq < FirstOf(entries, events, j + 1)
<1> DEFINE N == Len(events)
           L == Len(entries)
           first == [j \in 1..(L + 1) |-> FirstOf(entries, events, j)]
<1>1. N \in Nat /\ L \in Nat /\ DOMAIN entries = 1..L
  OBVIOUS
<1>2. \A j \in 1..L : entries[j].seq \in Nat
  <2>1. \A j \in 1..L : entries[j] \in Entry
    BY <1>1
  <2> QED
    BY <2>1 DEF Entry
<1>3. first[1] = 1 /\ first[L + 1] = N + 1 /\ \A j \in 1..(L + 1) : first[j] \in Nat
  BY <1>1, <1>2 DEF FirstOf, Faithful
<1>4. \A j \in 1..L : first[j] = entries[j].seq /\ first[j] < first[j + 1]
  <2> SUFFICES ASSUME NEW j \in 1..L PROVE first[j] = entries[j].seq /\ first[j] < first[j + 1]
    OBVIOUS
  <2>1. j \in 1..(L + 1) /\ j + 1 \in 1..(L + 1) /\ j \in DOMAIN entries
    BY <1>1
  <2>2. first[j] = FirstOf(entries, events, j) /\ first[j + 1] = FirstOf(entries, events, j + 1)
    BY <2>1
  <2>3. entries[j].seq < FirstOf(entries, events, j + 1)
    BY <2>1 DEF Faithful, FirstOf
  <2> QED
    BY <2>1, <2>2, <2>3 DEF FirstOf
<1> HIDE DEF first
<1>5. \A j \in 1..(L + 1) : 1 <= first[j]
  <2> DEFINE T == {k \in 0..L : 1 <= first[k + 1]}
  <2>1. 0 \in T
    BY <1>1, <1>3
  <2>2. ASSUME NEW k \in 0..(L - 1), k \in T PROVE k + 1 \in T
    <3>1. k + 1 \in 1..L /\ k + 1 \in 1..(L + 1) /\ (k + 1) + 1 \in 1..(L + 1)
      BY <1>1
    <3> QED
      BY <1>1, <1>3, <1>4, <2>2, <3>1
  <2> HIDE DEF T
  <2>3. 0..L \subseteq T
    BY <1>1, <2>1, <2>2, InductionUpTo
  <2>4. \A j \in 1..(L + 1) : j - 1 \in T /\ (j - 1) + 1 = j
    BY <1>1, <2>3
  <2> QED
    BY <2>4 DEF T
<1>6. \A j \in 1..(L + 1) : first[j] <= N + 1
  <2> DEFINE T == {k \in 0..L : first[L + 1 - k] <= N + 1}
  <2>1. 0 \in T
    BY <1>1, <1>3
  <2>2. ASSUME NEW k \in 0..(L - 1), k \in T PROVE k + 1 \in T
    <3>1. L - k \in 1..L /\ (L - k) + 1 = L + 1 - k /\ L + 1 - (k + 1) = L - k
      <4> HIDE DEF L
      <4> QED
        BY <1>1
    <3>2. first[L - k] < first[L + 1 - k] /\ first[L - k] \in Nat /\ first[L + 1 - k] \in Nat
      BY <1>1, <1>3, <1>4, <3>1
    <3> QED
      BY <1>1, <2>2, <3>1, <3>2
  <2> HIDE DEF T
  <2>3. 0..L \subseteq T
    BY <1>1, <2>1, <2>2, InductionUpTo
  <2>4. \A j \in 1..(L + 1) : L + 1 - j \in T /\ L + 1 - (L + 1 - j) = j
    BY <1>1, <2>3
  <2> QED
    BY <2>4 DEF T
<1>7. \A j \in 1..(L + 1) : first[j] \in 1..(N + 1)
  BY <1>1, <1>3, <1>5, <1>6
<1>8. \A j \in 1..L : first[j] \in 1..N
  <2> SUFFICES ASSUME NEW j \in 1..L PROVE first[j] \in 1..N
    OBVIOUS
  <2>1. j \in 1..(L + 1) /\ j + 1 \in 1..(L + 1)
    BY <1>1
  <2> QED
    BY <1>1, <1>4, <1>7, <2>1
<1>9. \A j \in 1..(L + 1) : first[j] = FirstOf(entries, events, j)
  BY DEF first
<1>10. \A j \in 1..L : j + 1 \in 1..(L + 1)
  BY <1>1
<1> QED
  BY <1>1, <1>4, <1>7, <1>8, <1>9, <1>10

\* The events of an entry are of its kind, and more than one only if that is groupable.
LEMMA KindsOfAnEntry ==
  ASSUME NEW events \in Seq(Event), NEW entries \in Seq(Entry), Faithful(entries, events),
         NEW j \in DOMAIN entries, NEW m \in entries[j].seq..(FirstOf(entries, events, j + 1) - 1)
  PROVE  events[m].kind = entries[j].kind /\ (m > entries[j].seq => entries[j].kind \in Groupable)
<1> DEFINE s == entries[j].seq
           n == FirstOf(entries, events, j + 1)
           i == m - s + 1
<1>1. s \in 1..Len(events) /\ n \in 1..(Len(events) + 1) /\ s < n
  <2>1. j + 1 \in 1..(Len(entries) + 1)
    OBVIOUS
  <2> QED
    BY <2>1, EntriesLieWithin
<1>2. entries[j].items = SubSeq(events, s, n - 1)
  BY DEF Faithful, FirstOf
<1>3. i \in DOMAIN entries[j].items /\ entries[j].items[i] = events[m] /\ (m > s => i > 1)
  <2>1. s \in Nat /\ n \in Nat /\ m \in s..(n - 1)
    BY <1>1
  <2> HIDE DEF s, n
  <2>2. i \in 1..(n - s) /\ s + i - 1 = m /\ (m > s => i > 1) /\ (n - 1) - s + 1 = n - s
    BY <2>1
  <2>3. n - 1 \in 0..Len(events) /\ s \in 1..Len(events)
    BY <1>1, <2>1
  <2>4. \A h \in 1..(n - s) : h \in DOMAIN SubSeq(events, s, n - 1) /\ SubSeq(events, s, n - 1)[h] = events[s + h - 1]
    BY <2>1, <2>3
  <2> QED
    BY <1>2, <2>2, <2>4
<1> HIDE DEF i
<1> QED
  BY <1>3 DEF Faithful

\* Of two entries that begin with the same event, neither ends before the other:
\* what would follow the shorter one is of its kind.
LEMMA NoneEndsBefore ==
  ASSUME NEW events \in Seq(Event), NEW entries \in Seq(Entry), NEW others \in Seq(Entry),
         Faithful(entries, events), Faithful(others, events),
         NEW j \in DOMAIN entries, j \in DOMAIN others, entries[j].seq = others[j].seq
  PROVE  ~(FirstOf(entries, events, j + 1) < FirstOf(others, events, j + 1))
<1> DEFINE s == entries[j].seq
           n == FirstOf(entries, events, j + 1)
           m == FirstOf(others, events, j + 1)
<1> SUFFICES ASSUME n < m PROVE FALSE
  OBVIOUS
<1>1. s \in 1..Len(events) /\ n \in 1..(Len(events) + 1) /\ m \in 1..(Len(events) + 1) /\ s < n
  <2>1. j + 1 \in 1..(Len(entries) + 1) /\ j + 1 \in 1..(Len(others) + 1) /\ Len(events) \in Nat
    OBVIOUS
  <2> QED
    BY <2>1, EntriesLieWithin
<1>2. j + 1 \in DOMAIN entries /\ entries[j + 1].seq = n
  BY <1>1 DEF FirstOf
<1>3. n < FirstOf(entries, events, j + 1 + 1) /\ FirstOf(entries, events, j + 1 + 1) \in Nat
  <2>1. j + 1 + 1 \in 1..(Len(entries) + 1)
    BY <1>2
  <2> QED
    BY <1>2, <2>1, EntriesLieWithin
<1>4. events[s].kind = entries[j].kind
  <2>1. s \in s..(n - 1)
    BY <1>1
  <2> QED
    BY <2>1, KindsOfAnEntry
<1>5. events[s].kind = others[j].kind /\ events[n].kind = others[j].kind /\ others[j].kind \in Groupable
  <2>1. s \in others[j].seq..(m - 1) /\ n \in others[j].seq..(m - 1) /\ n > others[j].seq
    BY <1>1
  <2> QED
    BY <2>1, KindsOfAnEntry
<1>6. events[n].kind = entries[j + 1].kind
  <2>1. n \in entries[j + 1].seq..(FirstOf(entries, events, j + 1 + 1) - 1)
    BY <1>1, <1>2, <1>3
  <2> QED
    BY <1>2, <2>1, KindsOfAnEntry
<1>7. entries[j + 1].kind \in Groupable => entries[j].kind # entries[j + 1].kind
  <2>1. j + 1 > 1 /\ (j + 1) - 1 = j
    OBVIOUS
  <2> QED
    BY <1>2, <2>1 DEF Faithful
<1> QED
  BY <1>4, <1>5, <1>6, <1>7

\* _group_timeline has no choice: two timelines that keep every event once and in
\* order, mix no kinds and leave nothing uncollapsed are the same.
THEOREM OneFaithfulTimeline ==
  ASSUME NEW events \in Seq(Event), NEW entries \in Seq(Entry), NEW others \in Seq(Entry),
         Faithful(entries, events), Faithful(others, events)
  PROVE  entries = others
<1> DEFINE N == Len(events)
           L == Len(entries)
           M == Len(others)
           T == {k \in 0..L : /\ k <= M
                              /\ FirstOf(entries, events, k + 1) = FirstOf(others, events, k + 1)
                              /\ \A j \in 1..k : entries[j] = others[j]}
<1>1. N \in Nat /\ L \in Nat /\ M \in Nat /\ DOMAIN entries = 1..L /\ DOMAIN others = 1..M
  OBVIOUS
<1>2. 0 \in T
  BY <1>1 DEF Faithful, FirstOf
<1>3. ASSUME NEW k \in 0..(L - 1), k \in T PROVE k + 1 \in T
  <2>1. k + 1 \in DOMAIN entries /\ entries[k + 1].seq \in 1..N
    BY <1>1, EntriesLieWithin
  <2>2. k + 1 \in DOMAIN others /\ others[k + 1].seq = entries[k + 1].seq
    <3>1. FirstOf(entries, events, k + 1) = entries[k + 1].seq
      BY <2>1 DEF FirstOf
    <3>2. FirstOf(others, events, k + 1) \in 1..N
      BY <1>3, <2>1, <3>1
    <3> QED
      BY <1>1, <3>1, <3>2, <1>3 DEF FirstOf
  <2>3. FirstOf(entries, events, k + 1 + 1) = FirstOf(others, events, k + 1 + 1)
    <3>1. k + 1 + 1 \in 1..(L + 1) /\ k + 1 + 1 \in 1..(M + 1)
      BY <1>1, <2>1, <2>2
    <3>2. FirstOf(entries, events, k + 1 + 1) \in Nat /\ FirstOf(others, events, k + 1 + 1) \in Nat
      BY <1>1, <3>1, EntriesLieWithin
    <3>3. /\ ~(FirstOf(entries, events, k + 1 + 1) < FirstOf(others, events, k + 1 + 1))
          /\ ~(FirstOf(others, events, k + 1 + 1) < FirstOf(entries, events, k + 1 + 1))
      BY <2>1, <2>2, NoneEndsBefore
    <3> QED
      BY <3>2, <3>3
  <2>4. entries[k + 1] = others[k + 1]
    <3>1. entries[k + 1].items = others[k + 1].items
      <4>1. entries[k + 1].items = SubSeq(events, entries[k + 1].seq, FirstOf(entries, events, k + 1 + 1) - 1)
        BY <2>1 DEF Faithful, FirstOf
      <4>2. others[k + 1].items = SubSeq(events, others[k + 1].seq, FirstOf(others, events, k + 1 + 1) - 1)
        BY <2>2 DEF Faithful, FirstOf
      <4> QED
        BY <2>2, <2>3, <4>1, <4>2
    <3>2. entries[k + 1].kind = others[k + 1].kind
      <4>1. /\ entries[k + 1].seq < FirstOf(entries, events, k + 1 + 1)
            /\ FirstOf(entries, events, k + 1 + 1) \in Nat
        <5>1. k + 1 + 1 \in 1..(L + 1)
          BY <1>1
        <5> QED
          BY <1>1, <2>1, <5>1, EntriesLieWithin
      <4>2. entries[k + 1].seq \in entries[k + 1].seq..(FirstOf(entries, events, k + 1 + 1) - 1)
        BY <1>1, <2>1, <4>1
      <4> QED
        BY <2>1, <2>2, <2>3, <4>2, KindsOfAnEntry
    <3>3. entries[k + 1] \in Entry /\ others[k + 1] \in Entry
      BY <2>1, <2>2
    <3>4. \A e \in Entry : e = [seq |-> e.seq, kind |-> e.kind, items |-> e.items]
      BY DEF Entry
    <3> QED
      BY <2>2, <3>1, <3>2, <3>3, <3>4
  <2>5. \A j \in 1..(k + 1) : j = k + 1 \/ j \in 1..k
    BY <1>1
  <2>6. k + 1 \in 0..L /\ k + 1 <= M
    BY <1>1, <2>1, <2>2
  <2> HIDE DEF N, L, M
  <2> QED
    BY <1>3, <2>3, <2>4, <2>5, <2>6
<1> HIDE DEF T
<1>4. L \in T
  <2> HIDE DEF L
  <2>1. 0..L \subseteq T
    BY <1>1, <1>2, <1>3, InductionUpTo
  <2> QED
    BY <1>1, <2>1
<1>5. L <= M /\ FirstOf(others, events, L + 1) = N + 1 /\ \A j \in 1..L : entries[j] = others[j]
  BY <1>1, <1>4 DEF T, FirstOf
<1>6. L = M
  <2> SUFFICES ASSUME L + 1 \in DOMAIN others PROVE FALSE
    <3> HIDE DEF L, M, N
    <3> QED
      BY <1>1, <1>5
  <2>1. others[L + 1].seq \in 1..N
    BY <1>1, EntriesLieWithin
  <2> QED
    BY <1>1, <1>5, <2>1 DEF FirstOf
<1> QED
  BY <1>1, <1>5, <1>6
==============================================================================
