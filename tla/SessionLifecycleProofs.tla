----------------------- MODULE SessionLifecycleProofs -----------------------
(***************************************************************************)
(* What holds of SessionLifecycle for any number of sessions, agents,      *)
(* threads, turns and failures.                                            *)
(***************************************************************************)
EXTENDS SessionLifecycleProperties, TLAPS

(***************************************************************************)
(* The inductive invariant.  The five parts the properties name need two   *)
(* more facts: every segment lies within the generations that completed,   *)
(* and generations count the turns since the entry was made.               *)
(***************************************************************************)
Bounded(e) ==
    \A i \in 1..Len(e.segments) :
        1 <= e.segments[i].start /\ e.segments[i].end <= e.generation

Serial(s) ==
    /\ \A t, u \in Calls(s) : t = u
    /\ entries[s].inFlight <=> Calls(s) # {}

\* The call of thread t is for the first segment, and began when its turns were complete.
Captures(s, t) ==
    LET segs == entries[s].segments IN
    /\ Len(segs) > 0
    /\ segs[1].end = call[t].captured
    /\ segs[1].agent = call[t].agent
    /\ base[s] + call[t].captured <= call[t].seen
    /\ call[t].seen <= Len(turns[s])

Counted(s) == entries[s].present => base[s] + entries[s].generation = Len(turns[s])

Owned(s) ==
    \A i \in 1..Len(entries[s].segments) :
        \A g \in entries[s].segments[i].start..entries[s].segments[i].end :
            turns[s][base[s] + g] \in {entries[s].segments[i].agent, NoAgent}

Intact(s) ==
    /\ IsCut(entries[s]) /\ Bounded(entries[s])
    /\ Serial(s)
    /\ \A t \in Calls(s) : Captures(s, t)
    /\ Counted(s)
    /\ Owned(s)
    /\ 1..Settled(s) \subseteq extracted[s]

Inv == TypeOK /\ \A s \in Sessions : Intact(s)

\* The fields of an entry, and of its segments, have their types.
LEMMA SegmentsType ==
    ASSUME NEW e \in Entry
    PROVE  /\ e.segments \in Seq(Segment) /\ Len(e.segments) \in Nat
           /\ e.committed \in Nat /\ e.generation \in Nat
           /\ \A i \in 1..Len(e.segments) :
                 /\ e.segments[i] \in Segment
                 /\ e.segments[i].start \in Nat /\ e.segments[i].end \in Nat
                 /\ e.segments[i].agent \in Handles
<1>1. e.segments \in Seq(Segment) /\ e.committed \in Nat /\ e.generation \in Nat
    BY DEF Entry
<1>2. \A i \in 1..Len(e.segments) : e.segments[i] \in Segment
    BY <1>1
<1> QED BY <1>1, <1>2 DEF Segment

(***************************************************************************)
(* The first segment of a cut is the first that is not committed, and once *)
(* it is committed the second is.                                          *)
(***************************************************************************)
LEMMA CutStarts ==
    ASSUME NEW e \in Entry, IsCut(e)
    PROVE  FirstBeyond(e.segments, e.committed) = 1
<1> DEFINE segs == e.segments
           n == Len(segs)
           First(i) == /\ \A j \in 1..(i - 1) : segs[j].end <= e.committed
                       /\ i <= n => segs[i].end > e.committed
<1>1. /\ n \in Nat /\ e.committed \in Nat
      /\ \A i \in 1..n : segs[i].start \in Nat /\ segs[i].end \in Nat
    BY SegmentsType
<1>2. n > 0 => segs[1].end > e.committed
    <2> SUFFICES ASSUME n > 0 PROVE segs[1].end > e.committed
        OBVIOUS
    <2>1. 1 \in 1..n
        BY <1>1
    <2>2. segs[1].start = e.committed + 1 /\ segs[1].start <= segs[1].end
        BY <2>1 DEF IsCut
    <2> QED BY <1>1, <2>1, <2>2
<1>3. 1 \in 1..(n + 1) /\ First(1)
    BY <1>1, <1>2
<1>4. \A i \in 1..(n + 1) : First(i) => i = 1
    <2> SUFFICES ASSUME NEW i \in 1..(n + 1), First(i), i # 1 PROVE FALSE
        OBVIOUS
    <2>1. 1 \in 1..(i - 1) /\ n > 0
        BY <1>1
    <2>2. segs[1].end <= e.committed
        BY <2>1
    <2>3. 1 \in 1..n
        BY <1>1, <2>1
    <2> QED BY <1>1, <1>2, <2>1, <2>2, <2>3
<1>5. FirstBeyond(segs, e.committed) = CHOOSE i \in 1..(n + 1) : First(i)
    BY DEF FirstBeyond
<1> HIDE DEF First
<1> QED BY <1>3, <1>4, <1>5

\* Past the end of the first segment of a cut comes the second.
LEMMA CutGoesOn ==
    ASSUME NEW e \in Entry, IsCut(e), Len(e.segments) > 0
    PROVE  FirstBeyond(e.segments, e.segments[1].end) = 2
<1> DEFINE segs == e.segments
           n == Len(segs)
           c == segs[1].end
           First(i) == /\ \A j \in 1..(i - 1) : segs[j].end <= c
                       /\ i <= n => segs[i].end > c
<1>1. /\ n \in Nat /\ c \in Nat
      /\ \A i \in 1..n : segs[i].start \in Nat /\ segs[i].end \in Nat
    <2>1. n \in Nat /\ 1 \in 1..n
        BY SegmentsType
    <2> QED BY <2>1, SegmentsType
<1>2. n > 1 => segs[2].end > c
    <2> SUFFICES ASSUME n > 1 PROVE segs[2].end > c
        OBVIOUS
    <2>1. 1 \in 1..(n - 1) /\ 2 \in 1..n
        BY <1>1
    <2>2. segs[1 + 1].start = c + 1 /\ segs[2].start <= segs[2].end
        BY <2>1 DEF IsCut
    <2> QED BY <1>1, <2>1, <2>2
<1>3. 2 \in 1..(n + 1) /\ First(2)
    BY <1>1, <1>2
<1>4. \A i \in 1..(n + 1) : First(i) => i = 2
    <2> SUFFICES ASSUME NEW i \in 1..(n + 1), First(i), i # 2 PROVE FALSE
        OBVIOUS
    <2>1. CASE i = 1
        BY <1>1, <2>1
    <2>2. CASE i > 2
        <3>1. 2 \in 1..(i - 1) /\ n > 1
            BY <1>1, <2>2
        <3>2. segs[2].end <= c
            BY <3>1
        <3>3. 2 \in 1..n
            BY <1>1, <3>1
        <3> QED BY <1>1, <1>2, <3>1, <3>2, <3>3
    <2> QED BY <1>1, <2>1, <2>2
<1>5. FirstBeyond(segs, c) = CHOOSE i \in 1..(n + 1) : First(i)
    BY DEF FirstBeyond
<1> HIDE DEF First
<1> QED BY <1>3, <1>4, <1>5

\* Committing the first segment takes it off and leaves the others as they are.
LEMMA DropFirst ==
    ASSUME NEW e \in Entry, IsCut(e), Len(e.segments) > 0
    PROVE  LET rest == DropCommitted(e.segments, e.segments[1].end) IN
           /\ rest \in Seq(Segment)
           /\ Len(rest) = Len(e.segments) - 1
           /\ \A i \in 1..(Len(e.segments) - 1) : rest[i] = e.segments[i + 1]
<1> DEFINE segs == e.segments
           n == Len(segs)
           c == segs[1].end
           left == SubSeq(segs, 2, n)
           rest == DropCommitted(segs, c)
<1>1. segs \in Seq(Segment) /\ n \in Nat
    BY SegmentsType
<1>2. left \in Seq(Segment) /\ Len(left) = n - 1 /\ \A i \in 1..(n - 1) : left[i] = segs[i + 1]
    BY <1>1
<1>3. rest = [i \in 1..(n - 1) |-> IF i = 1 THEN TrimStart(left[1], c) ELSE left[i]]
    BY <1>2, CutGoesOn DEF DropCommitted
<1>4. n > 1 => TrimStart(left[1], c) = left[1]
    <2> SUFFICES ASSUME n > 1 PROVE TrimStart(left[1], c) = left[1]
        OBVIOUS
    <2>1. 1 \in 1..(n - 1) /\ 2 \in 1..n /\ 1 \in 1..n
        BY <1>1
    <2>2. left[1] = segs[1 + 1] /\ segs[1 + 1].start = c + 1
        BY <1>2, <2>1 DEF IsCut
    <2>3. c \in Nat
        BY <2>1, SegmentsType
    <2> QED BY <2>2, <2>3 DEF TrimStart
<1>5. rest = [i \in 1..(n - 1) |-> left[i]]
    <2>1. \A i \in 1..(n - 1) : (IF i = 1 THEN TrimStart(left[1], c) ELSE left[i]) = left[i]
        BY <1>1, <1>4
    <2> HIDE DEF left, rest, n, c
    <2> QED BY <1>3, <2>1
<1>6. \A i \in 1..(n - 1) : left[i] \in Segment
    BY <1>1, <1>2
<1>7. rest \in Seq(Segment) /\ Len(rest) = n - 1
    <2> HIDE DEF left, rest, c
    <2> QED BY <1>1, <1>5, <1>6
<1> QED BY <1>2, <1>5, <1>7

(***************************************************************************)
(* A completed turn: the last segment grows, or a new one follows it.      *)
(***************************************************************************)
Grow(e, owner) ==
    [e EXCEPT !.agent = owner, !.generation = e.generation + 1,
              !.segments = AddGeneration(e, e.generation + 1, owner)]

\* A turn that completes extends the last segment of its entry or opens a new one:
\* the cut stays whole, and no turn changes its owner.
LEMMA GrownCut ==
    ASSUME NEW e \in Entry, IsCut(e), Bounded(e), NEW owner \in Handles
    PROVE  LET f == Grow(e, owner)
               n == Len(e.segments)
           IN  /\ f \in Entry /\ IsCut(f) /\ Bounded(f)
               /\ \A i \in 1..Len(f.segments) :
                     \A g \in f.segments[i].start..f.segments[i].end :
                        \/ g = f.generation /\ f.segments[i].agent = owner
                        \/ /\ i \in 1..n
                           /\ g \in e.segments[i].start..e.segments[i].end
                           /\ f.segments[i].agent = e.segments[i].agent
               /\ e.inFlight /\ n > 0 => Len(f.segments) > 0 /\ f.segments[1] = e.segments[1]
<1> DEFINE f == Grow(e, owner)
           segs == e.segments
           n == Len(segs)
           g1 == e.generation + 1
           more == f.segments
<1>1. /\ segs \in Seq(Segment) /\ n \in Nat /\ e.committed \in Nat /\ e.generation \in Nat
      /\ \A i \in 1..n : /\ segs[i] \in Segment
                         /\ segs[i].start \in Nat /\ segs[i].end \in Nat
                         /\ segs[i].agent \in Handles
    BY SegmentsType
<1>2. /\ f.generation = g1 /\ f.committed = e.committed /\ f.segments = AddGeneration(e, g1, owner)
      /\ g1 \in Nat /\ Dirty(f)
    <2>1. f.generation = g1 /\ f.committed = e.committed /\ f.segments = AddGeneration(e, g1, owner)
        BY DEF Grow, Entry
    <2> QED BY <1>1, <2>1 DEF Dirty, IsCut
<1>3. more \in Seq(Segment) => f \in Entry
    BY <1>1, <1>2 DEF Grow, Entry
<1>4. CASE n > 0 /\ ~e.inFlight /\ segs[n].agent = owner
    <2>1. more = [segs EXCEPT ![n].end = g1]
        BY <1>2, <1>4 DEF AddGeneration
    <2>2. n \in 1..n
        BY <1>1, <1>4
    <2>3. /\ more \in Seq(Segment) /\ Len(more) = n
          /\ \A i \in 1..n : i # n => more[i] = segs[i]
          /\ more[n] = [segs[n] EXCEPT !.end = g1]
        <3>1. [segs[n] EXCEPT !.end = g1] \in Segment
            BY <1>1, <1>2, <2>2 DEF Segment
        <3>2. DOMAIN segs = 1..n
            BY <1>1
        <3> DEFINE last == [segs[n] EXCEPT !.end = g1]
        <3>3. more = [segs EXCEPT ![n] = last]
            BY <2>1
        <3> HIDE DEF segs, n, g1, more, last
        <3>4. more = [i \in 1..n |-> IF i = n THEN last ELSE segs[i]]
            BY <3>2, <3>3
        <3>5. \A i \in 1..n : (IF i = n THEN last ELSE segs[i]) \in Segment
            BY <1>1, <3>1 DEF last
        <3>6. more \in Seq(Segment) /\ Len(more) = n
            BY <1>1, <3>4, <3>5
        <3> QED BY <2>2, <3>4, <3>6 DEF last
    <2>4. /\ more[n].start = segs[n].start /\ more[n].end = g1
          /\ more[n].agent = segs[n].agent
        BY <1>1, <2>2, <2>3 DEF Segment
    <2>5. \A i \in 1..n : /\ 1 <= segs[i].start /\ segs[i].end <= e.generation
                          /\ segs[i].start <= segs[i].end
        BY DEF Bounded, IsCut
    <2>6. segs[1].start = e.committed + 1 /\ segs[n].end = e.generation
        BY <1>4 DEF IsCut
    <2>7. \A i \in 1..(n - 1) : segs[i + 1].start = segs[i].end + 1
        BY DEF IsCut
    <2> HIDE DEF f, segs, n, g1, more
    <2>8. Bounded(f)
        <3>1. \A i \in 1..n : 1 <= more[i].start /\ more[i].end <= g1
            <4> SUFFICES ASSUME NEW i \in 1..n PROVE 1 <= more[i].start /\ more[i].end <= g1
                OBVIOUS
            <4>1. CASE i = n
                BY <1>2, <2>2, <2>4, <2>5, <4>1
            <4>2. CASE i # n
                BY <1>1, <2>3, <2>5, <4>2 DEF g1
            <4> QED BY <4>1, <4>2
        <3> QED BY <1>2, <2>3, <3>1 DEF Bounded, more
    <2>9. \A i \in 1..n : more[i].start = segs[i].start /\ more[i].start <= more[i].end
        <3> SUFFICES ASSUME NEW i \in 1..n
                     PROVE  more[i].start = segs[i].start /\ more[i].start <= more[i].end
            OBVIOUS
        <3>1. CASE i = n
            BY <1>1, <1>2, <2>4, <2>5, <3>1 DEF g1
        <3>2. CASE i # n
            BY <2>3, <2>5, <3>2
        <3> QED BY <3>1, <3>2
    <2>10. \A i \in 1..(n - 1) : more[i + 1].start = more[i].end + 1
        <3> SUFFICES ASSUME NEW i \in 1..(n - 1) PROVE more[i + 1].start = more[i].end + 1
            OBVIOUS
        <3>1. i \in 1..n /\ i # n /\ i + 1 \in 1..n
            BY <1>1
        <3> QED BY <2>3, <2>7, <2>9, <3>1
    <2>11. IsCut(f)
        <3>1. 1 \in 1..n
            BY <1>1, <2>2
        <3>2. more[1].start = e.committed + 1
            BY <2>6, <2>9, <3>1
        <3>3. f.committed <= f.generation
            BY <1>1, <1>2 DEF g1, IsCut
        <3>4. n # 0 /\ n > 0
            BY <1>4
        <3> QED BY <1>2, <2>3, <2>4, <2>9, <2>10, <3>2, <3>3, <3>4 DEF IsCut, more
    <2>12. \A i \in 1..n : \A g \in more[i].start..more[i].end :
              \/ g = g1 /\ more[i].agent = owner
              \/ g \in segs[i].start..segs[i].end /\ more[i].agent = segs[i].agent
        <3> SUFFICES ASSUME NEW i \in 1..n, NEW g \in more[i].start..more[i].end, g # g1 \/ i # n
                     PROVE  g \in segs[i].start..segs[i].end /\ more[i].agent = segs[i].agent
            BY <1>4, <2>4
        <3>1. CASE i # n
            BY <2>3, <3>1
        <3>2. CASE i = n
            BY <1>1, <1>2, <2>2, <2>4, <2>6, <3>2 DEF g1
        <3> QED BY <3>1, <3>2
    <2> QED BY <1>2, <1>3, <1>4, <2>3, <2>8, <2>11, <2>12 DEF f, more, segs, n
<1>5. CASE ~(n > 0 /\ ~e.inFlight /\ segs[n].agent = owner)
    <2> DEFINE new == [start |-> g1, end |-> g1, agent |-> owner]
    <2>1. more = Append(segs, new)
        BY <1>2, <1>5 DEF AddGeneration
    <2>2. new \in Segment
        BY <1>2 DEF Segment
    <2>3. /\ more \in Seq(Segment) /\ Len(more) = n + 1
          /\ \A i \in 1..n : more[i] = segs[i]
          /\ more[n + 1] = new
        <3> HIDE DEF segs, g1, more, new
        <3> QED BY <1>1, <2>1, <2>2
    <2>4. new.start = g1 /\ new.end = g1 /\ new.agent = owner
        OBVIOUS
    <2>5. \A i \in 1..n : /\ 1 <= segs[i].start /\ segs[i].end <= e.generation
                          /\ segs[i].start <= segs[i].end
        BY DEF Bounded, IsCut
    <2>6. /\ e.committed <= e.generation
          /\ n = 0 => e.committed = e.generation
          /\ n > 0 => segs[1].start = e.committed + 1 /\ segs[n].end = e.generation
        BY <1>1 DEF IsCut, Dirty
    <2>7. \A i \in 1..(n - 1) : segs[i + 1].start = segs[i].end + 1
        BY DEF IsCut
    <2> HIDE DEF f, segs, n, g1, more, new
    <2>8. \A i \in 1..(n + 1) : i \in 1..n \/ i = n + 1
        BY <1>1
    <2>9. Bounded(f)
        BY <1>1, <1>2, <2>3, <2>4, <2>5, <2>8 DEF Bounded, more, g1
    <2>10. \A i \in 1..(n + 1) : more[i].start <= more[i].end
        BY <1>2, <2>3, <2>4, <2>5, <2>8
    <2>11. \A i \in 1..n : more[i + 1].start = more[i].end + 1
        <3> SUFFICES ASSUME NEW i \in 1..n PROVE more[i + 1].start = more[i].end + 1
            OBVIOUS
        <3>1. CASE i = n
            BY <1>1, <2>3, <2>4, <2>6, <3>1 DEF g1
        <3>2. CASE i # n
            <4>1. i \in 1..(n - 1) /\ i + 1 \in 1..n
                BY <1>1, <3>2
            <4> QED BY <2>3, <2>7, <4>1
        <3> QED BY <3>1, <3>2
    <2>12. more[1].start = e.committed + 1
        <3>1. CASE n = 0
            BY <2>3, <2>4, <2>6, <3>1 DEF g1
        <3>2. CASE n > 0
            BY <1>1, <2>3, <2>6, <3>2
        <3> QED BY <1>1, <3>1, <3>2
    <2>13. IsCut(f)
        <3>1. f.committed <= f.generation
            BY <1>1, <1>2, <2>6 DEF g1
        <3>2. n + 1 # 0 /\ n + 1 > 0 /\ (n + 1) - 1 = n
            BY <1>1
        <3> QED BY <1>2, <2>3, <2>4, <2>10, <2>11, <2>12, <3>1, <3>2 DEF IsCut, more
    <2>14. \A i \in 1..(n + 1) : \A g \in more[i].start..more[i].end :
              \/ g = g1 /\ more[i].agent = owner
              \/ i \in 1..n /\ g \in segs[i].start..segs[i].end /\ more[i].agent = segs[i].agent
        <3> SUFFICES ASSUME NEW i \in 1..(n + 1), NEW g \in more[i].start..more[i].end
                     PROVE  \/ g = g1 /\ more[i].agent = owner
                            \/ i \in 1..n /\ g \in segs[i].start..segs[i].end /\ more[i].agent = segs[i].agent
            OBVIOUS
        <3>1. CASE i \in 1..n
            BY <2>3, <3>1
        <3>2. CASE i = n + 1
            BY <1>2, <2>3, <2>4, <3>2
        <3> QED BY <2>8, <3>1, <3>2
    <2>15. n > 0 => 1 \in 1..n
        BY <1>1
    <2>16. n + 1 > 0
        BY <1>1
    <2> QED BY <1>2, <1>3, <2>3, <2>9, <2>13, <2>14, <2>15, <2>16 DEF f, more, segs, n
<1> QED BY <1>4, <1>5

(***************************************************************************)
(* A successful commit of the first segment.                               *)
(***************************************************************************)
Commit(e) ==
    [e EXCEPT !.inFlight = FALSE, !.committed = e.segments[1].end,
              !.segments = DropCommitted(e.segments, e.segments[1].end)]

\* A commit that succeeds takes the first segment off the cut and moves the rest up.
LEMMA CommittedCut ==
    ASSUME NEW e \in Entry, IsCut(e), Bounded(e), Len(e.segments) > 0
    PROVE  LET f == Commit(e)
               n == Len(e.segments)
           IN  /\ f \in Entry /\ IsCut(f) /\ Bounded(f)
               /\ f.committed > e.committed
               /\ Len(f.segments) = n - 1
               /\ \A i \in 1..(n - 1) : f.segments[i] = e.segments[i + 1]
<1> DEFINE f == Commit(e)
           segs == e.segments
           n == Len(segs)
           c == segs[1].end
           rest == f.segments
<1>1. /\ n \in Nat /\ e.committed \in Nat /\ e.generation \in Nat
      /\ \A i \in 1..n : segs[i].start \in Nat /\ segs[i].end \in Nat
    BY SegmentsType
<1>2. 1 \in 1..n
    BY <1>1
<1>3. /\ f.generation = e.generation /\ f.committed = c /\ rest = DropCommitted(segs, c)
    BY DEF Commit, Entry
<1>4. /\ rest \in Seq(Segment) /\ Len(rest) = n - 1
      /\ \A i \in 1..(n - 1) : rest[i] = segs[i + 1]
    BY <1>3, DropFirst
<1>5. f \in Entry
    BY <1>1, <1>2, <1>3, <1>4 DEF Commit, Entry
<1>6. c > e.committed
    <2>1. segs[1].start = e.committed + 1 /\ segs[1].start <= segs[1].end
        BY <1>2 DEF IsCut
    <2> QED BY <1>1, <1>2, <2>1
<1>7. \A i \in 1..n : /\ 1 <= segs[i].start /\ segs[i].end <= e.generation
                      /\ segs[i].start <= segs[i].end
    BY DEF Bounded, IsCut
<1>8. segs[n].end = e.generation /\ \A i \in 1..(n - 1) : segs[i + 1].start = segs[i].end + 1
    BY DEF IsCut
<1> HIDE DEF f, segs, n, c, rest
<1>9. \A i \in 1..(n - 1) : i + 1 \in 1..n
    BY <1>1
<1>10. Bounded(f)
    BY <1>3, <1>4, <1>7, <1>9 DEF Bounded, rest
<1>11. f.committed <= f.generation
    BY <1>2, <1>3, <1>7 DEF c
<1>12. n - 1 = 0 <=> ~Dirty(f)
    <2>1. CASE n = 1
        BY <1>3, <1>1, <1>2, <1>8, <2>1 DEF Dirty, c
    <2>2. CASE n # 1
        <3>1. 1 \in 1..(n - 1) /\ 1 + 1 \in 1..n
            BY <1>1, <1>2, <2>2
        <3>2. segs[1 + 1].start = c + 1 /\ segs[1 + 1].start <= segs[1 + 1].end
              /\ segs[1 + 1].end <= e.generation
            BY <1>7, <1>8, <3>1 DEF c
        <3> QED BY <1>1, <1>2, <1>3, <2>2, <3>1, <3>2 DEF Dirty, c
    <2> QED BY <2>1, <2>2
<1>13. n - 1 > 0 => rest[1].start = f.committed + 1 /\ rest[n - 1].end = f.generation
    <2> SUFFICES ASSUME n - 1 > 0
                 PROVE  rest[1].start = f.committed + 1 /\ rest[n - 1].end = f.generation
        OBVIOUS
    <2>1. 1 \in 1..(n - 1) /\ n - 1 \in 1..(n - 1) /\ (n - 1) + 1 = n
        BY <1>1
    <2>2. rest[1] = segs[1 + 1] /\ rest[n - 1] = segs[n]
        BY <1>4, <2>1
    <2> QED BY <1>3, <1>8, <2>1, <2>2 DEF c
<1>14. \A i \in 1..(n - 1) : rest[i].start <= rest[i].end
    BY <1>4, <1>7, <1>9
<1>15. \A i \in 1..((n - 1) - 1) : rest[i + 1].start = rest[i].end + 1
    <2> SUFFICES ASSUME NEW i \in 1..((n - 1) - 1) PROVE rest[i + 1].start = rest[i].end + 1
        OBVIOUS
    <2>1. i \in 1..(n - 1) /\ i + 1 \in 1..(n - 1)
        BY <1>1
    <2> QED BY <1>4, <1>8, <2>1
<1>16. IsCut(f)
    BY <1>4, <1>11, <1>12, <1>13, <1>14, <1>15 DEF IsCut, rest
<1> QED BY <1>3, <1>4, <1>5, <1>6, <1>10, <1>16 DEF f, segs, n, c, rest
-----------------------------------------------------------------------------
(***************************************************************************)
(* A step that leaves the work of a session alone.                         *)
(***************************************************************************)
SameWork(e, f) ==
    /\ f.present = e.present /\ f.inFlight = e.inFlight
    /\ f.generation = e.generation /\ f.committed = e.committed /\ f.segments = e.segments

\* An entry whose work, turns and calls are as before is as intact as before.
LEMMA IntactStays ==
    ASSUME NEW s \in Sessions, Intact(s), SameWork(entries[s], entries'[s]),
           turns'[s] = turns[s], base'[s] = base[s], extracted[s] \subseteq extracted'[s],
           Calls(s)' = Calls(s), \A t \in Calls(s) : call'[t] = call[t]
    PROVE  Intact(s)'
<1>1. IsCut(entries[s])' /\ Bounded(entries[s])'
    BY DEF Intact, IsCut, Bounded, Dirty, SameWork
<1>2. Serial(s)'
    BY DEF Intact, Serial, SameWork
<1>3. \A t \in Calls(s)' : Captures(s, t)'
    BY DEF Intact, Captures, SameWork
<1>4. Counted(s)' /\ Owned(s)'
    BY DEF Intact, Counted, Owned, SameWork
<1>5. Settled(s)' = Settled(s)
    BY DEF Settled, SameWork
<1> QED BY <1>1, <1>2, <1>3, <1>4, <1>5 DEF Intact

\* A step that touches nobody's work: it may change what is registered, and
\* where threads are that are not in a call.
LEMMA NoWork ==
    ASSUME Inv, \A r \in Sessions : SameWork(entries[r], entries'[r]),
           turns' = turns, base' = base, extracted' = extracted,
           \A t \in Threads : pc[t] = "calling" \/ pc'[t] = "calling"
                                => pc'[t] = pc[t] /\ call'[t] = call[t]
    PROVE  \A r \in Sessions : Intact(r)'
<1> SUFFICES ASSUME NEW r \in Sessions PROVE Intact(r)'
    OBVIOUS
<1>1. Intact(r)
    BY DEF Inv
<1>2. Calls(r)' = Calls(r) /\ \A t \in Calls(r) : call'[t] = call[t]
    BY DEF Calls
<1> QED BY <1>1, <1>2, IntactStays

\* A step on the work of session s alone.
LEMMA WorkOf ==
    ASSUME Inv, NEW s \in Sessions, Intact(s)',
           \A r \in Sessions \ {s} :
              /\ entries'[r] = entries[r] /\ turns'[r] = turns[r] /\ base'[r] = base[r]
              /\ extracted'[r] = extracted[r]
              /\ Calls(r)' = Calls(r) /\ \A t \in Calls(r) : call'[t] = call[t]
    PROVE  \A r \in Sessions : Intact(r)'
<1> SUFFICES ASSUME NEW r \in Sessions \ {s} PROVE Intact(r)'
    OBVIOUS
<1>1. Intact(r) /\ SameWork(entries[r], entries'[r])
    BY DEF Inv, SameWork
<1> QED BY <1>1, IntactStays

\* The values Init and the operations start from have their types.
LEMMA ConstantTypes ==
    /\ Absent \in Entry /\ NewEntry \in Entry /\ NoCall \in Call /\ NoDrain \in Drain
    /\ NewEntry.present
<1>1. <<>> \in Seq(Segment) /\ NoAgent \in Handles
    BY DEF Handles
<1>2. (CHOOSE s \in Sessions : TRUE) \in Sessions
    BY SessionsAssumption
<1>3. Absent \in Entry /\ NewEntry \in Entry /\ NewEntry.present
    BY <1>1 DEF Absent, NewEntry, Entry
<1>4. NoCall \in Call
    BY <1>1, <1>2 DEF NoCall, Call, After, Idle
<1>5. NoDrain \in Drain
    BY DEF NoDrain, Drain
<1> QED BY <1>3, <1>4, <1>5

\* An entry that is replaced by an entry.
LEMMA PutEntry ==
    ASSUME TypeOK, NEW s \in Sessions, NEW f \in Entry, f.present \/ f = Absent
    PROVE  LET new == [entries EXCEPT ![s] = f] IN
           /\ new \in [Sessions -> Entry]
           /\ \A r \in Sessions : ~new[r].present => new[r] = Absent
           /\ new[s] = f
           /\ \A r \in Sessions \ {s} : new[r] = entries[r]
BY DEF TypeOK

\* setdefault yields an entry that is there.
LEMMA EnsureType ==
    ASSUME NEW e \in Entry
    PROVE  Ensure(e) \in Entry /\ Ensure(e).present
BY ConstantTypes DEF Ensure

(***************************************************************************)
(* Operations of one critical section.                                     *)
(***************************************************************************)
\* An entry as good as new: the session's turns so far are none of its work.
LEMMA FreshIntact ==
    ASSUME Inv, NEW s \in Sessions, ~entries[s].present, NEW f, SameWork(NewEntry, f),
           entries'[s] = f, turns'[s] = turns[s], base'[s] = Len(turns[s]),
           extracted'[s] = extracted[s], Calls(s)' = Calls(s)
    PROVE  Intact(s)'
<1>1. entries[s] = Absent /\ Intact(s) /\ Len(turns[s]) \in Nat
    BY DEF Inv, TypeOK
<1>2. Calls(s) = {}
    BY <1>1 DEF Intact, Serial, Absent
<1>3. /\ f.present /\ ~f.inFlight /\ f.generation = 0 /\ f.committed = 0 /\ f.segments = <<>>
    BY DEF SameWork, NewEntry, Absent
<1>4. IsCut(f) /\ Bounded(f)
    BY <1>3 DEF IsCut, Bounded, Dirty
<1>5. Settled(s)' = Settled(s)
    BY <1>1, <1>3 DEF Settled
<1>6. Counted(s)' /\ Owned(s)'
    BY <1>1, <1>3 DEF Counted, Owned
<1>7. Serial(s)' /\ \A t \in Calls(s)' : Captures(s, t)'
    BY <1>2, <1>3 DEF Serial
<1> QED BY <1>1, <1>4, <1>5, <1>6, <1>7 DEF Intact

\* register_agent keeps the invariant.
LEMMA RegisterAgentInv ==
    ASSUME Inv, NEW s \in Sessions, NEW a \in Agents, RegisterAgent(s, a)
    PROVE  Inv'
<1> DEFINE f == [Ensure(entries[s]) EXCEPT !.agent = a]
<1>1. TypeOK /\ entries[s] \in Entry /\ Ensure(entries[s]) \in Entry /\ Ensure(entries[s]).present
    BY EnsureType DEF Inv, TypeOK
<1>2. f \in Entry /\ f.present
    BY <1>1 DEF Entry, Handles
<1>3. entries' = [entries EXCEPT ![s] = f]
    BY DEF RegisterAgent
<1> HIDE DEF f
<1>4. /\ entries'[s] = f /\ \A r \in Sessions \ {s} : entries'[r] = entries[r]
      /\ entries' \in [Sessions -> Entry]
      /\ \A r \in Sessions : ~entries'[r].present => entries'[r] = Absent
    BY <1>1, <1>2, <1>3, PutEntry
<1>5. TypeOK'
    BY <1>1, <1>4 DEF TypeOK, RegisterAgent, shutdown, Drain
<1>6. \A r \in Sessions : Calls(r)' = Calls(r)
    BY DEF Calls, RegisterAgent
<1>7. Intact(s)'
    <2>1. CASE entries[s].present
        <3>1. SameWork(entries[s], f)
            BY <1>1, <2>1 DEF f, Ensure, SameWork, Entry
        <3> QED BY <1>4, <1>6, <2>1, <3>1, IntactStays DEF RegisterAgent, Inv
    <2>2. CASE ~entries[s].present
        <3>1. SameWork(NewEntry, f)
            BY <2>2, ConstantTypes DEF f, Ensure, SameWork, Entry
        <3>2. base'[s] = Len(turns[s])
            BY <1>1, <2>2 DEF RegisterAgent, TypeOK
        <3> QED BY <1>4, <1>6, <2>2, <3>1, <3>2, FreshIntact DEF RegisterAgent
    <2> QED BY <2>1, <2>2
<1>8. \A r \in Sessions : Intact(r)'
    BY <1>1, <1>4, <1>6, <1>7, WorkOf DEF RegisterAgent, TypeOK
<1> QED BY <1>5, <1>8 DEF Inv

\* unregister_agent keeps the invariant.
LEMMA UnregisterAgentInv ==
    ASSUME Inv, NEW s \in Sessions, UnregisterAgent(s)
    PROVE  Inv'
<1> DEFINE f == [entries[s] EXCEPT !.agent = NoAgent]
<1>1. TypeOK /\ entries[s] \in Entry
    BY DEF Inv, TypeOK
<1>2. f \in Entry /\ f.present /\ SameWork(entries[s], f)
    BY <1>1 DEF Entry, Handles, UnregisterAgent, SameWork
<1>3. entries' = [entries EXCEPT ![s] = f]
    BY DEF UnregisterAgent
<1> HIDE DEF f
<1>4. /\ entries'[s] = f /\ \A r \in Sessions \ {s} : entries'[r] = entries[r]
      /\ entries' \in [Sessions -> Entry]
      /\ \A r \in Sessions : ~entries'[r].present => entries'[r] = Absent
    BY <1>1, <1>2, <1>3, PutEntry
<1>5. TypeOK'
    BY <1>1, <1>4 DEF TypeOK, UnregisterAgent, shutdown, history, Drain
<1>6. \A r \in Sessions : SameWork(entries[r], entries'[r])
    BY <1>2, <1>4 DEF SameWork
<1>7. \A r \in Sessions : Intact(r)'
    BY <1>6, NoWork DEF UnregisterAgent, history
<1> QED BY <1>5, <1>7 DEF Inv

\* mark_turn_completed keeps the invariant: the new turn joins a segment of its owner.
LEMMA MarkTurnCompletedInv ==
    ASSUME Inv, NEW s \in Sessions, NEW a \in MarkAgents, MarkTurnCompleted(s, a)
    PROVE  Inv'
<1> DEFINE e == Ensure(entries[s])
           owner == IF a # NoAgent THEN a ELSE e.agent
           f == Grow(e, owner)
           b == IF entries[s].present THEN base[s] ELSE Len(turns[s])
           n == Len(e.segments)
<1>1. TypeOK /\ entries[s] \in Entry /\ e \in Entry /\ e.present /\ Intact(s)
    BY EnsureType DEF Inv, TypeOK
<1>2. owner \in Handles
    BY <1>1, MarkAssumption DEF Handles, Entry
<1>3. IsCut(e) /\ Bounded(e)
    <2>1. IsCut(NewEntry) /\ Bounded(NewEntry)
        BY DEF NewEntry, Absent, IsCut, Bounded, Dirty
    <2> QED BY <1>1, <2>1 DEF Intact, Ensure
<1>4. f \in Entry /\ IsCut(f) /\ Bounded(f)
    BY <1>1, <1>2, <1>3, GrownCut
<1>5. /\ f.present /\ f.generation = e.generation + 1 /\ f.committed = e.committed
      /\ f.inFlight = e.inFlight
    BY <1>1 DEF Grow, Entry
<1>6. /\ entries' = [entries EXCEPT ![s] = f]
      /\ turns' = [turns EXCEPT ![s] = Append(@, owner)]
      /\ base' = IF entries[s].present THEN base ELSE [base EXCEPT ![s] = Len(turns[s])]
      /\ UNCHANGED <<pc, call, background, draining, drain, extracted, failures>>
    BY DEF MarkTurnCompleted, Grow, shutdown
<1>7. /\ turns[s] \in Seq(Handles) /\ Len(turns[s]) \in Nat /\ base[s] \in Nat
      /\ extracted[s] \subseteq Nat
      /\ e.generation \in Nat /\ e.committed \in Nat
    BY <1>1 DEF TypeOK, Entry
<1>8. /\ turns'[s] = Append(turns[s], owner) /\ base'[s] = b /\ b \in Nat
      /\ \A r \in Sessions \ {s} : turns'[r] = turns[r] /\ base'[r] = base[r]
    BY <1>1, <1>6, <1>7 DEF TypeOK
<1>9. b + e.generation = Len(turns[s])
    BY <1>1, <1>7 DEF Intact, Counted, Ensure, NewEntry, Absent
<1>10. \A r \in Sessions : Calls(r)' = Calls(r)
    BY <1>6 DEF Calls
<1> HIDE DEF f, e, owner, b
<1>11. /\ entries'[s] = f /\ \A r \in Sessions \ {s} : entries'[r] = entries[r]
       /\ entries' \in [Sessions -> Entry]
       /\ \A r \in Sessions : ~entries'[r].present => entries'[r] = Absent
    BY <1>1, <1>4, <1>5, <1>6, PutEntry
<1>12. TypeOK'
    <2>1. turns' \in [Sessions -> Seq(Handles)] /\ base' \in [Sessions -> Nat]
        BY <1>1, <1>2, <1>6, <1>7 DEF TypeOK
    <2> QED BY <1>1, <1>6, <1>11, <2>1 DEF TypeOK, Drain
<1>13. Intact(s)'
    <2>1. Len(turns'[s]) = Len(turns[s]) + 1 /\ turns'[s][Len(turns[s]) + 1] = owner
          /\ \A i \in 1..Len(turns[s]) : turns'[s][i] = turns[s][i]
        BY <1>7, <1>8, <1>2
    <2>2. Counted(s)'
        BY <1>5, <1>7, <1>8, <1>9, <1>11, <2>1 DEF Counted
    <2>3. Serial(s)'
        <3>1. entries[s].inFlight = e.inFlight
            BY <1>1 DEF e, Ensure, NewEntry, Absent, Inv, TypeOK
        <3> QED BY <1>1, <1>5, <1>6, <1>10, <1>11, <3>1 DEF Intact, Serial
    <2>4. ASSUME NEW t \in Calls(s)' PROVE Captures(s, t)'
        <3>1. t \in Calls(s) /\ Captures(s, t) /\ e = entries[s]
            BY <1>1, <1>10, <2>4 DEF Intact, Serial, e, Ensure, Absent, Inv, TypeOK
        <3>2. e.inFlight /\ n > 0
            BY <1>1, <3>1 DEF Intact, Serial, Captures
        <3>3. Len(f.segments) > 0 /\ f.segments[1] = e.segments[1]
            BY <1>1, <1>2, <1>3, <3>2, GrownCut DEF f
        <3>4. b = base[s] /\ call' = call
            BY <1>1, <1>6, <3>1 DEF b
        <3>5. call[t].seen \in Nat
            BY <1>1, <3>1 DEF TypeOK, Call, Calls
        <3> QED BY <1>7, <1>8, <1>11, <2>1, <3>1, <3>3, <3>4, <3>5 DEF Captures
    <2>5. Owned(s)'
        <3> SUFFICES ASSUME NEW i \in 1..Len(f.segments),
                            NEW g \in f.segments[i].start..f.segments[i].end
                     PROVE  turns'[s][b + g] \in {f.segments[i].agent, NoAgent}
            BY <1>8, <1>11 DEF Owned
        <3>1. \/ g = f.generation /\ f.segments[i].agent = owner
              \/ /\ i \in 1..n
                 /\ g \in e.segments[i].start..e.segments[i].end
                 /\ f.segments[i].agent = e.segments[i].agent
            BY <1>1, <1>2, <1>3, GrownCut DEF f
        <3>2. CASE g = f.generation /\ f.segments[i].agent = owner
            <4>1. g = e.generation + 1 /\ g \in Nat /\ b \in Nat /\ e.generation \in Nat
                BY <1>5, <1>7, <1>8, <3>2
            <4>2. b + g = (b + e.generation) + 1
                BY <4>1
            <4>3. b + g = Len(turns[s]) + 1
                BY <1>9, <4>2
            <4> QED BY <2>1, <3>2, <4>3
        <3>3. CASE /\ i \in 1..n
                   /\ g \in e.segments[i].start..e.segments[i].end
                   /\ f.segments[i].agent = e.segments[i].agent
            <4>1. e = entries[s] /\ b = base[s]
                BY <1>1, <3>3 DEF e, b, Ensure, NewEntry, Absent
            <4>2. 1 <= e.segments[i].start /\ e.segments[i].end <= e.generation
                  /\ e.segments[i].start \in Nat /\ e.segments[i].end \in Nat
                BY <1>1, <1>3, <3>3, SegmentsType DEF Bounded
            <4>3. b + g \in 1..Len(turns[s])
                <5>1. b \in Nat /\ e.generation \in Nat
                    BY <1>7, <1>8
                <5>2. g \in Nat /\ 1 <= g /\ g <= e.generation
                    BY <3>3, <4>2, <5>1
                <5> QED BY <1>9, <5>1, <5>2
            <4>4. turns[s][b + g] \in {e.segments[i].agent, NoAgent}
                BY <1>1, <3>3, <4>1 DEF Intact, Owned
            <4> QED BY <2>1, <3>3, <4>3, <4>4
        <3> QED BY <3>1, <3>2, <3>3
    <2>6. Settled(s)' = Settled(s)
        BY <1>1, <1>5, <1>7, <1>8, <1>11 DEF Settled, e, b, Ensure, NewEntry, Absent
    <2>7. (1..Settled(s) \subseteq extracted[s])'
        BY <1>1, <1>6, <2>6 DEF Intact
    <2> QED BY <1>4, <1>11, <2>2, <2>3, <2>4, <2>5, <2>7 DEF Intact
<1>14. \A r \in Sessions : Intact(r)'
    BY <1>6, <1>8, <1>10, <1>11, <1>13, WorkOf
<1> QED BY <1>12, <1>14 DEF Inv
-----------------------------------------------------------------------------
(***************************************************************************)
(* Commits.                                                                *)
(***************************************************************************)
LEMMA EffectiveAgentType ==
    ASSUME NEW e \in Entry, IsCut(e), NEW a \in Handles, CanStartCall(e, a)
    PROVE  /\ Len(e.segments) > 0
           /\ EffectiveAgent(e, a) \in Handles
           /\ e.segments[1].agent \in {EffectiveAgent(e, a), NoAgent}
<1>1. FirstBeyond(e.segments, e.committed) = 1 /\ Len(e.segments) \in Nat
    BY CutStarts, SegmentsType
<1>2. Len(e.segments) > 0 /\ 1 \in 1..Len(e.segments)
    BY <1>1 DEF CanStartCall, HasUncommittedSegment
<1>3. e.segments[1].agent \in Handles /\ e.agent \in Handles
    BY <1>2, SegmentsType DEF Entry
<1> QED BY <1>1, <1>2, <1>3 DEF EffectiveAgent, FirstUncommittedSegment

Begin(e, agent) ==
    [e EXCEPT !.segments = [e.segments EXCEPT ![1] = [e.segments[1] EXCEPT !.agent = agent]],
              !.inFlight = TRUE]

\* The guard goes up, and the first segment is its agent's.
LEMMA BegunCut ==
    ASSUME NEW e \in Entry, IsCut(e), Bounded(e), Len(e.segments) > 0, NEW agent \in Handles
    PROVE  LET f == Begin(e, agent) IN
           /\ f \in Entry /\ f.inFlight /\ f.present = e.present
           /\ f.committed = e.committed /\ f.generation = e.generation
           /\ Len(f.segments) = Len(e.segments)
           /\ \A i \in 1..Len(e.segments) :
                 /\ f.segments[i].start = e.segments[i].start
                 /\ f.segments[i].end = e.segments[i].end
                 /\ i # 1 => f.segments[i].agent = e.segments[i].agent
           /\ f.segments[1].agent = agent
           /\ IsCut(f) /\ Bounded(f)
<1> DEFINE f == Begin(e, agent)
           segs == e.segments
           n == Len(segs)
           first == [segs[1] EXCEPT !.agent = agent]
           mine == f.segments
<1>1. segs \in Seq(Segment) /\ n \in Nat /\ 1 \in 1..n /\ DOMAIN segs = 1..n
      /\ \A i \in 1..n : segs[i] \in Segment
    BY SegmentsType
<1>2. first \in Segment /\ first.start = segs[1].start /\ first.end = segs[1].end
      /\ first.agent = agent
    BY <1>1 DEF Segment
<1>3. /\ mine = [segs EXCEPT ![1] = first]
      /\ f.inFlight /\ f.present = e.present
      /\ f.committed = e.committed /\ f.generation = e.generation
    BY DEF Begin, Entry
<1> DEFINE same == [i \in 1..n |-> IF i = 1 THEN first ELSE segs[i]]
<1>4. mine = same
    <2> HIDE DEF f, segs, n, first, mine
    <2> QED BY <1>1, <1>3
<1>5. same \in Seq(Segment) /\ Len(same) = n
    <2>1. \A i \in 1..n : (IF i = 1 THEN first ELSE segs[i]) \in Segment
        BY <1>1, <1>2
    <2> HIDE DEF segs, n, first
    <2> QED BY <1>1, <2>1
<1>6. f \in Entry
    BY <1>3, <1>4, <1>5 DEF Begin, Entry
<1>7. /\ Len(mine) = n
      /\ \A i \in 1..n : /\ mine[i].start = segs[i].start /\ mine[i].end = segs[i].end
                         /\ i # 1 => mine[i].agent = segs[i].agent
      /\ mine[1].agent = agent
    BY <1>1, <1>2, <1>4, <1>5
<1> HIDE DEF f, segs, n, first, mine
<1>8. n > 0 /\ n \in 1..n /\ \A i \in 1..(n - 1) : i \in 1..n /\ i + 1 \in 1..n
    BY <1>1
<1>9. IsCut(f)
    BY <1>1, <1>3, <1>7, <1>8 DEF IsCut, Dirty, segs, n, mine
<1>10. Bounded(f)
    BY <1>3, <1>7 DEF Bounded, segs, n, mine
<1> QED BY <1>3, <1>6, <1>7, <1>9, <1>10 DEF f, segs, n, mine

\* Taking the in-flight guard keeps the invariant: the call captures the first segment.
LEMMA StartCallInv ==
    ASSUME Inv, NEW t \in Threads, NEW s \in Sessions, NEW a \in Handles,
           StartCall(t, s, a), ~entries[s].inFlight,
           pc[t] \in {"entering", "waiting"}, UNCHANGED <<shutdown, history>>
    PROVE  Inv'
<1> DEFINE e == entries[s]
           agent == EffectiveAgent(e, a)
           f == Begin(e, agent)
           segs == e.segments
<1>1. TypeOK /\ e \in Entry /\ Intact(s) /\ IsCut(e) /\ Bounded(e) /\ CanStartCall(e, a)
    BY DEF Inv, TypeOK, Intact, StartCall
<1>2. Len(segs) > 0 /\ agent \in Handles /\ segs[1].agent \in {agent, NoAgent} /\ e.present
    BY <1>1, EffectiveAgentType DEF CanStartCall
<1>3. /\ f \in Entry /\ f.inFlight /\ f.present = e.present
      /\ f.committed = e.committed /\ f.generation = e.generation
      /\ Len(f.segments) = Len(segs)
      /\ \A i \in 1..Len(segs) : /\ f.segments[i].start = segs[i].start
                                 /\ f.segments[i].end = segs[i].end
                                 /\ i # 1 => f.segments[i].agent = segs[i].agent
      /\ f.segments[1].agent = agent
      /\ IsCut(f) /\ Bounded(f)
    BY <1>1, <1>2, BegunCut
<1>4. entries' = [entries EXCEPT ![s] = f]
    <2>1. entries' = [entries EXCEPT ![s].segments[1].agent = agent, ![s].inFlight = TRUE]
        BY <1>1, CutStarts DEF StartCall
    <2>2. 1 \in DOMAIN segs
        BY <1>1, <1>2, SegmentsType
    <2>3. entries \in [Sessions -> Entry]
        BY <1>1 DEF TypeOK
    <2> QED BY <2>1, <2>2, <2>3 DEF Begin, Entry
<1>5. /\ pc' = [pc EXCEPT ![t] = "calling"]
      /\ call' = [call EXCEPT ![t] = [call[t] EXCEPT !.agent = agent, !.captured = segs[1].end,
                                         !.seen = Len(turns[s]), !.sid = s, !.ok = FALSE]]
    BY <1>1, CutStarts DEF StartCall, TypeOK
<1>6. /\ segs[1].end \in Nat /\ segs[1].end <= e.generation /\ e.generation \in Nat
      /\ Len(turns[s]) \in Nat /\ base[s] \in Nat
    <2>1. 1 \in 1..Len(segs)
        BY <1>1, <1>2, SegmentsType
    <2> QED BY <1>1, <2>1, SegmentsType DEF TypeOK, Bounded
<1>7. /\ call'[t].agent = agent /\ call'[t].captured = segs[1].end
      /\ call'[t].seen = Len(turns[s]) /\ call'[t].sid = s
      /\ pc'[t] = "calling"
      /\ call' \in [Threads -> Call] /\ pc' \in [Threads -> PCs]
      /\ \A u \in Threads \ {t} : call'[u] = call[u] /\ pc'[u] = pc[u]
    <2>1. call[t] \in Call /\ call \in [Threads -> Call] /\ pc \in [Threads -> PCs]
        BY <1>1 DEF TypeOK
    <2>2. [call[t] EXCEPT !.agent = agent, !.captured = segs[1].end,
                          !.seen = Len(turns[s]), !.sid = s, !.ok = FALSE] \in Call
        BY <1>2, <1>6, <2>1 DEF Call
    <2>3. call' \in [Threads -> Call] /\ pc' \in [Threads -> PCs]
        BY <1>5, <2>1, <2>2 DEF PCs, CommitPCs
    <2> QED BY <1>5, <2>1, <2>3 DEF Call
<1> HIDE DEF f, e, agent, segs
<1>8. /\ entries'[s] = f /\ \A r \in Sessions \ {s} : entries'[r] = entries[r]
      /\ entries' \in [Sessions -> Entry]
      /\ \A r \in Sessions : ~entries'[r].present => entries'[r] = Absent
    BY <1>1, <1>2, <1>3, <1>4, PutEntry
<1>9. TypeOK'
    BY <1>1, <1>7, <1>8 DEF TypeOK, shutdown, history, Drain
<1>10. Calls(s) = {} /\ Calls(s)' = {t}
    BY <1>1, <1>7 DEF Intact, Serial, Calls
<1>11. \A r \in Sessions \ {s} : Calls(r)' = Calls(r) /\ \A u \in Calls(r) : call'[u] = call[u]
    BY <1>7 DEF Calls
<1>12. UNCHANGED <<turns, base, extracted>>
    BY DEF history
<1>13. Intact(s)'
    <2>1. Serial(s)'
        BY <1>3, <1>8, <1>10 DEF Serial
    <2>2. Captures(s, t)'
        <3>1. base[s] + e.generation = Len(turns[s])
            BY <1>1, <1>2 DEF Intact, Counted, e
        <3>2. base[s] + segs[1].end <= Len(turns[s])
            BY <1>6, <3>1
        <3>3. 1 \in 1..Len(segs)
            BY <1>1, <1>2, SegmentsType DEF segs
        <3> QED BY <1>2, <1>3, <1>6, <1>7, <1>8, <1>12, <3>2, <3>3 DEF Captures
    <2>3. Counted(s)' /\ Settled(s)' = Settled(s)
        BY <1>1, <1>3, <1>8, <1>12 DEF Counted, Settled, Intact, e
    <2>4. Owned(s)'
        <3> SUFFICES ASSUME NEW i \in 1..Len(segs),
                            NEW g \in segs[i].start..segs[i].end
                     PROVE  turns[s][base[s] + g] \in {f.segments[i].agent, NoAgent}
            BY <1>3, <1>8, <1>12 DEF Owned
        <3>1. turns[s][base[s] + g] \in {segs[i].agent, NoAgent}
            BY <1>1 DEF Intact, Owned, segs, e
        <3> QED BY <1>2, <1>3, <3>1
    <2>5. (1..Settled(s) \subseteq extracted[s])'
        BY <1>1, <1>12, <2>3 DEF Intact
    <2> QED BY <1>3, <1>8, <1>10, <2>1, <2>2, <2>3, <2>4, <2>5 DEF Intact
<1>14. \A r \in Sessions : Intact(r)'
    BY <1>8, <1>11, <1>12, <1>13, WorkOf
<1> QED BY <1>9, <1>14 DEF Inv

\* A commit that returns leaves its thread outside the provider, and the others alone.
LEMMA ReturnsType ==
    ASSUME TypeOK, NEW t \in Threads, NEW ok \in BOOLEAN, Returns(t, ok)
    PROVE  /\ pc' \in [Threads -> PCs] /\ call' \in [Threads -> Call]
           /\ pc'[t] # "calling"
           /\ \A u \in Threads \ {t} : pc'[u] = pc[u] /\ call'[u] = call[u]
<1>1. call[t] \in Call /\ call[t].then \in After /\ call[t].sid \in Sessions
    BY DEF TypeOK, Call
<1>2. [NoCall EXCEPT !.sid = call[t].sid, !.ok = ok] \in Call
    BY <1>1, ConstantTypes DEF Call
<1>3. pc \in [Threads -> PCs] /\ call \in [Threads -> Call]
    BY DEF TypeOK
<1>4. call[t].then \in PCs /\ call[t].then # "calling"
    BY <1>1 DEF PCs, CommitPCs, After, Idle
<1> QED BY <1>2, <1>3, <1>4 DEF Returns

\* A step of one thread outside a call, on the registry and the drain's variables.
LEMMA ThreadsInv ==
    ASSUME Inv, NEW t \in Threads,
           UNCHANGED <<entries, turns, base, extracted, failures>>,
           background' \in SUBSET Threads, draining' \in BOOLEAN, drain' \in Drain,
           pc' \in [Threads -> PCs], call' \in [Threads -> Call],
           pc[t] # "calling", pc'[t] # "calling",
           \A u \in Threads \ {t} : pc'[u] = pc[u] /\ call'[u] = call[u]
    PROVE  Inv'
<1>1. TypeOK'
    BY DEF Inv, TypeOK
<1>2. \A r \in Sessions : SameWork(entries[r], entries'[r])
    BY DEF SameWork
<1>3. \A r \in Sessions : Intact(r)'
    BY <1>2, NoWork
<1> QED BY <1>1, <1>3 DEF Inv

\* A step of one thread outside a call, on nothing but its own state.
LEMMA QuietInv ==
    ASSUME Inv, NEW t \in Threads,
           UNCHANGED <<entries, background, draining, drain, turns, base, extracted, failures>>,
           pc' \in [Threads -> PCs], call' \in [Threads -> Call],
           pc[t] # "calling", pc'[t] # "calling",
           \A u \in Threads \ {t} : pc'[u] = pc[u] /\ call'[u] = call[u]
    PROVE  Inv'
<1>1. background' \in SUBSET Threads /\ draining' \in BOOLEAN /\ drain' \in Drain
    BY DEF Inv, TypeOK
<1> QED BY <1>1, ThreadsInv

\* A step of the drain alone.
LEMMA DrainsInv ==
    ASSUME Inv, UNCHANGED <<entries, pc, call, turns, base, extracted, failures>>,
           background' \in SUBSET Threads, draining' \in BOOLEAN, drain' \in Drain
    PROVE  Inv'
<1>1. TypeOK'
    BY DEF Inv, TypeOK
<1>2. \A r \in Sessions : SameWork(entries[r], entries'[r])
    BY DEF SameWork
<1>3. \A r \in Sessions : Intact(r)'
    BY <1>2, NoWork
<1> QED BY <1>1, <1>3 DEF Inv

\* A step that changes nothing.
LEMMA UnchangedInv ==
    ASSUME Inv, UNCHANGED vars
    PROVE  Inv'
<1>1. background' \in SUBSET Threads /\ draining' \in BOOLEAN /\ drain' \in Drain
    BY DEF Inv, TypeOK, vars
<1> QED BY <1>1, DrainsInv DEF vars

\* A thread with a call in flight: its entry is there, and its call is the only one.
LEMMA InCall ==
    ASSUME Inv, NEW t \in Threads, pc[t] = "calling"
    PROVE  LET s == call[t].sid IN
           /\ s \in Sessions /\ Calls(s) = {t} /\ entries[s] \in Entry
           /\ entries[s].present /\ entries[s].inFlight /\ Captures(s, t)
<1> DEFINE s == call[t].sid
<1>1. s \in Sessions /\ TypeOK /\ Intact(s)
    BY DEF Inv, TypeOK, Call
<1>2. t \in Calls(s)
    BY DEF Calls
<1>3. Calls(s) = {t} /\ entries[s].inFlight /\ Captures(s, t)
    BY <1>1, <1>2 DEF Intact, Serial
<1>4. entries[s].present /\ entries[s] \in Entry
    BY <1>1, <1>3 DEF TypeOK, Absent
<1> QED BY <1>1, <1>3, <1>4

\* A commit that succeeds keeps the invariant: what it settles, its call has extracted.
LEMMA CallSucceedsInv ==
    ASSUME Inv, NEW t \in Threads, NEW s \in Sessions, s = call[t].sid, CallSucceeds(t)
    PROVE  Inv'
<1> DEFINE e == entries[s]
           segs == e.segments
           n == Len(segs)
           f == Commit(e)
           c == segs[1].end
<1>1. /\ TypeOK /\ s \in Sessions /\ Intact(s) /\ e \in Entry /\ Calls(s) = {t}
      /\ e.present /\ e.inFlight /\ Captures(s, t) /\ IsCut(e) /\ Bounded(e)
    BY InCall DEF Inv, Intact, CallSucceeds
<1>2. /\ f \in Entry /\ IsCut(f) /\ Bounded(f) /\ f.committed > e.committed
      /\ Len(f.segments) = n - 1
      /\ \A i \in 1..(n - 1) : f.segments[i] = segs[i + 1]
    BY <1>1, CommittedCut DEF Captures
<1>3. /\ f.present /\ ~f.inFlight /\ f.generation = e.generation /\ f.committed = c
    BY <1>1 DEF Commit, Entry
<1>4. /\ n > 0 /\ c = call[t].captured /\ segs[1].agent = call[t].agent
      /\ base[s] + c <= call[t].seen /\ call[t].seen <= Len(turns[s])
    BY <1>1 DEF Captures
<1>5. entries' = [entries EXCEPT ![s] = f]
    <2>1. c > e.committed
        BY <1>2, <1>3
    <2> QED BY <1>1, <1>4, <2>1 DEF CallSucceeds, Commit
<1>6. /\ pc' \in [Threads -> PCs] /\ call' \in [Threads -> Call] /\ pc'[t] # "calling"
      /\ \A u \in Threads \ {t} : pc'[u] = pc[u] /\ call'[u] = call[u]
    BY <1>1, ReturnsType DEF CallSucceeds
<1>7. /\ n \in Nat /\ 1 \in 1..n /\ c \in Nat /\ segs[1].start \in Nat
      /\ e.committed \in Nat /\ e.generation \in Nat
      /\ base[s] \in Nat /\ Len(turns[s]) \in Nat /\ call[t].seen \in Nat
      /\ segs[1].start = e.committed + 1
    <2>1. n \in Nat /\ 1 \in 1..n
        BY <1>1, <1>4, SegmentsType
    <2>2. /\ c \in Nat /\ segs[1].start \in Nat
          /\ e.committed \in Nat /\ e.generation \in Nat
        BY <1>1, <2>1, SegmentsType
    <2>3. base[s] \in Nat /\ Len(turns[s]) \in Nat /\ call[t].seen \in Nat
        BY <1>1 DEF TypeOK, Call
    <2>4. segs[1].start = e.committed + 1
        BY <1>1, <1>4 DEF IsCut
    <2> QED BY <2>1, <2>2, <2>3, <2>4
<1>8. /\ UNCHANGED <<background, draining, drain, turns, base, failures>>
      /\ extracted' = [extracted EXCEPT ![s] = @ \cup
              {i \in 1..call[t].seen : turns[s][i] \in {call[t].agent, NoAgent}}]
    BY DEF CallSucceeds, shutdown
<1>9. /\ extracted'[s] = extracted[s] \cup
              {i \in 1..call[t].seen : turns[s][i] \in {call[t].agent, NoAgent}}
      /\ \A r \in Sessions \ {s} : extracted'[r] = extracted[r]
      /\ extracted' \in [Sessions -> SUBSET Nat]
    <2>1. extracted[s] \cup {i \in 1..call[t].seen : turns[s][i] \in {call[t].agent, NoAgent}}
              \in SUBSET Nat
        BY <1>1, <1>7 DEF TypeOK
    <2>2. extracted \in [Sessions -> SUBSET Nat]
        BY <1>1 DEF TypeOK
    <2> QED BY <1>1, <1>8, <2>1, <2>2
<1>10. Calls(s)' = {}
    <2>1. \A u \in Calls(s)' : u \in Calls(s) /\ u # t
        BY <1>6 DEF Calls
    <2> QED BY <1>1, <2>1
<1>11. \A r \in Sessions \ {s} : Calls(r)' = Calls(r) /\ \A u \in Calls(r) : call'[u] = call[u]
    BY <1>6 DEF Calls
<1> HIDE DEF f, e, segs, n, c
<1>12. /\ entries'[s] = f /\ \A r \in Sessions \ {s} : entries'[r] = entries[r]
       /\ entries' \in [Sessions -> Entry]
       /\ \A r \in Sessions : ~entries'[r].present => entries'[r] = Absent
    BY <1>1, <1>2, <1>3, <1>5, PutEntry
<1>13. TypeOK'
    BY <1>1, <1>6, <1>8, <1>9, <1>12 DEF TypeOK, Drain
<1>14. Intact(s)'
    <2>1. Serial(s)' /\ \A u \in Calls(s)' : Captures(s, u)'
        BY <1>3, <1>10, <1>12 DEF Serial
    <2>2. Counted(s)'
        BY <1>1, <1>3, <1>8, <1>12 DEF Intact, Counted, e
    <2>3. Owned(s)'
        <3> SUFFICES ASSUME NEW i \in 1..Len(f.segments),
                            NEW g \in f.segments[i].start..f.segments[i].end
                     PROVE  turns[s][base[s] + g] \in {f.segments[i].agent, NoAgent}
            BY <1>8, <1>12 DEF Owned
        <3>1. i \in 1..(n - 1) /\ i + 1 \in 1..n
            BY <1>2, <1>7
        <3>2. f.segments[i] = segs[i + 1]
            BY <1>2, <3>1
        <3> QED BY <1>1, <3>1, <3>2 DEF Intact, Owned, e, segs, n
    <2>4. (1..Settled(s) \subseteq extracted[s])'
        <3> SUFFICES ASSUME NEW i \in 1..(base[s] + c) PROVE i \in extracted'[s]
            BY <1>3, <1>8, <1>12 DEF Settled
        <3>1. CASE i <= base[s] + e.committed
            <4>1. i \in 1..Settled(s)
                BY <1>1, <1>7, <3>1 DEF Settled, e
            <4> QED BY <1>1, <1>9, <4>1 DEF Intact
        <3>2. CASE ~(i <= base[s] + e.committed)
            <4> DEFINE g == i - base[s]
            <4>1. g \in (e.committed + 1)..c /\ base[s] + g = i
                <5> HIDE DEF c
                <5>1. i \in Nat
                    BY <1>7
                <5> QED BY <1>7, <3>2, <5>1
            <4>2. turns[s][base[s] + g] \in {segs[1].agent, NoAgent}
                <5>1. g \in segs[1].start..segs[1].end
                    BY <1>7, <4>1 DEF c
                <5> QED BY <1>1, <1>7, <5>1 DEF Intact, Owned, e, segs, n
            <4>3. i \in 1..call[t].seen
                BY <1>4, <1>7
            <4> QED BY <1>4, <1>9, <4>1, <4>2, <4>3
        <3> QED BY <3>1, <3>2
    <2> QED BY <1>2, <1>12, <2>1, <2>2, <2>3, <2>4 DEF Intact
<1>15. \A r \in Sessions : Intact(r)'
    BY <1>1, <1>8, <1>9, <1>11, <1>12, <1>14, WorkOf
<1> QED BY <1>13, <1>15 DEF Inv

\* A commit that fails keeps the invariant: the work stays as it was.
LEMMA CallFailsInv ==
    ASSUME Inv, NEW t \in Threads, NEW s \in Sessions, s = call[t].sid, CallFails(t)
    PROVE  Inv'
<1> DEFINE e == entries[s]
           f == [e EXCEPT !.inFlight = FALSE]
<1>1. /\ TypeOK /\ s \in Sessions /\ Intact(s) /\ e \in Entry /\ Calls(s) = {t} /\ e.present
    BY InCall DEF Inv, CallFails
<1>2. /\ f \in Entry /\ f.present /\ ~f.inFlight
      /\ f.generation = e.generation /\ f.committed = e.committed /\ f.segments = e.segments
    BY <1>1 DEF Entry
<1>3. /\ entries' = [entries EXCEPT ![s] = f] /\ failures' = failures + 1
      /\ UNCHANGED <<background, draining, drain, turns, base, extracted>>
    BY <1>1 DEF CallFails, shutdown
<1>4. /\ pc' \in [Threads -> PCs] /\ call' \in [Threads -> Call] /\ pc'[t] # "calling"
      /\ \A u \in Threads \ {t} : pc'[u] = pc[u] /\ call'[u] = call[u]
    BY <1>1, ReturnsType DEF CallFails
<1>5. Calls(s)' = {}
    <2>1. \A u \in Calls(s)' : u \in Calls(s) /\ u # t
        BY <1>4 DEF Calls
    <2> QED BY <1>1, <2>1
<1>6. \A r \in Sessions \ {s} : Calls(r)' = Calls(r) /\ \A u \in Calls(r) : call'[u] = call[u]
    BY <1>4 DEF Calls
<1> HIDE DEF f, e
<1>7. /\ entries'[s] = f /\ \A r \in Sessions \ {s} : entries'[r] = entries[r]
      /\ entries' \in [Sessions -> Entry]
      /\ \A r \in Sessions : ~entries'[r].present => entries'[r] = Absent
    BY <1>1, <1>2, <1>3, PutEntry
<1>8. TypeOK'
    <2>1. failures' \in Nat
        BY <1>1, <1>3 DEF TypeOK
    <2> QED BY <1>1, <1>3, <1>4, <1>7, <2>1 DEF TypeOK
<1>9. Intact(s)'
    <2>1. IsCut(entries[s])' /\ Bounded(entries[s])'
        <3>1. IsCut(e) /\ Bounded(e)
            BY <1>1 DEF Intact, e
        <3> QED BY <1>2, <1>7, <3>1 DEF IsCut, Bounded, Dirty
    <2>2. Serial(s)' /\ \A u \in Calls(s)' : Captures(s, u)'
        BY <1>2, <1>5, <1>7 DEF Serial
    <2>3. Counted(s)' /\ Owned(s)' /\ (1..Settled(s) \subseteq extracted[s])'
        <3>1. Counted(s) /\ Owned(s) /\ 1..Settled(s) \subseteq extracted[s]
            BY <1>1 DEF Intact
        <3>2. Counted(s)'
            BY <1>1, <1>2, <1>3, <1>7, <3>1 DEF Counted, e
        <3>3. Owned(s)'
            BY <1>2, <1>3, <1>7, <3>1 DEF Owned, e
        <3>4. Settled(s)' = Settled(s)
            BY <1>1, <1>2, <1>3, <1>7 DEF Settled, e
        <3> QED BY <1>3, <3>1, <3>2, <3>3, <3>4
    <2> QED BY <2>1, <2>2, <2>3 DEF Intact
<1>10. \A r \in Sessions : Intact(r)'
    BY <1>1, <1>3, <1>6, <1>7, <1>9, WorkOf
<1> QED BY <1>8, <1>10 DEF Inv

\* Entering commit_session_memory keeps the invariant.
LEMMA EnterCommitInv ==
    ASSUME Inv, NEW t \in Threads, EnterCommit(t)
    PROVE  Inv'
<1> SUFFICES ASSUME NEW s \in Sessions, s = call[t].sid PROVE Inv'
    BY DEF Inv, TypeOK, Call
<1>1. TypeOK /\ call[t].arg \in Handles /\ UNCHANGED <<shutdown, history>> /\ pc[t] = "entering"
    BY DEF EnterCommit, Inv, TypeOK, Call
<1>2. CASE ~entries[s].inFlight /\ StartCall(t, s, call[t].arg)
    BY <1>1, <1>2, StartCallInv
<1>3. CASE ReturnFalse(t)
    <2>1. /\ pc' \in [Threads -> PCs] /\ call' \in [Threads -> Call] /\ pc'[t] # "calling"
          /\ \A u \in Threads \ {t} : pc'[u] = pc[u] /\ call'[u] = call[u]
        BY <1>1, <1>3, ReturnsType DEF ReturnFalse
    <2> QED BY <1>1, <1>3, <2>1, QuietInv DEF ReturnFalse, shutdown, history
<1>4. CASE pc' = [pc EXCEPT ![t] = "waiting"] /\ UNCHANGED <<entries, call>>
    <2>1. /\ pc' \in [Threads -> PCs] /\ call' \in [Threads -> Call] /\ pc'[t] # "calling"
          /\ \A u \in Threads \ {t} : pc'[u] = pc[u] /\ call'[u] = call[u]
        BY <1>1, <1>4 DEF TypeOK, PCs, CommitPCs
    <2> QED BY <1>1, <1>4, <2>1, QuietInv DEF shutdown, history
<1> QED BY <1>2, <1>3, <1>4 DEF EnterCommit

\* Waking up from _condition.wait keeps the invariant: the guard is tested again.
LEMMA WakeUpInv ==
    ASSUME Inv, NEW t \in Threads, WakeUp(t)
    PROVE  Inv'
<1> SUFFICES ASSUME NEW s \in Sessions, s = call[t].sid PROVE Inv'
    BY DEF Inv, TypeOK, Call
<1>1. /\ TypeOK /\ call[t].arg \in Handles /\ UNCHANGED <<shutdown, history>>
      /\ pc[t] = "waiting" /\ ~entries[s].inFlight
    BY DEF WakeUp, Inv, TypeOK, Call
<1>2. CASE StartCall(t, s, call[t].arg)
    BY <1>1, <1>2, StartCallInv
<1>3. CASE ReturnFalse(t)
    <2>1. /\ pc' \in [Threads -> PCs] /\ call' \in [Threads -> Call] /\ pc'[t] # "calling"
          /\ \A u \in Threads \ {t} : pc'[u] = pc[u] /\ call'[u] = call[u]
        BY <1>1, <1>3, ReturnsType DEF ReturnFalse
    <2> QED BY <1>1, <1>3, <2>1, QuietInv DEF ReturnFalse, shutdown, history
<1> QED BY <1>2, <1>3 DEF WakeUp
-----------------------------------------------------------------------------
(***************************************************************************)
(* Eviction.                                                               *)
(***************************************************************************)
LEMMA ArgumentsType ==
    ASSUME NEW s \in Sessions, NEW a \in Handles, NEW wait \in BOOLEAN, NEW then \in After
    PROVE  Arguments(s, a, wait, then) \in Call
BY ConstantTypes DEF Arguments, Call

\* Starting an eviction keeps the invariant.
LEMMA EvictInv ==
    ASSUME Inv, NEW t \in Threads, NEW s \in Sessions, NEW a \in Agents, Evict(t, s, a)
    PROVE  Inv'
<1>1. Arguments(s, a, TRUE, "evictCheck") \in Call
    BY ArgumentsType DEF Handles, After
<1>2. TypeOK /\ pc[t] # "calling" /\ UNCHANGED <<entries, shutdown, history>>
    BY DEF Inv, Evict, Idle
<1>3. [call[t] EXCEPT !.sid = s] \in Call
    BY <1>2 DEF TypeOK, Call
<1>4. call' \in [Threads -> Call]
    BY <1>1, <1>2, <1>3 DEF Evict, TypeOK
<1>5. pc' \in [Threads -> PCs] /\ pc'[t] # "calling"
    BY <1>2 DEF Evict, TypeOK, PCs, CommitPCs, After
<1>6. \A u \in Threads \ {t} : pc'[u] = pc[u] /\ call'[u] = call[u]
    BY <1>2 DEF Evict, TypeOK
<1> QED BY <1>2, <1>4, <1>5, <1>6, QuietInv DEF shutdown, history

\* A thread that finishes is idle, and the others are as they were.
LEMMA FinishType ==
    ASSUME TypeOK, NEW t \in Threads, Finish(t)
    PROVE  /\ pc' \in [Threads -> PCs] /\ call' \in [Threads -> Call] /\ pc'[t] # "calling"
           /\ \A u \in Threads \ {t} : pc'[u] = pc[u] /\ call'[u] = call[u]
BY ConstantTypes DEF TypeOK, Finish, PCs, After, Idle

\* The dirty test of an eviction keeps the invariant.
LEMMA EvictCheckInv ==
    ASSUME Inv, NEW t \in Threads, EvictCheck(t)
    PROVE  Inv'
<1>1. TypeOK /\ pc[t] # "calling" /\ UNCHANGED <<entries, shutdown, history>>
    BY DEF Inv, EvictCheck
<1>2. CASE Finish(t)
    BY <1>1, <1>2, FinishType, QuietInv DEF shutdown, history
<1>3. CASE pc' = [pc EXCEPT ![t] = "evictUnregister"] /\ UNCHANGED call
    <2>1. /\ pc' \in [Threads -> PCs] /\ call' \in [Threads -> Call] /\ pc'[t] # "calling"
          /\ \A u \in Threads \ {t} : pc'[u] = pc[u] /\ call'[u] = call[u]
        BY <1>1, <1>3 DEF TypeOK, PCs
    <2> QED BY <1>1, <2>1, QuietInv DEF shutdown, history
<1> QED BY <1>2, <1>3 DEF EvictCheck

\* An eviction that forgets the agent keeps the invariant.
LEMMA EvictUnregisterInv ==
    ASSUME Inv, NEW t \in Threads, EvictUnregister(t)
    PROVE  Inv'
<1> SUFFICES ASSUME NEW s \in Sessions, s = call[t].sid PROVE Inv'
    BY DEF Inv, TypeOK, Call
<1> DEFINE f == [entries[s] EXCEPT !.agent = NoAgent]
<1>1. TypeOK /\ entries[s] \in Entry /\ pc[t] # "calling" /\ UNCHANGED <<shutdown, history>>
    BY DEF Inv, TypeOK, EvictUnregister
<1>2. /\ pc' \in [Threads -> PCs] /\ call' \in [Threads -> Call] /\ pc'[t] # "calling"
      /\ \A u \in Threads \ {t} : pc'[u] = pc[u] /\ call'[u] = call[u]
    BY <1>1 DEF TypeOK, EvictUnregister, PCs
<1>3. CASE entries[s].present
    <2>1. f \in Entry /\ f.present /\ SameWork(entries[s], f)
        BY <1>1, <1>3 DEF Entry, Handles, SameWork
    <2>2. entries' = [entries EXCEPT ![s] = f]
        BY <1>3 DEF EvictUnregister
    <2> HIDE DEF f
    <2>3. /\ entries'[s] = f /\ \A r \in Sessions \ {s} : entries'[r] = entries[r]
          /\ entries' \in [Sessions -> Entry]
          /\ \A r \in Sessions : ~entries'[r].present => entries'[r] = Absent
        BY <1>1, <2>1, <2>2, PutEntry
    <2>4. \A r \in Sessions : SameWork(entries[r], entries'[r])
        BY <2>1, <2>3 DEF SameWork
    <2>5. \A r \in Sessions : Intact(r)'
        BY <1>1, <1>2, <2>4, NoWork DEF history
    <2>6. TypeOK'
        BY <1>1, <1>2, <2>3 DEF TypeOK, shutdown, history, Drain
    <2> QED BY <2>5, <2>6 DEF Inv
<1>4. CASE ~entries[s].present
    <2>1. UNCHANGED entries
        BY <1>4 DEF EvictUnregister
    <2> QED BY <1>1, <1>2, <2>1, QuietInv DEF shutdown, history
<1> QED BY <1>3, <1>4

\* An eviction that forgets the entry keeps the invariant: nothing was left to commit.
LEMMA EvictDiscardInv ==
    ASSUME Inv, NEW t \in Threads, EvictDiscard(t)
    PROVE  Inv'
<1> SUFFICES ASSUME NEW s \in Sessions, s = call[t].sid PROVE Inv'
    BY DEF Inv, TypeOK, Call
<1> DEFINE e == entries[s]
<1>1. TypeOK /\ e \in Entry /\ Intact(s) /\ pc[t] # "calling" /\ UNCHANGED <<shutdown, history>>
    BY DEF Inv, TypeOK, EvictDiscard
<1>2. /\ pc' \in [Threads -> PCs] /\ call' \in [Threads -> Call] /\ pc'[t] # "calling"
      /\ \A u \in Threads \ {t} : pc'[u] = pc[u] /\ call'[u] = call[u]
    BY <1>1, FinishType DEF EvictDiscard
<1>3. CASE e.present /\ ~e.inFlight /\ ~Dirty(e)
    <2>1. entries' = [entries EXCEPT ![s] = Absent]
        BY <1>3 DEF EvictDiscard, DiscardSession
    <2>2. /\ entries'[s] = Absent /\ \A r \in Sessions \ {s} : entries'[r] = entries[r]
          /\ entries' \in [Sessions -> Entry]
          /\ \A r \in Sessions : ~entries'[r].present => entries'[r] = Absent
        BY <1>1, <2>1, PutEntry, ConstantTypes
    <2>3. TypeOK'
        BY <1>1, <1>2, <2>2 DEF TypeOK, shutdown, history, Drain
    <2>4. \A r \in Sessions : Calls(r)' = Calls(r) /\ \A u \in Calls(r) : call'[u] = call[u]
        BY <1>1, <1>2 DEF Calls
    <2>5. Calls(s)' = {}
        BY <1>1, <1>3, <2>4 DEF Intact, Serial
    <2>6. UNCHANGED <<turns, base, extracted>>
        BY <1>1 DEF history
    <2>7. Len(turns[s]) = base[s] + e.committed
        <3>1. e.committed \in Nat /\ e.generation \in Nat /\ e.committed <= e.generation
            BY <1>1 DEF Intact, IsCut, Entry
        <3>2. e.committed = e.generation
            BY <1>3, <3>1 DEF Dirty
        <3> QED BY <1>1, <1>3, <3>2 DEF Intact, Counted
    <2>8. Settled(s)' = Settled(s)
        BY <1>3, <2>2, <2>6, <2>7 DEF Settled, Absent
    <2>9. Intact(s)'
        <3>1. IsCut(Absent) /\ Bounded(Absent)
            BY DEF Absent, IsCut, Bounded, Dirty
        <3>2. Serial(s)' /\ \A u \in Calls(s)' : Captures(s, u)'
            BY <2>2, <2>5 DEF Serial, Absent
        <3>3. Counted(s)' /\ Owned(s)'
            BY <2>2 DEF Counted, Owned, Absent
        <3>4. (1..Settled(s) \subseteq extracted[s])'
            BY <1>1, <2>6, <2>8 DEF Intact
        <3> QED BY <2>2, <3>1, <3>2, <3>3, <3>4 DEF Intact
    <2>10. \A r \in Sessions : Intact(r)'
        BY <2>2, <2>4, <2>6, <2>9, WorkOf
    <2> QED BY <2>3, <2>10 DEF Inv
<1>4. CASE ~(e.present /\ ~e.inFlight /\ ~Dirty(e))
    <2>1. UNCHANGED entries
        BY <1>1, <1>4 DEF EvictDiscard, DiscardSession, TypeOK
    <2> QED BY <1>1, <1>2, <2>1, QuietInv DEF shutdown, history
<1> QED BY <1>3, <1>4
-----------------------------------------------------------------------------
(***************************************************************************)
(* Background commits and the shutdown drain.                              *)
(***************************************************************************)
LEMMA BackgroundInv ==
    ASSUME Inv, NEW t \in Threads,
           \/ \E s \in Sessions, a \in Handles : RegisterBackgroundCommitThread(t, s, a)
           \/ UnregisterBackgroundCommitThread(t)
    PROVE  Inv'
<1>1. TypeOK
    BY DEF Inv
<1>2. CASE UnregisterBackgroundCommitThread(t)
    BY <1>1, <1>2, FinishType, ThreadsInv
        DEF UnregisterBackgroundCommitThread, history, TypeOK
<1>3. ASSUME NEW s \in Sessions, NEW a \in Handles, RegisterBackgroundCommitThread(t, s, a)
      PROVE  Inv'
    <2>1. Arguments(s, a, FALSE, "bgDone") \in Call
        BY ArgumentsType DEF After
    <2>2. /\ pc' \in [Threads -> PCs] /\ call' \in [Threads -> Call] /\ pc'[t] # "calling"
          /\ pc[t] # "calling"
          /\ \A u \in Threads \ {t} : pc'[u] = pc[u] /\ call'[u] = call[u]
        BY <1>1, <1>3, <2>1 DEF RegisterBackgroundCommitThread, TypeOK, PCs, CommitPCs, Idle
    <2>3. background' \in SUBSET Threads /\ UNCHANGED <<entries, draining, drain, history>>
        BY <1>1, <1>3 DEF RegisterBackgroundCommitThread, TypeOK
    <2> QED BY <1>1, <2>2, <2>3, ThreadsInv DEF history, TypeOK
<1> QED BY <1>2, <1>3

\* The shutdown drain keeps the invariant.
LEMMA DrainInv ==
    ASSUME Inv, DrainBegins \/ DrainStep \/ DrainExpires
    PROVE  Inv'
<1>1. TypeOK /\ drain \in Drain /\ draining \in BOOLEAN /\ background \in SUBSET Threads
    BY DEF Inv, TypeOK
<1>2. CASE DrainBegins
    <2>1. [s \in Sessions |-> Len(turns[s])] \in [Sessions -> Nat] /\ failures \in Nat
        BY <1>1 DEF TypeOK
    <2>2. drain' \in Drain
        BY <1>2, <2>1, ConstantTypes DEF DrainBegins, Drain
    <2> QED BY <1>1, <1>2, <2>2, DrainsInv DEF DrainBegins, history
<1>3. CASE DrainSnapshotsThreads
    <2>1. drain' \in Drain
        BY <1>1, <1>3 DEF DrainSnapshotsThreads, Drain
    <2> QED BY <1>1, <1>3, <2>1, DrainsInv DEF DrainSnapshotsThreads, history
<1>4. CASE DrainJoined \/ DrainStartsPass \/ DrainEndsPass \/ DrainExpires
    <2>1. DirtySessions \in SUBSET Sessions
        BY DEF DirtySessions
    <2>2. drain' \in Drain
        BY <1>1, <1>4, <2>1
            DEF DrainJoined, DrainStartsPass, DrainEndsPass, DrainExpires, Drain
    <2> QED BY <1>1, <1>4, <2>2, DrainsInv
            DEF DrainJoined, DrainStartsPass, DrainEndsPass, DrainExpires, history
<1>5. ASSUME NEW t \in Threads, DrainJoinsThread(t) PROVE Inv'
    <2>1. drain' \in Drain
        BY <1>1, <1>5 DEF DrainJoinsThread, Drain
    <2> QED BY <1>1, <1>5, <2>1, DrainsInv DEF DrainJoinsThread, history
<1>6. ASSUME NEW t \in Threads, DrainJoinsWorker(t) PROVE Inv'
    <2>1. call[t].ok \in BOOLEAN /\ pc[t] # "calling"
        BY <1>1, <1>6 DEF DrainJoinsWorker, TypeOK, Call
    <2>2. drain' \in Drain
        BY <1>1, <1>6, <2>1 DEF DrainJoinsWorker, Drain
    <2> QED BY <1>1, <1>6, <2>1, <2>2, FinishType, ThreadsInv DEF DrainJoinsWorker, history
<1>7. ASSUME NEW t \in Threads, NEW s \in Sessions, DrainSpawns(t, s) PROVE Inv'
    <2>1. Arguments(s, NoAgent, TRUE, "drainReturned") \in Call
        BY ArgumentsType DEF After, Handles
    <2>2. /\ pc' \in [Threads -> PCs] /\ call' \in [Threads -> Call] /\ pc'[t] # "calling"
          /\ pc[t] # "calling"
          /\ \A u \in Threads \ {t} : pc'[u] = pc[u] /\ call'[u] = call[u]
        BY <1>1, <1>7, <2>1 DEF DrainSpawns, TypeOK, PCs, CommitPCs, Idle
    <2>3. drain' \in Drain
        BY <1>1, <1>7 DEF DrainSpawns, Drain
    <2> QED BY <1>1, <1>7, <2>2, <2>3, ThreadsInv DEF DrainSpawns, history
<1> QED BY <1>2, <1>3, <1>4, <1>5, <1>6, <1>7 DEF DrainStep
-----------------------------------------------------------------------------
\* The invariant holds to begin with ...
LEMMA InitInv == Init => Inv
<1> SUFFICES ASSUME Init PROVE Inv
    OBVIOUS
<1>1. TypeOK
    <2>1. entries \in [Sessions -> Entry] /\ \A s \in Sessions : entries[s] = Absent
        BY ConstantTypes DEF Init
    <2>2. pc \in [Threads -> PCs] /\ call \in [Threads -> Call] /\ drain \in Drain
        BY ConstantTypes DEF Init, PCs, After
    <2>3. turns \in [Sessions -> Seq(Handles)]
        BY DEF Init
    <2> QED BY <2>1, <2>2, <2>3 DEF Init, TypeOK
<1>2. ASSUME NEW s \in Sessions PROVE Intact(s)
    <2>1. entries[s] = Absent /\ turns[s] = <<>> /\ Calls(s) = {}
        BY DEF Init, Calls, Idle
    <2>2. IsCut(Absent) /\ Bounded(Absent)
        BY DEF Absent, IsCut, Bounded, Dirty
    <2>3. Serial(s) /\ Counted(s) /\ Owned(s)
        BY <2>1 DEF Serial, Counted, Owned, Absent
    <2>4. Settled(s) = 0
        BY <2>1 DEF Settled, Absent
    <2> QED BY <2>1, <2>2, <2>3, <2>4 DEF Intact
<1> QED BY <1>1, <1>2 DEF Inv

\* ... and every step keeps it.
LEMMA NextInv == Inv /\ [Next]_vars => Inv'
<1> SUFFICES ASSUME Inv, [Next]_vars PROVE Inv'
    OBVIOUS
<1>1. CASE UNCHANGED vars
    BY <1>1, UnchangedInv DEF vars
<1>2. ASSUME NEW s \in Sessions, NEW a \in Agents, RegisterAgent(s, a) PROVE Inv'
    BY <1>2, RegisterAgentInv
<1>3. ASSUME NEW s \in Sessions, UnregisterAgent(s) PROVE Inv'
    BY <1>3, UnregisterAgentInv
<1>4. ASSUME NEW s \in Sessions, NEW a \in MarkAgents, MarkTurnCompleted(s, a) PROVE Inv'
    BY <1>4, MarkTurnCompletedInv
<1>5. ASSUME NEW t \in Threads, ThreadStep(t) PROVE Inv'
    BY <1>5, EnterCommitInv, WakeUpInv, EvictCheckInv, EvictUnregisterInv, EvictDiscardInv,
       BackgroundInv DEF ThreadStep
<1>6. ASSUME NEW t \in Threads, CallSucceeds(t) PROVE Inv'
    <2>1. call[t].sid \in Sessions
        BY DEF Inv, TypeOK, Call
    <2> QED BY <1>6, <2>1, CallSucceedsInv
<1>7. ASSUME NEW t \in Threads, CallFails(t) PROVE Inv'
    <2>1. call[t].sid \in Sessions
        BY DEF Inv, TypeOK, Call
    <2> QED BY <1>7, <2>1, CallFailsInv
<1>8. ASSUME NEW t \in Threads, NEW s \in Sessions, NEW a \in Agents, Evict(t, s, a) PROVE Inv'
    BY <1>8, EvictInv
<1>9. ASSUME NEW t \in Threads, NEW s \in Sessions, NEW a \in Handles,
             RegisterBackgroundCommitThread(t, s, a)
      PROVE  Inv'
    BY <1>9, BackgroundInv
<1>10. CASE DrainBegins \/ DrainStep \/ DrainExpires
    BY <1>10, DrainInv
<1> QED BY <1>1, <1>2, <1>3, <1>4, <1>5, <1>6, <1>7, <1>8, <1>9, <1>10 DEF Next

(***************************************************************************)
(* The invariant holds in every reachable state.                           *)
(***************************************************************************)
THEOREM Invariance == Spec => []Inv
<1> QED BY InitInv, NextInv, PTL DEF Spec

(***************************************************************************)
(* Every variable of the lifecycle stays in its type.                      *)
(***************************************************************************)
THEOREM TypeCorrect == Spec => []TypeOK
<1>1. Inv => TypeOK
    BY DEF Inv
<1> QED BY <1>1, Invariance, PTL

(***************************************************************************)
(* in_flight admits one provider call per session at a time: overlapping   *)
(* commits of any number of threads are serialised.                        *)
(***************************************************************************)
THEOREM OneCallPerSession == Spec => []CommitsAreSerialised
<1>1. Inv => CommitsAreSerialised
    BY DEF Inv, Intact, Serial, CommitsAreSerialised
<1> QED BY <1>1, Invariance, PTL

(***************************************************************************)
(* mark_turn_completed and the success path of commit_session_memory keep  *)
(* the uncommitted generations cut into segments that follow one another,  *)
(* and the one a call captured stays the first until it returns.           *)
(***************************************************************************)
THEOREM WorkIsCutIntoSegments == Spec => []SegmentsCutTheUncommittedWork
<1>1. Inv => SegmentsCutTheUncommittedWork
    BY DEF Inv, Intact, Captures, SegmentsCutTheUncommittedWork
<1> QED BY <1>1, Invariance, PTL

(***************************************************************************)
(* A turn not yet committed is in a segment of the agent that completed    *)
(* it, whatever was registered, failed or evicted in the meantime.         *)
(***************************************************************************)
THEOREM WorkStaysWithItsOwner == Spec => []DirtyTurnsKeepTheirOwner
<1>1. Inv => DirtyTurnsKeepTheirOwner
    BY DEF Inv, Intact, Owned, DirtyTurnsKeepTheirOwner
<1> QED BY <1>1, Invariance, PTL

(***************************************************************************)
(* No turn is counted as committed, and no entry forgotten, before the     *)
(* turn's own agent has extracted it.                                      *)
(***************************************************************************)
THEOREM NothingIsSettledUnextracted == Spec => []CommittedTurnsWereExtracted
<1>1. Inv => CommittedTurnsWereExtracted
    BY DEF Inv, Intact, CommittedTurnsWereExtracted
<1> QED BY <1>1, Invariance, PTL
-----------------------------------------------------------------------------
(***************************************************************************)
(* The shutdown drain.  It works by one thread at a time, until its budget *)
(* is spent.                                                               *)
(***************************************************************************)
AllOwned(s) == \A i \in 1..Len(turns[s]) : turns[s][i] # NoAgent

\* What was complete when the drain began has been extracted.
Delivered(s) == 1..drain.goal[s] \subseteq extracted[s]

InDrainCommit(t) == pc[t] \in CommitPCs /\ call[t].then = "drainReturned"

DrainWorker(t) == InDrainCommit(t) \/ pc[t] = "drainReturned"

\* The drain will hear of a commit that did something, or is not through with it.
WorksOn(t, s) == DrainWorker(t) /\ call[t].sid = s /\ (pc[t] \in CommitPCs \/ call[t].ok)

DrainIsRemembered ==
    /\ \A s \in Sessions : drain.goal[s] <= Len(turns[s])
    /\ IF drain.pc = "off" THEN ~drain.expired ELSE drain.failed <= failures
    /\ drain.pc = "done" /\ ~drain.expired => drain.todo = {} /\ ~drain.progress

\* No second thread works for the drain, and the one that does waits its turn.
DrainWorksAlone ==
    /\ \A t \in Threads : InDrainCommit(t) => call[t].wait
    /\ ~drain.expired =>
          /\ \A t, u \in Threads : DrainWorker(t) /\ DrainWorker(u) => t = u
          /\ \A t \in Threads : DrainWorker(t) => drain.pc = "worker"

Unhindered == ~drain.expired /\ failures = drain.failed

\* In a pass without progress nothing was left to do for the sessions it is past.
PassesAreThorough ==
    Unhindered /\ ~drain.progress /\ drain.pc \in {"next", "worker", "done"} =>
        \A s \in Sessions \ drain.todo :
            AllOwned(s) => Delivered(s) \/ \E t \in Threads : WorksOn(t, s)

DrainedInv == DrainIsRemembered /\ DrainWorksAlone /\ PassesAreThorough

\* What a step that is not the drain's does to a thread at work for it: the
\* thread goes on, or its call raises, or what it was to bring home is there.
GoesOn(t) ==
    /\ DrainWorker(t)' => DrainWorker(t)
    /\ InDrainCommit(t)' => call'[t].wait
    /\ \A s \in Sessions :
          WorksOn(t, s) =>
              \/ WorksOn(t, s)'
              \/ failures' > failures
              \/ AllOwned(s) => 1..drain.goal[s] \subseteq extracted'[s]

HistoryGrows ==
    /\ failures <= failures'
    /\ \A s \in Sessions :
          /\ Len(turns[s]) <= Len(turns'[s]) /\ extracted[s] \subseteq extracted'[s]
          /\ AllOwned(s)' => AllOwned(s)
-----------------------------------------------------------------------------
\* A commit that cannot start finds nothing to do, if every turn had an owner.
LEMMA NothingToStart ==
    ASSUME Inv, NEW s \in Sessions, NEW a \in Handles, ~CanStartCall(entries[s], a), AllOwned(s)
    PROVE  1..Len(turns[s]) \subseteq extracted[s]
<1> DEFINE e == entries[s]
<1>1. e \in Entry /\ IsCut(e) /\ Counted(s) /\ Owned(s) /\ 1..Settled(s) \subseteq extracted[s]
    BY DEF Inv, Intact, TypeOK
<1>2. /\ e.committed \in Nat /\ e.generation \in Nat /\ base[s] \in Nat
      /\ Len(e.segments) \in Nat /\ Len(turns[s]) \in Nat
    BY <1>1, SegmentsType DEF Inv, TypeOK
<1>3. CASE ~e.present
    BY <1>1, <1>3 DEF Settled
<1>4. CASE e.present /\ ~Dirty(e)
    <2>1. e.committed = e.generation
        BY <1>1, <1>2, <1>4 DEF IsCut, Dirty
    <2>2. Settled(s) = Len(turns[s])
        BY <1>1, <1>4, <2>1 DEF Settled, Counted
    <2> QED BY <1>1, <2>2
<1>5. CASE e.present /\ Dirty(e)
    <2> DEFINE seg == e.segments[1]
    <2>1. Len(e.segments) > 0 /\ 1 \in 1..Len(e.segments)
        BY <1>1, <1>2, <1>5 DEF IsCut
    <2>2. seg \in Segment /\ seg.start \in Nat /\ seg.end \in Nat
        BY <1>1, <2>1, SegmentsType
    <2>3. seg.start = e.committed + 1 /\ seg.start <= seg.end /\ seg.start <= e.generation
        BY <1>1, <1>2, <1>5, <2>1 DEF IsCut, Dirty
    <2>4. FirstBeyond(e.segments, e.committed) = 1
        BY <1>1, CutStarts
    <2>5. seg.agent # NoAgent
        <3>1. base[s] + seg.start \in 1..Len(turns[s])
            BY <1>1, <1>2, <1>5, <2>2, <2>3 DEF Counted
        <3>2. turns[s][base[s] + seg.start] # NoAgent
            BY <3>1 DEF AllOwned
        <3>3. seg.start \in seg.start..seg.end
            BY <2>2, <2>3
        <3> QED BY <1>1, <2>1, <3>2, <3>3 DEF Owned
    <2>6. EffectiveAgent(e, a) # NoAgent
        BY <2>4, <2>5 DEF EffectiveAgent, FirstUncommittedSegment
    <2> QED BY <1>5, <2>1, <2>4, <2>6 DEF CanStartCall, HasUncommittedSegment
<1> QED BY <1>3, <1>4, <1>5

\* The drain's pass stays thorough while the others, and its worker, go on.
LEMMA WorkGoesOn ==
    ASSUME Inv, Inv', DrainedInv, drain' = drain, HistoryGrows, \A t \in Threads : GoesOn(t)
    PROVE  DrainedInv'
<1>1. DrainIsRemembered'
    <2>1. drain \in Drain /\ failures \in Nat /\ failures' \in Nat
        BY DEF Inv, TypeOK
    <2>2. ASSUME NEW s \in Sessions PROVE drain'.goal[s] <= Len(turns'[s])
        <3>1. /\ drain.goal[s] \in Nat /\ Len(turns[s]) \in Nat /\ Len(turns'[s]) \in Nat
            BY <2>1 DEF Inv, TypeOK, Drain
        <3>2. drain.goal[s] <= Len(turns[s]) /\ Len(turns[s]) <= Len(turns'[s])
            BY DEF DrainedInv, DrainIsRemembered, HistoryGrows
        <3> QED BY <3>1, <3>2
    <2>3. drain'.pc # "off" => drain'.failed <= failures'
        BY <2>1 DEF DrainedInv, DrainIsRemembered, HistoryGrows, Drain
    <2> QED BY <2>2, <2>3 DEF DrainedInv, DrainIsRemembered
<1>2. DrainWorksAlone'
    BY DEF DrainedInv, DrainWorksAlone, GoesOn
<1>3. PassesAreThorough'
    <2> SUFFICES ASSUME Unhindered', ~drain.progress, drain.pc \in {"next", "worker", "done"},
                        NEW s \in Sessions \ drain.todo, AllOwned(s)'
                 PROVE  Delivered(s)' \/ \E t \in Threads : WorksOn(t, s)'
        BY DEF PassesAreThorough
    <2>1. failures = drain.failed /\ failures' = failures /\ ~drain.expired
        BY DEF DrainedInv, DrainIsRemembered, Unhindered, HistoryGrows, Inv, TypeOK, Drain
    <2>2. AllOwned(s)
        BY DEF HistoryGrows
    <2>3. Delivered(s) \/ \E t \in Threads : WorksOn(t, s)
        BY <2>1, <2>2 DEF DrainedInv, PassesAreThorough, Unhindered
    <2>4. CASE Delivered(s)
        BY <2>4 DEF Delivered, HistoryGrows
    <2>5. ASSUME NEW t \in Threads, WorksOn(t, s)
          PROVE  Delivered(s)' \/ WorksOn(t, s)'
        <3>1. ~(failures' > failures)
            BY <2>1 DEF Inv, TypeOK
        <3> QED BY <2>2, <2>5, <3>1 DEF GoesOn, Delivered
    <2> QED BY <2>3, <2>4, <2>5
<1> QED BY <1>1, <1>2, <1>3 DEF DrainedInv

\* A thread that did nothing goes on.
LEMMA StandingGoesOn ==
    ASSUME DrainedInv, NEW t \in Threads, pc'[t] = pc[t], call'[t] = call[t]
    PROVE  GoesOn(t)
BY DEF GoesOn, DrainWorker, InDrainCommit, WorksOn, DrainedInv, DrainWorksAlone

\* So does one that begins, or leaves, some other work.
LEMMA OtherWorkGoesOn ==
    ASSUME DrainedInv, NEW t \in Threads, ~DrainWorker(t), ~DrainWorker(t)'
    PROVE  GoesOn(t)
BY DEF GoesOn, DrainWorker, WorksOn

\* And one that keeps its arguments in its commit.
LEMMA CommittingGoesOn ==
    ASSUME DrainedInv, NEW t \in Threads, pc[t] \in CommitPCs, pc'[t] \in CommitPCs,
           call'[t].sid = call[t].sid, call'[t].then = call[t].then, call'[t].wait = call[t].wait
    PROVE  GoesOn(t)
BY DEF GoesOn, DrainWorker, InDrainCommit, WorksOn, DrainedInv, DrainWorksAlone, CommitPCs

\* A commit of the drain returns False when its call has raised, or nothing was left.
LEMMA ReturningGoesOn ==
    ASSUME Inv, DrainedInv, NEW t \in Threads, NEW ok \in BOOLEAN, Returns(t, ok),
           pc[t] \in CommitPCs,
           \/ ok \/ failures' > failures
           \/ \A s \in Sessions : InDrainCommit(t) /\ call[t].sid = s =>
                  (AllOwned(s) => 1..drain.goal[s] \subseteq extracted'[s])
    PROVE  GoesOn(t)
<1>1. call[t] \in Call /\ pc \in [Threads -> PCs] /\ call \in [Threads -> Call]
    BY DEF Inv, TypeOK
<1>2. /\ pc'[t] = call[t].then /\ call'[t] = [NoCall EXCEPT !.sid = call[t].sid, !.ok = ok]
      /\ call[t].then \in After
    BY <1>1 DEF Returns, Call
<1>3. /\ call'[t].sid = call[t].sid /\ call'[t].ok = ok /\ call'[t].then = Idle
    BY <1>2 DEF NoCall
<1>4. pc'[t] \notin CommitPCs /\ pc[t] # "drainReturned"
    BY <1>2 DEF After, CommitPCs, Idle
<1>5. DrainWorker(t)' => DrainWorker(t)
    BY <1>2, <1>3, <1>4 DEF DrainWorker, InDrainCommit
<1>6. ~InDrainCommit(t)'
    BY <1>4 DEF InDrainCommit
<1>7. ASSUME NEW s \in Sessions, WorksOn(t, s)
      PROVE  \/ WorksOn(t, s)' \/ failures' > failures
             \/ AllOwned(s) => 1..drain.goal[s] \subseteq extracted'[s]
    <2>1. InDrainCommit(t) /\ call[t].sid = s
        BY <1>4, <1>7 DEF WorksOn, DrainWorker
    <2>2. CASE ok
        BY <1>2, <1>3, <2>1, <2>2 DEF WorksOn, DrainWorker, InDrainCommit
    <2> QED BY <2>1, <2>2
<1> QED BY <1>5, <1>6, <1>7 DEF GoesOn

\* A thread's commit moves on: it waits, calls, or returns False.
LEMMA CommitsGoOn ==
    ASSUME Inv, DrainedInv, NEW t \in Threads, EnterCommit(t) \/ WakeUp(t)
    PROVE  drain' = drain /\ HistoryGrows /\ \A u \in Threads : GoesOn(u)
<1> SUFFICES ASSUME NEW s \in Sessions, s = call[t].sid
             PROVE  drain' = drain /\ HistoryGrows /\ \A u \in Threads : GoesOn(u)
    BY DEF Inv, TypeOK, Call
<1>1. /\ UNCHANGED <<drain, turns, extracted, failures>> /\ pc[t] \in {"entering", "waiting"}
      /\ call[t] \in Call /\ pc \in [Threads -> PCs] /\ call \in [Threads -> Call]
      /\ call[t].arg \in Handles
    BY DEF EnterCommit, WakeUp, shutdown, history, Inv, TypeOK, Call
<1>2. HistoryGrows
    BY <1>1 DEF HistoryGrows, AllOwned, Inv, TypeOK
<1>3. CASE StartCall(t, s, call[t].arg)
    <2>1. /\ pc'[t] = "calling" /\ call'[t].sid = call[t].sid
          /\ call'[t].then = call[t].then /\ call'[t].wait = call[t].wait
          /\ \A u \in Threads \ {t} : pc'[u] = pc[u] /\ call'[u] = call[u]
        BY <1>1, <1>3 DEF StartCall, Call
    <2>2. \A u \in Threads \ {t} : GoesOn(u)
        BY <2>1, StandingGoesOn
    <2>3. GoesOn(t)
        BY <1>1, <2>1, CommittingGoesOn DEF CommitPCs
    <2> QED BY <1>1, <1>2, <2>2, <2>3
<1>4. CASE pc' = [pc EXCEPT ![t] = "waiting"] /\ UNCHANGED <<entries, call>>
    <2>1. \A u \in Threads \ {t} : GoesOn(u)
        BY <1>1, <1>4, StandingGoesOn
    <2>2. GoesOn(t)
        BY <1>1, <1>4, CommittingGoesOn DEF CommitPCs
    <2> QED BY <1>1, <1>2, <2>1, <2>2
<1>5. CASE ReturnFalse(t) /\ (~call[t].wait \/ ~CanStartCall(entries[s], call[t].arg))
    <2>1. Returns(t, FALSE)
        BY <1>5 DEF ReturnFalse
    <2>2. \A u \in Threads \ {t} : pc'[u] = pc[u] /\ call'[u] = call[u]
        BY <1>1, <2>1 DEF Returns
    <2>3. \A u \in Threads \ {t} : GoesOn(u)
        BY <2>2, StandingGoesOn
    <2>4. ASSUME InDrainCommit(t), AllOwned(s)
          PROVE  1..drain.goal[s] \subseteq extracted'[s]
        <3>1. call[t].wait
            BY <2>4 DEF DrainedInv, DrainWorksAlone
        <3>2. 1..Len(turns[s]) \subseteq extracted[s]
            BY <1>1, <1>5, <2>4, <3>1, NothingToStart
        <3>3. drain.goal[s] <= Len(turns[s]) /\ drain.goal[s] \in Nat /\ Len(turns[s]) \in Nat
            BY DEF DrainedInv, DrainIsRemembered, Inv, TypeOK, Drain
        <3> QED BY <1>1, <3>2, <3>3
    <2>5. GoesOn(t)
        BY <1>1, <2>1, <2>4, ReturningGoesOn DEF CommitPCs
    <2> QED BY <1>1, <1>2, <2>3, <2>5
<1> QED BY <1>3, <1>4, <1>5 DEF EnterCommit, WakeUp

\* A call returns: a success is brought home.
LEMMA CallsGoOn ==
    ASSUME Inv, DrainedInv, NEW t \in Threads, CallSucceeds(t) \/ CallFails(t)
    PROVE  drain' = drain /\ HistoryGrows /\ \A u \in Threads : GoesOn(u)
<1>1. /\ UNCHANGED <<drain, turns>> /\ pc[t] \in CommitPCs /\ failures \in Nat
      /\ pc \in [Threads -> PCs] /\ call \in [Threads -> Call]
      /\ extracted \in [Sessions -> SUBSET Nat]
    BY DEF CallSucceeds, CallFails, shutdown, CommitPCs, Inv, TypeOK
<1>2. CASE CallSucceeds(t)
    <2>1. Returns(t, TRUE) /\ failures' = failures
        BY <1>2 DEF CallSucceeds
    <2>2. \A s \in Sessions : extracted[s] \subseteq extracted'[s]
        BY <1>1, <1>2 DEF CallSucceeds
    <2>3. HistoryGrows
        BY <1>1, <2>1, <2>2 DEF HistoryGrows, AllOwned, Inv, TypeOK
    <2>4. \A u \in Threads \ {t} : pc'[u] = pc[u] /\ call'[u] = call[u]
        BY <1>1, <2>1 DEF Returns
    <2>5. \A u \in Threads \ {t} : GoesOn(u)
        BY <2>4, StandingGoesOn
    <2>6. GoesOn(t)
        BY <1>1, <2>1, ReturningGoesOn
    <2> QED BY <1>1, <2>3, <2>5, <2>6
<1>3. CASE CallFails(t)
    <2>1. Returns(t, FALSE) /\ failures' = failures + 1 /\ extracted' = extracted
        BY <1>3 DEF CallFails
    <2>2. HistoryGrows /\ failures' > failures
        BY <1>1, <2>1 DEF HistoryGrows, AllOwned, Inv, TypeOK
    <2>3. \A u \in Threads \ {t} : pc'[u] = pc[u] /\ call'[u] = call[u]
        BY <1>1, <2>1 DEF Returns
    <2>4. \A u \in Threads \ {t} : GoesOn(u)
        BY <2>3, StandingGoesOn
    <2>5. GoesOn(t)
        BY <1>1, <2>1, <2>2, ReturningGoesOn
    <2> QED BY <1>1, <2>2, <2>4, <2>5
<1> QED BY <1>2, <1>3

\* Evictions and background commits are not the drain's work.
LEMMA OthersGoOn ==
    ASSUME Inv, DrainedInv, NEW t \in Threads,
           \/ EvictCheck(t) \/ EvictUnregister(t) \/ EvictDiscard(t)
           \/ UnregisterBackgroundCommitThread(t)
           \/ \E s \in Sessions, a \in Agents : Evict(t, s, a)
           \/ \E s \in Sessions, a \in Handles : RegisterBackgroundCommitThread(t, s, a)
    PROVE  drain' = drain /\ HistoryGrows /\ \A u \in Threads : GoesOn(u)
<1>1. /\ UNCHANGED <<drain, turns, extracted, failures>>
      /\ pc \in [Threads -> PCs] /\ call \in [Threads -> Call]
    BY DEF EvictCheck, EvictUnregister, EvictDiscard, UnregisterBackgroundCommitThread, Evict,
           RegisterBackgroundCommitThread, shutdown, history, Inv, TypeOK
<1>2. HistoryGrows
    BY <1>1 DEF HistoryGrows, AllOwned, Inv, TypeOK
<1>3. \A u \in Threads \ {t} : pc'[u] = pc[u] /\ call'[u] = call[u]
    BY <1>1 DEF EvictCheck, EvictUnregister, EvictDiscard, UnregisterBackgroundCommitThread,
           Evict, RegisterBackgroundCommitThread, Finish
<1>4. ~DrainWorker(t)
    BY DEF EvictCheck, EvictUnregister, EvictDiscard, UnregisterBackgroundCommitThread, Evict,
           RegisterBackgroundCommitThread, DrainWorker, InDrainCommit, CommitPCs, Idle
<1>5. \/ pc'[t] \in {Idle, "evictCheck", "evictUnregister", "evictDiscard"}
      \/ pc'[t] = "entering" /\ call'[t].then \in {"evictCheck", "bgDone"}
    <2>1. CASE EvictCheck(t)
        BY <1>1, <2>1 DEF EvictCheck, Finish
    <2>2. CASE EvictUnregister(t)
        BY <1>1, <2>2 DEF EvictUnregister
    <2>3. CASE EvictDiscard(t)
        BY <1>1, <2>3 DEF EvictDiscard, Finish
    <2>4. CASE UnregisterBackgroundCommitThread(t)
        BY <1>1, <2>4 DEF UnregisterBackgroundCommitThread, Finish
    <2>5. ASSUME NEW s \in Sessions, NEW a \in Agents, Evict(t, s, a)
          PROVE  \/ pc'[t] = "evictCheck"
                 \/ pc'[t] = "entering" /\ call'[t].then = "evictCheck"
        <3>1. CASE HasUncommittedWork(s)
            <4>1. pc'[t] = "entering" /\ call'[t] = Arguments(s, a, TRUE, "evictCheck")
                BY <1>1, <2>5, <3>1 DEF Evict
            <4> QED BY <4>1 DEF Arguments, NoCall
        <3>2. CASE ~HasUncommittedWork(s)
            BY <1>1, <2>5, <3>2 DEF Evict
        <3> QED BY <3>1, <3>2
    <2>6. ASSUME NEW s \in Sessions, NEW a \in Handles, RegisterBackgroundCommitThread(t, s, a)
          PROVE  pc'[t] = "entering" /\ call'[t].then = "bgDone"
        <3>1. pc'[t] = "entering" /\ call'[t] = Arguments(s, a, FALSE, "bgDone")
            BY <1>1, <2>6 DEF RegisterBackgroundCommitThread
        <3> QED BY <3>1 DEF Arguments, NoCall
    <2> QED BY <2>1, <2>2, <2>3, <2>4, <2>5, <2>6
<1>6. ~DrainWorker(t)'
    BY <1>5 DEF DrainWorker, InDrainCommit, CommitPCs, Idle
<1>7. GoesOn(t)
    BY <1>4, <1>6, OtherWorkGoesOn
<1>8. \A u \in Threads \ {t} : GoesOn(u)
    BY <1>3, StandingGoesOn
<1> QED BY <1>1, <1>2, <1>7, <1>8

\* Nor are agents that come and go, and turns that complete.
LEMMA TurnsGoOn ==
    ASSUME Inv, DrainedInv, NEW s \in Sessions,
           \/ UnregisterAgent(s) \/ \E a \in Agents : RegisterAgent(s, a)
           \/ \E a \in MarkAgents : MarkTurnCompleted(s, a)
    PROVE  drain' = drain /\ HistoryGrows /\ \A u \in Threads : GoesOn(u)
<1>1. UNCHANGED <<drain, pc, call, extracted, failures>>
    BY DEF UnregisterAgent, RegisterAgent, MarkTurnCompleted, shutdown, history
<1>2. \A u \in Threads : GoesOn(u)
    BY <1>1, StandingGoesOn
<1>3. ASSUME NEW r \in Sessions
      PROVE  Len(turns[r]) <= Len(turns'[r]) /\ (AllOwned(r)' => AllOwned(r))
    <2>1. turns \in [Sessions -> Seq(Handles)]
        BY DEF Inv, TypeOK
    <2>2. CASE turns'[r] = turns[r]
        BY <2>1, <2>2 DEF AllOwned
    <2>3. ASSUME NEW owner, turns'[r] = Append(turns[r], owner)
          PROVE  Len(turns[r]) <= Len(turns'[r]) /\ (AllOwned(r)' => AllOwned(r))
        <3>1. Len(turns'[r]) = Len(turns[r]) + 1 /\ Len(turns[r]) \in Nat
            BY <2>1, <2>3
        <3>2. \A i \in 1..Len(turns[r]) : turns'[r][i] = turns[r][i]
            BY <2>1, <2>3
        <3> QED BY <3>1, <3>2 DEF AllOwned
    <2>4. turns'[r] = turns[r] \/ \E owner : turns'[r] = Append(turns[r], owner)
        BY <2>1 DEF UnregisterAgent, RegisterAgent, MarkTurnCompleted, history
    <2> QED BY <2>2, <2>3, <2>4
<1>4. HistoryGrows
    BY <1>1, <1>3 DEF HistoryGrows, Inv, TypeOK
<1> QED BY <1>1, <1>2, <1>4

\* A step of the drain that leaves the threads and the history alone, and has
\* no worker or no budget left, keeps all but the thoroughness of its passes.
LEMMA DrainMovesOn ==
    ASSUME Inv, DrainedInv, UNCHANGED <<pc, call, history>>,
           drain'.goal = drain.goal, drain'.failed = drain.failed,
           drain.pc # "off", drain'.pc # "off",
           drain'.expired \/ drain.pc # "worker", drain.expired => drain'.expired,
           drain'.pc = "done" /\ ~drain'.expired => drain'.todo = {} /\ ~drain'.progress
    PROVE  DrainIsRemembered' /\ DrainWorksAlone'
<1>1. UNCHANGED <<pc, call, turns, failures>>
    BY DEF history
<1>2. DrainIsRemembered'
    BY <1>1 DEF DrainedInv, DrainIsRemembered
<1>3. \A t \in Threads : /\ DrainWorker(t)' <=> DrainWorker(t)
                         /\ InDrainCommit(t)' => call'[t].wait
    BY <1>1 DEF DrainedInv, DrainWorksAlone, DrainWorker, InDrainCommit
<1>4. ~drain'.expired => \A t \in Threads : ~DrainWorker(t)
    BY DEF DrainedInv, DrainWorksAlone
<1> QED BY <1>2, <1>3, <1>4 DEF DrainWorksAlone

\* The drain begins, and waits for the commits in the background.
LEMMA DrainIsSetUp ==
    ASSUME Inv, DrainedInv,
           \/ DrainBegins \/ DrainSnapshotsThreads \/ DrainJoined
           \/ \E t \in Threads : DrainJoinsThread(t)
    PROVE  DrainedInv'
<1>1. CASE DrainBegins
    <2>1. /\ drain.pc = "off" /\ UNCHANGED <<pc, call, turns, failures>>
          /\ drain'.pc = "snapshot" /\ drain'.goal = [s \in Sessions |-> Len(turns[s])]
          /\ drain'.failed = failures
        BY <1>1 DEF DrainBegins, history, NoDrain
    <2>2. \A s \in Sessions : Len(turns[s]) \in Nat
        BY DEF Inv, TypeOK
    <2>3. failures \in Nat
        BY DEF Inv, TypeOK
    <2>4. DrainIsRemembered'
        BY <2>1, <2>2, <2>3 DEF DrainIsRemembered
    <2>5. \A t \in Threads : ~DrainWorker(t)
        BY <2>1 DEF DrainedInv, DrainIsRemembered, DrainWorksAlone
    <2>6. \A t \in Threads : ~DrainWorker(t)' /\ ~InDrainCommit(t)'
        BY <2>1, <2>5 DEF DrainWorker, InDrainCommit
    <2>7. DrainWorksAlone'
        BY <2>6 DEF DrainWorksAlone
    <2> QED BY <2>1, <2>4, <2>7 DEF DrainedInv, PassesAreThorough
<1>2. CASE \/ DrainSnapshotsThreads \/ DrainJoined
           \/ \E t \in Threads : DrainJoinsThread(t)
    <2>1. /\ UNCHANGED <<pc, call, history>> /\ drain.pc \in {"snapshot", "join"}
          /\ drain'.pc \in {"join", "pass"} /\ drain'.expired = drain.expired
          /\ drain'.goal = drain.goal /\ drain'.failed = drain.failed
        BY <1>2 DEF DrainSnapshotsThreads, DrainJoined, DrainJoinsThread, Inv, TypeOK, Drain
    <2>2. drain.expired \in BOOLEAN
        BY DEF Inv, TypeOK, Drain
    <2>3. DrainIsRemembered' /\ DrainWorksAlone'
        BY <2>1, <2>2, DrainMovesOn
    <2> QED BY <2>1, <2>3 DEF DrainedInv, PassesAreThorough
<1> QED BY <1>1, <1>2

\* A pass begins with the dirty sessions: the others have nothing left to do.
LEMMA DrainStartsPassThoroughly ==
    ASSUME Inv, DrainedInv, DrainStartsPass
    PROVE  DrainedInv'
<1>1. /\ UNCHANGED <<entries, pc, call, history>> /\ drain.pc = "pass"
      /\ drain'.pc \in {"done", "next"} /\ drain'.expired = drain.expired
      /\ drain'.goal = drain.goal /\ drain'.failed = drain.failed
      /\ drain'.progress = FALSE
      /\ ~drain.expired => drain'.todo = DirtySessions
      /\ ~drain.expired /\ drain'.pc = "done" => DirtySessions = {}
    BY DEF DrainStartsPass, Inv, TypeOK, Drain
<1>2. drain.expired \in BOOLEAN
    BY DEF Inv, TypeOK, Drain
<1>3. DrainIsRemembered' /\ DrainWorksAlone'
    BY <1>1, <1>2, DrainMovesOn
<1>4. PassesAreThorough'
    <2> SUFFICES ASSUME ~drain.expired, NEW s \in Sessions \ DirtySessions, AllOwned(s)
                 PROVE  1..drain.goal[s] \subseteq extracted[s]
        BY <1>1 DEF PassesAreThorough, Unhindered, Delivered, AllOwned, history
    <2>1. ~CanStartCall(entries[s], NoAgent) /\ NoAgent \in Handles
        BY DEF CanStartCall, DirtySessions, Handles
    <2>2. 1..Len(turns[s]) \subseteq extracted[s]
        BY <2>1, NothingToStart
    <2>3. drain.goal[s] <= Len(turns[s]) /\ drain.goal[s] \in Nat /\ Len(turns[s]) \in Nat
        BY DEF DrainedInv, DrainIsRemembered, Inv, TypeOK, Drain
    <2> QED BY <2>2, <2>3
<1> QED BY <1>3, <1>4 DEF DrainedInv

\* The drain hands one session to a worker of its own.
LEMMA DrainSpawnsOneWorker ==
    ASSUME Inv, DrainedInv, NEW t \in Threads, NEW s \in Sessions, DrainSpawns(t, s)
    PROVE  DrainedInv'
<1>1. /\ pc \in [Threads -> PCs] /\ call \in [Threads -> Call] /\ drain \in Drain
      /\ UNCHANGED history
    BY DEF DrainSpawns, Inv, TypeOK
<1>2. /\ drain.pc = "next" /\ ~drain.expired /\ drain'.pc = "worker"
      /\ drain'.todo = drain.todo \ {s} /\ drain'.expired = drain.expired
      /\ drain'.goal = drain.goal /\ drain'.failed = drain.failed
      /\ drain'.progress = drain.progress
    BY <1>1 DEF DrainSpawns, Drain
<1>3. pc'[t] = "entering" /\ call'[t] = Arguments(s, NoAgent, TRUE, "drainReturned")
    BY <1>1 DEF DrainSpawns
<1>4. call'[t].sid = s /\ call'[t].wait = TRUE /\ call'[t].then = "drainReturned"
    BY <1>3 DEF Arguments, NoCall
<1>5. \A u \in Threads \ {t} : pc'[u] = pc[u] /\ call'[u] = call[u]
    BY <1>1 DEF DrainSpawns
<1>6. \A u \in Threads : ~DrainWorker(u)
    BY <1>2 DEF DrainedInv, DrainWorksAlone
<1>7. \A u \in Threads \ {t} : ~DrainWorker(u)'
    BY <1>5, <1>6 DEF DrainWorker, InDrainCommit
<1>8. DrainIsRemembered'
    BY <1>1, <1>2 DEF DrainedInv, DrainIsRemembered, history
<1>9. DrainWorksAlone'
    BY <1>2, <1>4, <1>7 DEF DrainWorksAlone, DrainWorker
<1>10. PassesAreThorough'
    <2> SUFFICES ASSUME Unhindered, ~drain.progress, NEW r \in Sessions \ (drain.todo \ {s}),
                        AllOwned(r)
                 PROVE  Delivered(r) \/ WorksOn(t, r)'
        BY <1>1, <1>2 DEF PassesAreThorough, Unhindered, Delivered, AllOwned, history
    <2>1. CASE r = s
        BY <1>3, <1>4, <2>1 DEF WorksOn, DrainWorker, InDrainCommit, CommitPCs
    <2>2. CASE r # s
        BY <1>2, <1>6, <2>2 DEF DrainedInv, PassesAreThorough, WorksOn
    <2> QED BY <2>1, <2>2
<1> QED BY <1>8, <1>9, <1>10 DEF DrainedInv

\* The worker comes home: if its commit did nothing, there was nothing to do.
LEMMA DrainJoinsItsWorker ==
    ASSUME Inv, DrainedInv, NEW t \in Threads, DrainJoinsWorker(t)
    PROVE  DrainedInv'
<1>1. /\ pc \in [Threads -> PCs] /\ call \in [Threads -> Call] /\ drain \in Drain
      /\ UNCHANGED history /\ pc[t] = "drainReturned"
    BY DEF DrainJoinsWorker, Inv, TypeOK
<1>2. /\ drain.pc = "worker" /\ drain'.pc = "next" /\ drain'.todo = drain.todo
      /\ drain'.expired = drain.expired
      /\ drain'.goal = drain.goal /\ drain'.failed = drain.failed
      /\ drain'.progress = (drain.progress \/ call[t].ok)
    BY <1>1 DEF DrainJoinsWorker, Drain
<1>3. /\ pc'[t] = Idle /\ \A u \in Threads \ {t} : pc'[u] = pc[u] /\ call'[u] = call[u]
    BY <1>1 DEF DrainJoinsWorker, Finish
<1>4. DrainWorker(t)
    BY <1>1 DEF DrainWorker
<1>5. ASSUME NEW u \in Threads
      PROVE  /\ DrainWorker(u)' => u # t /\ DrainWorker(u)
             /\ InDrainCommit(u)' => call'[u].wait
    BY <1>3 DEF DrainedInv, DrainWorksAlone, DrainWorker, InDrainCommit, CommitPCs, Idle
<1>6. ~drain.expired => \A u \in Threads \ {t} : ~DrainWorker(u)
    BY <1>4 DEF DrainedInv, DrainWorksAlone
<1>7. DrainIsRemembered'
    BY <1>1, <1>2 DEF DrainedInv, DrainIsRemembered, history
<1>8. DrainWorksAlone'
    <2>1. \A u \in Threads : InDrainCommit(u)' => call'[u].wait
        BY <1>5 DEF InDrainCommit
    <2>2. ~drain'.expired => \A u \in Threads : ~DrainWorker(u)'
        BY <1>2, <1>5, <1>6 DEF DrainWorker, InDrainCommit
    <2> QED BY <2>1, <2>2 DEF DrainWorksAlone
<1>9. PassesAreThorough'
    <2> SUFFICES ASSUME Unhindered, ~drain.progress, ~call[t].ok,
                        NEW s \in Sessions \ drain.todo, AllOwned(s)
                 PROVE  Delivered(s)
        BY <1>1, <1>2 DEF PassesAreThorough, Unhindered, Delivered, AllOwned, history
    <2>1. Delivered(s) \/ \E u \in Threads : WorksOn(u, s)
        BY <1>2 DEF DrainedInv, PassesAreThorough
    <2>2. ~WorksOn(t, s)
        BY <1>1 DEF WorksOn, CommitPCs
    <2> QED BY <1>6, <2>1, <2>2 DEF Unhindered, WorksOn
<1> QED BY <1>7, <1>8, <1>9 DEF DrainedInv

\* The pass ends, or the time does.
LEMMA DrainPassEnds ==
    ASSUME Inv, DrainedInv, DrainEndsPass \/ DrainExpires
    PROVE  DrainedInv'
<1>1. drain \in Drain /\ drain.progress \in BOOLEAN /\ drain.expired \in BOOLEAN
    BY DEF Inv, TypeOK, Drain
<1>2. CASE DrainEndsPass
    <2>1. /\ UNCHANGED <<pc, call, history>> /\ drain.pc = "next"
          /\ drain'.expired = drain.expired
          /\ drain'.pc = IF drain.progress /\ ~drain.expired THEN "pass" ELSE "done"
          /\ drain'.todo = {}
          /\ drain.todo = {} \/ drain.expired
          /\ drain'.goal = drain.goal /\ drain'.failed = drain.failed
          /\ drain'.progress = drain.progress
        BY <1>1, <1>2 DEF DrainEndsPass, Drain
    <2>2. drain'.pc \in {"pass", "done"} /\ (drain'.pc = "done" /\ ~drain.expired => ~drain.progress)
        BY <2>1
    <2>3. DrainIsRemembered' /\ DrainWorksAlone'
        BY <1>1, <2>1, <2>2, DrainMovesOn
    <2>4. PassesAreThorough'
        <3> SUFFICES ASSUME Unhindered, ~drain.progress, NEW s \in Sessions, AllOwned(s)
                     PROVE  Delivered(s) \/ \E t \in Threads : WorksOn(t, s)
            BY <2>1 DEF PassesAreThorough, Unhindered, Delivered, AllOwned, WorksOn,
                        DrainWorker, InDrainCommit, history
        <3> QED BY <2>1 DEF DrainedInv, PassesAreThorough, Unhindered
    <2> QED BY <2>3, <2>4 DEF DrainedInv
<1>3. CASE DrainExpires
    <2>1. /\ UNCHANGED <<pc, call, history>> /\ drain.pc # "off" /\ drain'.pc # "off"
          /\ drain'.expired = TRUE
          /\ drain'.goal = drain.goal /\ drain'.failed = drain.failed
        BY <1>1, <1>3 DEF DrainExpires, Drain
    <2>2. drain'.expired
        BY <2>1
    <2>3. drain'.pc = "done" /\ ~drain'.expired => drain'.todo = {} /\ ~drain'.progress
        BY <2>2
    <2>4. /\ UNCHANGED <<pc, call, history>> /\ drain.pc # "off" /\ drain'.pc # "off"
          /\ drain'.goal = drain.goal /\ drain'.failed = drain.failed
        BY <2>1
    <2>5. DrainIsRemembered' /\ DrainWorksAlone'
        BY <2>2, <2>3, <2>4, DrainMovesOn
    <2> QED BY <2>2, <2>5 DEF DrainedInv, PassesAreThorough, Unhindered
<1> QED BY <1>2, <1>3

\* Before anything runs, the drain has left nothing behind.
LEMMA InitDrainedInv == Init => DrainedInv
<1> SUFFICES ASSUME Init PROVE DrainedInv
    OBVIOUS
<1>1. /\ drain.pc = "off" /\ drain.expired = FALSE /\ failures = 0
      /\ drain.goal = [s \in Sessions |-> 0]
      /\ \A t \in Threads : pc[t] = Idle
      /\ \A s \in Sessions : Len(turns[s]) = 0
    BY DEF Init, NoDrain
<1>2. \A t \in Threads : ~DrainWorker(t) /\ ~InDrainCommit(t)
    BY <1>1 DEF DrainWorker, InDrainCommit, CommitPCs, Idle
<1> QED BY <1>1, <1>2 DEF DrainedInv, DrainIsRemembered, DrainWorksAlone, PassesAreThorough

\* No step of a thread or of the drain breaks what the drain has achieved.
LEMMA NextDrainedInv == Inv /\ Inv' /\ DrainedInv /\ [Next]_vars => DrainedInv'
<1> SUFFICES ASSUME Inv, Inv', DrainedInv, [Next]_vars PROVE DrainedInv'
    OBVIOUS
<1>1. CASE \/ \E s \in Sessions, a \in Agents : RegisterAgent(s, a)
           \/ \E s \in Sessions : UnregisterAgent(s)
           \/ \E s \in Sessions, a \in MarkAgents : MarkTurnCompleted(s, a)
    BY <1>1, TurnsGoOn, WorkGoesOn
<1>2. ASSUME NEW t \in Threads, EnterCommit(t) \/ WakeUp(t) PROVE DrainedInv'
    BY <1>2, CommitsGoOn, WorkGoesOn
<1>3. ASSUME NEW t \in Threads, CallSucceeds(t) \/ CallFails(t) PROVE DrainedInv'
    BY <1>3, CallsGoOn, WorkGoesOn
<1>4. ASSUME NEW t \in Threads,
             \/ EvictCheck(t) \/ EvictUnregister(t) \/ EvictDiscard(t)
             \/ UnregisterBackgroundCommitThread(t)
             \/ \E s \in Sessions, a \in Agents : Evict(t, s, a)
             \/ \E s \in Sessions, a \in Handles : RegisterBackgroundCommitThread(t, s, a)
      PROVE  DrainedInv'
    BY <1>4, OthersGoOn, WorkGoesOn
<1>5. CASE DrainBegins \/ DrainStep \/ DrainExpires
    BY <1>5, DrainIsSetUp, DrainStartsPassThoroughly, DrainSpawnsOneWorker,
       DrainJoinsItsWorker, DrainPassEnds DEF DrainStep
<1>6. CASE UNCHANGED vars
    <2>1. UNCHANGED <<pc, call, drain, turns, extracted, failures>>
        BY <1>6 DEF vars
    <2>2. HistoryGrows
        BY <2>1 DEF HistoryGrows, AllOwned, Inv, TypeOK
    <2> QED BY <2>1, <2>2, StandingGoesOn, WorkGoesOn
<1> QED BY <1>1, <1>2, <1>3, <1>4, <1>5, <1>6 DEF Next, ThreadStep

(***************************************************************************)
(* drain_all_on_shutdown returns only after a pass in which no commit did  *)
(* anything, so without a timeout or a provider failure every turn that    *)
(* was complete when it began has been extracted, whoever was committing   *)
(* it at the time.                                                         *)
(***************************************************************************)
THEOREM TheDrainIsThorough == Spec => []DrainLeavesNothingBehind
<1>1. Inv /\ DrainedInv => DrainLeavesNothingBehind
    <2> SUFFICES ASSUME Inv, DrainedInv, drain.pc = "done", ~drain.expired,
                        failures = drain.failed, NEW s \in Sessions, AllOwned(s)
                 PROVE  Delivered(s)
        BY DEF DrainLeavesNothingBehind, AllOwned, Delivered
    <2>1. drain.todo = {} /\ ~drain.progress
        BY DEF DrainedInv, DrainIsRemembered
    <2>2. Delivered(s) \/ \E t \in Threads : WorksOn(t, s)
        BY <2>1 DEF DrainedInv, PassesAreThorough, Unhindered
    <2>3. \A t \in Threads : ~DrainWorker(t)
        BY DEF DrainedInv, DrainWorksAlone
    <2> QED BY <2>2, <2>3 DEF WorksOn
<1>2. Spec => []DrainedInv
    <2>1. Spec => []Inv
        BY Invariance
    <2> QED BY <2>1, InitDrainedInv, NextDrainedInv, PTL DEF Spec
<1> QED BY <1>1, <1>2, Invariance, PTL
-----------------------------------------------------------------------------
(***************************************************************************)
(* The module implements MemoryExtraction.  What of a session shows there  *)
(* is its turns, how many of them are settled, and the call it is in.      *)
(***************************************************************************)
SettledNow == [s \in Sessions |-> Settled(s)]

CallsNow == [s \in Sessions |-> CallOf(s)]

Same(s) == turns'[s] = turns[s] /\ Settled(s)' = Settled(s) /\ CallOf(s)' = CallOf(s)

\* The call a session is in is the call of the one thread that makes it.
LEMMA CallOfOne ==
    ASSUME NEW s \in Sessions, NEW t, Calls(s) = {t}
    PROVE  CallOf(s) = [agent |-> call[t].agent, upTo |-> base[s] + call[t].captured]
<1>1. (CHOOSE u \in {t} : TRUE) = t
    OBVIOUS
<1> QED BY <1>1 DEF CallOf

\* The same after a step.
LEMMA NextCallOfOne ==
    ASSUME NEW s \in Sessions, NEW t, Calls(s)' = {t}
    PROVE  CallOf(s)' = [agent |-> call'[t].agent, upTo |-> base'[s] + call'[t].captured]
<1>1. (CHOOSE u \in {t} : TRUE) = t
    OBVIOUS
<1> QED BY <1>1 DEF CallOf

\* A session nobody calls for is in no call.
LEMMA CallOfNone ==
    ASSUME NEW s \in Sessions
    PROVE  /\ Calls(s) = {} => CallOf(s) = Extraction!NoCall
           /\ Calls(s)' = {} => CallOf(s)' = Extraction!NoCall
BY DEF CallOf, Extraction!NoCall

\* A call in flight covers at least one turn.
LEMMA CallCovers ==
    ASSUME Inv, NEW t \in Threads, pc[t] = "calling"
    PROVE  CallOf(call[t].sid) # Extraction!NoCall
<1> DEFINE s == call[t].sid
           e == entries[s]
<1>1. /\ s \in Sessions /\ Calls(s) = {t} /\ e \in Entry /\ Captures(s, t)
      /\ IsCut(e) /\ base[s] \in Nat
    BY InCall DEF Inv, TypeOK, Intact
<1>2. Len(e.segments) > 0 /\ e.segments[1].end = call[t].captured
    BY <1>1 DEF Captures
<1>3. 1 \in 1..Len(e.segments)
    BY <1>1, <1>2, SegmentsType
<1>4. /\ e.segments[1].start = e.committed + 1 /\ e.segments[1].start <= e.segments[1].end
      /\ e.committed \in Nat /\ e.segments[1].end \in Nat
    BY <1>1, <1>2, <1>3, SegmentsType DEF IsCut
<1>5. base[s] + call[t].captured # 0
    <2>1. base[s] \in Nat /\ call[t].captured \in Nat /\ call[t].captured > 0
        BY <1>1, <1>2, <1>4
    <2> HIDE DEF s
    <2> QED BY <2>1
<1>6. CallOf(s) = [agent |-> call[t].agent, upTo |-> base[s] + call[t].captured]
    BY <1>1, CallOfOne
<1>7. CallOf(s).upTo # 0 /\ Extraction!NoCall.upTo = 0
    BY <1>5, <1>6 DEF Extraction!NoCall
<1> QED BY <1>7

\* A session is in the same call while its caller and what that captured stay.
LEMMA CallStays ==
    ASSUME Inv, NEW s \in Sessions, Calls(s)' = Calls(s), \A t \in Calls(s) : call'[t] = call[t],
           Calls(s) # {} => base'[s] = base[s]
    PROVE  CallOf(s)' = CallOf(s)
<1>1. CASE Calls(s) = {}
    BY <1>1, CallOfNone
<1>2. ASSUME NEW t \in Calls(s) PROVE CallOf(s)' = CallOf(s)
    <2>1. Calls(s) = {t}
        BY <1>2 DEF Inv, Intact, Serial
    <2> QED BY <1>2, <2>1, CallOfOne, NextCallOfOne
<1> QED BY <1>1, <1>2

\* A session whose work, turns and calls are as before shows no change.
LEMMA SameWorkIsSame ==
    ASSUME Inv, NEW s \in Sessions, SameWork(entries[s], entries'[s]),
           turns'[s] = turns[s], base'[s] = base[s],
           Calls(s)' = Calls(s), \A t \in Calls(s) : call'[t] = call[t]
    PROVE  Same(s)
<1>1. Settled(s)' = Settled(s)
    BY DEF Settled, SameWork
<1> QED BY <1>1, CallStays DEF Same

\* A step on one session changes what shows of that session alone.
LEMMA OthersStay ==
    ASSUME NEW s \in Sessions, \A r \in Sessions \ {s} : Same(r)
    PROVE  /\ SettledNow' = [SettledNow EXCEPT ![s] = Settled(s)']
           /\ CallsNow' = [CallsNow EXCEPT ![s] = CallOf(s)']
           /\ SettledNow[s] = Settled(s) /\ CallsNow[s] = CallOf(s)
BY DEF SettledNow, CallsNow, Same

\* A step that shows in no session is none of MemoryExtraction's.
LEMMA MapsToStutter ==
    ASSUME turns' = turns, \A s \in Sessions : Same(s)
    PROVE  UNCHANGED Extraction!vars
<1>1. SettledNow' = SettledNow /\ CallsNow' = CallsNow
    BY DEF SettledNow, CallsNow, Same
<1> QED BY <1>1 DEF Extraction!vars, SettledNow, CallsNow

\* A step that touches nobody's work does not show.
LEMMA NoWorkIsStutter ==
    ASSUME Inv, \A r \in Sessions : SameWork(entries[r], entries'[r]),
           turns' = turns, base' = base,
           \A t \in Threads : pc[t] = "calling" \/ pc'[t] = "calling"
                                => pc'[t] = pc[t] /\ call'[t] = call[t]
    PROVE  UNCHANGED Extraction!vars
<1>1. ASSUME NEW r \in Sessions PROVE Same(r)
    <2>1. Calls(r)' = Calls(r) /\ \A t \in Calls(r) : call'[t] = call[t]
        BY DEF Calls
    <2> QED BY <2>1, SameWorkIsSame
<1> QED BY <1>1, MapsToStutter

\* Neither does a step of one thread that is not in a call.
LEMMA QuietIsStutter ==
    ASSUME Inv, NEW t \in Threads, UNCHANGED <<entries, turns, base>>,
           pc[t] # "calling", pc'[t] # "calling",
           \A u \in Threads \ {t} : pc'[u] = pc[u] /\ call'[u] = call[u]
    PROVE  UNCHANGED Extraction!vars
<1>1. \A r \in Sessions : SameWork(entries[r], entries'[r])
    BY DEF SameWork
<1> QED BY <1>1, NoWorkIsStutter

\* register_agent does not show: a new entry takes the session's turns so far as settled.
LEMMA RegisterAgentIsStutter ==
    ASSUME Inv, NEW s \in Sessions, NEW a \in Agents, RegisterAgent(s, a)
    PROVE  UNCHANGED Extraction!vars
<1> DEFINE f == [Ensure(entries[s]) EXCEPT !.agent = a]
<1>1. TypeOK /\ entries[s] \in Entry /\ Ensure(entries[s]) \in Entry /\ Ensure(entries[s]).present
    BY EnsureType DEF Inv, TypeOK
<1>2. entries' = [entries EXCEPT ![s] = f] /\ UNCHANGED <<pc, call, turns>>
    BY DEF RegisterAgent
<1>3. entries'[s] = f /\ \A r \in Sessions \ {s} : entries'[r] = entries[r]
    BY <1>1, <1>2 DEF TypeOK
<1>4. /\ f.present /\ f.committed = Ensure(entries[s]).committed
      /\ \A r \in Sessions : Calls(r)' = Calls(r)
    BY <1>1, <1>2 DEF Entry, Calls
<1> HIDE DEF f
<1>5. /\ base'[s] = IF entries[s].present THEN base[s] ELSE Len(turns[s])
      /\ \A r \in Sessions \ {s} : base'[r] = base[r]
    BY <1>1 DEF RegisterAgent, TypeOK
<1>6. ASSUME NEW r \in Sessions \ {s} PROVE Same(r)
    BY <1>2, <1>3, <1>4, <1>5, SameWorkIsSame DEF SameWork
<1>7. Same(s)
    <2>1. Calls(s) # {} => entries[s].present
        <3>1. entries[s].inFlight <=> Calls(s) # {}
            BY DEF Inv, Intact, Serial
        <3>2. ~entries[s].present => entries[s] = Absent
            BY <1>1 DEF TypeOK
        <3>3. ~Absent.inFlight
            BY DEF Absent
        <3> QED BY <3>1, <3>2, <3>3
    <2>2. CallOf(s)' = CallOf(s)
        BY <1>2, <1>4, <1>5, <2>1, CallStays
    <2>3. Settled(s)' = Settled(s)
        <3>1. CASE entries[s].present
            BY <1>3, <1>4, <1>5, <3>1 DEF Settled, Ensure
        <3>2. CASE ~entries[s].present
            <4>1. f.committed = 0 /\ Len(turns[s]) \in Nat
                BY <1>1, <1>4, <3>2 DEF Ensure, NewEntry, Absent, TypeOK
            <4> QED BY <1>2, <1>3, <1>4, <1>5, <3>2, <4>1 DEF Settled
        <3> QED BY <3>1, <3>2
    <2> QED BY <1>2, <2>2, <2>3 DEF Same
<1> QED BY <1>2, <1>6, <1>7, MapsToStutter

\* unregister_agent does not show.
LEMMA UnregisterAgentIsStutter ==
    ASSUME Inv, NEW s \in Sessions, UnregisterAgent(s)
    PROVE  UNCHANGED Extraction!vars
<1>1. entries \in [Sessions -> Entry]
    BY DEF Inv, TypeOK
<1>2. \A r \in Sessions : SameWork(entries[r], entries'[r])
    BY <1>1 DEF UnregisterAgent, SameWork, Entry
<1> QED BY <1>2, NoWorkIsStutter DEF UnregisterAgent, history

\* mark_turn_completed completes a turn, and settles none.
LEMMA MarkTurnCompletedCompletes ==
    ASSUME Inv, NEW s \in Sessions, NEW a \in MarkAgents, MarkTurnCompleted(s, a)
    PROVE  Extraction!Complete(s)
<1> DEFINE e == Ensure(entries[s])
           owner == IF a # NoAgent THEN a ELSE e.agent
           f == Grow(e, owner)
<1>1. TypeOK /\ entries[s] \in Entry /\ e \in Entry /\ e.present
    BY EnsureType DEF Inv, TypeOK
<1>2. owner \in Handles
    BY <1>1, MarkAssumption DEF Handles, Entry
<1>3. /\ entries' = [entries EXCEPT ![s] = f]
      /\ turns' = [turns EXCEPT ![s] = Append(@, owner)]
      /\ base' = IF entries[s].present THEN base ELSE [base EXCEPT ![s] = Len(turns[s])]
      /\ UNCHANGED <<pc, call>>
    BY DEF MarkTurnCompleted, Grow
<1>4. f.present /\ f.committed = e.committed
    BY <1>1 DEF Grow, Entry
<1>5. /\ ~entries[s].present => e.committed = 0
      /\ entries[s].present => e = entries[s]
    BY DEF Ensure, NewEntry, Absent
<1>6. Calls(s) # {} => entries[s].present
    <2>1. entries[s].inFlight <=> Calls(s) # {}
        BY DEF Inv, Intact, Serial
    <2>2. ~entries[s].present => entries[s] = Absent
        BY <1>1 DEF TypeOK
    <2>3. ~Absent.inFlight
        BY DEF Absent
    <2> QED BY <2>1, <2>2, <2>3
<1> HIDE DEF f, e, owner
<1>7. /\ entries'[s] = f /\ \A r \in Sessions \ {s} : entries'[r] = entries[r]
      /\ base'[s] = IF entries[s].present THEN base[s] ELSE Len(turns[s])
      /\ \A r \in Sessions \ {s} : base'[r] = base[r] /\ turns'[r] = turns[r]
      /\ \A r \in Sessions : Calls(r)' = Calls(r)
    BY <1>1, <1>3 DEF TypeOK, Calls
<1>8. \A r \in Sessions \ {s} : Same(r)
    BY <1>3, <1>7, SameWorkIsSame DEF SameWork
<1>9. CallOf(s)' = CallOf(s)
    BY <1>3, <1>6, <1>7, CallStays
<1>10. Settled(s)' = Settled(s)
    <2>1. CASE entries[s].present
        BY <1>4, <1>5, <1>7, <2>1 DEF Settled
    <2>2. CASE ~entries[s].present
        <3>1. Len(turns[s]) \in Nat
            BY <1>1 DEF TypeOK
        <3> QED BY <1>4, <1>5, <1>7, <2>2, <3>1 DEF Settled
    <2> QED BY <2>1, <2>2
<1>11. SettledNow' = SettledNow /\ CallsNow' = CallsNow
    BY <1>8, <1>9, <1>10 DEF SettledNow, CallsNow, Same
<1> QED BY <1>2, <1>3, <1>11 DEF Extraction!Complete, SettledNow, CallsNow

\* Taking the in-flight guard begins a call: the agent owns the first segment, or nobody does.
LEMMA StartCallBegins ==
    ASSUME Inv, Inv', NEW t \in Threads, NEW s \in Sessions, NEW a \in Handles,
           StartCall(t, s, a), ~entries[s].inFlight, pc[t] # "calling", UNCHANGED <<turns, base>>
    PROVE  Extraction!Begin(s)
<1> DEFINE e == entries[s]
           agent == EffectiveAgent(e, a)
           segs == e.segments
           upTo == base[s] + segs[1].end
<1>1. TypeOK /\ e \in Entry /\ Intact(s) /\ IsCut(e) /\ Bounded(e) /\ CanStartCall(e, a)
    BY DEF Inv, TypeOK, Intact, StartCall
<1>2. /\ Len(segs) > 0 /\ agent \in Handles /\ segs[1].agent \in {agent, NoAgent} /\ e.present
      /\ agent # NoAgent
    BY <1>1, EffectiveAgentType DEF CanStartCall
<1>3. 1 \in 1..Len(segs)
    BY <1>1, <1>2, SegmentsType
<1>4. /\ segs[1].start = e.committed + 1 /\ segs[1].start <= segs[1].end
      /\ segs[1].end <= e.generation /\ base[s] + e.generation = Len(turns[s])
      /\ segs[1].end \in Nat /\ e.committed \in Nat /\ e.generation \in Nat
      /\ base[s] \in Nat /\ Len(turns[s]) \in Nat
    BY <1>1, <1>2, <1>3, SegmentsType DEF TypeOK, Bounded, IsCut, Intact, Counted
<1>5. FirstBeyond(segs, e.committed) = 1
    BY <1>1, CutStarts
<1>6. /\ pc' = [pc EXCEPT ![t] = "calling"]
      /\ call' = [call EXCEPT ![t] = [call[t] EXCEPT !.agent = agent, !.captured = segs[1].end,
                                         !.seen = Len(turns[s]), !.sid = s, !.ok = FALSE]]
    BY <1>1, <1>5 DEF StartCall, TypeOK
<1>7. /\ call'[t].agent = agent /\ call'[t].captured = segs[1].end /\ call'[t].sid = s
      /\ pc'[t] = "calling" /\ \A u \in Threads \ {t} : call'[u] = call[u] /\ pc'[u] = pc[u]
    BY <1>1, <1>6 DEF TypeOK, Call
<1>8. /\ entries'[s].present /\ entries'[s].committed = e.committed
      /\ \A r \in Sessions \ {s} : entries'[r] = entries[r]
    <2>1. entries' = [entries EXCEPT ![s].segments[1].agent = agent, ![s].inFlight = TRUE]
        BY <1>5 DEF StartCall
    <2>2. entries \in [Sessions -> Entry]
        BY <1>1 DEF TypeOK
    <2> QED BY <1>2, <2>1, <2>2 DEF Entry
<1>9. Settled(s) = base[s] + e.committed /\ Settled(s) \in Nat /\ upTo \in Nat
    <2>1. Settled(s) = base[s] + e.committed
        BY <1>2 DEF Settled
    <2>2. base[s] + e.committed \in Nat /\ upTo \in Nat
        <3> DEFINE last == segs[1].end
                   c == e.committed
                   b == base[s]
        <3>1. last \in Nat /\ c \in Nat /\ b \in Nat
            BY <1>4
        <3>2. b + c \in Nat /\ b + last \in Nat
            <4> HIDE DEF last, c, b
            <4> QED BY <3>1
        <3> QED BY <3>2
    <2> QED BY <2>1, <2>2
<1>10. upTo \in Settled(s) + 1 .. Len(turns[s])
    <2>1. Settled(s) + 1 <= upTo /\ upTo <= Len(turns[s])
        <3> DEFINE first == segs[1].start
                   last == segs[1].end
                   c == e.committed
                   g == e.generation
                   b == base[s]
        <3>1. first = c + 1 /\ first <= last /\ last <= g /\ b + g = Len(turns[s])
              /\ last \in Nat /\ c \in Nat /\ g \in Nat /\ b \in Nat
              /\ Settled(s) = b + c /\ upTo = b + last
            BY <1>4, <1>9
        <3> HIDE DEF first, last, c, g, b, upTo
        <3> QED BY <3>1
    <2> QED BY <1>4, <1>9, <2>1
<1>11. ASSUME NEW i \in Settled(s) + 1 .. upTo PROVE turns[s][i] \in {agent, NoAgent}
    <2>1. i - base[s] \in segs[1].start..segs[1].end /\ base[s] + (i - base[s]) = i
        <3> DEFINE first == segs[1].start
                   last == segs[1].end
                   c == e.committed
                   b == base[s]
        <3>1. first = c + 1 /\ last \in Nat /\ c \in Nat /\ b \in Nat
              /\ Settled(s) = b + c /\ upTo = b + last
            BY <1>4, <1>9
        <3>2. i - b \in first..last /\ b + (i - b) = i
            <4> HIDE DEF first, last, c, b, upTo
            <4> QED BY <3>1
        <3> QED BY <3>2
    <2>2. turns[s][base[s] + (i - base[s])] \in {segs[1].agent, NoAgent}
        BY <1>1, <1>3, <2>1 DEF Intact, Owned
    <2> QED BY <1>2, <2>1, <2>2
<1> HIDE DEF e, agent, segs, upTo
<1>12. Calls(s) = {} /\ Calls(s)' = {t}
    BY <1>1, <1>7 DEF Intact, Serial, Calls
<1>13. \A r \in Sessions \ {s} : Same(r)
    <2>1. \A r \in Sessions \ {s} : Calls(r)' = Calls(r) /\ \A u \in Calls(r) : call'[u] = call[u]
        BY <1>7 DEF Calls
    <2> QED BY <1>8, <2>1, SameWorkIsSame DEF SameWork
<1>14. Settled(s)' = Settled(s)
    BY <1>2, <1>8 DEF Settled, e
<1>15. CallOf(s) = Extraction!NoCall /\ CallOf(s)' = [agent |-> agent, upTo |-> upTo]
    BY <1>7, <1>12, CallOfNone, NextCallOfOne DEF upTo
<1>16. /\ SettledNow' = SettledNow /\ SettledNow[s] = Settled(s)
       /\ CallsNow' = [CallsNow EXCEPT ![s] = [agent |-> agent, upTo |-> upTo]]
       /\ CallsNow[s] = Extraction!NoCall
    BY <1>13, <1>14, <1>15, OthersStay DEF SettledNow, Same
<1>17. \E ag \in Handles \ {NoAgent}, n \in SettledNow[s] + 1 .. Len(turns[s]) :
          /\ \A i \in SettledNow[s] + 1 .. n : turns[s][i] \in {ag, NoAgent}
          /\ CallsNow' = [CallsNow EXCEPT ![s] = [agent |-> ag, upTo |-> n]]
    BY <1>2, <1>10, <1>11, <1>16
<1> QED BY <1>16, <1>17 DEF Extraction!Begin, SettledNow, CallsNow

\* A call that returns leaves its session in none, and the other sessions in theirs.
LEMMA CallReturns ==
    ASSUME Inv, NEW t \in Threads, NEW s \in Sessions, s = call[t].sid, pc[t] = "calling",
           NEW ok \in BOOLEAN, Returns(t, ok), UNCHANGED <<turns, base>>,
           \A r \in Sessions \ {s} : entries'[r] = entries[r]
    PROVE  /\ SettledNow' = [SettledNow EXCEPT ![s] = Settled(s)']
           /\ CallsNow' = [CallsNow EXCEPT ![s] = Extraction!NoCall]
           /\ CallsNow[s] = CallOf(s) /\ CallOf(s) # Extraction!NoCall
<1>1. TypeOK /\ Calls(s) = {t}
    BY InCall DEF Inv
<1>2. pc'[t] # "calling" /\ \A u \in Threads \ {t} : pc'[u] = pc[u] /\ call'[u] = call[u]
    BY <1>1, ReturnsType
<1>3. Calls(s)' = {}
    <2>1. \A u \in Calls(s)' : u \in Calls(s) /\ u # t
        BY <1>2 DEF Calls
    <2> QED BY <1>1, <2>1
<1>4. \A r \in Sessions \ {s} : Calls(r)' = Calls(r) /\ \A u \in Calls(r) : call'[u] = call[u]
    BY <1>2 DEF Calls
<1>5. \A r \in Sessions \ {s} : Same(r)
    BY <1>4, SameWorkIsSame DEF SameWork
<1>6. CallOf(s)' = Extraction!NoCall
    BY <1>3, CallOfNone
<1>7. CallOf(s) # Extraction!NoCall
    BY CallCovers
<1> QED BY <1>5, <1>6, <1>7, OthersStay

\* A call that succeeds settles the turns it was begun for.
LEMMA CallSucceedsMaps ==
    ASSUME Inv, NEW t \in Threads, NEW s \in Sessions, s = call[t].sid, CallSucceeds(t)
    PROVE  Extraction!Succeed(s)
<1> DEFINE e == entries[s]
           f == Commit(e)
           c == e.segments[1].end
<1>1. /\ TypeOK /\ e \in Entry /\ Calls(s) = {t} /\ e.present /\ Captures(s, t)
      /\ IsCut(e) /\ Bounded(e) /\ pc[t] = "calling"
    BY InCall DEF Inv, Intact, CallSucceeds
<1>2. Len(e.segments) > 0 /\ c = call[t].captured
    BY <1>1 DEF Captures
<1>3. f.present /\ f.committed = c
    BY <1>1 DEF Commit, Entry
<1>4. entries' = [entries EXCEPT ![s] = f]
    <2>1. c > e.committed
        BY <1>1, <1>2, <1>3, CommittedCut
    <2> QED BY <1>1, <1>2, <2>1 DEF CallSucceeds, Commit
<1> HIDE DEF f, e, c
<1>5. entries'[s] = f /\ \A r \in Sessions \ {s} : entries'[r] = entries[r]
    BY <1>1, <1>4 DEF TypeOK
<1>6. UNCHANGED <<turns, base>> /\ Returns(t, TRUE)
    BY DEF CallSucceeds
<1>7. Settled(s)' = CallOf(s).upTo
    <2>1. Settled(s)' = base[s] + c
        BY <1>3, <1>5, <1>6 DEF Settled
    <2>2. CallOf(s).upTo = base[s] + call[t].captured
        BY <1>1, CallOfOne
    <2> QED BY <1>2, <2>1, <2>2
<1>8. /\ CallsNow[s] # Extraction!NoCall
      /\ SettledNow' = [SettledNow EXCEPT ![s] = CallsNow[s].upTo]
      /\ CallsNow' = [CallsNow EXCEPT ![s] = Extraction!NoCall]
    BY <1>1, <1>5, <1>6, <1>7, CallReturns
<1> QED BY <1>6, <1>8 DEF Extraction!Succeed, SettledNow, CallsNow

\* A call that fails settles nothing.
LEMMA CallFailsMaps ==
    ASSUME Inv, NEW t \in Threads, NEW s \in Sessions, s = call[t].sid, CallFails(t)
    PROVE  Extraction!Fail(s)
<1> DEFINE f == [entries[s] EXCEPT !.inFlight = FALSE]
<1>1. TypeOK /\ entries[s] \in Entry /\ entries[s].present /\ pc[t] = "calling"
    BY InCall DEF Inv, CallFails
<1>2. f.present /\ f.committed = entries[s].committed
    BY <1>1 DEF Entry
<1>3. entries' = [entries EXCEPT ![s] = f] /\ UNCHANGED <<turns, base>> /\ Returns(t, FALSE)
    BY <1>1 DEF CallFails
<1> HIDE DEF f
<1>4. entries'[s] = f /\ \A r \in Sessions \ {s} : entries'[r] = entries[r]
    BY <1>1, <1>3 DEF TypeOK
<1>5. Settled(s)' = Settled(s)
    BY <1>1, <1>2, <1>3, <1>4 DEF Settled
<1>6. /\ CallsNow[s] # Extraction!NoCall
      /\ SettledNow' = SettledNow
      /\ CallsNow' = [CallsNow EXCEPT ![s] = Extraction!NoCall]
    <2>1. SettledNow' = [SettledNow EXCEPT ![s] = Settled(s)]
        BY <1>1, <1>3, <1>4, <1>5, CallReturns
    <2>2. SettledNow' = SettledNow
        BY <2>1 DEF SettledNow
    <2> QED BY <1>1, <1>3, <1>4, <2>2, CallReturns
<1> QED BY <1>3, <1>6 DEF Extraction!Fail, SettledNow, CallsNow

\* A commit begins a call, or does not show: it waits, or returns False.
LEMMA CommitsMap ==
    ASSUME Inv, Inv', NEW t \in Threads, EnterCommit(t) \/ WakeUp(t)
    PROVE  [Extraction!Next]_Extraction!vars
<1> SUFFICES ASSUME NEW s \in Sessions, s = call[t].sid
             PROVE  [Extraction!Next]_Extraction!vars
    BY DEF Inv, TypeOK, Call
<1>1. /\ TypeOK /\ call[t].arg \in Handles /\ UNCHANGED <<turns, base>> /\ pc[t] # "calling"
    BY DEF EnterCommit, WakeUp, history, Inv, TypeOK, Call
<1>2. CASE ~entries[s].inFlight /\ StartCall(t, s, call[t].arg)
    BY <1>1, <1>2, StartCallBegins DEF Extraction!Next
<1>3. CASE ReturnFalse(t)
    <2>1. pc'[t] # "calling" /\ \A u \in Threads \ {t} : pc'[u] = pc[u] /\ call'[u] = call[u]
        BY <1>1, <1>3, ReturnsType DEF ReturnFalse
    <2> QED BY <1>1, <1>3, <2>1, QuietIsStutter DEF ReturnFalse
<1>4. CASE pc' = [pc EXCEPT ![t] = "waiting"] /\ UNCHANGED <<entries, call>>
    <2>1. pc'[t] # "calling" /\ \A u \in Threads \ {t} : pc'[u] = pc[u] /\ call'[u] = call[u]
        BY <1>1, <1>4 DEF TypeOK
    <2> QED BY <1>1, <1>4, <2>1, QuietIsStutter
<1>5. CASE EnterCommit(t)
    BY <1>2, <1>3, <1>4, <1>5 DEF EnterCommit
<1>6. CASE WakeUp(t)
    BY <1>2, <1>3, <1>6 DEF WakeUp
<1> QED BY <1>5, <1>6

\* Forgetting an entry that is clean does not show: all of its turns are settled.
LEMMA EvictDiscardIsStutter ==
    ASSUME Inv, NEW t \in Threads, EvictDiscard(t)
    PROVE  UNCHANGED Extraction!vars
<1> SUFFICES ASSUME NEW s \in Sessions, s = call[t].sid PROVE UNCHANGED Extraction!vars
    BY DEF Inv, TypeOK, Call
<1> DEFINE e == entries[s]
<1>1. /\ TypeOK /\ e \in Entry /\ Intact(s) /\ pc[t] # "calling"
      /\ UNCHANGED <<turns, base>>
    BY DEF Inv, TypeOK, EvictDiscard, history
<1>2. pc'[t] # "calling" /\ \A u \in Threads \ {t} : pc'[u] = pc[u] /\ call'[u] = call[u]
    BY <1>1, FinishType DEF EvictDiscard
<1>3. CASE e.present /\ ~e.inFlight /\ ~Dirty(e)
    <2>1. entries'[s] = Absent /\ \A r \in Sessions \ {s} : entries'[r] = entries[r]
        BY <1>1, <1>3 DEF EvictDiscard, DiscardSession, TypeOK
    <2>2. \A r \in Sessions : Calls(r)' = Calls(r) /\ \A u \in Calls(r) : call'[u] = call[u]
        BY <1>1, <1>2 DEF Calls
    <2>3. Len(turns[s]) = base[s] + e.committed
        <3>1. e.committed \in Nat /\ e.generation \in Nat /\ e.committed <= e.generation
            BY <1>1 DEF Intact, IsCut, Entry
        <3>2. e.committed = e.generation
            BY <1>3, <3>1 DEF Dirty
        <3> QED BY <1>1, <1>3, <3>2 DEF Intact, Counted
    <2>4. Settled(s)' = Settled(s)
        BY <1>1, <1>3, <2>1, <2>3 DEF Settled, Absent
    <2>5. CallOf(s)' = CallOf(s)
        BY <1>1, <2>2, CallStays
    <2>6. \A r \in Sessions \ {s} : Same(r)
        BY <1>1, <2>1, <2>2, SameWorkIsSame DEF SameWork
    <2> QED BY <1>1, <2>4, <2>5, <2>6, MapsToStutter DEF Same
<1>4. CASE ~(e.present /\ ~e.inFlight /\ ~Dirty(e))
    <2>1. UNCHANGED entries
        BY <1>1, <1>4 DEF EvictDiscard, DiscardSession, TypeOK
    <2> QED BY <1>1, <1>2, <2>1, QuietIsStutter
<1> QED BY <1>3, <1>4

\* The rest of an eviction and the commits in the background do not show.
LEMMA OthersAreStutters ==
    ASSUME Inv, NEW t \in Threads,
           \/ EvictCheck(t) \/ EvictUnregister(t) \/ UnregisterBackgroundCommitThread(t)
           \/ \E s \in Sessions, a \in Agents : Evict(t, s, a)
           \/ \E s \in Sessions, a \in Handles : RegisterBackgroundCommitThread(t, s, a)
    PROVE  UNCHANGED Extraction!vars
<1>1. TypeOK /\ pc[t] # "calling" /\ UNCHANGED <<turns, base>>
    BY DEF Inv, EvictCheck, EvictUnregister, UnregisterBackgroundCommitThread, Evict,
           RegisterBackgroundCommitThread, history, Idle
<1>2. pc \in [Threads -> PCs] /\ call \in [Threads -> Call]
    BY <1>1 DEF TypeOK
<1>3. pc'[t] # "calling" /\ \A u \in Threads \ {t} : pc'[u] = pc[u] /\ call'[u] = call[u]
    BY <1>1, <1>2, FinishType
        DEF EvictCheck, EvictUnregister, UnregisterBackgroundCommitThread, Evict,
            RegisterBackgroundCommitThread
<1>4. \A r \in Sessions : SameWork(entries[r], entries'[r])
    <2>1. CASE EvictUnregister(t)
        <3>1. entries \in [Sessions -> Entry] /\ call[t].sid \in Sessions
            BY <1>1 DEF TypeOK, Call
        <3> QED BY <2>1, <3>1 DEF EvictUnregister, SameWork, Entry
    <2>2. CASE UNCHANGED entries
        BY <2>2 DEF SameWork
    <2> QED BY <2>1, <2>2 DEF EvictCheck, UnregisterBackgroundCommitThread, Evict,
                              RegisterBackgroundCommitThread
<1> QED BY <1>1, <1>3, <1>4, NoWorkIsStutter

\* The drain does not show: what it commits, its workers' calls do.
LEMMA DrainIsStutter ==
    ASSUME Inv, DrainBegins \/ DrainStep \/ DrainExpires
    PROVE  UNCHANGED Extraction!vars
<1>1. TypeOK /\ pc \in [Threads -> PCs] /\ call \in [Threads -> Call]
    BY DEF Inv, TypeOK
<1>2. CASE UNCHANGED <<entries, pc, call, history>>
    <2>1. \A r \in Sessions : SameWork(entries[r], entries'[r])
        BY <1>2 DEF SameWork
    <2> QED BY <1>2, <2>1, NoWorkIsStutter DEF history
<1>3. ASSUME NEW t \in Threads, DrainJoinsWorker(t) PROVE UNCHANGED Extraction!vars
    BY <1>1, <1>3, FinishType, QuietIsStutter DEF DrainJoinsWorker, history
<1>4. ASSUME NEW t \in Threads, NEW s \in Sessions, DrainSpawns(t, s)
      PROVE  UNCHANGED Extraction!vars
    <2>1. /\ pc[t] # "calling" /\ pc'[t] # "calling" /\ UNCHANGED <<entries, turns, base>>
          /\ \A u \in Threads \ {t} : pc'[u] = pc[u] /\ call'[u] = call[u]
        BY <1>1, <1>4 DEF DrainSpawns, history, Idle
    <2> QED BY <2>1, QuietIsStutter
<1> QED BY <1>2, <1>3, <1>4
        DEF DrainBegins, DrainStep, DrainExpires, DrainSnapshotsThreads, DrainJoined,
            DrainStartsPass, DrainEndsPass, DrainJoinsThread

\* Every step is one of MemoryExtraction's, or none.
LEMMA NextMaps == Inv /\ Inv' /\ [Next]_vars => [Extraction!Next]_Extraction!vars
<1> SUFFICES ASSUME Inv, Inv', [Next]_vars PROVE [Extraction!Next]_Extraction!vars
    OBVIOUS
<1>1. ASSUME NEW s \in Sessions, NEW a \in MarkAgents, MarkTurnCompleted(s, a)
      PROVE  Extraction!Next
    BY <1>1, MarkTurnCompletedCompletes DEF Extraction!Next
<1>2. CASE \/ \E s \in Sessions, a \in Agents : RegisterAgent(s, a)
           \/ \E s \in Sessions : UnregisterAgent(s)
    BY <1>2, RegisterAgentIsStutter, UnregisterAgentIsStutter
<1>3. ASSUME NEW t \in Threads, EnterCommit(t) \/ WakeUp(t)
      PROVE  [Extraction!Next]_Extraction!vars
    BY <1>3, CommitsMap
<1>4. ASSUME NEW t \in Threads, CallSucceeds(t) \/ CallFails(t) PROVE Extraction!Next
    <2>1. call[t].sid \in Sessions
        BY DEF Inv, TypeOK, Call
    <2> QED BY <1>4, <2>1, CallSucceedsMaps, CallFailsMaps DEF Extraction!Next
<1>5. ASSUME NEW t \in Threads,
             \/ EvictCheck(t) \/ EvictUnregister(t) \/ EvictDiscard(t)
             \/ UnregisterBackgroundCommitThread(t)
             \/ \E s \in Sessions, a \in Agents : Evict(t, s, a)
             \/ \E s \in Sessions, a \in Handles : RegisterBackgroundCommitThread(t, s, a)
      PROVE  UNCHANGED Extraction!vars
    BY <1>5, EvictDiscardIsStutter, OthersAreStutters
<1>6. CASE DrainBegins \/ DrainStep \/ DrainExpires
    BY <1>6, DrainIsStutter
<1>7. CASE UNCHANGED vars
    <2>1. UNCHANGED <<entries, pc, call, turns, base>>
        BY <1>7 DEF vars
    <2>2. \A r \in Sessions : SameWork(entries[r], entries'[r])
        BY <2>1 DEF SameWork
    <2> QED BY <2>1, <2>2, NoWorkIsStutter
<1> QED BY <1>1, <1>2, <1>3, <1>4, <1>5, <1>6, <1>7 DEF Next, ThreadStep

(***************************************************************************)
(* api/session_lifecycle.py implements MemoryExtraction: a session's turns *)
(* are handed to their agents in order, by one call at a time, and only a  *)
(* call that succeeds settles turns, those that were complete when it      *)
(* began, through failures, rebuilt agents, evictions and the drain.       *)
(***************************************************************************)
THEOREM CommitsImplementExtraction == Spec => ImplementsExtraction
<1>1. Init => Extraction!Init
    <2> SUFFICES ASSUME Init PROVE Extraction!Init
        OBVIOUS
    <2>1. ASSUME NEW s \in Sessions
          PROVE  Settled(s) = 0 /\ CallOf(s) = Extraction!NoCall
        <3>1. entries[s] = Absent /\ turns[s] = <<>> /\ Calls(s) = {}
            BY DEF Init, Calls, Idle
        <3> QED BY <3>1, CallOfNone DEF Settled, Absent
    <2>2. /\ turns = [s \in Sessions |-> <<>>]
          /\ SettledNow = [s \in Sessions |-> 0]
          /\ CallsNow = [s \in Sessions |-> Extraction!NoCall]
        BY <2>1 DEF Init, SettledNow, CallsNow
    <2> QED BY <2>2 DEF Extraction!Init, SettledNow, CallsNow
<1> QED BY <1>1, NextMaps, Invariance, PTL DEF Spec, ImplementsExtraction, Extraction!Spec
=============================================================================
